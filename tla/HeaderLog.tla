----------------------------- MODULE HeaderLog -----------------------------
(***************************************************************************)
(* What chain.db promises its readers, whatever the header sync does in    *)
(* memory: the headers it holds are one chain without a gap, and it only   *)
(* ever changes by losing a top part or by gaining linked headers on top.  *)
(***************************************************************************)
EXTENDS Integers, Sequences

CONSTANTS Blocks, Parent        \* the block tree: Parent[b] for every b but the first

VARIABLE log                    \* the headers from height 1 up

Linked(chain) ==
  \A i \in 1..Len(chain) - 1 :
    chain[i + 1] \in DOMAIN Parent /\ chain[i] = Parent[chain[i + 1]]

Init == Len(log) >= 1 /\ Linked(log)

Drop == \E height \in 1..Len(log) : log' = SubSeq(log, 1, height)

Extend ==
  /\ Len(log') > Len(log) /\ SubSeq(log', 1, Len(log)) = log
  /\ Linked(log')

Spec == Init /\ [][Drop \/ Extend]_log
=============================================================================
