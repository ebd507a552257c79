---------------------------- MODULE MCHeaderSync ----------------------------
(***************************************************************************)
(* Small instances of HeaderSync: a chain g a2 .. and a branch b3 .. that  *)
(* leaves it above a2 and carries more work.                               *)
(***************************************************************************)
EXTENDS HeaderSync

\* Work 1 a block, so the branch to b4 outweighs the one to a3.
TwoBranches == {"g", "a2", "a3", "b3", "b4"}
ParentOf == ("a2" :> "g" @@ "a3" :> "a2" @@ "b3" :> "a2" @@ "b4" :> "b3")
EqualWork == [b \in TwoBranches |-> 1]

\* The same with both branches one longer: the fork is deeper than one block.
LongBranches == {"g", "a2", "a3", "a4", "b3", "b4", "b5"}
LongParentOf ==
  ("a2" :> "g" @@ "a3" :> "a2" @@ "a4" :> "a3" @@ "b3" :> "a2" @@ "b4" :> "b3" @@ "b5" :> "b4")
LongWork == [b \in LongBranches |-> 1]

\* The same fork with a shorter branch that still carries more work.
DeepFork == {"g", "a2", "a3", "a4", "b3", "b4"}
DeepParentOf == ("a2" :> "g" @@ "a3" :> "a2" @@ "a4" :> "a3" @@ "b3" :> "a2" @@ "b4" :> "b3")
DeepWork == [b \in DeepFork |-> IF b = "b4" THEN 3 ELSE 1]
OneOnDeepBranch == ("p" :> "a3" @@ "q" :> "b4")

\* A locked b2 that a2 outweighs until b3 is mined.
LockedBranch == {"g", "a2", "b2", "b3"}
LockedParentOf == ("a2" :> "g" @@ "b2" :> "g" @@ "b3" :> "b2")
LockedWork == ("g" :> 1 @@ "a2" :> 2 @@ "b2" :> 1 @@ "b3" :> 2)
OneOnEach == ("p" :> "a2" @@ "q" :> "b2")
OneAhead == ("p" :> "b2" @@ "q" :> "b3")
LockB2 == {"b2"}
LockB3 == {"b3"}

TwoPeers == {"p", "q"}
BehindAndAhead == ("p" :> "a2" @@ "q" :> "a3")
OnePeer == {"p"}
LonePeer == ("p" :> "a3")
NoLocks == {}
\* What every passing run leaves out, and one situation less for each of the
\* runs that show it.
OneAtATime ==
  {"headers during a rewind", "headers before a lock is checked", "lock during a rewind"}
RewindRace == OneAtATime \ {"headers during a rewind"}
LockRace == OneAtATime \ {"lock during a rewind"}
LockUncheckedRace == OneAtATime \ {"headers before a lock is checked"}
=============================================================================
