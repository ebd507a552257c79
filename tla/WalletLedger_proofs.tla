------------------------- MODULE WalletLedger_proofs -------------------------
(***************************************************************************)
(* Theorems about WalletLedger, for every set of transactions and coins,   *)
(* every length of the chain and every number of faults:                   *)
(*   - TypeCorrect, whatever situation is included;                        *)
(*   - LedgerFollowsChain, by LedgerInv, when OneRewind leaves out three   *)
(*     situations;                                                         *)
(*   - NoDoubleSpend, by Spending beside LedgerInv, when Careful leaves    *)
(*     out seven more.                                                     *)
(* Each situation left out loses the property on a small instance (README, *)
(* section 4).  First come the facts of SQL's writes as functions of what  *)
(* was stored, then one lemma per action and invariant.                    *)
(***************************************************************************)
EXTENDS WalletLedger, SequenceTheorems, TLAPS

-----------------------------------------------------------------------------
(* Types *)

Tasks ==
  [type : {"block"}, height : 1..MaxHeight, tx : Txs, spends : SUBSET UNION {Ins[t] : t \in Txs}]
    \union [type : {"cursor", "reset", "rewind"}, height : 1..MaxHeight]
    \union [type : {"incoming"}, tx : Txs]

TypeInv ==
  /\ TypeOK /\ queue \in Seq(Tasks)
  /\ seeded \subseteq UNION {Ins[t] : t \in Txs}
  /\ 1 <= scanned /\ 1 <= cursor /\ cursor <= MaxHeight
  /\ faults = [count |-> faults.count, orphaned |-> faults.orphaned]
  /\ faults.orphaned \subseteq Txs

LEMMA Consts ==
  /\ MaxHeight \in Nat /\ MaxHeight >= 1 /\ NoRow = MaxHeight + 1 /\ Nobody \notin Txs
  /\ Pays \subseteq Txs /\ Local \subseteq Txs /\ Settled \subseteq Pays /\ Settled \intersect Local = {}
  /\ Pending = 0 /\ MaxFaults \in Nat
BY LedgerAssumption DEF NoRow, Nobody, Pending

LEMMA TaskKinds ==
  ASSUME NEW task \in Tasks
  PROVE  /\ task.type \in {"block", "cursor", "reset", "rewind", "incoming"}
         /\ task.type = "block" =>
              /\ task.height \in 1..MaxHeight /\ task.tx \in Txs
              /\ task.spends \subseteq UNION {Ins[t] : t \in Txs}
         /\ task.type \in {"cursor", "reset", "rewind"} => task.height \in 1..MaxHeight
         /\ task.type = "incoming" => task.tx \in Txs
BY DEF Tasks

LEMMA Tailed ==
  ASSUME NEW S, NEW q \in Seq(S), q # <<>>
  PROVE /\ Tail(q) \in Seq(S) /\ Len(Tail(q)) = Len(q) - 1 /\ Len(q) \in Nat
        /\ 1 \in DOMAIN q /\ Head(q) = q[1] /\ Head(q) \in S
        /\ \A n \in DOMAIN Tail(q) : n + 1 \in DOMAIN q /\ Tail(q)[n] = q[n + 1]
        /\ \A n \in DOMAIN q : n # 1 => n - 1 \in DOMAIN Tail(q) /\ Tail(q)[n - 1] = q[n]
OBVIOUS

LEMMA Joined ==
  ASSUME NEW S, NEW q \in Seq(S), NEW r \in Seq(S)
  PROVE /\ q \o r \in Seq(S) /\ Len(q \o r) = Len(q) + Len(r)
        /\ \A n \in DOMAIN q : n \in DOMAIN (q \o r) /\ (q \o r)[n] = q[n]
        /\ \A n \in DOMAIN (q \o r) :
             \/ n \in DOMAIN q /\ (q \o r)[n] = q[n]
             \/ n \notin DOMAIN q /\ n - Len(q) \in DOMAIN r /\ (q \o r)[n] = r[n - Len(q)]
OBVIOUS

LEMMA InitType == Init => TypeInv
<1> SUFFICES ASSUME Init PROVE TypeInv
  OBVIOUS
<1>1. /\ at \in [Txs -> 0..MaxHeight] /\ tip \in 1..MaxHeight /\ mempool \subseteq Txs \ InChain
      /\ scanned \in 0..tip /\ coins \subseteq Pays /\ held \in BOOLEAN
  <2>1. at \in [Txs -> 0..MaxHeight] /\ tip \in 1..MaxHeight /\ scanned \in 0..tip
    BY Consts DEF Init
  <2>2. mempool \subseteq Txs \ InChain /\ coins \subseteq Pays /\ held \in BOOLEAN
    BY Consts DEF Init
  <2> QED
    BY <2>1, <2>2
<1>2. row \in [Txs -> 0..NoRow] /\ pushed \subseteq {t \in Local : row[t] # NoRow}
  BY Consts DEF Init
<1>3. /\ spentIn \in [Pays -> Txs \union {Nobody}] /\ spentAt \in [Pays -> 0..MaxHeight]
      /\ \A i \in Pays : spentAt[i] > 0 => spentIn[i] # Nobody
      /\ cursor \in 0..MaxHeight /\ call \in [Local -> {"idle", "built", "sent", "answered"}]
  BY Consts DEF Init
<1> QED
  BY <1>1, <1>2, <1>3, Consts DEF Init, TypeInv, TypeOK

\* What a task of the queue, or a call, may do to the rows.
StoreTyped ==
  /\ row \in [Txs -> 0..NoRow]
  /\ pushed \subseteq {t \in Local : row[t] # NoRow}
  /\ spentIn \in [Pays -> Txs \union {Nobody}]
  /\ spentAt \in [Pays -> 0..MaxHeight]
  /\ \A i \in Pays : spentAt[i] > 0 => spentIn[i] # Nobody
  /\ cursor \in 1..MaxHeight

LEMMA TypedStore == TypeInv => StoreTyped
BY Consts DEF TypeInv, TypeOK, StoreTyped

LEMMA ApplyBlockType ==
  ASSUME StoreTyped, NEW h \in 1..MaxHeight, NEW t \in Txs, NEW spends, ApplyBlock(h, t, spends)
  PROVE  StoreTyped'
<1> DEFINE known == {i \in spends \intersect Pays : row[i] # NoRow}
           losers == Losers(t, known)
           by == [i \in Pays |-> IF i \in known THEN t ELSE spentIn[i]]
           spent == [i \in Pays |-> IF i \in known \union Pinned(t) THEN h ELSE spentAt[i]]
           freed == Freed(losers, by, spent)
<1>1. /\ row' = [u \in Txs |-> IF u = t THEN h ELSE IF u \in losers THEN NoRow ELSE row[u]]
      /\ pushed' = pushed \ losers
      /\ spentIn' = [i \in Pays |-> IF i \in freed THEN Nobody ELSE by[i]]
      /\ spentAt' = [i \in Pays |-> IF i \in freed THEN 0 ELSE spent[i]]
      /\ cursor' = IF h > cursor THEN h ELSE cursor
  BY DEF ApplyBlock
<1>2. by \in [Pays -> Txs \union {Nobody}] /\ spent \in [Pays -> 0..MaxHeight]
  BY Consts DEF StoreTyped
<1>3. \A i \in Pays : spent[i] > 0 => by[i] # Nobody
  BY Consts DEF StoreTyped, Pinned
<1> HIDE DEF known, losers, by, spent, freed
<1>4. row' \in [Txs -> 0..NoRow] /\ cursor' \in 1..MaxHeight
  BY <1>1, Consts DEF StoreTyped
<1>5. pushed' \subseteq {u \in Local : row'[u] # NoRow}
  BY <1>1, Consts DEF StoreTyped
<1>6. /\ spentIn' \in [Pays -> Txs \union {Nobody}] /\ spentAt' \in [Pays -> 0..MaxHeight]
      /\ \A i \in Pays : spentAt'[i] > 0 => spentIn'[i] # Nobody
  BY <1>1, <1>2, <1>3, Consts
<1> QED
  BY <1>4, <1>5, <1>6 DEF StoreTyped

LEMMA RecordType ==
  ASSUME StoreTyped, NEW t \in Txs, NEW mine \in BOOLEAN, mine => t \in Local, RecordPending(t, mine)
  PROVE  StoreTyped'
<1>1. row' \in [Txs -> 0..NoRow] /\ cursor' \in 1..MaxHeight
  BY Consts DEF StoreTyped, RecordPending
<1>2. pushed' \subseteq {u \in Local : row'[u] # NoRow}
  BY Consts DEF StoreTyped, RecordPending
<1>3. /\ spentIn' \in [Pays -> Txs \union {Nobody}] /\ spentAt' \in [Pays -> 0..MaxHeight]
      /\ \A i \in Pays : spentAt'[i] > 0 => spentIn'[i] # Nobody
  BY Consts DEF StoreTyped, RecordPending
<1> QED
  BY <1>1, <1>2, <1>3 DEF StoreTyped

LEMMA RewindType ==
  ASSUME StoreTyped, NEW k \in 1..MaxHeight, RewindRows(k)
  PROVE  StoreTyped'
<1>1. row' \in [Txs -> 0..NoRow] /\ cursor' \in 1..MaxHeight
  BY Consts DEF StoreTyped, RewindRows
<1>2. pushed' \subseteq {u \in Local : row'[u] # NoRow}
  BY Consts DEF StoreTyped, RewindRows
<1>3. /\ spentIn' \in [Pays -> Txs \union {Nobody}] /\ spentAt' \in [Pays -> 0..MaxHeight]
      /\ \A i \in Pays : spentAt'[i] > 0 => spentIn'[i] # Nobody
  BY Consts DEF StoreTyped, RewindRows
<1> QED
  BY <1>1, <1>2, <1>3 DEF StoreTyped

\* The types of what the store does not hold.
RestTyped ==
  /\ at \in [Txs -> 0..MaxHeight] /\ tip \in 1..MaxHeight /\ mempool \subseteq Txs \ InChain
  /\ scanned \in 1..tip /\ coins \subseteq Pays /\ held \in BOOLEAN
  /\ seeded \subseteq UNION {Ins[t] : t \in Txs}
  /\ call \in [Local -> {"idle", "built", "sent", "answered"}]
  /\ queue \in Seq(Tasks)
  /\ faults = [count |-> faults.count, orphaned |-> faults.orphaned]
  /\ faults.orphaned \subseteq Txs

LEMMA TypeParts == TypeInv <=> StoreTyped /\ RestTyped
<1>1. TypeInv => StoreTyped
  BY TypedStore
<1>2. TypeInv => RestTyped
  BY Consts DEF TypeInv, TypeOK, RestTyped
<1>3. StoreTyped /\ RestTyped => TypeInv
  BY Consts DEF TypeInv, TypeOK, RestTyped, StoreTyped
<1> QED
  BY <1>1, <1>2, <1>3

LEMMA SeedType == ASSUME StoreTyped', Seed PROVE coins' \subseteq Pays /\ seeded' \subseteq UNION {Ins[t] : t \in Txs}
BY DEF Seed, Offered, UnconfirmedInputs

\* A step that changes calls only.
LEMMA CallType ==
  ASSUME RestTyped, NEW t \in Local, NEW state \in {"idle", "built", "sent", "answered"},
         call' = [call EXCEPT ![t] = state], UNCHANGED <<chain, scan, queue, faults.orphaned>>,
         faults' = faults \/ Fault
  PROVE  RestTyped'
<1>1. call' \in [Local -> {"idle", "built", "sent", "answered"}]
  BY DEF RestTyped
<1>2. faults' = [count |-> faults'.count, orphaned |-> faults'.orphaned] /\ faults'.orphaned \subseteq Txs
  BY DEF RestTyped, Fault
<1> QED
  BY <1>1, <1>2 DEF RestTyped, chain, scan, InChain

LEMMA EnterType == ASSUME RestTyped, NEW t \in Txs, Enter(t) PROVE RestTyped'
BY DEF RestTyped, Enter, scan, store, InChain

LEMMA FaultType ==
  ASSUME RestTyped, Fault
  PROVE  /\ faults' = [count |-> faults'.count, orphaned |-> faults'.orphaned]
         /\ faults'.orphaned = faults.orphaned
BY DEF RestTyped, Fault

LEMMA EvictType == ASSUME RestTyped, NEW t \in Txs, Evict(t) PROVE RestTyped'
<1>1. mempool' \subseteq mempool
  BY DEF Evict, Drop
<1> QED
  BY <1>1, FaultType DEF RestTyped, Evict, scan, store, InChain

LEMMA MineType == ASSUME RestTyped, NEW t \in Txs, Mine(t) PROVE RestTyped'
<1>1. at' \in [Txs -> 0..MaxHeight] /\ tip' \in 1..MaxHeight /\ scanned' \in 1..tip'
  BY Consts DEF RestTyped, Mine, scan
<1>2. mempool' \subseteq mempool \ {t} /\ InChain' \subseteq InChain \union {t}
  BY <1>1 DEF RestTyped, Mine, Drop, InChain
<1> QED
  BY <1>1, <1>2 DEF RestTyped, Mine, scan, store

LEMMA ReorgFacts ==
  ASSUME NEW k \in 1..MaxHeight, Reorg(k)
  PROVE  /\ k < tip /\ tip' = k /\ at' = [t \in Txs |-> IF at[t] > k THEN 0 ELSE at[t]]
         /\ mempool' \subseteq mempool \union {t \in Txs : at[t] > k}
         /\ scanned' = (IF scanned > k THEN k ELSE scanned) /\ held' = TRUE
         /\ queue' = queue \o <<[type |-> "reset", height |-> k], [type |-> "rewind", height |-> k]>>
         /\ faults' = [count |-> faults.count + 1,
                       orphaned |-> faults.orphaned \union {t \in Txs : at[t] > k}]
         /\ UNCHANGED <<coins, seeded, store, call>>
BY DEF Reorg

LEMMA ReorgType == ASSUME RestTyped, NEW k \in 1..MaxHeight, Reorg(k) PROVE RestTyped'
<1>0. /\ k < tip /\ tip' = k /\ at' = [t \in Txs |-> IF at[t] > k THEN 0 ELSE at[t]]
      /\ scanned' = (IF scanned > k THEN k ELSE scanned) /\ held' = TRUE
      /\ faults' = [count |-> faults.count + 1,
                    orphaned |-> faults.orphaned \union {t \in Txs : at[t] > k}]
      /\ UNCHANGED <<coins, seeded, store, call>>
  BY ReorgFacts
<1>1. at' \in [Txs -> 0..MaxHeight] /\ tip' \in 1..MaxHeight /\ scanned' \in 1..tip'
  BY <1>0, Consts DEF RestTyped
<1>2. mempool' \subseteq Txs \ InChain'
  <2>1. k \in Nat /\ \A t \in Txs : at[t] \in Nat
    BY Consts DEF RestTyped
  <2>2. \A t \in InChain' : t \in Txs /\ 0 < at[t] /\ at[t] <= k
    BY <2>1, <1>0 DEF InChain
  <2>3. mempool' \subseteq mempool \union {t \in Txs : at[t] > k}
    BY ReorgFacts
  <2>4. \A t \in mempool : t \in Txs /\ ~(at[t] > 0)
    BY DEF RestTyped, InChain
  <2> QED
    BY <2>1, <2>2, <2>3, <2>4
<1>3. queue' \in Seq(Tasks)
  <2>1. [type |-> "reset", height |-> k] \in Tasks /\ [type |-> "rewind", height |-> k] \in Tasks
    BY DEF Tasks
  <2>2. <<[type |-> "reset", height |-> k], [type |-> "rewind", height |-> k]>> \in Seq(Tasks)
    BY <2>1
  <2>3. queue' = queue \o <<[type |-> "reset", height |-> k], [type |-> "rewind", height |-> k]>>
    BY ReorgFacts
  <2> QED
    BY <2>2, <2>3, Joined DEF RestTyped
<1>4. /\ faults' = [count |-> faults'.count, orphaned |-> faults'.orphaned]
      /\ faults'.orphaned \subseteq Txs
  BY <1>0 DEF RestTyped
<1> QED
  BY <1>0, <1>1, <1>2, <1>3, <1>4 DEF RestTyped, store

BlockOf(t, h) == [type |-> "block", height |-> h, tx |-> t, spends |-> Matched(t)]
CursorAt(h) == [type |-> "cursor", height |-> h]

\* The block at h is of interest for t.
Touches(t, h) == at[t] = h /\ (Matched(t) # {} \/ t \in Pays \ coins)

\* What Scan puts in the queue: the block for one transaction it touches, and the
\* cursor at the tip.
ScanAdds(q, h) ==
  /\ q \in Seq(Tasks)
  /\ \A n \in DOMAIN queue : n \in DOMAIN q /\ q[n] = queue[n]
  /\ \A n \in DOMAIN q \ DOMAIN queue :
       \/ q[n] = CursorAt(h)
       \/ n = Len(queue) + 1 /\ \E t \in Txs : Touches(t, h) /\ q[n] = BlockOf(t, h)
  /\ (\E t \in Txs : Touches(t, h)) =>
       Len(queue) + 1 \in DOMAIN q \ DOMAIN queue /\ q[Len(queue) + 1].type = "block"

LEMMA OneMore ==
  ASSUME NEW S, NEW q \in Seq(S), NEW x \in S
  PROVE  /\ q \o <<x>> \in Seq(S) /\ q \o <<>> = q /\ Len(q) \in Nat
         /\ \A n \in DOMAIN q : n \in DOMAIN (q \o <<x>>) /\ (q \o <<x>>)[n] = q[n]
         /\ \A n \in DOMAIN (q \o <<x>>) : n \in DOMAIN q \/ n = Len(q) + 1
         /\ Len(q) + 1 \in DOMAIN (q \o <<x>>) /\ Len(q) + 1 \notin DOMAIN q
         /\ (q \o <<x>>)[Len(q) + 1] = x
<1>1. q \o <<>> = q
  BY ConcatEmptySeq
<1> QED
  BY <1>1

LEMMA AddsNothing ==
  ASSUME RestTyped, NEW h, \A t \in Txs : ~Touches(t, h)
  PROVE  ScanAdds(queue, h)
BY DEF ScanAdds, RestTyped

LEMMA AddsBlock ==
  ASSUME RestTyped, NEW h, NEW t \in Txs, Touches(t, h), BlockOf(t, h) \in Tasks
  PROVE  ScanAdds(queue \o <<BlockOf(t, h)>>, h)
<1>1. PICK b \in Tasks : b = BlockOf(t, h)
  OBVIOUS
<1>2. b.type = "block"
  BY <1>1 DEF BlockOf
<1>3. PICK q : q = queue \o <<b>>
  OBVIOUS
<1>4. /\ q \in Seq(Tasks) /\ \A n \in DOMAIN queue : n \in DOMAIN q /\ q[n] = queue[n]
      /\ \A n \in DOMAIN q : n \in DOMAIN queue \/ n = Len(queue) + 1
      /\ Len(queue) + 1 \in DOMAIN q /\ Len(queue) + 1 \notin DOMAIN queue
      /\ q[Len(queue) + 1] = b
  BY <1>3, OneMore DEF RestTyped
<1>5. ScanAdds(q, h)
  BY <1>1, <1>2, <1>4 DEF ScanAdds
<1> QED
  BY <1>1, <1>3, <1>5

LEMMA AddsCursor ==
  ASSUME RestTyped, NEW h, NEW q, ScanAdds(q, h), CursorAt(h) \in Tasks
  PROVE  ScanAdds(q \o <<CursorAt(h)>>, h)
<1>1. PICK c \in Tasks : c = CursorAt(h)
  OBVIOUS
<1>2. PICK r : r = q \o <<c>>
  OBVIOUS
<1>3. q \in Seq(Tasks)
  BY DEF ScanAdds
<1>4. /\ r \in Seq(Tasks) /\ \A n \in DOMAIN q : n \in DOMAIN r /\ r[n] = q[n]
      /\ \A n \in DOMAIN r : n \in DOMAIN q \/ n = Len(q) + 1
      /\ r[Len(q) + 1] = c
  BY <1>2, <1>3, OneMore
<1>5. ScanAdds(r, h)
  BY <1>1, <1>4 DEF ScanAdds
<1> QED
  BY <1>1, <1>2, <1>5

LEMMA ScanFacts ==
  ASSUME RestTyped, Scan
  PROVE  /\ ~held /\ scanned < tip /\ scanned' = scanned + 1
         /\ ScanAdds(queue', scanned + 1)
         /\ coins' = (coins \ UNION {Ins[t] : t \in {u \in Txs : Touches(u, scanned + 1)}})
                       \union ({u \in Txs : Touches(u, scanned + 1)} \intersect Pays)
         /\ UNCHANGED <<chain, seeded, held, store, call, faults>>
<1> DEFINE h == scanned + 1
           ours == {t \in Txs : at[t] = h /\ (Matched(t) # {} \/ t \in Pays \ coins)}
           blocks == {<<[type |-> "block", height |-> h, tx |-> t, spends |-> Matched(t)]>> : t \in ours}
           done == IF h = tip THEN <<[type |-> "cursor", height |-> h]>> ELSE <<>>
<1>1. /\ ~held /\ scanned < tip /\ scanned' = h
      /\ \E block \in IF ours = {} THEN {<<>>} ELSE blocks : queue' = queue \o block \o done
      /\ coins' = (coins \ UNION {Ins[t] : t \in ours}) \union (ours \intersect Pays)
      /\ UNCHANGED <<chain, seeded, held, store, call, faults>>
  BY DEF Scan
<1>2. ours = {u \in Txs : Touches(u, h)}
  BY DEF Touches
<1>3. h \in 1..MaxHeight
  BY <1>1, Consts DEF RestTyped
<1>4. CursorAt(h) \in Tasks /\ \A t \in ours : BlockOf(t, h) \in Tasks
  BY <1>3 DEF Tasks, CursorAt, BlockOf, Matched
<1>5. done = <<CursorAt(h)>> \/ done = <<>>
  BY DEF CursorAt
<1>6. \E q : ScanAdds(q, h) /\ queue' = q \o done
  <2>1. CASE ours = {}
    <3>1. queue' = queue \o <<>> \o done
      BY <1>1, <2>1
    <3>2. queue \o <<>> = queue
      BY ConcatEmptySeq DEF RestTyped
    <3>3. \A t \in Txs : ~Touches(t, h)
      BY <1>2, <2>1
    <3> QED
      BY <3>1, <3>2, <3>3, AddsNothing
  <2>2. CASE ours # {}
    <3>1. PICK t \in ours : queue' = queue \o <<BlockOf(t, h)>> \o done
      BY <1>1, <2>2 DEF BlockOf
    <3>2. BlockOf(t, h) \in Tasks /\ t \in Txs /\ Touches(t, h)
      BY <1>2, <1>4
    <3>3. ScanAdds(queue \o <<BlockOf(t, h)>>, h)
      BY <3>2, AddsBlock, Zenon
    <3> QED
      BY <3>1, <3>3, Zenon
  <2> QED
    BY <2>1, <2>2
<1>7. ScanAdds(queue', h)
  <2>1. PICK q : ScanAdds(q, h) /\ queue' = q \o done
    BY <1>6
  <2>2. CASE done = <<>>
    <3>1. q \o <<>> = q
      BY <2>1, ConcatEmptySeq DEF ScanAdds
    <3> QED
      BY <2>1, <2>2, <3>1
  <2>3. CASE done = <<CursorAt(h)>>
    BY <2>1, <2>3, <1>4, AddsCursor, Zenon
  <2> QED
    BY <1>5, <2>2, <2>3
<1> QED
  BY <1>1, <1>2, <1>7

LEMMA ScanType == ASSUME RestTyped, Scan PROVE RestTyped'
<1>1. queue' \in Seq(Tasks)
  BY ScanFacts DEF ScanAdds
<1>2. scanned' \in 1..tip'
  BY ScanFacts, Consts DEF RestTyped, chain
<1>3. coins' \subseteq Pays
  BY ScanFacts DEF RestTyped
<1> QED
  BY <1>1, <1>2, <1>3, ScanFacts DEF RestTyped, chain, store, InChain

LEMMA IncomingType == ASSUME RestTyped, NEW t \in Txs, Incoming(t) PROVE RestTyped'
<1>1. [type |-> "incoming", tx |-> t] \in Tasks
  BY DEF Tasks
<1>2. queue' \in Seq(Tasks)
  BY <1>1 DEF RestTyped, Incoming
<1> QED
  BY <1>2 DEF RestTyped, Incoming, chain, scan, store, InChain

LEMMA RestartType == ASSUME StoreTyped, RestTyped, Restart PROVE StoreTyped' /\ RestTyped'
<1>1. StoreTyped'
  BY DEF StoreTyped, Restart, store
<1>2. coins' \subseteq Pays /\ seeded' \subseteq UNION {Ins[t] : t \in Txs}
  BY <1>1, SeedType DEF Restart
<1>3. scanned' \in 1..tip' /\ call' \in [Local -> {"idle", "built", "sent", "answered"}]
  BY Consts DEF Restart, StoreTyped, RestTyped, chain
<1> QED
  <2>1. /\ queue' = <<>> /\ held' = FALSE /\ UNCHANGED <<at, tip, mempool>>
        /\ faults' = [count |-> faults'.count, orphaned |-> faults'.orphaned]
        /\ faults'.orphaned = faults.orphaned
    BY FaultType DEF Restart, chain
  <2>2. <<>> \in Seq(Tasks)
    OBVIOUS
  <2> QED
    BY <1>1, <1>2, <1>3, <2>1, <2>2 DEF RestTyped, InChain

\* One task of the queue after the other.
PersistBlock(task) ==
  /\ task.type = "block" /\ ApplyBlock(task.height, task.tx, task.spends)
  /\ UNCHANGED <<coins, seeded, held>>
PersistCursor(task) ==
  /\ task.type = "cursor" /\ cursor' = (IF task.height > cursor THEN task.height ELSE cursor)
  /\ UNCHANGED <<coins, seeded, held, row, pushed, spentIn, spentAt>>
PersistReset(task) ==
  /\ task.type = "reset" /\ cursor' = task.height
  /\ UNCHANGED <<coins, seeded, held, row, pushed, spentIn, spentAt>>
PersistIncoming(task) ==
  /\ task.type = "incoming" /\ RecordPending(task.tx, FALSE)
  /\ UNCHANGED <<coins, seeded, held>>
PersistRewind(task) ==
  /\ task.type = "rewind" /\ RewindRows(task.height) /\ Seed /\ held' = FALSE

LEMMA PersistCases ==
  ASSUME RestTyped, Persist
  PROVE  /\ queue # <<>> /\ queue' = Tail(queue) /\ Head(queue) \in Tasks
         /\ UNCHANGED <<chain, scanned, call, faults>>
         /\ \/ PersistBlock(Head(queue)) \/ PersistCursor(Head(queue)) \/ PersistReset(Head(queue))
            \/ PersistIncoming(Head(queue)) \/ PersistRewind(Head(queue))
<1>1. queue # <<>> => Head(queue) \in Tasks
  BY Tailed DEF RestTyped
<1>2. queue # <<>> /\ queue' = Tail(queue) /\ UNCHANGED <<chain, scanned, call, faults>>
  BY DEF Persist
<1>3. \/ PersistBlock(Head(queue)) \/ PersistCursor(Head(queue)) \/ PersistReset(Head(queue))
      \/ PersistIncoming(Head(queue)) \/ PersistRewind(Head(queue))
  BY DEF Persist, PersistBlock, PersistCursor, PersistReset, PersistIncoming, PersistRewind
<1> QED
  BY <1>1, <1>2, <1>3

LEMMA PersistType == ASSUME StoreTyped, RestTyped, Persist PROVE StoreTyped' /\ RestTyped'
<1> DEFINE task == Head(queue)
<1>1. /\ queue # <<>> /\ queue' = Tail(queue) /\ task \in Tasks
      /\ UNCHANGED <<chain, scanned, call, faults>>
      /\ \/ PersistBlock(task) \/ PersistCursor(task) \/ PersistReset(task)
         \/ PersistIncoming(task) \/ PersistRewind(task)
  BY PersistCases
<1>2. queue' \in Seq(Tasks)
  BY <1>1 DEF RestTyped
<1> HIDE DEF task
<1>3. StoreTyped' /\ coins' \subseteq Pays /\ seeded' \subseteq UNION {Ins[t] : t \in Txs} /\ held' \in BOOLEAN
  <2>1. CASE PersistBlock(task)
    BY <1>1, <2>1, TaskKinds, ApplyBlockType DEF PersistBlock, RestTyped
  <2>2. CASE PersistCursor(task)
    BY <1>1, <2>2, TaskKinds, Consts DEF PersistCursor, RestTyped, StoreTyped
  <2>3. CASE PersistReset(task)
    BY <1>1, <2>3, TaskKinds DEF PersistReset, RestTyped, StoreTyped
  <2>4. CASE PersistIncoming(task)
    BY <1>1, <2>4, TaskKinds, RecordType DEF PersistIncoming, RestTyped
  <2>5. CASE PersistRewind(task)
    BY <1>1, <2>5, TaskKinds, RewindType, SeedType DEF PersistRewind
  <2> QED
    BY <1>1, <2>1, <2>2, <2>3, <2>4, <2>5
<1> QED
  BY <1>1, <1>2, <1>3 DEF RestTyped, chain, InChain

LEMMA CallStepType ==
  ASSUME StoreTyped, RestTyped, NEW t \in Local,
         \/ Build(t) \/ Broadcast(t) \/ Rebroadcast(t) \/ Answered(t) \/ Delivered(t)
         \/ NotHeard(t) \/ NotHeardAgain(t) \/ RecordElsewhere(t)
  PROVE  StoreTyped' /\ RestTyped'
<1>1. StoreTyped'
  BY DEF StoreTyped, store, Build, Broadcast, Rebroadcast, Answered, Delivered, NotHeard,
         NotHeardAgain, RecordElsewhere
<1>2. \E state \in {"idle", "built", "sent", "answered"} : call' = [call EXCEPT ![t] = state]
  BY DEF Build, Broadcast, Rebroadcast, Answered, Delivered, NotHeard, NotHeardAgain,
         RecordElsewhere
<1>3. UNCHANGED <<chain, scan, queue>> /\ (faults' = faults \/ Fault)
  BY DEF Build, Broadcast, Rebroadcast, Answered, Delivered, NotHeard, NotHeardAgain,
         RecordElsewhere
<1>4. faults'.orphaned = faults.orphaned
  BY <1>3, FaultType
<1> QED
  BY <1>1, <1>2, <1>3, <1>4, CallType

LEMMA PushedType ==
  ASSUME StoreTyped, RestTyped, NEW t \in Local, NoLongerPushed(t) PROVE StoreTyped' /\ RestTyped'
<1>1. UNCHANGED <<chain, scan, queue, row, spentIn, spentAt, cursor, call, faults>> /\ pushed' \subseteq pushed
  BY DEF NoLongerPushed
<1>2. StoreTyped'
  BY <1>1 DEF StoreTyped
<1> QED
  BY <1>1, <1>2 DEF RestTyped, chain, scan, InChain

LEMMA RecordCallType ==
  ASSUME StoreTyped, RestTyped, NEW t \in Local, Record(t) PROVE StoreTyped' /\ RestTyped'
<1>1. StoreTyped'
  BY RecordType, Consts DEF Record
<1>2. call' = [call EXCEPT ![t] = "idle"] /\ UNCHANGED <<chain, scan, queue, faults>>
  BY DEF Record
<1> QED
  BY <1>1, <1>2, CallType

LEMMA NextType == TypeInv /\ [Next]_vars => TypeInv'
<1>0. (TypeInv <=> StoreTyped /\ RestTyped) /\ (TypeInv <=> StoreTyped /\ RestTyped)'
  BY TypeParts, PTL
<1> SUFFICES ASSUME StoreTyped, RestTyped, [Next]_vars PROVE StoreTyped' /\ RestTyped'
  BY <1>0
<1>1. ASSUME NEW t \in Txs, Enter(t) \/ Mine(t) \/ Evict(t) \/ Incoming(t)
      PROVE  StoreTyped' /\ RestTyped'
  <2>1. UNCHANGED store
    BY <1>1 DEF Enter, Mine, Evict, Incoming
  <2>2. StoreTyped'
    BY <2>1 DEF StoreTyped, store
  <2> QED
    BY <1>1, <2>2, EnterType, MineType, EvictType, IncomingType
<1>2. ASSUME NEW k \in 1..MaxHeight, Reorg(k) PROVE StoreTyped' /\ RestTyped'
  <2>1. UNCHANGED store
    BY <1>2, ReorgFacts
  <2>2. StoreTyped'
    BY <2>1 DEF StoreTyped, store
  <2> QED
    BY <1>2, <2>2, ReorgType
<1>3. CASE Scan
  <2>1. UNCHANGED store
    BY <1>3, ScanFacts
  <2>2. StoreTyped'
    BY <2>1 DEF StoreTyped, store
  <2> QED
    BY <1>3, <2>2, ScanType
<1>4. CASE Persist
  BY <1>4, PersistType
<1>5. CASE Restart
  BY <1>5, RestartType
<1>6. ASSUME NEW t \in Local,
             \/ Build(t) \/ Broadcast(t) \/ Rebroadcast(t) \/ Answered(t) \/ Delivered(t)
             \/ NotHeard(t) \/ NotHeardAgain(t) \/ Record(t) \/ RecordElsewhere(t)
             \/ NoLongerPushed(t)
      PROVE  StoreTyped' /\ RestTyped'
  BY <1>6, CallStepType, RecordCallType, PushedType
<1>7. CASE UNCHANGED vars
  BY <1>7 DEF vars, chain, scan, store, StoreTyped, RestTyped, InChain
<1> QED
  BY <1>1, <1>2, <1>3, <1>4, <1>5, <1>6, <1>7 DEF Next

\* Network, watch set, queue, rows and calls keep their types, whatever situation is
\* included (WalletLedger as a whole).
THEOREM TypeCorrect == Spec => []TypeOK
<1>1. Spec => []TypeInv
  BY InitType, NextType, PTL DEF Spec
<1>2. TypeInv => TypeOK
  BY DEF TypeInv
<1> QED
  BY <1>1, <1>2, PTL

-----------------------------------------------------------------------------
(* The ledger follows the chain *)

Confirmed(t) == row[t] \in 1..MaxHeight
Mined(t) == 0 < at[t] /\ at[t] <= scanned
BlockTask(n) == n \in DOMAIN queue /\ queue[n].type = "block"

\* What says that t is at height h in the chain is right, or about to be undone.
Right(t, h) == IF h <= scanned THEN at[t] = h ELSE held /\ t \in faults.orphaned

ChainTrue ==
  /\ \A t \in InChain : at[t] <= tip
  /\ \A t, u \in InChain : u \notin Rivals(t)
  /\ \A t, u \in InChain : at[t] = at[u] /\ at[t] > 1 => t = u
  /\ \A t \in InChain : \A i \in Ins[t] \intersect Txs : 0 < at[i] /\ at[i] < at[t]
  /\ \A t \in Settled : at[t] = 1

\* The queue: a reorg's rewind is last but for what the mempool brings, and blocks
\* go upwards from the cursor.
QueueTrue ==
  /\ held <=> \E n \in DOMAIN queue : queue[n].type = "rewind"
  /\ \A n \in DOMAIN queue : queue[n].type = "reset" =>
       n + 1 \in DOMAIN queue /\ queue[n + 1].type = "rewind"
  /\ \A n \in DOMAIN queue : queue[n].type \in {"reset", "rewind"} => queue[n].height = scanned
  /\ \A m, n \in DOMAIN queue : queue[m].type = "rewind" /\ m < n => queue[n].type = "incoming"
  /\ \A m, n \in DOMAIN queue :
       queue[m].type \in {"block", "cursor"} /\ BlockTask(n) /\ m < n => queue[m].height < queue[n].height
  /\ \A n \in DOMAIN queue : queue[n].type \in {"block", "cursor"} => held \/ queue[n].height <= scanned
  /\ \A n \in DOMAIN queue : BlockTask(n) => cursor < queue[n].height
  /\ ~held => cursor <= scanned

\* A block in the queue, for u at h, is right, is not recorded yet, and what it
\* spends is known before it.
TaskTrue(n, u, h) ==
  /\ Right(u, h) /\ ~Confirmed(u)
  /\ \A m \in DOMAIN queue : BlockTask(m) /\ queue[m].tx = u => m = n
  /\ queue[n].spends \subseteq Ins[u]
  /\ \A i \in Ins[u] \intersect Pays :
       /\ i \in queue[n].spends
       /\ \/ Confirmed(i) /\ row[i] < h
          \/ \E m \in DOMAIN queue : m < n /\ BlockTask(m) /\ queue[m].tx = i

BlockAt(n, u, h) == BlockTask(n) /\ queue[n].tx = u /\ queue[n].height = h

TasksTrue ==
  \A n \in DOMAIN queue, u \in Txs, h \in 1..MaxHeight : BlockAt(n, u, h) => TaskTrue(n, u, h)

RowsTrue ==
  \A t \in Txs : Confirmed(t) => Right(t, row[t]) /\ (row[t] <= scanned => row[t] <= cursor)

\* What the scan has passed is recorded or in the queue.
Complete ==
  \A t \in Txs : Ours(t) /\ Mined(t) =>
    row[t] = at[t] \/ \E n \in DOMAIN queue : BlockTask(n) /\ queue[n].tx = t /\ queue[n].height = at[t]

Coming(t) == \E n \in DOMAIN queue : BlockTask(n) /\ queue[n].tx = t

\* No two transactions that are or will be recorded as confirmed spend one coin.
Exclusive ==
  \A t, u \in Txs : (Confirmed(t) \/ Coming(t)) /\ (Confirmed(u) \/ Coming(u)) => u \notin Rivals(t)

\* Confirmed rows and spends fit together, and so do pending ones.
StoreTrue ==
  /\ \A t \in Txs : Confirmed(t) => \A i \in Ins[t] \intersect Pays :
       Confirmed(i) /\ row[i] < row[t] /\ spentIn[i] = t /\ spentAt[i] = row[t]
  /\ \A i \in Pays : spentAt[i] > 0 =>
       spentIn[i] \in Txs /\ row[spentIn[i]] = spentAt[i] /\ i \in Ins[spentIn[i]]
  /\ HeldByPending

\* The watch set has the coins that the scan may find spent, and knows a coin
\* already only if what confirms it will be noticed by what it spends.
Watched ==
  ~held =>
    /\ \A i \in Pays : Mined(i) /\ (\A t \in Spends(i) : ~Mined(t)) => i \in coins \union seeded
    /\ \A t \in coins : Mined(t) \/ (Ins[t] # {} /\ Ins[t] \subseteq seeded)

Ledger ==
  /\ ChainTrue /\ QueueTrue /\ TasksTrue /\ RowsTrue /\ Complete /\ Exclusive
  /\ StoreTrue /\ Watched

LedgerInv == TypeInv /\ Ledger

LEMMA InitLedger == Init => LedgerInv
<1> SUFFICES ASSUME Init PROVE LedgerInv
  OBVIOUS
<1>1. TypeInv
  BY InitType
<1>2. \A t \in Txs : at[t] = (IF t \in Settled THEN 1 ELSE 0) /\ row[t] = (IF t \in Settled THEN 1 ELSE NoRow)
  BY DEF Init
<1>3. /\ tip = 1 /\ scanned = 1 /\ cursor = 1 /\ coins = Settled /\ seeded = {} /\ held = FALSE
      /\ DOMAIN queue = {} /\ \A i \in Pays : spentIn[i] = Nobody /\ spentAt[i] = 0
  BY DEF Init
<1>4. \A t \in Txs : (Confirmed(t) <=> t \in Settled) /\ (Mined(t) <=> t \in Settled)
  <2> TAKE t \in Txs
  <2>1. CASE t \in Settled
    <3>1. at[t] = 1 /\ row[t] = 1
      BY <1>2, <2>1
    <3> QED
      BY <2>1, <3>1, <1>3, Consts DEF Confirmed, Mined
  <2>2. CASE t \notin Settled
    <3>1. at[t] = 0 /\ row[t] = NoRow
      BY <1>2, <2>2
    <3> QED
      BY <2>2, <3>1, <1>3, Consts DEF Confirmed, Mined
  <2> QED
    BY <2>1, <2>2
<1>5. \A t, u \in Settled : u \notin Rivals(t) /\ Ins[t] \intersect Txs = {}
  BY LedgerAssumption DEF Rivals
<1>6. ChainTrue
  BY <1>2, <1>3, <1>5, Consts DEF ChainTrue, InChain
<1>7. QueueTrue /\ TasksTrue
  BY <1>3 DEF QueueTrue, TasksTrue
<1>8. RowsTrue /\ Complete
  BY <1>2, <1>3, <1>4 DEF RowsTrue, Complete, Right
<1>9. Exclusive
  BY <1>3, <1>4, <1>5 DEF Exclusive, Coming
<1>10. StoreTrue
  BY <1>3, <1>4, <1>5, Consts DEF StoreTrue, HeldByPending
<1>11. Watched
  BY <1>3, <1>4, Consts DEF Watched
<1> QED
  BY <1>1, <1>6, <1>7, <1>8, <1>9, <1>10, <1>11 DEF LedgerInv, Ledger

-----------------------------------------------------------------------------
(* What each write does to the store *)

\* A block that fits what is recorded.
Fits(h, t, spends) ==
  /\ ~Confirmed(t) /\ spends \subseteq Ins[t]
  /\ \A i \in Ins[t] \intersect Pays : i \in spends /\ Confirmed(i) /\ row[i] < h
  /\ \A u \in Txs : Confirmed(u) => u \notin Rivals(t)

LEMMA ApplyBlockFacts ==
  ASSUME StoreTyped, StoreTrue, NEW h \in 1..MaxHeight, NEW t \in Txs, NEW spends,
         Fits(h, t, spends), ApplyBlock(h, t, spends)
  PROVE  /\ row'[t] = h
         /\ \A u \in Txs \ {t} :
              row'[u] = row[u] \/ (row[u] = Pending /\ row'[u] = NoRow /\ u \in Rivals(t))
         /\ \A i \in Ins[t] \intersect Pays : spentIn'[i] = t /\ spentAt'[i] = h
         /\ \A i \in Pays \ Ins[t] :
              \/ spentIn'[i] = spentIn[i] /\ spentAt'[i] = spentAt[i] /\ (i = t \/ row'[i] = row[i])
                   /\ (spentIn[i] \in Txs \ {t} => row'[spentIn[i]] = row[spentIn[i]])
              \/ /\ spentIn'[i] = Nobody /\ spentAt'[i] = 0 /\ spentAt[i] = 0
                 /\ \/ row'[i] = NoRow
                    \/ spentIn[i] \in Txs /\ row[spentIn[i]] = Pending /\ row'[spentIn[i]] = NoRow
         /\ cursor' = (IF h > cursor THEN h ELSE cursor)
<1> DEFINE known == {i \in spends \intersect Pays : row[i] # NoRow}
           losers == Losers(t, known)
           by == [i \in Pays |-> IF i \in known THEN t ELSE spentIn[i]]
           spent == [i \in Pays |-> IF i \in known \union Pinned(t) THEN h ELSE spentAt[i]]
           freed == Freed(losers, by, spent)
<1>0. /\ row \in [Txs -> 0..NoRow] /\ spentIn \in [Pays -> Txs \union {Nobody}]
      /\ spentAt \in [Pays -> 0..MaxHeight] /\ h \in Nat /\ h > 0
  BY Consts DEF StoreTyped
<1>1. known = Ins[t] \intersect Pays
  BY <1>0, Consts DEF Fits, Confirmed
<1>2. \A u \in losers : u \in Txs \ {t} /\ row[u] = Pending /\ u \in Rivals(t)
  <2> TAKE u \in losers
  <2>1. u \in Txs \ {t} /\ row[u] = Pending /\ \E i \in known : spentIn[i] = u
    BY DEF Losers
  <2>2. PICK i \in Ins[t] \intersect Pays : spentIn[i] = u
    BY <1>1, <2>1
  <2>3. spentAt[i] = 0
    BY <2>1, <2>2, <1>0, Consts DEF StoreTrue
  <2>4. i \in Ins[u]
    BY <2>1, <2>2, <2>3, Consts DEF StoreTrue, HeldByPending
  <2> QED
    BY <2>1, <2>2, <2>4 DEF Rivals
<1>3. Pinned(t) \subseteq Ins[t]
  BY Consts DEF Pinned, StoreTrue, HeldByPending
<1>4. \A i \in Ins[t] \intersect Pays : i \notin freed
  <2> TAKE i \in Ins[t] \intersect Pays
  <2>1. Confirmed(i)
    BY DEF Fits
  <2>2. i \notin losers
    BY <1>2, <2>1, Consts DEF Confirmed
  <2>3. spent[i] = h
    BY <1>1
  <2> QED
    BY <2>2, <2>3, <1>0 DEF Freed
<1>5. \A i \in Pays \ Ins[t] : by[i] = spentIn[i] /\ spent[i] = spentAt[i]
  BY <1>1, <1>3
<1>6. \A i \in Pays : i \in freed <=> (i \in losers \/ (by[i] \in losers /\ spent[i] = 0))
  BY DEF freed, Freed
<1>7. /\ row' = [u \in Txs |-> IF u = t THEN h ELSE IF u \in losers THEN NoRow ELSE row[u]]
      /\ spentIn' = [i \in Pays |-> IF i \in freed THEN Nobody ELSE by[i]]
      /\ spentAt' = [i \in Pays |-> IF i \in freed THEN 0 ELSE spent[i]]
      /\ cursor' = IF h > cursor THEN h ELSE cursor
  BY DEF ApplyBlock
<1>8. \A i \in Ins[t] \intersect Pays : by[i] = t /\ spent[i] = h
  BY <1>1
<1> HIDE DEF known, losers, by, spent, freed
<1>9. \A i \in Pays : spentAt[i] = 0 \/ (i \notin losers /\ spentIn[i] \notin losers)
  <2> SUFFICES ASSUME NEW i \in Pays, spentAt[i] # 0 PROVE i \notin losers /\ spentIn[i] \notin losers
    OBVIOUS
  <2>1. spentIn[i] \in Txs /\ row[spentIn[i]] \in 1..MaxHeight /\ i \in Ins[spentIn[i]]
    BY <1>0, Consts DEF StoreTrue
  <2>2. row[i] \in 1..MaxHeight
    BY <2>1 DEF StoreTrue, Confirmed
  <2> QED
    BY <2>1, <2>2, <1>2, Consts
<1>10. row'[t] = h /\ cursor' = (IF h > cursor THEN h ELSE cursor)
  BY <1>7
<1>11. \A u \in Txs \ {t} : row'[u] = IF u \in losers THEN NoRow ELSE row[u]
  BY <1>7
<1>12. \A i \in Ins[t] \intersect Pays : spentIn'[i] = t /\ spentAt'[i] = h
  BY <1>4, <1>7, <1>8
<1>13. ASSUME NEW i \in Pays \ Ins[t]
       PROVE  \/ spentIn'[i] = spentIn[i] /\ spentAt'[i] = spentAt[i] /\ (i = t \/ row'[i] = row[i])
                   /\ (spentIn[i] \in Txs \ {t} => row'[spentIn[i]] = row[spentIn[i]])
              \/ /\ spentIn'[i] = Nobody /\ spentAt'[i] = 0 /\ spentAt[i] = 0
                 /\ \/ row'[i] = NoRow
                    \/ spentIn[i] \in Txs /\ row[spentIn[i]] = Pending /\ row'[spentIn[i]] = NoRow
  <2>1. CASE i \in freed
    <3>1. spentIn'[i] = Nobody /\ spentAt'[i] = 0 /\ spentAt[i] = 0
      BY <2>1, <1>5, <1>6, <1>7, <1>9
    <3>2. i \in losers \/ spentIn[i] \in losers
      BY <2>1, <1>5, <1>6
    <3> QED
      BY <3>1, <3>2, <1>2, <1>11
  <2>2. CASE i \notin freed
    <3>1. i \notin losers /\ spentIn[i] \notin losers
      BY <2>2, <1>5, <1>6, <1>9
    <3>2. spentIn'[i] = spentIn[i] /\ spentAt'[i] = spentAt[i]
      BY <2>2, <1>5, <1>7
    <3> QED
      BY <3>1, <3>2, <1>11, Consts
  <2> QED
    BY <2>1, <2>2
<1> QED
  BY <1>2, <1>10, <1>11, <1>12, <1>13

\* What recording t as unconfirmed writes.
LEMMA RecordFacts ==
  ASSUME StoreTyped, StoreTrue, NEW t \in Txs, NEW mine, RecordPending(t, mine)
  PROVE  /\ \A u \in Txs \ {t} : row'[u] = row[u]
         /\ row'[t] = IF row[t] = NoRow THEN Pending ELSE row[t]
         /\ spentAt' = spentAt /\ cursor' = cursor
         /\ \A i \in Pays :
              \/ spentIn'[i] = spentIn[i]
              \/ spentIn'[i] = t /\ i \in Ins[t] /\ row[i] # NoRow /\ spentIn[i] = Nobody /\ spentAt[i] = 0
<1>1. \A i \in Pays : spentIn[i] = Nobody => spentAt[i] = 0
  BY Consts DEF StoreTyped
<1> QED
  BY <1>1 DEF RecordPending, StoreTyped

LEMMA ApplyBlockStore ==
  ASSUME StoreTyped, StoreTrue, NEW h \in 1..MaxHeight, NEW t \in Txs, NEW spends,
         Fits(h, t, spends), ApplyBlock(h, t, spends)
  PROVE  /\ StoreTrue'
         /\ \A u \in Txs : Confirmed(u)' <=> (u = t \/ Confirmed(u))
         /\ \A u \in Txs : Confirmed(u) => row'[u] = row[u]
         /\ row'[t] = h /\ cursor' = (IF h > cursor THEN h ELSE cursor)
<1>1. /\ row'[t] = h
      /\ \A u \in Txs \ {t} :
           row'[u] = row[u] \/ (row[u] = Pending /\ row'[u] = NoRow /\ u \in Rivals(t))
      /\ cursor' = (IF h > cursor THEN h ELSE cursor)
  BY ApplyBlockFacts
<1>2. \A i \in Ins[t] \intersect Pays : spentIn'[i] = t /\ spentAt'[i] = h
  BY ApplyBlockFacts
<1>3. \A i \in Pays \ Ins[t] :
        \/ spentIn'[i] = spentIn[i] /\ spentAt'[i] = spentAt[i] /\ (i = t \/ row'[i] = row[i])
             /\ (spentIn[i] \in Txs \ {t} => row'[spentIn[i]] = row[spentIn[i]])
        \/ spentIn'[i] = Nobody /\ spentAt'[i] = 0 /\ spentAt[i] = 0
  BY ApplyBlockFacts
<1>4. /\ row \in [Txs -> 0..NoRow] /\ spentIn \in [Pays -> Txs \union {Nobody}]
      /\ spentAt \in [Pays -> 0..MaxHeight] /\ h \in Nat /\ h > 0 /\ h <= MaxHeight
  BY Consts DEF StoreTyped
<1>5. \A u \in Txs : row'[u] \in 1..MaxHeight <=> (u = t \/ row[u] \in 1..MaxHeight)
  BY <1>1, <1>4, Consts
<1>6. \A u \in Txs : row[u] \in 1..MaxHeight => row'[u] = row[u] /\ u # t
  BY <1>1, <1>4, Consts DEF Fits, Confirmed
<1>7. ASSUME NEW u \in Txs, row'[u] \in 1..MaxHeight, NEW i \in Ins[u] \intersect Pays
      PROVE  row'[i] \in 1..MaxHeight /\ row'[i] < row'[u] /\ spentIn'[i] = u /\ spentAt'[i] = row'[u]
  <2>1. CASE u = t
    <3>1. row[i] \in 1..MaxHeight /\ row[i] < h
      BY <2>1 DEF Fits, Confirmed
    <3> QED
      BY <2>1, <3>1, <1>1, <1>2, <1>6, Consts
  <2>2. CASE u # t
    <3>1. row[u] \in 1..MaxHeight /\ row'[u] = row[u]
      BY <2>2, <1>5, <1>6, <1>7
    <3>2. row[i] \in 1..MaxHeight /\ row[i] < row[u] /\ spentIn[i] = u /\ spentAt[i] = row[u]
      BY <3>1 DEF StoreTrue, Confirmed
    <3>3. i \notin Ins[t]
      BY <3>1, <2>2 DEF Fits, Confirmed, Rivals
    <3>4. spentIn'[i] = u /\ spentAt'[i] = row[u]
      BY <3>1, <3>2, <3>3, <1>3, <1>4
    <3> QED
      BY <3>1, <3>2, <3>4, <1>6, Consts
  <2> QED
    BY <2>1, <2>2
<1>8. ASSUME NEW i \in Pays, spentAt'[i] > 0
      PROVE  spentIn'[i] \in Txs /\ row'[spentIn'[i]] = spentAt'[i] /\ i \in Ins[spentIn'[i]]
  <2>1. CASE i \in Ins[t]
    BY <2>1, <1>1, <1>2
  <2>2. CASE i \notin Ins[t]
    <3>1. spentIn'[i] = spentIn[i] /\ spentAt'[i] = spentAt[i]
      BY <2>2, <1>3, <1>8
    <3>2. spentIn[i] \in Txs /\ row[spentIn[i]] = spentAt[i] /\ i \in Ins[spentIn[i]]
      BY <3>1, <1>8 DEF StoreTrue
    <3>3. row[spentIn[i]] \in 1..MaxHeight
      BY <3>1, <3>2, <1>4, <1>8
    <3> QED
      BY <3>1, <3>2, <3>3, <1>6
  <2> QED
    BY <2>1, <2>2
<1>9. ASSUME NEW i \in Pays, spentIn'[i] # Nobody, spentAt'[i] = 0
      PROVE  row'[i] # NoRow /\ row'[spentIn'[i]] = Pending /\ i \in Ins[spentIn'[i]]
  <2>1. i \notin Ins[t]
    BY <1>2, <1>4, <1>9
  <2>2. /\ spentIn'[i] = spentIn[i] /\ spentAt'[i] = spentAt[i] /\ (i = t \/ row'[i] = row[i])
        /\ (spentIn[i] \in Txs \ {t} => row'[spentIn[i]] = row[spentIn[i]])
    BY <2>1, <1>3, <1>9
  <2>3. row[i] # NoRow /\ row[spentIn[i]] = Pending /\ i \in Ins[spentIn[i]] /\ spentIn[i] \in Txs
    <3>1. spentIn[i] # Nobody /\ spentAt[i] = 0
      BY <2>2, <1>9
    <3> QED
      BY <3>1, <1>4 DEF StoreTrue, HeldByPending
  <2>4. spentIn[i] # t
    BY <2>1, <2>3
  <2>5. row'[i] # NoRow
    BY <2>2, <2>3, <1>1, <1>4, Consts
  <2> QED
    BY <2>2, <2>3, <2>4, <2>5
<1>10. StoreTrue'
  <2>1. \A u \in Txs : Confirmed(u)' => \A i \in Ins[u] \intersect Pays :
          Confirmed(i)' /\ row'[i] < row'[u] /\ spentIn'[i] = u /\ spentAt'[i] = row'[u]
    BY <1>7 DEF Confirmed
  <2>2. HeldByPending'
    BY <1>9 DEF HeldByPending
  <2> QED
    BY <2>1, <2>2, <1>8 DEF StoreTrue
<1> QED
  BY <1>1, <1>5, <1>6, <1>10 DEF Confirmed

LEMMA RecordStore ==
  ASSUME StoreTyped, StoreTrue, NEW t \in Txs, NEW mine, RecordPending(t, mine)
  PROVE  /\ StoreTrue'
         /\ \A u \in Txs : Confirmed(u)' <=> Confirmed(u)
         /\ \A u \in Txs : Confirmed(u) => row'[u] = row[u]
<1>1. /\ \A u \in Txs \ {t} : row'[u] = row[u]
      /\ row'[t] = IF row[t] = NoRow THEN Pending ELSE row[t]
      /\ spentAt' = spentAt
      /\ \A i \in Pays :
           \/ spentIn'[i] = spentIn[i]
           \/ spentIn'[i] = t /\ i \in Ins[t] /\ row[i] # NoRow /\ spentIn[i] = Nobody /\ spentAt[i] = 0
  BY RecordFacts
<1>2. /\ row \in [Txs -> 0..NoRow] /\ spentIn \in [Pays -> Txs \union {Nobody}]
      /\ spentAt \in [Pays -> 0..MaxHeight]
  BY DEF StoreTyped
<1>3. \A u \in Txs : (row'[u] \in 1..MaxHeight <=> row[u] \in 1..MaxHeight)
  BY <1>1, <1>2, Consts
<1>4. \A u \in Txs : row[u] # NoRow => row'[u] = row[u]
  BY <1>1
<1>5. \A u \in Txs : row[u] \in 1..MaxHeight => row'[u] = row[u]
  BY <1>4, Consts
<1>6. ASSUME NEW u \in Txs, row[u] \in 1..MaxHeight, NEW i \in Ins[u] \intersect Pays
      PROVE  row'[i] \in 1..MaxHeight /\ row'[i] < row'[u] /\ spentIn'[i] = u /\ spentAt'[i] = row'[u]
  <2>1. row[i] \in 1..MaxHeight /\ row[i] < row[u] /\ spentIn[i] = u /\ spentAt[i] = row[u]
    BY <1>6 DEF StoreTrue, Confirmed
  <2> QED
    BY <2>1, <1>1, <1>5, <1>6, Consts
<1>7. ASSUME NEW i \in Pays, spentAt'[i] > 0
      PROVE  spentIn'[i] \in Txs /\ row'[spentIn'[i]] = spentAt'[i] /\ i \in Ins[spentIn'[i]]
  <2>1. spentAt[i] > 0 /\ spentIn'[i] = spentIn[i]
    BY <1>1, <1>7
  <2>2. spentIn[i] \in Txs /\ row[spentIn[i]] = spentAt[i] /\ i \in Ins[spentIn[i]]
    BY <2>1 DEF StoreTrue
  <2> QED
    BY <2>1, <2>2, <1>1, <1>2, <1>5
<1>8. ASSUME NEW i \in Pays, spentIn'[i] # Nobody, spentAt'[i] = 0
      PROVE  row'[i] # NoRow /\ row'[spentIn'[i]] = Pending /\ i \in Ins[spentIn'[i]]
  <2>1. CASE spentIn'[i] = spentIn[i]
    <3>1. row[i] # NoRow /\ row[spentIn[i]] = Pending /\ i \in Ins[spentIn[i]] /\ spentIn[i] \in Txs
      BY <2>1, <1>1, <1>2, <1>8 DEF StoreTrue, HeldByPending
    <3> QED
      BY <2>1, <3>1, <1>4, Consts
  <2>2. CASE spentIn'[i] = t /\ i \in Ins[t] /\ row[i] # NoRow /\ spentIn[i] = Nobody /\ spentAt[i] = 0
    <3>1. row[t] \notin 1..MaxHeight
      BY <2>2, Consts DEF StoreTrue, Confirmed
    <3>2. row'[t] = Pending
      BY <3>1, <1>1, <1>2, Consts
    <3> QED
      BY <2>2, <3>2, <1>4, Consts
  <2> QED
    BY <2>1, <2>2, <1>1
<1>9. StoreTrue'
  <2>1. \A u \in Txs : Confirmed(u)' => \A i \in Ins[u] \intersect Pays :
          Confirmed(i)' /\ row'[i] < row'[u] /\ spentIn'[i] = u /\ spentAt'[i] = row'[u]
    BY <1>3, <1>6 DEF Confirmed
  <2>2. HeldByPending'
    BY <1>8 DEF HeldByPending
  <2> QED
    BY <2>1, <2>2, <1>7 DEF StoreTrue
<1> QED
  BY <1>3, <1>5, <1>9 DEF Confirmed

\* A rewind keeps what it does not undo.
LEMMA RewindStore ==
  ASSUME StoreTyped, StoreTrue, NEW k \in 1..MaxHeight, RewindRows(k)
  PROVE  /\ StoreTrue'
         /\ \A u \in Txs : Confirmed(u)' <=> Confirmed(u) /\ row[u] <= k
         /\ \A u \in Txs : Confirmed(u)' => row'[u] = row[u]
         /\ \A u \in Txs : row'[u] = IF Confirmed(u) /\ row[u] > k THEN Pending ELSE row[u]
         /\ cursor' = IF cursor > k THEN k ELSE cursor
<1>1. /\ row \in [Txs -> 0..NoRow] /\ spentIn \in [Pays -> Txs \union {Nobody}]
      /\ spentAt \in [Pays -> 0..MaxHeight] /\ k \in Nat /\ k >= 1
  BY Consts DEF StoreTyped
<1>2. /\ \A u \in Txs : row'[u] = IF row[u] \in 1..MaxHeight /\ row[u] > k THEN Pending ELSE row[u]
      /\ \A i \in Pays : spentIn'[i] = IF spentAt[i] > k THEN Nobody ELSE spentIn[i]
      /\ \A i \in Pays : spentAt'[i] = IF spentAt[i] > k THEN 0 ELSE spentAt[i]
      /\ cursor' = IF cursor > k THEN k ELSE cursor
  BY <1>1, Consts DEF RewindRows
<1>3. \A u \in Txs : row'[u] \in 1..MaxHeight <=> row[u] \in 1..MaxHeight /\ row[u] <= k
  BY <1>1, <1>2, Consts
<1>4. \A u \in Txs : row'[u] \in 1..MaxHeight => row'[u] = row[u]
  BY <1>1, <1>2, Consts
<1>5. ASSUME NEW u \in Txs, row'[u] \in 1..MaxHeight, NEW i \in Ins[u] \intersect Pays
      PROVE  row'[i] \in 1..MaxHeight /\ row'[i] < row'[u] /\ spentIn'[i] = u /\ spentAt'[i] = row'[u]
  <2>1. row[u] \in 1..MaxHeight /\ row[u] <= k /\ row'[u] = row[u]
    BY <1>3, <1>4, <1>5
  <2>2. row[i] \in 1..MaxHeight /\ row[i] < row[u] /\ spentIn[i] = u /\ spentAt[i] = row[u]
    BY <2>1 DEF StoreTrue, Confirmed
  <2>3. i \in Txs /\ row[i] <= k
    BY <2>1, <2>2, <1>1, Consts
  <2> QED
    BY <2>1, <2>2, <2>3, <1>1, <1>2, <1>3, <1>4
<1>6. ASSUME NEW i \in Pays, spentAt'[i] > 0
      PROVE  spentIn'[i] \in Txs /\ row'[spentIn'[i]] = spentAt'[i] /\ i \in Ins[spentIn'[i]]
  <2>1. spentAt[i] > 0 /\ spentAt[i] <= k /\ spentIn'[i] = spentIn[i] /\ spentAt'[i] = spentAt[i]
    BY <1>1, <1>2, <1>6
  <2>2. spentIn[i] \in Txs /\ row[spentIn[i]] = spentAt[i] /\ i \in Ins[spentIn[i]]
    BY <2>1 DEF StoreTrue
  <2> QED
    BY <2>1, <2>2, <1>1, <1>2
<1>7. ASSUME NEW i \in Pays, spentIn'[i] # Nobody, spentAt'[i] = 0
      PROVE  row'[i] # NoRow /\ row'[spentIn'[i]] = Pending /\ i \in Ins[spentIn'[i]]
  <2>1. spentIn'[i] = spentIn[i] /\ spentAt[i] = 0
    BY <1>1, <1>2, <1>7
  <2>2. row[i] # NoRow /\ row[spentIn[i]] = Pending /\ i \in Ins[spentIn[i]] /\ spentIn[i] \in Txs
    BY <2>1, <1>1, <1>7 DEF StoreTrue, HeldByPending
  <2> QED
    BY <2>1, <2>2, <1>1, <1>2, Consts
<1>8. StoreTrue'
  <2>1. \A u \in Txs : Confirmed(u)' => \A i \in Ins[u] \intersect Pays :
          Confirmed(i)' /\ row'[i] < row'[u] /\ spentIn'[i] = u /\ spentAt'[i] = row'[u]
    BY <1>5 DEF Confirmed
  <2>2. HeldByPending'
    BY <1>7 DEF HeldByPending
  <2> QED
    BY <2>1, <2>2, <1>6 DEF StoreTrue
<1> QED
  BY <1>2, <1>3, <1>4, <1>8 DEF Confirmed
-----------------------------------------------------------------------------
(* Every step keeps the ledger *)

\* What mempools and calls do.
LEMMA QuietLedger ==
  ASSUME Ledger, UNCHANGED <<at, tip, scan, queue, row, spentIn, spentAt, cursor, faults.orphaned>>
  PROVE  Ledger'
<1>1. ChainTrue'
  BY DEF Ledger, ChainTrue, InChain
<1>2. QueueTrue'
  BY DEF Ledger, QueueTrue, BlockTask, scan
<1>3. TasksTrue'
  BY DEF Ledger, TasksTrue, TaskTrue, BlockAt, BlockTask, Right, Confirmed, scan
<1>4. RowsTrue' /\ Complete'
  BY DEF Ledger, RowsTrue, Complete, BlockTask, Right, Confirmed, Mined, scan
<1>5. Exclusive' /\ StoreTrue'
  BY DEF Ledger, Exclusive, Coming, BlockTask, StoreTrue, HeldByPending, Confirmed, scan
<1>6. Watched'
  BY DEF Ledger, Watched, Mined, scan
<1> QED
  BY <1>1, <1>2, <1>3, <1>4, <1>5, <1>6 DEF Ledger

LEMMA MineLedger ==
  ASSUME StoreTyped, RestTyped, Ledger, NEW t \in Txs, Mine(t)
  PROVE  Ledger'
<1>1. /\ at[t] = 0 /\ tip' = tip + 1 /\ at' = [at EXCEPT ![t] = tip + 1]
      /\ Ins[t] \intersect Txs \subseteq InChain /\ Rivals(t) \intersect InChain = {}
      /\ scanned' = scanned /\ coins' = coins /\ seeded' = seeded /\ held' = held
      /\ queue' = queue /\ row' = row /\ spentIn' = spentIn /\ spentAt' = spentAt
      /\ cursor' = cursor /\ faults' = faults
  BY DEF Mine, RestTyped, InChain, scan, store
<1>2. \A u \in Txs : u # t => at'[u] = at[u]
  BY <1>1 DEF RestTyped
<1>3. /\ at'[t] = tip + 1 /\ tip \in Nat /\ scanned \in Nat /\ scanned <= tip
      /\ \A u \in Txs : at[u] \in Nat
  BY <1>1, Consts DEF RestTyped
<1>4. \A u \in Txs : (0 < at'[u] /\ at'[u] <= scanned) <=> (0 < at[u] /\ at[u] <= scanned)
  BY <1>1, <1>2, <1>3
<1>5. \A u \in Txs, h \in 1..MaxHeight : Right(u, h) => Right(u, h)'
  BY <1>1, <1>2, <1>3, Consts DEF Right
<1>6. ChainTrue'
  <2>0. ChainTrue /\ \A u \in InChain : u \in Txs /\ 0 < at[u] /\ at[u] <= tip
    BY DEF Ledger, ChainTrue, InChain
  <2>1. \A u \in InChain' : u \in Txs /\ (u = t \/ (u \in InChain /\ at'[u] = at[u]))
    BY <1>2 DEF InChain
  <2>2. \A u \in InChain' : at'[u] <= tip'
    BY <2>0, <2>1, <1>1, <1>3
  <2>3. \A u, v \in InChain' : v \notin Rivals(u)
    <3>1. \A u \in InChain : u \notin Rivals(t) /\ t \notin Rivals(u)
      BY <1>1 DEF Rivals, InChain
    <3>2. t \notin Rivals(t)
      BY DEF Rivals
    <3> QED
      BY <2>0, <2>1, <3>1, <3>2 DEF ChainTrue
  <2>4. \A u, v \in InChain' : at'[u] = at'[v] /\ at'[u] > 1 => u = v
    BY <2>0, <2>1, <1>1, <1>3 DEF ChainTrue
  <2>5. \A u \in InChain' : \A i \in Ins[u] \intersect Txs : 0 < at'[i] /\ at'[i] < at'[u]
    <3> SUFFICES ASSUME NEW u \in InChain', NEW i \in Ins[u] \intersect Txs
                 PROVE  0 < at'[i] /\ at'[i] < at'[u]
      OBVIOUS
    <3>1. CASE u = t
      <4>1. i \in InChain
        BY <3>1, <1>1
      <4> QED
        BY <3>1, <4>1, <2>0, <1>1, <1>2, <1>3
    <3>2. CASE u \in InChain /\ at'[u] = at[u]
      <4>1. 0 < at[i] /\ at[i] < at[u]
        BY <2>0, <3>2 DEF ChainTrue
      <4> QED
        BY <3>2, <4>1, <1>1, <1>2, <1>3
    <3> QED
      BY <2>1, <3>1, <3>2
  <2>6. \A u \in Settled : at'[u] = 1
    <3> SUFFICES ASSUME NEW u \in Settled PROVE at'[u] = 1
      OBVIOUS
    <3>1. u \in Txs /\ at[u] = 1
      BY <2>0, Consts DEF ChainTrue
    <3> QED
      BY <3>1, <1>1, <1>2
  <2> QED
    BY <2>2, <2>3, <2>4, <2>5, <2>6 DEF ChainTrue
<1>7. QueueTrue' /\ Exclusive' /\ StoreTrue'
  BY <1>1 DEF Ledger, QueueTrue, Exclusive, Coming, BlockTask, StoreTrue, HeldByPending, Confirmed
<1>8. TasksTrue'
  <2> SUFFICES ASSUME NEW n \in DOMAIN queue, NEW u \in Txs, NEW h \in 1..MaxHeight, BlockAt(n, u, h)
               PROVE  TaskTrue(n, u, h)'
    BY <1>1 DEF TasksTrue, BlockAt, BlockTask
  <2>1. TaskTrue(n, u, h)
    BY DEF Ledger, TasksTrue
  <2>2. Right(u, h)'
    BY <2>1, <1>5 DEF TaskTrue
  <2> QED
    BY <2>1, <2>2, <1>1 DEF TaskTrue, BlockTask, Confirmed
<1>9. RowsTrue'
  <2>1. \A u \in Txs : Confirmed(u) => Right(u, row[u])'
    <3> SUFFICES ASSUME NEW u \in Txs, Confirmed(u) PROVE Right(u, row[u])'
      OBVIOUS
    <3>1. PICK h \in 1..MaxHeight : h = row[u]
      BY DEF Confirmed
    <3>2. Right(u, h)'
      BY <3>1, <1>5 DEF Ledger, RowsTrue
    <3> QED
      BY <3>1, <3>2, <1>1 DEF Right
  <2> QED
    BY <1>1, <2>1 DEF Ledger, RowsTrue, Confirmed
<1>10. Complete' /\ Watched'
  <2>1. \A u \in Txs : Mined(u)' <=> Mined(u)
    BY <1>1, <1>4 DEF Mined
  <2>2. \A u \in Txs : Mined(u) => at'[u] = at[u]
    BY <1>1, <1>2, <1>3 DEF Mined
  <2>3. Complete'
    BY <1>1, <2>1, <2>2 DEF Ledger, Complete, BlockTask
  <2>4. Watched'
    <3>1. \A i \in Pays : Spends(i) \subseteq Txs
      BY DEF Spends
    <3> QED
      BY <1>1, <2>1, <3>1, Consts DEF Ledger, Watched, RestTyped
  <2> QED
    BY <2>3, <2>4
<1> QED
  BY <1>6, <1>7, <1>8, <1>9, <1>10 DEF Ledger
\* The queue grows, but not by a block.
Grown ==
  /\ \A n \in DOMAIN queue : n \in DOMAIN queue' /\ queue'[n] = queue[n]
  /\ \A n \in DOMAIN queue' \ DOMAIN queue : queue'[n].type # "block"

LEMMA GrownTasks ==
  ASSUME RestTyped, Ledger, row' = row, Grown,
         \A u \in Txs, h \in 1..MaxHeight : Right(u, h) => Right(u, h)'
  PROVE  /\ TasksTrue' /\ Exclusive'
         /\ \A u \in Txs : Confirmed(u) => Right(u, row[u])'
         /\ \A n : BlockTask(n)' <=> BlockTask(n)
         /\ \A n : BlockTask(n) => queue'[n] = queue[n]
<1>1. \A n : BlockTask(n)' <=> BlockTask(n)
  BY DEF Grown, BlockTask
<1>2. \A n : BlockTask(n) => n \in DOMAIN queue /\ n \in DOMAIN queue' /\ queue'[n] = queue[n]
  BY DEF Grown, BlockTask
<1>3. \A u \in Txs : Confirmed(u)' <=> Confirmed(u)
  BY DEF Confirmed
<1>4. \A n : BlockTask(n) => queue[n].tx \in Txs /\ queue[n].height \in 1..MaxHeight
  BY TaskKinds DEF RestTyped, BlockTask
<1>6. ASSUME NEW n, NEW u \in Txs, NEW h \in 1..MaxHeight, BlockAt(n, u, h)'
      PROVE  TaskTrue(n, u, h)'
  <2>1. BlockTask(n) /\ BlockAt(n, u, h)
    BY <1>1, <1>2, <1>6 DEF BlockAt
  <2>3. queue'[n].spends = queue[n].spends
    BY <2>1, <1>2
  <2>5. /\ n \in DOMAIN queue /\ Right(u, h) /\ ~Confirmed(u)
        /\ \A m \in DOMAIN queue : BlockTask(m) /\ queue[m].tx = u => m = n
        /\ queue[n].spends \subseteq Ins[u]
        /\ \A i \in Ins[u] \intersect Pays :
             /\ i \in queue[n].spends
             /\ \/ Confirmed(i) /\ row[i] < h
                \/ \E m \in DOMAIN queue : m < n /\ BlockTask(m) /\ queue[m].tx = i
    BY <2>1, <1>2 DEF Ledger, TasksTrue, TaskTrue
  <2>4. Right(u, h)'
    BY <2>5
  <2>6. \A m \in DOMAIN queue' : BlockTask(m)' /\ queue'[m].tx = u => m = n
    BY <2>5, <1>1, <1>2
  <2>7. ASSUME NEW i \in Ins[u] \intersect Pays
        PROVE  \/ Confirmed(i)' /\ row'[i] < h
               \/ \E m \in DOMAIN queue' : m < n /\ BlockTask(m)' /\ queue'[m].tx = i
    <3>1. CASE Confirmed(i) /\ row[i] < h
      BY <3>1, <1>3, Consts
    <3>2. CASE \E m \in DOMAIN queue : m < n /\ BlockTask(m) /\ queue[m].tx = i
      BY <3>2, <1>1, <1>2
    <3> QED
      BY <3>1, <3>2, <2>5
  <2> QED
    BY <2>3, <2>4, <2>5, <2>6, <2>7, <1>3 DEF TaskTrue
<1>7. TasksTrue'
  BY <1>6 DEF TasksTrue
<1>8. \A u \in Txs : Coming(u)' => Coming(u)
  BY <1>1, <1>2 DEF Coming
<1>9. Exclusive'
  BY <1>3, <1>8 DEF Ledger, Exclusive
<1>10. \A u \in Txs : Confirmed(u) => Right(u, row[u])'
  <2> SUFFICES ASSUME NEW u \in Txs, Confirmed(u) PROVE Right(u, row[u])'
    OBVIOUS
  <2>1. PICK h \in 1..MaxHeight : h = row[u]
    BY DEF Confirmed
  <2>2. Right(u, h)'
    BY <2>1 DEF Ledger, RowsTrue
  <2> QED
    BY <2>1, <2>2 DEF Right
<1> QED
  BY <1>1, <1>2, <1>7, <1>9, <1>10

LEMMA IncomingLedger ==
  ASSUME StoreTyped, RestTyped, Ledger, NEW t \in Txs, Incoming(t)
  PROVE  Ledger'
<1>1. /\ at' = at /\ tip' = tip /\ scanned' = scanned /\ coins' = coins /\ seeded' = seeded
      /\ held' = held /\ row' = row /\ spentIn' = spentIn /\ spentAt' = spentAt
      /\ cursor' = cursor /\ faults' = faults /\ queue' = Append(queue, [type |-> "incoming", tx |-> t])
  BY DEF Incoming, chain, scan, store
<1>2. PICK x \in Tasks : x = [type |-> "incoming", tx |-> t]
  BY DEF Tasks
<1>3. /\ \A n \in DOMAIN queue : n \in DOMAIN queue' /\ queue'[n] = queue[n]
      /\ \A n \in DOMAIN queue' \ DOMAIN queue : queue'[n] = x
      /\ \A n \in DOMAIN queue : n \in Nat /\ n <= Len(queue)
      /\ \A n \in DOMAIN queue' \ DOMAIN queue : n = Len(queue) + 1
      /\ Len(queue) \in Nat
  BY <1>1, <1>2 DEF RestTyped
<1>4. x.type = "incoming"
  BY <1>2
<1>5. Grown
  BY <1>3, <1>4 DEF Grown
<1>6. \A u \in Txs, h \in 1..MaxHeight : Right(u, h) => Right(u, h)'
  BY <1>1 DEF Right
<1>7. /\ TasksTrue' /\ Exclusive'
      /\ \A u \in Txs : Confirmed(u) => Right(u, row[u])'
      /\ \A n : BlockTask(n)' <=> BlockTask(n)
      /\ \A n : BlockTask(n) => queue'[n] = queue[n]
  BY <1>1, <1>5, <1>6, GrownTasks
<1>8. ChainTrue' /\ StoreTrue' /\ Watched'
  BY <1>1 DEF Ledger, ChainTrue, InChain, StoreTrue, Confirmed, HeldByPending, Watched, Mined
<1>9. RowsTrue'
  BY <1>1, <1>7 DEF Ledger, RowsTrue, Confirmed, Right
<1>10. Complete'
  BY <1>1, <1>3, <1>7 DEF Ledger, Complete, Mined
<1>11. QueueTrue'
  <2>0. QueueTrue
    BY DEF Ledger
  <2>1. held' <=> \E n \in DOMAIN queue' : queue'[n].type = "rewind"
    BY <2>0, <1>1, <1>3, <1>4 DEF QueueTrue
  <2>2. \A n \in DOMAIN queue' : queue'[n].type = "reset" =>
          n + 1 \in DOMAIN queue' /\ queue'[n + 1].type = "rewind"
    BY <2>0, <1>3, <1>4 DEF QueueTrue
  <2>3. \A n \in DOMAIN queue' : queue'[n].type \in {"reset", "rewind"} => queue'[n].height = scanned'
    BY <2>0, <1>1, <1>3, <1>4 DEF QueueTrue
  <2>4. \A m, n \in DOMAIN queue' : queue'[m].type = "rewind" /\ m < n => queue'[n].type = "incoming"
    BY <2>0, <1>3, <1>4 DEF QueueTrue
  <2>5. \A m, n \in DOMAIN queue' :
          queue'[m].type \in {"block", "cursor"} /\ BlockTask(n)' /\ m < n => queue'[m].height < queue'[n].height
    <3> SUFFICES ASSUME NEW m \in DOMAIN queue', NEW n \in DOMAIN queue',
                        queue'[m].type \in {"block", "cursor"}, BlockTask(n)', m < n
                 PROVE  queue'[m].height < queue'[n].height
      OBVIOUS
    <3>1. n \in DOMAIN queue /\ m \in DOMAIN queue
      BY <1>3, <1>4, <1>7 DEF BlockTask
    <3> QED
      BY <2>0, <3>1, <1>3, <1>7 DEF QueueTrue
  <2>6. \A n \in DOMAIN queue' : queue'[n].type \in {"block", "cursor"} => held' \/ queue'[n].height <= scanned'
    BY <2>0, <1>1, <1>3, <1>4 DEF QueueTrue
  <2>7. \A n \in DOMAIN queue' : BlockTask(n)' => cursor' < queue'[n].height
    <3> SUFFICES ASSUME NEW n, BlockTask(n) PROVE cursor' < queue'[n].height
      BY <1>7
    <3> QED
      BY <2>0, <1>1, <1>7 DEF QueueTrue, BlockTask
  <2>8. ~held' => cursor' <= scanned'
    BY <2>0, <1>1 DEF QueueTrue
  <2> QED
    BY <2>1, <2>2, <2>3, <2>4, <2>5, <2>6, <2>7, <2>8 DEF QueueTrue
<1> QED
  BY <1>7, <1>8, <1>9, <1>10, <1>11 DEF Ledger

LEMMA ReorgLedger ==
  ASSUME StoreTyped, RestTyped, Ledger, NEW k \in 1..MaxHeight, Reorg(k), k <= scanned, ~Rewinding
  PROVE  Ledger'
<1>1. /\ k < tip /\ tip' = k /\ at' = [t \in Txs |-> IF at[t] > k THEN 0 ELSE at[t]]
      /\ scanned' = (IF scanned > k THEN k ELSE scanned) /\ held' = TRUE
      /\ queue' = queue \o <<[type |-> "reset", height |-> k], [type |-> "rewind", height |-> k]>>
      /\ faults' = [count |-> faults.count + 1,
                    orphaned |-> faults.orphaned \union {t \in Txs : at[t] > k}]
      /\ UNCHANGED <<coins, seeded, store, call>>
  BY ReorgFacts
<1>2. /\ row' = row /\ spentIn' = spentIn /\ spentAt' = spentAt /\ cursor' = cursor
      /\ faults'.orphaned = faults.orphaned \union {t \in Txs : at[t] > k}
  BY <1>1 DEF store
<1>3. k \in Nat /\ k >= 1 /\ scanned \in Nat /\ scanned' = k /\ tip \in Nat /\ \A t \in Txs : at[t] \in Nat
  BY <1>1, Consts DEF RestTyped
<1>4. PICK x \in Tasks, y \in Tasks :
        /\ x = [type |-> "reset", height |-> k] /\ y = [type |-> "rewind", height |-> k]
        /\ queue' = queue \o <<x, y>>
  BY <1>1 DEF Tasks
<1>5. /\ \A n \in DOMAIN queue : n \in DOMAIN queue' /\ queue'[n] = queue[n] /\ n \in Nat /\ n <= Len(queue)
      /\ \A n \in DOMAIN queue' \ DOMAIN queue : n = Len(queue) + 1 \/ n = Len(queue) + 2
      /\ Len(queue) + 1 \in DOMAIN queue' /\ queue'[Len(queue) + 1] = x
      /\ Len(queue) + 2 \in DOMAIN queue' /\ queue'[Len(queue) + 2] = y
      /\ Len(queue) \in Nat
  BY <1>4 DEF RestTyped
<1>6. x.type = "reset" /\ y.type = "rewind" /\ x.height = k /\ y.height = k
  BY <1>4
<1>7. Grown
  BY <1>5, <1>6 DEF Grown
<1>8. ~held /\ \A n \in DOMAIN queue : queue[n].type \notin {"reset", "rewind"}
  BY DEF Ledger, QueueTrue, Rewinding
<1>9. \A u \in Txs, h \in 1..MaxHeight : Right(u, h) => Right(u, h)'
  BY <1>1, <1>2, <1>3, <1>8, Consts DEF Right
<1>10. /\ TasksTrue' /\ Exclusive'
       /\ \A u \in Txs : Confirmed(u) => Right(u, row[u])'
       /\ \A n : BlockTask(n)' <=> BlockTask(n)
       /\ \A n : BlockTask(n) => queue'[n] = queue[n]
  BY <1>2, <1>7, <1>9, GrownTasks
<1>11. ChainTrue'
  <2>0. ChainTrue /\ \A u \in InChain : u \in Txs /\ 0 < at[u] /\ at[u] <= tip
    BY DEF Ledger, ChainTrue, InChain
  <2>1. \A u \in InChain' : u \in InChain /\ at'[u] = at[u] /\ at[u] <= k
    BY <1>1, <1>3 DEF InChain
  <2>2. \A u \in InChain' : \A i \in Ins[u] \intersect Txs : 0 < at'[i] /\ at'[i] < at'[u]
    <3> SUFFICES ASSUME NEW u \in InChain', NEW i \in Ins[u] \intersect Txs
                 PROVE  0 < at'[i] /\ at'[i] < at'[u]
      OBVIOUS
    <3>1. 0 < at[i] /\ at[i] < at[u] /\ at'[u] = at[u] /\ at[u] <= k /\ u \in Txs
      BY <2>0, <2>1 DEF ChainTrue
    <3>2. at[i] \in Nat /\ at[u] \in Nat /\ ~(at[i] > k)
      BY <3>1, <1>3
    <3>3. at'[i] = at[i]
      BY <3>2, <1>1
    <3> QED
      BY <3>1, <3>3
  <2>3. \A u \in Settled : at'[u] = 1
    BY <2>0, <1>1, <1>3, Consts DEF ChainTrue
  <2> QED
    BY <2>0, <2>1, <2>2, <2>3, <1>1 DEF ChainTrue
<1>12. StoreTrue' /\ Watched'
  BY <1>1, <1>2 DEF Ledger, StoreTrue, Confirmed, HeldByPending, Watched
<1>13. RowsTrue'
  <2> SUFFICES ASSUME NEW u \in Txs, Confirmed(u) PROVE row[u] <= k => row[u] <= cursor
    BY <1>2, <1>3, <1>10 DEF RowsTrue, Confirmed, Right
  <2> QED
    BY <1>3, Consts DEF Ledger, RowsTrue, Confirmed
<1>14. Complete'
  <2>1. \A u \in Txs : Mined(u)' => Mined(u) /\ at'[u] = at[u]
    BY <1>1, <1>3 DEF Mined
  <2> QED
    BY <2>1, <1>2, <1>5, <1>10 DEF Ledger, Complete
<1>15. QueueTrue'
  <2>0. QueueTrue
    BY DEF Ledger
  <2>1. held' <=> \E n \in DOMAIN queue' : queue'[n].type = "rewind"
    BY <1>1, <1>5, <1>6
  <2>2. \A n \in DOMAIN queue' : queue'[n].type = "reset" =>
          n + 1 \in DOMAIN queue' /\ queue'[n + 1].type = "rewind"
    <3> SUFFICES ASSUME NEW n \in DOMAIN queue', queue'[n].type = "reset"
                 PROVE  n + 1 \in DOMAIN queue' /\ queue'[n + 1].type = "rewind"
      OBVIOUS
    <3>1. n = Len(queue) + 1
      BY <1>5, <1>6, <1>8
    <3> QED
      BY <3>1, <1>5, <1>6
  <2>3. \A n \in DOMAIN queue' : queue'[n].type \in {"reset", "rewind"} => queue'[n].height = scanned'
    BY <1>3, <1>5, <1>6, <1>8
  <2>4. \A m, n \in DOMAIN queue' : queue'[m].type = "rewind" /\ m < n => queue'[n].type = "incoming"
    BY <1>5, <1>6, <1>8
  <2>5. \A m, n \in DOMAIN queue' :
          queue'[m].type \in {"block", "cursor"} /\ BlockTask(n)' /\ m < n => queue'[m].height < queue'[n].height
    <3> SUFFICES ASSUME NEW m \in DOMAIN queue', NEW n \in DOMAIN queue',
                        queue'[m].type \in {"block", "cursor"}, BlockTask(n)', m < n
                 PROVE  queue'[m].height < queue'[n].height
      OBVIOUS
    <3>1. n \in DOMAIN queue /\ m \in DOMAIN queue
      BY <1>5, <1>6, <1>10 DEF BlockTask
    <3> QED
      BY <2>0, <3>1, <1>5, <1>10 DEF QueueTrue
  <2>7. \A n \in DOMAIN queue' : BlockTask(n)' => cursor' < queue'[n].height
    <3> SUFFICES ASSUME NEW n, BlockTask(n) PROVE cursor' < queue'[n].height
      BY <1>10
    <3> QED
      BY <2>0, <1>2, <1>10 DEF QueueTrue, BlockTask
  <2> QED
    BY <2>1, <2>2, <2>3, <2>4, <2>5, <2>7, <1>1 DEF QueueTrue
<1> QED
  BY <1>10, <1>11, <1>12, <1>13, <1>14, <1>15 DEF Ledger
\* While no reorg is waiting, what is recorded or queued as confirmed is in the chain.
LEMMA InChainUnlessHeld ==
  ASSUME RestTyped, Ledger, ~held
  PROVE  /\ \A u \in Txs : Confirmed(u) => at[u] = row[u] /\ row[u] <= scanned /\ row[u] <= cursor
         /\ \A n : BlockTask(n) => queue[n].height <= scanned /\ at[queue[n].tx] = queue[n].height
         /\ \A n \in DOMAIN queue : queue[n].type \notin {"reset", "rewind"}
<1>1. \A u \in Txs : Confirmed(u) => at[u] = row[u] /\ row[u] <= scanned /\ row[u] <= cursor
  BY DEF Ledger, RowsTrue, Right
<1>2. \A n : BlockTask(n) => queue[n].height <= scanned /\ at[queue[n].tx] = queue[n].height
  <2> SUFFICES ASSUME NEW n, BlockTask(n)
               PROVE  queue[n].height <= scanned /\ at[queue[n].tx] = queue[n].height
    OBVIOUS
  <2>1. PICK u \in Txs, h \in 1..MaxHeight : n \in DOMAIN queue /\ BlockAt(n, u, h)
    BY TaskKinds DEF RestTyped, BlockTask, BlockAt
  <2>2. Right(u, h)
    BY <2>1 DEF Ledger, TasksTrue, TaskTrue
  <2> QED
    BY <2>1, <2>2 DEF Right, BlockAt
<1>3. \A n \in DOMAIN queue : queue[n].type \notin {"reset", "rewind"}
  BY DEF Ledger, QueueTrue
<1> QED
  BY <1>1, <1>2, <1>3

\* What a transaction that comes next in the chain spends of ours is watched.
LEMMA InputsWatched ==
  ASSUME RestTyped, Ledger, ~held, NEW t \in Txs, at[t] = scanned + 1, NEW i \in Ins[t] \intersect Pays
  PROVE  i \in coins \union seeded /\ Mined(i)
<1>1. i \in Txs /\ scanned \in Nat /\ scanned >= 1 /\ \A u \in Txs : at[u] \in Nat
  BY Consts DEF RestTyped
<1>2. t \in InChain
  BY <1>1 DEF InChain
<1>3. Mined(i)
  BY <1>1, <1>2 DEF Ledger, ChainTrue, Mined
<1>4. ASSUME NEW u \in Spends(i), Mined(u) PROVE FALSE
  <2>1. u \in InChain /\ u # t /\ i \in Ins[u]
    BY <1>1, <1>4 DEF Spends, Mined, InChain
  <2> QED
    BY <2>1, <1>2 DEF Ledger, ChainTrue, Rivals
<1> QED
  BY <1>3, <1>4 DEF Ledger, Watched

\* The filter of a block is not missed: what concerns us is noticed.
LEMMA OursTouch ==
  ASSUME RestTyped, Ledger, ~held, NEW t \in Txs, at[t] = scanned + 1, Ours(t)
  PROVE  Touches(t, scanned + 1)
<1>1. CASE t \in Pays /\ t \in coins
  <2>1. ~Mined(t)
    BY Consts DEF RestTyped, Mined
  <2>2. Ins[t] # {} /\ Ins[t] \subseteq seeded
    BY <1>1, <2>1 DEF Ledger, Watched
  <2> QED
    BY <2>2 DEF Touches, Matched
<1>2. CASE t \in Pays /\ t \notin coins
  BY <1>2 DEF Touches
<1>3. CASE Ins[t] \intersect Pays # {}
  BY <1>3, InputsWatched DEF Touches, Matched
<1> QED
  BY <1>1, <1>2, <1>3 DEF Ours

LEMMA ScanLedger ==
  ASSUME StoreTyped, RestTyped, Ledger, Scan
  PROVE  Ledger'
<1> DEFINE h == scanned + 1
<1>1. /\ ~held /\ scanned < tip /\ scanned' = h /\ ScanAdds(queue', h)
      /\ coins' = (coins \ UNION {Ins[t] : t \in {u \in Txs : Touches(u, h)}})
                    \union ({u \in Txs : Touches(u, h)} \intersect Pays)
      /\ UNCHANGED <<chain, seeded, held, store, call, faults>>
  BY ScanFacts
<1>2. /\ at' = at /\ tip' = tip /\ seeded' = seeded /\ held' = held /\ row' = row
      /\ spentIn' = spentIn /\ spentAt' = spentAt /\ cursor' = cursor /\ faults' = faults
  BY <1>1 DEF chain, store
<1>3. /\ scanned \in Nat /\ scanned >= 1 /\ \A u \in Txs : at[u] \in Nat
      /\ h \in 1..MaxHeight /\ h > 1 /\ h = scanned + 1
  BY <1>1, Consts DEF RestTyped
<1>4. /\ \A u \in Txs : Confirmed(u) => at[u] = row[u] /\ row[u] <= scanned /\ row[u] <= cursor
      /\ \A n : BlockTask(n) => queue[n].height <= scanned /\ at[queue[n].tx] = queue[n].height
      /\ \A n \in DOMAIN queue : queue[n].type \notin {"reset", "rewind"}
  BY <1>1, InChainUnlessHeld
<1>5. \A t, u \in Txs : at[t] = h /\ at[u] = h => t = u
  BY <1>3 DEF Ledger, ChainTrue, InChain
<1>6. \A t \in Txs : at[t] = h /\ Ours(t) => Touches(t, h)
  BY <1>1, OursTouch
<1>7. \A t \in Txs : Touches(t, h) => at[t] = h
  BY DEF Touches
<1>8. /\ \A n \in DOMAIN queue : n \in DOMAIN queue' /\ queue'[n] = queue[n] /\ n \in Nat /\ n <= Len(queue)
      /\ \A n \in DOMAIN queue' \ DOMAIN queue :
           \/ queue'[n] = CursorAt(h)
           \/ n = Len(queue) + 1 /\ \E t \in Txs : Touches(t, h) /\ queue'[n] = BlockOf(t, h)
      /\ (\E t \in Txs : Touches(t, h)) =>
           Len(queue) + 1 \in DOMAIN queue' \ DOMAIN queue /\ queue'[Len(queue) + 1].type = "block"
      /\ Len(queue) \in Nat /\ \A n \in DOMAIN queue' : n \in Nat
  BY <1>1 DEF ScanAdds, RestTyped
<1> HIDE DEF h
<1>9. CursorAt(h).type = "cursor" /\ CursorAt(h).height = h
  BY DEF CursorAt
<1>10. \A t \in Txs : /\ BlockOf(t, h).type = "block" /\ BlockOf(t, h).height = h
                      /\ BlockOf(t, h).tx = t /\ BlockOf(t, h).spends = Matched(t)
  BY DEF BlockOf
<1>11. \A n \in DOMAIN queue' \ DOMAIN queue :
         /\ queue'[n].type \in {"block", "cursor"} /\ queue'[n].height = h
         /\ queue'[n].type = "block" => n = Len(queue) + 1 /\ \E t \in Txs :
              at[t] = h /\ queue'[n].tx = t /\ queue'[n].spends = Matched(t)
  BY <1>7, <1>8, <1>9, <1>10
<1>12. ASSUME NEW t \in Txs, Touches(t, h)
       PROVE  /\ Len(queue) + 1 \in DOMAIN queue' \ DOMAIN queue
              /\ queue'[Len(queue) + 1].type = "block" /\ queue'[Len(queue) + 1].tx = t
              /\ queue'[Len(queue) + 1].height = h
  <2>1. Len(queue) + 1 \in DOMAIN queue' \ DOMAIN queue /\ queue'[Len(queue) + 1].type = "block"
    BY <1>8, <1>12
  <2>2. PICK u \in Txs : at[u] = h /\ queue'[Len(queue) + 1].tx = u
    BY <2>1, <1>11
  <2> QED
    BY <2>1, <2>2, <1>5, <1>7, <1>11, <1>12
<1>13. \A n : BlockTask(n) => BlockTask(n)' /\ queue'[n] = queue[n] /\ n \in DOMAIN queue
  BY <1>8 DEF BlockTask
<1>14. \A n : BlockTask(n)' => BlockTask(n) \/ n \in DOMAIN queue' \ DOMAIN queue
  BY <1>8 DEF BlockTask
<1>15. \A n : BlockTask(n) => queue[n].tx \in Txs /\ queue[n].height \in Nat
  BY TaskKinds, Consts DEF RestTyped, BlockTask
<1>16. ChainTrue' /\ StoreTrue'
  BY <1>2 DEF Ledger, ChainTrue, InChain, StoreTrue, Confirmed, HeldByPending
<1>17. QueueTrue'
  <2>0. QueueTrue
    BY DEF Ledger
  <2>1. \A n \in DOMAIN queue' : queue'[n].type \notin {"reset", "rewind"}
    BY <1>4, <1>8, <1>11
  <2>2. \A m, n \in DOMAIN queue' :
          queue'[m].type \in {"block", "cursor"} /\ BlockTask(n)' /\ m < n => queue'[m].height < queue'[n].height
    <3> SUFFICES ASSUME NEW m \in DOMAIN queue', NEW n \in DOMAIN queue',
                        queue'[m].type \in {"block", "cursor"}, BlockTask(n)', m < n
                 PROVE  queue'[m].height < queue'[n].height
      OBVIOUS
    <3>1. CASE BlockTask(n)
      <4>1. n \in DOMAIN queue /\ m \in DOMAIN queue
        <5>1. queue \in Seq(Tasks) /\ n \in 1..Len(queue) /\ m \in Nat
          BY <3>1, <1>8, <1>13 DEF RestTyped
        <5>2. m \in DOMAIN queue' /\ m >= 1
          BY <1>1 DEF ScanAdds
        <5> QED
          BY <5>1, <5>2
      <4> QED
        BY <3>1, <4>1, <2>0, <1>8 DEF QueueTrue
    <3>2. CASE n \in DOMAIN queue' \ DOMAIN queue
      <4>1. n = Len(queue) + 1 /\ queue'[n].height = h
        BY <3>2, <1>11 DEF BlockTask
      <4>2. m \in DOMAIN queue
        <5>1. queue \in Seq(Tasks) /\ m \in Nat /\ m >= 1
          BY <1>1 DEF RestTyped, ScanAdds
        <5> QED
          BY <5>1, <4>1, <1>8
      <4>3. queue[m].height <= scanned /\ queue'[m] = queue[m]
        BY <4>2, <2>0, <1>1, <1>8 DEF QueueTrue
      <4>4. queue[m].height \in Nat
        BY <4>2, <4>3, TaskKinds, Consts DEF RestTyped
      <4> QED
        BY <4>1, <4>3, <4>4, <1>3
    <3> QED
      BY <3>1, <3>2, <1>14
  <2>3. \A n \in DOMAIN queue' : queue'[n].type \in {"block", "cursor"} => queue'[n].height <= scanned'
    <3> SUFFICES ASSUME NEW n \in DOMAIN queue', queue'[n].type \in {"block", "cursor"}
                 PROVE  queue'[n].height <= scanned'
      OBVIOUS
    <3>1. CASE n \in DOMAIN queue
      <4>1. queue'[n] = queue[n] /\ queue[n].height <= scanned
        BY <3>1, <2>0, <1>1, <1>8 DEF QueueTrue
      <4>2. queue[n].height \in Nat
        BY <3>1, <4>1, TaskKinds, Consts DEF RestTyped
      <4> QED
        BY <4>1, <4>2, <1>1, <1>3
    <3>2. CASE n \notin DOMAIN queue
      BY <3>2, <1>1, <1>3, <1>11
    <3> QED
      BY <3>1, <3>2
  <2>4. cursor \in Nat /\ cursor <= scanned
    BY <2>0, <1>1, Consts DEF QueueTrue, StoreTyped
  <2>5. \A n \in DOMAIN queue' : BlockTask(n)' => cursor' < queue'[n].height
    <3> SUFFICES ASSUME NEW n \in DOMAIN queue', BlockTask(n)' PROVE cursor < queue'[n].height
      BY <1>2
    <3>1. CASE BlockTask(n)
      BY <3>1, <2>0, <1>13 DEF QueueTrue
    <3>2. CASE n \in DOMAIN queue' \ DOMAIN queue
      BY <3>2, <2>4, <1>3, <1>11
    <3> QED
      BY <3>1, <3>2, <1>14
  <2>6. ~held' /\ cursor' <= scanned'
    BY <2>4, <1>1, <1>2, <1>3
  <2> QED
    BY <2>1, <2>2, <2>3, <2>5, <2>6 DEF QueueTrue
<1>18. \A u \in Txs : Confirmed(u)' <=> Confirmed(u)
  BY <1>2 DEF Confirmed
<1>19. TasksTrue'
  <2> SUFFICES ASSUME NEW n \in DOMAIN queue', NEW u \in Txs, NEW g \in 1..MaxHeight, BlockAt(n, u, g)'
               PROVE  TaskTrue(n, u, g)'
    BY DEF TasksTrue
  <2>0. BlockTask(n)' /\ queue'[n].tx = u /\ queue'[n].height = g
    BY DEF BlockAt
  <2>1. CASE BlockTask(n)
    <3>1. queue'[n] = queue[n] /\ n \in DOMAIN queue /\ BlockAt(n, u, g)
      BY <2>0, <2>1, <1>13 DEF BlockAt
    <3>2. g \in Nat /\ g <= scanned /\ at[u] = g
      BY <3>1, <1>4, <1>15 DEF BlockAt
    <3>3. Right(u, g)'
      BY <3>2, <1>1, <1>2, <1>3 DEF Right
    <3>4. /\ ~Confirmed(u)
          /\ \A m \in DOMAIN queue : BlockTask(m) /\ queue[m].tx = u => m = n
          /\ queue[n].spends \subseteq Ins[u]
          /\ \A i \in Ins[u] \intersect Pays :
               /\ i \in queue[n].spends
               /\ \/ Confirmed(i) /\ row[i] < g
                  \/ \E m \in DOMAIN queue : m < n /\ BlockTask(m) /\ queue[m].tx = i
      BY <3>1 DEF Ledger, TasksTrue, TaskTrue
    <3>5. \A m \in DOMAIN queue' : BlockTask(m)' /\ queue'[m].tx = u => m = n
      <4> SUFFICES ASSUME NEW m \in DOMAIN queue', BlockTask(m)', queue'[m].tx = u PROVE m = n
        OBVIOUS
      <4>1. CASE BlockTask(m)
        BY <4>1, <3>4, <1>13
      <4>2. CASE m \in DOMAIN queue' \ DOMAIN queue
        <5>1. at[u] = h
          BY <4>2, <1>11 DEF BlockTask
        <5>2. h # g
          BY <3>2, <1>3
        <5> QED
          BY <5>1, <5>2, <3>2
      <4> QED
        BY <4>1, <4>2, <1>14
    <3>6. ASSUME NEW i \in Ins[u] \intersect Pays
          PROVE  \/ Confirmed(i)' /\ row'[i] < g
                 \/ \E m \in DOMAIN queue' : m < n /\ BlockTask(m)' /\ queue'[m].tx = i
      <4>1. CASE Confirmed(i) /\ row[i] < g
        BY <4>1, <1>2, <1>18, Consts
      <4>2. CASE \E m \in DOMAIN queue : m < n /\ BlockTask(m) /\ queue[m].tx = i
        BY <4>2, <1>8, <1>13
      <4> QED
        BY <4>1, <4>2, <3>4
    <3> QED
      BY <3>1, <3>3, <3>4, <3>5, <3>6, <1>18 DEF TaskTrue
  <2>2. CASE n \in DOMAIN queue' \ DOMAIN queue
    <3>1. at[u] = h /\ queue'[n].spends = Matched(u)
      BY <2>0, <2>2, <1>11 DEF BlockTask
    <3>2. n = Len(queue) + 1 /\ g = h
      BY <2>0, <2>2, <1>11 DEF BlockTask
    <3>3. Right(u, g)'
      BY <3>1, <3>2, <1>1, <1>2, <1>3 DEF Right
    <3>4. ~Confirmed(u)
      BY <3>1, <1>3, <1>4
    <3>5. \A m \in DOMAIN queue' : BlockTask(m)' /\ queue'[m].tx = u => m = n
      <4> SUFFICES ASSUME NEW m \in DOMAIN queue', BlockTask(m)', queue'[m].tx = u PROVE m = n
        OBVIOUS
      <4>1. CASE BlockTask(m)
        <5>1. queue[m].height <= scanned /\ at[u] = queue[m].height
          BY <4>1, <1>4, <1>13
        <5> QED
          BY <5>1, <3>1, <1>3
      <4>2. CASE m \in DOMAIN queue' \ DOMAIN queue
        BY <4>2, <3>2, <1>11 DEF BlockTask
      <4> QED
        BY <4>1, <4>2, <1>14
    <3>6. Matched(u) \subseteq Ins[u]
      BY DEF Matched
    <3>7. ASSUME NEW i \in Ins[u] \intersect Pays
          PROVE  /\ i \in Matched(u)
                 /\ \/ Confirmed(i)' /\ row'[i] < h
                    \/ \E m \in DOMAIN queue' : m < n /\ BlockTask(m)' /\ queue'[m].tx = i
      <4>1. i \in coins \union seeded /\ Mined(i)
        BY <3>1, <1>1, <1>3, InputsWatched
      <4>2. i \in Matched(u)
        BY <4>1 DEF Matched
      <4>3. i \in Txs /\ at[i] \in Nat /\ 0 < at[i] /\ at[i] <= scanned
        BY <4>1, <1>3, Consts DEF Mined
      <4>4. \/ row[i] = at[i]
            \/ \E m \in DOMAIN queue : BlockTask(m) /\ queue[m].tx = i /\ queue[m].height = at[i]
        BY <4>1, <4>3 DEF Ledger, Complete, Ours
      <4>5. CASE row[i] = at[i]
        <5>1. row[i] \in 1..MaxHeight /\ row[i] < h
          BY <4>3, <4>5, <1>3, Consts DEF RestTyped
        <5> QED
          BY <4>2, <5>1, <1>2 DEF Confirmed
      <4>6. CASE \E m \in DOMAIN queue : BlockTask(m) /\ queue[m].tx = i /\ queue[m].height = at[i]
        <5>1. PICK m \in DOMAIN queue : BlockTask(m) /\ queue[m].tx = i
          BY <4>6
        <5>2. m \in DOMAIN queue' /\ m < n /\ BlockTask(m)' /\ queue'[m].tx = i
          BY <5>1, <3>2, <1>8, <1>13
        <5> QED
          BY <4>2, <5>2
      <4> QED
        BY <4>4, <4>5, <4>6
    <3> QED
      BY <3>1, <3>2, <3>3, <3>4, <3>5, <3>6, <3>7, <1>18 DEF TaskTrue
  <2> QED
    BY <2>0, <2>1, <2>2, <1>14
<1>20. RowsTrue'
  <2> SUFFICES ASSUME NEW u \in Txs, Confirmed(u) PROVE Right(u, row[u])' /\ row[u] <= cursor
    BY <1>2, <1>18 DEF RowsTrue, Right
  <2>1. at[u] = row[u] /\ row[u] <= scanned /\ row[u] <= cursor /\ row[u] \in Nat
    BY <1>4, Consts DEF Confirmed
  <2> QED
    BY <2>1, <1>1, <1>2, <1>3 DEF Right
<1>21. Complete'
  <2> SUFFICES ASSUME NEW u \in Txs, Ours(u), Mined(u)'
               PROVE  row[u] = at[u] \/ \E n \in DOMAIN queue' :
                        BlockTask(n)' /\ queue'[n].tx = u /\ queue'[n].height = at[u]
    BY <1>2 DEF Complete
  <2>1. CASE Mined(u)
    <3>1. row[u] = at[u] \/ \E n \in DOMAIN queue : BlockTask(n) /\ queue[n].tx = u /\ queue[n].height = at[u]
      BY <2>1 DEF Ledger, Complete
    <3> QED
      BY <3>1, <1>8, <1>13
  <2>2. CASE at[u] = h
    <3>1. Touches(u, h)
      BY <2>2, <1>6
    <3> QED
      BY <2>2, <3>1, <1>12 DEF BlockTask
  <2> QED
    BY <2>1, <2>2, <1>1, <1>2, <1>3 DEF Mined
<1>22. Exclusive'
  <2>1. \A u \in Txs : Confirmed(u)' => u \in InChain
    BY <1>4, <1>18, Consts DEF InChain, Confirmed
  <2>2. \A u \in Txs : Coming(u)' => u \in InChain
    <3> SUFFICES ASSUME NEW u \in Txs, NEW n \in DOMAIN queue', BlockTask(n)', queue'[n].tx = u
                 PROVE  u \in InChain
      BY DEF Coming
    <3>1. CASE BlockTask(n)
      <4>1. at[u] = queue[n].height /\ queue[n].height \in 1..MaxHeight
        BY <3>1, <1>4, <1>13, TaskKinds DEF RestTyped, BlockTask
      <4> QED
        BY <4>1, <1>3 DEF InChain
    <3>2. CASE n \in DOMAIN queue' \ DOMAIN queue
      <4>1. at[u] = h
        BY <3>2, <1>11 DEF BlockTask
      <4> QED
        BY <4>1, <1>3 DEF InChain
    <3> QED
      BY <3>1, <3>2, <1>14
  <2> QED
    BY <2>1, <2>2 DEF Exclusive, Ledger, ChainTrue
<1>23. Watched'
  <2>1. ASSUME NEW i \in Pays, Mined(i)', \A t \in Spends(i) : ~Mined(t)'
        PROVE  i \in coins' \union seeded
    <3>1. i \in Txs /\ at[i] \in Nat
      BY <1>3, Consts
    <3>2. CASE at[i] = h
      BY <3>1, <3>2, <1>1, <1>6 DEF Ours
    <3>3. CASE Mined(i)
      <4>1. \A t \in Spends(i) : ~Mined(t)
        <5> SUFFICES ASSUME NEW t \in Spends(i), Mined(t) PROVE Mined(t)'
          BY <2>1
        <5>1. at[t] \in Nat
          BY <1>3 DEF Spends
        <5> QED
          BY <5>1, <1>1, <1>2, <1>3 DEF Mined
      <4>2. i \in coins \union seeded
        BY <3>3, <4>1, <1>1 DEF Ledger, Watched
      <4>3. ASSUME NEW t \in Txs, Touches(t, h), i \in Ins[t] PROVE FALSE
        <5>1. t \in Spends(i) /\ at[t] = h
          BY <4>3, <1>7 DEF Spends
        <5>2. Mined(t)'
          BY <5>1, <1>1, <1>2, <1>3 DEF Mined
        <5> QED
          BY <5>1, <5>2, <2>1
      <4> QED
        BY <4>2, <4>3, <1>1
    <3> QED
      BY <3>1, <3>2, <3>3, <2>1, <1>1, <1>2, <1>3 DEF Mined
  <2>2. ASSUME NEW t \in coins' PROVE Mined(t)' \/ (Ins[t] # {} /\ Ins[t] \subseteq seeded)
    <3>1. CASE t \in Txs /\ Touches(t, h)
      BY <3>1, <1>1, <1>2, <1>3, <1>7 DEF Mined
    <3>2. CASE t \in coins
      <4>1. Mined(t) \/ (Ins[t] # {} /\ Ins[t] \subseteq seeded)
        BY <3>2, <1>1 DEF Ledger, Watched
      <4>2. Mined(t) => Mined(t)'
        BY <3>2, <1>1, <1>2, <1>3, Consts DEF Mined, RestTyped
      <4> QED
        BY <4>1, <4>2
    <3> QED
      BY <3>1, <3>2, <2>2, <1>1
  <2> QED
    BY <2>1, <2>2, <1>2 DEF Watched
<1> QED
  BY <1>16, <1>17, <1>19, <1>20, <1>21, <1>22, <1>23 DEF Ledger
\* A reseed from the rows watches all that matters, if no block waits in the queue.
Reseeded ==
  /\ StoreTyped /\ RestTyped /\ StoreTrue /\ RowsTrue /\ Complete /\ ChainTrue /\ ~held
  /\ \A n \in DOMAIN queue : ~BlockTask(n)
  /\ coins = Offered /\ seeded = UnconfirmedInputs

LEMMA SeedWatches == Reseeded => Watched
<1> SUFFICES ASSUME StoreTyped, RestTyped, StoreTrue, RowsTrue, Complete, ChainTrue, ~held,
                    \A n \in DOMAIN queue : ~BlockTask(n), coins = Offered,
                    seeded = UnconfirmedInputs
             PROVE  Watched
  BY DEF Reseeded
<1>1. /\ row \in [Txs -> 0..NoRow] /\ spentIn \in [Pays -> Txs \union {Nobody}]
      /\ spentAt \in [Pays -> 0..MaxHeight] /\ scanned \in Nat /\ scanned >= 1
      /\ \A u \in Txs : at[u] \in 0..MaxHeight
  BY Consts DEF StoreTyped, RestTyped
<1>2. ASSUME NEW i \in Pays, Mined(i), \A t \in Spends(i) : ~Mined(t)
      PROVE  i \in coins \union seeded
  <2>1. i \in Txs /\ row[i] = at[i] /\ row[i] # NoRow
    BY <1>1, <1>2, Consts DEF Complete, Ours, Mined
  <2>2. CASE spentIn[i] = Nobody
    BY <2>1, <2>2 DEF Offered
  <2>3. CASE spentIn[i] # Nobody /\ spentAt[i] = 0
    <3>1. spentIn[i] \in Txs /\ row[spentIn[i]] = Pending /\ i \in Ins[spentIn[i]]
      BY <2>3, <1>1 DEF StoreTrue, HeldByPending
    <3>2. i \in UnconfirmedInputs
      BY <3>1 DEF UnconfirmedInputs
    <3> QED
      BY <3>2
  <2>4. CASE spentAt[i] > 0
    <3>1. PICK t \in Txs : t = spentIn[i] /\ row[t] = spentAt[i] /\ i \in Ins[t]
      BY <2>4 DEF StoreTrue
    <3>2. Confirmed(t)
      BY <3>1, <2>4, <1>1, Consts DEF Confirmed
    <3>3. Right(t, row[t])
      BY <3>2 DEF RowsTrue
    <3>4. Mined(t)
      BY <3>2, <3>3, Consts DEF Right, Mined, Confirmed
    <3> QED
      BY <3>1, <3>4, <1>2 DEF Spends
  <2> QED
    BY <2>2, <2>3, <2>4, <1>1, Consts
<1>3. ASSUME NEW t \in coins PROVE Mined(t) \/ (Ins[t] # {} /\ Ins[t] \subseteq seeded)
  <2>1. t \in Txs /\ row[t] # NoRow
    BY <1>3, Consts DEF Offered
  <2>2. CASE Confirmed(t)
    <3>1. Right(t, row[t])
      BY <2>1, <2>2 DEF RowsTrue
    <3> QED
      BY <2>2, <3>1, Consts DEF Right, Mined, Confirmed
  <2>3. CASE t \in Settled
    BY <2>3, <2>1, <1>1 DEF ChainTrue, Mined
  <2>4. CASE row[t] = Pending /\ t \notin Settled
    <3>1. Ins[t] # {}
      BY <2>1, <2>4, LedgerAssumption
    <3>2. Ins[t] \subseteq UnconfirmedInputs
      BY <2>1, <2>4 DEF UnconfirmedInputs
    <3> QED
      BY <3>1, <3>2
  <2> QED
    BY <2>1, <2>2, <2>3, <2>4, <1>1, Consts DEF Confirmed
<1> QED
  BY <1>2, <1>3 DEF Watched

LEMMA RestartLedger ==
  ASSUME StoreTyped, RestTyped, StoreTyped', RestTyped', Ledger, Restart, ~Rewinding
  PROVE  Ledger'
<1>1. /\ queue' = <<>> /\ held' = FALSE /\ scanned' = (IF cursor < tip THEN cursor ELSE tip)
      /\ at' = at /\ tip' = tip /\ row' = row /\ spentIn' = spentIn /\ spentAt' = spentAt
      /\ cursor' = cursor /\ coins' = Offered' /\ seeded' = UnconfirmedInputs'
  BY DEF Restart, chain, store, Seed
<1>2. ~held /\ cursor <= scanned
  BY DEF Ledger, QueueTrue, Rewinding
<1>3. /\ scanned \in Nat /\ cursor \in Nat /\ tip \in Nat /\ scanned <= tip
      /\ \A u \in Txs : at[u] \in 0..MaxHeight
  BY Consts DEF RestTyped, StoreTyped
<1>4. scanned' = cursor
  BY <1>1, <1>2, <1>3
<1>5. DOMAIN queue' = {}
  BY <1>1
<1>6. /\ \A u \in Txs : Confirmed(u) => at[u] = row[u] /\ row[u] <= scanned /\ row[u] <= cursor
  BY <1>2, InChainUnlessHeld
<1>7. ChainTrue' /\ StoreTrue'
  BY <1>1 DEF Ledger, ChainTrue, InChain, StoreTrue, Confirmed, HeldByPending
<1>8. QueueTrue' /\ TasksTrue'
  BY <1>1, <1>3, <1>4, <1>5 DEF QueueTrue, TasksTrue
<1>9. RowsTrue'
  BY <1>1, <1>4, <1>6 DEF RowsTrue, Confirmed, Right
<1>10. Complete'
  <2> SUFFICES ASSUME NEW u \in Txs, Ours(u), Mined(u)' PROVE row[u] = at[u]
    BY <1>1 DEF Complete
  <2>1. Mined(u) /\ at[u] <= cursor
    BY <1>1, <1>2, <1>3, <1>4 DEF Mined
  <2>2. row[u] = at[u] \/ \E n \in DOMAIN queue : BlockTask(n) /\ queue[n].tx = u /\ queue[n].height = at[u]
    BY <2>1 DEF Ledger, Complete
  <2>3. ASSUME NEW n \in DOMAIN queue, BlockTask(n), queue[n].height = at[u] PROVE FALSE
    BY <2>1, <2>3, <1>3 DEF Ledger, QueueTrue
  <2> QED
    BY <2>2, <2>3
<1>11. Exclusive'
  BY <1>1, <1>5 DEF Ledger, Exclusive, Confirmed, Coming
<1>12. Watched'
  <2>1. \A n \in DOMAIN queue' : ~BlockTask(n)'
    BY <1>5
  <2>2. ~held'
    BY <1>1
  <2>3. Reseeded'
    BY <2>1, <2>2, <1>1, <1>7, <1>9, <1>10 DEF Reseeded
  <2>4. (Reseeded => Watched)'
    BY SeedWatches, PTL
  <2> QED
    BY <2>3, <2>4
<1> QED
  BY <1>7, <1>8, <1>9, <1>10, <1>11, <1>12 DEF Ledger
\* The head of the queue is gone, the rest moves up.
Shifted ==
  /\ 1 \in DOMAIN queue /\ Head(queue) = queue[1]
  /\ \A n \in DOMAIN queue : n \in Nat /\ n >= 1
  /\ \A n \in DOMAIN queue' : n \in Nat /\ n >= 1 /\ n + 1 \in DOMAIN queue /\ queue'[n] = queue[n + 1]
  /\ \A n \in DOMAIN queue : n # 1 => n - 1 \in DOMAIN queue' /\ queue'[n - 1] = queue[n]

LEMMA TailShifts ==
  ASSUME RestTyped, queue # <<>>, queue' = Tail(queue)
  PROVE  Shifted
<1>1. PICK q \in Seq(Tasks) : q = queue
  BY DEF RestTyped
<1>2. PICK r \in Seq(Tasks) : r = Tail(q) /\ r = queue'
  BY <1>1
<1>3. /\ 1 \in DOMAIN q /\ Head(q) = q[1]
      /\ \A n \in DOMAIN q : n \in Nat /\ n >= 1
      /\ \A n \in DOMAIN r : n \in Nat /\ n >= 1 /\ n + 1 \in DOMAIN q /\ r[n] = q[n + 1]
      /\ \A n \in DOMAIN q : n # 1 => n - 1 \in DOMAIN r /\ r[n - 1] = q[n]
  BY <1>1, <1>2, Tailed
<1> QED
  BY <1>1, <1>2, <1>3 DEF Shifted

LEMMA ShiftedBlocks ==
  ASSUME Shifted
  PROVE  /\ \A n \in DOMAIN queue' : BlockTask(n)' <=> BlockTask(n + 1)
         /\ \A n : BlockTask(n) /\ n # 1 => BlockTask(n - 1)'
         /\ \A u \in Txs : Coming(u)' => Coming(u)
<1>1. \A n \in DOMAIN queue' : BlockTask(n)' <=> BlockTask(n + 1)
  BY DEF Shifted, BlockTask
<1>2. \A n : BlockTask(n) /\ n # 1 => BlockTask(n - 1)'
  BY DEF Shifted, BlockTask
<1>3. \A u \in Txs : Coming(u)' => Coming(u)
  BY <1>1 DEF Shifted, Coming
<1> QED
  BY <1>1, <1>2, <1>3

\* A task that keeps what is recorded as confirmed, adds at most the block it is for,
\* and puts the cursor where the rest of the queue allows.
LEMMA ShiftedTasks ==
  ASSUME StoreTyped, RestTyped, Ledger, Shifted, UNCHANGED <<at, scanned, held, faults>>,
         NEW t, NEW h,
         IF BlockTask(1) THEN t = queue[1].tx /\ h = queue[1].height ELSE t \notin Txs,
         \A u \in Txs : Confirmed(u)' <=> (u = t \/ Confirmed(u)),
         \A u \in Txs : Confirmed(u) => row'[u] = row[u],
         t \in Txs => row'[t] = h
  PROVE  /\ TasksTrue' /\ Complete' /\ Exclusive'
         /\ \A u \in Txs : Confirmed(u)' => Right(u, row[u])'
<1>0. /\ \A n \in DOMAIN queue' : BlockTask(n)' <=> BlockTask(n + 1)
      /\ \A n : BlockTask(n) /\ n # 1 => BlockTask(n - 1)'
      /\ \A u \in Txs : Coming(u)' => Coming(u)
  BY ShiftedBlocks
<1>1. /\ 1 \in DOMAIN queue
      /\ \A n \in DOMAIN queue : n \in Nat /\ n >= 1
      /\ \A n \in DOMAIN queue' : n \in Nat /\ n >= 1 /\ n + 1 \in DOMAIN queue /\ queue'[n] = queue[n + 1]
      /\ \A n \in DOMAIN queue : n # 1 => n - 1 \in DOMAIN queue' /\ queue'[n - 1] = queue[n]
  BY DEF Shifted
<1>2. \A u, g : Right(u, g)' <=> Right(u, g)
  BY DEF Right
<1>3. \A n : BlockTask(n) => n \in DOMAIN queue /\ queue[n].tx \in Txs /\ queue[n].height \in 1..MaxHeight
  BY TaskKinds DEF RestTyped, BlockTask
<1>5. ASSUME NEW n \in DOMAIN queue', NEW u \in Txs, NEW g \in 1..MaxHeight, BlockAt(n, u, g)'
      PROVE  TaskTrue(n, u, g)'
  <2>1. BlockTask(n + 1) /\ n + 1 # 1 /\ queue'[n] = queue[n + 1]
    BY <1>0, <1>1, <1>5 DEF BlockAt
  <2>2. n + 1 \in DOMAIN queue /\ BlockAt(n + 1, u, g) /\ queue[n + 1].height = g
    BY <2>1, <1>1, <1>5 DEF BlockAt
  <2>3. TaskTrue(n + 1, u, g)
    BY <2>2 DEF Ledger, TasksTrue
  <2>4. Right(u, g)' /\ ~Confirmed(u)
    BY <2>3, <1>2 DEF TaskTrue
  <2>5. /\ \A m \in DOMAIN queue : BlockTask(m) /\ queue[m].tx = u => m = n + 1
        /\ queue[n + 1].spends \subseteq Ins[u]
        /\ \A i \in Ins[u] \intersect Pays :
             /\ i \in queue[n + 1].spends
             /\ \/ Confirmed(i) /\ row[i] < g
                \/ \E m \in DOMAIN queue : m < n + 1 /\ BlockTask(m) /\ queue[m].tx = i
    BY <2>3 DEF TaskTrue
  <2>6. u # t
    BY <2>1, <2>5, <1>1
  <2>7. ~Confirmed(u)'
    BY <2>4, <2>6
  <2>8. ASSUME NEW m \in DOMAIN queue', BlockTask(m)', queue'[m].tx = u PROVE m = n
    <3>1. BlockTask(m + 1) /\ m + 1 \in DOMAIN queue /\ queue[m + 1].tx = u
      BY <2>8, <1>0, <1>1
    <3>2. m + 1 = n + 1
      BY <2>5, <3>1
    <3> QED
      BY <3>2, <1>1
  <2>9. ASSUME NEW i \in Ins[u] \intersect Pays
        PROVE  \/ Confirmed(i)' /\ row'[i] < g
               \/ \E m \in DOMAIN queue' : m < n /\ BlockTask(m)' /\ queue'[m].tx = i
    <3>0. i \in Txs
      BY Consts
    <3>1. CASE Confirmed(i) /\ row[i] < g
      BY <3>0, <3>1
    <3>2. ASSUME NEW m \in DOMAIN queue, m < n + 1, BlockTask(m), queue[m].tx = i, m # 1
          PROVE  \E k \in DOMAIN queue' : k < n /\ BlockTask(k)' /\ queue'[k].tx = i
      <4>1. m - 1 \in DOMAIN queue' /\ m - 1 < n /\ BlockTask(m - 1)' /\ queue'[m - 1].tx = i
        BY <3>2, <1>0, <1>1
      <4> QED
        BY <4>1
    <3>3. ASSUME BlockTask(1), queue[1].tx = i PROVE Confirmed(i)' /\ row'[i] < g
      <4>1. i = t /\ queue[1].height = h
        BY <3>3
      <4>2. queue[1].height < queue[n + 1].height
        <5>1. queue[1].type = "block" /\ 1 \in DOMAIN queue /\ n + 1 \in DOMAIN queue /\ 1 < n + 1
          BY <3>3, <1>1 DEF BlockTask
        <5> QED
          BY <5>1, <2>1 DEF Ledger, QueueTrue
      <4> QED
        BY <3>0, <4>1, <4>2, <2>2
    <3> QED
      BY <3>1, <3>2, <3>3, <2>5
  <2> QED
    BY <2>1, <2>4, <2>5, <2>7, <2>8, <2>9 DEF TaskTrue
<1>6. TasksTrue'
  BY <1>5 DEF TasksTrue
<1>7. Exclusive'
  <2>1. \A u \in Txs : Confirmed(u)' => Confirmed(u) \/ Coming(u)
    BY <1>1 DEF Coming
  <2> QED
    BY <2>1, <1>0 DEF Ledger, Exclusive
<1>8. Complete'
  <2> SUFFICES ASSUME NEW u \in Txs, Ours(u), Mined(u)
               PROVE  row'[u] = at[u] \/ \E n \in DOMAIN queue' :
                        BlockTask(n)' /\ queue'[n].tx = u /\ queue'[n].height = at[u]
    BY DEF Complete, Mined
  <2>1. CASE row[u] = at[u]
    <3>1. Confirmed(u)
      BY <2>1, Consts DEF Mined, RestTyped, Confirmed
    <3> QED
      BY <2>1, <3>1
  <2>2. ASSUME NEW n \in DOMAIN queue, BlockTask(n), queue[n].tx = u, queue[n].height = at[u]
        PROVE  row'[u] = at[u] \/ \E m \in DOMAIN queue' :
                 BlockTask(m)' /\ queue'[m].tx = u /\ queue'[m].height = at[u]
    <3>1. CASE n = 1
      BY <2>2, <3>1
    <3>2. CASE n # 1
      <4>1. n - 1 \in DOMAIN queue' /\ BlockTask(n - 1)' /\ queue'[n - 1] = queue[n]
        BY <2>2, <3>2, <1>0, <1>1
      <4> QED
        BY <2>2, <4>1
    <3> QED
      BY <3>1, <3>2
  <2> QED
    BY <2>1, <2>2 DEF Ledger, Complete
<1>9. \A u \in Txs : Confirmed(u)' => Right(u, row[u])'
  <2> SUFFICES ASSUME NEW u \in Txs, Confirmed(u)' PROVE Right(u, row[u])'
    OBVIOUS
  <2>1. CASE Confirmed(u)
    <3>1. PICK g : g = row[u] /\ g = row'[u] /\ Right(u, g)
      BY <2>1 DEF Ledger, RowsTrue
    <3>2. Right(u, g)'
      BY <3>1, <1>2
    <3> QED
      BY <3>1, <3>2 DEF Right
  <2>2. CASE u = t
    <3>1. Right(t, h)
      <4>1. BlockAt(1, t, h) /\ 1 \in DOMAIN queue /\ t \in Txs /\ h \in 1..MaxHeight
        BY <2>2, <1>3 DEF BlockAt
      <4> QED
        BY <4>1 DEF Ledger, TasksTrue, TaskTrue
    <3>2. Right(t, h)'
      BY <3>1, <1>2
    <3> QED
      BY <2>2, <3>2 DEF Right
  <2> QED
    BY <2>1, <2>2
<1> QED
  BY <1>6, <1>7, <1>8, <1>9

\* The queue after its head went, while the wait for a rewind goes on or does not.
LEMMA ShiftedQueue ==
  ASSUME RestTyped, Ledger, Shifted, UNCHANGED <<scanned, held>>, queue[1].type # "rewind",
         cursor' \in Nat, \A n \in DOMAIN queue : BlockTask(n) /\ n # 1 => cursor' < queue[n].height,
         ~held => cursor' <= scanned
  PROVE  QueueTrue'
<1>0. QueueTrue
  BY DEF Ledger
<1>1. /\ 1 \in DOMAIN queue
      /\ \A n \in DOMAIN queue : n \in Nat /\ n >= 1
      /\ \A n \in DOMAIN queue' : n \in Nat /\ n >= 1 /\ n + 1 \in DOMAIN queue /\ queue'[n] = queue[n + 1]
      /\ \A n \in DOMAIN queue : n # 1 => n - 1 \in DOMAIN queue' /\ queue'[n - 1] = queue[n]
  BY DEF Shifted
<1>2. \A n \in DOMAIN queue' : BlockTask(n)' <=> BlockTask(n + 1)
  BY ShiftedBlocks
<1>3. held' <=> \E n \in DOMAIN queue' : queue'[n].type = "rewind"
  <2>1. held <=> \E n \in DOMAIN queue : queue[n].type = "rewind"
    BY <1>0 DEF QueueTrue
  <2> QED
    BY <2>1, <1>1
<1>4. \A n \in DOMAIN queue' : queue'[n].type = "reset" =>
        n + 1 \in DOMAIN queue' /\ queue'[n + 1].type = "rewind"
  <2> SUFFICES ASSUME NEW n \in DOMAIN queue', queue'[n].type = "reset"
               PROVE  n + 1 \in DOMAIN queue' /\ queue'[n + 1].type = "rewind"
    OBVIOUS
  <2>1. n + 1 \in DOMAIN queue /\ queue[n + 1].type = "reset" /\ n + 1 # 1 /\ n \in Nat /\ n >= 1
    BY <1>1
  <2>2. (n + 1) + 1 \in DOMAIN queue /\ queue[(n + 1) + 1].type = "rewind"
    BY <2>1, <1>0 DEF QueueTrue
  <2>3. (n + 1) + 1 # 1 /\ ((n + 1) + 1) - 1 = n + 1
    BY <2>1
  <2> QED
    BY <2>2, <2>3, <1>1
<1>5. \A n \in DOMAIN queue' : queue'[n].type \in {"reset", "rewind"} => queue'[n].height = scanned'
  BY <1>0, <1>1 DEF QueueTrue
<1>6. ASSUME NEW m \in DOMAIN queue', NEW n \in DOMAIN queue', queue'[m].type = "rewind", m < n
      PROVE  queue'[n].type = "incoming"
  BY <1>0, <1>1, <1>6 DEF QueueTrue
<1>7. ASSUME NEW m \in DOMAIN queue', NEW n \in DOMAIN queue',
             queue'[m].type \in {"block", "cursor"}, BlockTask(n)', m < n
      PROVE  queue'[m].height < queue'[n].height
  BY <1>0, <1>1, <1>2, <1>7 DEF QueueTrue
<1>8. \A n \in DOMAIN queue' : queue'[n].type \in {"block", "cursor"} => held' \/ queue'[n].height <= scanned'
  BY <1>0, <1>1 DEF QueueTrue
<1>9. \A n \in DOMAIN queue' : BlockTask(n)' => cursor' < queue'[n].height
  BY <1>1, <1>2
<1> QED
  BY <1>3, <1>4, <1>5, <1>6, <1>7, <1>8, <1>9 DEF QueueTrue
\* The steps of the queue, apart from its end.
PersistStep(task) ==
  /\ queue # <<>> /\ queue' = Tail(queue) /\ task = Head(queue) /\ task \in Tasks
  /\ UNCHANGED <<chain, scanned, call, faults>>

LEMMA StepFacts ==
  ASSUME RestTyped, NEW task, PersistStep(task)
  PROVE  /\ Shifted /\ queue[1] = task /\ UNCHANGED <<at, tip, scanned, faults>>
         /\ 1 \in DOMAIN queue /\ \A n \in DOMAIN queue : n \in Nat /\ n >= 1
<1>1. Shifted
  BY TailShifts DEF PersistStep
<1> QED
  BY <1>1 DEF PersistStep, Shifted, chain

LEMMA BlockLedger ==
  ASSUME StoreTyped, RestTyped, Ledger, NEW task, PersistStep(task), PersistBlock(task)
  PROVE  Ledger'
<1>1. /\ Shifted /\ queue[1] = task /\ UNCHANGED <<at, tip, scanned, faults>>
      /\ 1 \in DOMAIN queue /\ \A n \in DOMAIN queue : n \in Nat /\ n >= 1
  BY StepFacts
<1>2. PICK t \in Txs, h \in 1..MaxHeight : t = task.tx /\ h = task.height
  BY TaskKinds DEF PersistStep, PersistBlock
<1>3. /\ task.type = "block" /\ ApplyBlock(h, t, task.spends)
      /\ coins' = coins /\ seeded' = seeded /\ held' = held
  BY <1>2 DEF PersistBlock
<1>4. BlockTask(1) /\ BlockAt(1, t, h)
  BY <1>1, <1>2, <1>3 DEF BlockTask, BlockAt
<1>5. TaskTrue(1, t, h)
  BY <1>1, <1>4 DEF Ledger, TasksTrue
<1>6. Fits(h, t, task.spends)
  <2>1. \A i \in Ins[t] \intersect Pays : i \in task.spends /\ Confirmed(i) /\ row[i] < h
    BY <1>1, <1>5 DEF TaskTrue
  <2>2. \A u \in Txs : Confirmed(u) => u \notin Rivals(t)
    <3>1. Coming(t)
      BY <1>1, <1>2, <1>4 DEF Coming
    <3> QED
      BY <3>1 DEF Ledger, Exclusive
  <2> QED
    BY <2>1, <2>2, <1>1, <1>5 DEF Fits, TaskTrue
<1>7. StoreTrue
  BY DEF Ledger
<1>8. /\ StoreTrue'
      /\ \A u \in Txs : Confirmed(u)' <=> (u = t \/ Confirmed(u))
      /\ \A u \in Txs : Confirmed(u) => row'[u] = row[u]
      /\ row'[t] = h /\ cursor' = (IF h > cursor THEN h ELSE cursor)
  BY <1>3, <1>6, <1>7, ApplyBlockStore
<1>9. cursor < h /\ cursor' = h
  BY <1>1, <1>2, <1>4, <1>8, Consts DEF Ledger, QueueTrue, StoreTyped
<1>10. /\ TasksTrue' /\ Complete' /\ Exclusive'
       /\ \A u \in Txs : Confirmed(u)' => Right(u, row[u])'
  <2>1. IF BlockTask(1) THEN t = queue[1].tx /\ h = queue[1].height ELSE t \notin Txs
    BY <1>1, <1>2, <1>4
  <2>2. UNCHANGED <<at, scanned, held, faults>>
    BY <1>1, <1>3
  <2> QED
    BY <2>1, <2>2, <1>1, <1>8, ShiftedTasks, Zenon
<1>11. QueueTrue'
  <2>1. \A n \in DOMAIN queue : BlockTask(n) /\ n # 1 => cursor' < queue[n].height
    <3> SUFFICES ASSUME NEW n \in DOMAIN queue, BlockTask(n), n # 1 PROVE h < queue[n].height
      BY <1>9
    <3>1. 1 < n /\ queue[1].type = "block" /\ queue[1].height = h
      BY <1>1, <1>2, <1>3
    <3> QED
      BY <3>1, <1>1 DEF Ledger, QueueTrue
  <2>2. ~held => cursor' <= scanned
    BY <1>1, <1>2, <1>3, <1>9 DEF Ledger, QueueTrue
  <2>3. UNCHANGED <<scanned, held>> /\ queue[1].type # "rewind" /\ cursor' \in Nat
    BY <1>1, <1>3, <1>9, Consts
  <2> QED
    BY <2>1, <2>2, <2>3, <1>1, ShiftedQueue
<1>12. RowsTrue'
  <2> SUFFICES ASSUME NEW u \in Txs, Confirmed(u)' PROVE row'[u] <= scanned => row'[u] <= cursor'
    BY <1>1, <1>10 DEF RowsTrue
  <2>1. CASE u = t
    BY <2>1, <1>8, <1>9, Consts
  <2>2. CASE Confirmed(u)
    BY <2>2, <1>8, <1>9, Consts DEF Ledger, RowsTrue, StoreTyped
  <2> QED
    BY <2>1, <2>2, <1>8
<1>13. ChainTrue' /\ Watched'
  BY <1>1, <1>3 DEF Ledger, ChainTrue, InChain, Watched, Mined
<1> QED
  BY <1>8, <1>10, <1>11, <1>12, <1>13 DEF Ledger

\* Tasks that are no block and no rewind.
LEMMA OtherLedger ==
  ASSUME StoreTyped, RestTyped, Ledger, NEW task, PersistStep(task),
         task.type \in {"cursor", "reset", "incoming"}, UNCHANGED <<coins, seeded, held>>,
         StoreTrue', \A u \in Txs : Confirmed(u)' <=> Confirmed(u),
         \A u \in Txs : Confirmed(u) => row'[u] = row[u],
         cursor' \in Nat, \A n \in DOMAIN queue : BlockTask(n) /\ n # 1 => cursor' < queue[n].height,
         ~held => cursor' <= scanned,
         \A u \in Txs : Confirmed(u) /\ row[u] <= scanned => row[u] <= cursor'
  PROVE  Ledger'
<1>1. /\ Shifted /\ queue[1] = task /\ UNCHANGED <<at, tip, scanned, faults>>
      /\ 1 \in DOMAIN queue /\ \A n \in DOMAIN queue : n \in Nat /\ n >= 1
  BY StepFacts
<1>2. ~BlockTask(1)
  BY <1>1 DEF BlockTask
<1>3. /\ TasksTrue' /\ Complete' /\ Exclusive'
      /\ \A u \in Txs : Confirmed(u)' => Right(u, row[u])'
  <2>1. Nobody \notin Txs
    BY Consts
  <2>2. \A u \in Txs : Confirmed(u)' <=> (u = Nobody \/ Confirmed(u))
    BY <2>1
  <2>3. UNCHANGED <<at, scanned, held, faults>>
    BY <1>1
  <2>4. Nobody \in Txs => row'[Nobody] = 0
    BY <2>1
  <2>5. IF BlockTask(1) THEN Nobody = queue[1].tx /\ 0 = queue[1].height ELSE Nobody \notin Txs
    BY <2>1, <1>2
  <2> QED
    BY <2>2, <2>3, <2>4, <2>5, <1>1, ShiftedTasks, Zenon
<1>4. QueueTrue'
  <2>1. UNCHANGED <<scanned, held>> /\ queue[1].type # "rewind"
    BY <1>1
  <2> QED
    BY <2>1, <1>1, ShiftedQueue
<1>5. RowsTrue'
  BY <1>1, <1>3 DEF RowsTrue
<1>6. ChainTrue' /\ Watched'
  BY <1>1 DEF Ledger, ChainTrue, InChain, Watched, Mined
<1> QED
  BY <1>3, <1>4, <1>5, <1>6 DEF Ledger

LEMMA CursorLedger ==
  ASSUME StoreTyped, RestTyped, Ledger, NEW task, PersistStep(task), PersistCursor(task)
  PROVE  Ledger'
<1>1. /\ Shifted /\ queue[1] = task /\ UNCHANGED <<at, tip, scanned, faults>>
      /\ 1 \in DOMAIN queue /\ \A n \in DOMAIN queue : n \in Nat /\ n >= 1
  BY StepFacts
<1>2. PICK h \in 1..MaxHeight : h = task.height
  BY TaskKinds DEF PersistStep, PersistCursor
<1>3. /\ task.type = "cursor" /\ cursor' = (IF h > cursor THEN h ELSE cursor)
      /\ UNCHANGED <<coins, seeded, held, row, spentIn, spentAt>>
  BY <1>2 DEF PersistCursor
<1>4. cursor \in Nat /\ h \in Nat /\ scanned \in Nat
  BY Consts DEF StoreTyped, RestTyped
<1>5. \A n \in DOMAIN queue : BlockTask(n) /\ n # 1 => cursor' < queue[n].height
  <2> SUFFICES ASSUME NEW n \in DOMAIN queue, BlockTask(n), n # 1
               PROVE  h < queue[n].height /\ cursor < queue[n].height
    BY <1>3
  <2>1. 1 < n /\ queue[1].type = "cursor" /\ queue[1].height = h
    BY <1>1, <1>2, <1>3
  <2> QED
    BY <2>1, <1>1 DEF Ledger, QueueTrue
<1>6. ~held => cursor' <= scanned
  BY <1>1, <1>2, <1>3 DEF Ledger, QueueTrue
<1>7. StoreTrue' /\ \A u \in Txs : Confirmed(u)' <=> Confirmed(u)
  BY <1>3 DEF Ledger, StoreTrue, Confirmed, HeldByPending
<1>8. \A u \in Txs : Confirmed(u) /\ row[u] <= scanned => row[u] <= cursor'
  BY <1>3, <1>4, Consts DEF Ledger, RowsTrue, Confirmed
<1>9. cursor' \in Nat /\ task.type \in {"cursor", "reset", "incoming"} /\ UNCHANGED <<coins, seeded, held>>
      /\ \A u \in Txs : Confirmed(u) => row'[u] = row[u]
  BY <1>3, <1>4
<1> QED
  BY <1>5, <1>6, <1>7, <1>8, <1>9, OtherLedger

\* A reset or a rewind at the head leaves no block behind it.
LEMMA NoBlocksLeft ==
  ASSUME RestTyped, Ledger, Shifted, queue[1].type \in {"reset", "rewind"}
  PROVE  /\ \A n \in DOMAIN queue : ~BlockTask(n)
         /\ queue[1].type = "rewind" => \A n \in DOMAIN queue : n # 1 => queue[n].type = "incoming"
<1>1. 1 \in DOMAIN queue /\ \A n \in DOMAIN queue : n \in Nat /\ n >= 1
  BY DEF Shifted
<1>2. CASE queue[1].type = "rewind"
  <2>1. \A n \in DOMAIN queue : n # 1 => queue[n].type = "incoming"
    BY <1>1, <1>2 DEF Ledger, QueueTrue
  <2> QED
    BY <1>2, <2>1 DEF BlockTask
<1>3. CASE queue[1].type = "reset"
  <2>1. 2 \in DOMAIN queue /\ queue[2].type = "rewind"
    <3>1. 1 + 1 \in DOMAIN queue /\ queue[1 + 1].type = "rewind"
      BY <1>1, <1>3 DEF Ledger, QueueTrue
    <3> QED
      BY <3>1
  <2>2. \A n \in DOMAIN queue : 2 < n => queue[n].type = "incoming"
    BY <2>1 DEF Ledger, QueueTrue
  <2>3. \A n \in DOMAIN queue : n = 1 \/ n = 2 \/ 2 < n
    BY <1>1
  <2> QED
    BY <1>3, <2>1, <2>2, <2>3 DEF BlockTask
<1> QED
  BY <1>2, <1>3

LEMMA ResetLedger ==
  ASSUME StoreTyped, RestTyped, Ledger, NEW task, PersistStep(task), PersistReset(task)
  PROVE  Ledger'
<1>1. /\ Shifted /\ queue[1] = task /\ UNCHANGED <<at, tip, scanned, faults>>
      /\ 1 \in DOMAIN queue /\ \A n \in DOMAIN queue : n \in Nat /\ n >= 1
  BY StepFacts
<1>2. /\ task.type = "reset" /\ cursor' = task.height
      /\ UNCHANGED <<coins, seeded, held, row, spentIn, spentAt>>
  BY DEF PersistReset
<1>3. cursor' = scanned /\ scanned \in Nat
  BY <1>1, <1>2, Consts DEF Ledger, QueueTrue, RestTyped
<1>4. \A n \in DOMAIN queue : ~BlockTask(n)
  BY <1>1, <1>2, NoBlocksLeft
<1>5. StoreTrue' /\ \A u \in Txs : Confirmed(u)' <=> Confirmed(u)
  BY <1>2 DEF Ledger, StoreTrue, Confirmed, HeldByPending
<1>6. /\ cursor' \in Nat /\ task.type \in {"cursor", "reset", "incoming"}
      /\ UNCHANGED <<coins, seeded, held>>
      /\ \A u \in Txs : Confirmed(u) => row'[u] = row[u]
      /\ ~held => cursor' <= scanned
      /\ \A u \in Txs : Confirmed(u) /\ row[u] <= scanned => row[u] <= cursor'
  BY <1>2, <1>3
<1> QED
  BY <1>4, <1>5, <1>6, OtherLedger

LEMMA NoticedLedger ==
  ASSUME StoreTyped, RestTyped, Ledger, NEW task, PersistStep(task), PersistIncoming(task)
  PROVE  Ledger'
<1>1. /\ Shifted /\ queue[1] = task /\ UNCHANGED <<at, tip, scanned, faults>>
      /\ 1 \in DOMAIN queue /\ \A n \in DOMAIN queue : n \in Nat /\ n >= 1
  BY StepFacts
<1>2. PICK t \in Txs : t = task.tx
  BY TaskKinds DEF PersistStep, PersistIncoming
<1>3. /\ task.type = "incoming" /\ RecordPending(t, FALSE) /\ UNCHANGED <<coins, seeded, held>>
  BY <1>2 DEF PersistIncoming
<1>4. StoreTrue /\ cursor' = cursor
  BY <1>3 DEF Ledger, RecordPending
<1>5. /\ StoreTrue' /\ \A u \in Txs : Confirmed(u)' <=> Confirmed(u)
      /\ \A u \in Txs : Confirmed(u) => row'[u] = row[u]
  BY <1>3, <1>4, RecordStore
<1>6. /\ cursor' \in Nat /\ task.type \in {"cursor", "reset", "incoming"}
      /\ ~held => cursor' <= scanned
      /\ \A n \in DOMAIN queue : BlockTask(n) /\ n # 1 => cursor' < queue[n].height
      /\ \A u \in Txs : Confirmed(u) /\ row[u] <= scanned => row[u] <= cursor'
  BY <1>3, <1>4, Consts DEF Ledger, QueueTrue, RowsTrue, StoreTyped
<1> QED
  BY <1>3, <1>5, <1>6, OtherLedger

LEMMA RewindLedger ==
  ASSUME StoreTyped, RestTyped, StoreTyped', RestTyped', Ledger, NEW task, PersistStep(task),
         PersistRewind(task)
  PROVE  Ledger'
<1>1. /\ Shifted /\ queue[1] = task /\ UNCHANGED <<at, tip, scanned, faults>>
      /\ 1 \in DOMAIN queue /\ \A n \in DOMAIN queue : n \in Nat /\ n >= 1
  BY StepFacts
<1>2. /\ task.type = "rewind" /\ RewindRows(task.height) /\ held' = FALSE
      /\ coins' = Offered' /\ seeded' = UnconfirmedInputs'
  BY DEF PersistRewind, Seed
<1>3. task.height = scanned /\ scanned \in 1..MaxHeight /\ scanned \in Nat
  BY <1>1, <1>2, TaskKinds, Consts DEF Ledger, QueueTrue, PersistStep
<1>4. StoreTrue /\ RewindRows(scanned)
  BY <1>2, <1>3 DEF Ledger
<1>5. /\ StoreTrue'
      /\ \A u \in Txs : Confirmed(u)' <=> Confirmed(u) /\ row[u] <= scanned
      /\ \A u \in Txs : Confirmed(u)' => row'[u] = row[u]
      /\ cursor' = IF cursor > scanned THEN scanned ELSE cursor
  BY <1>3, <1>4, RewindStore
<1>6. /\ \A n \in DOMAIN queue : ~BlockTask(n)
      /\ \A n \in DOMAIN queue : n # 1 => queue[n].type = "incoming"
  BY <1>1, <1>2, NoBlocksLeft
<1>7. \A n \in DOMAIN queue' : queue'[n].type = "incoming"
  <2> SUFFICES ASSUME NEW n \in DOMAIN queue' PROVE queue'[n].type = "incoming"
    OBVIOUS
  <2>1. n + 1 \in DOMAIN queue /\ n + 1 # 1 /\ queue'[n] = queue[n + 1]
    BY <1>1 DEF Shifted
  <2> QED
    BY <2>1, <1>6
<1>8. \A n \in DOMAIN queue' : ~BlockTask(n)'
  BY <1>7 DEF BlockTask
<1>9. \A u \in Txs : Confirmed(u)' => at[u] = row[u] /\ row[u] <= cursor
  BY <1>5 DEF Ledger, RowsTrue, Right
<1>10. RowsTrue'
  <2> SUFFICES ASSUME NEW u \in Txs, Confirmed(u)'
               PROVE  Right(u, row[u])' /\ row'[u] <= cursor'
    BY DEF RowsTrue
  <2>1. row'[u] = row[u] /\ row[u] <= scanned /\ at[u] = row[u] /\ row[u] <= cursor
    BY <1>5, <1>9
  <2> QED
    BY <2>1, <1>1, <1>5 DEF Right
<1>11. TasksTrue' /\ Exclusive' /\ ChainTrue'
  <2>1. TasksTrue'
    BY <1>8 DEF TasksTrue, BlockAt
  <2>2. Exclusive'
    BY <1>5, <1>8 DEF Ledger, Exclusive, Coming
  <2>3. ChainTrue'
    BY <1>1 DEF Ledger, ChainTrue, InChain
  <2> QED
    BY <2>1, <2>2, <2>3
<1>12. Complete'
  <2> SUFFICES ASSUME NEW u \in Txs, Ours(u), Mined(u) PROVE row'[u] = at[u]
    BY <1>1 DEF Complete, Mined
  <2>1. row[u] = at[u] /\ at[u] \in 1..MaxHeight /\ at[u] <= scanned
    BY <1>6, Consts DEF Ledger, Complete, Mined, RestTyped
  <2>2. Confirmed(u)'
    BY <2>1, <1>5 DEF Confirmed
  <2> QED
    BY <2>1, <2>2, <1>5
<1>13. QueueTrue'
  <2>1. cursor' <= scanned'
    BY <1>1, <1>3, <1>5, Consts DEF StoreTyped
  <2> QED
    BY <2>1, <1>2, <1>7, <1>8 DEF QueueTrue
<1>14. Watched'
  <2>1. Reseeded'
    BY <1>2, <1>5, <1>8, <1>10, <1>11, <1>12 DEF Reseeded
  <2>2. (Reseeded => Watched)'
    BY SeedWatches, PTL
  <2> QED
    BY <2>1, <2>2
<1> QED
  BY <1>5, <1>10, <1>11, <1>12, <1>13, <1>14 DEF Ledger

LEMMA PersistLedger ==
  ASSUME StoreTyped, RestTyped, StoreTyped', RestTyped', Ledger, Persist
  PROVE  Ledger'
<1>1. PICK task : PersistStep(task) /\ (\/ PersistBlock(task) \/ PersistCursor(task) \/ PersistReset(task)
                                        \/ PersistIncoming(task) \/ PersistRewind(task))
  BY PersistCases DEF PersistStep
<1> QED
  BY <1>1, BlockLedger, CursorLedger, ResetLedger, NoticedLedger, RewindLedger

-----------------------------------------------------------------------------
(* The ledger *)

\* The wallet is told of one reorg at a time: none comes while another is not undone
\* yet, none is deeper than what the scan has seen, and the app does not die between.
OneRewind ==
  {"reorg ahead of the scan", "reorg while one is unsaved", "restart with a rewind unsaved"}
    \subseteq Excluded

\* A record of a call changes rows that are not confirmed.
LEMMA SameConfirmed ==
  ASSUME StoreTyped, RestTyped, Ledger, StoreTrue',
         UNCHANGED <<at, tip, scanned, coins, seeded, held, queue, cursor, faults>>,
         \A u \in Txs : Confirmed(u)' <=> Confirmed(u),
         \A u \in Txs : Confirmed(u) => row'[u] = row[u]
  PROVE  Ledger'
<1>1. ChainTrue' /\ QueueTrue' /\ Watched'
  BY DEF Ledger, ChainTrue, InChain, QueueTrue, BlockTask, Watched, Mined
<1>2. TasksTrue'
  <2> SUFFICES ASSUME NEW n \in DOMAIN queue, NEW u \in Txs, NEW h \in 1..MaxHeight, BlockAt(n, u, h)
               PROVE  TaskTrue(n, u, h)'
    BY DEF TasksTrue, BlockAt, BlockTask
  <2>1. TaskTrue(n, u, h)
    BY DEF Ledger, TasksTrue
  <2> QED
    BY <2>1, Consts DEF TaskTrue, BlockTask, Right
<1>3. RowsTrue'
  BY DEF Ledger, RowsTrue, Right
<1>4. Complete'
  <2>1. \A u \in Txs : Mined(u) /\ row[u] = at[u] => Confirmed(u)
    BY Consts DEF Mined, Confirmed, RestTyped
  <2> QED
    BY <2>1 DEF Ledger, Complete, Mined, BlockTask
<1>5. Exclusive'
  BY DEF Ledger, Exclusive, Coming, BlockTask
<1> QED
  BY <1>1, <1>2, <1>3, <1>4, <1>5 DEF Ledger

LEMMA NextLedger ==
  ASSUME OneRewind, LedgerInv, [Next]_vars
  PROVE  LedgerInv'
<1>0. (TypeInv <=> StoreTyped /\ RestTyped) /\ (TypeInv <=> StoreTyped /\ RestTyped)'
  BY TypeParts, PTL
<1>1. TypeInv /\ TypeInv'
  BY NextType DEF LedgerInv
<1>2. StoreTyped /\ RestTyped /\ StoreTyped' /\ RestTyped' /\ Ledger
  BY <1>0, <1>1 DEF LedgerInv
<1> SUFFICES Ledger'
  BY <1>1 DEF LedgerInv
<1>3. ASSUME NEW t \in Txs, Enter(t) \/ Evict(t) PROVE Ledger'
  <2>1. UNCHANGED <<at, tip, scan, queue, store, faults.orphaned>>
    BY <1>2, <1>3, FaultType DEF Enter, Evict
  <2> QED
    BY <2>1, <1>2, QuietLedger DEF store
<1>4. ASSUME NEW t \in Txs, Mine(t) PROVE Ledger'
  BY <1>2, <1>4, MineLedger
<1>5. ASSUME NEW t \in Txs, Incoming(t) PROVE Ledger'
  BY <1>2, <1>5, IncomingLedger
<1>6. ASSUME NEW k \in 1..MaxHeight, Allowed("reorg ahead of the scan", scanned < k),
             Allowed("reorg while one is unsaved", Rewinding), Reorg(k)
      PROVE  Ledger'
  <2>1. ~(scanned < k) /\ ~Rewinding
    BY <1>6 DEF OneRewind, Allowed
  <2>2. k <= scanned
    BY <2>1, <1>2, Consts DEF RestTyped
  <2> QED
    BY <2>1, <2>2, <1>2, <1>6, ReorgLedger
<1>7. CASE Scan
  BY <1>2, <1>7, ScanLedger
<1>8. CASE Persist
  BY <1>2, <1>8, PersistLedger
<1>9. ASSUME Allowed("restart with a rewind unsaved", Rewinding), Restart PROVE Ledger'
  <2>1. ~Rewinding
    BY <1>9 DEF OneRewind, Allowed
  <2> QED
    BY <2>1, <1>2, <1>9, RestartLedger
<1>10. ASSUME NEW t \in Local,
              \/ Build(t) \/ Broadcast(t) \/ Rebroadcast(t) \/ Answered(t) \/ Delivered(t)
              \/ NotHeard(t) \/ NotHeardAgain(t) \/ RecordElsewhere(t)
       PROVE  Ledger'
  <2>1. UNCHANGED <<chain, scan, queue, store>> /\ (faults' = faults \/ Fault)
    BY <1>10 DEF Build, Broadcast, Rebroadcast, Answered, Delivered, NotHeard, NotHeardAgain,
                 RecordElsewhere
  <2>2. UNCHANGED <<at, tip, scan, queue, store, faults.orphaned>>
    BY <2>1, <1>2, FaultType DEF chain
  <2> QED
    BY <2>2, <1>2, QuietLedger DEF store
<1>11. ASSUME NEW t \in Local, Record(t) PROVE Ledger'
  <2>1. /\ RecordPending(t, TRUE) /\ StoreTrue /\ t \in Txs
        /\ at' = at /\ tip' = tip /\ scanned' = scanned /\ coins' = coins /\ seeded' = seeded
        /\ held' = held /\ queue' = queue /\ faults' = faults /\ cursor' = cursor
    BY <1>2, <1>11, Consts DEF Record, RecordPending, Ledger, chain, scan
  <2>2. /\ StoreTrue' /\ \A u \in Txs : Confirmed(u)' <=> Confirmed(u)
        /\ \A u \in Txs : Confirmed(u) => row'[u] = row[u]
    BY <2>1, <1>2, RecordStore
  <2> QED
    BY <2>1, <2>2, <1>2, SameConfirmed
<1>12. CASE UNCHANGED vars
  BY <1>2, <1>12, QuietLedger DEF vars, chain, store
<1>13. ASSUME NEW t \in Local, NoLongerPushed(t) PROVE Ledger'
  BY <1>2, <1>13, QuietLedger DEF NoLongerPushed, chain
<1> QED
  BY <1>3, <1>4, <1>5, <1>6, <1>7, <1>8, <1>9, <1>10, <1>11, <1>12, <1>13 DEF Next

\* Queue empty, nothing held, scan at the tip: the rows are what the chain says.
LEMMA LedgerIsChainHere == LedgerInv => LedgerIsChain
<1> SUFFICES ASSUME LedgerInv PROVE LedgerIsChain
  OBVIOUS
<1>1. StoreTyped /\ RestTyped /\ Ledger /\ TypeOK
  BY TypeParts DEF LedgerInv, TypeInv
<1>2. ASSUME Caught
      PROVE  /\ ~held /\ scanned = tip /\ DOMAIN queue = {}
             /\ \A u \in Txs : Confirmed(u) => at[u] = row[u]
             /\ \A u \in Txs : Ours(u) /\ at[u] > 0 => row[u] = at[u]
  <2>1. ~held /\ scanned = tip /\ DOMAIN queue = {}
    BY <1>2 DEF Caught, Synced
  <2>2. \A u \in Txs : Confirmed(u) => at[u] = row[u]
    BY <2>1, <1>1, InChainUnlessHeld
  <2>3. \A u \in Txs : at[u] > 0 => Mined(u)
    BY <2>1, <1>1, Consts DEF Ledger, ChainTrue, InChain, Mined
  <2>4. \A u \in Txs : Ours(u) /\ at[u] > 0 => row[u] = at[u]
    BY <2>1, <2>3, <1>1 DEF Ledger, Complete
  <2> QED
    BY <2>1, <2>2, <2>4
<1>3. RowsAreChain
  BY <1>2 DEF RowsAreChain, Confirmed
<1>4. SpendsAreChain
  <2> SUFFICES ASSUME Caught, NEW i \in Pays, row[i] # NoRow
               PROVE  /\ spentAt[i] > 0 => /\ spentIn[i] \in InChain /\ i \in Ins[spentIn[i]]
                                           /\ spentAt[i] = at[spentIn[i]]
                      /\ \A t \in Spends(i) \intersect InChain : spentIn[i] = t /\ spentAt[i] = at[t]
    BY DEF SpendsAreChain
  <2>1. ASSUME spentAt[i] > 0
        PROVE  spentIn[i] \in InChain /\ i \in Ins[spentIn[i]] /\ spentAt[i] = at[spentIn[i]]
    <3>1. PICK t \in Txs : t = spentIn[i] /\ row[t] = spentAt[i] /\ i \in Ins[t]
      BY <2>1, <1>1 DEF Ledger, StoreTrue
    <3>2. Confirmed(t)
      BY <3>1, <2>1, <1>1, Consts DEF StoreTyped, Confirmed
    <3>3. at[t] = row[t]
      BY <3>2, <1>2
    <3> QED
      BY <3>1, <3>3, <2>1 DEF InChain
  <2>2. ASSUME NEW t \in Spends(i) \intersect InChain PROVE spentIn[i] = t /\ spentAt[i] = at[t]
    <3>1. t \in Txs /\ i \in Ins[t] /\ at[t] > 0
      BY <2>2 DEF Spends, InChain
    <3>2. row[t] = at[t]
      BY <3>1, <1>2 DEF Ours
    <3>3. Confirmed(t)
      BY <3>1, <3>2, <1>1, Consts DEF RestTyped, Confirmed
    <3> QED
      BY <3>1, <3>2, <3>3, <1>1 DEF Ledger, StoreTrue
  <2> QED
    BY <2>1, <2>2
<1> QED
  BY <1>1, <1>3, <1>4 DEF LedgerIsChain, Ledger, StoreTrue

\* SQL is a function of the chain once the queue has drained (applyBlock, rewindToHeight,
\* recordPendingTx), whatever mempools, other wallets, lost answers and restarts did, and
\* at any time no coin is held by a row that is gone: if reorgs come one at a time.
THEOREM LedgerFollowsChain == OneRewind /\ Spec => []LedgerIsChain
<1> SUFFICES ASSUME OneRewind PROVE Spec => []LedgerIsChain
  OBVIOUS
<1>1. Init => LedgerInv
  BY InitLedger
<1>2. LedgerInv /\ [Next]_vars => LedgerInv'
  BY NextLedger
<1>3. LedgerInv => LedgerIsChain
  BY LedgerIsChainHere
<1> QED
  BY <1>1, <1>2, <1>3, PTL DEF Spec
-----------------------------------------------------------------------------
(* One spender *)

\* What was in the chain, now or before a reorg.
Ever == InChain \union faults.orphaned

\* A transaction that is not ours has taken a coin of u.
Beaten(u) == \E v \in Rivals(u) : v \notin Local /\ v \in Ever
Doomed(u) == u \in faults.orphaned \/ Beaten(u)

\* Somebody may know of u: a call, the store or the network.
Out(u) == call[u] # "idle" \/ row[u] # NoRow \/ u \in mempool \/ u \in Ever

NoRivalsEver == \A t, u \in Ever : u \notin Rivals(t)

\* OneSpender, for all that is out.
OneIsBeaten == \A u, v \in Local : v \in Rivals(u) /\ Out(u) /\ Out(v) => Beaten(u) \/ Beaten(v)

\* What the network has of ours is on its way to a row, has one, or lost it to
\* somebody else's transaction.
SeenIsKnown ==
  \A u \in Local : u \in mempool \/ u \in InChain =>
    call[u] \in {"sent", "answered"} \/ row[u] # NoRow \/ Beaten(u)

\* A pending row holds its coins.
CoinsHeld ==
  \A u \in Local : row[u] = Pending /\ ~Doomed(u) =>
    \A i \in Ins[u] : row[i] # NoRow => spentIn[i] # Nobody

\* What u spends is recorded, or lost to the chain,
CoinsKnown ==
  \A u \in Sent : ~Doomed(u) =>
    \A i \in Ins[u] : row[i] # NoRow \/ \E v \in Rivals(i) : v \in Ever

\* and nothing else that is pending holds it.
CoinsOpen ==
  \A u \in Sent : ~Doomed(u) =>
    \A i \in Ins[u] : spentIn[i] = Nobody \/ spentIn[i] = u \/ spentAt[i] > 0

OthersNoticed == \A n \in DOMAIN queue : queue[n].type = "incoming" => queue[n].tx \notin Local

Spending ==
  /\ NoRivalsEver /\ OneIsBeaten /\ SeenIsKnown /\ CoinsHeld /\ CoinsKnown /\ CoinsOpen
  /\ OthersNoticed

LEMMA Locals ==
  /\ \A t \in Local : t \in Txs /\ t \notin Settled /\ Ins[t] # {} /\ Ins[t] \subseteq Pays
  /\ \A i \in Pays : i \in Txs
  /\ \A t, u \in Txs : (u \in Rivals(t) <=> t \in Rivals(u)) /\ t \notin Rivals(t)
  /\ \A t, u \in Txs : \A i \in Ins[t] : i \in Ins[u] /\ t # u => u \in Rivals(t)
BY LedgerAssumption DEF Rivals

LEMMA InitSpending == Init => Spending
<1> SUFFICES ASSUME Init PROVE Spending
  OBVIOUS
<1>1. /\ \A t \in Txs : at[t] = (IF t \in Settled THEN 1 ELSE 0)
      /\ \A t \in Txs : row[t] = (IF t \in Settled THEN 1 ELSE NoRow)
  BY DEF Init
<1>2. mempool = {} /\ faults.orphaned = {} /\ DOMAIN queue = {} /\ \A t \in Local : call[t] = "idle"
  BY DEF Init
<1>3. \A u \in Ever : u \in Settled
  BY <1>1, <1>2 DEF Ever, InChain
<1>4. \A u \in Local : ~Out(u)
  BY <1>1, <1>2, <1>3, Locals DEF Out
<1>5. NoRivalsEver
  BY <1>3, Consts, LedgerAssumption DEF NoRivalsEver, Rivals
<1>6. \A u \in Local : row[u] # Pending
  BY <1>1, Locals, Consts
<1>7. Sent = {}
  BY <1>2, <1>6 DEF Sent
<1>8. OneIsBeaten /\ CoinsHeld /\ CoinsKnown /\ CoinsOpen /\ OthersNoticed
  BY <1>2, <1>4, <1>6, <1>7 DEF OneIsBeaten, CoinsHeld, CoinsKnown, CoinsOpen, OthersNoticed
<1>9. SeenIsKnown
  BY <1>4 DEF SeenIsKnown, Out, Ever
<1> QED
  BY <1>5, <1>8, <1>9 DEF Spending

\* Steps that leave the rows alone and start no send.
LEMMA SpendingKept ==
  ASSUME Spending, UNCHANGED <<row, spentIn, spentAt>>, Ever \subseteq Ever',
         faults.orphaned \subseteq faults'.orphaned, Sent' \subseteq Sent,
         NoRivalsEver', SeenIsKnown', OthersNoticed',
         \A u \in Local : Out(u)' => Out(u)
  PROVE  Spending'
<1>1. \A u : Beaten(u) => Beaten(u)'
  BY DEF Beaten
<1>2. \A u : Doomed(u) => Doomed(u)'
  BY <1>1 DEF Doomed
<1>3. OneIsBeaten'
  BY <1>1 DEF Spending, OneIsBeaten
<1>4. CoinsHeld'
  BY <1>2 DEF Spending, CoinsHeld
<1>5. CoinsKnown'
  BY <1>2 DEF Spending, CoinsKnown
<1>6. CoinsOpen'
  BY <1>2 DEF Spending, CoinsOpen
<1> QED
  BY <1>3, <1>4, <1>5, <1>6 DEF Spending

LEMMA EnterSpending == ASSUME RestTyped, Spending, NEW t \in Txs, Enter(t) PROVE Spending'
<1>1. /\ t \in Local => call[t] \in {"sent", "answered"}
      /\ mempool' = mempool \union {t} /\ at' = at /\ row' = row /\ spentIn' = spentIn
      /\ spentAt' = spentAt /\ queue' = queue /\ call' = call /\ faults' = faults
  BY DEF Enter, store
<1>2. Ever' = Ever /\ InChain' = InChain /\ Sent' = Sent /\ \A u : Beaten(u)' <=> Beaten(u)
  BY <1>1 DEF Ever, InChain, Sent, Beaten
<1>3. NoRivalsEver' /\ OthersNoticed'
  BY <1>1, <1>2 DEF Spending, NoRivalsEver, OthersNoticed
<1>4. SeenIsKnown'
  BY <1>1, <1>2 DEF Spending, SeenIsKnown
<1>5. \A u \in Local : Out(u)' => Out(u)
  BY <1>1, <1>2 DEF Out
<1> QED
  BY <1>1, <1>2, <1>3, <1>4, <1>5, SpendingKept

LEMMA MineSpending ==
  ASSUME RestTyped, Spending, NEW t \in Txs, Mine(t), Rivals(t) \intersect faults.orphaned = {}
  PROVE  Spending'
<1>1. /\ t \in mempool \/ t \notin Local
      /\ Rivals(t) \intersect InChain = {} /\ at' = [at EXCEPT ![t] = tip + 1]
      /\ mempool' = Drop(mempool, Rivals(t)) \ {t} /\ row' = row /\ spentIn' = spentIn
      /\ spentAt' = spentAt /\ queue' = queue /\ call' = call /\ faults' = faults
  BY DEF Mine, scan, store
<1>2. mempool' \subseteq mempool
  BY <1>1 DEF Drop
<1>3. InChain' = InChain \union {t} /\ Ever' = Ever \union {t}
  <2>1. \A u \in Txs : at'[u] = IF u = t THEN tip + 1 ELSE at[u]
    BY <1>1 DEF RestTyped
  <2>2. tip + 1 > 0
    BY Consts DEF RestTyped
  <2>3. InChain' = InChain \union {t}
    BY <2>1, <2>2 DEF InChain
  <2> QED
    BY <2>3, <1>1 DEF Ever
<1>4. \A u \in Ever : u \in Txs /\ u \notin Rivals(t)
  BY <1>1 DEF Ever, InChain, RestTyped
<1>5. NoRivalsEver'
  BY <1>3, <1>4, Locals DEF Spending, NoRivalsEver
<1>6. \A u : Beaten(u) => Beaten(u)'
  BY <1>3 DEF Beaten
<1>7. SeenIsKnown'
  BY <1>1, <1>2, <1>3, <1>6 DEF Spending, SeenIsKnown
<1>8. Sent' = Sent /\ OthersNoticed'
  BY <1>1 DEF Sent, Spending, OthersNoticed
<1>9. \A u \in Local : Out(u)' => Out(u)
  BY <1>1, <1>2, <1>3 DEF Out
<1> QED
  BY <1>1, <1>3, <1>5, <1>7, <1>8, <1>9, SpendingKept

\* What leaves the chain and the store alone, and forgets of the network and of calls
\* only what is known otherwise.
LEMMA FewerKnow ==
  ASSUME Spending, UNCHANGED <<at, row, spentIn, spentAt, faults.orphaned>>,
         mempool' \subseteq mempool, OthersNoticed',
         \A u \in Local : call'[u] # "idle" => call[u] # "idle" \/ row[u] # NoRow,
         Sent' \subseteq Sent,
         \A u \in Local : call[u] \in {"sent", "answered"} =>
           \/ call'[u] \in {"sent", "answered"} \/ row[u] # NoRow
           \/ u \notin mempool \union InChain
  PROVE  Spending'
<1>1. Ever' = Ever /\ InChain' = InChain /\ \A u : Beaten(u)' <=> Beaten(u)
  BY DEF Ever, InChain, Beaten
<1>2. NoRivalsEver'
  BY <1>1 DEF Spending, NoRivalsEver
<1>3. SeenIsKnown'
  BY <1>1 DEF Spending, SeenIsKnown
<1>4. \A u \in Local : Out(u)' => Out(u)
  BY <1>1 DEF Out
<1> QED
  BY <1>1, <1>2, <1>3, <1>4, SpendingKept

LEMMA EvictSpending == ASSUME RestTyped, Spending, NEW t \in Txs, Evict(t) PROVE Spending'
<1>1. /\ mempool' \subseteq mempool /\ at' = at /\ row' = row /\ spentIn' = spentIn
      /\ spentAt' = spentAt /\ queue' = queue /\ call' = call
  BY DEF Evict, Drop, store
<1>2. faults'.orphaned = faults.orphaned
  BY FaultType DEF Evict
<1>3. Sent' = Sent /\ OthersNoticed'
  BY <1>1 DEF Sent, Spending, OthersNoticed
<1> QED
  BY <1>1, <1>2, <1>3, FewerKnow

LEMMA ReorgSpending ==
  ASSUME RestTyped, Spending, NEW k \in 1..MaxHeight, Reorg(k)
  PROVE  Spending'
<1>1. /\ at' = [t \in Txs |-> IF at[t] > k THEN 0 ELSE at[t]]
      /\ mempool' \subseteq mempool \union {t \in Txs : at[t] > k}
      /\ faults' = [count |-> faults.count + 1,
                    orphaned |-> faults.orphaned \union {t \in Txs : at[t] > k}]
      /\ UNCHANGED <<store, call>>
  BY ReorgFacts
<1>2. row' = row /\ spentIn' = spentIn /\ spentAt' = spentAt /\ call' = call
  BY <1>1 DEF store
<1>3. faults'.orphaned = faults.orphaned \union {t \in Txs : at[t] > k}
  BY <1>1
<1>4. k \in Nat /\ \A t \in Txs : at[t] \in Nat
  BY Consts DEF RestTyped
<1>5. InChain' = {t \in InChain : ~(at[t] > k)} /\ \A t \in Txs : at[t] > k => t \in InChain
  BY <1>1, <1>4 DEF InChain
<1>6. Ever' = Ever
  BY <1>3, <1>5 DEF Ever, InChain
<1>7. NoRivalsEver' /\ \A u : Beaten(u)' <=> Beaten(u)
  BY <1>6 DEF Spending, NoRivalsEver, Beaten
<1>8. SeenIsKnown'
  BY <1>1, <1>2, <1>5, <1>7 DEF Spending, SeenIsKnown
<1>9. \A u \in Local : Out(u)' => Out(u)
  BY <1>1, <1>2, <1>5, <1>6 DEF Out, Ever
<1>10. Sent' = Sent
  BY <1>2 DEF Sent
<1>11. OthersNoticed'
  <2>1. PICK x \in Tasks, y \in Tasks :
          /\ x.type # "incoming" /\ y.type # "incoming" /\ queue' = queue \o <<x, y>>
    <3>1. queue' = queue \o <<[type |-> "reset", height |-> k], [type |-> "rewind", height |-> k]>>
      BY ReorgFacts
    <3> QED
      BY <3>1 DEF Tasks
  <2>2. /\ \A n \in DOMAIN queue : queue'[n] = queue[n]
        /\ \A n \in DOMAIN queue' \ DOMAIN queue : queue'[n] = x \/ queue'[n] = y
    BY <2>1 DEF RestTyped
  <2> QED
    BY <2>1, <2>2 DEF Spending, OthersNoticed
<1> QED
  BY <1>2, <1>3, <1>6, <1>7, <1>8, <1>9, <1>10, <1>11, SpendingKept

LEMMA ScanSpending == ASSUME RestTyped, Spending, Scan PROVE Spending'
<1>1. /\ ScanAdds(queue', scanned + 1)
      /\ UNCHANGED <<chain, seeded, held, store, call, faults>>
  BY ScanFacts
<1>2. UNCHANGED <<at, mempool, row, spentIn, spentAt, call, faults>>
  BY <1>1 DEF chain, store
<1>3. OthersNoticed'
  <2>1. \A n \in DOMAIN queue' \ DOMAIN queue : queue'[n].type # "incoming"
    BY <1>1 DEF ScanAdds, CursorAt, BlockOf
  <2> QED
    BY <2>1, <1>1 DEF ScanAdds, Spending, OthersNoticed
<1>4. Sent' = Sent
  BY <1>2 DEF Sent
<1> QED
  BY <1>2, <1>3, <1>4, FewerKnow

LEMMA IncomingSpending ==
  ASSUME RestTyped, Spending, NEW t \in Txs, Incoming(t), t \notin Local
  PROVE  Spending'
<1>1. /\ UNCHANGED <<at, mempool, row, spentIn, spentAt, call, faults>>
      /\ queue' = Append(queue, [type |-> "incoming", tx |-> t])
  BY DEF Incoming, chain, store
<1>2. OthersNoticed'
  <2>1. PICK x \in Tasks : x = [type |-> "incoming", tx |-> t]
    BY DEF Tasks
  <2>2. /\ \A n \in DOMAIN queue : queue'[n] = queue[n]
        /\ \A n \in DOMAIN queue' \ DOMAIN queue : queue'[n] = x
    BY <1>1, <2>1 DEF RestTyped
  <2> QED
    BY <2>1, <2>2 DEF Spending, OthersNoticed
<1>3. Sent' = Sent
  BY <1>1 DEF Sent
<1> QED
  BY <1>1, <1>2, <1>3, FewerKnow
LEMMA RestartSpending ==
  ASSUME RestTyped, Spending, Restart, ~Unsaved
  PROVE  Spending'
<1>1. /\ queue' = <<>> /\ call' = [t \in Local |-> "idle"] /\ at' = at /\ mempool' = mempool
      /\ row' = row /\ spentIn' = spentIn /\ spentAt' = spentAt
  BY DEF Restart, chain, store
<1>2. faults'.orphaned = faults.orphaned
  BY FaultType DEF Restart
<1>3. OthersNoticed' /\ Sent' \subseteq Sent /\ \A u \in Local : call'[u] = "idle"
  BY <1>1 DEF OthersNoticed, Sent
<1>4. \A u \in Local : call[u] \in {"sent", "answered"} =>
        row[u] # NoRow \/ u \notin mempool \union InChain
  BY DEF Unsaved
<1> QED
  BY <1>1, <1>2, <1>3, <1>4, FewerKnow

\* Calls, apart from their begin and their record.
LEMMA CallSpending ==
  ASSUME RestTyped, Spending, NEW t \in Local,
         \/ Broadcast(t) \/ Rebroadcast(t) \/ Answered(t) \/ Delivered(t) \/ NotHeardAgain(t)
         \/ (NotHeard(t) /\ t \notin mempool \union InChain)
         \/ (RecordElsewhere(t) /\ row[t] # NoRow)
  PROVE  Spending'
<1>1. /\ UNCHANGED <<chain, scan, queue, store>>
      /\ faults' = faults \/ Fault
  BY DEF Broadcast, Rebroadcast, Answered, Delivered, NotHeard, NotHeardAgain, RecordElsewhere
<1>2. UNCHANGED <<at, mempool, row, spentIn, spentAt, queue>> /\ faults'.orphaned = faults.orphaned
  BY <1>1, FaultType DEF chain, store
<1>3. \E state \in {"idle", "sent", "answered"} :
        /\ call' = [call EXCEPT ![t] = state]
        /\ state # "idle" => call[t] # "idle" \/ row[t] = Pending
        /\ call[t] \in {"sent", "answered"} =>
             state \in {"sent", "answered"} \/ row[t] # NoRow \/ t \notin mempool \union InChain
  BY DEF Broadcast, Rebroadcast, Answered, Delivered, NotHeard, NotHeardAgain, RecordElsewhere
<1>4. PICK state \in {"idle", "sent", "answered"} :
        /\ call'[t] = state /\ \A u \in Local : u # t => call'[u] = call[u]
        /\ state # "idle" => call[t] # "idle" \/ row[t] = Pending
        /\ call[t] \in {"sent", "answered"} =>
             state \in {"sent", "answered"} \/ row[t] # NoRow \/ t \notin mempool \union InChain
  BY <1>3 DEF RestTyped
<1>5. Sent' \subseteq Sent /\ OthersNoticed'
  BY <1>2, <1>4 DEF Sent, Spending, OthersNoticed
<1>6. \A u \in Local : call'[u] # "idle" => call[u] # "idle" \/ row[u] # NoRow
  BY <1>4, Consts
<1>7. \A u \in Local : call[u] \in {"sent", "answered"} =>
        call'[u] \in {"sent", "answered"} \/ row[u] # NoRow \/ u \notin mempool \union InChain
  BY <1>4
<1> QED
  BY <1>2, <1>5, <1>6, <1>7, FewerKnow

\* A send is built from coins that nothing of ours holds unless it is beaten.
LEMMA BuildSpending ==
  ASSUME StoreTyped, RestTyped, Ledger, Spending, NEW t \in Local, Build(t), ~Calling,
         Rivals(t) \intersect faults.orphaned = {}
  PROVE  Spending'
<1>1. /\ row[t] = NoRow /\ Ins[t] \subseteq Offered /\ call[t] = "idle"
      /\ call' = [call EXCEPT ![t] = "built"]
      /\ UNCHANGED <<at, mempool, row, spentIn, spentAt, queue, faults>>
  BY DEF Build, chain, store
<1>2. \A u \in Local : call[u] = "idle" /\ (u # t => call'[u] = "idle")
  BY <1>1 DEF Calling, RestTyped
<1>3. \A i \in Ins[t] : i \in Pays /\ row[i] # NoRow /\ spentIn[i] = Nobody
  BY <1>1 DEF Offered
<1>4. Ever' = Ever /\ InChain' = InChain /\ (\A u : Beaten(u)' <=> Beaten(u)) /\ (\A u : Doomed(u)' <=> Doomed(u))
  BY <1>1 DEF Ever, InChain, Beaten, Doomed
<1>5. Sent' \subseteq Sent \union {t}
  BY <1>1, <1>2 DEF Sent
<1>6. ASSUME NEW v \in Local, v \in Rivals(t), Out(v) PROVE Beaten(v)
  <2>0. v \notin faults.orphaned /\ v # t /\ v \in Txs /\ call[v] = "idle"
    BY <1>2, <1>6, Locals
  <2>1. PICK i \in Ins[t] : i \in Ins[v]
    BY <1>6 DEF Rivals
  <2>2. CASE row[v] = Pending
    <3>1. Doomed(v)
      BY <2>1, <2>2, <1>3 DEF Spending, CoinsHeld
    <3> QED
      BY <3>1, <2>0 DEF Doomed
  <2>3. CASE Confirmed(v)
    <3>1. spentIn[i] = v
      BY <2>0, <2>1, <2>3, <1>3 DEF Ledger, StoreTrue
    <3> QED
      BY <3>1, <2>0, <1>3, Consts
  <2>4. CASE row[v] = NoRow
    <3>1. v \in mempool \/ v \in InChain
      BY <2>0, <2>4, <1>6 DEF Out, Ever
    <3> QED
      BY <3>1, <2>0, <2>4 DEF Spending, SeenIsKnown
  <2> QED
    BY <2>0, <2>2, <2>3, <2>4, Consts DEF StoreTyped, Confirmed
<1>7. OneIsBeaten'
  <2> SUFFICES ASSUME NEW u \in Local, NEW v \in Local, v \in Rivals(u), Out(u)', Out(v)'
               PROVE  Beaten(u) \/ Beaten(v)
    BY <1>4 DEF OneIsBeaten
  <2>1. \A w \in Local : w # t /\ Out(w)' => Out(w)
    BY <1>1, <1>2, <1>4 DEF Out
  <2>2. CASE u = t
    BY <2>1, <2>2, <1>6, Locals
  <2>3. CASE v = t
    BY <2>1, <2>3, <1>6, Locals
  <2>4. CASE u # t /\ v # t
    BY <2>1, <2>4 DEF Spending, OneIsBeaten
  <2> QED
    BY <2>2, <2>3, <2>4
<1>8. SeenIsKnown' /\ NoRivalsEver' /\ OthersNoticed' /\ CoinsHeld'
  <2>1. SeenIsKnown'
    BY <1>1, <1>2, <1>4 DEF Spending, SeenIsKnown
  <2>2. NoRivalsEver' /\ OthersNoticed' /\ CoinsHeld'
    BY <1>1, <1>4 DEF Spending, NoRivalsEver, OthersNoticed, CoinsHeld
  <2> QED
    BY <2>1, <2>2
<1>9. CoinsKnown' /\ CoinsOpen'
  BY <1>1, <1>3, <1>4, <1>5 DEF Spending, CoinsKnown, CoinsOpen
<1> QED
  BY <1>7, <1>8, <1>9 DEF Spending

\* A record, by the queue or by a call: t takes coins nobody of ours is after.
LEMMA RecordSpending ==
  ASSUME StoreTyped, RestTyped, Ledger, Spending, NEW t \in Txs, NEW mine, RecordPending(t, mine), ~Lost(t),
         t \in Local => t \in Sent, UNCHANGED <<at, mempool, faults>>, Sent' \subseteq Sent,
         OthersNoticed',
         \A u \in Local : u # t => call'[u] = call[u]
  PROVE  Spending'
<1>0. StoreTrue
  BY DEF Ledger
<1>1. /\ \A u \in Txs \ {t} : row'[u] = row[u]
      /\ row'[t] = (IF row[t] = NoRow THEN Pending ELSE row[t])
      /\ spentAt' = spentAt
      /\ \A i \in Pays :
           \/ spentIn'[i] = spentIn[i]
           \/ spentIn'[i] = t /\ i \in Ins[t] /\ row[i] # NoRow /\ spentIn[i] = Nobody /\ spentAt[i] = 0
  BY <1>0, RecordFacts
<1>2. \A i \in Ins[t] \intersect Pays : row[i] # NoRow => spentIn'[i] # Nobody
  BY Consts DEF RecordPending, StoreTyped
<1>3. Ever' = Ever /\ InChain' = InChain /\ (\A u : Beaten(u)' <=> Beaten(u)) /\ (\A u : Doomed(u)' <=> Doomed(u))
  BY DEF Ever, InChain, Beaten, Doomed
<1>4. \A v \in Rivals(t) : v \notin Ever /\ v \notin Sent
  BY DEF Lost, Ever
<1>5. t \in Local => Out(t)
  <2> SUFFICES ASSUME t \in Local PROVE Out(t)
    OBVIOUS
  <2>1. call[t] # "idle" \/ row[t] = Pending
    BY DEF Sent
  <2> QED
    BY <2>1, Consts DEF Out
<1>6. \A u \in Local : Out(u)' => Out(u)
  BY <1>1, <1>3, <1>5, Locals DEF Out
<1>7. OneIsBeaten' /\ NoRivalsEver'
  BY <1>3, <1>6 DEF Spending, OneIsBeaten, NoRivalsEver
<1>8. row'[t] # NoRow /\ \A u \in Txs : row[u] # NoRow => row'[u] # NoRow
  BY <1>1, Consts
<1>9. SeenIsKnown'
  BY <1>3, <1>8, Locals DEF Spending, SeenIsKnown
<1>10. ASSUME NEW u \in Sent, ~Doomed(u), NEW i \in Ins[u]
       PROVE  /\ row[i] # NoRow \/ i # t
              /\ i \in Pays /\ row'[i] # NoRow => row[i] # NoRow
              /\ u # t => u \notin Rivals(t) /\ i \notin Ins[t]
  <2>1. i \in Pays /\ i \in Txs /\ u \in Local /\ u \in Txs
    BY <1>10, Locals DEF Sent
  <2>2. row[i] # NoRow \/ \E v \in Rivals(i) : v \in Ever
    BY <1>10 DEF Spending, CoinsKnown
  <2>3. row[i] # NoRow \/ i # t
    BY <2>2, <1>4
  <2>4. u # t => u \notin Rivals(t) /\ i \notin Ins[t]
    BY <2>1, <1>4, <1>10, Locals
  <2> QED
    BY <2>1, <2>3, <2>4, <1>1
<1>11. CoinsHeld'
  <2> SUFFICES ASSUME NEW u \in Local, row'[u] = Pending, ~Doomed(u), NEW i \in Ins[u], row'[i] # NoRow
               PROVE  spentIn'[i] # Nobody
    BY <1>3 DEF CoinsHeld
  <2>1. u \in Sent
    <3>1. CASE u = t
      BY <3>1
    <3>2. CASE u # t
      BY <3>2, <1>1, Locals DEF Sent
    <3> QED
      BY <3>1, <3>2
  <2>2. i \in Pays /\ row[i] # NoRow
    BY <2>1, <1>10, Locals
  <2>3. CASE u = t
    BY <2>2, <2>3, <1>2
  <2>4. CASE u # t
    <3>1. row[u] = Pending
      BY <2>4, <1>1, Locals
    <3>2. spentIn[i] # Nobody
      BY <3>1, <2>2 DEF Spending, CoinsHeld
    <3> QED
      BY <3>2, <2>2, <1>1
  <2> QED
    BY <2>3, <2>4
<1>12. CoinsKnown'
  <2> SUFFICES ASSUME NEW u \in Sent, ~Doomed(u), NEW i \in Ins[u]
               PROVE  row'[i] # NoRow \/ \E v \in Rivals(i) : v \in Ever
    BY <1>3 DEF CoinsKnown
  <2>1. i \in Txs
    BY Locals DEF Sent
  <2> QED
    BY <2>1, <1>8 DEF Spending, CoinsKnown
<1>13. CoinsOpen'
  <2> SUFFICES ASSUME NEW u \in Sent, ~Doomed(u), NEW i \in Ins[u]
               PROVE  spentIn'[i] = Nobody \/ spentIn'[i] = u \/ spentAt'[i] > 0
    BY <1>3 DEF CoinsOpen
  <2>1. i \in Pays /\ (u # t => i \notin Ins[t])
    BY <1>10, Locals DEF Sent
  <2>2. spentIn[i] = Nobody \/ spentIn[i] = u \/ spentAt[i] > 0
    BY DEF Spending, CoinsOpen
  <2> QED
    BY <2>1, <2>2, <1>1
<1> QED
  BY <1>7, <1>9, <1>11, <1>12, <1>13 DEF Spending
\* The queue only loses tasks.
LEMMA ShiftedOthers == ASSUME Spending, Shifted PROVE OthersNoticed'
BY DEF Shifted, Spending, OthersNoticed

\* A block displaces rivals of what it confirms, which are beaten by it or by what has
\* beaten it.
LEMMA BlockSpending ==
  ASSUME StoreTyped, RestTyped, Ledger, Spending, NEW task, PersistStep(task), PersistBlock(task)
  PROVE  Spending'
<1>1. /\ Shifted /\ queue[1] = task /\ UNCHANGED <<at, tip, scanned, faults>>
      /\ 1 \in DOMAIN queue /\ \A n \in DOMAIN queue : n \in Nat /\ n >= 1
  BY StepFacts
<1>2. PICK t \in Txs, h \in 1..MaxHeight : t = task.tx /\ h = task.height
  BY TaskKinds DEF PersistStep, PersistBlock
<1>3. task.type = "block" /\ ApplyBlock(h, t, task.spends) /\ call' = call /\ mempool' = mempool
  BY <1>2 DEF PersistBlock, PersistStep, chain
<1>4. BlockAt(1, t, h) /\ Coming(t)
  BY <1>1, <1>2, <1>3 DEF BlockTask, BlockAt, Coming
<1>5. TaskTrue(1, t, h)
  BY <1>1, <1>4 DEF Ledger, TasksTrue
<1>6. Fits(h, t, task.spends)
  <2>1. \A i \in Ins[t] \intersect Pays : i \in task.spends /\ Confirmed(i) /\ row[i] < h
    BY <1>1, <1>5 DEF TaskTrue
  <2>2. \A u \in Txs : Confirmed(u) => u \notin Rivals(t)
    BY <1>4 DEF Ledger, Exclusive
  <2> QED
    BY <2>1, <2>2, <1>1, <1>5 DEF Fits, TaskTrue
<1>7. StoreTrue
  BY DEF Ledger
<1>8. /\ row'[t] = h
      /\ \A u \in Txs \ {t} :
           row'[u] = row[u] \/ (row[u] = Pending /\ row'[u] = NoRow /\ u \in Rivals(t))
      /\ \A i \in Ins[t] \intersect Pays : spentIn'[i] = t /\ spentAt'[i] = h
      /\ \A i \in Pays \ Ins[t] :
           \/ spentIn'[i] = spentIn[i] /\ spentAt'[i] = spentAt[i] /\ (i = t \/ row'[i] = row[i])
                /\ (spentIn[i] \in Txs \ {t} => row'[spentIn[i]] = row[spentIn[i]])
           \/ /\ spentIn'[i] = Nobody /\ spentAt'[i] = 0 /\ spentAt[i] = 0
              /\ \/ row'[i] = NoRow
                 \/ spentIn[i] \in Txs /\ row[spentIn[i]] = Pending /\ row'[spentIn[i]] = NoRow
  BY <1>3, <1>6, <1>7, ApplyBlockFacts
<1>9. t \in Ever
  BY <1>5, Consts DEF TaskTrue, Right, Ever, InChain
<1>10. /\ Ever' = Ever /\ InChain' = InChain
       /\ (\A u : Beaten(u)' <=> Beaten(u)) /\ (\A u : Doomed(u)' <=> Doomed(u))
  BY <1>1 DEF Ever, InChain, Beaten, Doomed
<1>11. h # Pending /\ h # NoRow /\ h > 0
  BY Consts
<1>12. \A u \in Local : row'[u] = Pending => row[u] = Pending /\ u # t
  BY <1>8, <1>11, Locals, Consts
<1>13. Sent' \subseteq Sent
  BY <1>3, <1>12 DEF Sent
<1>14. \A u \in Txs : row'[u] # NoRow => u = t \/ row[u] # NoRow
  BY <1>8
<1>15. \A u \in Local : Out(u)' => Out(u)
  BY <1>3, <1>9, <1>10, <1>14, Locals DEF Out
<1>16. ~Beaten(t)
  BY <1>9 DEF Beaten, Spending, NoRivalsEver
<1>17. \A u \in Local : row[u] = Pending /\ row'[u] = NoRow => Beaten(u)
  <2> SUFFICES ASSUME NEW u \in Local, row[u] = Pending, row'[u] = NoRow PROVE Beaten(u)
    OBVIOUS
  <2>1. u \in Rivals(t) /\ t \in Rivals(u) /\ Out(u)
    BY <1>8, <1>11, Locals, Consts DEF Out
  <2>2. CASE t \in Local
    <3>1. Out(t)
      BY <1>9 DEF Out
    <3> QED
      BY <2>1, <2>2, <3>1, <1>16 DEF Spending, OneIsBeaten
  <2>3. CASE t \notin Local
    BY <2>1, <2>3, <1>9 DEF Beaten
  <2> QED
    BY <2>2, <2>3
<1>18. OneIsBeaten' /\ NoRivalsEver' /\ OthersNoticed'
  <2>1. OthersNoticed'
    BY <1>1, ShiftedOthers
  <2> QED
    BY <2>1, <1>10, <1>15 DEF Spending, OneIsBeaten, NoRivalsEver
<1>19. SeenIsKnown'
  <2> SUFFICES ASSUME NEW u \in Local, u \in mempool \/ u \in InChain
               PROVE  call[u] \in {"sent", "answered"} \/ row'[u] # NoRow \/ Beaten(u)
    BY <1>3, <1>10 DEF SeenIsKnown
  <2>1. call[u] \in {"sent", "answered"} \/ row[u] # NoRow \/ Beaten(u)
    BY DEF Spending, SeenIsKnown
  <2>2. row[u] # NoRow => row'[u] # NoRow \/ Beaten(u)
    BY <1>8, <1>11, <1>17, Locals
  <2> QED
    BY <2>1, <2>2
<1>20. CoinsHeld'
  <2> SUFFICES ASSUME NEW u \in Local, row'[u] = Pending, ~Doomed(u), NEW i \in Ins[u], row'[i] # NoRow
               PROVE  spentIn'[i] # Nobody
    BY <1>10 DEF CoinsHeld
  <2>1. row[u] = Pending /\ u # t /\ u \in Sent /\ i \in Pays /\ i \in Txs
    BY <1>12, Locals DEF Sent
  <2>2. CASE row[i] = NoRow
    <3>1. i = t
      BY <2>1, <2>2, <1>14
    <3>2. ~\E v \in Rivals(i) : v \in Ever
      BY <3>1, <1>9 DEF Spending, NoRivalsEver
    <3> QED
      BY <2>1, <2>2, <3>2 DEF Spending, CoinsKnown
  <2>3. CASE row[i] # NoRow
    <3>1. spentIn[i] # Nobody
      BY <2>1, <2>3 DEF Spending, CoinsHeld
    <3>2. spentIn[i] = u \/ spentAt[i] > 0
      BY <2>1, <3>1 DEF Spending, CoinsOpen
    <3>3. CASE i \in Ins[t]
      BY <3>3, <2>1, <1>8, Consts
    <3>4. CASE i \notin Ins[t]
      BY <3>1, <3>2, <3>4, <2>1, <1>8, Consts
    <3> QED
      BY <3>3, <3>4
  <2> QED
    BY <2>2, <2>3
<1>21. CoinsKnown'
  <2> SUFFICES ASSUME NEW u \in Sent, ~Doomed(u), NEW i \in Ins[u]
               PROVE  row'[i] # NoRow \/ \E v \in Rivals(i) : v \in Ever
    BY <1>10, <1>13 DEF CoinsKnown
  <2>1. i \in Txs
    BY Locals DEF Sent
  <2>2. row[i] # NoRow \/ \E v \in Rivals(i) : v \in Ever
    BY DEF Spending, CoinsKnown
  <2>3. row[i] # NoRow /\ row'[i] = NoRow => t \in Rivals(i)
    BY <2>1, <1>8, <1>11, Locals
  <2> QED
    BY <2>2, <2>3, <1>9
<1>22. CoinsOpen'
  <2> SUFFICES ASSUME NEW u \in Sent, ~Doomed(u), NEW i \in Ins[u]
               PROVE  spentIn'[i] = Nobody \/ spentIn'[i] = u \/ spentAt'[i] > 0
    BY <1>10, <1>13 DEF CoinsOpen
  <2>1. i \in Pays
    BY Locals DEF Sent
  <2>2. spentIn[i] = Nobody \/ spentIn[i] = u \/ spentAt[i] > 0
    BY DEF Spending, CoinsOpen
  <2>3. CASE i \in Ins[t]
    BY <2>1, <2>3, <1>8, <1>11
  <2>4. CASE i \notin Ins[t]
    BY <2>1, <2>2, <2>4, <1>8
  <2> QED
    BY <2>3, <2>4
<1> QED
  BY <1>18, <1>19, <1>20, <1>21, <1>22 DEF Spending

LEMMA CursorSpending ==
  ASSUME RestTyped, Spending, NEW task, PersistStep(task), PersistCursor(task) \/ PersistReset(task)
  PROVE  Spending'
<1>1. Shifted /\ UNCHANGED <<at, tip, scanned, faults>>
  BY StepFacts
<1>2. UNCHANGED <<mempool, row, spentIn, spentAt, call>>
  BY DEF PersistStep, PersistCursor, PersistReset, chain
<1>3. OthersNoticed' /\ Sent' = Sent
  BY <1>1, <1>2, ShiftedOthers DEF Sent
<1> QED
  BY <1>1, <1>2, <1>3, FewerKnow

LEMMA NoticedSpending ==
  ASSUME StoreTyped, RestTyped, Ledger, Spending, NEW task, PersistStep(task), PersistIncoming(task),
         ~Lost(task.tx)
  PROVE  Spending'
<1>1. /\ Shifted /\ queue[1] = task /\ UNCHANGED <<at, tip, scanned, faults>>
      /\ 1 \in DOMAIN queue /\ \A n \in DOMAIN queue : n \in Nat /\ n >= 1
  BY StepFacts
<1>2. PICK t \in Txs : t = task.tx
  BY TaskKinds DEF PersistStep, PersistIncoming
<1>3. /\ task.type = "incoming" /\ RecordPending(t, FALSE) /\ ~Lost(t)
      /\ call' = call /\ mempool' = mempool
  BY <1>2 DEF PersistIncoming, PersistStep, chain
<1>4. t \notin Local
  BY <1>1, <1>2, <1>3 DEF Spending, OthersNoticed
<1>5. Sent' = Sent
  <2>1. \A u \in Local : row'[u] = row[u]
    BY <1>3, <1>4, Locals DEF RecordPending, StoreTyped
  <2> QED
    BY <2>1, <1>3 DEF Sent
<1>6. OthersNoticed'
  BY <1>1, ShiftedOthers
<1> QED
  BY <1>1, <1>3, <1>4, <1>5, <1>6, RecordSpending

\* What a rewind frees was spent by an orphan, and its own rows are orphans.
LEMMA RewindSpending ==
  ASSUME StoreTyped, RestTyped, Ledger, Spending, NEW task, PersistStep(task), PersistRewind(task)
  PROVE  Spending'
<1>1. /\ Shifted /\ queue[1] = task /\ UNCHANGED <<at, tip, scanned, faults>>
      /\ 1 \in DOMAIN queue /\ \A n \in DOMAIN queue : n \in Nat /\ n >= 1
  BY StepFacts
<1>2. task.type = "rewind" /\ RewindRows(task.height) /\ call' = call /\ mempool' = mempool
  BY DEF PersistRewind, PersistStep, chain
<1>3. RewindRows(scanned) /\ scanned \in 1..MaxHeight /\ scanned \in Nat
  BY <1>1, <1>2, TaskKinds, Consts DEF Ledger, QueueTrue, PersistStep
<1>4. \A u \in Txs : row'[u] = IF Confirmed(u) /\ row[u] > scanned THEN Pending ELSE row[u]
  BY <1>3, RewindStore DEF Ledger
<1>5. \A i \in Pays : /\ spentIn'[i] = IF spentAt[i] > scanned THEN Nobody ELSE spentIn[i]
                      /\ spentAt'[i] = IF spentAt[i] > scanned THEN 0 ELSE spentAt[i]
  BY <1>3 DEF RewindRows
<1>6. \A u \in Txs : Confirmed(u) /\ row[u] > scanned => u \in faults.orphaned
  BY <1>3, Consts DEF Ledger, RowsTrue, Right, Confirmed
<1>7. /\ Ever' = Ever /\ InChain' = InChain
      /\ (\A u : Beaten(u)' <=> Beaten(u)) /\ (\A u : Doomed(u)' <=> Doomed(u))
  BY <1>1 DEF Ever, InChain, Beaten, Doomed
<1>8. \A u \in Txs : row'[u] = NoRow <=> row[u] = NoRow
  BY <1>4, Consts DEF Confirmed
<1>9. \A u \in Local : row'[u] = Pending /\ ~Doomed(u) => row[u] = Pending
  BY <1>4, <1>6, Locals DEF Doomed
<1>10. \A u \in Sent' : u \in Local /\ u \in Txs /\ (~Doomed(u) => u \in Sent)
  BY <1>2, <1>9, Locals DEF Sent
<1>11. OthersNoticed' /\ NoRivalsEver'
  BY <1>1, <1>7, ShiftedOthers DEF Spending, NoRivalsEver
<1>12. OneIsBeaten'
  <2>1. \A u \in Local : Out(u)' <=> Out(u)
    BY <1>2, <1>7, <1>8, Locals DEF Out
  <2> QED
    BY <2>1, <1>7 DEF Spending, OneIsBeaten
<1>13. SeenIsKnown'
  BY <1>2, <1>7, <1>8, Locals DEF Spending, SeenIsKnown
<1>14. CoinsHeld'
  <2> SUFFICES ASSUME NEW u \in Local, row'[u] = Pending, ~Doomed(u), NEW i \in Ins[u], row'[i] # NoRow
               PROVE  spentIn'[i] # Nobody
    BY <1>7 DEF CoinsHeld
  <2>1. u \in Txs /\ row[u] = Pending /\ i \in Pays /\ i \in Txs /\ row[i] # NoRow
    BY <1>8, <1>9, Locals
  <2>2. spentIn[i] # Nobody
    BY <2>1 DEF Spending, CoinsHeld
  <2>3. ASSUME spentAt[i] > scanned PROVE FALSE
    <3>1. PICK w \in Txs : w = spentIn[i] /\ row[w] = spentAt[i] /\ i \in Ins[w]
      BY <2>1, <2>3, <1>3 DEF Ledger, StoreTrue, StoreTyped
    <3>2. Confirmed(w) /\ row[w] > scanned
      BY <2>1, <2>3, <3>1, <1>3, Consts DEF Confirmed, StoreTyped
    <3>3. w \in Ever /\ w # u
      BY <2>1, <3>2, <1>6, Consts DEF Ever, Confirmed
    <3>4. w \in Rivals(u) /\ u \in Rivals(w)
      BY <2>1, <3>1, <3>3, Locals
    <3>5. CASE w \in Local
      <4>1. Out(u) /\ Out(w) /\ ~Beaten(w)
        BY <2>1, <3>3, Consts DEF Out, Beaten, Spending, NoRivalsEver
      <4>2. Beaten(u)
        BY <4>1, <3>4, <3>5 DEF Spending, OneIsBeaten
      <4> QED
        BY <4>2 DEF Doomed
    <3>6. CASE w \notin Local
      BY <3>3, <3>4, <3>6 DEF Doomed, Beaten
    <3> QED
      BY <3>5, <3>6
  <2> QED
    BY <2>1, <2>2, <2>3, <1>5
<1>15. CoinsKnown'
  <2> SUFFICES ASSUME NEW u \in Sent', ~Doomed(u), NEW i \in Ins[u]
               PROVE  row'[i] # NoRow \/ \E v \in Rivals(i) : v \in Ever
    BY <1>7 DEF CoinsKnown
  <2>1. u \in Sent /\ i \in Txs
    BY <1>10, Locals
  <2> QED
    BY <2>1, <1>8 DEF Spending, CoinsKnown
<1>16. CoinsOpen'
  <2> SUFFICES ASSUME NEW u \in Sent', ~Doomed(u), NEW i \in Ins[u]
               PROVE  spentIn'[i] = Nobody \/ spentIn'[i] = u \/ spentAt'[i] > 0
    BY <1>7 DEF CoinsOpen
  <2>1. u \in Sent /\ i \in Pays
    BY <1>10, Locals
  <2>2. spentIn[i] = Nobody \/ spentIn[i] = u \/ spentAt[i] > 0
    BY <2>1 DEF Spending, CoinsOpen
  <2> QED
    BY <2>1, <2>2, <1>5
<1> QED
  BY <1>11, <1>12, <1>13, <1>14, <1>15, <1>16 DEF Spending

\* The other seven situations that OneSpender needs left out.
Careful ==
  /\ OneRewind
  /\ {"own change noticed", "rival of an orphan", "send beside a send", "unheard of success",
      "restart with a record unsaved", "another wallet selected", "record of a loser"}
       \subseteq Excluded

LEMMA NextSpending ==
  ASSUME Careful, LedgerInv, Spending, [Next]_vars
  PROVE  Spending'
<1>0. /\ "own change noticed" \in Excluded /\ "rival of an orphan" \in Excluded
      /\ "send beside a send" \in Excluded /\ "unheard of success" \in Excluded
      /\ "restart with a record unsaved" \in Excluded /\ "another wallet selected" \in Excluded
      /\ "record of a loser" \in Excluded
  BY DEF Careful
<1>1. StoreTyped /\ RestTyped /\ Ledger
  BY TypeParts DEF LedgerInv
<1>2. ASSUME NEW t \in Txs,
             \/ Enter(t)
             \/ Allowed("rival of an orphan", Rivals(t) \intersect faults.orphaned # {}) /\ Mine(t)
             \/ Evict(t)
             \/ Allowed("own change noticed", t \in Local) /\ Incoming(t)
      PROVE  Spending'
  BY <1>0, <1>1, <1>2, EnterSpending, MineSpending, EvictSpending, IncomingSpending DEF Allowed
<1>3. ASSUME NEW k \in 1..MaxHeight, Reorg(k) PROVE Spending'
  BY <1>1, <1>3, ReorgSpending
<1>4. CASE Scan
  BY <1>1, <1>4, ScanSpending
<1>5. ASSUME Allowed("record of a loser",
               queue # <<>> /\ Head(queue).type = "incoming" /\ Lost(Head(queue).tx)),
             Persist
      PROVE  Spending'
  <2>1. PICK task : /\ PersistStep(task)
                    /\ \/ PersistBlock(task) \/ PersistCursor(task) \/ PersistReset(task)
                       \/ PersistIncoming(task) \/ PersistRewind(task)
    BY <1>1, <1>5, PersistCases DEF PersistStep
  <2>2. CASE PersistBlock(task)
    BY <2>1, <2>2, <1>1, BlockSpending
  <2>3. CASE PersistCursor(task) \/ PersistReset(task)
    BY <2>1, <2>3, <1>1, CursorSpending
  <2>4. CASE PersistIncoming(task)
    <3>1. ~Lost(task.tx)
      BY <2>1, <2>4, <1>0, <1>5 DEF Allowed, PersistStep, PersistIncoming
    <3> QED
      BY <2>1, <2>4, <3>1, <1>1, NoticedSpending
  <2>5. CASE PersistRewind(task)
    BY <2>1, <2>5, <1>1, RewindSpending
  <2> QED
    BY <2>1, <2>2, <2>3, <2>4, <2>5
<1>6. ASSUME Allowed("restart with a record unsaved", Unsaved), Restart PROVE Spending'
  BY <1>0, <1>1, <1>6, RestartSpending DEF Allowed
<1>7. ASSUME NEW t \in Local, Allowed("send beside a send", Calling),
             Allowed("rival of an orphan", Rivals(t) \intersect faults.orphaned # {}), Build(t)
      PROVE  Spending'
  BY <1>0, <1>1, <1>7, BuildSpending DEF Allowed
<1>8. ASSUME NEW t \in Local,
             \/ Broadcast(t) \/ Rebroadcast(t) \/ Answered(t) \/ Delivered(t) \/ NotHeardAgain(t)
             \/ Allowed("unheard of success", t \in mempool \union InChain) /\ NotHeard(t)
             \/ Allowed("another wallet selected", row[t] = NoRow) /\ RecordElsewhere(t)
      PROVE  Spending'
  BY <1>0, <1>1, <1>8, CallSpending DEF Allowed
<1>9. ASSUME NEW t \in Local, Allowed("record of a loser", Lost(t)), Record(t) PROVE Spending'
  <2>1. ~Lost(t) /\ t \in Txs
    BY <1>0, <1>9, Locals DEF Allowed
  <2>2. /\ call[t] = "answered" /\ RecordPending(t, TRUE) /\ call' = [call EXCEPT ![t] = "idle"]
        /\ UNCHANGED <<at, mempool, faults, queue>>
    BY <1>9 DEF Record, chain
  <2>3. t \in Sent
    BY <2>2 DEF Sent
  <2>4. \A u \in Local : u # t => call'[u] = call[u] /\ row'[u] = row[u]
    BY <2>2, <1>1, Locals DEF RestTyped, StoreTyped, RecordPending
  <2>5. Sent' \subseteq Sent
    BY <2>3, <2>4 DEF Sent
  <2>6. OthersNoticed'
    BY <2>2 DEF Spending, OthersNoticed
  <2> QED
    BY <2>1, <2>2, <2>3, <2>4, <2>5, <2>6, <1>1, RecordSpending
<1>10. CASE UNCHANGED vars
  <2>1. UNCHANGED <<at, mempool, row, spentIn, spentAt, faults, queue, call>>
    BY <1>10 DEF vars, chain, store
  <2>2. Sent' = Sent /\ OthersNoticed'
    BY <2>1 DEF Sent, Spending, OthersNoticed
  <2> QED
    BY <2>1, <2>2, FewerKnow
<1>11. ASSUME NEW t \in Local, NoLongerPushed(t) PROVE Spending'
  <2>1. UNCHANGED <<at, mempool, row, spentIn, spentAt, faults, queue, call>>
    BY <1>11 DEF NoLongerPushed, chain
  <2>2. Sent' = Sent /\ OthersNoticed'
    BY <2>1, <1>1 DEF Sent, Spending, OthersNoticed
  <2> QED
    BY <2>1, <2>2, <1>1, FewerKnow
<1> QED
  BY <1>2, <1>3, <1>4, <1>5, <1>6, <1>7, <1>8, <1>9, <1>10, <1>11 DEF Next

LEMMA OneSpenderHere == Spending => OneSpender
<1> SUFFICES ASSUME Spending, NEW t \in Local, NEW u \in Local, t # u, Ins[t] \intersect Ins[u] # {},
                    t \in Sent, u \in Sent
             PROVE  ((Rivals(t) \union Rivals(u)) \ Local) \intersect (InChain \union faults.orphaned) # {}
  BY DEF OneSpender
<1>1. Out(t) /\ Out(u)
  BY Consts DEF Sent, Out
<1>2. u \in Rivals(t)
  BY Locals DEF Rivals
<1>3. Beaten(t) \/ Beaten(u)
  BY <1>1, <1>2 DEF Spending, OneIsBeaten
<1> QED
  BY <1>3 DEF Beaten, Ever

\* The wallet never has two transactions of its own out that spend one coin, unless
\* somebody else's took it from one of them (getUtxos, recordPendingTx, applyBlock,
\* rewindToHeight), over any run of mempools, blocks, reorgs, lost answers and restarts
\* that leaves out ten situations.
THEOREM NoDoubleSpend == Careful /\ Spec => []OneSpender
<1> SUFFICES ASSUME Careful PROVE Spec => []OneSpender
  OBVIOUS
<1>0. OneRewind
  BY DEF Careful
<1>1. Init => LedgerInv /\ Spending
  BY InitLedger, InitSpending
<1>2. LedgerInv /\ Spending /\ [Next]_vars => LedgerInv' /\ Spending'
  BY <1>0, NextLedger, NextSpending
<1>3. Spending => OneSpender
  BY OneSpenderHere
<1> QED
  BY <1>1, <1>2, <1>3, PTL DEF Spec
=============================================================================
