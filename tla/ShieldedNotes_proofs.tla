------------------------ MODULE ShieldedNotes_proofs ------------------------
(***************************************************************************)
(* For every pool, gap limit, number of faults and of payments: what a     *)
(* sync leaves is complete and as spent as the rows say, and a note marked *)
(* spent stays spent.  Each theorem names the situations it leaves out.    *)
(***************************************************************************)
EXTENDS ShieldedNotes, SequenceTheorems, TLAPS

-----------------------------------------------------------------------------
(* The inductive invariant *)

Messages ==
  [type : {"notes"}, own : SUBSET Int, spent : SUBSET Int]
    \union [type : {"nullifiers", "spent"}, spent : SUBSET Int]
    \union [type : {"accepted", "refused"}]

States == [phase : {"idle", "syncing", "done", "error"}, born : Nat,
           list : SUBSET Int, listSpent : SUBSET Int]
Syncs == [pc : {"idle", "fetching", "reading", "asked", "checked", "answered"},
          from : Nat, upto : Nat, prior : SUBSET Int, priorSpent : SUBSET Int]
Endings == [pc : {"idle", "cursor", "window"}, upto : Nat]
Spends == [pc : {"idle", "fetching", "queued", "proving", "landed", "reported",
                 "refused", "done", "error"},
           upto : Nat, pick : SUBSET Int, change : Nat]

\* What TypeOK does not say of the records.
RecordsTyped ==
  /\ pool \in Seq(Int) /\ up \in Seq(Messages)
  /\ state \in States /\ sync \in Syncs /\ ending \in Endings /\ spend \in Spends
  /\ spend.pc \in {"fetching", "queued", "proving"} => Len(pool) < MaxPool

\* TypeOK in parts.
TablesTyped ==
  /\ Len(pool) <= MaxPool /\ stored \in 0..Len(pool) /\ cursor \in 0..stored
  /\ nullified \subseteq Ours /\ known \subseteq Ours
  /\ spentRows \subseteq known \cap nullified

FlagsTyped ==
  /\ revealed \in 0..(MaxAddress + 1) /\ fetch \in -2..Len(pool)
  /\ tail \in {"none", "refresh"} /\ add \in -1..MaxAddress

ListTyped ==
  /\ state.listSpent \subseteq state.list
  /\ (sync.pc = "idle" <=> state.phase # "syncing")

LEMMA Parts == RecordsTyped => (TypeOK <=> TablesTyped /\ FlagsTyped /\ ListTyped)
BY DEF TypeOK, TablesTyped, FlagsTyped, ListTyped, RecordsTyped, States, Syncs, Endings, Spends

Typed == TablesTyped /\ FlagsTyped /\ ListTyped /\ RecordsTyped

\* A sync carries every note of ours up to where it got: with what it read, then
\* with what the worker decoded.
SyncTrue ==
  /\ sync.pc \in {"reading", "asked", "checked", "answered"} =>
       sync.from <= sync.upto /\ sync.upto <= stored
  /\ sync.pc \in {"reading", "asked"} =>
       Ours \cap 1..sync.from \subseteq sync.prior /\ sync.prior \subseteq known
  /\ sync.pc = "reading" => sync.priorSpent \subseteq sync.prior \cap nullified
  /\ sync.pc = "checked" =>
       /\ Ours \cap 1..sync.upto \subseteq sync.prior /\ sync.prior \subseteq Ours
       /\ sync.priorSpent \subseteq sync.prior \cap nullified

EndingTrue ==
  ending.pc = "cursor" =>
    ending.upto <= stored /\ Ours \cap 1..ending.upto \subseteq known

SpendTrue ==
  spend.pick \subseteq Ours /\ (spend.pc = "landed" => spend.pick \subseteq nullified)

\* A message on its way says what was true, and only a sync that waits for it
\* has an answer there.
MessageTrue(m) ==
  /\ m.type = "notes" =>
       /\ sync.pc = "answered" /\ Ours \cap 1..sync.upto \subseteq m.own
       /\ m.own \subseteq Ours /\ m.spent \subseteq m.own \cap nullified
  /\ m.type \in {"nullifiers", "spent"} => m.spent \subseteq nullified

MessagesTrue == \A k \in 1..Len(up) : MessageTrue(up[k])

OneAnswer ==
  \A j, k \in 1..Len(up) : up[j].type = "notes" /\ up[k].type = "notes" => j = k

IInv == Typed /\ SyncTrue /\ EndingTrue /\ SpendTrue
     /\ MessagesTrue /\ OneAnswer /\ DecodedKnown

-----------------------------------------------------------------------------
(* What only grows *)

\* The pool is append-only, and of the tables nothing is deleted.
Grows ==
  /\ Ours \subseteq Ours' /\ Len(pool) <= Len(pool')
  /\ \A n \in 0..Len(pool) : Ours' \cap 1..n = Ours \cap 1..n
  /\ nullified \subseteq nullified' /\ known \subseteq known' /\ stored <= stored'

LEMMA Appended ==
  ASSUME RecordsTyped, NEW a \in Int, pool' = Append(pool, a)
  PROVE /\ pool' \in Seq(Int) /\ Len(pool') = Len(pool) + 1
        /\ Ours \subseteq Ours'
        /\ \A n \in 0..Len(pool) : Ours' \cap 1..n = Ours \cap 1..n
<1>1. /\ pool' \in Seq(Int) /\ Len(pool') = Len(pool) + 1 /\ Len(pool) \in Nat
      /\ \A i \in 1..Len(pool) : pool'[i] = pool[i]
  BY AppendProperties, LenProperties DEF RecordsTyped
<1>2. DOMAIN pool = 1..Len(pool) /\ DOMAIN pool' = 1..Len(pool')
  BY <1>1, LenProperties DEF RecordsTyped
<1> QED
  BY <1>1, <1>2 DEF Ours

LEMMA Kept ==
  ASSUME RecordsTyped, UNCHANGED pool
  PROVE /\ pool' \in Seq(Int) /\ Len(pool') = Len(pool) /\ Ours' = Ours
BY DEF RecordsTyped, Ours

LEMMA StepGrows == Typed /\ [Next]_vars => Grows
<1> SUFFICES ASSUME Typed, [Next]_vars
             PROVE  Grows
  OBVIOUS
<1> USE ShieldedAssumption
<1>1. RecordsTyped /\ Len(pool) \in Nat /\ stored \in 0..Len(pool)
  BY LenProperties DEF Typed, TablesTyped, RecordsTyped
<1>2. CASE UNCHANGED pool /\ UNCHANGED nullified /\ UNCHANGED known /\ UNCHANGED stored
  BY <1>1, <1>2, Kept DEF Grows
<1>3. ASSUME NEW a \in Payees, Receive(a)  PROVE Grows
  <2>1. a \in Int /\ pool' = Append(pool, a)
    BY <1>3 DEF Receive, Foreign
  <2> QED
    BY <1>1, <1>3, <2>1, Appended DEF Receive, Grows, tables
<1>4. CASE SpendLands
  <2>1. CASE UNCHANGED pool
    BY <1>1, <1>4, <2>1, Kept DEF SpendLands, Grows, tables
  <2>2. CASE pool' = Append(pool, 0)
    BY <1>1, <1>4, <2>2, Appended DEF SpendLands, Grows, tables
  <2> QED
    BY <1>4, <2>1, <2>2 DEF SpendLands
<1>5. CASE Download
  BY <1>1, <1>5, Kept DEF Download, Grows, chain, Typed, FlagsTyped
<1>6. ASSUME NEW i \in Notes, SpentElsewhere(i)  PROVE Grows
  BY <1>1, <1>6, Kept DEF SpentElsewhere, Grows, tables
<1>7. CASE Deliver
  BY <1>1, <1>7, Kept DEF Deliver, NotesCome, NullifiersCome, SpentCome, AcceptedComes,
    RefusedComes, Grows, chain, tables
<1>8. CASE [FetchSteps \/ SyncSteps \/ SettledSteps \/ SpendChecks \/ SpendReports \/ MarkList
            \/ CheckNullifiers \/ AddWrites \/ RefreshNotes \/ Prefetch \/ StartSync
            \/ RefreshSpent \/ StartSpend \/ AddReads \/ FetchFails \/ WorkerExits \/ Crash]_vars
  <2>1. \/ UNCHANGED <<chain, known, stored>>
        \/ Download
    BY <1>8 DEF FetchSteps, Count, FetchDone, SyncSteps, AskWorker, SyncChecks, SyncAnswers,
      SettledSteps, SetCursor, SyncWindow, SpendChecks, SpendReports, MarkList,
      CheckNullifiers, AddWrites, RefreshNotes, Prefetch, StartSync, RefreshSpent, StartSpend,
      AddReads, FetchFails, WorkerExits, Crash, chain, tables, vars
  <2> QED
    BY <2>1, <1>2, <1>5 DEF chain
<1> QED
  BY <1>3, <1>4, <1>5, <1>6, <1>7, <1>8 DEF Next, Steps, Environment, SpendSteps

-----------------------------------------------------------------------------
(* Messages *)

\* What a spend reports: the notes it found or made spent, and how it ended.
Reported(messages, notes) ==
  /\ messages \in Seq(Messages)
  /\ \A j \in 1..Len(messages) :
       /\ messages[j].type \in {"spent", "accepted", "refused"}
       /\ messages[j].type = "spent" => messages[j].spent = notes

LEMMA Reports ==
  ASSUME NEW notes \in SUBSET Int
  PROVE /\ Reported(SpentNotes(notes), notes)
        /\ Reported(Refused, notes)
        /\ Reported(SpentNotes(notes) \o Refused, notes)
        /\ Reported(SpentNotes(notes) \o <<[type |-> "accepted"]>>, notes)
<1>1. /\ [type |-> "spent", spent |-> notes] \in Messages
      /\ [type |-> "refused"] \in Messages /\ [type |-> "accepted"] \in Messages
  BY DEF Messages
<1>2. Reported(SpentNotes(notes), notes)
  BY <1>1 DEF SpentNotes, Reported
<1>3. Reported(Refused, notes) /\ Reported(<<[type |-> "accepted"]>>, notes)
  BY <1>1 DEF Refused, Reported
<1>4. ASSUME NEW s, NEW t, Reported(s, notes), Reported(t, notes)
      PROVE  Reported(s \o t, notes)
  BY <1>4, ConcatProperties, LenProperties DEF Reported
<1> QED
  BY <1>2, <1>3, <1>4

\* The queue after messages have gone into it.
LEMMA Queued ==
  ASSUME up \in Seq(Messages), NEW messages \in Seq(Messages), up' = up \o messages
  PROVE /\ up' \in Seq(Messages) /\ Len(up') = Len(up) + Len(messages)
        /\ \A k \in 1..Len(up') :
             \/ k \in 1..Len(up) /\ up'[k] = up[k]
             \/ \E j \in 1..Len(messages) : k = Len(up) + j /\ up'[k] = messages[j]
<1>1. Len(up) \in Nat /\ Len(messages) \in Nat
  BY LenProperties
<1>2. /\ up' \in Seq(Messages) /\ Len(up') = Len(up) + Len(messages)
      /\ \A k \in 1..Len(up) + Len(messages) :
           up'[k] = IF k <= Len(up) THEN up[k] ELSE messages[k - Len(up)]
  BY ConcatProperties
<1>3. ASSUME NEW k \in 1..Len(up'), ~(k \in 1..Len(up))
      PROVE  \E j \in 1..Len(messages) : k = Len(up) + j /\ up'[k] = messages[j]
  <2>1. k - Len(up) \in 1..Len(messages) /\ k = Len(up) + (k - Len(up))
    BY <1>1, <1>2, <1>3
  <2> QED
    BY <1>1, <1>2, <1>3, <2>1
<1> QED
  BY <1>1, <1>2, <1>3

LEMMA QueuedOne ==
  ASSUME up \in Seq(Messages), NEW m \in Messages, up' = Append(up, m)
  PROVE /\ up' \in Seq(Messages) /\ Len(up') = Len(up) + 1
        /\ \A k \in 1..Len(up') :
             \/ k \in 1..Len(up) /\ up'[k] = up[k]
             \/ k = Len(up) + 1 /\ up'[k] = m
BY AppendProperties, LenProperties

LEMMA Taken ==
  ASSUME up \in Seq(Messages), up # <<>>, up' = Tail(up)
  PROVE /\ up' \in Seq(Messages) /\ Len(up') = Len(up) - 1
        /\ \A k \in 1..Len(up') : k + 1 \in 1..Len(up) /\ up'[k] = up[k + 1]
        /\ Head(up) = up[1] /\ Head(up) \in Messages /\ 1 \in 1..Len(up)
BY HeadTailProperties, LenProperties

-----------------------------------------------------------------------------
(* Types *)

LEMMA InitTypes == Init => Typed
<1> SUFFICES ASSUME Init PROVE Typed
  OBVIOUS
<1> USE ShieldedAssumption
<1>1. PICK n \in 0..MaxPool : pool \in [1..n -> (Shared \union {Foreign}) \cap Payees]
  BY DEF Init
<1>2. pool \in Seq(Int) /\ Len(pool) = n
  <2>1. pool \in [1..n -> Int]
    <3>1. (Shared \union {Foreign}) \cap Payees \subseteq Int
      BY DEF Foreign
    <3> HIDE ShieldedAssumption
    <3> QED
      BY <1>1, <3>1
  <2>2. pool \in Seq(Int)
    <3>1. n \in Nat /\ Seq(Int) = UNION {[1..k -> Int] : k \in Nat}
      BY SeqDef
    <3>2. [1..n -> Int] \in {[1..k -> Int] : k \in Nat}
      BY <3>1
    <3> QED
      BY <2>1, <3>1, <3>2, Zenon
  <2> QED
    BY <2>1, <2>2, LenProperties
<1>3. up \in Seq(Messages)
  BY EmptySeq DEF Init
<1>4. TablesTyped /\ FlagsTyped /\ ListTyped
  BY <1>1, <1>2 DEF Init, TablesTyped, FlagsTyped, ListTyped, NoFetch, NoState, NoSync, NotAdding
<1> QED
  BY <1>1, <1>2, <1>3, <1>4 DEF Init, Typed, RecordsTyped, States, Syncs, Endings, Spends, NoState, NoSync, NoEnding, NoSpend, Spending

\* The records that steps write.
LEMMA Fails ==
  /\ SyncFails => /\ sync' \in Syncs /\ sync'.pc = "idle"
                  /\ state' \in States /\ state'.phase = "error"
                  /\ state'.list = {} /\ state'.listSpent = {}
  /\ spend \in Spends /\ SpendFails =>
       spend' \in Spends /\ spend'.pc = "error" /\ spend'.pick = {}
BY DEF SyncFails, SpendFails, NoState, NoSync, Spending, States, Syncs, Spends

LEMMA Begins ==
  ASSUME Typed, BeginSync
  PROVE /\ sync' \in Syncs /\ sync'.pc = "fetching" /\ state' \in States
        /\ state'.phase = "syncing" /\ state'.born = Len(pool)
        /\ state'.list = {} /\ state'.listSpent = {}
        /\ fetch' \in -2..Len(pool) /\ fetch' # NoFetch /\ UNCHANGED ending
        /\ fetch # NoFetch => fetch' = fetch
        /\ fetch = NoFetch => fetch' = Counting
<1>1. Len(pool) \in Nat
  BY LenProperties DEF Typed, RecordsTyped
<1>2. /\ fetch' = IF fetch = NoFetch THEN Counting ELSE fetch
      /\ fetch \in -2..Len(pool) /\ NoFetch = -1 /\ Counting = -2
  BY DEF BeginSync, Fetching, NoFetch, Counting, Typed, FlagsTyped
<1>3. fetch' \in -2..Len(pool) /\ fetch' # NoFetch
  BY <1>1, <1>2
<1>4. sync' \in Syncs /\ sync'.pc = "fetching"
  BY DEF BeginSync, NoSync, Syncs
<1>5. /\ state' \in States /\ state'.phase = "syncing" /\ state'.born = Len(pool)
      /\ state'.list = {} /\ state'.listSpent = {} /\ UNCHANGED ending
  BY <1>1 DEF BeginSync, States
<1> QED
  BY <1>2, <1>3, <1>4, <1>5

LEMMA Empty ==
  /\ NoSync \in Syncs /\ NoSync.pc = "idle" /\ NoEnding \in Endings /\ NoEnding.pc = "idle"
  /\ NoState \in States /\ NoState.phase = "idle" /\ NoState.list = {} /\ NoState.listSpent = {}
  /\ NoSpend \in Spends /\ NoSpend.pc = "idle" /\ NoSpend.pick = {}
  /\ [NoSpend EXCEPT !.pc = "fetching"] \in Spends
  /\ [NoSpend EXCEPT !.pc = "fetching"].pc = "fetching"
  /\ [NoSpend EXCEPT !.pc = "fetching"].pick = {}
BY DEF NoSync, NoEnding, NoState, NoSpend, Spending, States, Syncs, Endings, Spends

LEMMA SpendingTyped ==
  ASSUME NEW pc \in {"proving", "landed", "reported", "refused"}, NEW pick \in SUBSET Int,
         NEW change \in Nat
  PROVE /\ Spending(pc, pick, change) \in Spends /\ Spending(pc, pick, change).pc = pc
        /\ Spending(pc, pick, change).pick = pick
BY DEF Spending, Spends

LEMMA Unmoved ==
  ASSUME RecordsTyped, UNCHANGED pool
  PROVE  Ours' = Ours /\ Len(pool') = Len(pool) /\ Len(pool) \in Nat /\ Ours \subseteq Int
BY Kept, LenProperties DEF RecordsTyped, Ours

LEMMA StepTypes == IInv /\ [Next]_vars => Typed'
<1> SUFFICES ASSUME IInv, [Next]_vars
             PROVE  Typed'
  OBVIOUS
<1> USE ShieldedAssumption
<1>t. TablesTyped /\ FlagsTyped /\ ListTyped /\ RecordsTyped /\ Len(pool) \in Nat /\ Ours \subseteq Int
  BY LenProperties DEF IInv, Typed, RecordsTyped, Ours
<1>1. CASE Count \/ Download \/ Prefetch
  <2>1. UNCHANGED <<pool, up, nullified, known, spentRows, cursor, revealed, state, sync, ending, spend, tail, add>>
    BY <1>1 DEF Count, Download, Prefetch, chain, tables, syncing, spending
  <2>2. fetch' \in -2..Len(pool) /\ stored' \in stored..Len(pool)
    <3>1. CASE Count
      BY <1>t, <3>1 DEF Count, tables, TablesTyped
    <3>2. CASE Download
      BY <1>t, <3>2 DEF Download, TablesTyped, FlagsTyped
    <3>3. CASE Prefetch
      BY <1>t, <3>3 DEF Prefetch, Fetching, NoFetch, Counting, tables, TablesTyped
    <3> QED
      BY <1>1, <3>1, <3>2, <3>3
  <2> QED
    BY <1>t, <2>1, <2>2, Unmoved DEF Typed, TablesTyped, FlagsTyped, ListTyped, RecordsTyped
<1>2. CASE FetchDone
  <2>1. UNCHANGED <<pool, up, nullified, stored, known, spentRows, cursor, revealed, state, ending, tail, add>>
    BY <1>2 DEF FetchDone, chain, tables
  <2>2. /\ sync' \in Syncs /\ (sync'.pc = "idle" <=> sync.pc = "idle")
        /\ fetch' = -1
    BY <1>t, <1>2 DEF FetchDone, TablesTyped, RecordsTyped, Syncs, NoFetch
  <2>3. spend' \in Spends /\ (spend'.pc \in {"fetching", "queued", "proving"} => Len(pool) < MaxPool)
    BY <1>t, <1>2 DEF FetchDone, TablesTyped, RecordsTyped, Spends
  <2> QED
    BY <1>t, <2>1, <2>2, <2>3, Unmoved DEF Typed, TablesTyped, FlagsTyped, ListTyped, RecordsTyped
<1>3. CASE AskWorker
  <2>1. UNCHANGED <<pool, up, nullified, stored, known, spentRows, cursor, revealed, fetch, spend, tail, add>>
    BY <1>3 DEF AskWorker, chain, tables, spending
  <2>2. CASE sync.upto = sync.from
    <3>1. Settle(sync.prior, sync.priorSpent, "window") /\ sync.pc = "reading"
      BY <1>3, <2>2 DEF AskWorker
    <3>2. sync.priorSpent \subseteq sync.prior
      BY <3>1 DEF IInv, SyncTrue
    <3>3. state' \in States /\ sync' \in Syncs /\ ending' \in Endings /\ ListTyped'
      BY <1>t, <3>1, <3>2, Empty DEF Settle, ListTyped, RecordsTyped, States, Syncs, Endings
    <3> QED
      BY <1>t, <2>1, <3>3, Unmoved DEF Typed, TablesTyped, FlagsTyped, RecordsTyped
  <2>3. CASE sync.upto # sync.from
    <3>1. sync' \in Syncs /\ sync'.pc = "asked" /\ sync.pc = "reading" /\ UNCHANGED <<state, ending>>
      BY <1>t, <1>3, <2>3 DEF AskWorker, RecordsTyped, Syncs
    <3> QED
      BY <1>t, <2>1, <3>1, Unmoved DEF Typed, TablesTyped, FlagsTyped, ListTyped, RecordsTyped
  <2> QED
    BY <2>2, <2>3
<1>4. CASE SyncChecks
  <2>1. /\ UNCHANGED <<pool, up, nullified, stored, known, spentRows, cursor, revealed, fetch, state,
                      ending, spend, tail, add>>
        /\ sync.pc = "asked"
    BY <1>4 DEF SyncChecks, chain, tables, spending
  <2>2. sync' \in Syncs /\ sync'.pc = "checked"
    BY <1>t, <1>4 DEF SyncChecks, Decoded, RecordsTyped, Syncs
  <2> QED
    BY <1>t, <2>1, <2>2, Unmoved DEF Typed, TablesTyped, FlagsTyped, ListTyped, RecordsTyped
<1>5. CASE SyncAnswers
  <2>1. [type |-> "notes", own |-> sync.prior, spent |-> sync.priorSpent] \in Messages
    BY <1>t DEF RecordsTyped, Syncs, Messages
  <2>2. up' \in Seq(Messages)
    BY <1>t, <1>5, <2>1, QueuedOne DEF SyncAnswers, RecordsTyped
  <2>3. /\ UNCHANGED <<pool, nullified, stored, known, spentRows, cursor, revealed, fetch, state, ending,
                      spend, tail, add>>
        /\ sync.pc = "checked"
    BY <1>5 DEF SyncAnswers, chain, tables, spending
  <2>4. sync' \in Syncs /\ sync'.pc = "answered"
    BY <1>t, <1>5 DEF SyncAnswers, RecordsTyped, Syncs
  <2> QED
    BY <1>t, <2>2, <2>3, <2>4, Unmoved DEF Typed, TablesTyped, FlagsTyped, ListTyped, RecordsTyped
<1>6. CASE SetCursor
  <2>1. /\ UNCHANGED <<pool, up, nullified, stored, known, spentRows, revealed, fetch, state, sync, spend,
                      tail, add>>
        /\ cursor' = ending.upto /\ ending.upto <= stored
    BY <1>6 DEF SetCursor, IInv, EndingTrue, chain, spending
  <2>2. ending' \in Endings /\ ending.upto \in Nat
    BY <1>t, <1>6 DEF SetCursor, RecordsTyped, Endings
  <2> QED
    BY <1>t, <2>1, <2>2, Unmoved DEF Typed, TablesTyped, FlagsTyped, ListTyped, RecordsTyped
<1>7. CASE SyncWindow \/ AddWrites
  <2>1. UNCHANGED <<pool, up, stored, nullified, known, spentRows, cursor, fetch, state, sync, spend, tail>>
    BY <1>7 DEF SyncWindow, AddWrites, chain, syncing, spending
  <2>2. revealed' \in 0..(MaxAddress + 1)
    BY <1>7 DEF SyncWindow, AddWrites, Windows
  <2>3. ending' \in Endings
    BY <1>t, <1>7, Empty DEF SyncWindow, AddWrites, syncing, RecordsTyped
  <2>4. add' \in -1..MaxAddress
    <3>1. UNCHANGED add \/ add' = NotAdding
      BY <1>7 DEF SyncWindow, AddWrites
    <3> QED
      BY <1>t, <3>1 DEF NotAdding, FlagsTyped
  <2>5. TablesTyped' /\ FlagsTyped'
    BY <1>t, <2>1, <2>2, <2>4, Unmoved DEF TablesTyped, FlagsTyped
  <2>6. ListTyped' /\ RecordsTyped'
    BY <1>t, <2>1, <2>3 DEF ListTyped, RecordsTyped
  <2> QED
    BY <2>5, <2>6 DEF Typed
<1>8. CASE SpendChecks
  <2>1. Ours \cap 1..spend.upto \cap nullified \in SUBSET Int
    BY <1>t
  <2>2. up' \in Seq(Messages)
    <3> DEFINE notes == Ours \cap 1..spend.upto \cap nullified
    <3>1. notes \in SUBSET Int
      BY <1>t
    <3>2. Report(SpentNotes(notes)) \/ Report(SpentNotes(notes) \o Refused)
      BY <1>8 DEF SpendChecks
    <3> HIDE DEF notes
    <3>3. Reported(SpentNotes(notes), notes) /\ Reported(SpentNotes(notes) \o Refused, notes)
      BY <3>1, Reports
    <3>4. PICK messages \in Seq(Messages) : up' = up \o messages
      BY <3>2, <3>3 DEF Report, Reported
    <3> QED
      BY <1>t, <3>4, Queued DEF RecordsTyped
  <2>3. /\ UNCHANGED <<pool, nullified, stored, known, spentRows, cursor, revealed, fetch, state, sync,
                      ending, tail, add>>
        /\ spend.pc = "queued"
    BY <1>8 DEF SpendChecks, chain, tables, syncing
  <2>4. spend.change \in Nat
    BY <1>t DEF RecordsTyped, Spends
  <2>5. spend' \in Spends
    <3>1. CASE \E i \in Ours : spend' = Spending("proving", {i}, spend.change)
      <4>1. PICK i \in Ours : spend' = Spending("proving", {i}, spend.change)
        BY <3>1
      <4>2. {i} \in SUBSET Int
        BY <1>t
      <4> QED
        BY <2>4, <4>1, <4>2, SpendingTyped
    <3>2. CASE spend' = Spending("refused", {}, spend.change)
      BY <2>4, <3>2, SpendingTyped
    <3> QED
      BY <1>8, <3>1, <3>2 DEF SpendChecks
  <2> QED
    BY <1>t, <2>2, <2>3, <2>5, Unmoved DEF Typed, TablesTyped, FlagsTyped, ListTyped, RecordsTyped
<1>9. CASE SpendLands
  <2>1. UNCHANGED <<stored, known, spentRows, cursor, revealed, fetch, state, sync, ending, tail, add>>
    BY <1>9 DEF SpendLands, tables, syncing
  <2>2. Len(pool) < MaxPool /\ spend.pick \subseteq Ours /\ spend.change \in Nat
    BY <1>t, <1>9 DEF IInv, RecordsTyped, Spends, SpendTrue, SpendLands
  <2>3. CASE spend.pick \cap nullified = {}
    <3>1. /\ pool' = Append(pool, 0) /\ 0 \in Int /\ nullified' = nullified \union spend.pick
          /\ spend' = Spending("landed", spend.pick, Len(pool) + 1) /\ UNCHANGED up
      BY <1>9, <2>3 DEF SpendLands
    <3>2. pool' \in Seq(Int) /\ Len(pool') = Len(pool) + 1 /\ Ours \subseteq Ours'
      BY <1>t, <3>1, Appended
    <3>3. spend' \in Spends /\ spend'.pc = "landed"
      BY <1>t, <2>2, <3>1, SpendingTyped
    <3>4. TablesTyped'
      <4>1. Len(pool') <= MaxPool /\ stored' \in 0..Len(pool') /\ cursor' \in 0..stored'
        BY <1>t, <2>1, <2>2, <3>2 DEF TablesTyped
      <4>2. nullified' \subseteq Ours' /\ known' \subseteq Ours'
        BY <1>t, <2>1, <2>2, <3>1, <3>2 DEF TablesTyped
      <4>3. spentRows' \subseteq known' \cap nullified'
        BY <1>t, <2>1, <3>1 DEF TablesTyped
      <4> QED
        BY <4>1, <4>2, <4>3 DEF TablesTyped
    <3>6. FlagsTyped'
      BY <1>t, <2>1, <3>2 DEF FlagsTyped, TablesTyped
    <3>5. ListTyped' /\ RecordsTyped'
      BY <1>t, <2>1, <3>1, <3>2, <3>3 DEF ListTyped, RecordsTyped
    <3> QED
      BY <3>4, <3>5, <3>6 DEF Typed
  <2>4. CASE spend.pick \cap nullified # {}
    <3>1. up' \in Seq(Messages)
      BY <1>t, <1>9, <2>4, Reports, Queued DEF SpendLands, Report, Reported, RecordsTyped
    <3>2. UNCHANGED <<pool, nullified>> /\ spend' = Spending("refused", {}, spend.change)
      BY <1>9, <2>4 DEF SpendLands
    <3>3. spend' \in Spends /\ spend'.pc = "refused"
      BY <2>2, <3>2, SpendingTyped
    <3> QED
      BY <1>t, <2>1, <3>1, <3>2, <3>3, Unmoved DEF Typed, TablesTyped, FlagsTyped, ListTyped, RecordsTyped
  <2> QED
    BY <2>3, <2>4
<1>10. CASE SpendReports
  <2>1. spend.pick \in SUBSET Int
    BY <1>t DEF RecordsTyped, States, Syncs, Endings, Spends
  <2>2. up' \in Seq(Messages)
    BY <1>t, <1>10, <2>1, Reports, Queued DEF SpendReports, Report, Reported, RecordsTyped, States,
      Syncs, Endings, Spends
  <2> QED
    BY <1>t, <1>10, <2>2, Unmoved DEF SpendReports, Spending, Typed, TablesTyped, FlagsTyped,
      ListTyped, RecordsTyped, States, Syncs, Endings, Spends, chain, tables, syncing
<1>11. CASE Deliver
  <2>1. up' \in Seq(Messages) /\ Head(up) \in Messages /\ MessageTrue(Head(up))
    BY <1>t, <1>11, Taken DEF Deliver, IInv, MessagesTrue, RecordsTyped
  <2>2. UNCHANGED pool
    BY <1>11 DEF Deliver, NotesCome, NullifiersCome, SpentCome, AcceptedComes, RefusedComes, chain
  <2>3. CASE Head(up).type = "notes" /\ NotesCome(Head(up))
    <3>1. Head(up).own \subseteq Ours /\ Head(up).spent \subseteq Head(up).own \cap nullified
      BY <2>1, <2>3 DEF MessageTrue
    <3> QED
      BY <1>t, <2>1, <2>2, <2>3, <3>1, Unmoved DEF NotesCome, Settle, NoSync, Typed, TablesTyped,
        FlagsTyped, ListTyped, RecordsTyped, States, Syncs, Endings, Spends, chain, spending
  <2>4. CASE \/ Head(up).type = "nullifiers" /\ NullifiersCome(Head(up))
             \/ Head(up).type = "spent" /\ SpentCome(Head(up))
    <3>1. Head(up).spent \subseteq nullified
      BY <2>1, <2>4 DEF MessageTrue
    <3> QED
      BY <1>t, <2>1, <2>2, <2>4, <3>1, Unmoved DEF NullifiersCome, SpentCome, MarkRows, Typed, TablesTyped, FlagsTyped, ListTyped, RecordsTyped, chain, syncing, spending
  <2>5. CASE AcceptedComes \/ RefusedComes
    <3>1. UNCHANGED <<nullified, stored, known, spentRows, cursor, revealed, fetch, state, sync, ending, add>>
      BY <2>5 DEF AcceptedComes, RefusedComes, chain, tables, syncing
    <3>2. tail' \in {"none", "refresh"}
      BY <1>t, <2>5 DEF AcceptedComes, RefusedComes, FlagsTyped
    <3>3. spend' \in Spends /\ spend'.pc \in {"done", "error"}
      <4>1. CASE AcceptedComes
        BY <1>t, <4>1 DEF AcceptedComes, RecordsTyped, Spends
      <4>2. CASE RefusedComes
        BY <1>t, <4>2, Fails DEF RefusedComes, RecordsTyped
      <4> QED
        BY <2>5, <4>1, <4>2
    <3> QED
      BY <1>t, <2>1, <2>2, <3>1, <3>2, <3>3, Unmoved DEF Typed, TablesTyped, FlagsTyped, ListTyped,
        RecordsTyped
  <2> QED
    BY <1>11, <2>3, <2>4, <2>5 DEF Deliver
<1>12. CASE MarkList
  BY <1>t, <1>12, Unmoved DEF MarkList, Typed, TablesTyped, FlagsTyped, ListTyped, RecordsTyped,
    States, Syncs, Endings, Spends, chain, tables, spending
<1>13. CASE CheckNullifiers
  <2>1. nullified \in SUBSET Int
    BY <1>t DEF Typed, TablesTyped, RecordsTyped
  <2>2. [type |-> "nullifiers", spent |-> refresh \cap nullified] \in Messages
    BY <2>1 DEF Messages
  <2>3. up' \in Seq(Messages)
    BY <1>t, <1>13, <2>2, QueuedOne DEF CheckNullifiers, RecordsTyped
  <2> QED
    BY <1>t, <1>13, <2>3, Unmoved DEF CheckNullifiers, Typed, TablesTyped, FlagsTyped, ListTyped, RecordsTyped, chain, tables, syncing,
      spending
<1>14. CASE RefreshNotes \/ StartSync
  <2>1. UNCHANGED <<pool, up, nullified, stored, known, spentRows, cursor, revealed, spend, add>>
    BY <1>14 DEF RefreshNotes, StartSync, chain, tables, spending
  <2>2. tail' \in {"none", "refresh"}
    BY <1>t, <1>14 DEF RefreshNotes, StartSync, spending, FlagsTyped
  <2>3. UNCHANGED <<fetch, state, sync, ending>> \/ BeginSync
    BY <1>14 DEF RefreshNotes, StartSync, syncing
  <2>4. CASE UNCHANGED <<fetch, state, sync, ending>>
    BY <1>t, <2>1, <2>2, <2>4, Unmoved DEF Typed, TablesTyped, FlagsTyped, ListTyped, RecordsTyped
  <2>5. CASE BeginSync
    BY <1>t, <2>1, <2>2, <2>5, Begins, Unmoved DEF Typed, TablesTyped, FlagsTyped, ListTyped,
      RecordsTyped
  <2> QED
    BY <2>3, <2>4, <2>5
<1>15. CASE RefreshSpent \/ AddReads
  <2>a. TablesTyped'
    BY <1>t, <1>15, Unmoved DEF RefreshSpent, AddReads, TablesTyped, RecordsTyped, chain, tables,
      syncing, spending
  <2>b. FlagsTyped'
    BY <1>t, <1>15, Unmoved DEF RefreshSpent, AddReads, FlagsTyped, TablesTyped, chain, tables,
      syncing, spending
  <2>c. ListTyped'
    BY <1>t, <1>15, Unmoved DEF RefreshSpent, AddReads, ListTyped, TablesTyped, RecordsTyped, chain,
      tables, syncing, spending
  <2>d. RecordsTyped'
    BY <1>t, <1>15, Unmoved DEF RefreshSpent, AddReads, TablesTyped, FlagsTyped, RecordsTyped,
      chain, tables, syncing, spending
  <2> QED
    BY <2>a, <2>b, <2>c, <2>d DEF Typed
<1>16. CASE StartSpend
  <2>1. /\ UNCHANGED <<pool, up, nullified, stored, known, spentRows, cursor, state, sync, ending, tail, add>>
        /\ Len(pool) < MaxPool
    <3>1. /\ UNCHANGED <<pool, up, nullified, stored, known, spentRows, cursor, state, sync, ending, tail, add>>
          /\ Room
      BY <1>16 DEF StartSpend, chain, syncing
    <3>2. Len(pool) < MaxPool
      BY <1>t, <3>1 DEF Room
    <3> QED
      BY <3>1, <3>2
  <2>2. revealed' \in 0..(MaxAddress + 1) /\ fetch' \in -2..Len(pool)
    <3>1. revealed' \in Windows(revealed) /\ Fetching
      BY <1>16 DEF StartSpend
    <3>2. fetch' = IF fetch = NoFetch THEN -2 ELSE fetch
      BY <3>1 DEF Fetching, Counting
    <3> QED
      BY <1>t, <3>1, <3>2 DEF Windows, FlagsTyped
  <2>3. spend' \in Spends
    BY <1>16, Empty DEF StartSpend
  <2> QED
    BY <1>t, <2>1, <2>2, <2>3, Unmoved DEF Typed, TablesTyped, FlagsTyped, ListTyped, RecordsTyped
<1>17. CASE FetchFails
  <2>1. /\ UNCHANGED <<pool, up, nullified, stored, known, spentRows, cursor, revealed, ending, tail, add>>
        /\ fetch' = NoFetch
    BY <1>17 DEF FetchFails, chain, tables
  <2>2. SyncFails \/ UNCHANGED <<sync, state>>
    BY <1>17 DEF FetchFails
  <2>3. SpendFails \/ UNCHANGED spend
    BY <1>17 DEF FetchFails
  <2> QED
    BY <1>t, <2>1, <2>2, <2>3, Fails, Unmoved DEF NoFetch, Typed, TablesTyped, FlagsTyped,
      ListTyped, RecordsTyped
<1>18. CASE WorkerExits
  <2>1. /\ UNCHANGED <<pool, nullified, stored, known, spentRows, cursor, revealed, ending, tail, add>>
        /\ fetch' = NoFetch /\ up' \in Seq(Messages)
    BY <1>18, EmptySeq DEF WorkerExits, chain, tables
  <2>2. SyncFails \/ UNCHANGED <<sync, state>>
    BY <1>18 DEF WorkerExits
  <2>3. SpendFails \/ UNCHANGED spend
    BY <1>18 DEF WorkerExits
  <2> QED
    BY <1>t, <2>1, <2>2, <2>3, Fails, Unmoved DEF NoFetch, Typed, TablesTyped, FlagsTyped,
      ListTyped, RecordsTyped
<1>19. CASE Crash
  <2>1. /\ UNCHANGED <<pool, nullified, stored, known, spentRows, cursor, revealed>>
        /\ fetch' = NoFetch /\ up' \in Seq(Messages)
    BY <1>19, EmptySeq DEF Crash, chain, tables
  <2>2. /\ state' = NoState /\ sync' = NoSync /\ ending' = NoEnding
        /\ spend' = NoSpend /\ tail' = "none" /\ add' = NotAdding
    BY <1>19 DEF Crash
  <2> QED
    BY <1>t, <2>1, <2>2, Empty, Unmoved DEF NoFetch, NotAdding, Typed, TablesTyped, FlagsTyped,
      ListTyped, RecordsTyped
<1>20. ASSUME NEW a \in Payees, Receive(a)
       PROVE  Typed'
  <2>1. a \in Int /\ pool' = Append(pool, a)
    BY <1>20 DEF Receive, Foreign
  <2>2. pool' \in Seq(Int) /\ Len(pool') = Len(pool) + 1 /\ Ours \subseteq Ours'
    BY <1>t, <2>1, Appended
  <2> QED
    <3>a. TablesTyped'
      BY <1>t, <1>20, <2>2 DEF Receive, Room, TablesTyped, RecordsTyped, tables, syncing, spending
    <3>b. FlagsTyped'
      BY <1>t, <1>20, <2>2 DEF Receive, Room, FlagsTyped, TablesTyped, tables, syncing, spending
    <3>c. ListTyped'
      BY <1>t, <1>20, <2>2 DEF Receive, Room, ListTyped, TablesTyped, RecordsTyped, tables, syncing,
        spending
    <3>d. RecordsTyped'
      BY <1>t, <1>20, <2>2 DEF Receive, Room, TablesTyped, FlagsTyped, RecordsTyped, tables,
        syncing, spending
    <3> QED
      BY <3>a, <3>b, <3>c, <3>d DEF Typed
<1>21. ASSUME NEW i \in Notes, SpentElsewhere(i)
       PROVE  Typed'
  BY <1>t, <1>21, Unmoved DEF SpentElsewhere, Typed, TablesTyped, FlagsTyped, ListTyped, RecordsTyped, tables, syncing, spending
<1>22. CASE UNCHANGED vars
  BY <1>t, <1>22, Unmoved DEF vars, Typed, TablesTyped, FlagsTyped, ListTyped, RecordsTyped, chain, tables, syncing, spending
<1> QED
  BY <1>1, <1>2, <1>3, <1>4, <1>5, <1>6, <1>7, <1>8, <1>9, <1>10, <1>11, <1>12, <1>13, <1>14, <1>15,
    <1>16, <1>17, <1>18, <1>19, <1>20, <1>21, <1>22 DEF Next, Steps, Environment, FetchSteps,
    SyncSteps, SettledSteps, SpendSteps
-----------------------------------------------------------------------------
(* What the records say stays true *)

LEMMA Bounds ==
  ASSUME Typed
  PROVE /\ Len(pool) \in Nat /\ stored \in 0..Len(pool) /\ cursor \in 0..stored
        /\ known \subseteq Ours /\ nullified \subseteq Ours /\ spentRows \subseteq known
        /\ spentRows \subseteq nullified /\ Ours \subseteq 1..Len(pool) /\ fetch \in -2..Len(pool)
        /\ sync \in Syncs /\ ending \in Endings /\ spend \in Spends /\ up \in Seq(Messages)
BY LenProperties DEF Typed, TablesTyped, FlagsTyped, RecordsTyped, Ours

\* The steps that change what a sync has read.
LEMMA SyncCases ==
  ASSUME [Next]_vars
  PROVE \/ UNCHANGED sync
        \/ sync'.pc \in {"idle", "fetching"}
        \/ FetchDone \/ AskWorker \/ SyncChecks \/ SyncAnswers
<1>1. CASE StartSync \/ RefreshNotes
  BY <1>1 DEF StartSync, RefreshNotes, BeginSync, NoSync, syncing
<1>2. CASE FetchFails \/ WorkerExits \/ Crash
  BY <1>2 DEF FetchFails, WorkerExits, Crash, SyncFails, NoSync
<1>3. CASE Deliver
  BY <1>3 DEF Deliver, NotesCome, Settle, NullifiersCome, SpentCome, AcceptedComes, RefusedComes,
    NoSync, syncing
<1>4. CASE Count \/ Download \/ SettledSteps \/ SpendSteps \/ MarkList \/ CheckNullifiers
           \/ AddWrites \/ Prefetch \/ RefreshSpent \/ StartSpend \/ AddReads
  BY <1>4 DEF Count, Download, SettledSteps, SetCursor, SyncWindow, SpendSteps, SpendChecks,
    SpendLands, SpendReports, MarkList, CheckNullifiers, AddWrites, Prefetch, RefreshSpent,
    StartSpend, AddReads, syncing
<1>5. CASE (\E a \in Payees : Receive(a)) \/ (\E i \in Notes : SpentElsewhere(i)) \/ UNCHANGED vars
  BY <1>5 DEF Receive, SpentElsewhere, vars, syncing
<1> QED
  BY <1>1, <1>2, <1>3, <1>4, <1>5 DEF Next, Steps, Environment, FetchSteps, SyncSteps

LEMMA StepSync == IInv /\ [Next]_vars => SyncTrue'
<1> SUFFICES ASSUME IInv, [Next]_vars
             PROVE  SyncTrue'
  OBVIOUS
<1>t. Typed /\ SyncTrue /\ DecodedKnown /\ Grows
  BY StepGrows DEF IInv
<1>b. /\ Len(pool) \in Nat /\ stored \in 0..Len(pool) /\ cursor \in 0..stored /\ sync \in Syncs
      /\ known \subseteq Ours /\ spentRows \subseteq known /\ spentRows \subseteq nullified
  BY <1>t, Bounds
<1>s. sync.from \in Nat /\ sync.upto \in Nat
  BY <1>b DEF Syncs
<1>1. CASE UNCHANGED sync
  <2>1. sync.pc \in {"reading", "asked", "checked", "answered"} =>
          /\ sync.from <= sync.upto /\ sync.upto <= stored'
          /\ Ours' \cap 1..sync.from = Ours \cap 1..sync.from
          /\ Ours' \cap 1..sync.upto = Ours \cap 1..sync.upto
    <3>1. SUFFICES ASSUME sync.pc \in {"reading", "asked", "checked", "answered"}
                   PROVE  /\ sync.from <= sync.upto /\ sync.upto <= stored'
                          /\ Ours' \cap 1..sync.from = Ours \cap 1..sync.from
                          /\ Ours' \cap 1..sync.upto = Ours \cap 1..sync.upto
      OBVIOUS
    <3>2. sync.from <= sync.upto /\ sync.upto <= stored
      BY <1>t, <3>1 DEF SyncTrue
    <3>3. sync.from \in 0..Len(pool) /\ sync.upto \in 0..Len(pool)
      BY <1>b, <1>s, <3>2
    <3>4. stored <= stored' /\ stored' \in Int
      BY <1>t, StepTypes, Bounds DEF Grows, Typed, TablesTyped, RecordsTyped
    <3> QED
      BY <1>t, <1>b, <1>s, <3>2, <3>3, <3>4 DEF Grows
  <2>2. known \subseteq known' /\ nullified \subseteq nullified' /\ Ours \subseteq Ours'
    BY <1>t DEF Grows
  <2> QED
    BY <1>t, <1>1, <2>1, <2>2 DEF SyncTrue
<1>2. CASE sync'.pc \in {"idle", "fetching"}
  BY <1>2 DEF SyncTrue
<1>3. CASE FetchDone
  <2>1. CASE sync.pc = "fetching"
    <3>1. /\ sync'.pc = "reading" /\ sync'.from = cursor /\ sync'.upto = stored
          /\ sync'.prior = known /\ sync'.priorSpent = spentRows
          /\ UNCHANGED <<known, stored, nullified>> /\ Ours' = Ours
      BY <1>3, <2>1 DEF FetchDone, chain, tables, Ours
    <3> QED
      BY <1>t, <1>b, <3>1 DEF SyncTrue, DecodedKnown
  <2> QED
    BY <1>1, <1>3, <2>1 DEF FetchDone
<1>4. CASE AskWorker
  <2>1. CASE sync.upto = sync.from
    BY <1>4, <2>1, <1>2 DEF AskWorker, Settle, NoSync
  <2>2. CASE sync.upto # sync.from
    <3>1. /\ sync.pc = "reading" /\ sync'.pc = "asked" /\ sync'.from = sync.from
          /\ sync'.upto = sync.upto /\ sync'.prior = sync.prior
          /\ UNCHANGED <<known, stored>> /\ Ours' = Ours
      BY <1>4, <2>2 DEF AskWorker, chain, tables, Ours
    <3> QED
      BY <1>t, <3>1 DEF SyncTrue
  <2> QED
    BY <2>1, <2>2
<1>5. CASE SyncChecks
  <2>1. /\ sync.pc = "asked" /\ sync'.pc = "checked" /\ sync'.from = 0 /\ sync'.upto = sync.upto
        /\ sync'.prior = Decoded /\ sync'.priorSpent = Decoded \cap nullified
        /\ UNCHANGED <<stored, nullified>> /\ Ours' = Ours
    BY <1>5 DEF SyncChecks, chain, tables, Ours
  <2>2. Decoded \subseteq Ours /\ Ours \cap 1..sync.upto \subseteq Decoded
    BY <1>t, <1>s, <2>1 DEF Decoded, SyncTrue
  <2> QED
    BY <1>t, <1>s, <2>1, <2>2 DEF SyncTrue
<1>6. CASE SyncAnswers
  BY <1>t, <1>s, <1>6 DEF SyncAnswers, SyncTrue, tables
<1> QED
  BY <1>1, <1>2, <1>3, <1>4, <1>5, <1>6, SyncCases

\* The answer of a sync is delivered to the sync that waits for it.
LEMMA AnswerIsTrue ==
  ASSUME IInv, Deliver
  PROVE /\ MessageTrue(Head(up))
        /\ Head(up).type = "notes" => sync.upto <= stored
BY Bounds, Taken DEF IInv, Deliver, MessagesTrue, MessageTrue, SyncTrue

LEMMA StepEnding == IInv /\ [Next]_vars => EndingTrue'
<1> SUFFICES ASSUME IInv, [Next]_vars
             PROVE  EndingTrue'
  OBVIOUS
<1>t. Typed /\ EndingTrue /\ Grows
  BY StepGrows DEF IInv
<1>b. Len(pool) \in Nat /\ stored \in 0..Len(pool) /\ ending \in Endings /\ sync \in Syncs
  BY <1>t, Bounds
<1>1. CASE UNCHANGED ending
  <2>1. ending.pc = "cursor" =>
          ending.upto <= stored' /\ Ours' \cap 1..ending.upto = Ours \cap 1..ending.upto
    <3>1. SUFFICES ASSUME ending.pc = "cursor"
                   PROVE  ending.upto <= stored' /\ Ours' \cap 1..ending.upto = Ours \cap 1..ending.upto
      OBVIOUS
    <3>2. ending.upto <= stored /\ ending.upto \in Nat
      BY <1>t, <1>b, <3>1 DEF EndingTrue, Endings
    <3>3. stored <= stored' /\ stored' \in Int
      BY <1>t, StepTypes, Bounds DEF Grows, Typed, TablesTyped, RecordsTyped
    <3>4. ending.upto \in 0..Len(pool)
      BY <1>b, <3>2
    <3> QED
      BY <1>t, <1>b, <3>2, <3>3, <3>4 DEF Grows
  <2> QED
    BY <1>t, <1>1, <2>1 DEF EndingTrue, Grows
<1>2. CASE ending'.pc # "cursor"
  BY <1>2 DEF EndingTrue
<1>3. CASE Deliver
  <2>1. CASE Head(up).type = "notes" /\ NotesCome(Head(up))
    <3>1. /\ ending'.upto = sync.upto /\ known' = known \union Head(up).own
          /\ UNCHANGED stored /\ Ours' = Ours
      BY <2>1 DEF NotesCome, Settle, chain, Ours
    <3>2. sync.upto <= stored /\ Ours \cap 1..sync.upto \subseteq Head(up).own
      BY <1>3, <2>1, AnswerIsTrue DEF MessageTrue
    <3> QED
      BY <3>1, <3>2 DEF EndingTrue
  <2>2. CASE \/ NullifiersCome(Head(up)) \/ SpentCome(Head(up)) \/ AcceptedComes \/ RefusedComes
    BY <1>1, <2>2 DEF NullifiersCome, SpentCome, AcceptedComes, RefusedComes, syncing
  <2> QED
    BY <1>3, <2>1, <2>2 DEF Deliver
<1>4. CASE AskWorker \/ SettledSteps \/ Crash
  <2>1. UNCHANGED ending \/ ending'.pc # "cursor"
    <3>1. CASE AskWorker
      BY <3>1 DEF AskWorker, Settle
    <3>2. CASE SetCursor
      BY <3>2 DEF SetCursor
    <3>3. CASE SyncWindow \/ Crash
      <4>1. ending' = NoEnding
        BY <3>3 DEF SyncWindow, Crash
      <4> QED
        BY <4>1 DEF NoEnding
    <3> QED
      BY <1>4, <3>1, <3>2, <3>3 DEF SettledSteps
  <2> QED
    BY <1>1, <1>2, <2>1
<1>5. CASE FetchSteps \/ SyncChecks \/ SyncAnswers \/ SpendSteps \/ MarkList \/ CheckNullifiers
           \/ AddWrites \/ RefreshNotes \/ Prefetch \/ StartSync \/ RefreshSpent \/ StartSpend
           \/ AddReads \/ FetchFails \/ WorkerExits
  BY <1>1, <1>5 DEF FetchSteps, Count, Download, FetchDone, SyncChecks, SyncAnswers, SpendSteps,
    SpendChecks, SpendLands, SpendReports, MarkList, CheckNullifiers, AddWrites, RefreshNotes,
    BeginSync, Prefetch, StartSync, RefreshSpent, StartSpend, AddReads, FetchFails, WorkerExits,
    syncing
<1>6. CASE (\E a \in Payees : Receive(a)) \/ (\E i \in Notes : SpentElsewhere(i)) \/ UNCHANGED vars
  BY <1>1, <1>6 DEF Receive, SpentElsewhere, vars, syncing
<1> QED
  BY <1>3, <1>4, <1>5, <1>6 DEF Next, Steps, Environment, SyncSteps

LEMMA StepSpend == IInv /\ [Next]_vars => SpendTrue'
<1> SUFFICES ASSUME IInv, [Next]_vars
             PROVE  SpendTrue'
  OBVIOUS
<1>t. Typed /\ SpendTrue /\ Grows
  BY StepGrows DEF IInv
<1>b. spend \in Spends /\ Len(pool) \in Nat
  BY <1>t, Bounds
<1>1. CASE UNCHANGED spend
  BY <1>t, <1>1 DEF SpendTrue, Grows
<1>2. CASE spend'.pick = {}
  BY <1>2 DEF SpendTrue
<1>3. CASE SpendChecks
  <2>1. CASE \E i \in Ours : spend' = Spending("proving", {i}, spend.change)
    BY <1>t, <2>1 DEF SpendTrue, Spending, Grows
  <2>2. CASE spend' = Spending("refused", {}, spend.change)
    BY <1>2, <2>2 DEF Spending
  <2> QED
    BY <1>3, <2>1, <2>2 DEF SpendChecks
<1>4. CASE SpendLands
  <2>1. CASE /\ spend' = Spending("landed", spend.pick, Len(pool) + 1)
             /\ nullified' = nullified \union spend.pick
    BY <1>t, <2>1 DEF SpendTrue, Spending, Grows
  <2>2. CASE spend' = Spending("refused", {}, spend.change)
    BY <1>2, <2>2 DEF Spending
  <2> QED
    BY <1>4, <2>1, <2>2 DEF SpendLands
<1>5. CASE Deliver
  <2>1. UNCHANGED spend \/ AcceptedComes \/ RefusedComes
    BY <1>5 DEF Deliver, NotesCome, NullifiersCome, SpentCome, spending
  <2>2. CASE AcceptedComes
    BY <1>t, <1>b, <2>2 DEF AcceptedComes, SpendTrue, Spends, Grows
  <2> QED
    BY <1>1, <1>2, <1>b, <2>1, <2>2, Fails DEF RefusedComes
<1>6. CASE FetchDone \/ SpendReports \/ StartSpend \/ FetchFails \/ WorkerExits \/ Crash
  <2>1. UNCHANGED spend \/ spend'.pick = {}
    <3>1. CASE FetchDone \/ SpendReports
      BY <3>1 DEF FetchDone, SpendReports, Spending
    <3>2. CASE StartSpend \/ Crash
      BY <3>2, Empty DEF StartSpend, Crash
    <3>3. CASE FetchFails \/ WorkerExits
      BY <3>3, <1>b, Fails DEF FetchFails, WorkerExits
    <3> QED
      BY <1>6, <3>1, <3>2, <3>3
  <2> QED
    BY <1>1, <1>2, <2>1
<1>7. CASE Count \/ Download \/ SyncSteps \/ SettledSteps \/ MarkList \/ CheckNullifiers
           \/ AddWrites \/ RefreshNotes \/ Prefetch \/ StartSync \/ RefreshSpent \/ AddReads
  BY <1>1, <1>7 DEF Count, Download, SyncSteps, AskWorker, SyncChecks, SyncAnswers, SettledSteps,
    SetCursor, SyncWindow, MarkList, CheckNullifiers, AddWrites, RefreshNotes, Prefetch,
    StartSync, RefreshSpent, AddReads, spending
<1>8. CASE (\E a \in Payees : Receive(a)) \/ (\E i \in Notes : SpentElsewhere(i)) \/ UNCHANGED vars
  BY <1>1, <1>8 DEF Receive, SpentElsewhere, vars, spending
<1> QED
  BY <1>3, <1>4, <1>5, <1>6, <1>7, <1>8 DEF Next, Steps, Environment, FetchSteps, SpendSteps
\* What happens to the messages on their way.
LEMMA UpCases ==
  ASSUME IInv, [Next]_vars
  PROVE \/ UNCHANGED up
        \/ up' = <<>>
        \/ Deliver \/ SyncAnswers \/ CheckNullifiers
        \/ \E notes \in SUBSET Int, messages \in Seq(Messages) :
             /\ notes \subseteq nullified' /\ Reported(messages, notes)
             /\ up' = up \o messages /\ UNCHANGED sync
             /\ sync.pc = "checked" => spend.pc \in {"proving", "landed"}
<1> DEFINE Told == \E notes \in SUBSET Int, messages \in Seq(Messages) :
                     /\ notes \subseteq nullified' /\ Reported(messages, notes)
                     /\ up' = up \o messages /\ UNCHANGED sync
                     /\ sync.pc = "checked" => spend.pc \in {"proving", "landed"}
<1>t. Typed /\ SpendTrue /\ Grows
  BY StepGrows DEF IInv
<1>b. /\ Ours \subseteq Int /\ nullified \subseteq Ours /\ spend \in Spends
      /\ nullified \subseteq nullified'
  BY <1>t, Bounds DEF Grows
<1>0. ASSUME NEW notes \in SUBSET Int, NEW messages, notes \subseteq nullified',
             Reported(messages, notes), Report(messages), UNCHANGED sync,
             sync.pc = "checked" => spend.pc \in {"proving", "landed"}
      PROVE  Told
  <2>1. messages \in Seq(Messages)
    BY <1>0 DEF Reported
  <2> QED
    BY <1>0, <2>1 DEF Report
<1>1. CASE SpendChecks
  <2> DEFINE notes == Ours \cap 1..spend.upto \cap nullified
  <2>1. notes \in SUBSET Int /\ notes \subseteq nullified'
    BY <1>b
  <2>2. Report(SpentNotes(notes)) \/ Report(SpentNotes(notes) \o Refused)
    BY <1>1 DEF SpendChecks
  <2>3. UNCHANGED sync /\ sync.pc # "checked"
    BY <1>1 DEF SpendChecks, LaneFree, syncing
  <2> HIDE DEF notes, Told
  <2>4. Reported(SpentNotes(notes), notes) /\ Reported(SpentNotes(notes) \o Refused, notes)
    BY <2>1, Reports
  <2>5. Told
    BY <1>0, <2>1, <2>2, <2>3, <2>4
  <2> QED
    BY <2>5 DEF Told
<1>2. CASE SpendLands
  <2>1. UNCHANGED up \/ Report(Refused)
    BY <1>2 DEF SpendLands
  <2>2. {} \in SUBSET Int /\ {} \subseteq nullified' /\ Reported(Refused, {})
    BY Reports
  <2>3. UNCHANGED sync /\ spend.pc = "proving"
    BY <1>2 DEF SpendLands, syncing
  <2> HIDE DEF Told
  <2>4. UNCHANGED up \/ Told
    BY <1>0, <2>1, <2>2, <2>3
  <2> QED
    BY <2>4 DEF Told
<1>3. CASE SpendReports
  <2>1. /\ Report(SpentNotes(spend.pick) \o <<[type |-> "accepted"]>>) \/ Report(Refused)
        /\ spend.pc = "landed" /\ UNCHANGED sync
    BY <1>3 DEF SpendReports, syncing
  <2>2. spend.pick \in SUBSET Int /\ spend.pick \subseteq nullified'
    BY <1>t, <1>b, <2>1 DEF SpendTrue
  <2>3. /\ Reported(SpentNotes(spend.pick) \o <<[type |-> "accepted"]>>, spend.pick)
        /\ Reported(Refused, spend.pick)
    BY <2>2, Reports
  <2> HIDE DEF Told
  <2>4. Told
    BY <1>0, <2>1, <2>2, <2>3
  <2> QED
    BY <2>4 DEF Told
<1>4. CASE FetchSteps \/ AskWorker \/ SyncChecks \/ SettledSteps \/ MarkList
           \/ AddWrites \/ RefreshNotes \/ Prefetch \/ StartSync \/ RefreshSpent \/ StartSpend
           \/ AddReads \/ FetchFails
  BY <1>4 DEF FetchSteps, Count, Download, FetchDone, AskWorker, SyncChecks, SettledSteps,
    SetCursor, SyncWindow, MarkList, AddWrites, RefreshNotes, Prefetch, StartSync, RefreshSpent,
    StartSpend, AddReads, FetchFails
<1>5. CASE WorkerExits \/ Crash
  BY <1>5 DEF WorkerExits, Crash
<1>6. CASE (\E a \in Payees : Receive(a)) \/ (\E i \in Notes : SpentElsewhere(i)) \/ UNCHANGED vars
  BY <1>6 DEF Receive, SpentElsewhere, vars
<1> HIDE DEF Told
<1> QED
  BY <1>1, <1>2, <1>3, <1>4, <1>5, <1>6 DEF Next, Steps, Environment, SyncSteps, SpendSteps

\* A message that stays on its way stays true, if the sync it answers does.
LEMMA MessageKept ==
  ASSUME IInv, Grows, NEW m, MessageTrue(m), m.type = "notes" => UNCHANGED sync
  PROVE  MessageTrue(m)'
<1>1. /\ nullified \subseteq nullified' /\ Ours \subseteq Ours'
      /\ \A n \in 0..Len(pool) : Ours' \cap 1..n = Ours \cap 1..n
  BY DEF Grows
<1>2. CASE m.type = "notes"
  <2>1. sync.pc = "answered" /\ sync.upto <= stored
    BY <1>2 DEF MessageTrue, IInv, SyncTrue
  <2>2. sync.upto \in 0..Len(pool)
    BY <2>1, Bounds DEF IInv, Syncs
  <2> QED
    BY <1>1, <1>2, <2>1, <2>2 DEF MessageTrue
<1>3. CASE m.type # "notes"
  BY <1>1, <1>3 DEF MessageTrue
<1> QED
  BY <1>2, <1>3

\* A sync that waits for its answer waits until it comes, or nothing does.
LEMMA AnsweredWaits ==
  ASSUME Typed, [Next]_vars, sync.pc = "answered"
  PROVE UNCHANGED sync \/ up' = <<>> \/ (Head(up).type = "notes" /\ Deliver)
<1>1. ~BeginSync
  BY DEF BeginSync, Syncing, Typed, ListTyped
<1>2. CASE StartSync \/ RefreshNotes
  BY <1>1, <1>2 DEF StartSync, RefreshNotes, syncing
<1>3. CASE WorkerExits \/ Crash
  BY <1>3 DEF WorkerExits, Crash
<1>4. CASE FetchDone \/ FetchFails \/ SyncSteps
  BY <1>4 DEF FetchDone, FetchFails, SyncSteps, AskWorker, SyncChecks, SyncAnswers
<1>5. CASE Deliver
  BY <1>5 DEF Deliver, NullifiersCome, SpentCome, AcceptedComes, RefusedComes, syncing
<1>6. CASE Count \/ Download \/ SettledSteps \/ SpendSteps \/ MarkList \/ CheckNullifiers
           \/ AddWrites \/ Prefetch \/ RefreshSpent \/ StartSpend \/ AddReads
  BY <1>6 DEF Count, Download, SettledSteps, SetCursor, SyncWindow, SpendSteps, SpendChecks,
    SpendLands, SpendReports, MarkList, CheckNullifiers, AddWrites, Prefetch, RefreshSpent,
    StartSpend, AddReads, syncing
<1>7. CASE (\E a \in Payees : Receive(a)) \/ (\E i \in Notes : SpentElsewhere(i)) \/ UNCHANGED vars
  BY <1>7 DEF Receive, SpentElsewhere, vars, syncing
<1> QED
  BY <1>2, <1>3, <1>4, <1>5, <1>6, <1>7 DEF Next, Steps, Environment, FetchSteps

\* The messages that were there and still are.
LEMMA WaitingKept ==
  ASSUME IInv, [Next]_vars, up' # <<>>, NEW k \in 1..Len(up), k # 1 \/ ~Deliver,
         NEW m, m = up[k]
  PROVE  MessageTrue(m)'
<1>1. MessageTrue(m) /\ Typed /\ Grows
  BY StepGrows DEF IInv, MessagesTrue
<1>2. m.type = "notes" => UNCHANGED sync
  <2>1. SUFFICES ASSUME m.type = "notes"
                 PROVE  UNCHANGED sync
    OBVIOUS
  <2>2. sync.pc = "answered"
    BY <1>1, <2>1 DEF MessageTrue
  <2>3. UNCHANGED sync \/ (Head(up).type = "notes" /\ Deliver)
    BY <1>1, <2>2, AnsweredWaits
  <2>4. ASSUME Head(up).type = "notes", Deliver
        PROVE  FALSE
    <3>1. up \in Seq(Messages) /\ up # <<>>
      BY <1>1, <2>4, Bounds DEF Deliver
    <3>2. Head(up) = up[1] /\ 1 \in 1..Len(up)
      BY <3>1, HeadTailProperties, LenProperties
    <3> QED
      BY <2>1, <2>4, <3>2 DEF IInv, OneAnswer
  <2> QED
    BY <2>3, <2>4
<1> QED
  BY <1>1, <1>2, MessageKept

LEMMA StepMessages == IInv /\ [Next]_vars => MessagesTrue' /\ OneAnswer'
<1> SUFFICES ASSUME IInv, [Next]_vars
             PROVE  MessagesTrue' /\ OneAnswer'
  OBVIOUS
<1>t. Typed /\ Typed' /\ Grows /\ MessagesTrue /\ OneAnswer /\ SyncTrue /\ SyncTrue'
  BY StepGrows, StepTypes, StepSync DEF IInv
<1>b. up \in Seq(Messages) /\ Len(up) \in Nat /\ sync \in Syncs
  BY <1>t, Bounds, LenProperties
<1>0. CASE up' = <<>>
  <2>1. Len(up') = 0
    BY <1>0
  <2> QED
    BY <2>1 DEF MessagesTrue, OneAnswer
<1>1. CASE Deliver /\ up' # <<>>
  <2>1. /\ up' \in Seq(Messages) /\ Len(up') = Len(up) - 1
        /\ \A k \in 1..Len(up') : k + 1 \in 1..Len(up) /\ up'[k] = up[k + 1]
    BY <1>1, <1>b, Taken DEF Deliver
  <2>2. ASSUME NEW k \in 1..Len(up')  PROVE MessageTrue(up[k])'
    <3>1. PICK m : m = up[k + 1]
      OBVIOUS
    <3>2. k + 1 \in 1..Len(up) /\ k + 1 # 1 /\ up'[k] = m
      BY <2>1, <3>1
    <3>3. MessageTrue(m)'
      BY <1>1, <3>1, <3>2, WaitingKept
    <3> QED
      BY <3>2, <3>3 DEF MessageTrue
  <2>3. MessagesTrue'
    BY <2>2 DEF MessagesTrue
  <2>4. OneAnswer'
    <3>1. SUFFICES ASSUME NEW j \in 1..Len(up'), NEW k \in 1..Len(up'),
                          up'[j].type = "notes", up'[k].type = "notes"
                   PROVE  j = k
      BY DEF OneAnswer
    <3>2. j + 1 = k + 1
      BY <1>t, <2>1, <3>1 DEF OneAnswer
    <3> QED
      BY <1>b, <2>1, <3>2
  <2> QED
    BY <2>3, <2>4
<1>k. ASSUME ~Deliver, up' # <<>>, NEW k \in 1..Len(up), k \in 1..Len(up'), up'[k] = up[k]
      PROVE  MessageTrue(up[k])'
  <2>1. PICK m : m = up[k]
    OBVIOUS
  <2>2. MessageTrue(m)'
    BY <1>k, <2>1, WaitingKept
  <2> QED
    BY <1>k, <2>1, <2>2 DEF MessageTrue
<1>2. CASE UNCHANGED up /\ up' # <<>> /\ ~Deliver
  BY <1>t, <1>2, <1>k DEF MessagesTrue, OneAnswer
<1>3. CASE SyncAnswers /\ up' # <<>> /\ ~Deliver
  <2> DEFINE answer == [type |-> "notes", own |-> sync.prior, spent |-> sync.priorSpent]
  <2>1. answer \in Messages
    BY <1>b DEF Syncs, Messages
  <2>2. up' = Append(up, answer) /\ sync.pc = "checked" /\ sync'.pc = "answered" /\ sync'.upto = sync.upto
    BY <1>3 DEF SyncAnswers
  <2>3. /\ Len(up') = Len(up) + 1
        /\ \A k \in 1..Len(up') : \/ k \in 1..Len(up) /\ up'[k] = up[k]
                                  \/ k = Len(up) + 1 /\ up'[k] = answer
    BY <1>b, <2>1, <2>2, QueuedOne
  <2>4. \A k \in 1..Len(up) : up[k].type # "notes"
    BY <1>t, <2>2 DEF MessagesTrue, MessageTrue
  <2>5. ASSUME NEW k \in 1..Len(up'), k = Len(up) + 1, up'[k] = answer
        PROVE  MessageTrue(up[k])'
    <3>1. Ours' = Ours /\ UNCHANGED nullified
      BY <1>3 DEF SyncAnswers, chain, Ours
    <3>2. /\ Ours \cap 1..sync.upto \subseteq sync.prior /\ sync.prior \subseteq Ours
          /\ sync.priorSpent \subseteq sync.prior \cap nullified
      BY <1>t, <2>2 DEF SyncTrue
    <3> QED
      BY <2>2, <2>5, <3>1, <3>2 DEF MessageTrue
  <2>6. MessagesTrue'
    BY <1>3, <1>k, <2>3, <2>5 DEF MessagesTrue
  <2>7. OneAnswer'
    BY <2>3, <2>4 DEF OneAnswer
  <2> QED
    BY <2>6, <2>7
<1>4. CASE CheckNullifiers /\ up' # <<>> /\ ~Deliver
  <2> DEFINE answer == [type |-> "nullifiers", spent |-> refresh \cap nullified]
  <2>1. nullified \in SUBSET Int /\ UNCHANGED nullified
    <3>1. nullified \subseteq Ours /\ Ours \subseteq 1..Len(pool)
      BY <1>t, Bounds
    <3>2. UNCHANGED nullified
      BY <1>4 DEF CheckNullifiers, chain
    <3> QED
      BY <3>1, <3>2
  <2>2. answer \in Messages /\ up' = Append(up, answer)
    BY <1>4, <2>1 DEF CheckNullifiers, Messages
  <2>3. /\ Len(up') = Len(up) + 1
        /\ \A k \in 1..Len(up') : \/ k \in 1..Len(up) /\ up'[k] = up[k]
                                  \/ k = Len(up) + 1 /\ up'[k] = answer
    BY <1>b, <2>2, QueuedOne
  <2>4. ASSUME NEW k \in 1..Len(up'), up'[k] = answer
        PROVE  MessageTrue(up[k])'
    BY <2>1, <2>4 DEF MessageTrue
  <2>5. MessagesTrue'
    BY <1>4, <1>k, <2>3, <2>4 DEF MessagesTrue
  <2>6. OneAnswer'
    BY <1>t, <2>3 DEF OneAnswer
  <2> QED
    BY <2>5, <2>6
<1>5. ASSUME NEW notes \in SUBSET Int, NEW messages \in Seq(Messages),
             notes \subseteq nullified', Reported(messages, notes), up' = up \o messages,
             up' # <<>>, ~Deliver
      PROVE  MessagesTrue' /\ OneAnswer'
  <2>1. /\ Len(up') = Len(up) + Len(messages)
        /\ \A k \in 1..Len(up') :
             \/ k \in 1..Len(up) /\ up'[k] = up[k]
             \/ \E j \in 1..Len(messages) : k = Len(up) + j /\ up'[k] = messages[j]
    BY <1>5, <1>b, Queued
  <2>2. ASSUME NEW k \in 1..Len(up'), NEW j \in 1..Len(messages), up'[k] = messages[j]
        PROVE  MessageTrue(up[k])' /\ up'[k].type # "notes"
    BY <1>5, <2>2 DEF MessageTrue, Reported
  <2>3. MessagesTrue'
    BY <1>5, <1>k, <2>1, <2>2 DEF MessagesTrue
  <2>4. OneAnswer'
    BY <1>t, <2>1, <2>2 DEF OneAnswer
  <2> QED
    BY <2>3, <2>4
<1> QED
  BY <1>0, <1>1, <1>2, <1>3, <1>4, <1>5, UpCases

LEMMA StepDecoded == IInv /\ [Next]_vars => DecodedKnown'
<1> SUFFICES ASSUME IInv, [Next]_vars
             PROVE  DecodedKnown'
  OBVIOUS
<1>t. Typed /\ Grows /\ DecodedKnown /\ EndingTrue
  BY StepGrows DEF IInv
<1>b. Len(pool) \in Nat /\ stored \in 0..Len(pool) /\ cursor \in 0..stored
  BY <1>t, Bounds
<1>1. CASE UNCHANGED cursor
  <2>1. cursor \in 0..Len(pool)
    BY <1>b
  <2> QED
    BY <1>t, <1>1, <2>1 DEF Grows, DecodedKnown
<1>2. CASE SetCursor
  BY <1>t, <1>2 DEF SetCursor, EndingTrue, DecodedKnown, chain, Ours
<1>3. CASE Deliver
  BY <1>1, <1>3 DEF Deliver, NotesCome, NullifiersCome, SpentCome, AcceptedComes, RefusedComes,
    tables
<1>4. CASE FetchSteps \/ SyncSteps \/ SyncWindow \/ SpendSteps \/ MarkList \/ CheckNullifiers
           \/ AddWrites \/ RefreshNotes \/ Prefetch \/ StartSync \/ RefreshSpent \/ StartSpend
           \/ AddReads \/ FetchFails \/ WorkerExits \/ Crash
  BY <1>1, <1>4 DEF FetchSteps, Count, Download, FetchDone, SyncSteps, AskWorker, SyncChecks,
    SyncAnswers, SyncWindow, SpendSteps, SpendChecks, SpendLands, SpendReports, MarkList,
    CheckNullifiers, AddWrites, RefreshNotes, Prefetch, StartSync, RefreshSpent, StartSpend,
    AddReads, FetchFails, WorkerExits, Crash, tables
<1>5. CASE (\E a \in Payees : Receive(a)) \/ (\E i \in Notes : SpentElsewhere(i)) \/ UNCHANGED vars
  BY <1>1, <1>5 DEF Receive, SpentElsewhere, vars, tables
<1> QED
  BY <1>2, <1>3, <1>4, <1>5 DEF Next, Steps, Environment, SettledSteps

-----------------------------------------------------------------------------
(* What holds of every instance *)

LEMMA InitIInv == Init => IInv
<1> SUFFICES ASSUME Init
             PROVE  IInv
  OBVIOUS
<1>1. Typed
  BY InitTypes
<1>2. SyncTrue /\ EndingTrue /\ SpendTrue
  BY Empty DEF Init, SyncTrue, EndingTrue, SpendTrue
<1>3. MessagesTrue /\ OneAnswer /\ DecodedKnown
  BY DEF Init, MessagesTrue, OneAnswer, DecodedKnown
<1> QED
  BY <1>1, <1>2, <1>3 DEF IInv

LEMMA StepIInv == IInv /\ [Next]_vars => IInv'
BY StepTypes, StepSync, StepEnding, StepSpend, StepMessages, StepDecoded DEF IInv

LEMMA Inductive == Spec => []IInv
BY InitIInv, StepIInv, PTL DEF Spec
\* TypeOK is an invariant, of every pool, gap limit and number of faults, and so
\* is that decoding is a prefix, whichever syncs overlap, fail or die.
THEOREM TypeCorrect == Spec => [](TypeOK /\ DecodedKnown)
<1>1. IInv => TypeOK /\ DecodedKnown
  BY Parts DEF IInv, Typed
<1> QED
  BY Inductive, <1>1, PTL

-----------------------------------------------------------------------------
(* What a sync leaves is complete and follows the rows *)

\* The download a sync awaits reaches what was there when it began, and so does
\* what it reads of it.
Complete ==
  /\ state.born <= Len(pool)
  /\ sync.pc = "fetching" => fetch = Counting \/ state.born <= fetch
  /\ sync.pc \in {"reading", "asked", "checked", "answered"} => state.born <= sync.upto
  /\ SettledKnowsAll

\* The marks a sync read are those of the rows, and those of its list lack only
\* what is being marked.
Marked ==
  /\ sync.pc = "reading" => sync.prior \cap spentRows \subseteq sync.priorSpent
  /\ state.phase = "done" => state.list \cap spentRows \subseteq state.listSpent \union marking

\* The steps that change the record of a sync, or its list.
LEMMA StateCases ==
  ASSUME [Next]_vars
  PROVE \/ UNCHANGED state
        \/ state' = NoState /\ sync' = NoSync
        \/ SyncFails
        \/ BeginSync
        \/ AskWorker /\ Settle(sync.prior, sync.priorSpent, "window") /\ sync.pc = "reading"
                     /\ sync.upto = sync.from
        \/ Deliver /\ Head(up).type = "notes" /\ NotesCome(Head(up))
        \/ MarkList
<1>1. CASE StartSync \/ RefreshNotes
  BY <1>1 DEF StartSync, RefreshNotes, syncing
<1>2. CASE FetchFails \/ WorkerExits \/ Crash
  BY <1>2 DEF FetchFails, WorkerExits, Crash
<1>3. CASE Deliver
  BY <1>3 DEF Deliver, NullifiersCome, SpentCome, AcceptedComes, RefusedComes, syncing
<1>4. CASE AskWorker
  BY <1>4 DEF AskWorker
<1>5. CASE FetchSteps \/ SyncChecks \/ SyncAnswers \/ SettledSteps \/ SpendSteps \/ CheckNullifiers
           \/ AddWrites \/ Prefetch \/ RefreshSpent \/ StartSpend \/ AddReads
  BY <1>5 DEF FetchSteps, Count, Download, FetchDone, SyncChecks, SyncAnswers, SettledSteps,
    SetCursor, SyncWindow, SpendSteps, SpendChecks, SpendLands, SpendReports, CheckNullifiers,
    AddWrites, Prefetch, RefreshSpent, StartSpend, AddReads, syncing
<1>6. CASE (\E a \in Payees : Receive(a)) \/ (\E i \in Notes : SpentElsewhere(i)) \/ UNCHANGED vars
  BY <1>6 DEF Receive, SpentElsewhere, vars, syncing
<1> QED
  BY <1>1, <1>2, <1>3, <1>4, <1>5, <1>6 DEF Next, Steps, Environment, SyncSteps

\* And those that change what a download goes up to.
LEMMA FetchCases ==
  ASSUME [Next]_vars
  PROVE \/ UNCHANGED fetch
        \/ Count
        \/ fetch' = Counting
        \/ fetch' = NoFetch /\ (sync.pc = "fetching" => FetchDone \/ sync'.pc = "idle")
<1>1. CASE StartSync \/ RefreshNotes \/ Prefetch \/ StartSpend
  BY <1>1 DEF StartSync, RefreshNotes, BeginSync, Prefetch, StartSpend, Fetching
<1>2. CASE FetchFails \/ WorkerExits \/ Crash
  BY <1>2 DEF FetchFails, WorkerExits, Crash, SyncFails, NoSync
<1>3. CASE FetchDone
  BY <1>3 DEF FetchDone
<1>4. CASE Deliver
  BY <1>4 DEF Deliver, NotesCome, NullifiersCome, SpentCome, AcceptedComes, RefusedComes
<1>5. CASE Count \/ Download \/ SyncSteps \/ SettledSteps \/ SpendSteps \/ CheckNullifiers
           \/ MarkList \/ AddWrites \/ RefreshSpent \/ AddReads
  BY <1>5 DEF Download, SyncSteps, AskWorker, SyncChecks, SyncAnswers, SettledSteps,
    SetCursor, SyncWindow, SpendSteps, SpendChecks, SpendLands, SpendReports, CheckNullifiers,
    MarkList, AddWrites, RefreshSpent, AddReads
<1>6. CASE (\E a \in Payees : Receive(a)) \/ (\E i \in Notes : SpentElsewhere(i)) \/ UNCHANGED vars
  BY <1>6 DEF Receive, SpentElsewhere, vars
<1> QED
  BY <1>1, <1>2, <1>3, <1>4, <1>5, <1>6 DEF Next, Steps, Environment, FetchSteps

\* A sync awaits a download from its first step on.
LEMMA SyncStays ==
  ASSUME [Next]_vars, sync'.pc = "fetching"
  PROVE  BeginSync \/ UNCHANGED sync
<1>1. CASE StartSync \/ RefreshNotes
  BY <1>1 DEF StartSync, RefreshNotes, syncing
<1>2. CASE FetchFails \/ WorkerExits \/ Crash
  BY <1>2 DEF FetchFails, WorkerExits, Crash, SyncFails, NoSync
<1>3. CASE Deliver
  BY <1>3 DEF Deliver, NotesCome, Settle, NullifiersCome, SpentCome, AcceptedComes, RefusedComes,
    NoSync, syncing
<1>4. CASE FetchDone \/ SyncSteps
  BY <1>4 DEF FetchDone, SyncSteps, AskWorker, Settle, NoSync, SyncChecks, SyncAnswers
<1>5. CASE Count \/ Download \/ SettledSteps \/ SpendSteps \/ MarkList \/ CheckNullifiers
           \/ AddWrites \/ Prefetch \/ RefreshSpent \/ StartSpend \/ AddReads
  BY <1>5 DEF Count, Download, SettledSteps, SetCursor, SyncWindow, SpendSteps, SpendChecks,
    SpendLands, SpendReports, MarkList, CheckNullifiers, AddWrites, Prefetch, RefreshSpent,
    StartSpend, AddReads, syncing
<1>6. CASE (\E a \in Payees : Receive(a)) \/ (\E i \in Notes : SpentElsewhere(i)) \/ UNCHANGED vars
  BY <1>6 DEF Receive, SpentElsewhere, vars, syncing
<1> QED
  BY <1>1, <1>2, <1>3, <1>4, <1>5, <1>6 DEF Next, Steps, Environment, FetchSteps

\* The situation this part leaves out.
NoneJoined == "joined download" \in Excluded

LEMMA StepComplete ==
  ASSUME NoneJoined
  PROVE  IInv /\ Complete /\ [Next]_vars => Complete'
<1> SUFFICES ASSUME IInv, Complete, [Next]_vars
             PROVE  Complete'
  OBVIOUS
<1>t. Typed /\ Typed' /\ Grows /\ SyncTrue
  BY StepGrows, StepTypes DEF IInv
<1>b. /\ Len(pool) \in Nat /\ stored \in 0..Len(pool) /\ sync \in Syncs /\ state \in States
      /\ fetch \in -2..Len(pool) /\ Len(pool') \in Nat /\ Len(pool) <= Len(pool')
      /\ state.born \in Nat /\ sync.upto \in Nat
  BY <1>t, Bounds, LenProperties DEF Typed, RecordsTyped, Grows, States, Syncs
<1>r. state.born \in 0..Len(pool) /\ Ours' \cap 1..state.born = Ours \cap 1..state.born
  BY <1>t, <1>b DEF Complete, Grows
<1>c. NoFetch = -1 /\ Counting = -2
  BY DEF NoFetch, Counting
\* The list.
<1>1. state'.born <= Len(pool') /\ SettledKnowsAll'
  <2>1. CASE UNCHANGED state
    BY <1>b, <1>r, <2>1 DEF Complete, SettledKnowsAll
  <2>2. CASE state' = NoState
    BY <1>b, <2>2 DEF NoState, SettledKnowsAll
  <2>3. CASE SyncFails
    BY <1>b, <2>3 DEF SyncFails, NoState, SettledKnowsAll
  <2>4. CASE BeginSync
    BY <1>b, <2>4 DEF BeginSync, SettledKnowsAll
  <2>5. CASE /\ Settle(sync.prior, sync.priorSpent, "window") /\ sync.pc = "reading"
             /\ sync.upto = sync.from
    <3>1. state'.born = state.born /\ state'.list = sync.prior
      BY <2>5 DEF Settle
    <3>2. state.born <= sync.upto /\ Ours \cap 1..sync.upto \subseteq sync.prior
      BY <2>5, <1>t DEF Complete, SyncTrue
    <3> QED
      BY <1>b, <1>r, <3>1, <3>2 DEF SettledKnowsAll
  <2>6. CASE Deliver /\ Head(up).type = "notes" /\ NotesCome(Head(up))
    <3>1. state'.born = state.born /\ state'.list = Head(up).own
      BY <2>6 DEF NotesCome, Settle
    <3>2. sync.pc = "answered" /\ Ours \cap 1..sync.upto \subseteq Head(up).own
      BY <2>6, AnswerIsTrue DEF MessageTrue
    <3>3. state.born <= sync.upto
      BY <3>2 DEF Complete
    <3> QED
      BY <1>b, <1>r, <3>1, <3>2, <3>3 DEF SettledKnowsAll
  <2>7. CASE MarkList
    <3>1. state'.born = state.born /\ state'.list = state.list /\ state'.phase = state.phase
      BY <1>b, <2>7 DEF MarkList, States
    <3> QED
      BY <1>b, <1>r, <3>1 DEF Complete, SettledKnowsAll
  <2> QED
    BY <2>1, <2>2, <2>3, <2>4, <2>5, <2>6, <2>7, StateCases
\* How far a sync got, where it is the same sync.
<1>2. sync'.pc # "idle" => BeginSync \/ state'.born = state.born
  <2>1. CASE MarkList
    BY <1>b, <2>1 DEF MarkList, States
  <2> QED
    BY <2>1, StateCases DEF NoSync, SyncFails, Settle, NotesCome
<1>3. ASSUME sync'.pc \in {"reading", "asked", "checked", "answered"}
      PROVE  state'.born <= sync'.upto
  <2>1. state'.born = state.born
    BY <1>2, <1>3 DEF BeginSync, NoSync
  <2>2. CASE UNCHANGED sync
    BY <1>3, <2>1, <2>2 DEF Complete
  <2>3. CASE FetchDone /\ sync.pc = "fetching"
    <3>1. sync'.upto = stored /\ fetch \in 0..stored /\ state.born <= fetch
      BY <1>c, <2>3 DEF FetchDone, Complete
    <3> QED
      BY <1>b, <2>1, <3>1
  <2>4. CASE FetchDone /\ sync.pc # "fetching"
    BY <2>2, <2>4 DEF FetchDone
  <2>5. CASE AskWorker \/ SyncChecks \/ SyncAnswers
    <3>1. sync'.upto = sync.upto /\ sync.pc \in {"reading", "asked", "checked"}
      BY <1>3, <2>5 DEF AskWorker, Settle, NoSync, SyncChecks, SyncAnswers
    <3> QED
      BY <2>1, <3>1 DEF Complete
  <2> QED
    BY <1>3, <2>2, <2>3, <2>4, <2>5, SyncCases
\* The download it awaits.
<1>4. ASSUME sync'.pc = "fetching"
      PROVE  fetch' = Counting \/ state'.born <= fetch'
  <2>1. CASE BeginSync
    <3>1. ~(fetch >= 0 /\ fetch < Len(pool)) /\ state'.born = Len(pool)
      BY <2>1 DEF BeginSync, Allowed, NoneJoined
    <3>2. fetch' = IF fetch = NoFetch THEN Counting ELSE fetch
      BY <2>1 DEF BeginSync, Fetching
    <3> QED
      BY <1>b, <1>c, <3>1, <3>2
  <2>2. CASE ~BeginSync
    <3>1. UNCHANGED sync
      BY <1>4, <2>2, SyncStays
    <3>2. sync.pc = "fetching" /\ state'.born = state.born
      BY <1>2, <1>4, <2>2, <3>1
    <3>3. CASE UNCHANGED fetch
      BY <3>2, <3>3 DEF Complete
    <3>4. CASE Count
      BY <1>r, <3>2, <3>4 DEF Count
    <3>5. CASE fetch' = NoFetch /\ (FetchDone \/ sync'.pc = "idle")
      BY <1>4, <3>2, <3>5 DEF FetchDone
    <3> QED
      BY <3>2, <3>3, <3>4, <3>5, FetchCases
  <2> QED
    BY <2>1, <2>2
<1> QED
  BY <1>1, <1>3, <1>4 DEF Complete
\* The situation the marks leave out.
NoneMarkedWhileRead == "a note is marked while a sync reads" \in Excluded

\* What is delivered and marks notes, in the rows first.
LEMMA MarkCases ==
  ASSUME [Next]_vars
  PROVE \/ UNCHANGED spentRows
        \/ Deliver /\ Head(up).type = "notes" /\ NotesCome(Head(up))
        \/ Deliver /\ Head(up).type \in {"nullifiers", "spent"} /\ MarkRows(Head(up).spent)
             /\ UNCHANGED <<known, state, sync, spend>>
<1>1. CASE Deliver
  BY <1>1 DEF Deliver, NullifiersCome, SpentCome, AcceptedComes, RefusedComes, tables, syncing,
    spending
<1>2. CASE FetchSteps \/ SyncSteps \/ SettledSteps \/ SpendSteps \/ MarkList \/ CheckNullifiers
           \/ AddWrites \/ RefreshNotes \/ Prefetch \/ StartSync \/ RefreshSpent \/ StartSpend
           \/ AddReads \/ FetchFails \/ WorkerExits \/ Crash
  BY <1>2 DEF FetchSteps, Count, Download, FetchDone, SyncSteps, AskWorker, SyncChecks,
    SyncAnswers, SettledSteps, SetCursor, SyncWindow, SpendSteps, SpendChecks, SpendLands,
    SpendReports, MarkList, CheckNullifiers, AddWrites, RefreshNotes, Prefetch, StartSync,
    RefreshSpent, StartSpend, AddReads, FetchFails, WorkerExits, Crash, tables
<1>3. CASE (\E a \in Payees : Receive(a)) \/ (\E i \in Notes : SpentElsewhere(i)) \/ UNCHANGED vars
  BY <1>3 DEF Receive, SpentElsewhere, vars, tables
<1> QED
  BY <1>1, <1>2, <1>3 DEF Next, Steps, Environment

\* Outside of deliveries, what is being marked stays until it is in the list, or
\* the list is gone.
LEMMA MarkingCases ==
  ASSUME [Next]_vars
  PROVE UNCHANGED marking \/ Deliver \/ MarkList \/ state' = NoState
<1>1. CASE FetchSteps \/ SyncSteps \/ SettledSteps \/ SpendSteps \/ CheckNullifiers
           \/ AddWrites \/ RefreshNotes \/ Prefetch \/ StartSync \/ RefreshSpent \/ StartSpend
           \/ AddReads \/ FetchFails \/ WorkerExits \/ Crash
  BY <1>1 DEF FetchSteps, Count, Download, FetchDone, SyncSteps, AskWorker, SyncChecks,
    SyncAnswers, SettledSteps, SetCursor, SyncWindow, SpendSteps, SpendChecks, SpendLands,
    SpendReports, CheckNullifiers, AddWrites, RefreshNotes, Prefetch, StartSync,
    RefreshSpent, StartSpend, AddReads, FetchFails, WorkerExits, Crash
<1>2. CASE (\E a \in Payees : Receive(a)) \/ (\E i \in Notes : SpentElsewhere(i)) \/ UNCHANGED vars
  BY <1>2 DEF Receive, SpentElsewhere, vars
<1> QED
  BY <1>1, <1>2 DEF Next, Steps, Environment

LEMMA StepMarked ==
  ASSUME NoneMarkedWhileRead
  PROVE  IInv /\ Marked /\ [Next]_vars => Marked'
<1> SUFFICES ASSUME IInv, Marked, [Next]_vars
             PROVE  Marked'
  OBVIOUS
<1>t. Typed /\ state \in States /\ state.listSpent \subseteq state.list
  BY DEF IInv, Typed, RecordsTyped, ListTyped
<1>1. CASE Deliver /\ Head(up).type = "notes" /\ NotesCome(Head(up))
  <2>1. /\ state'.list = Head(up).own /\ state'.listSpent = Head(up).spent
        /\ spentRows' = (spentRows \ Head(up).own) \union Head(up).spent /\ sync' = NoSync
    BY <1>1 DEF NotesCome, Settle
  <2> QED
    BY <2>1 DEF Marked, NoSync
<1>2. CASE /\ Deliver /\ Head(up).type \in {"nullifiers", "spent"} /\ MarkRows(Head(up).spent)
           /\ UNCHANGED <<known, state, sync, spend>>
  <2>1. /\ marking = {} /\ marking' = Head(up).spent /\ sync.pc # "reading"
        /\ spentRows' = spentRows \union (Head(up).spent \cap known)
    BY <1>2 DEF MarkRows, Allowed, NoneMarkedWhileRead
  <2> QED
    BY <1>2, <2>1 DEF Marked
<1>3. CASE UNCHANGED spentRows
  <2>1. sync'.pc = "reading" => sync'.prior \cap spentRows \subseteq sync'.priorSpent
    <3>1. CASE UNCHANGED sync
      BY <3>1 DEF Marked
    <3>2. CASE FetchDone
      BY <3>1, <3>2 DEF FetchDone
    <3>3. CASE AskWorker \/ SyncChecks \/ SyncAnswers
      BY <3>3 DEF AskWorker, Settle, NoSync, SyncChecks, SyncAnswers
    <3> QED
      BY <3>1, <3>2, <3>3, SyncCases
  <2>2. state'.phase = "done" => state'.list \cap spentRows \subseteq state'.listSpent \union marking'
    <3>1. CASE state' = NoState \/ SyncFails \/ BeginSync
      <4>1. state'.phase # "done"
        <5>1. CASE state' = NoState
          BY <5>1, Empty
        <5>2. CASE SyncFails
          BY <5>2, Fails
        <5>3. CASE BeginSync
          BY <5>3, <1>t, Begins
        <5> QED
          BY <3>1, <5>1, <5>2, <5>3
      <4> QED
        BY <4>1
    <3>2. CASE AskWorker /\ Settle(sync.prior, sync.priorSpent, "window") /\ sync.pc = "reading"
      <4>1. state'.list = sync.prior /\ state'.listSpent = sync.priorSpent
        BY <3>2 DEF Settle
      <4> QED
        BY <3>2, <4>1 DEF Marked
    <3>3. CASE Deliver /\ Head(up).type = "notes" /\ NotesCome(Head(up))
      BY <1>1, <1>3, <3>3 DEF Marked
    <3>4. CASE MarkList
      <4>1. CASE state.phase = "done"
        <5>1. /\ state'.list = state.list
              /\ state'.listSpent = state.listSpent \union (marking \cap state.list)
          BY <1>t, <3>4, <4>1 DEF MarkList, States
        <5> QED
          BY <4>1, <5>1 DEF Marked
      <4>2. CASE state.phase # "done"
        BY <3>4, <4>2 DEF MarkList
      <4> QED
        BY <4>1, <4>2
    <3>5. CASE UNCHANGED state /\ ~MarkList /\ ~Deliver /\ state' # NoState
      BY <3>5, MarkingCases DEF Marked
    <3>6. CASE UNCHANGED state /\ Deliver
      <4>1. \/ UNCHANGED marking \/ marking = {}
            \/ Head(up).type = "notes" /\ NotesCome(Head(up))
        <5>1. CASE NullifiersCome(Head(up)) \/ SpentCome(Head(up))
          BY <5>1 DEF NullifiersCome, SpentCome, MarkRows
        <5>2. CASE AcceptedComes \/ RefusedComes
          BY <5>2 DEF AcceptedComes, RefusedComes
        <5> QED
          BY <3>6, <5>1, <5>2 DEF Deliver
      <4> QED
        BY <3>3, <3>6, <4>1 DEF Marked
    <3> QED
      BY <3>1, <3>2, <3>3, <3>4, <3>5, <3>6, StateCases
  <2> QED
    BY <1>3, <2>1, <2>2 DEF Marked
<1> QED
  BY <1>1, <1>2, <1>3, MarkCases

\* The notes of a settled sync are all of those the pool had when it began, and
\* as spent as the rows say: if no sync joins a download under way that was
\* counted before newer notes, and no note is marked while a sync reads.
THEOREM NotesAreSound ==
  ASSUME NoneJoined, NoneMarkedWhileRead
  PROVE  Spec => []NotesSound
<1>1. Init => Complete /\ Marked
  <2> SUFFICES ASSUME Init
               PROVE  Complete /\ Marked
    OBVIOUS
  <2>1. /\ state.born = 0 /\ state.phase = "idle" /\ sync.pc = "idle" /\ Len(pool) \in Nat
    BY InitTypes, Bounds, Empty DEF Init, NoState
  <2> QED
    BY <2>1 DEF Complete, Marked, SettledKnowsAll
<1>2. IInv /\ Complete /\ Marked /\ [Next]_vars => Complete' /\ Marked'
  BY StepComplete, StepMarked
<1>3. IInv /\ Complete /\ Marked => NotesSound
  BY Parts DEF IInv, Typed, Complete, Marked, NotesSound, ListFollowsRows
<1> QED
  BY Inductive, <1>1, <1>2, <1>3, PTL DEF Spec

-----------------------------------------------------------------------------
(* A note marked spent stays spent *)

\* The situation this part leaves out.
NoneCheckedBeside == "nullifiers are checked while a sync recovers" \in Excluded

Telling(m) == m.type \in {"nullifiers", "spent"}

\* What a sync has asked the chain covers the marks of the rows and those on
\* their way, and none are on their way to come before its answer ...
CheckCovers ==
  sync.pc = "checked" =>
    /\ spentRows \cap sync.prior \subseteq sync.priorSpent
    /\ \A k \in 1..Len(up) : Telling(up[k]) => up[k].spent \cap sync.prior \subseteq sync.priorSpent
    /\ spend.pc \notin {"proving", "landed"}

\* ... so that the answer covers those of the rows and those ahead of it.
AnswerCovers ==
  \A k \in 1..Len(up) : up[k].type = "notes" =>
    /\ spentRows \cap up[k].own \subseteq up[k].spent
    /\ \A j \in 1..(k - 1) : Telling(up[j]) => up[j].spent \cap up[k].own \subseteq up[k].spent

\* A sync that has asked the chain has the lane to itself.
LEMMA LaneKept ==
  ASSUME [Next]_vars, sync.pc = "checked"
  PROVE  spend'.pc \in {"proving", "landed"} => spend.pc \in {"proving", "landed"}
<1>1. CASE UNCHANGED spend
  BY <1>1
<1>2. CASE SpendSteps
  BY <1>2 DEF SpendSteps, SpendChecks, LaneFree, SpendLands, SpendReports
<1>3. CASE Deliver
  <2>1. UNCHANGED spend \/ AcceptedComes \/ RefusedComes
    BY <1>3 DEF Deliver, NotesCome, NullifiersCome, SpentCome, spending
  <2>2. CASE AcceptedComes
    BY <1>1, <2>2 DEF AcceptedComes
  <2>3. CASE RefusedComes
    BY <2>3 DEF RefusedComes, SpendFails, Spending
  <2> QED
    BY <1>1, <2>1, <2>2, <2>3
<1>4. CASE FetchDone
  BY <1>1, <1>4 DEF FetchDone
<1>5. CASE StartSpend \/ Crash
  BY <1>5, Empty DEF StartSpend, Crash
<1>8. CASE FetchFails \/ WorkerExits
  BY <1>1, <1>8 DEF FetchFails, WorkerExits, SpendFails, Spending
<1>6. CASE Count \/ Download \/ SyncSteps \/ SettledSteps \/ MarkList \/ CheckNullifiers
           \/ AddWrites \/ RefreshNotes \/ Prefetch \/ StartSync \/ RefreshSpent \/ AddReads
  BY <1>1, <1>6 DEF Count, Download, SyncSteps, AskWorker, SyncChecks, SyncAnswers, SettledSteps,
    SetCursor, SyncWindow, MarkList, CheckNullifiers, AddWrites, RefreshNotes, Prefetch,
    StartSync, RefreshSpent, AddReads, spending
<1>7. CASE (\E a \in Payees : Receive(a)) \/ (\E i \in Notes : SpentElsewhere(i)) \/ UNCHANGED vars
  BY <1>1, <1>7 DEF Receive, SpentElsewhere, vars, spending
<1> QED
  BY <1>2, <1>3, <1>4, <1>5, <1>6, <1>7, <1>8 DEF Next, Steps, Environment, FetchSteps
LEMMA StepCheck ==
  ASSUME NoneCheckedBeside
  PROVE  IInv /\ CheckCovers /\ [Next]_vars => CheckCovers'
<1> SUFFICES ASSUME IInv, CheckCovers, [Next]_vars, sync'.pc = "checked"
             PROVE  /\ spentRows' \cap sync'.prior \subseteq sync'.priorSpent
                    /\ \A k \in 1..Len(up') : Telling(up'[k]) =>
                         up'[k].spent \cap sync'.prior \subseteq sync'.priorSpent
                    /\ spend'.pc \notin {"proving", "landed"}
  BY DEF CheckCovers, Telling
<1>t. Typed /\ MessagesTrue /\ spentRows \subseteq nullified /\ up \in Seq(Messages)
  BY Bounds DEF IInv
<1>1. CASE SyncChecks
  <2>1. /\ sync'.prior = Decoded /\ sync'.priorSpent = Decoded \cap nullified
        /\ UNCHANGED <<spentRows, up, spend>> /\ spend.pc \notin {"proving", "landed"}
    BY <1>1 DEF SyncChecks, LaneFree, tables, spending
  <2>2. \A k \in 1..Len(up) : Telling(up[k]) => up[k].spent \subseteq nullified
    BY <1>t DEF MessagesTrue, MessageTrue, Telling
  <2> QED
    BY <1>t, <2>1, <2>2
<1>2. CASE UNCHANGED sync
  <2>1. /\ sync.pc = "checked" /\ spend.pc \notin {"proving", "landed"}
        /\ spentRows \cap sync.prior \subseteq sync.priorSpent
        /\ \A k \in 1..Len(up) : Telling(up[k]) => up[k].spent \cap sync.prior \subseteq sync.priorSpent
    BY <1>2 DEF CheckCovers
  <2>2. spend'.pc \notin {"proving", "landed"}
    BY <2>1, LaneKept
  <2>3. spentRows' \cap sync.prior \subseteq sync.priorSpent
    <3>1. CASE Deliver /\ Head(up).type = "notes" /\ NotesCome(Head(up))
      BY <2>1, <3>1, AnswerIsTrue DEF MessageTrue
    <3>2. CASE Deliver /\ Head(up).type \in {"nullifiers", "spent"} /\ MarkRows(Head(up).spent)
      <4>1. spentRows' = spentRows \union (Head(up).spent \cap known)
        BY <3>2 DEF MarkRows
      <4>2. Head(up) = up[1] /\ 1 \in 1..Len(up) /\ Telling(Head(up))
        BY <1>t, <3>2, Taken DEF Deliver, Telling
      <4> QED
        BY <2>1, <4>1, <4>2
    <3>3. CASE UNCHANGED spentRows
      BY <2>1, <3>3
    <3> QED
      BY <3>1, <3>2, <3>3, MarkCases
  <2>4. \A k \in 1..Len(up') : Telling(up'[k]) => up'[k].spent \cap sync.prior \subseteq sync.priorSpent
    <3>1. CASE UNCHANGED up
      BY <2>1, <3>1
    <3>2. CASE up' = <<>>
      <4>1. Len(up') = 0
        BY <3>2
      <4> QED
        BY <4>1
    <3>3. CASE Deliver
      <4>1. \A k \in 1..Len(up') : k + 1 \in 1..Len(up) /\ up'[k] = up[k + 1]
        BY <1>t, <3>3, Taken DEF Deliver
      <4> QED
        BY <2>1, <4>1
    <3>4. ~SyncAnswers
      BY <1>2, <2>1 DEF SyncAnswers
    <3>5. ~CheckNullifiers
      BY <2>1 DEF CheckNullifiers, Allowed, NoneCheckedBeside
    <3> QED
      BY <2>1, <3>1, <3>2, <3>3, <3>4, <3>5, UpCases
  <2> QED
    BY <1>2, <2>2, <2>3, <2>4
<1>3. UNCHANGED sync \/ SyncChecks
  <2>1. ~SyncAnswers /\ (FetchDone \/ AskWorker => UNCHANGED sync)
    BY DEF FetchDone, AskWorker, Settle, NoSync, SyncAnswers
  <2> QED
    BY <2>1, SyncCases
<1> QED
  BY <1>1, <1>2, <1>3

\* Messages that follow an answer do not matter to it.
LEMMA AnswerStays ==
  ASSUME AnswerCovers, UNCHANGED spentRows, Len(up) \in Nat, Len(up') \in Nat,
         \A k \in 1..Len(up') : \/ k \in 1..Len(up) /\ up'[k] = up[k]
                                \/ up'[k].type # "notes"
                                \/ /\ k = Len(up) + 1
                                   /\ spentRows \cap up'[k].own \subseteq up'[k].spent
                                   /\ \A j \in 1..Len(up) : Telling(up[j]) =>
                                        up[j].spent \cap up'[k].own \subseteq up'[k].spent,
         \A k \in 1..Len(up) : k \in 1..Len(up') => up'[k] = up[k]
  PROVE  AnswerCovers'
<1> SUFFICES ASSUME NEW k \in 1..Len(up'), up'[k].type = "notes"
             PROVE  /\ spentRows \cap up'[k].own \subseteq up'[k].spent
                    /\ \A j \in 1..(k - 1) : Telling(up'[j]) =>
                         up'[j].spent \cap up'[k].own \subseteq up'[k].spent
  BY DEF AnswerCovers, Telling
<1>1. CASE k \in 1..Len(up) /\ up'[k] = up[k]
  <2>1. \A j \in 1..(k - 1) : j \in 1..Len(up) /\ up'[j] = up[j]
    BY <1>1
  <2> QED
    BY <1>1, <2>1 DEF AnswerCovers
<1>2. CASE /\ k = Len(up) + 1
           /\ spentRows \cap up'[k].own \subseteq up'[k].spent
           /\ \A j \in 1..Len(up) : Telling(up[j]) =>
                up[j].spent \cap up'[k].own \subseteq up'[k].spent
  <2>1. \A j \in 1..(k - 1) : j \in 1..Len(up) /\ up'[j] = up[j]
    BY <1>2
  <2> QED
    BY <1>2, <2>1
<1> QED
  BY <1>1, <1>2

LEMMA StepAnswer == IInv /\ CheckCovers /\ AnswerCovers /\ [Next]_vars => AnswerCovers'
<1> SUFFICES ASSUME IInv, CheckCovers, AnswerCovers, [Next]_vars
             PROVE  AnswerCovers'
  OBVIOUS
<1>t. Typed /\ up \in Seq(Messages) /\ Len(up) \in Nat /\ sync \in Syncs /\ OneAnswer
  BY Bounds, LenProperties DEF IInv
<1>0. CASE up' = <<>>
  <2>1. Len(up') = 0
    BY <1>0
  <2> QED
    BY <2>1 DEF AnswerCovers
<1>1. CASE Deliver
  <2>1. /\ \A k \in 1..Len(up') : k + 1 \in 1..Len(up) /\ up'[k] = up[k + 1]
        /\ Head(up) = up[1] /\ 1 \in 1..Len(up) /\ Len(up') = Len(up) - 1
    BY <1>t, <1>1, Taken DEF Deliver
  <2>2. SUFFICES ASSUME NEW k \in 1..Len(up'), up'[k].type = "notes"
                 PROVE  /\ spentRows' \cap up'[k].own \subseteq up'[k].spent
                        /\ \A j \in 1..(k - 1) : Telling(up'[j]) =>
                             up'[j].spent \cap up'[k].own \subseteq up'[k].spent
    BY DEF AnswerCovers, Telling
  <2>3. /\ k + 1 \in 1..Len(up) /\ up'[k] = up[k + 1] /\ k + 1 # 1 /\ 1 \in 1..k
        /\ \A j \in 1..(k - 1) : j + 1 \in 1..k /\ up'[j] = up[j + 1]
    BY <1>t, <2>1
  <2>4. /\ spentRows \cap up'[k].own \subseteq up'[k].spent
        /\ \A j \in 1..k : Telling(up[j]) => up[j].spent \cap up'[k].own \subseteq up'[k].spent
    <3>1. (k + 1) - 1 = k
      BY <2>3
    <3> QED
      BY <2>2, <2>3, <3>1 DEF AnswerCovers
  <2>5. Head(up).type # "notes"
    BY <1>t, <2>1, <2>2, <2>3 DEF OneAnswer
  <2>6. spentRows' \cap up'[k].own \subseteq up'[k].spent
    <3>1. CASE Head(up).type \in {"nullifiers", "spent"} /\ MarkRows(Head(up).spent)
      <4>1. spentRows' = spentRows \union (Head(up).spent \cap known)
        BY <3>1 DEF MarkRows
      <4>2. Telling(up[1]) /\ Head(up) = up[1]
        BY <3>1, <2>1 DEF Telling
      <4> QED
        BY <2>3, <2>4, <4>1, <4>2
    <3> QED
      BY <2>4, <2>5, <3>1, MarkCases
  <2> QED
    BY <2>3, <2>4, <2>6
<1>2. ~Deliver => UNCHANGED spentRows
  BY MarkCases
<1>3. CASE UNCHANGED up /\ ~Deliver
  BY <1>2, <1>3 DEF AnswerCovers, Telling
<1>4. CASE SyncAnswers /\ ~Deliver
  <2> DEFINE answer == [type |-> "notes", own |-> sync.prior, spent |-> sync.priorSpent]
  <2>1. answer \in Messages /\ sync.pc = "checked" /\ up' = Append(up, answer)
    BY <1>t, <1>4 DEF Syncs, Messages, SyncAnswers
  <2>2. /\ up' \in Seq(Messages) /\ Len(up') = Len(up) + 1
        /\ \A k \in 1..Len(up') : \/ k \in 1..Len(up) /\ up'[k] = up[k]
                                  \/ k = Len(up) + 1 /\ up'[k] = answer
    BY <1>t, <2>1, QueuedOne
  <2>3. /\ spentRows \cap answer.own \subseteq answer.spent
        /\ \A j \in 1..Len(up) : Telling(up[j]) => up[j].spent \cap answer.own \subseteq answer.spent
    BY <2>1 DEF CheckCovers
  <2>4. Len(up') \in Nat /\ \A k \in 1..Len(up) : k \in 1..Len(up') => up'[k] = up[k]
    BY <1>t, <2>2
  <2> HIDE DEF answer
  <2> QED
    BY <1>t, <1>2, <1>4, <2>2, <2>3, <2>4, AnswerStays
<1>5. CASE CheckNullifiers /\ ~Deliver
  <2> DEFINE answer == [type |-> "nullifiers", spent |-> refresh \cap nullified]
  <2>1. answer \in Messages /\ answer.type # "notes" /\ up' = Append(up, answer)
    <3>1. nullified \subseteq Ours /\ Ours \subseteq 1..Len(pool)
      BY <1>t, Bounds
    <3>2. nullified \in SUBSET Int
      BY <3>1
    <3>3. answer \in Messages /\ answer.type # "notes"
      BY <3>2 DEF Messages
    <3> QED
      BY <1>5, <3>3 DEF CheckNullifiers
  <2>2. /\ up' \in Seq(Messages) /\ Len(up') = Len(up) + 1
        /\ \A k \in 1..Len(up') : \/ k \in 1..Len(up) /\ up'[k] = up[k]
                                  \/ k = Len(up) + 1 /\ up'[k] = answer
    BY <1>t, <2>1, QueuedOne
  <2>4. Len(up') \in Nat /\ \A k \in 1..Len(up) : k \in 1..Len(up') => up'[k] = up[k]
    BY <1>t, <2>2
  <2> HIDE DEF answer
  <2> QED
    BY <1>t, <1>2, <1>5, <2>1, <2>2, <2>4, AnswerStays
<1>6. ASSUME NEW notes \in SUBSET Int, NEW messages \in Seq(Messages),
             Reported(messages, notes), up' = up \o messages, ~Deliver
      PROVE  AnswerCovers'
  <2>1. /\ up' \in Seq(Messages) /\ Len(up') = Len(up) + Len(messages)
        /\ \A k \in 1..Len(up') :
             \/ k \in 1..Len(up) /\ up'[k] = up[k]
             \/ \E j \in 1..Len(messages) : k = Len(up) + j /\ up'[k] = messages[j]
    BY <1>6, <1>t, Queued
  <2>2. \A j \in 1..Len(messages) : messages[j].type # "notes"
    BY <1>6 DEF Reported
  <2>3. Len(messages) \in Nat /\ Len(up') \in Nat
    BY <1>t, <2>1, LenProperties
  <2>4. \A k \in 1..Len(up) : k \in 1..Len(up') => up'[k] = up[k]
    BY <1>t, <2>1, <2>3
  <2>5. \A k \in 1..Len(up') : (k \in 1..Len(up) /\ up'[k] = up[k]) \/ up'[k].type # "notes"
    BY <2>1, <2>2
  <2> QED
    BY <1>t, <1>2, <1>6, <2>3, <2>4, <2>5, AnswerStays
<1> QED
  BY <1>0, <1>1, <1>3, <1>4, <1>5, <1>6, UpCases

\* Neither a sync nor anything else offers a note again that was marked spent:
\* the marks of an answer cover those it overwrites, if nullifiers are not checked
\* between what the sync asked the chain and its answer.
THEOREM SpentForGood ==
  ASSUME NoneCheckedBeside
  PROVE  Spec => SpentStays
<1>1. Init => CheckCovers /\ AnswerCovers
  BY Empty DEF Init, CheckCovers, AnswerCovers
<1>2. IInv /\ CheckCovers /\ AnswerCovers /\ [Next]_vars => CheckCovers' /\ AnswerCovers'
  BY StepCheck, StepAnswer
<1>3. IInv /\ CheckCovers /\ AnswerCovers /\ [Next]_vars => [spentRows \subseteq spentRows']_vars
  <2> SUFFICES ASSUME IInv, AnswerCovers, [Next]_vars
               PROVE  spentRows \subseteq spentRows'
    OBVIOUS
  <2>1. CASE Deliver /\ Head(up).type = "notes" /\ NotesCome(Head(up))
    <3>1. Head(up) = up[1] /\ 1 \in 1..Len(up)
      BY <2>1, Taken, Bounds DEF Deliver, IInv
    <3>2. spentRows \cap Head(up).own \subseteq Head(up).spent
      BY <2>1, <3>1 DEF AnswerCovers
    <3>3. spentRows' = (spentRows \ Head(up).own) \union Head(up).spent
      BY <2>1 DEF NotesCome
    <3> QED
      BY <3>2, <3>3
  <2> QED
    BY <2>1, MarkCases DEF MarkRows
<1> QED
  BY Inductive, <1>1, <1>2, <1>3, PTL DEF Spec, SpentStays
=============================================================================
