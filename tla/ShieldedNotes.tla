--------------------------- MODULE ShieldedNotes ---------------------------
(***************************************************************************)
(* The shielded notes of one wallet (ShieldedService).  The pool is an     *)
(* append-only list of encrypted notes; which are ours only shows by       *)
(* decrypting them with the seed, and which are spent only by asking the   *)
(* chain for their nullifiers.  A sync downloads the pool, sends what is   *)
(* new and what is known to the platform worker, and stores the answer     *)
(* with a cursor; a spend, in the worker, picks among the notes not spent. *)
(* Syncs, spends, a check of nullifiers and reveals of addresses run side  *)
(* by side: each awaits SQL and the worker, and acts on what it read.      *)
(*                                                                         *)
(* SQL has one connection: a statement takes effect when it is issued, and *)
(* answers come in that order.  An action runs from the end of one await   *)
(* to the next statement or request.                                       *)
(***************************************************************************)
EXTENDS Integers, Sequences, FiniteSets

LOCAL INSTANCE FiniteSetsExt
LOCAL INSTANCE SequencesExt

CONSTANTS
  Gap,        \* of SHIELDED_ADDRESS_WINDOW: gapLimit and batch
  MaxAddress, \* bound on addresses: indexes 0..MaxAddress
  Shared,     \* addresses an earlier installation of this wallet gave away
  Payees,     \* whom notes may pay: addresses of ours, or Foreign
  MaxPool,    \* bound on the notes of the pool
  MaxFaults,  \* bound on failed downloads and results, worker exits and crashes
  Excluded    \* situations this instance leaves out, see Allowed

Foreign == -1

ASSUME ShieldedAssumption ==
  /\ Gap \in Nat \ {0} /\ MaxAddress \in Nat /\ Gap <= MaxAddress
  /\ Shared \subseteq 0..MaxAddress /\ Payees \subseteq {Foreign} \union 0..MaxAddress
  /\ MaxPool \in Nat /\ MaxFaults \in Nat

VARIABLES
  pool,       \* the notes of the chain: the address of ours each pays, or Foreign
  nullified,  \* those spent, of ours
  stored,     \* shielded_pool_notes: the pool's first notes
  known,      \* shielded_notes: ours as far as they are decoded
  spentRows,  \* those of them marked spent
  cursor,     \* shielded_decoded_count
  revealed,   \* shielded_addresses: how many rows
  fetch,      \* noteFetches: NoFetch, Counting, or the count it downloads up to
  state,      \* syncStates: phase and notes, and the pool's length when it began
  sync,       \* the sync that has yet to settle: what it read
  ending,     \* a settled sync and what it has yet to store
  spend,      \* the spend in spendStates
  tail,       \* a spend that is done, and has its refresh before it
  refresh,    \* refreshSpentFlags: what it asked about
  marking,    \* markNotesSpent: what it has issued its statement for
  add,        \* addAddress: the index it read, NotAdding if it is not
  up,         \* messages from the worker
  faults

chain == <<pool, nullified>>
tables == <<stored, known, spentRows, cursor, revealed>>
syncing == <<state, sync, ending>>
spending == <<spend, tail>>
vars == <<chain, tables, fetch, syncing, spending, refresh, marking, add, up,
          faults>>

NoFetch == -1
Counting == -2
NotAdding == -1

Notes == 1..MaxPool
Ours == {i \in DOMAIN pool : pool[i] # Foreign}

Allowed(situation, happens) == happens => situation \notin Excluded

NoState == [phase |-> "idle", born |-> 0, list |-> {}, listSpent |-> {}]
NoSync == [pc |-> "idle", from |-> 0, upto |-> 0, prior |-> {}, priorSpent |-> {}]
NoEnding == [pc |-> "idle", upto |-> 0]
Spending(pc, pick, change) == [pc |-> pc, upto |-> 0, pick |-> pick, change |-> change]
NoSpend == Spending("idle", {}, 0)

Init ==
  /\ \E n \in 0..MaxPool : pool \in [1..n -> (Shared \union {Foreign}) \cap Payees]
  /\ nullified = {}
  /\ stored = 0 /\ known = {} /\ spentRows = {} /\ cursor = 0 /\ revealed = Gap
  /\ fetch = NoFetch /\ state = NoState /\ sync = NoSync /\ ending = NoEnding
  /\ spend = NoSpend /\ tail = "none" /\ refresh = {}
  /\ marking = {} /\ add = NotAdding
  /\ up = <<>> /\ faults = 0

-----------------------------------------------------------------------------
(* The address window *)

\* One round of widen: the notes decoded so far prove addresses used, and Gap
\* unused ones are kept after the last used one that is revealed.
Round(n) ==
  LET used == {a \in 0..(n - 1) : \E i \in known : pool[i] = a}
      last == IF used = {} THEN -1 ELSE Max(used)
  IN  IF n - 1 >= last + Gap THEN n ELSE Max({last + Gap, n - 1 + Gap}) + 1

\* revealWindow over n rows: rounds until nothing is added.
Window(n) ==
  LET bound == MaxAddress + 1
      Widened[m \in 0..bound] ==
        IF Round(m) = m \/ Round(m) >= bound
        THEN Min({Round(m), bound}) ELSE Widened[Round(m)]
  IN  Widened[n]

\* The rows it may leave: that one window, stated to be within the bound.
Windows(n) == {Window(n)} \cap 0..(MaxAddress + 1)

-----------------------------------------------------------------------------
(* Downloading the pool *)

\* checkForNewNotes: join the download under way, or start one.
Fetching == fetch' = IF fetch = NoFetch THEN Counting ELSE fetch

\* prefetchNotes, for a wallet that ever decoded notes.
Prefetch ==
  /\ cursor > 0 /\ fetch = NoFetch
  /\ Fetching
  /\ UNCHANGED <<chain, tables, syncing, spending, refresh, marking, add, up, faults>>

Count ==
  /\ fetch = Counting
  /\ fetch' = Len(pool)
  /\ UNCHANGED <<chain, tables, syncing, spending, refresh, marking, add, up, faults>>

\* saveEncryptedNotes of a batch.
Download ==
  /\ fetch > stored
  /\ stored' \in (stored + 1)..fetch
  /\ UNCHANGED <<chain, known, spentRows, cursor, revealed, fetch, syncing,
                 spending, refresh, marking, add, up, faults>>

\* The download is complete, and whoever awaits it goes on: a sync reads its
\* notes, its cursor and the pool; a spend sends the pool to the worker.
FetchDone ==
  /\ fetch \in 0..stored
  /\ fetch' = NoFetch
  /\ sync' = IF sync.pc = "fetching"
             THEN [pc |-> "reading", from |-> cursor, upto |-> stored,
                   prior |-> known, priorSpent |-> spentRows]
             ELSE sync
  /\ spend' = IF spend.pc = "fetching"
              THEN [pc |-> "queued", upto |-> stored, pick |-> {}, change |-> 0] ELSE spend
  /\ UNCHANGED <<chain, tables, state, ending, tail, refresh, marking, add, up, faults>>

\* A sync or a spend whose await failed is in error.
SyncFails ==
  sync' = NoSync /\ state' = [NoState EXCEPT !.phase = "error"]
SpendFails == spend' = Spending("error", {}, spend.change)

FetchFails ==
  /\ fetch # NoFetch /\ faults < MaxFaults
  /\ fetch' = NoFetch
  /\ IF sync.pc = "fetching" THEN SyncFails ELSE UNCHANGED <<sync, state>>
  /\ IF spend.pc = "fetching" THEN SpendFails ELSE UNCHANGED spend
  /\ faults' = faults + 1
  /\ UNCHANGED <<chain, tables, ending, tail, refresh, marking, add, up>>

-----------------------------------------------------------------------------
(* Syncing *)

Syncing == state.phase = "syncing"

\* beginSync, where none runs: a fresh state, and the download.
BeginSync ==
  /\ ~Syncing
  /\ Allowed("joined download", fetch >= 0 /\ fetch < Len(pool))
  /\ state' = [phase |-> "syncing", born |-> Len(pool), list |-> {}, listSpent |-> {}]
  /\ sync' = [NoSync EXCEPT !.pc = "fetching"]
  /\ Fetching
  /\ UNCHANGED ending

\* startSync, as the user unlocks the wallet.
StartSync ==
  /\ BeginSync
  /\ UNCHANGED <<chain, tables, spending, refresh, marking, add, up, faults>>

\* settleSync; what the sync has yet to do goes on beside the next one.
Settle(notes, spent, rest) ==
  /\ state' = [phase |-> "done", born |-> state.born, list |-> notes, listSpent |-> spent]
  /\ sync' = NoSync
  /\ ending.pc = "idle"
  /\ ending' = [pc |-> rest, upto |-> sync.upto]

\* Nothing new: what was read is the answer.  Otherwise it goes to the worker.
AskWorker ==
  /\ sync.pc = "reading"
  /\ IF sync.upto = sync.from
     THEN Settle(sync.prior, sync.priorSpent, "window")
     ELSE /\ sync' = [pc |-> "asked", from |-> sync.from, upto |-> sync.upto,
                      prior |-> sync.prior, priorSpent |-> {}]
          /\ UNCHANGED <<state, ending>>
  /\ UNCHANGED <<chain, tables, fetch, spending, refresh, marking, add, up, faults>>

\* The prover lane holds one task at a time.
LaneFree == spend.pc \notin {"proving", "landed"} /\ sync.pc # "checked"

\* A bug for Decoded: the notes already known are not sent along.
Decoded_NewOnly == Ours \cap (sync.from + 1)..sync.upto

\* recoverNotes, of the notes that are new and those that were known.
Decoded == Ours \cap (sync.prior \union (sync.from + 1)..sync.upto)

\* A bug for SyncChecks: it asks about the notes that are new.
SyncChecks_NewOnly ==
  /\ sync.pc = "asked" /\ LaneFree
  /\ sync' = [pc |-> "checked", from |-> 0, upto |-> sync.upto, prior |-> Decoded,
              priorSpent |-> (Decoded \cap nullified) \ sync.prior]
  /\ UNCHANGED <<chain, tables, fetch, state, ending, spending, refresh, marking,
                 add, up, faults>>

\* sync, in the worker: decode what came, ask the chain what is spent ...
SyncChecks ==
  /\ sync.pc = "asked" /\ LaneFree
  /\ sync' = [pc |-> "checked", from |-> 0, upto |-> sync.upto, prior |-> Decoded,
              priorSpent |-> Decoded \cap nullified]
  /\ UNCHANGED <<chain, tables, fetch, state, ending, spending, refresh, marking,
                 add, up, faults>>

\* ... and tell.
SyncAnswers ==
  /\ sync.pc = "checked"
  /\ sync' = [pc |-> "answered", from |-> 0, upto |-> sync.upto, prior |-> {}, priorSpent |-> {}]
  /\ up' = Append(up, [type |-> "notes", own |-> sync.prior, spent |-> sync.priorSpent])
  /\ UNCHANGED <<chain, tables, fetch, state, ending, spending, refresh, marking,
                 add, faults>>

\* The answer of a sync: it is settled, and its notes written over the rows.
NotesCome(m) ==
  /\ Settle(m.own, m.spent, "cursor")
  /\ known' = known \union m.own
  /\ spentRows' = (spentRows \ m.own) \union m.spent
  /\ UNCHANGED <<chain, stored, cursor, revealed, fetch, spending, refresh,
                 marking, add, faults>>

\* setShieldedDecodedCount
SetCursor ==
  /\ ending.pc = "cursor"
  /\ cursor' = ending.upto
  /\ ending' = [pc |-> "window", upto |-> 0]
  /\ UNCHANGED <<chain, stored, known, spentRows, revealed, fetch, state, sync,
                 spending, refresh, marking, add, up, faults>>

\* revealWindow, the last thing a sync does.
SyncWindow ==
  /\ ending.pc = "window"
  /\ Allowed("a window is revealed beside a click", add # NotAdding)
  /\ revealed' \in Windows(revealed)
  /\ ending' = NoEnding
  /\ UNCHANGED <<chain, stored, known, spentRows, cursor, fetch, state, sync,
                 spending, refresh, marking, add, up, faults>>

-----------------------------------------------------------------------------
(* Marking notes spent *)

\* markNotesSpent, its statement (one call at a time: MarkList is soon due).
MarkRows(indexes) ==
  /\ marking = {}
  /\ Allowed("a note is marked while a sync reads", sync.pc = "reading")
  /\ spentRows' = spentRows \union (indexes \cap known)
  /\ marking' = indexes

\* And the part after it: the list a settled sync left is marked too.
MarkList ==
  /\ marking # {}
  /\ marking' = {}
  /\ state' = IF state.phase = "done"
              THEN [state EXCEPT !.listSpent = @ \union (marking \cap state.list)]
              ELSE state
  /\ UNCHANGED <<chain, tables, fetch, sync, ending, spending, refresh, add, up, faults>>

\* refreshSpentFlags: the rows not marked are asked about, on no lane.
RefreshSpent ==
  /\ refresh = {}
  /\ refresh' = known \ spentRows
  /\ UNCHANGED <<chain, tables, fetch, syncing, spending, marking, add, up, faults>>

\* checkNullifiers
CheckNullifiers ==
  /\ Allowed("nullifiers are checked while a sync recovers", sync.pc = "checked")
  /\ refresh # {} /\ ~\E k \in DOMAIN up : up[k].type = "nullifiers"
  /\ up' = Append(up, [type |-> "nullifiers", spent |-> refresh \cap nullified])
  /\ UNCHANGED <<chain, tables, fetch, syncing, spending, refresh, marking, add,
                 faults>>

NullifiersCome(m) ==
  /\ refresh' = {}
  /\ IF m.spent = {} THEN UNCHANGED <<spentRows, marking>> ELSE MarkRows(m.spent)
  /\ UNCHANGED <<chain, stored, known, cursor, revealed, fetch, syncing, spending,
                 add, faults>>

-----------------------------------------------------------------------------
(* Spending *)

\* The bound on the pool leaves room for the change of the spend.
Room ==
  Len(pool) + (IF spend.pc \in {"fetching", "queued", "proving"} THEN 1 ELSE 0) < MaxPool

\* startSpend: unless one runs, the window and the download.
StartSpend ==
  /\ spend.pc \in {"idle", "done", "error"} /\ tail = "none" /\ known # {} /\ Room
  /\ Allowed("a window is revealed beside a click", add # NotAdding)
  /\ spend' = [NoSpend EXCEPT !.pc = "fetching"]
  /\ revealed' \in Windows(revealed)
  /\ Fetching
  /\ UNCHANGED <<chain, stored, known, spentRows, cursor, syncing, tail, refresh,
                 marking, add, up, faults>>

Report(messages) == up' = up \o messages
SpentNotes(indexes) ==
  IF indexes = {} THEN <<>> ELSE <<[type |-> "spent", spent |-> indexes]>>
Refused == <<[type |-> "refused"]>>

\* spend, in the worker: what is spent is found out and told, and a note picked
\* among the others, if there is one.
SpendChecks ==
  LET own == Ours \cap 1..spend.upto
  IN  /\ spend.pc = "queued" /\ LaneFree
      /\ \/ \E i \in own \ nullified :
              /\ spend' = Spending("proving", {i}, spend.change)
              /\ Report(SpentNotes(own \cap nullified))
         \/ /\ own \subseteq nullified
            /\ spend' = Spending("refused", {}, spend.change)
            /\ Report(SpentNotes(own \cap nullified) \o Refused)
      /\ UNCHANGED <<chain, tables, fetch, syncing, tail, refresh, marking, add, faults>>

\* The transition is broadcast: it lands, with a change note to the first
\* address, unless the note was spent from elsewhere meanwhile.
SpendLands ==
  /\ spend.pc = "proving"
  /\ \/ /\ spend.pick \cap nullified = {}
        /\ nullified' = nullified \union spend.pick
        /\ pool' = Append(pool, 0)
        /\ spend' = Spending("landed", spend.pick, Len(pool) + 1)
        /\ UNCHANGED up
     \/ /\ spend.pick \cap nullified # {}
        /\ spend' = Spending("refused", {}, spend.change)
        /\ Report(Refused)
        /\ UNCHANGED <<pool, nullified>>
  /\ UNCHANGED <<tables, fetch, syncing, tail, refresh, marking, add, faults>>

\* waitForResult answers, or does not.
SpendReports ==
  /\ spend.pc = "landed"
  /\ \/ /\ Report(SpentNotes(spend.pick) \o <<[type |-> "accepted"]>>)
        /\ UNCHANGED faults
     \/ /\ faults < MaxFaults /\ faults' = faults + 1
        /\ Report(Refused)
  /\ spend' = Spending("reported", {}, spend.change)
  /\ UNCHANGED <<chain, tables, fetch, syncing, tail, refresh, marking, add>>

SpentCome(m) ==
  /\ MarkRows(m.spent)
  /\ UNCHANGED <<chain, stored, known, cursor, revealed, fetch, syncing, spending,
                 refresh, add, faults>>

\* The result: the spend is done, and refreshes the notes with the seed it holds.
AcceptedComes ==
  /\ spend' = [spend EXCEPT !.pc = "done"]
  /\ tail' = "refresh"
  /\ UNCHANGED <<chain, tables, fetch, syncing, refresh, marking, add, faults>>

RefusedComes ==
  /\ SpendFails
  /\ UNCHANGED <<chain, tables, fetch, syncing, tail, refresh, marking, add, faults>>

\* A bug for RefreshNotes: a spend that is done leaves it at that.
RefreshNotes_Never ==
  /\ tail = "refresh"
  /\ tail' = "none"
  /\ UNCHANGED <<chain, tables, fetch, syncing, spend, refresh, marking, add, up,
                 faults>>

\* refreshNotes: a sync of its own, unless one runs.
RefreshNotes ==
  /\ tail = "refresh"
  /\ tail' = "none"
  /\ Allowed("a sync runs when a spend is done", Syncing)
  /\ IF Syncing THEN UNCHANGED <<fetch, syncing>> ELSE BeginSync
  /\ UNCHANGED <<chain, tables, spend, refresh, marking, add, up, faults>>

-----------------------------------------------------------------------------
(* Revealing addresses *)

\* revealNextAddress, refused while stored notes are not decoded: what is next?
\* addQueue lets one call in at a time.
AddReads ==
  /\ add = NotAdding /\ revealed <= MaxAddress
  /\ stored <= cursor
  /\ add' = revealed
  /\ UNCHANGED <<chain, tables, fetch, syncing, spending, refresh, marking, up,
                 faults>>

\* It is inserted, if it is not there, and the window follows.
AddWrites ==
  /\ add # NotAdding
  /\ add' = NotAdding
  /\ revealed' \in Windows(Max({revealed, add + 1}))
  /\ UNCHANGED <<chain, stored, known, spentRows, cursor, fetch, syncing, spending,
                 refresh, marking, up, faults>>

-----------------------------------------------------------------------------
(* Messages, the chain and faults *)

Deliver ==
  /\ up # <<>>
  /\ up' = Tail(up)
  /\ LET m == Head(up)
     IN  \/ m.type = "notes" /\ NotesCome(m)
         \/ m.type = "nullifiers" /\ NullifiersCome(m)
         \/ m.type = "spent" /\ SpentCome(m)
         \/ m.type = "accepted" /\ AcceptedComes
         \/ m.type = "refused" /\ RefusedComes

\* A note is paid to an address that was given away, or to somebody else.
Receive(a) ==
  /\ Room
  /\ a \in {Foreign} \union Shared \union 0..(revealed - 1)
  /\ pool' = Append(pool, a)
  /\ UNCHANGED <<nullified, tables, fetch, syncing, spending, refresh, marking,
                 add, up, faults>>

\* The wallet is restored elsewhere too, and spends there.
SpentElsewhere(i) ==
  /\ i \in Ours \ nullified
  /\ nullified' = nullified \union {i}
  /\ UNCHANGED <<pool, tables, fetch, syncing, spending, refresh, marking, add,
                 up, faults>>

\* The worker exits, and what was asked of it fails.
WorkerExits ==
  /\ faults < MaxFaults /\ faults' = faults + 1
  /\ fetch' = NoFetch
  /\ IF sync.pc \in {"fetching", "asked", "checked", "answered"}
     THEN SyncFails ELSE UNCHANGED <<sync, state>>
  /\ IF spend.pc \in {"idle", "done", "error"} THEN UNCHANGED spend ELSE SpendFails
  /\ refresh' = {}
  /\ up' = <<>>
  /\ UNCHANGED <<chain, tables, ending, tail, marking, add>>

\* So does the app: the tables are what is left.
Crash ==
  /\ faults < MaxFaults /\ faults' = faults + 1
  /\ fetch' = NoFetch /\ state' = NoState /\ sync' = NoSync /\ ending' = NoEnding
  /\ spend' = NoSpend /\ tail' = "none" /\ refresh' = {}
  /\ marking' = {} /\ add' = NotAdding /\ up' = <<>>
  /\ UNCHANGED <<chain, tables>>

-----------------------------------------------------------------------------
\* What goes on by itself, in the main process and in the worker.
FetchSteps == Count \/ Download \/ FetchDone
SyncSteps == AskWorker \/ SyncChecks \/ SyncAnswers
SettledSteps == SetCursor \/ SyncWindow
SpendSteps == SpendChecks \/ SpendLands \/ SpendReports
Steps ==
  \/ FetchSteps \/ SyncSteps \/ SettledSteps \/ SpendSteps
  \/ Deliver \/ MarkList \/ CheckNullifiers \/ AddWrites \/ RefreshNotes

\* What is asked for, and what happens to the program.
Environment ==
  \/ Prefetch \/ StartSync \/ RefreshSpent \/ StartSpend \/ AddReads
  \/ FetchFails \/ WorkerExits \/ Crash
  \/ \E a \in Payees : Receive(a)
  \/ \E i \in Notes : SpentElsewhere(i)

Next == Steps \/ Environment

Spec == Init /\ [][Next]_vars

\* SQL, the network and the worker answer, or fail: what was begun goes on.
FairSpec ==
  /\ Spec
  /\ WF_vars(FetchSteps) /\ WF_vars(SyncSteps) /\ WF_vars(SettledSteps)
  /\ WF_vars(SpendSteps) /\ WF_vars(Deliver) /\ WF_vars(MarkList)
  /\ WF_vars(AddWrites) /\ WF_vars(RefreshNotes)

-----------------------------------------------------------------------------
TypeOK ==
  /\ Len(pool) <= MaxPool /\ stored \in 0..Len(pool) /\ cursor \in 0..stored
  /\ nullified \subseteq Ours /\ known \subseteq Ours
  /\ spentRows \subseteq known \cap nullified
  /\ revealed \in 0..(MaxAddress + 1)
  /\ fetch \in -2..Len(pool)
  /\ state.phase \in {"idle", "syncing", "done", "error"}
  /\ state.listSpent \subseteq state.list
  /\ sync.pc \in {"idle", "fetching", "reading", "asked", "checked", "answered"}
  /\ (sync.pc = "idle" <=> state.phase # "syncing")
  /\ ending.pc \in {"idle", "cursor", "window"}
  /\ spend.pc \in {"idle", "fetching", "queued", "proving", "landed", "reported",
                   "refused", "done", "error"}
  /\ tail \in {"none", "refresh"} /\ add \in -1..MaxAddress

\* Decoding is a prefix: no note of ours below the cursor is missing from the
\* rows, whichever syncs overlapped, failed or died between their statements.
DecodedKnown == Ours \cap 1..cursor \subseteq known

\* A note marked spent stays spent: neither a sync nor anything else offers it
\* again (upsertNotes writes the flags of an answer over those of the rows).
SpentStays == [][spentRows \subseteq spentRows']_vars

\* The list of a settled sync, which selection and balance read, offers no note
\* that the rows say is spent, once the marking under way is through.
ListFollowsRows ==
  state.phase = "done" /\ marking = {} =>
    state.list \cap spentRows \subseteq state.listSpent

\* A sync that settles knows every note of ours that was in the pool when it
\* began (checkForNewNotes, settleSync).
SettledKnowsAll ==
  state.phase = "done" => Ours \cap 1..state.born \subseteq state.list

\* The notes a sync leaves are all there and as spent as the rows say: nothing of
\* ours below the cursor or older than the sync is missing, and no note is offered
\* that is marked spent (checkForNewNotes, settleSync, markNotesSpent).
NotesSound == TypeOK /\ DecodedKnown /\ ListFollowsRows /\ SettledKnowsAll

\* The change note of a spend told as done is found, unless something fails
\* (runSpend awaits refreshNotes while it holds the seed).
ChangeFound ==
  \A i \in Notes :
    (spend.pc = "done" /\ spend.change = i) ~> (i \in known \/ faults # 0)

\* A click reveals an address that was not revealed before it.
RevealsNew == [][add # NotAdding /\ AddWrites => add >= revealed]_vars

\* And one nobody had paid when it was chosen ("safe to hand out without
\* re-checking it", revealNextAddress).
RevealsFresh == [][AddReads => \A i \in Ours : pool[i] # add']_vars

\* A spend told as failed did not land: failed keeps the message of an error,
\* not the hash the worker attaches to it.
FailedDidNotLand == spend.pc = "error" => spend.change = 0
=============================================================================
