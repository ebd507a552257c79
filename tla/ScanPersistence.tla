--------------------------- MODULE ScanPersistence ---------------------------
(***************************************************************************)
(* How the main process turns the event stream of the p2p scan worker into *)
(* SQL: the persist queue and cursor gate of WalletSyncService, the cursor *)
(* writes of TransactionDAO, and the commands that start, stop, widen and  *)
(* reseed the worker.  One wallet, one network.                            *)
(*                                                                         *)
(* The worker is abstracted to what its event stream promises: it walks    *)
(* the heights upwards, emits blockApplied for every block its watch set   *)
(* matches and cursorAdvanced only for heights it has walked.  The walk    *)
(* itself is module FilterScan.                                            *)
(*                                                                         *)
(* The worker's postMessage channel and the persist queue are one sequence *)
(* here: both keep emit order, and a task main adds itself takes the same  *)
(* place relative to the worker's events whether those are still in the    *)
(* channel or already queued.                                              *)
(***************************************************************************)
EXTENDS Integers, Sequences, FiniteSets

CONSTANTS
  Tip,                 \* highest height of the chain
  Early,               \* heights touched by the addresses known from the start
  Late,                \* heights touched by the addresses discovery adds
  Floors,              \* fromHeight values of a discovery, 0 for none ({}: no discovery)
  Forks,               \* fork heights a reorg may rewind to ({}: no reorg)
  PERSIST_ATTEMPTS,    \* tries of one block write
  Fails,               \* kinds of write SQLite may refuse
  OverlappingStarts,   \* startSync may run over a live session or queued writes
  StopsDuringDiscovery, \* a session may end beside a discovery that is not through
  ReorgAheadOfScan,    \* a reorg may hit while the scan is still below its fork
  MaxQueue,            \* bound: length of the persist queue
  MaxReorgs,           \* bound: number of reorgs
  MaxStops,            \* bound: number of stops by the user
  MaxExits,            \* bound: number of exits of the p2p child
  MaxCrashes           \* bound: number of crashes of the application

Heights == 1..Tip
Genesis == 1                           \* GENESIS[network].height, also the birthday
NoRow == -1                            \* the wallet has no wallet_sync_state row

Branches == 0..MaxReorgs               \* 0: the chain at the start

Kinds == {"block", "advance", "reset", "rewind", "discover"}
Tasks == [kind: {"block"}, at: Heights, branch: Branches]
           \union [kind: Kinds \ {"block"}, at: 0..Tip, branch: Branches]
Commands == [kind: {"start", "stop", "watch", "reseed"},
             at: {NoRow} \union 0..Tip, watch: SUBSET Heights]

ASSUME ConstantsAssumption ==
  /\ Tip \in Nat /\ Tip >= 1
  /\ Early \subseteq Heights \ {Genesis} /\ Late \subseteq Heights \ {Genesis}
  /\ Floors \subseteq 0..Tip /\ Forks \subseteq Heights
  /\ PERSIST_ATTEMPTS \in Nat /\ PERSIST_ATTEMPTS >= 1
  /\ Fails \subseteq Kinds
  /\ OverlappingStarts \in BOOLEAN /\ ReorgAheadOfScan \in BOOLEAN
  /\ StopsDuringDiscovery \in BOOLEAN
  /\ MaxQueue \in Nat /\ MaxReorgs \in Nat
  /\ MaxStops \in Nat /\ MaxExits \in Nat /\ MaxCrashes \in Nat

VARIABLES
  \* the network
  chain,         \* chain[h]: which branch's block is at height h
  reorgs,        \* reorgs so far; the newest branch's number
  \* the p2p child
  session,       \* "down", "scanning", or "held" until main reseeds it
  pos,           \* every height up to pos is walked and its events emitted
  watch,         \* heights the session's watch set matches
  commands,      \* main -> child, in order
  \* the main process
  persistQueue,  \* events and writes not yet settled, oldest first
  attempt,       \* failed tries of the block write at the head
  failed,        \* ScanCursorGate: heights whose write failed for good
  starting,      \* watch set startSync has read, or NotStarting
  \* SQL
  cursor,        \* wallet_sync_state.cfilter_cursor_height
  saved,         \* <<height, branch>> of the blocks whose rows are committed
  owed,          \* heights touched by addresses whose rescan is on record
  stops,
  exits,
  crashes

chainVars == <<chain, reorgs>>
childVars == <<session, pos, watch>>
mainVars  == <<persistQueue, attempt, failed, starting>>
sqlVars   == <<cursor, saved, owed>>
halts     == <<stops, exits, crashes>>
vars == <<chainVars, childVars, commands, mainVars, sqlVars, halts>>

NotStarting == [reading |-> FALSE, watch |-> {}]

Lesser(a, b)  == IF a <= b THEN a ELSE b
Greater(a, b) == IF a >= b THEN a ELSE b

Task(kind, height) == [kind |-> kind, at |-> height, branch |-> reorgs]
Command(kind, height, heights) == [kind |-> kind, at |-> height, watch |-> heights]

Init ==
  /\ chain = [h \in Heights |-> 0] /\ reorgs = 0
  /\ session = "down" /\ pos = 0 /\ watch = {}
  /\ commands = <<>>
  /\ persistQueue = <<>> /\ attempt = 0 /\ failed = {} /\ starting = NotStarting
  /\ cursor = NoRow /\ saved = {} /\ owed = Early
  /\ stops = 0 /\ exits = 0 /\ crashes = 0

-----------------------------------------------------------------------------
(* ScanCursorGate *)

\* Math.min over the failed heights.
LowestFailed == CHOOSE h \in failed : \A f \in failed : h <= f

\* Mutant: the failed height itself counts as covered.
AllowedHeight_Inclusive(requested) ==
  IF failed = {} THEN requested ELSE Lesser(requested, LowestFailed)

\* How far a cursorAdvanced may move the cursor.
AllowedHeight(requested) ==
  IF failed = {} THEN requested ELSE Lesser(requested, LowestFailed - 1)

\* Whether a block write may carry its own cursor advance.
AllowsBlockCursor(height) == failed = {} \/ height < LowestFailed

-----------------------------------------------------------------------------
(* The worker's side of the stream *)

\* enqueuePersist, for the events of a live session.
Emit(tasks) ==
  /\ Len(persistQueue) + Len(tasks) <= MaxQueue
  /\ persistQueue' = persistQueue \o tasks

\* The drain passes the next height, emitting its block when it matched.
WorkerScan ==
  /\ session = "scanning" /\ pos < Tip
  /\ pos' = pos + 1
  /\ IF pos + 1 \in watch
       THEN Emit(<<[Task("block", pos + 1) EXCEPT !.branch = chain[pos + 1]]>>)
       ELSE UNCHANGED persistQueue
  /\ UNCHANGED <<chainVars, session, watch, commands, attempt, failed, starting,
                 sqlVars, halts>>

\* cursorAdvanced at the end of a drain.
WorkerSettle ==
  /\ session = "scanning" /\ pos > 0
  /\ Emit(<<Task("advance", pos)>>)
  /\ UNCHANGED <<chainVars, childVars, commands, attempt, failed, starting,
                 sqlVars, halts>>

\* Mutant: the scan cursor stays above the fork.
WorkerReorg_KeepsCursor(f) ==
  /\ session # "down" /\ f < Tip /\ reorgs < MaxReorgs
  /\ ReorgAheadOfScan \/ f <= pos
  /\ reorgs' = reorgs + 1
  /\ chain' = [h \in Heights |-> IF h > f THEN reorgs + 1 ELSE chain[h]]
  /\ session' = "held"
  /\ Emit(<<Task("reset", f), Task("rewind", f)>>)
  /\ UNCHANGED <<pos, watch, commands, attempt, failed, starting, sqlVars, halts>>

\* The header chain moved to another branch above f: the worker steps back,
\* holds until it is reseeded, and both cursorReset and chainRewound go out.
WorkerReorg(f) ==
  /\ session # "down" /\ f < Tip /\ reorgs < MaxReorgs
  /\ ReorgAheadOfScan \/ f <= pos
  /\ reorgs' = reorgs + 1
  /\ chain' = [h \in Heights |-> IF h > f THEN reorgs + 1 ELSE chain[h]]
  /\ session' = "held" /\ pos' = Lesser(pos, f)
  /\ Emit(<<Task("reset", f), Task("rewind", f)>>)
  /\ UNCHANGED <<watch, commands, attempt, failed, starting, sqlVars, halts>>

\* start: ignored while a session of the wallet is open.
ChildStart(cmd) ==
  /\ cmd.kind = "start"
  /\ IF session = "down"
       THEN session' = "scanning" /\ pos' = Greater(cmd.at, Genesis - 1) /\ watch' = cmd.watch
       ELSE UNCHANGED childVars
  /\ UNCHANGED persistQueue

ChildStop(cmd) ==
  /\ cmd.kind = "stop"
  /\ session' = "down" /\ pos' = 0 /\ watch' = {}
  /\ UNCHANGED persistQueue

\* Mutant: the match set widens without stepping the scan down.
ChildWatch_ForwardOnly(cmd) ==
  /\ cmd.kind = "watch"
  /\ IF session = "down" \/ cmd.watch \subseteq watch
       THEN UNCHANGED <<childVars, persistQueue>>
       ELSE /\ watch' = watch \union cmd.watch
            /\ Emit(<<Task("reset", Lesser(pos + 1, Greater(Genesis, cmd.at)))>>)
            /\ UNCHANGED <<session, pos>>

\* addWatchAddresses with a rewind: the scan steps down to the target and
\* echoes it as a cursorReset.  Nothing happens for addresses already watched.
ChildWatch(cmd) ==
  /\ cmd.kind = "watch"
  /\ IF session = "down" \/ cmd.watch \subseteq watch
       THEN UNCHANGED <<childVars, persistQueue>>
       ELSE LET target == Lesser(pos + 1, Greater(Genesis, cmd.at)) IN
            /\ watch' = watch \union cmd.watch
            /\ pos' = target - 1
            /\ Emit(<<Task("reset", target)>>)
            /\ UNCHANGED session

ChildReseed(cmd) ==
  /\ cmd.kind = "reseed"
  /\ session' = IF session = "held" THEN "scanning" ELSE session
  /\ UNCHANGED <<pos, watch, persistQueue>>

ChildReceive ==
  /\ commands # <<>>
  /\ LET cmd == Head(commands) IN
       ChildStart(cmd) \/ ChildStop(cmd) \/ ChildWatch(cmd) \/ ChildReseed(cmd)
  /\ commands' = Tail(commands)
  /\ UNCHANGED <<chainVars, attempt, failed, starting, sqlVars, halts>>

-----------------------------------------------------------------------------
(* The persist queue *)

\* writeAppliedBlock, the try that lands.
BlockLands(task) ==
  /\ task.kind = "block"
  /\ saved' = saved \union {<<task.at, task.branch>>}
  /\ cursor' = IF AllowsBlockCursor(task.at) THEN Greater(cursor, task.at) ELSE cursor
  /\ failed' = failed \ {task.at}
  /\ attempt' = 0
  /\ persistQueue' = Tail(persistQueue)
  /\ UNCHANGED <<owed, commands>>

\* writeAppliedBlock, a try SQLite refuses: retried, and given up at the last.
BlockRefused(task) ==
  /\ task.kind = "block" /\ "block" \in Fails
  /\ IF attempt + 1 < PERSIST_ATTEMPTS
       THEN attempt' = attempt + 1 /\ UNCHANGED <<failed, persistQueue>>
       ELSE /\ attempt' = 0
            /\ failed' = failed \union {task.at}
            /\ persistQueue' = Tail(persistQueue)
  /\ UNCHANGED <<sqlVars, commands>>

\* advanceCursorGated: never past the lowest height whose write failed.
AdvanceLands(task) ==
  /\ task.kind = "advance"
  /\ cursor' = Greater(cursor, AllowedHeight(task.at))
  /\ persistQueue' = Tail(persistQueue)
  /\ UNCHANGED <<saved, owed, attempt, failed, commands>>

\* resetCursor, for the worker's cursorReset.
ResetLands(task) ==
  /\ task.kind = "reset"
  /\ cursor' = task.at
  /\ persistQueue' = Tail(persistQueue)
  /\ UNCHANGED <<saved, owed, attempt, failed, commands>>

\* Mutant: the lowest orphaned block keeps its row.
RewindLands_OffByOne(task) ==
  /\ task.kind = "rewind"
  /\ saved' = {row \in saved : row[1] <= task.at + 1}
  /\ cursor' = Lesser(cursor, task.at)
  /\ commands' = Append(commands, Command("reseed", 0, {}))
  /\ persistQueue' = Tail(persistQueue)
  /\ UNCHANGED <<owed, attempt, failed>>

\* Mutant: no reseed when the undo found no row to undo.
RewindLands_NoReseed(task) ==
  /\ task.kind = "rewind"
  /\ saved' = {row \in saved : row[1] <= task.at}
  /\ cursor' = Lesser(cursor, task.at)
  /\ commands' = IF saved' = saved THEN commands ELSE Append(commands, Command("reseed", 0, {}))
  /\ persistQueue' = Tail(persistQueue)
  /\ UNCHANGED <<owed, attempt, failed>>

\* rewindToHeight, then the reseed that releases the held scan.
RewindLands(task) ==
  /\ task.kind = "rewind"
  /\ saved' = {row \in saved : row[1] <= task.at}
  /\ cursor' = Lesser(cursor, task.at)
  /\ commands' = Append(commands, Command("reseed", 0, {}))
  /\ persistQueue' = Tail(persistQueue)
  /\ UNCHANGED <<owed, attempt, failed>>

\* addWatchAddresses' own reset, skipped when a floor is given and the cursor
\* is at or below it; the command to the worker follows once it settled.  From
\* here on the new addresses' blocks are owed, and the rows written for them
\* before this do not hold their outputs.
DiscoverLands(task) ==
  LET rewindToHeight == Greater(Genesis, task.at)
      skipped == task.at # 0 /\ cursor # NoRow /\ cursor <= rewindToHeight
  IN
  /\ task.kind = "discover"
  /\ cursor' = IF skipped THEN cursor ELSE rewindToHeight
  /\ owed' = owed \union Late
  /\ saved' = {row \in saved : row[1] \notin Late}
  /\ commands' = Append(commands, Command("watch", rewindToHeight, Late))
  /\ persistQueue' = Tail(persistQueue)
  /\ UNCHANGED <<attempt, failed>>

\* Any other write SQLite refuses is logged and dropped.
TaskDropped(task) ==
  /\ task.kind \in Fails \ {"block"}
  /\ persistQueue' = Tail(persistQueue)
  /\ UNCHANGED <<sqlVars, attempt, failed, commands>>

PersistNext ==
  /\ persistQueue # <<>>
  /\ LET task == Head(persistQueue) IN
       \/ BlockLands(task) \/ BlockRefused(task)
       \/ AdvanceLands(task) \/ ResetLands(task) \/ RewindLands(task)
       \/ DiscoverLands(task) \/ TaskDropped(task)
  /\ UNCHANGED <<chainVars, childVars, starting, halts>>

-----------------------------------------------------------------------------
(* The main process *)

\* Whether an earlier session still has a say in SQL.
Quiet == session = "down" /\ commands = <<>> /\ persistQueue = <<>>

\* startSync up to its SQL reads: the wallet's addresses are loaded and the
\* previous session's failures are forgotten.
StartSync ==
  /\ ~starting.reading
  /\ OverlappingStarts \/ Quiet
  /\ starting' = [reading |-> TRUE, watch |-> owed]
  /\ failed' = {}
  /\ UNCHANGED <<chainVars, childVars, commands, persistQueue, attempt, sqlVars, halts>>

\* startSync from its read of the cursor to the command.
StartSend ==
  /\ starting.reading
  /\ commands' = Append(commands, Command("start", cursor, starting.watch))
  /\ starting' = NotStarting
  /\ UNCHANGED <<chainVars, childVars, persistQueue, attempt, failed, sqlVars, halts>>

\* A discovery on its way through the queue or the channel.
Discovering ==
  \/ \E i \in DOMAIN persistQueue : persistQueue[i].kind = "discover"
  \/ \E i \in DOMAIN commands : commands[i].kind = "watch"

StopSync ==
  /\ session # "down" /\ stops < MaxStops
  /\ StopsDuringDiscovery \/ ~Discovering
  /\ stops' = stops + 1
  /\ commands' = Append(commands, Command("stop", 0, {}))
  /\ UNCHANGED <<chainVars, childVars, mainVars, sqlVars, exits, crashes>>

\* addWatchAddresses for addresses that may carry history.
AddWatchAddresses(floor) ==
  /\ ~(Late \subseteq owed)
  /\ Len(persistQueue) < MaxQueue
  /\ \A i \in DOMAIN persistQueue : persistQueue[i].kind # "discover"
  /\ OverlappingStarts \/ ~starting.reading
  /\ StopsDuringDiscovery \/ \A i \in DOMAIN commands : commands[i].kind # "stop"
  /\ persistQueue' = Append(persistQueue, Task("discover", floor))
  /\ UNCHANGED <<chainVars, childVars, commands, attempt, failed, starting, sqlVars, halts>>

\* The utility process exits; what it had posted already is in the queue.
ChildExit ==
  /\ exits < MaxExits
  /\ StopsDuringDiscovery \/ ~Discovering
  /\ exits' = exits + 1
  /\ session' = "down" /\ pos' = 0 /\ watch' = {}
  /\ commands' = <<>>
  /\ UNCHANGED <<chainVars, mainVars, sqlVars, stops, crashes>>

\* The application dies; both processes lose everything but SQL.
Crash ==
  /\ crashes < MaxCrashes
  /\ crashes' = crashes + 1
  /\ session' = "down" /\ pos' = 0 /\ watch' = {}
  /\ commands' = <<>>
  /\ persistQueue' = <<>> /\ attempt' = 0 /\ failed' = {} /\ starting' = NotStarting
  /\ UNCHANGED <<chainVars, sqlVars, stops, exits>>

Next ==
  \/ WorkerScan \/ WorkerSettle \/ \E f \in Forks : WorkerReorg(f)
  \/ ChildReceive
  \/ PersistNext
  \/ StartSync \/ StartSend \/ StopSync
  \/ \E floor \in Floors : AddWatchAddresses(floor)
  \/ ChildExit \/ Crash

Spec == Init /\ [][Next]_vars

\* The queue and the IPC channel run by themselves; nothing else is promised.
FairSpec == Spec /\ WF_vars(PersistNext) /\ WF_vars(ChildReceive)

-----------------------------------------------------------------------------
(* Properties *)

Row(h) == <<h, chain[h]>>

\* Every variable keeps its type: the cursor is a height of the chain, a gate
\* entry is a height, a row names a branch that existed.
TypeOK ==
  /\ chain \in [Heights -> Branches] /\ reorgs \in Branches
  /\ session \in {"down", "scanning", "held"}
  /\ pos \in 0..Tip /\ watch \subseteq Heights
  /\ commands \in Seq(Commands) /\ persistQueue \in Seq(Tasks)
  /\ attempt \in 0..PERSIST_ATTEMPTS - 1 /\ failed \subseteq Heights
  /\ starting \in [reading: BOOLEAN, watch: SUBSET Heights]
  /\ cursor \in {NoRow} \union 0..Tip
  /\ saved \subseteq Heights \X Branches /\ owed \subseteq Heights
  /\ stops \in 0..MaxStops /\ exits \in 0..MaxExits /\ crashes \in 0..MaxCrashes

\* The resume marker never steps over a block the wallet owes its database:
\* whatever write was refused, retried or lost in a crash, everything up to the
\* persisted cursor is stored (scanCursorGate.ts, WalletSyncService's queue).
NoHole == \A h \in owed : h <= cursor => Row(h) \in saved

\* The same once the queue and the channel have drained: what discovery and
\* reorgs leave behind in SQL when nothing is in flight any more.
SettledNoHole ==
  persistQueue = <<>> /\ commands = <<>> /\ ~starting.reading => NoHole

\* Block h is stored, given up on by the gate, or among the first n tasks.
Write(h) == [kind |-> "block", at |-> h, branch |-> chain[h]]
Covered(h, n) ==
  Row(h) \in saved \/ h \in failed \/ \E j \in 1..n : persistQueue[j] = Write(h)

\* What a live session has walked past is stored, still queued, a gate entry that
\* holds the cursor below it, or about to be scanned again for the addresses a
\* discovery adds: stopping or dying now loses nothing.
SessionCovers ==
  session # "down" =>
    \A h \in watch : h <= pos => Covered(h, Len(persistQueue)) \/ (h \in Late /\ Discovering)

\* Once main and the child have nothing left to say to each other, the running
\* scan watches every address whose rescan is on record.
WatchesOwed ==
  session # "down" /\ commands = <<>> /\ ~starting.reading => owed \subseteq watch

\* A session may stop at any point: what it walked past is stored, queued or
\* named by the gate, and once main's commands are taken it watches every address
\* with a payment to come (WalletSyncService.enqueue, addWatchAddresses).
SessionSound == TypeOK /\ SessionCovers /\ WatchesOwed

\* A reorg's undo never runs before the orphaned block's own write: with the
\* queue drained no row names a block that left the chain.
NoOrphanRow == persistQueue = <<>> => \A row \in saved : row = Row(row[1])

\* A scan held by a reorg is released: main's reseed answer always comes.
HeldResumes == session = "held" ~> session # "held"
=============================================================================
