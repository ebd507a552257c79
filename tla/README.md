# Verification of Dash Desktop

TLA+ modules for the parts of Dash Desktop where several actors change one
state: the SPV client that follows the block chain and scans it, the path from
that scan into SQL, the wallet's ledger, broadcasting and waiting for locks,
asset-lock funding, the shielded notes, and the platform worker process. TLC
checks them on small instances; TLAPS proves theorems about eight of them for
every instance.

    tlc  -workers 2 -config PersistCrash.cfg MCScanPersistence
    tlapm ScanPersistence_proofs.tla

Abbreviations below: WSS is `src/main/src/services/core/WalletSyncService.ts`,
CF `src/main/p2p/sync/workers/CFilterSyncWorker.ts`, HW
`src/main/p2p/sync/workers/HeaderSyncWorker.ts`, SS
`src/main/p2p/sync/SyncService.ts`, TD `src/main/src/database/TransactionDAO.ts`,
CD `src/main/src/services/core/CoreDiscoveryService.ts`, BS
`src/main/p2p/net/BroadcastService.ts`, ALS, PWS and SHS
`AssetLockService.ts`, `PlatformWorkerService.ts` and `ShieldedService.ts` of
`src/main/src/services/platform`.

## 1. The system

The application runs in four kinds of process: the Electron main process, a
`p2p` utility process, a `platform` utility process and the renderer. They share
nothing but messages. Main owns SQLite, the p2p process owns `chain.db`
(LevelDB).

| part | state it keeps | operations | what makes it correct |
|---|---|---|---|
| HeaderSyncWorker, ChainStore, ChainWindow | tip in memory, window of recent headers, races, announced blocks, votes, ChainLock floor; headers and tip marker on disk | answer races, follow announcements and pushes, consider forks, drop a lost branch, verify ChainLocks, append and rewind | chain.db is always one linked chain; the heaviest branch is followed unless a ChainLock forbids; locked blocks stay; the tip converges |
| CFilterSyncWorker, BlockFetcher, CheckpointAnchors, WatchSet | chain index, filter headers and their anchors, batches in flight, blocks awaited and matched, scan cursor, holds, watched scripts and outputs | walk filter headers, scan batches, fetch and apply blocks, hold when a gap runs out, follow the tip, rewind, reseed, take new addresses | every block that pays a watched address is applied, in order, once; nothing between the cursor and the tip is forgotten |
| SyncService | start and stop queue, workers of the active wallet, lock pool, ChainLock seen, watched txids, mempool dedupe | start, stop, listen, forward extensions, rewinds and locks, mempool watch | one bulk session at a time; workers and main hear of a reorg in one order; the locks of watched transactions are fetched |
| PoolService, PeerRotation | connection slots, bans, silent peers | connect, rotate, ban | an address belongs to one pool |
| BroadcastService | one session per broadcast: peers invited, witnesses, pushes, timers | broadcast, serve a getdata, push, rebroadcast | a broadcast settles once, on evidence; whoever can carry the transaction gets it |
| WalletSyncService, ScanCursorGate | persist queue per wallet, gate of failed heights, sync states, armed locks, waiters, commands to the child | start, stop, take every event of the child, retry writes, discovery's rewind, broadcast, rebroadcast, wait for a lock | the resume cursor never covers a block whose rows are missing; what is armed is watched; nobody waits for a lock that came |
| TransactionDAO | `transactions`, `transaction_outputs`, inputs, `wallet_sync_state` | applyBlock, advanceCursor, resetCursor, rewindToHeight, record and abandon pending rows | rows and cursor change together; the ledger is a function of the chain and of what is pending |
| CoreDiscoveryService, addressWindow | derived addresses, highest used index, initial-scan latch | answer a held scan, extend the chains, add a contact's chain | every address used within the gap limit is watched and its history matched |
| CoreTransactionService, coin selection, CoreLockService | none between calls | build, sign, send; wait for locks | inputs cover outputs and fee; no coin spent twice |
| AssetLockService, AssetLockDAO | a row with a status per funding, a job in memory beside it | begin, build, broadcast, prove, settle, record, resume, give up | resumable at every stage; no lock lost; one funding at a time |
| ShieldedService and its DAOs, note selection | pool notes, own notes with spent flags, cursor, addresses, sync and spend states | sync, spend, refresh spent flags, reveal an address | no note missed below the cursor; a spent note is not offered again; change is found |
| PlatformWorkerService, PlatformService, Lane, SdkRegistry | pending and held requests, lanes, status, evonode lists and SDKs | request, cancel, new list, new preference, fork | each request settles once; tasks of a lane run one at a time; nothing runs without evonodes or seeds |
| wallet, fee, identity, app services, API handlers, preload, renderer | rows and settings | request and response | not concurrent; left to tests |

How they interact: HW's `chainExtended` and `chainRewound` reach CF through SS,
in emit order, and SS forwards a rewind to main; CF's `blockApplied`,
`cursorAdvanced`, `cursorReset` and `gapExhausted` go to main over the child's
port, where each is a task of the wallet's persist queue; main's `start`, `stop`,
`addWatchAddresses` and `reseedUtxos` go the other way. ChainLocks come from the
lock pool through SS to HW and to main. A payment goes from
CoreTransactionService or ALS through WSS to BS; its lock comes back through SS
to WSS, and the proof made of it goes through PWS to the platform process.

What is hard: the handlers await disk writes, SQL and other processes, and
others run in between; filters, blocks, answers, locks and timers arrive in any
order; several actors move one SQL cursor (blocks, settled heights, reorgs,
discovery), and it must never pass what is missing since the next launch does
not look below it; a coin is held by a payment that may confirm, lose, be
orphaned or never have left; crashes, stops and exits of a child fall between
any two steps; and stores that have to agree (chain.db, SQL, memory, platform)
change separately. `PROJECT.json` lists the hazards with their lines and the
properties that cover each.

## 2. Modules

    ScanPersistence     events -> persist queue -> SQL          (WSS, ScanCursorGate, TD)
      ScanPersistence_proofs     theorems about it
    FilterScan          filters and blocks -> events            (CF, BlockFetcher, WatchSet,
                                                                 CheckpointAnchors, CD)
    HeaderLog           what chain.db's header chain promises   (abstract)
      ^ implemented by HeaderSync
    HeaderSync          peers' headers -> tip and chain.db      (HW, ChainStore, ChainWindow)
      HeaderSync_proofs          theorems about it
    WalletLedger        payments, blocks, reorgs -> coins       (TD, WSS, WatchSet, SS)
      WalletLedger_proofs        theorems about it
    LockWatch           which locks are awaited and fetched     (WSS, SS, CoreLockService)
      LockWatch_proofs           theorems about it
    Broadcast           one broadcast over a pool               (BS)
      Broadcast_proofs           theorems about it
    AssetLockFunding    fundings and their jobs                 (ALS, AssetLockDAO, identity
      AssetLockFunding_proofs    theorems about it               and shielded callers)
    ShieldedNotes       notes, syncs, spends, addresses         (SHS and its DAOs)
      ShieldedNotes_proofs       theorems about it
    PlatformWorker      requests to the platform process        (PWS, PlatformService, Lane,
                                                                 SdkRegistry)
      PlatformWorker_proofs      theorems about it
    InputSelection      coins, notes, credits for an amount     (coinSelection, shielded-
                                                                 NoteSelection, platformTransfer)

Each detailed module `M` has its instances in `MCM`. The first three meet at two
streams: what `FilterScan` posts is what `ScanPersistence` takes from its
abstract worker; what `HeaderSync` posts (`extended`, `rewound`) is what
`FilterScan`'s `TipGrows` and `Reorg` stand for. `FilterScan` commits what it
posts at once, `ScanPersistence` lets it queue, fail and be retried: the one
checks which events are sent, the other what becomes of them. `WalletLedger`
takes the same stream with what the blocks spend and pay, so that what one block
or rewind does to the rows of another payment is seen. Its `Answered`,
`Delivered` and `NotHeard` are the outcomes of one `Broadcast`, and so are
`LockWatch`'s `Settles` and `AssetLockFunding`'s `Send`; the last takes the
locks `LockWatch` waits for as `InstantLocked` and `ChainLocked`.
`ShieldedNotes` and `AssetLockFunding` see of `PlatformWorker` that a task
answers, fails with or without having landed, or is cut off by an exit.

Definitions named `X_Something` next to `X` are bugs one could write into X; no
specification uses them. They show that each property can fail: with X replaced
by it, TLC finds the property violated.

A situation in which the code loses something in the model too is a member of
the constant `Excluded` (of ScanPersistence's Boolean and set constants); the
guard `Allowed(situation, happens)` keeps it out of an instance that names it,
and section 4 says what is lost without it.

### ScanPersistence

State: `chain` and `reorgs` (the network), `session`, `pos`, `watch` (the child
reduced to its event stream), `commands` (main to child), `persistQueue`,
`attempt`, `failed`, `starting` (main), `cursor`, `saved`, `owed` (SQL).
`persistQueue` is the child's port and WSS's promise chain in one sequence: both
keep emit order, and a task main adds itself takes the same place whether the
worker's earlier events are still in the port or queued.

| action | code |
|---|---|
| `WorkerScan`, `WorkerSettle`, `WorkerReorg` | the event stream of CF: a block applied, a height settled, a reorg with its hold |
| `ChildReceive` (`ChildStart`, `ChildStop`, `ChildWatch`, `ChildReseed`) | the p2p child's commands, in the order sent |
| `PersistNext` (`BlockLands`, `BlockRefused`, `AdvanceLands`, `ResetLands`, `RewindLands`, `DiscoverLands`, `TaskDropped`) | one task of the queue with its retries, the gate's cap and the DAO's write |
| `StartSync`, `StartSend`, `StopSync`, `AddWatchAddresses` | the service's entry points; a start reads the addresses first and sends later |
| `ChildExit`, `Crash` | the child or the application dies |

### FilterScan

The worker is one record, `worker`, with CF's fields; `store` is chain.db's
filter headers, `sql` the cursor and rows, `known`, `used`, `gapHeld` and
`scannedOnce` main's side of discovery. An operator per method maps a worker to
the worker after it (`Walk`, `Pump`, `CFilter`, `PeerBlock`, `HoldForGap`,
`ChainRewound` and so on), and an action per event applies one. A handler runs
to its first await in one step; what follows an await is a task of `micro`, run
by `Microtask` before any other handler. That keeps the one interleaving
JavaScript allows here: a drain that awaits between two blocks while a second
one finds it running.

Addresses are indexes and one `Contact`; a block is the set of addresses it
pays (`Pays`); `FalsePositives` are heights whose filter matches without paying.

Abstracted: which peer is asked (every request is answered in the end; asking
another peer changes nothing here), answers that fail verification, the
comparison of checkpoint vectors between peers, the explorer's usage oracle, and
the batching inside `planWindow`.

### HeaderSync

`worker` is HW with the pool's ready peers, `disk` is chain.db, `follower` is
CF's chain index, `peerTip` each peer's chain, `chainLock` the highest lock SS
has seen. Blocks are a finite tree given by `Parent` and `Work`. A tip-moving
write is queued in `worker.writes` (ChainStore serialises them) and `WriteLands`
performs the oldest and continues its handler; until then memory and disk
differ. Requests are answered late, in any order or never; a push or an inv may
be lost; a lost peer loses its requests.

Abstracted: header validation and difficulty (all blocks of the tree are valid;
a bad batch changes nothing), the pick limit of ten peers per race (there are
never more), the read of a hash from chain.db, one step here, and which race an
append belongs to: a race is told by the tip it started from, so that one begun
again from the same tip while the write was under way ends with it, where the code
leaves it to its timer. A failed write
is fatal in the code and is `Crash` here, which is also a stop.

### WalletLedger

One wallet and the network around it. `at`, `tip`, `mempool` are the network;
`scanned`, `coins`, `seeded`, `held` the scan and its watch set; `queue` the
persist queue; `row`, `pushed` (local rows that `rebroadcastPending` would still
send), `spentIn`, `spentAt`, `cursor` SQL; `call` each
payment's `broadcastTransaction`. A transaction has at most one output of ours,
named after it, so a coin and the transaction that made it are one value. A
pending row goes only with what displaces it: `abandonTransaction` (TD:365) has no
caller.

| action | code |
|---|---|
| `Enter`, `Mine`, `Evict`, `Reorg` | mempools, blocks and branches; `Reorg` is also CF's `onChainRewound` |
| `Scan`, `Incoming` | `WatchSet.applyBlock` and the mempool watcher, each with the task it queues |
| `Persist` (`ApplyBlock`, `RecordPending`, `RewindRows`, `Seed`) | one task of the queue: TD's transaction, conflicts and freed coins included, and the reseed after a rewind |
| `Build`, `Broadcast`, `Answered`, `Delivered`, `NotHeard`, `Record`, `RecordElsewhere` | a payment: coins offered, sent, heard of or not, recorded |
| `Rebroadcast`, `NotHeardAgain` | `rebroadcastPending` (WSS:863), which swallows every error |
| `NoLongerPushed` | an hour passes (`PENDING_TX_TTL_MS`, WSS:865) or an InstantLock is recorded (WSS:867): the row is never pushed again, and a reorg, which keeps both columns (TD:158), does not change that |
| `Restart` | the application dies and starts again |

### LockWatch

`armed` (with the age of each), `cache`, `waiter`, `refreshing`, `call` are WSS;
`row`, `marked` SQL; `child`, `watched`, `sessions` the p2p process; `down`, `up`
the ports; the rest is the network. A lock is announced once: a child that does
not watch its transaction then never fetches it. A row that is mined and one that
is an hour old (WSS:889) leave the watch set alike, so one action, `Mine`, stands
for both.

| action | code |
|---|---|
| `Call`, `Rebroadcast`, `Record`, `Incoming`, `Settles` | a broadcast and what is recorded of it; each arms |
| `Wait`, `WaitOver` | `waitForInstantLock` and its timer |
| `SendRefresh`, `Tick` | `refreshWatchedTxids` after its read of SQL; the sweep, which starts one and ages what is armed |
| `TakeCommand`, `TakeReport`, `ChildExits`, `Reload` | SS's commands, WSS's handling of reports, an exit with the rejected calls, a rebuilt pool |
| `LockAnnounced`, `LockArrives`, `Lock`, `Mine` | the network and SS's answer to it |

### Broadcast

One call of `broadcast`, its session and its timers; a peer is one connection of
the pool. Time passes in steps of `unsolicitedPushAfterMs` (`Tick`) and no timer
is late: `Clock` is the one that is due. `Request`, `Propagated`, `Reject` and
`Lock` are what peers answer; `Accept` is what only they know.

### AssetLockFunding

A job of ALS is a record of what it awaits (`at`), the lock it built and the row
it works on; `row` is `asset_lock_fundings`, `identities` what a registration
records, `l1`, `instant`, `chain`, `credited` what the network knows whether or
not the wallet heard of it. `Begin`, `Build`, `Send`, `ReadRow`, `Prove`, `Mark`,
`Accept`, `Submitted`, `Record`, `Finish` are a job between two awaits;
`ProofTimeout`, `RejectedAsStale`, `SubmitFails`, `BuildFails` its errors;
`ResumeCall`, `Resume`, `Reacquire`, `DismissCall`, `Dismiss` the user's calls;
`Crash` leaves the row alone.

Platform takes one transition per lock. What a later one is answered depends on
whether it is the same: `Replayed` is "already in chain" (`broadcast.ts:33`), which
counts as done; `RejectedAsSpent` is any other transition for a lock that is spent,
an error. A resume proves by chain lock (ALS:217), so it is another one when the lock
was credited on an InstantLock (`instantly`), and it may be another one when its row
does not determine it. `Rebuilt` names the locks whose row does: registrations and
top-ups, whose signatures are taken to be deterministic, but not the funding of an
address, which quotes its fee anew, nor a shield, whose proof is random.

### ShieldedNotes

`pool` is the chain's list of notes, each with the address it pays; `stored`,
`known`, `spentRows`, `cursor`, `revealed` are SQL; `fetch`, `state`, `sync`,
`ending`, `spend`, `tail`, `refresh`, `marking`, `add` what SHS awaits; `up` the
worker's messages. An action runs from the end of one await to the next
statement or request. `Count`, `Download`, `FetchDone` are the shared download;
`BeginSync`, `AskWorker`, `SyncChecks`, `SyncAnswers`, `NotesCome`, `SetCursor`,
`SyncWindow` a sync with the address window it ends in; `StartSpend`,
`SpendChecks`, `SpendLands`, `SpendReports`, `AcceptedComes`, `RefreshNotes` a
spend with the sync that finds its change; `RefreshSpent`, `CheckNullifiers`,
`NullifiersCome`, `MarkList` the check of spent flags; `AddReads`, `AddWrites`
the reveal of an address; failures, exits and crashes cut each off.

### PlatformWorker

`main` is PWS with the `dapi` preference, `child` the platform process as one
record that operators map (`Dispatch`, `Settle`, `SetDapi`, `Pin`, `CancelTask`
and so on), `toChild` and `toMain` the two FIFO ports, `request` how far each
request is for its caller, `landed` what reached the network. `Request`,
`Cancel`, `PinTimeout`, `NewEvonodeList`, `ApplyDapi`, `ReloadDapi` are main's;
`ChildReceives`, `WarmedUp`, `WarmupFails`, `ProbePins`, `ProbeFails`, `Reprobe`,
`RefillEnds` the child's; `Broadcasts`, `TaskSucceeds`, `TaskFails` an operation;
`ChildDies` is an exit, which `MainReceives` notices after what was posted.

### InputSelection

Pure: how a quote and a send choose coins, notes or credits for an amount.
`Select` and `MaxSelectable` are `selectCoins` and `selectSpendNotes` with what
they promise, `SelectWithFee`, `SelectPickedInputs`, `SelectShield` and
`PlanWithdrawal` the planners of `platformTransfer.ts`. There is nothing to run:
`MCWalletLedger` compares each with what it means to choose well, in `ASSUME`s
that TLC evaluates with every run of that module.

## 3. What is checked

`PROJECT.json` names, for every property of every run, the bug that breaks it.
An invariant that is a conjunction (`SessionSound`, `ScanSound`, `Coherent`,
`InForce`, `TasksSound`, `FundingShown`, `LedgerIsChain`, `WatchSound`,
`CarriersServed`, `NotesSound`) has its parts beside it in the module, each with
a comment of its own.

### Runs

| run | instance | shows |
|---|---|---|
| `persist_crash` | five heights, three owed blocks, two tries per block, block and cursor writes may fail, 2 stops, 1 exit of the child, 2 crashes, queue of 3 | `NoHole`: the cursor never covers an owed block without rows. |
| `persist_reorg` | a reorg to height 1 or 3, discovery below a live scan, a block that pays both an early and a discovered address, cursor writes may fail, 1 stop, 1 exit; fair | `SettledNoHole`: once the queue is empty nothing is missing below the cursor. `NoOrphanRow`: once it is drained no row names an orphaned block. `SessionSound`: what the session walked past is stored, queued or gated, and it ends up watching all that is owed. `HeldResumes`: a held scan is released |
| `scan_walk` | gap limit 1, payments that use each derived address, a contact found with a floor below the scan, a false positive, 1 stall, 1 restart; fair | `NoHole`, `AppliedInOrder`, `ScanCompletes` |
| `scan_reorg` | three payments, a reorg to 3 at any time, the tip growing from 6 to 9, 1 restart; fair | `ScanSound`: nothing passed is forgotten and blocks apply in order. `QuietNoHole` between handlers, `ScanCompletes` |
| `header_locks` | a ChainLocked block, a branch that outweighs it for a while, one header per answer, one crash, stop or lost peer | `Coherent`: the window names our chain, and chain.db, worker and filter scan agree between writes. `LockedStays`, `WorkNeverFalls`, and `ImplementsLog`: chain.db refines `HeaderLog`, across a restart too |
| `header_pinned` | one peer, quorum two, our branch two deep under a window of one, one failure; fair | `HeavierAnswerTaken`: an answer that wins its race is acted on. `Converges`: our tip becomes the heaviest block and stays |
| `ledger` | two coins, a payment of both, one of the second, one of the change, a rival signed elsewhere; four heights, one reorg, eviction, lost answer or restart; fair | `LedgerIsChain`: once caught up, rows and spends are those of the chain, and no coin is held by a row that is gone. `NoGhost`: nothing that lost its coins stays. `OneSpender`: two payments of ours never compete for a coin. `PendingSettles`: what is pending confirms or is dropped, unless it, or what it builds on, is past pushing and nobody knows of it (`Forsaken`) |
| `lock_watch` | a payment of ours and one to us, arms that live two sweeps, a waiter of one, one exit or rebuild; fair | `WatchSound`: what is armed or pending is watched once nothing is under way, a waiter is armed, a child forked anew is told to listen. `ArmedGetsWatched` |
| `broadcast` | three peers that come and go, one witness, one ack, the rebroadcast and the deadline | `CarriersServed`: everybody ready is invited and served, and witnesses never take the peers needed to carry. `SuccessIsProof`, `QuietAfter` |
| `funding` | two asset locks, one for a registration and one whose transition no row determines, two jobs, two failures, two crashes; fair | `NoLostLock`, `DoneMeansDone`, `FundingShown`: what is open is shown and there is one of it. `Final`: done or given up is for good. `Settles`: what reached the network is done or given up in the end, unless its answer was lost and no resume can replay it (`Stranded`) |
| `shielded` | a pool of two notes, gap limit 1, spends here and elsewhere, one failure or crash; fair | `NotesSound`: a settled list knows the notes that were there when its sync began and offers none the rows say is spent. `SpentStays`, `ChangeFound` |
| `platform` | two transitions from one source in the prover's lane, one list, exit, switch of preference, failure and cancel each; fair | `NoSeedlessRun`: nothing runs without evonodes, seeds or urls. `InForce`: list, preference, pin and SDK are those in force. `TasksSound`: one task per lane, none before its key, all in the status. `EverySettles` |

States: from 26,708 (`scan_reorg`) to 437,984 (`funding`), all explored.
Further configurations are kept beside the runs and pass as well:
`PersistDiscovery` (discovery with block writes that fail), `ScanGap` (the gap
hold alone, with `HeldStill`), `HeaderVote` (two peers, quorum two), `LedgerDeep`
(two faults) and `PlatformDeep` (two lists, two switches, a read).

`CHECK_DEADLOCK FALSE` stands in every configuration: an instance whose bounds
are used up and whose work is done has nothing left to do.

The `ASSUME`s of `MCWalletLedger` check `InputSelection` for every purse of
three: `SelectionIsExact` (a selection pays for itself with the fewest inputs
and is found whenever one exists, and the maximum promised can be selected),
`InputsAreSound`, `PicksAreKept`, `ShieldableIsShielded`, `WithdrawalIsSound`
(what is planned is accepted by consensus and sums to the amount). Three
statements one might expect are false, so they are not among them: some amounts
below `maxPlatformCredits` cannot be planned, the first input of a shield can be
below `MIN_INPUT_CREDITS`, and a picked address is left out when the amount needs
less, though `platformTransfer.ts:223` says each becomes an input of its own.

### Bounds

Every bound is a constant of its module (`MaxQueue`, `MaxReorgs`, `MaxStops`,
`MaxExits`, `MaxCrashes`, `MaxTip`, `MaxIndex`, `MaxStalls`, `MaxRestarts`,
`MaxFailures`, `MaxFaults`, `MaxHeight`, `MaxLists`, `MaxSwitches`,
`MaxCancels`). The code's own limits are constants too and are made small enough
to be reached: two tries for PERSIST_ATTEMPTS = 3, batches and checkpoint spans
of two or three heights for 900 and 1000, two requests in flight for 10 and 20, a
window of one or three for REORG_MAX_DEPTH = 24, a quorum of two for 3, an arm of
two sweeps and a waiter of one for 20 and 15 minutes, a memory of three tips asked
from for 4096 (`header_pinned`), an inventory served two
steps, a rebroadcast three and a deadline five steps after the start. With two
or three checkpoint spans a chain has a cached, a pending and an unasked part at
once; with two batches in flight one is complete before the other in both orders;
a window of one makes a fork of two deep too deep for a race; with two
transactions of our own that share a coin, and one that builds on the first,
every conflict, displaced parent and freed coin of TD occurs. One reorg, restart
or failure at every point of a run meets every intermediate state of one
operation; what two such events do to each other is explored by the `Deep`
configurations and otherwise only by the proofs.

### Fairness

`ScanPersistence!FairSpec`: the queue drains (each task is a promise that
settles) and the child takes its commands. `FilterScan!FairSpec`: requests are
answered in the end, because a timer asks the next peer until one is; microtasks
and main's queue run by themselves; discovery answers a held scan.
`HeaderSync!FairSpec`: the worker starts and its writes land, timers fire, peers
connect and end up on the heaviest chain, requests are answered, and in the end
before the race times out (a network that never answers in 30 seconds gives no
progress, in the code as here). `WalletLedger!FairSpec`: scan and queue go on,
mempool transactions are mined, a call is sent, answered and recorded or ends
unheard, the rebroadcast of every minute comes as long as a row is pushed, and what
is sent again and again reaches a mempool in the end. That an hour passes is not
promised. `LockWatch!FairSpec`: messages are taken, promises and timers
resolve, locks announced arrive, and sweeps come round. `Broadcast!FairSpec`:
timers fire. `AssetLockFunding!FairSpec`: a job's awaits end, blocks are locked,
and the user resumes what is shown. `ShieldedNotes!FairSpec`: the shared
download, a sync, a spend and what follows it go on, and the worker's messages
are delivered. `PlatformWorker!FairSpec`: ports deliver, a held request's timer
fires, the warm-up and operations end. Nothing is promised of stops, exits,
crashes, reorgs, stalls, evictions, new blocks or what the user sends.

## 4. What is not true, and what the runs leave out

These situations lose something in the code and in the models. Each is left out
of the runs by `Excluded` (`OverlappingStarts`, `ReorgAheadOfScan`, `Forks`,
`Fails` and `Floors` in ScanPersistence) or by where an instance puts its
payments and branches, so that the properties say what holds without it; with it
TLC finds the violation.

### Scan and headers

| configuration | property lost | situation |
|---|---|---|
| `PersistReorgAhead`, MCScanPersistence | `SettledNoHole` | a reorg above a scan in progress: CF:275 lowers its own cursor but reports the fork, and `resetCursor`, which TD:184 says moves the cursor down, raises SQL's to it; the next launch starts above blocks never scanned |
| `PersistReorgGate` | `SettledNoHole` | a block write failed for good, then a reorg above it: `cursorReset` (WSS:245) does not ask the gate |
| `PersistHighFloor` | `SettledNoHole` | a discovery with a floor before the wallet has a cursor row (WSS:469): the row is created at the floor |
| `PersistStopDiscovery` | `SettledNoHole` | discovery's reset, swallowed by the running scan's next cursorAdvanced, and a stop before the worker echoes it |
| `PersistDoubleStart` | `NoHole` | startSync while a session is live: the gate is cleared (WSS:370), the worker ignores the start (SS:307) |
| `ScanPremature`, MCFilterScan | `NoHole` | the filter that completes the last batch drains twice (CF:992); the second drain takes the running first for finished and emits the tip between two blocks, which are lost if the child dies there. WSS:738 counts on cursorAdvanced coming after the last block |
| `ScanStall` | `NothingForgotten` | a stall restart (CF:803) drops blocks below the lowest batch that are still awaited or matched |
| `ScanRewindWalk` | `QuietNoHole` | a rewind below the anchor during the walk; the scan starts above the anchor (CF:710) |
| `ScanTipBlocked` | `QuietNoHole` | the tip grows while a scan at the tip is under way (a block is awaited, or more than one batch of new blocks before their filter headers come): between two batches the settled height is the new tip (CF:854) |
| `ScanHeldDiscovery` | `QuietNoHole` | a contact's chain added during a hold is taken for its answer (WSS:448) |
| `ScanGap` with `Pays <- PaysPair`, `StartIndex = 0`, no false positive, stall or restart | `QuietNoHole` | the block that exhausts the gap also pays the next address; the scan resumes above it (CF:304) |
| `ScanRewindWalk` with `HighContactFloor`, `PaysAbove`, `WithHighRewinds` | `NothingForgotten` | a rewind between the outstanding batches and the cursor (CF:316) |
| the same with `ContactFloor`, `PaysBetween` | `NoHole` | the echoed cursorReset (CF:321) names a height that is not settled |
| `ScanHeldDiscovery` with tip 5 to 8, `PaysLate`, `MaxIndex = 1`, `WithHeldHalts`, one restart | `QuietNoHole` | a stop during a hold after the first full scan: the answer comes forward-only (WSS:365) |
| `HeaderRewindRace`, MCHeaderSync | `ImplementsLog` | `considerFork` awaits its rewind with the tip in memory unchanged; headers that extend the old tip meanwhile append above the deleted range. HW:421 wants tip changes serialised, but only branch checks are |
| `HeaderLockRace` | `LockedStays` | a ChainLock is seen and verified while a fork's rewind waits for its write (HW:560) |
| `HeaderLocks` with `OneOnEach`, ten headers per answer, `LockUncheckedRace`, no failure | `LockedStays` | a lock waits for its height; a heavier fork of the block that reaches it is accepted before that block's write, and so its verification, is over (HW:633) |
| `HeaderVote` with `TwoBranches`, `BehindAndAhead`, best `b4`, no lock, no failure | `HeavierAnswerTaken` | the fork is itself a tip an earlier race asked from (HW:298): the answer is dropped as late |
| `HeaderPinned` with `LOCATOR_SEEN_LIMIT = 2` | `HeavierAnswerTaken` | the memory of tips asked from is emptied while an answer to one of them is out (HW:247): it is taken for the present race's. With 4096 tips it would have to be out for as many |

A restart of `scan_reorg` falls between drains only, because of
`ScanPremature`; the other scan instances place their payments so that at most
one matched block waits when the last filter arrives. With a gap hold beside
discovery, or with two blocks in one drain, `NoHole` fails for a moment; with
discovery beside a reorg so does `QuietNoHole`. A single peer and a ChainLock
that rewinds can leave every answer ignored, since it asks from a height
(`askedFrom`) the race has left, so `header_pinned` has no lock.

### Ledger, locks, broadcast, funding, notes, worker

Each is a name of `Excluded` or a property defined in the module; removing the
name from the configuration, or checking the property, gives the violation.

| configuration | situation | property lost |
|---|---|---|
| `LedgerDeep` | a rival of a parent of ours, or of something orphaned, confirms; what lost is recorded (`"rival of a parent"`, `"rival of an orphan"`, `"record of a loser"`): conflicts are looked for among coins, not among descendants or rows yet to come | `NoGhost` |
| | pinned peers: a delivery counts as success | `NoGhost` |
| | another wallet is selected before the record, an answer is not heard of, or two sends overlap: the coins are on offer again | `OneSpender` |
| | a restart between broadcast and record | `OneSpender` |
| | something of ours is signed for a coin that an orphan of ours spent (`"rival of an orphan"`) | `OneSpender` |
| `LedgerDeep` with `w` from elsewhere with the same keys, spending `d` and `e`, `u` and `v` ours spending `d`, and `x` spending `e` | `u` is recorded beside `w` (`"record of a loser"`), or, with `d` unconfirmed at first, is noticed after `w`, forgotten and not heard of (`"own change noticed"`); `x` displaces `w`, and `d` is on offer beside `u` | `OneSpender` |
| | a reorg above the scan, while a rewind is unsaved, or a restart then | `RowsAreChain` |
| `Ledger`, without the exceptions of `PendingSettles` | a payment older than an hour, or InstantLocked, is evicted or orphaned: it is never pushed again (WSS:865-867), stays pending and holds its coins, and "nothing ever says" that it died (`constants/chain.ts:18`) | `PendingSettles` |
| `LockWatch` | a transaction armed while a refresh reads SQL; a lock that comes before the row it belongs to | `WatchedWhenQuiet` |
| | `refreshWatchedTxids` forks a child it does not tell to listen | `ForkListens` |
| | a waiter without a child, or late in the life of an arm | `ArmOutlivesWaiter` |
| `Broadcast` | a witness is invited after all when the pool shrinks or the rebroadcast invites everybody (`WitnessQuiet`, `WitnessPresent`), and a broadcast over pinned peers that some peer took runs on (`PinnedVerdict`) | the property named |
| `Funding` | a second funding begins beside a job (`OneFunding`); a resume beside a job, or giving up beside a resume | `Final` |
| `Funding`, without the exception of `Settles` | a transition proved by InstantLock is credited and its answer is lost: every resume proves by chain lock, is rejected as already spent, and leaves the row open, so that `begin` refuses a new funding until the user gives this one up; the same after a lost answer for an address or a shield, whatever the proof | `Settles` |
| `Shielded` | a sync joins a download counted before newer notes | `SettledKnowsAll` |
| | a note is marked while a sync reads its list | `ListFollowsRows` |
| | nullifiers are checked while a sync recovers | `SpentStays` |
| | a sync is running when a spend is done: the one after it is skipped | `ChangeFound` |
| | a click beside a window reveals an index twice (`RevealsNew`, `RevealsFresh`); an error after a spend landed (`FailedDidNotLand`) | the property named |
| `PlatformDeep` | an older probe answers last | `LatestPinned` |
| | a request between a preference's change and its save, or a switch while a request is out, one that was cancelled in its lane included | `NoSeedlessRun` |
| `Platform` | the child exits, or the answer is lost, after a broadcast: an error without its hash, which `broadcast.ts` says is safe to retry | `RetrySafe` |

## 5. What is proved

The theorems hold for every value of the constants: every chain, set of peers,
transactions, locks, requests or notes, and every bound on faults. Where a
theorem leaves situations out, its assumption names them and section 4 has a
counterexample for each; a theorem without such an assumption holds whatever an
instance excludes. In each module an invariant of the runs is strengthened until
every step keeps it; each strengthened invariant was checked by TLC on the run of
its module before it was proved.

### ScanPersistence_proofs

`TypeCorrect`, with no assumption beyond the constants' own. `NoHoleCorrect`
(`Spec => []NoHole`) when there is no reorg (`Forks = {}`), no discovery (`Floors =
{}`) and no start over a live session; writes may fail and stops, exits and
crashes happen at any time.

`NoHole` is not inductive: it says nothing of the tasks still in the queue. The
proof strengthens it to `IInv`, whose parts say why a landing task is safe:

- `Undisturbed`: under the assumptions the chain and what it owes never change,
  no session is held and a scanning one watches the addresses of its start.
- `Walked`: the cursor is not above `pos`, and every owed block at or below a
  live session's `pos` is stored, queued or named by the gate.
- `QueueSound`: the queue holds blocks and cursor moves only, blocks ascending
  above the marker; below a cursor task, every owed block is stored, ahead of it
  in the queue, or in the gate.
- `GateHolds`: the cursor stays below every failed height.
- `LaunchFresh`: a start that has read its addresses finds the cursor it read.

The gate is the crux: `AllowedHeightBound` and `AllowedBlockBelowFailed` say that
what it lets through is below the lowest failed height, which exists
(`HasMinimum`, over a nonempty finite set of naturals). Each action has a lemma
for the type and one for `IInv`, each step one case per part it disturbs.

`OrphansLeaveNoRow` (`NoOrphanRow`) allows reorgs at any time, discovery, stops,
exits, double starts and refused writes but a rewind's, and no crash (or no reorg:
`UndoReliable`). `UndoInv`: rows and writes of a branch that left the chain have a
rewind below them still ahead (`OrphansUndone`), and no rewind undoes what is of
the chain (`CurrentKept`).

`NoHoleOnceSettled` (`SettledNoHole`) and `SessionsLoseNothing` (`SessionSound`)
have reorgs and discovery at once, as `persist_reorg` has. Their assumption,
`SettlesWell`, leaves out what section 4 loses something by (double starts, stops
during discovery, reorgs above a scan, floors or, where block writes fail, forks
at or above what is owed) and two things no run with reorgs explores: crashes, and
resets or rewinds that SQL refuses. `SettleInv` adds to `UndoInv`:

- `CursorSound`: an owed block the cursor covers is stored, or about to be scanned
  again, or a reset or rewind below it is in the queue.
- `ClaimsSound`: the same of each task that will move the cursor past a block, with
  what is ahead of it in the queue and in the gate; `ResetsLow` keeps resets below
  what the gate holds.
- `SessionKept`: what a session has passed is stored, queued or gated.
- `DiscoverySound`, `LaunchSound`: what a session watches, and where a discovery or
  a start has got to, between main's queue and the child's commands.

### AssetLockFunding_proofs

`TypeCorrect`, `NoLockIsLost` and `DoneIsDone`, with no assumption on `Excluded`,
jobs, failures or crashes: coins never leave without a row, a credit or the
user's word, also when several calls run at once. `IInv` adds to the type what
each row says of the network (`RowsTrue`) and what each job that awaits holds of
its row (`JobTrue`): a lock is sent only after its row is written, and a row is
marked done only by a job whose transition was accepted.

`TheOpenRowShows` (`FundingShown`) and `DoneOrGivenUpForGood` (`Final`) hold when
calls do not overlap (`Alone`). `ShownInv` says then that at most one job works on
an open row (`OneAtWork`), that what it works on is the row shown (`WorkTrue`,
`CurrentTrue`), and `Final` follows since nothing writes a closed row.

### Broadcast_proofs

`TypeCorrect`, `CarriersAreServed`, `SuccessIsProved` and `SettledIsQuiet` (an
action property), with no assumption but the constants' own. `IInv` relates what
the session has heard to what peers did (`HeardIsTrue`), its timers to the clock
(`NotBefore`), and the invited, the witnesses and those that have the transaction
(`EveryCarrierServed`, `CarriersFirst`). `CarriersGrow` and `SparedOnly` are the
lemmas on the choice of witnesses.

### ShieldedNotes_proofs

`TypeCorrect` with no assumption on `Excluded`, and with it that what a sync
decodes is known before its cursor moves (`DecodedKnown`). `NotesAreSound`
(`NotesSound`) when no sync joins an older download and no note is marked while a
sync reads: `Complete` follows every note of ours from the chain through download,
messages and rows, and `Marked` the spent flags from rows to the list. `SpentForGood`
(`SpentStays`, an action property) when nullifiers are not checked while a sync
recovers: `CheckCovers` and `AnswerCovers` say that every answer on its way is of
a question asked after what is marked was spent.

### LockWatch_proofs

`TypeCorrect` and `LockWakesWaiters` (`NoWaitBesideLock`) with no assumption on
`Excluded`: a call is under way in one place at most, its command, its session or
its result (`CallTrue`, over the two queues), and a process that does not run
holds nothing. `WatchIsKept` (`WatchSound`) when the five situations of section 4
are left out. `WatchInv` is what makes it inductive: whatever is to be watched is
named in `watched` or in a command, and no later replacement leaves it out
(`WillWatch`), or its lock is on the way to main, or a refresh under way has read
it (`WatchTrue`); an arm outlives its waiter (`WaitTrue`) and is fresh until its
transaction is recorded (`ArmTrue`); a lock is not reported before the row
(`LocksRecorded`).

### WalletLedger_proofs

`TypeCorrect`, whatever is excluded. `LedgerFollowsChain` (`LedgerIsChain`) when a
reorg is neither above the scan nor comes while another's rewind is unsaved, and no
restart falls between the two (`OneRewind`); everything else may happen, another
wallet's selection, lost answers and double sends included. `Ledger` says what holds
also while the queue is not drained:

- `QueueTrue`: a rewind is the last task but for what mempools bring, its height is
  where the scan is, and blocks go upwards from the cursor.
- `TasksTrue`, `RowsTrue`: a task or a row names a height the chain has, or a height
  above the scan of what a reorg orphaned and the rewind ahead will undo (`Right`);
  what a task spends is stored or ahead of it in the queue.
- `Complete`, `Exclusive`: what the scan passed is stored or queued, and no two of
  these spend one coin, which is why a block never finds a confirmed rival.
- `StoreTrue`: confirmed rows and spends name each other, and a coin held by a
  pending row names a row that exists.
- `Watched`: the coins the scan may find spent are watched.

`NoDoubleSpend` (`OneSpender`) leaves out seven more situations (`Careful`), each of
which loses it (section 4); `NoGhost` needs three besides. `OneSpender` speaks of what
is pending or called; `Spending` has to speak of everything that is out, in a call,
the store, a mempool or the chain, now or before a reorg (`OneIsBeaten`), and of the
path from there to a row (`SeenIsKnown`). `CoinsHeld` is what the choice of coins
relies on: a pending row that nobody beat holds its coins, since each was recorded
before it (`CoinsKnown`) and held by nothing else that is pending (`CoinsOpen`).

The constants' assumption is what makes a set of transactions one: whatever is not
a coin of the start spends something, no transaction is called "nobody", and the
coins of the start are confirmed from the start, so do not spend each other or one
output.

### HeaderSync_proofs

`ChainsAgree` (`Coherent`), `FinalityHolds` (`LockedStays`), `WorkRises`
(`WorkNeverFalls`) and `DiskIsLog` (the refinement of `HeaderLog`), for every finite
block tree and every work of its blocks. Their assumption, `Careful`, leaves out three situations the code does not prevent: headers or a
ChainLock that arrive while a write that takes the tip down is under way, and
headers between a ChainLock and its check. Section 4 shows what is lost in each
(`HeaderRewindRace`, `HeaderLockRace`, `LockUncheckedRace`). `IInv`:

- `Kept`, of a worker that runs: the window is a run of the tip's branch, with
  nothing missing above any block it holds (`OnChain`), so that our side of a fork
  is weighed in full; the appends under way start at chain.db's tip, follow on each other
  and end at the worker's tip (`AppendsLead`), which is why a write that fails and
  stops the worker leaves a chain; a write that takes the tip down is the last one
  and goes to a block of our chain not below what is final, and a rewind has a
  branch of more work than ours behind it (`RewindLast`); a branch
  is dropped by one write, and asked for by one check (`Drops`); the final height
  holds a locked block (`Locked`).
- `Stored`: chain.db has one header for each height of its tip's branch, and
  nothing above.
- `Followed`: what the filter scan was told is what chain.db holds.

`Chain` is the least set that holds a block and the parents of its members, and
`Height` its size: recursive definitions would leave nothing to prove with. What
the tree must satisfy, `TreeAssumption`, is that it is finite and has no cycle;
`ChainFacts` and the lemmas after it derive from it all that the actions'
lemmas use. Work is a fold over a set; `WorkOfIs` shows that it is the size of a set
with as many members for each block as the block has work (`Units`), so that the
work of a branch is that of its lower part and of what is above (`WorkAdds`).

### PlatformWorker_proofs

`TasksStaySound` (`TasksSound`), whatever is excluded. `TaskInv` says of the child
that each lane is in order, runs its first task and has its key, of a message on
its way that it is carried once (`Carried`), and of main that it waits for what is
under way (`Waiting`).

`ChildFollowsMain` (two parts of `InForce`), whatever is excluded, and
`WhatMainSaidIsInForce` (`InForce`), when no older probe answers last. In
`ForceInv`, the last list and preference on their way, or else the child's own,
are main's (`Commanded`), through forks, exits and fallbacks (`Ups`); a list that
is not pinned has a probe or a retry under way (`Latest`); the cached SDK is one
for what the child has (`Fresh`).

`NothingRunsSeedless` (`NoSeedlessRun`), when no request falls between a
preference's change and its save and no switch comes while a request is out
(`SwitchesAlone`). In `SeedInv`, a request that waits for a pin has a pin, seeds or
the user's urls before it in the port and no preference behind it (`Covered`), and
main stops waiting only when there is one (`Awaited`).

### Only model-checked

Liveness under fairness (`HeldResumes`, `ScanCompletes`, `Converges`,
`PendingSettles`, `ArmedGetsWatched`, `Settles`, `ChangeFound`, `EverySettles`),
which is beyond this prover. And these safety properties: of `FilterScan`, `NoHole`, `QuietNoHole`, `ScanSound`
and `AppliedInOrder`; of `HeaderSync`,
`HeavierAnswerTaken`, which holds on the instances and not for every tree: an answer
that forks off at a tip an earlier race asked from is dropped as late (section 4); of
`WalletLedger`, `NoGhost`,
which holds on the instances and not for every set of transactions: a child recorded
before its parent is displaced, or two rivals that spend an output nobody watches,
leave a row behind. The properties of `FilterScan` hold on the instances and not for every
payment: they need the situations of section 4 left out, a drain that is not taken for
finished while its blocks are away, and a wallet that never pays past its gap, which
is an assumption on the payments the model does not state; their invariant is not
written yet (section 6). `InputSelection` is recursive over
its inputs, and what it computes for every input would need induction over data,
which the installed provers cannot do.

## 6. What is not modelled, and the plan

Two thirds of the repository's lines are the renderer, which calls IPC channels
and shows what they answer; main's API handlers, the preload bridge, wallet and
settings tables, migrations, rates, contacts, fees and HTTP providers hold no
state that several actors change. Proof of work, 256-bit targets, key derivation,
cryptography and the SDK's own operations are out of a model checker's reach:
headers of a tree are valid, notes are decrypted, proofs verify or fail.

Left out although they hold state: the peer pool's slots, bans and rotation
(PoolService, PeerRotation), which `HeaderSync` and `Broadcast` see as peers that
come and go; SyncService's queue of starts and stops, of which ScanPersistence has
the commands main sends; two wallets of one network, of which only the active one
hears of a reorg; creating an identity from addresses
(`PlatformTransferService.ts:205`), which takes the next index before its awaits
and inserts after the request.

Plan, in order:

1. **Proofs** of what is only model-checked: `FilterScan`'s `ScanSound` and
   `QuietNoHole`.
2. **SyncLifecycle** (SS): start, stop, listen, fatal teardown and the queue that
   serialises them; `addWatchAddresses` before the worker exists.
3. **Compositions**: HeaderSync with ScanPersistence for a crash between
   chain.db's rewind and SQL's; FilterScan with ScanPersistence's queue, for
   refused reset and rewind writes.
4. **PeerPool**, and the retarget arithmetic over bounded integers.
