----------------------------- MODULE FilterScan -----------------------------
(***************************************************************************)
(* The compact-filter scan of the p2p process: CFilterSyncWorker with its  *)
(* block fetcher and watch set, and the discovery of the main process that *)
(* answers it.  The filter-header walk, the inflight filter batches, the   *)
(* block requests and the drain that applies matched blocks in order are   *)
(* modelled; what the drain emits is folded at once into the SQL cursor    *)
(* and rows it ends up in (module ScanPersistence has the way there).      *)
(*                                                                         *)
(* A handler of the worker is synchronous up to its awaits, and the awaits *)
(* of a drain are microtasks: they run in the order they were queued, and  *)
(* no other handler runs before the queue is empty.  So a handler is one   *)
(* action, each microtask is one action, and a handler waits for an empty  *)
(* microtask queue.                                                        *)
(*                                                                         *)
(* Peers are left out: a request is answered at any later time or never,   *)
(* and a bad answer leaves the request as it was.                          *)
(***************************************************************************)
EXTENDS Integers, Sequences, FiniteSets, SequencesExt

CONSTANTS
  StartTip,              \* chain tip when the worker first starts
  MaxTip,                \* bound: how far the chain grows
  StartIndex,            \* highest address index known from the start
  MaxIndex,              \* bound: highest address index ever derived
  Pays,                  \* Pays[h]: addresses the block at height h pays
  FalsePositives,        \* heights whose filter matches though nothing is ours
  GapLimit,              \* CORE_ADDRESS_WINDOW.gapLimit
  CHECKPOINT_SPACING,    \* blocks between two filter-header checkpoints (1000)
  CFILTER_BATCH,         \* heights per filter request
  MAX_INFLIGHT_BATCHES,
  MAX_INFLIGHT_CFHEADERS,
  SCAN_TIP_DEPTH,        \* blocks the scan stays below the chain tip
  Floors,                \* fromHeight values of a contact discovery ({}: none)
  Forks,                 \* fork heights a reorg may rewind to ({}: none)
  Excluded,              \* situations this instance leaves out, see Allowed
  MaxReorgs,             \* bound: number of reorgs
  MaxStalls,             \* bound: batches that run into their last stall
  MaxRestarts            \* bound: stops and crashes of the scan

Genesis == 1
Birthday == 1                          \* birthdayHeight: main never sends one
None == -1
Contact == -1                          \* DASHPAY_WATCH_INDEX
Heights == 1..MaxTip
Indexes == 0..MaxIndex
Addresses == {Contact} \union Indexes
Phases == {"down", "connecting", "cfcheckpt", "cfheaders", "cfilters", "synced"}

ASSUME ConstantsAssumption ==
  /\ StartTip \in Heights /\ MaxTip \in Nat /\ MaxIndex \in Nat
  /\ Pays \in [Heights -> SUBSET Addresses]
  /\ FalsePositives \subseteq Heights
  /\ GapLimit \in Nat \ {0}
  /\ StartIndex \in Nat /\ GapLimit - 1 <= StartIndex /\ StartIndex <= MaxIndex
  /\ CHECKPOINT_SPACING \in Nat /\ CHECKPOINT_SPACING >= 2
  /\ CFILTER_BATCH \in Nat \ {0} /\ MAX_INFLIGHT_BATCHES \in Nat \ {0}
  /\ MAX_INFLIGHT_CFHEADERS \in Nat \ {0} /\ SCAN_TIP_DEPTH \in Nat
  /\ Floors \subseteq Heights /\ Forks \subseteq Heights
  /\ MaxReorgs \in Nat /\ MaxStalls \in Nat /\ MaxRestarts \in Nat

VARIABLES
  worker,        \* the CFilterSyncWorker, a record of its fields
  store,         \* heights whose filter header is in chain.db
  sql,           \* [cursor, rows]: wallet_sync_state and <<height, address>> rows
  known,         \* addresses in main's database
  used,          \* highest index main has marked used
  gapHeld,       \* main saw gapExhausted and has not answered it
  scannedOnce,   \* the initial-scan latch
  reorging,      \* fork of the rewind main has not committed yet, or None
  reorgs,
  stalls,
  restarts

mainVars == <<known, used, gapHeld, scannedOnce>>
counters == <<reorgs, stalls, restarts>>
vars == <<worker, store, sql, mainVars, reorging, counters>>

\* One operator per worker method: it takes the worker and returns it changed,
\* with what it emits appended to posted.
Emit(w, event, height, paid) ==
  [w EXCEPT !.posted = Append(@, [event |-> event, height |-> height, paid |-> paid])]

\* One method after another: w, then Op on the result.
Then(w, Op(_)) == CHOOSE after \in {Op(before) : before \in {w}} : TRUE

\* The highest height the scan goes to: peers may not have the tip itself yet.
EffectiveScanTip(w) == Max({Birthday, w.tip - SCAN_TIP_DEPTH})

-----------------------------------------------------------------------------
(* WatchSet *)

\* Fewer than GapLimit unused addresses above the highest used one.
ExhaustedChain(w) == w.lastUsed + GapLimit > Max({-1} \union w.watch)

Ours(w, height) == Pays[height] \intersect w.watch

\* applyBlock: outputs of ours raise lastUsed; a block without any is not emitted.
ApplyBlock(w, height) ==
  IF Ours(w, height) = {} THEN w
  ELSE Emit([w EXCEPT !.lastUsed = Max({@} \union Ours(w, height))],
            "blockApplied", height, Ours(w, height))

FilterMatches(w, height) == Ours(w, height) # {} \/ height \in FalsePositives

-----------------------------------------------------------------------------
(* The drain: matched blocks are applied upwards while nothing below them is *)
(* outstanding.                                                              *)

Starts(w) == {b.start : b \in w.batches}
Finish == [then |-> "finish", at |-> 0, due |-> {}, settled |-> 0]

\* Mutant: blocks asked for and not here yet do not hold the drain back.
SettledHeight_IgnoresFetches(w) ==
  IF w.batches = {} THEN EffectiveScanTip(w) ELSE Min(Starts(w)) - 1

\* settledHeight: one below the lowest thing still outstanding.
SettledHeight(w) ==
  LET outstanding == Starts(w) \union w.fetching IN
  IF outstanding = {} THEN EffectiveScanTip(w) ELSE Min(outstanding) - 1

\* Everything above height is dropped; the range is scanned again once main
\* has answered with more addresses.
HoldForGap(w, height) ==
  Emit([w EXCEPT !.gapPausedAt = height, !.batches = {}, !.fetching = {}, !.matched = {},
                 !.cursor = height + 1],
       "gapExhausted", height, {})

\* One turn of drainMatched's loop: the next due block and its await, or the
\* end of the drain, which resumes the maybeDrainAndFinish awaiting it.
DrainNext(w, due, settled) ==
  IF due = {}
    THEN LET told == IF settled > 0 THEN Emit(w, "cursorAdvanced", settled, {}) ELSE w IN
         [told EXCEPT !.draining = FALSE, !.micro = Append(@, Finish)]
    ELSE LET h == Min(due) IN
         [ApplyBlock([w EXCEPT !.matched = @ \ {h}], h)
            EXCEPT !.micro = Append(@, [then |-> "drain", at |-> h, due |-> due \ {h},
                                        settled |-> settled])]

\* maybeDrainAndFinish up to its await.
MaybeDrain(w) ==
  IF w.phase # "cfilters" THEN w
  ELSE IF w.draining \/ w.gapPausedAt # None \/ w.awaitingReseed
    THEN [w EXCEPT !.micro = Append(@, Finish)]
    ELSE LET settled == SettledHeight(w) IN
         DrainNext([w EXCEPT !.draining = TRUE], {h \in w.matched : h <= settled}, settled)

\* After the await of one applied block: is the gap still long enough?
DrainContinues(w, task) ==
  IF ExhaustedChain(w)
    THEN [HoldForGap(w, task.at) EXCEPT !.draining = FALSE, !.micro = Append(@, Finish)]
    ELSE DrainNext(w, task.due, task.settled)

\* maybeDrainAndFinish after its await.
DrainFinishes(w) ==
  IF w.gapPausedAt # None \/ w.cursor <= EffectiveScanTip(w) \/ w.batches # {} \/ w.fetching # {}
    THEN w
    ELSE [Emit(w, "cursorAdvanced", EffectiveScanTip(w), {}) EXCEPT !.phase = "synced"]

-----------------------------------------------------------------------------
(* The filter scan *)

BatchStop(w, start) == Min({start + CFILTER_BATCH - 1, EffectiveScanTip(w)})

\* Where the batches above the cursor begin.
BatchStarts(w) ==
  {s \in w.cursor..EffectiveScanTip(w) : (s - w.cursor) % CFILTER_BATCH = 0}

\* pumpCFilters: batches upwards from the cursor while there is room and every
\* filter header from the one below the batch is known.
Pump(w) ==
  LET room(s) == Cardinality(w.batches)
                   + Cardinality({t \in BatchStarts(w) : t < s}) < MAX_INFLIGHT_BATCHES
      indexed(s) == s - 1..BatchStop(w, s) \subseteq w.headers
      built == {s \in BatchStarts(w) :
                  room(s) /\ \A t \in BatchStarts(w) : t <= s => indexed(t)}
      pumped == IF built = {} THEN w
                ELSE [w EXCEPT
                  !.batches = @ \union {[start |-> s, stop |-> BatchStop(w, s),
                                         remaining |-> s..BatchStop(w, s)] : s \in built},
                  !.cursor = BatchStop(w, Max(built)) + 1]
  IN
  IF w.gapPausedAt # None \/ w.awaitingReseed THEN w
  ELSE LET finish(p) ==
         IF p.cursor > EffectiveScanTip(p) /\ p.batches = {} THEN MaybeDrain(p) ELSE p
       IN Then(pumped, finish)

\* startCFilterScan.
StartScan(w) ==
  LET at == Max({Birthday, w.cursor, w.anchor + 1})
      scanning == [w EXCEPT !.cursor = at, !.phase = "cfilters"]
  IN IF ExhaustedChain(scanning) THEN HoldForGap(scanning, at - 1) ELSE Then(scanning, Pump)

-----------------------------------------------------------------------------
(* The filter-header walk *)

Following(w) == w.phase \in {"cfilters", "synced"}

\* Chunks end at the next checkpoint, or at the scan tip.
ChunkStop(w, start) ==
  Min({(start \div CHECKPOINT_SPACING + 1) * CHECKPOINT_SPACING, EffectiveScanTip(w)})

ChunkAt(w, start) == [start |-> start, stop |-> ChunkStop(w, start)]

Chunks(w) ==
  LET top == EffectiveScanTip(w) IN
  IF w.walkStart > top THEN {}
  ELSE {ChunkAt(w, w.walkStart)} \union
       {ChunkAt(w, s) : s \in {t \in ChunkStop(w, w.walkStart) + 1..top :
                                 t % CHECKPOINT_SPACING = 1}}

\* Chunks that are cached whole are skipped up to the first that is not.
SkipCached(w) ==
  LET missing == {c \in Chunks(w) : ~(c.start..c.stop \subseteq w.headers)} IN
  IF missing # {} THEN [w EXCEPT !.walkStart = Min({c.start : c \in missing})]
  ELSE [w EXCEPT !.walkStart = Max({@, EffectiveScanTip(w) + 1})]

\* As many chunks as there is room for are asked for at once; one already
\* pending is passed over.
RequestChunks(w) ==
  LET asked == {p.stop : p \in w.pending}
      fresh == {c \in Chunks(w) : c.stop \notin asked}
      reached == {c \in Chunks(w) :
                    Cardinality(w.pending) + Cardinality({f \in fresh : f.start < c.start})
                      < MAX_INFLIGHT_CFHEADERS}
  IN IF reached = {} THEN w
     ELSE [w EXCEPT !.pending = @ \union (reached \intersect fresh),
                    !.walkStart = Max({c.stop : c \in reached}) + 1]

\* walkCFHeadersNext; the last chunk of the first walk starts the scan.
Walk(w) ==
  LET ask(s) ==
        IF s.walkStart > EffectiveScanTip(s)
          THEN IF s.pending = {} /\ ~Following(s) THEN StartScan(s) ELSE s
          ELSE RequestChunks(IF Following(s) THEN s ELSE [s EXCEPT !.phase = "cfheaders"])
  IN IF w.awaitingReseed THEN w ELSE Then(SkipCached(w), ask)

\* Whether the anchors name the filter header at this height.
IsAnchor(w, height) == height > 0 /\ height % CHECKPOINT_SPACING = 0 /\ height <= w.anchors

-----------------------------------------------------------------------------
(* Commands and events from outside the scan *)

\* requestCheckpoints; a chain below the first checkpoint has none to ask for.
RequestCheckpoints(w) ==
  LET top == (EffectiveScanTip(w) \div CHECKPOINT_SPACING) * CHECKPOINT_SPACING IN
  IF top = 0 THEN w ELSE [w EXCEPT !.asked = top, !.phase = "cfcheckpt"]

\* onCheckpointsReady: the walk starts above the highest anchor below the scan.
CheckpointsReady(w) ==
  LET top == w.asked
      start == Max({Birthday, w.cursor})
      below == ((start - 1) \div CHECKPOINT_SPACING) * CHECKPOINT_SPACING
      anchor == IF 0 < below /\ below <= top THEN below ELSE 0
  IN Then([w EXCEPT !.asked = None, !.anchors = top, !.anchor = anchor,
                    !.headers = IF anchor > 0 THEN @ \union {anchor} ELSE @,
                    !.walkStart = Max({anchor + 1, Birthday})], Walk)

\* Heights whose filter header a chunk brings: its own, and the one it chains
\* from when nothing else knows it.
ChunkHeaders(w, chunk) ==
  LET base == chunk.start - 1 IN
  (chunk.start..chunk.stop) \union
  (IF chunk.start >= 1 /\ ~IsAnchor(w, base) /\ base \notin w.headers THEN {base} ELSE {})

\* onCFHeaders, for an answer that checks out.
CFHeaders(w, chunk) ==
  LET pump(v) == IF Following(v) THEN Pump(v) ELSE v
  IN Then(Then([w EXCEPT !.pending = @ \ {chunk},
                         !.headers = @ \union ChunkHeaders(w, chunk)], Walk), pump)

\* onCFilter, for a filter that hashes to its header: matched against the watch
\* set as it is now.  The filter that completes a batch drains twice, once from
\* the pump and once by itself.
CFilter(w, batch, height) ==
  LET left == batch.remaining \ {height}
      others == w.batches \ {batch}
      matching == IF FilterMatches(w, height)
                    THEN [w EXCEPT !.fetching = @ \union {height}] ELSE w
  IN IF left # {}
       THEN [matching EXCEPT !.batches = others \union {[batch EXCEPT !.remaining = left]}]
     ELSE IF w.phase # "cfilters" THEN [matching EXCEPT !.batches = others]
     ELSE Then(Then([matching EXCEPT !.batches = others], Pump), MaybeDrain)

\* handlePeerBlock, for a block that was asked for and is intact.
PeerBlock(w, height) ==
  LET received == [w EXCEPT !.fetching = @ \ {height}] IN
  IF w.phase = "cfilters"
    THEN Then([received EXCEPT !.matched = @ \union {height}], MaybeDrain)
    ELSE ApplyBlock(received, height)

\* restartScanAfterStall.
RestartScan(w) ==
  Then([w EXCEPT !.batches = {}, !.fetching = {}, !.matched = {}, !.cursor = Min(Starts(w))],
       Pump)

\* Mutant: a scan at the tip does not take new blocks up.
ChainExtended_StaysSynced(w) ==
  LET extended == [w EXCEPT !.tip = @ + 1] IN
  IF Following(w) THEN Then(extended, Walk) ELSE extended

\* onChainExtended, one header.
ChainExtended(w) ==
  LET extended == [w EXCEPT !.tip = @ + 1]
      scan(v) == IF v.cursor <= EffectiveScanTip(v) THEN Pump([v EXCEPT !.phase = "cfilters"])
                 ELSE v
  IN IF Following(w) THEN Then(Then(extended, Walk), scan) ELSE extended

\* Mutant: a rewind keeps the batches it had in flight.
ChainRewound_KeepsBatches(w, fork) ==
  Emit([w EXCEPT !.pending = {}, !.fetching = {}, !.matched = {},
                 !.headers = {h \in @ : h <= fork}, !.tip = fork,
                 !.cursor = Min({@, fork + 1}), !.walkStart = Min({@, fork + 1}),
                 !.awaitingReseed = TRUE],
       "cursorReset", fork, {})

\* Mutant: a rewind leaves the scan cursor where it was.
ChainRewound_KeepsCursor(w, fork) ==
  Emit([w EXCEPT !.pending = {}, !.batches = {}, !.fetching = {}, !.matched = {},
                 !.headers = {h \in @ : h <= fork}, !.tip = fork,
                 !.walkStart = Min({@, fork + 1}),
                 !.awaitingReseed = TRUE],
       "cursorReset", fork, {})

\* onChainRewound: derived state above the fork goes, and the scan holds.
ChainRewound(w, fork) ==
  Emit([w EXCEPT !.pending = {}, !.batches = {}, !.fetching = {}, !.matched = {},
                 !.headers = {h \in @ : h <= fork}, !.tip = fork,
                 !.cursor = Min({@, fork + 1}), !.walkStart = Min({@, fork + 1}),
                 !.awaitingReseed = TRUE],
       "cursorReset", fork, {})

\* reseedUtxos.
ReseedUtxos(w) ==
  LET resumed == [w EXCEPT !.awaitingReseed = FALSE,
                           !.phase = IF @ = "synced" THEN "cfilters" ELSE @]
  IN Then(Then(resumed, Walk), Pump)

\* Mutant: addresses that answer a held scan do not resume it.
AddWatchAddresses_StaysHeld(w, addresses, rewind) ==
  LET added == ~(addresses \subseteq w.watch)
      wider == [w EXCEPT !.watch = @ \union addresses]
      target == Min({w.cursor, Max({Birthday, rewind})})
      rewound == IF rewind = None THEN wider
                 ELSE Emit([wider EXCEPT !.batches = {}, !.matched = {}, !.cursor = target],
                           "cursorReset", target, {})
  IN CASE w.gapPausedAt # None -> wider
       [] w.gapPausedAt = None /\ ~added -> wider
       [] w.gapPausedAt = None /\ added ->
            IF w.phase \in {"connecting", "cfcheckpt", "cfheaders"} THEN rewound
            ELSE IF w.headers = {} THEN RequestCheckpoints(rewound)
            ELSE Then([rewound EXCEPT !.phase = "cfilters"], Pump)

\* Mutant: new addresses are matched forward only.
AddWatchAddresses_ForwardOnly(w, addresses, rewind) ==
  LET wider == [w EXCEPT !.watch = @ \union addresses] IN
  IF w.gapPausedAt # None /\ ~ExhaustedChain(wider)
    THEN Then([wider EXCEPT !.gapPausedAt = None, !.phase = "cfilters"], Pump)
    ELSE wider

\* addWatchAddresses; rewind is a height, or None.
AddWatchAddresses(w, addresses, rewind) ==
  LET added == ~(addresses \subseteq w.watch)
      wider == [w EXCEPT !.watch = @ \union addresses]
      target == Min({w.cursor, Max({Birthday, rewind})})
      rewound == IF rewind = None THEN wider
                 ELSE Emit([wider EXCEPT !.batches = {}, !.matched = {}, !.cursor = target],
                           "cursorReset", target, {})
  IN CASE w.gapPausedAt # None /\ ExhaustedChain(wider) -> wider
       [] w.gapPausedAt # None /\ ~ExhaustedChain(wider) ->
            Then([wider EXCEPT !.gapPausedAt = None, !.phase = "cfilters"], Pump)
       [] w.gapPausedAt = None /\ ~added -> wider
       [] w.gapPausedAt = None /\ added ->
            IF w.phase \in {"connecting", "cfcheckpt", "cfheaders"} THEN rewound
            ELSE IF w.headers = {} THEN RequestCheckpoints(rewound)
            ELSE Then([rewound EXCEPT !.phase = "cfilters"], Pump)

-----------------------------------------------------------------------------
(* Actions *)

Idle(tip) ==
  [phase |-> "down", tip |-> tip, headers |-> {}, walkStart |-> 0, pending |-> {},
   anchor |-> None, anchors |-> 0, asked |-> None, cursor |-> 0, batches |-> {},
   fetching |-> {}, matched |-> {}, gapPausedAt |-> None, awaitingReseed |-> FALSE,
   draining |-> FALSE, watch |-> {}, lastUsed |-> -1, micro |-> <<>>, posted |-> <<>>]

Init ==
  /\ worker = Idle(StartTip) /\ store = {}
  /\ sql = [cursor |-> None, rows |-> {}]
  /\ known = 0..StartIndex /\ used = -1 /\ gapHeld = FALSE /\ scannedOnce = FALSE
  /\ reorging = None
  /\ reorgs = 0 /\ stalls = 0 /\ restarts = 0

\* What main commits for one event; advanceCursor and applyBlock only raise the
\* cursor, resetCursor sets it.
Commit(db, event) ==
  CASE event.event = "blockApplied" ->
         [cursor |-> Max({db.cursor, event.height}),
          rows |-> db.rows \union ({event.height} \X event.paid)]
    [] event.event = "cursorAdvanced" -> [db EXCEPT !.cursor = Max({@, event.height})]
    [] event.event = "cursorReset" -> [db EXCEPT !.cursor = event.height]
    [] event.event = "gapExhausted" -> db

Holding(w) == \E i \in DOMAIN w.posted : w.posted[i].event = "gapExhausted"

\* The worker becomes w, and what it posted is committed to db; held says
\* whether main still has a hold to answer.
Becomes(w, db, held) ==
  \E next \in {w} :
    /\ worker' = [next EXCEPT !.posted = <<>>]
    /\ sql' = FoldLeft(Commit, db, next.posted)
    /\ gapHeld' = (held \/ Holding(next))

\* A handler that runs between two microtask drains.
Handler(w) ==
  /\ worker.phase # "down" /\ worker.micro = <<>>
  /\ Becomes(w, sql, gapHeld)
  /\ UNCHANGED <<known, used, scannedOnce, restarts>>

Microtask ==
  /\ worker.micro # <<>>
  /\ LET task == Head(worker.micro)
         w == [worker EXCEPT !.micro = Tail(@)]
         ran == IF task.then = "drain" THEN DrainContinues(w, task) ELSE DrainFinishes(w)
     IN Becomes(ran, sql, gapHeld)
  /\ UNCHANGED <<store, known, used, scannedOnce, reorging, counters>>

\* startSync and the worker's start: seeded from SQL and chain.db.
Start ==
  /\ worker.phase = "down" /\ reorging = None
  /\ worker' = [Idle(worker.tip) EXCEPT
       !.phase = "connecting", !.headers = store, !.watch = known, !.lastUsed = used,
       !.cursor = Max({Birthday, sql.cursor + 1})]
  /\ gapHeld' = FALSE
  /\ UNCHANGED <<store, sql, known, used, scannedOnce, reorging, counters>>

\* A stop, or the death of the process: at any microtask, with all it held.
Halt ==
  /\ worker.phase # "down" /\ restarts < MaxRestarts
  /\ restarts' = restarts + 1
  /\ worker' = Idle(worker.tip)
  /\ UNCHANGED <<store, sql, mainVars, reorging, reorgs, stalls>>

PeerReady ==
  /\ worker.phase = "connecting"
  /\ Handler(RequestCheckpoints(worker))
  /\ UNCHANGED <<store, reorging, reorgs, stalls>>

CheckpointsArrive ==
  /\ worker.asked # None
  /\ Handler(CheckpointsReady(worker))
  /\ UNCHANGED <<store, reorging, reorgs, stalls>>

CFHeadersArrive(chunk) ==
  /\ Handler(CFHeaders(worker, chunk))
  /\ store' = store \union ChunkHeaders(worker, chunk)
  /\ UNCHANGED <<reorging, reorgs, stalls>>

CFilterArrives(batch, height) ==
  /\ Handler(CFilter(worker, batch, height))
  /\ UNCHANGED <<store, reorging, reorgs, stalls>>

BlockArrives(height) ==
  /\ Handler(PeerBlock(worker, height))
  /\ UNCHANGED <<store, reorging, reorgs, stalls>>

\* The timer of a batch nobody answered fires for the last time.
BatchStalls(batch) ==
  /\ stalls < MaxStalls /\ batch.remaining # {}
  /\ stalls' = stalls + 1
  /\ Handler(RestartScan(worker))
  /\ UNCHANGED <<store, reorging, reorgs>>

TipGrows ==
  /\ worker.tip < MaxTip
  /\ Handler(ChainExtended(worker))
  /\ UNCHANGED <<store, reorging, reorgs, stalls>>

Reorg(fork) ==
  /\ reorging = None /\ fork < worker.tip /\ reorgs < MaxReorgs
  /\ reorgs' = reorgs + 1
  /\ Handler(ChainRewound(worker, fork))
  /\ store' = {h \in store : h <= fork}
  /\ reorging' = fork
  /\ UNCHANGED stalls

\* rewindToHeight commits in main, and a worker that is up is reseeded.
Reseed ==
  /\ reorging # None /\ worker.micro = <<>>
  /\ LET rewound == [cursor |-> Min({sql.cursor, reorging}),
                     rows |-> {r \in sql.rows : r[1] <= reorging}]
         w == IF worker.phase = "down" THEN worker ELSE ReseedUtxos(worker)
     IN Becomes(w, rewound, gapHeld)
  /\ reorging' = None
  /\ UNCHANGED <<store, known, used, scannedOnce, counters>>

-----------------------------------------------------------------------------
(* Discovery in the main process *)

UsedIndexes == {r[2] : r \in sql.rows} \intersect Indexes

\* WalletSyncService.addWatchAddresses: no rewind when it answers a held scan,
\* nor after the first full scan unless a floor is given.
Rewind(floor) ==
  IF gapHeld \/ (scannedOnce /\ floor = None) THEN None ELSE Max({Genesis, floor})

Watch(addresses, floor) ==
  LET rewind == Rewind(floor)
      skipped == floor # None /\ sql.cursor # None /\ sql.cursor <= rewind
      reset == IF rewind = None \/ skipped THEN sql ELSE [sql EXCEPT !.cursor = rewind]
      w == IF worker.phase = "down" THEN worker ELSE AddWatchAddresses(worker, addresses, rewind)
  IN
  /\ worker.micro = <<>>
  /\ Becomes(w, reset, FALSE)
  /\ known' = known \union addresses
  /\ UNCHANGED <<store, scannedOnce, reorging, counters>>

\* runCoreDiscovery: the addresses planWindow finds missing above the highest
\* used one.
DiscoverChain ==
  LET lastUsed == Max({used} \union UsedIndexes)
      frontier == lastUsed + GapLimit
  IN /\ frontier \notin known /\ frontier <= MaxIndex
     /\ used' = lastUsed
     /\ Watch((0..frontier) \ known, None)

\* discoverDashPayAddresses, a contact's new chain: rescanned from its floor.
DiscoverContact(floor) ==
  /\ Contact \notin known
  /\ Watch({Contact}, floor)
  /\ UNCHANGED used

\* A discovery that finds nothing to add while the scan is at the tip.
LatchInitialScan ==
  /\ worker.phase = "synced" /\ ~scannedOnce
  /\ Max({used} \union UsedIndexes) + GapLimit \in known
  /\ scannedOnce' = TRUE
  /\ used' = Max({used} \union UsedIndexes)
  /\ UNCHANGED <<worker, store, sql, known, gapHeld, reorging, counters>>

-----------------------------------------------------------------------------
(* Situations an instance can leave out: each of them loses blocks, as the   *)
(* configurations named after them show.                                     *)

StallOverPending ==
  \E h \in worker.fetching \union worker.matched : h < Min(Starts(worker))

RewindAboveOutstanding(floor) ==
  \E h \in {worker.cursor} \union Starts(worker) \union worker.fetching \union worker.matched :
    worker.phase # "down" /\ h <= Rewind(floor)

RewindDuringWalk(floor) ==
  /\ Rewind(floor) # None
  /\ worker.phase = "cfheaders"

HaltWhileHeld == scannedOnce /\ (gapHeld \/ worker.gapPausedAt # None)

\* A second block above a scan that already follows the first one.
TipGrowsDuringScan == worker.phase = "cfilters"

Allowed(situation, happens) == happens => situation \notin Excluded

Next ==
  \/ Start \/ Microtask
  \/ /\ Allowed("halt while held", HaltWhileHeld)
     /\ Allowed("halt within a drain", worker.micro # <<>>)
     /\ Halt
  \/ PeerReady \/ CheckpointsArrive
  \/ \E chunk \in worker.pending : CFHeadersArrive(chunk)
  \/ \E batch \in worker.batches : \E h \in batch.remaining : CFilterArrives(batch, h)
  \/ \E h \in worker.fetching : BlockArrives(h)
  \/ \E batch \in worker.batches :
       Allowed("stall over pending blocks", StallOverPending) /\ BatchStalls(batch)
  \/ Allowed("tip grows during scan", TipGrowsDuringScan) /\ TipGrows
  \/ \E fork \in Forks :
       /\ Allowed("reorg ahead of the scan", fork > sql.cursor)
       /\ Allowed("rewind during walk", worker.phase = "cfheaders" /\ fork < worker.anchor)
       /\ Reorg(fork)
  \/ Reseed
  \/ Allowed("rewind during walk", RewindDuringWalk(None)) /\ DiscoverChain
  \/ \E floor \in Floors :
       /\ Allowed("rewind above outstanding", RewindAboveOutstanding(floor))
       /\ Allowed("rewind during walk", RewindDuringWalk(floor))
       /\ Allowed("discovery while held", gapHeld)
       /\ Allowed("floor without a cursor", sql.cursor = None)
       /\ DiscoverContact(floor)
  \/ LatchInitialScan

Spec == Init /\ [][Next]_vars

\* Every request is answered in the end (a timer asks another peer until one
\* does), microtasks and main's queue run by themselves, and discovery answers
\* a held scan.  Nothing is promised of stops, stalls, new blocks or reorgs.
FairSpec ==
  /\ Spec
  /\ WF_vars(Start) /\ WF_vars(Microtask)
  /\ WF_vars(PeerReady) /\ WF_vars(CheckpointsArrive)
  /\ WF_vars(\E chunk \in worker.pending : CFHeadersArrive(chunk))
  /\ WF_vars(\E batch \in worker.batches : \E h \in batch.remaining : CFilterArrives(batch, h))
  /\ WF_vars(\E h \in worker.fetching : BlockArrives(h))
  /\ WF_vars(Reseed) /\ WF_vars(DiscoverChain)

-----------------------------------------------------------------------------
(* Properties *)

AwaitedFilters(w) == UNION {b.remaining : b \in w.batches}
Due(w) == UNION {w.micro[i].due : i \in DOMAIN w.micro}
Recorded(h) == {h} \X (Pays[h] \intersect known) \subseteq sql.rows

\* Every field keeps its type, and batches and chunks lie inside the chain.
TypeOK ==
  /\ worker.phase \in Phases /\ worker.tip \in Heights
  /\ worker.headers \subseteq 0..MaxTip /\ store \subseteq 0..MaxTip
  /\ worker.walkStart \in 0..MaxTip + 1 /\ worker.cursor \in 0..MaxTip + 1
  /\ \A c \in worker.batches \union worker.pending : c.start \in 0..c.stop /\ c.stop \in Heights
  /\ \A b \in worker.batches : b.remaining # {} /\ b.remaining \subseteq b.start..b.stop
  /\ worker.fetching \union worker.matched \subseteq Heights
  /\ worker.gapPausedAt \in {None} \union 0..MaxTip
  /\ worker.watch \subseteq Addresses /\ worker.lastUsed \in -1..MaxIndex
  /\ worker.posted = <<>>
  /\ sql.cursor \in {None} \union 0..MaxTip /\ sql.rows \subseteq Heights \X Addresses
  /\ known \subseteq Addresses /\ used \in -1..MaxIndex

\* A launch never skips a payment: every block at or below the SQL cursor has
\* a row for each address of the wallet it pays.
NoHole ==
  reorging = None => \A h \in Heights : h <= sql.cursor => Recorded(h)

\* The same, between two handlers.
QuietNoHole == worker.micro = <<>> => NoHole

\* Nothing the scan has passed is forgotten: a block below the scan cursor that
\* pays a watched address is recorded, or its filter or block is still awaited,
\* or it waits for the drain.
NothingForgotten ==
  Following(worker) /\ ~worker.awaitingReseed =>
    \A h \in Heights : h < worker.cursor =>
      \/ {h} \X Ours(worker, h) \subseteq sql.rows
      \/ h \in AwaitedFilters(worker) \union worker.fetching \union worker.matched \union Due(worker)

\* The fields of the worker fit together, and no payment below its cursor is in
\* none of them: it is recorded, or a filter, a fetch, a matched block or a posted
\* event stands for it (CFilterSyncWorker, across rewinds, stalls and restarts).
ScanSound == TypeOK /\ NothingForgotten

\* Blocks reach SQL upwards: when a payment is recorded, every payment to a
\* watched address below it is there already.
AppliedInOrder ==
  [][\A r \in sql'.rows \ sql.rows : \A h \in 1..r[1] - 1 :
       {h} \X Ours(worker, h) \subseteq sql.rows]_vars

\* While the scan is held, for the gap or for the reseed after a reorg, the
\* SQL cursor does not rise.
HeldStill ==
  [][LET held(w) == w.gapPausedAt # None \/ w.awaitingReseed IN
     held(worker) /\ held(worker') => sql'.cursor <= sql.cursor]_vars

\* A scan that is up and not stopped gets to the tip, again and again, with
\* everything below the tip recorded.
ScanCompletes ==
  []<>(worker.phase = "synced" /\ \A h \in 1..EffectiveScanTip(worker) : Recorded(h))
=============================================================================
