----------------------------- MODULE HeaderSync -----------------------------
(***************************************************************************)
(* HeaderSyncWorker over ChainStore: header races, tip following, forks,   *)
(* ChainLocks and the vote of peers that cannot place our tip.             *)
(*                                                                         *)
(* The tip in memory moves before chain.db does.  Tip-moving writes queue  *)
(* in ChainStore and land one by one; what a handler does after its write  *)
(* is part of the action in which the write lands.  Handlers are           *)
(* synchronous up to that write, so each is one action; a branch check is  *)
(* a microtask, and no other handler runs before it.                       *)
(*                                                                         *)
(* Blocks form a tree given as a constant, and every header in it is       *)
(* valid: a batch that fails validation changes nothing.  A batch is a     *)
(* path of the tree, named by the block it builds on and its last block.   *)
(***************************************************************************)
EXTENDS Integers, Sequences, FiniteSets, SequencesExt

CONSTANTS
  Blocks, Genesis,
  Parent,                \* Parent[b], for every block but Genesis
  Work,                  \* Work[b]
  Origin,                \* what Genesis builds on; not in Blocks
  None,
  Peers,
  StartTips,             \* StartTips[p]: the tip of peer p when the run starts
  Best,                  \* the heaviest block, where every peer ends up
  Locks,                 \* blocks the network ChainLocks, on the chain of Best
  REORG_MAX_DEPTH,
  LOCATOR_DENSE_HEIGHTS,
  MAX_HEADERS,           \* headers per answer (2000)
  ORPHAN_VOTE_PEERS,
  LOCATOR_SEEN_LIMIT,    \* tips remembered as asked from (4096)
  Excluded,              \* situations this instance leaves out, see Allowed
  MaxFailures            \* bound: peers lost, and ends of the process or of the sync

\* Tabulated, so that TLC walks the tree once.
Nodes == Blocks \union {Origin}

\* What holds the parent of each of its blocks.
Branches == {S \in SUBSET Blocks : \A x \in S \ {Genesis} : Parent[x] \in S}

\* The blocks from Genesis up to b.
Chain ==
  [b \in Nodes |->
     IF b = Origin THEN {} ELSE {x \in Blocks : \A S \in Branches : b \in S => x \in S}]

Height == [b \in Nodes |-> Cardinality(Chain[b])]

ChainWork ==
  LET work[b \in Blocks] == IF b = Genesis THEN 0 ELSE work[Parent[b]] + Work[b]
  IN [b \in Blocks |-> work[b]]

MaxHeight == Max({Height[b] : b \in Blocks})
At(b, height) == CHOOSE x \in Chain[b] : Height[x] = height

\* The headers of a batch.
Path(after, last) == {b \in Chain[last] : Height[b] > Height[after]}

ASSUME TreeAssumption ==
  /\ Genesis \in Blocks /\ Origin \notin Blocks /\ None \notin Blocks \union {Origin}
  /\ Parent \in [Blocks \ {Genesis} -> Blocks] /\ Work \in [Blocks -> Nat \ {0}]
  /\ IsFiniteSet(Blocks) /\ \A b \in Blocks \ {Genesis} : b \notin Chain[Parent[b]]
  /\ Best \in Blocks /\ StartTips \in [Peers -> Blocks]
  /\ \A b \in Blocks : ChainWork[b] <= ChainWork[Best]
  /\ Locks \subseteq Chain[Best]
  /\ REORG_MAX_DEPTH \in Nat \ {0} /\ LOCATOR_DENSE_HEIGHTS \in Nat \ {0}
  /\ MAX_HEADERS \in Nat \ {0} /\ ORPHAN_VOTE_PEERS \in Nat \ {0}
  /\ MaxFailures \in Nat

VARIABLES
  worker,        \* the HeaderSyncWorker, a record of its fields; ready is the
                 \* pool's readyPeers, changed before the worker hears of it
  disk,          \* chain.db: [tip, headers], headers by height
  follower,      \* CFilterSyncWorker's chain index: [tip, hashes]
  peerTip,       \* the active tip of each peer
  chainLock,     \* SyncService: the highest ChainLock seen
  failures

vars == <<worker, disk, follower, peerTip, chainLock, failures>>

NoRace == [from |-> None, locator |-> {}, racers |-> {}, zeros |-> 0]

-----------------------------------------------------------------------------
(* ChainWindow and the locator *)

Floor(tip) == Max({1, Height[tip] - REORG_MAX_DEPTH})

\* prune: only heights between the floor and the tip stay.
Pruned(window, tip) ==
  [h \in {h \in DOMAIN window : Floor(tip) <= h /\ h <= Height[tip]} |-> window[h]]

Recorded(window, blocks) ==
  [h \in DOMAIN window \union {Height[b] : b \in blocks} |->
     IF \E b \in blocks : Height[b] = h THEN CHOOSE b \in blocks : Height[b] = h ELSE window[h]]

InWindow(w, b) == b \in Range(w.window)

\* Heights of a locator: dense below the tip, then doubling down to the floor.
LocatorHeights(tip) ==
  LET down == (0..LOCATOR_DENSE_HEIGHTS - 1)
                \union {LOCATOR_DENSE_HEIGHTS - 3 + 2^j : j \in 2..5}
  IN {Floor(tip)} \union {h \in {Height[tip] - k : k \in down} : h > Floor(tip)}

Locator(w) ==
  LET known == {w.window[h] : h \in LocatorHeights(w.tip) \intersect DOMAIN w.window}
  IN IF known = {} THEN {w.tip} ELSE known

-----------------------------------------------------------------------------
(* Races *)

\* One step of a handler after another: w, then Op on the result.
Then(w, Op(_)) == CHOOSE after \in {Op(before) : before \in {w}} : TRUE

Post(w, event) == [w EXCEPT !.posted = Append(@, event)]

\* rememberAsked: a full memory is emptied first.
RememberAsked(w) ==
  {w.tip} \union IF Cardinality(w.askedFrom) >= LOCATOR_SEEN_LIMIT THEN {} ELSE w.askedFrom

\* requestTipHeaders, and the sends of a race.
Ask(w, peers) ==
  IF peers = {} THEN w
  ELSE [w EXCEPT !.askedFrom = RememberAsked(w),
                 !.requests = @ \union {[peer |-> p, locator |-> Locator(w)] : p \in peers}]

\* startHeaderRace: peers that went silent are asked only when all of them are.
StartRace(w) ==
  LET fresh == w.ready \ w.silent
      picks == IF fresh # {} THEN fresh ELSE w.ready
  IN IF w.race # NoRace \/ w.ready = {} THEN w
     ELSE Then([w EXCEPT !.race = [from |-> w.tip, locator |-> Locator(w), racers |-> picks,
                                   zeros |-> 0]],
               LAMBDA racing : Ask(racing, picks))

\* A peer that joins a race under way.
Join(w, peers) ==
  [w EXCEPT !.race.racers = @ \union peers,
            !.requests = @ \union {[peer |-> p, locator |-> w.race.locator] : p \in peers}]

Restart(w) == Then([w EXCEPT !.race = NoRace], StartRace)

RestartIfExhausted(w) == IF w.race.racers # {} THEN w ELSE Restart(w)

-----------------------------------------------------------------------------
(* The tip *)

\* commitHeaders up to its write: the tip moves first.
CommitHeaders(w, last, race) ==
  [w EXCEPT !.tip = last,
            !.window = Pruned(Recorded(@, Path(w.tip, last)), last),
            !.quiet = FALSE, !.announced = {}, !.divergent = {},
            !.writes = Append(@, [kind |-> "append", from |-> w.tip, last |-> last, race |-> race])]

\* rewindTo after its write.
RewindTo(w, fork) ==
  Post([w EXCEPT !.tip = fork, !.window = Pruned(@, fork)],
       [event |-> "rewound", height |-> Height[fork]])

WorkOf(blocks) == FoldSet(LAMBDA b, sum : sum + Work[b], 0, blocks)

\* workAbove: our side of a fork, as far as the window knows it.
WorkAbove(w, fork) ==
  WorkOf({w.window[h] : h \in {h \in DOMAIN w.window : h > Height[fork]}})

\* Bugs for ConsiderFork: the ChainLocked height is not looked at; any branch
\* wins; the new branch is appended over the old one.
ConsiderFork_IgnoresFinality(w, fork, last, race) ==
  IF WorkOf(Path(fork, last)) <= WorkAbove(w, fork) THEN w
  ELSE [w EXCEPT !.writes =
          Append(@, [kind |-> "rewind", from |-> fork, last |-> last, race |-> race])]

ConsiderFork_AnyWork(w, fork, last, race) ==
  IF Height[fork] < w.finality THEN w
  ELSE [w EXCEPT !.writes =
          Append(@, [kind |-> "rewind", from |-> fork, last |-> last, race |-> race])]

ConsiderFork_NoRewind(w, fork, last, race) ==
  IF Height[fork] < w.finality \/ WorkOf(Path(fork, last)) <= WorkAbove(w, fork) THEN w
  ELSE CommitHeaders([w EXCEPT !.tip = fork, !.window = Pruned(@, fork)], last, race)

\* considerFork up to its write.
ConsiderFork(w, fork, last, race) ==
  IF Height[fork] < w.finality \/ WorkOf(Path(fork, last)) <= WorkAbove(w, fork) THEN w
  ELSE [w EXCEPT !.writes =
          Append(@, [kind |-> "rewind", from |-> fork, last |-> last, race |-> race])]

\* A bug for NoteDivergence: as many votes as asked for are not enough.
NoteDivergence_OneMore(w, peer) ==
  LET votes == w.divergent \union {peer} IN
  IF w.dropping \/ w.dropQueued \/ ~w.quiet THEN w
  ELSE IF Cardinality(votes) <= Min({ORPHAN_VOTE_PEERS, Max({1, Cardinality(w.ready)})})
    THEN [w EXCEPT !.divergent = votes]
    ELSE [w EXCEPT !.divergent = votes, !.dropQueued = TRUE, !.checks = Append(@, "drop")]

\* noteDivergence: enough peers that answer from where we have never been,
\* while no header lands, and our branch is the one that lost.
NoteDivergence(w, peer) ==
  LET votes == w.divergent \union {peer} IN
  IF w.dropping \/ w.dropQueued \/ ~w.quiet THEN w
  ELSE IF Cardinality(votes) < Min({ORPHAN_VOTE_PEERS, Max({1, Cardinality(w.ready)})})
    THEN [w EXCEPT !.divergent = votes]
    ELSE [w EXCEPT !.divergent = votes, !.dropQueued = TRUE, !.checks = Append(@, "drop")]

\* trimKnownPrefix: the highest block of the batch the window holds in one run.
Known(w, after, last) ==
  LET held == {b \in Path(after, last) : \A x \in Path(after, b) : InWindow(w, x)}
  IN IF held = {} THEN after ELSE CHOOSE b \in held : \A x \in held : Height[x] <= Height[b]

\* processHeaders.
ProcessHeaders(w, peer, after, last, race) ==
  LET fork == Known(w, after, last) IN
  CASE after = last -> w
    [] after # last /\ after = w.tip -> CommitHeaders(w, last, race)
    [] after # last /\ after # w.tip /\ ~InWindow(w, after) ->
         IF after \in w.askedFrom THEN w ELSE NoteDivergence(w, peer)
    [] OTHER ->
         IF fork = last THEN w
         ELSE IF fork = w.tip THEN CommitHeaders(w, last, race)
         ELSE ConsiderFork(w, fork, last, race)

\* A bug for OfEarlierRace: any block of the window counts.
OfEarlierRace_Window(w, after) == after # w.race.from /\ InWindow(w, after)

\* The batch builds on a tip an earlier race asked from.
OfEarlierRace(w, after) == after # w.race.from /\ after \in w.askedFrom

\* An answer within a race.
RaceAnswer(w, peer, after, last) ==
  LET answered == [w EXCEPT !.race.racers = @ \ {peer}]
      counted == [answered EXCEPT !.race.zeros = @ + 1]
      Done(done) ==
        IF Len(done.writes) > Len(w.writes) \/ w.race.zeros > 0 THEN done
        ELSE RestartIfExhausted(done)
  IN
  IF peer \notin w.race.racers THEN w
  ELSE IF after = last
    THEN IF counted.race.zeros >= Min({2, Max({1, Cardinality(w.ready)})})
           THEN [counted EXCEPT !.race = NoRace, !.phase = "synced"]
           ELSE RestartIfExhausted(counted)
  ELSE IF OfEarlierRace(w, after) THEN w
  ELSE Then(ProcessHeaders(answered, peer, after, last, w.race.from), Done)

\* handlePeerHeaders.
PeerHeaders(w, peer, after, last) ==
  Then([w EXCEPT !.silent = @ \ {peer}],
    LAMBDA heard : IF w.phase = "syncing" THEN RaceAnswer(heard, peer, after, last)
                   ELSE ProcessHeaders(heard, peer, after, last, None))

\* chaseAnnouncedBlocks, for an inv of one block.
PeerInv(w, peer, block) ==
  IF w.phase # "synced" \/ InWindow(w, block) \/ block \in w.announced THEN w
  ELSE Ask([w EXCEPT !.announced = @ \union {block}], {peer})

\* handlePeerReady; late says whether the tip has been still for a minute.
PeerReadied(w, peer, late) ==
  CASE w.phase \in {"connecting", "syncing"} ->
         LET syncing == [w EXCEPT !.phase = "syncing"] IN
         IF w.race = NoRace THEN StartRace(syncing) ELSE Join(syncing, {peer})
    [] w.phase = "synced" /\ late -> Ask(w, {peer})
    [] OTHER -> w

\* handlePeerDisconnect.
PeerGone(w, peer) ==
  LET left == [w EXCEPT !.silent = @ \ {peer}, !.race.racers = @ \ {peer}]
  IN IF peer \notin w.race.racers \/ left.race.racers # {} THEN left
     ELSE IF w.phase = "syncing" THEN Restart(left) ELSE [left EXCEPT !.race = NoRace]

-----------------------------------------------------------------------------
(* Branch checks: one at a time, a drop holding the next until it is done. *)

\* hashAtHeight: the window, else chain.db.
HashAt(w, height) ==
  IF height \in DOMAIN w.window THEN w.window[height]
  ELSE IF height \in DOMAIN disk.headers THEN disk.headers[height]
  ELSE None

Settled(w) == [w EXCEPT !.divergent = {}, !.dropQueued = FALSE]

\* dropLostBranch up to its write; lostFrom is the ChainLocked height, or 0.
DropLostBranch(w, lostFrom) ==
  LET down == IF lostFrom = 0 THEN Height[w.tip] - REORG_MAX_DEPTH ELSE lostFrom - 1
      dropTo == Max({down, w.finality, 1})
      block == HashAt(w, dropTo)
  IN IF dropTo >= Height[w.tip] \/ block = None THEN Settled(w)
     ELSE [w EXCEPT !.dropping = TRUE,
                    !.writes = Append(@, [kind |-> "drop", from |-> block, last |-> block,
                                          race |-> None])]

\* verifyPendingLock.
VerifyPendingLock(w) ==
  LET lock == w.pendingLock
      ours == HashAt(w, Height[lock])
      met == [w EXCEPT !.pendingLock = None]
  IN IF lock = None THEN w
     ELSE IF Height[lock] > Height[w.tip] \/ ours = None THEN w
     ELSE IF ours = lock THEN [met EXCEPT !.finality = Height[lock]]
     ELSE DropLostBranch(met, Height[lock])

\* noteChainLock.
NoteChainLock(w, block) ==
  IF \/ Height[block] <= w.finality
     \/ w.pendingLock # None /\ Height[block] <= Height[w.pendingLock]
    THEN w
    ELSE [w EXCEPT !.pendingLock = block, !.checks = Append(@, "verify")]

-----------------------------------------------------------------------------
(* The end of a write: what its handler does next *)

\* commitHeaders after its write, and the race of the batch goes on.
\* A race is told by the tip it started from: one that was restarted there while
\* the write was under way ends here, where the code leaves it to its timer.
Appended(w, write) ==
  LET told == [Post(w, [event |-> "extended", from |-> write.from, last |-> write.last])
                 EXCEPT !.phase = IF @ = "connecting" THEN "syncing" ELSE @]
      checked == IF w.pendingLock # None /\ Height[w.pendingLock] <= Height[write.last]
                   THEN [told EXCEPT !.checks = Append(@, "verify")] ELSE told
      over == IF w.race.from = write.race THEN [checked EXCEPT !.race = NoRace] ELSE checked
  IN IF write.race = None THEN checked ELSE Then(over, StartRace)

\* dropLostBranch after its write.
Dropped(w, write) ==
  Settled(Then([RewindTo(w, write.from) EXCEPT
                  !.announced = {}, !.race = NoRace, !.dropping = FALSE,
                  !.phase = IF @ = "starting" THEN @ ELSE "syncing"], StartRace))

Resumed(w, write) ==
  CASE write.kind = "append" -> Appended(w, write)
    [] write.kind = "rewind" -> Then(RewindTo(w, write.from),
         LAMBDA fork : CommitHeaders(fork, write.last, write.race))
    [] write.kind = "drop" -> Dropped(w, write)

\* appendHeaders and deleteHeadersFrom: one batch with the tip marker.
Written(db, write) ==
  IF write.kind = "append"
    THEN [tip |-> write.last, headers |-> Recorded(db.headers, Path(write.from, write.last))]
    ELSE [tip |-> write.from,
          headers |-> [h \in {h \in DOMAIN db.headers : h <= Height[write.from]} |-> db.headers[h]]]

\* A bug for Follow: a rewind does not lower the filter scan's tip.
Follow_KeepsTip(index, event) ==
  IF event.event = "rewound" THEN index
  ELSE [tip |-> Max({index.tip, Height[event.last]}),
        hashes |-> Recorded(index.hashes, Path(event.from, event.last))]

\* onChainExtended and onChainRewound of CFilterSyncWorker, as to its chain index.
Follow(index, event) ==
  IF event.event = "rewound" THEN [index EXCEPT !.tip = event.height]
  ELSE [tip |-> Max({index.tip, Height[event.last]}),
        hashes |-> Recorded(index.hashes, Path(event.from, event.last))]

-----------------------------------------------------------------------------
(* Actions *)

Down ==
  [phase |-> "stopped", ready |-> {}, tip |-> Genesis, window |-> <<>>,
   finality |-> 0, pendingLock |-> None,
   askedFrom |-> {}, race |-> NoRace, requests |-> {}, silent |-> {}, announced |-> {},
   divergent |-> {}, dropQueued |-> FALSE, dropping |-> FALSE, quiet |-> FALSE,
   writes |-> <<>>, checks |-> <<>>, posted |-> <<>>]

Init ==
  /\ worker = Down
  /\ disk = [tip |-> Genesis, headers |-> <<>>]
  /\ follower = [tip |-> 1, hashes |-> <<Genesis>>]
  /\ peerTip = StartTips /\ chainLock = None
  /\ failures = 0

Becomes(w) ==
  \E after \in {w} :
    /\ worker' = [after EXCEPT !.posted = <<>>]
    /\ follower' = FoldLeft(Follow, follower, after.posted)

Idle == worker.checks = <<>> \/ worker.dropping

\* A handler of an event of the pool: only once start has attached them.
Handler(w) ==
  /\ worker.phase \notin {"stopped", "starting"} /\ Idle
  /\ Becomes(w)
  /\ UNCHANGED disk

\* The start of the worker: tip and window from chain.db, and the ChainLock is
\* checked before any peer is asked.
Start ==
  LET from == Floor(disk.tip)
      loaded == [h \in {h \in DOMAIN disk.headers : from <= h /\ h <= Height[disk.tip]} |->
                   disk.headers[h]]
  IN
  /\ worker.phase = "stopped"
  /\ worker' = [Down EXCEPT !.phase = "starting", !.tip = disk.tip,
       !.window = IF Height[disk.tip] \in DOMAIN loaded THEN loaded
                  ELSE Recorded(loaded, {disk.tip}),
       !.pendingLock = chainLock, !.checks = <<"verify">>]
  /\ follower' = [tip |-> Height[disk.tip], hashes |-> Recorded(disk.headers, {Genesis, disk.tip})]
  /\ UNCHANGED <<disk, peerTip, chainLock, failures>>

\* The listeners are attached, and the peers that are ready already count.
Attach ==
  LET connecting == [worker EXCEPT !.phase = "connecting"]
      syncing == [worker EXCEPT !.phase = "syncing"]
  IN
  /\ worker.phase = "starting" /\ worker.checks = <<>> /\ ~worker.dropping
  /\ Becomes(IF worker.ready = {} THEN connecting
             ELSE IF worker.race = NoRace THEN StartRace(syncing)
             ELSE Join(syncing, worker.ready))
  /\ UNCHANGED <<disk, peerTip, chainLock, failures>>

\* The process ends, or the sync is stopped: writes that have not landed are gone.
Crash ==
  /\ worker.phase # "stopped" /\ failures < MaxFailures
  /\ failures' = failures + 1
  /\ worker' = Down /\ chainLock' \in {chainLock, None}
  /\ follower' = [tip |-> 1, hashes |-> <<Genesis>>]
  /\ UNCHANGED <<disk, peerTip>>

PeerReady(peer, late) ==
  LET joined == [worker EXCEPT !.ready = @ \union {peer}] IN
  /\ peer \notin worker.ready /\ worker.phase # "stopped" /\ (worker.quiet => late)
  /\ IF worker.phase = "starting"
       THEN worker' = joined /\ UNCHANGED <<follower, disk>>
       ELSE Handler(PeerReadied(joined, peer, late))
  /\ UNCHANGED <<peerTip, chainLock, failures>>

PeerDisconnects(peer) ==
  LET left == [worker EXCEPT !.ready = @ \ {peer},
                             !.requests = {r \in @ : r.peer # peer}] IN
  /\ peer \in worker.ready /\ failures < MaxFailures
  /\ failures' = failures + 1
  /\ IF worker.phase = "starting"
       THEN worker' = left /\ UNCHANGED <<follower, disk>>
       ELSE Handler(PeerGone(left, peer))
  /\ UNCHANGED <<peerTip, chainLock>>

\* A peer answers getheaders from the highest block of the locator on its own
\* chain, or from the first block when it knows none of them.
Answers(request) ==
  LET theirs == peerTip[request.peer]
      common == Chain[theirs] \intersect request.locator
      after == IF common = {} THEN Origin
               ELSE CHOOSE b \in common : \A x \in common : Height[x] <= Height[b]
  IN [after |-> after,
      last |-> IF after = theirs THEN theirs
               ELSE At(theirs, Min({Height[theirs], Height[after] + MAX_HEADERS}))]

AnswerArrives(request) ==
  LET answer == Answers(request)
      taken == [worker EXCEPT !.requests = @ \ {request}]
  IN /\ Handler(PeerHeaders(taken, request.peer, answer.after, answer.last))
     /\ UNCHANGED <<peerTip, chainLock, failures>>

\* A peer follows the chain to a heavier tip, and tells us by headers, by an
\* inv, or not at all.
Heavier(peer) == {b \in Blocks : ChainWork[b] > ChainWork[peerTip[peer]]}

MeetingPoint(a, b) ==
  CHOOSE x \in Chain[a] \intersect Chain[b] :
    \A y \in Chain[a] \intersect Chain[b] : Height[y] <= Height[x]

PeerMoves(peer, block) ==
  /\ peerTip' = [peerTip EXCEPT ![peer] = block]
  /\ UNCHANGED <<worker, follower, disk, chainLock, failures>>

HeadersPushed(peer, block) ==
  /\ peer \in worker.ready
  /\ peerTip' = [peerTip EXCEPT ![peer] = block]
  /\ Handler(PeerHeaders(worker, peer, MeetingPoint(peerTip[peer], block), block))
  /\ UNCHANGED <<chainLock, failures>>

BlockAnnounced(peer, block) ==
  /\ peer \in worker.ready
  /\ peerTip' = [peerTip EXCEPT ![peer] = block]
  /\ Handler(PeerInv(worker, peer, block))
  /\ UNCHANGED <<chainLock, failures>>

\* The race timer: whoever has not answered is silent.
RaceTimesOut ==
  /\ worker.race # NoRace
  /\ Handler(Restart([worker EXCEPT !.silent = @ \union worker.race.racers]))
  /\ UNCHANGED <<peerTip, chainLock, failures>>

\* Ten minutes without a header.
GoesQuiet ==
  /\ ~worker.quiet
  /\ Handler([worker EXCEPT !.quiet = TRUE])
  /\ UNCHANGED <<peerTip, chainLock, failures>>

\* checkForStall.
PollsStalledTip ==
  /\ worker.phase = "synced" /\ worker.quiet
  /\ Handler(Ask(worker, worker.ready))
  /\ UNCHANGED <<peerTip, chainLock, failures>>

\* SyncService.onClsig: only a lock higher than the highest seen is passed on.
Clsig(block) ==
  /\ chainLock # None => Height[block] > Height[chainLock]
  /\ Idle
  /\ chainLock' = block
  /\ IF worker.phase = "stopped" THEN UNCHANGED <<worker, follower>>
     ELSE Becomes(NoteChainLock(worker, block))
  /\ UNCHANGED <<disk, peerTip, failures>>

BranchCheck ==
  /\ worker.checks # <<>> /\ ~worker.dropping
  /\ LET w == [worker EXCEPT !.checks = Tail(@)] IN
     Becomes(IF Head(worker.checks) = "verify" THEN VerifyPendingLock(w)
             ELSE DropLostBranch(w, 0))
  /\ UNCHANGED <<disk, peerTip, chainLock, failures>>

\* The first tip-moving write reaches chain.db and its handler goes on.
WriteLands ==
  /\ worker.writes # <<>> /\ Idle
  /\ LET write == Head(worker.writes) IN
     /\ disk' = Written(disk, write)
     /\ Becomes(Resumed([worker EXCEPT !.writes = Tail(@)], write))
  /\ UNCHANGED <<peerTip, chainLock, failures>>

-----------------------------------------------------------------------------
(* Situations an instance can leave out; the configurations named after them *)
(* show what each of them breaks.                                            *)

RewindPending == \E i \in DOMAIN worker.writes : worker.writes[i].kind # "append"

LockUnchecked == worker.pendingLock # None /\ worker.writes # <<>>

Allowed(situation, happens) == happens => situation \notin Excluded

HeadersAllowed ==
  /\ Allowed("headers during a rewind", RewindPending)
  /\ Allowed("headers before a lock is checked", LockUnchecked)

Next ==
  \/ Start \/ Attach \/ Crash
  \/ \E p \in Peers, late \in BOOLEAN : PeerReady(p, late)
  \/ \E p \in Peers : PeerDisconnects(p)
  \/ HeadersAllowed /\ \E r \in worker.requests : AnswerArrives(r)
  \/ \E p \in Peers : \E b \in Heavier(p) :
       \/ PeerMoves(p, b)
       \/ BlockAnnounced(p, b)
       \/ HeadersAllowed /\ HeadersPushed(p, b)
  \/ RaceTimesOut \/ GoesQuiet \/ PollsStalledTip
  \/ \E b \in Locks : Allowed("lock during a rewind", RewindPending) /\ Clsig(b)
  \/ BranchCheck \/ WriteLands

Spec == Init /\ [][Next]_vars

\* An answer to the race is still on its way.
AnswerDue == \E r \in worker.requests : r.peer \in worker.race.racers

\* The peers end up on the heaviest chain and stay connected, requests are
\* answered, in the end before the race times out, timers fire, writes land and
\* microtasks run.
FairSpec ==
  /\ Spec
  /\ WF_vars(Start \/ Attach \/ BranchCheck \/ WriteLands)
  /\ \A p \in Peers : WF_vars(\E late \in BOOLEAN : PeerReady(p, late))
  /\ \A p \in Peers : WF_vars(Best \in Heavier(p) /\ PeerMoves(p, Best))
  /\ \A p \in Peers : WF_vars(\E r \in worker.requests : r.peer = p /\ AnswerArrives(r))
  /\ WF_vars(RaceTimesOut) /\ WF_vars(GoesQuiet) /\ WF_vars(PollsStalledTip)
  /\ <>[][RaceTimesOut => ~AnswerDue]_vars

-----------------------------------------------------------------------------
(* Properties *)

TypeOK ==
  /\ worker.phase \in {"stopped", "starting", "connecting", "syncing", "synced"}
  /\ worker.tip \in Blocks /\ Range(worker.window) \subseteq Blocks
  /\ worker.finality \in 0..MaxHeight /\ worker.pendingLock \in Locks \union {None}
  /\ worker.askedFrom \union worker.announced \subseteq Blocks
  /\ worker.race.from \in Blocks \union {None} /\ worker.race.racers \subseteq Peers
  /\ worker.divergent \union worker.silent \subseteq Peers
  /\ \A i \in DOMAIN worker.writes : worker.writes[i].from \in Chain[worker.writes[i].last]
  /\ \A r \in worker.requests : r.peer \in worker.ready /\ r.locator # {}
  /\ worker.dropQueued => worker.dropping \/ \E i \in DOMAIN worker.checks : worker.checks[i] = "drop"
  /\ disk.tip \in Blocks /\ Range(disk.headers) \subseteq Blocks
  /\ follower.tip \in 1..MaxHeight

\* The window is a run of our own chain that ends at our tip: whatever is
\* looked up by height or by hash there is an ancestor of the tip.
WindowOnChain ==
  \A h \in DOMAIN worker.window :
    /\ Floor(worker.tip) <= h /\ h <= Height[worker.tip]
    /\ worker.window[h] = At(worker.tip, h)

\* Whenever no write is under way, chain.db has our tip and the filter scan's
\* index names, at every height up to it, the block of our chain.
InStep ==
  worker.writes = <<>> /\ worker.phase # "stopped" =>
    /\ disk.tip = worker.tip
    /\ follower.tip = Height[worker.tip]
    /\ \A h \in 1..follower.tip : h \in DOMAIN follower.hashes
                                    /\ follower.hashes[h] = At(worker.tip, h)

\* Window, tip, chain.db and the filter scan agree on one chain: what the window
\* names is our branch, and between writes disk and scan hold the tip's branch
\* (HeaderSyncWorker.appendHeaders, rewindTo, SyncService's forwarding).
Coherent == TypeOK /\ WindowOnChain /\ InStep

\* A height taken for final holds a ChainLocked block, and no reorg or vote
\* takes it off our chain.
LockedStays ==
  worker.finality > 0 =>
    worker.finality <= Height[worker.tip] /\ At(worker.tip, worker.finality) \in Locks

\* Our chain is left for another one only for more work, unless a ChainLock or
\* the peers' vote says it lost.
WorkNeverFalls ==
  [][worker.phase # "stopped" /\ worker'.phase # "stopped" /\ ~worker.dropping =>
       ChainWork[worker'.tip] >= ChainWork[worker.tip]]_vars

\* An answer to the race under way, with a branch that leaves ours within the
\* window, above the last ChainLock, for more work.
Wins(r) ==
  LET a == Answers(r)
      fork == Known(worker, a.after, a.last)
  IN /\ worker.phase = "syncing" /\ r.peer \in worker.race.racers
     /\ r.locator = worker.race.locator
     /\ InWindow(worker, a.after) /\ Height[fork] >= worker.finality
     /\ WorkOf(Path(fork, a.last)) > WorkAbove(worker, fork)

\* In a race, a racer's answer that wins is acted on.
HeavierAnswerTaken ==
  [][\A r \in worker.requests \ worker'.requests :
       Wins(r) /\ r.peer \in worker'.ready => Len(worker'.writes) > Len(worker.writes)]_vars

\* Once every peer is on the heaviest chain, our tip gets there and stays.
Converges == <>[](worker.tip = Best)

\* chain.db keeps the promise of a header log.
DiskLog ==
  [i \in 1..Height[disk.tip] |->
     IF i = 1 THEN Genesis
     ELSE IF i \in DOMAIN disk.headers THEN disk.headers[i] ELSE None]
Log == INSTANCE HeaderLog WITH log <- DiskLog
ImplementsLog == Log!Spec
=============================================================================
