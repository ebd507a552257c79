--------------------------- MODULE PlatformWorker ---------------------------
(***************************************************************************)
(* Requests of the main process to the platform utility process, for one   *)
(* network: PlatformWorkerService (main) forks the process, holds requests *)
(* back until evonodes are pinned and settles them; PlatformService,       *)
(* Lane and SdkRegistry (child) run them.  The two share two FIFO ports.   *)
(***************************************************************************)
EXTENDS Naturals, FiniteSets, Sequences, SequencesExt

CONSTANTS
  Requests,     \* the requests callers make, each once
  LaneOf,       \* laneFor: the lane of a request, NoLane for a read
  Transitions,  \* the requests that broadcast a state transition
  Exempt,       \* the requests that do not wait for a pinned evonode
  PROVER_LANE, NoLane,
  MaxLists,     \* bound on evonode lists from p2p
  MaxExits,     \* bound on exits of the child
  MaxSwitches,  \* bound on changes of the dapi preference
  MaxFailures,  \* bound on probes and warm-ups that fail, and on pools banned
  MaxCancels,   \* bound on requests cancelled
  Excluded      \* situations this instance leaves out, see Allowed

ASSUME RequestsAssumption ==
  /\ IsFiniteSet(Requests) /\ Transitions \subseteq Requests /\ Exempt \subseteq Requests
  /\ Requests \subseteq DOMAIN LaneOf
  /\ \A r \in Requests : LaneOf[r] = NoLane => r \notin Transitions
  /\ PROVER_LANE # NoLane /\ MaxLists \in Nat

VARIABLES
  main,     \* PlatformWorkerService and the dapi preference
  request,  \* how far each request of main is
  child,    \* PlatformService and SdkRegistry
  toChild, toMain,
  landed,   \* transitions that reached the network
  faults    \* how much of each bound is used, and which requests were cancelled

vars == <<main, request, child, toChild, toMain, landed, faults>>

Lanes == {LaneOf[r] : r \in Requests} \ {NoLane}
\* What an SDK is built on, besides a list's own number.
None == 0
Seeds == MaxLists + 1
Static == MaxLists + 2
NoSdk == MaxLists + 3

EmptyStatus == [prover |-> "idle", busy |-> {}]

\* The child as index.ts leaves it at boot: the warm-up is under way.
Booted ==
  [up |-> TRUE, mode |-> "dynamic", list |-> 0, pin |-> None, sdk |-> NoSdk,
   probes |-> {}, retries |-> {}, refill |-> 0,
   warming |-> TRUE, builder |-> FALSE,
   lanes |-> [l \in Lanes |-> <<>>], running |-> <<>>, inFlight |-> {},
   status |-> [EmptyStatus EXCEPT !.prover = "preparing"], out |-> <<>>]

NoChild == [Booted EXCEPT !.up = FALSE, !.warming = FALSE, !.status = EmptyStatus]

Init ==
  /\ main = [child |-> FALSE, pinned |-> FALSE, list |-> 0, mode |-> "dynamic",
             reload |-> FALSE, waiters |-> <<>>]
  /\ request = [r \in Requests |-> "idle"]
  /\ child = NoChild
  /\ toChild = <<>> /\ toMain = <<>>
  /\ landed = {}
  /\ faults = [exits |-> 0, switches |-> 0, failures |-> 0, cancelled |-> {}]

-----------------------------------------------------------------------------
(* The child *)

Emit(c, event) == [c EXCEPT !.out = Append(@, event)]

\* Requests that hold a lane or run as a read.
Busy(c) ==
  (UNION {ToSet(c.lanes[l]) : l \in Lanes}) \union {r \in DOMAIN c.running : LaneOf[r] = NoLane}

\* publishStatus: what main is told, in the order of the port.
Publish(c) == [c EXCEPT !.status.busy = Busy(c)]

SetProver(c, prover) == Publish([c EXCEPT !.status.prover = prover])

\* What get(network) builds an SDK on.
FreshSdk(c) == IF c.mode = "static" THEN Static ELSE c.pin

\* get: the cached SDK, or a new one.
WithSdk(c) == IF c.sdk = NoSdk THEN [c EXCEPT !.sdk = FreshSdk(c)] ELSE c

\* execute up to the operation's own awaits: it keeps the SDK it got.
Execute(c, r) ==
  LET built == WithSdk(c)
  IN [built EXCEPT !.running =
        [x \in DOMAIN @ \union {r} |-> IF x = r THEN built.sdk ELSE @[x]]]

\* warmup: one build shared by all who ask.
Warmup(c) == SetProver([c EXCEPT !.warming = TRUE], "preparing")

\* The task at the head of a lane begins, a prover task with the warm-up.
Begin(c, r) ==
  IF LaneOf[r] # PROVER_LANE \/ c.status.prover = "ready" THEN Execute(c, r) ELSE Warmup(c)

\* dispatch.
Dispatch(c, r) ==
  LET l == LaneOf[r]
      taken == [c EXCEPT !.inFlight = @ \union {r}]
      queued == [taken EXCEPT !.lanes[l] = Append(@, r)]
  IN IF l = NoLane THEN Publish(Execute(taken, r))
     ELSE IF c.lanes[l] = <<>> THEN Begin(Publish(queued), r) ELSE Publish(queued)

\* finish: only the first answer of a request is sent.
Finish(c, r, outcome) ==
  IF r \notin c.inFlight THEN c
  ELSE Publish(Emit([c EXCEPT !.inFlight = @ \ {r}],
                    [type |-> "response", request |-> r, outcome |-> outcome]))

\* A bug for Settle: the next task does not begin.
Settle_NoNext(c, r, outcome) ==
  LET l == LaneOf[r]
      gone == [c EXCEPT !.running = [x \in DOMAIN @ \ {r} |-> @[x]],
                        !.lanes = IF l = NoLane THEN @ ELSE [@ EXCEPT ![l] = Tail(@)]]
  IN Finish(IF l = NoLane THEN Publish(gone) ELSE gone, r, outcome)

\* The lane's counter goes down and the task's promise settles; then the next
\* task of the lane begins.
Settle(c, r, outcome) ==
  LET l == LaneOf[r]
      rest == IF l = NoLane THEN <<>> ELSE Tail(c.lanes[l])
      gone == [c EXCEPT !.running = [x \in DOMAIN @ \ {r} |-> @[x]],
                        !.lanes = IF l = NoLane THEN @ ELSE [@ EXCEPT ![l] = rest]]
      told == IF l = NoLane THEN Publish(gone) ELSE gone
      done == Finish(told, r, outcome)
  IN IF rest = <<>> THEN done ELSE Begin(done, Head(rest))

\* A bug for SetDapi: the cached SDK stays.
SetDapi_KeepsSdk(c, mode) == [c EXCEPT !.mode = mode]

\* setDapi drops every SDK.
SetDapi(c, mode) == [c EXCEPT !.mode = mode, !.sdk = NoSdk]

\* setEvonodeDapiUrls of SdkRegistry, and the probe it starts.
Probe(c, list) ==
  [c EXCEPT !.list = list, !.probes = @ \union {[list |-> list, some |-> FALSE]}]

\* pin: whichever probe answers last is what the next SDK is built on.
Pin(c, list) == Emit([c EXCEPT !.pin = list, !.sdk = NoSdk], [type |-> "pinned"])

UseSeedNodes(c) == IF c.pin # None THEN c ELSE [c EXCEPT !.pin = Seeds, !.sdk = NoSdk]

\* refillBannedPool: with a list a probe of its own, else only a new SDK.
RefillBannedPool(c) ==
  IF c.mode = "static" \/ c.refill # 0 THEN c
  ELSE IF c.list = 0 THEN [c EXCEPT !.sdk = NoSdk] ELSE [c EXCEPT !.refill = c.list]

\* A bug for CancelTask: the lane is released while the task runs.
CancelTask_FreesLane(c, r) ==
  LET l == LaneOf[r]
      done == Finish(c, r, "cancelled")
      freed == [done EXCEPT !.lanes[l] = Tail(@)]
  IN CASE l = NoLane \/ r \notin DOMAIN c.running -> done
       [] Len(c.lanes[l]) = 1 -> freed
       [] OTHER -> Begin(freed, Head(freed.lanes[l]))

\* cancel of PlatformService: the caller is answered, the lane stays held.
CancelTask(c, r) == Finish(c, r, "cancelled")

Handled(c, cmd) ==
  CASE cmd.type = "request" -> Dispatch(c, cmd.request)
    [] cmd.type = "cancel" -> CancelTask(c, cmd.request)
    [] cmd.type = "setDapi" -> SetDapi(c, cmd.mode)
    [] cmd.type = "setEvonodeDapiUrls" -> Probe(c, cmd.list)
    [] cmd.type = "useSeedNodes" -> UseSeedNodes(c)

-----------------------------------------------------------------------------
(* The ports *)

\* The child's state after a step of its own, and what it says meanwhile.
ChildBecomes(c) ==
  /\ child' = [c EXCEPT !.out = <<>>]
  /\ toMain' = toMain \o c.out

\* The commands ensureChild replays to a child it forks.
Replay ==
  <<[type |-> "setDapi", mode |-> main.mode]>>
    \o (IF main.list = 0 THEN <<>> ELSE <<[type |-> "setEvonodeDapiUrls", list |-> main.list]>>)

\* send with ensureChild: a dead child takes nothing.
Send(commands) ==
  IF main.child
    THEN /\ toChild' = IF child.up THEN toChild \o commands ELSE toChild
         /\ UNCHANGED <<child, toMain>>
    ELSE /\ child' = Booted
         /\ toChild' = Replay \o commands
         /\ UNCHANGED toMain

\* postMessage only if there is a child.
Post(command) ==
  /\ toChild' = IF main.child /\ child.up THEN Append(toChild, command) ELSE toChild
  /\ UNCHANGED <<child, toMain>>

Ask(r) == [type |-> "request", request |-> r]

-----------------------------------------------------------------------------
(* The main process *)

\* request, held back by untilPinned while nothing is pinned.
Request(r) ==
  /\ request[r] = "idle"
  /\ IF r \in Exempt \/ main.pinned \/ main.mode = "static"
       THEN /\ Send(<<Ask(r)>>)
            /\ request' = [request EXCEPT ![r] = "sent"]
            /\ main' = [main EXCEPT !.child = TRUE]
       ELSE /\ Send(<<>>)
            /\ request' = [request EXCEPT ![r] = "pinning"]
            /\ main' = [main EXCEPT !.child = TRUE, !.waiters = Append(@, r)]
  /\ UNCHANGED <<landed, faults>>

\* wakePinWaiters: every held request goes out, in the order they came.
Wake(commands) ==
  /\ Send(commands \o [i \in DOMAIN main.waiters |-> Ask(main.waiters[i])])
  /\ request' = [r \in Requests |-> IF request[r] = "pinning" THEN "sent" ELSE request[r]]
  /\ main' = [main EXCEPT !.child = TRUE, !.pinned = TRUE, !.waiters = <<>>]

\* DAPI_URLS_WAIT_MS pass for a held request: useSeedNodes.
PinTimeout ==
  /\ main.waiters # <<>>
  /\ Wake(<<[type |-> "useSeedNodes"]>>)
  /\ UNCHANGED <<landed, faults>>

\* cancel.
Cancel(r) ==
  /\ request[r] = "sent" /\ r \notin faults.cancelled
  /\ Cardinality(faults.cancelled) < MaxCancels
  /\ Send(<<[type |-> "cancel", request |-> r]>>)
  /\ main' = [main EXCEPT !.child = TRUE]
  /\ faults' = [faults EXCEPT !.cancelled = @ \union {r}]
  /\ UNCHANGED <<request, landed>>

\* setEvonodeDapiUrls: a new masternode list of the p2p process.
NewEvonodeList ==
  /\ main.list < MaxLists
  /\ main' = [main EXCEPT !.list = @ + 1]
  /\ Post([type |-> "setEvonodeDapiUrls", list |-> main.list + 1])
  /\ UNCHANGED <<request, landed, faults>>

\* setDapiMode, setDapiUrls: the preference is in force before it is saved.
ApplyDapi ==
  /\ ~main.reload /\ faults.switches < MaxSwitches
  /\ main' = [main EXCEPT !.mode = IF @ = "static" THEN "dynamic" ELSE "static", !.reload = TRUE]
  /\ faults' = [faults EXCEPT !.switches = @ + 1]
  /\ UNCHANGED <<request, child, toChild, toMain, landed>>

\* reloadDapi, once it is saved.
ReloadDapi ==
  /\ main.reload
  /\ main' = [main EXCEPT !.reload = FALSE]
  /\ Post([type |-> "setDapi", mode |-> main.mode])
  /\ UNCHANGED <<request, landed, faults>>

\* A bug for ChildExited: main goes on as if the next child had a pin.
ChildExited_StaysPinned ==
  /\ main' = [main EXCEPT !.child = FALSE]
  /\ request' = [r \in Requests |-> IF request[r] = "sent" THEN "failed" ELSE request[r]]
  /\ toMain' = Tail(toMain)
  /\ UNCHANGED <<child, toChild>>

\* The exit handler: everything still out fails, without a transition's hash.
ChildExited ==
  /\ main' = [main EXCEPT !.child = FALSE, !.pinned = FALSE]
  /\ request' = [r \in Requests |-> IF request[r] = "sent" THEN "failed" ELSE request[r]]
  /\ toMain' = Tail(toMain)
  /\ UNCHANGED <<child, toChild>>

\* handleEvent's response branch: unknown requests are ignored.
Responded(event) ==
  /\ request' = [request EXCEPT ![event.request] = IF @ = "sent" THEN event.outcome ELSE @]
  /\ toMain' = Tail(toMain)
  /\ UNCHANGED <<main, child, toChild>>

\* handleEvent's pinnedDapiUrls branch; a child that died meanwhile gets nothing.
Pinned ==
  /\ toChild' = IF child.up
                  THEN toChild \o [i \in DOMAIN main.waiters |-> Ask(main.waiters[i])]
                  ELSE toChild
  /\ toMain' = Tail(toMain)
  /\ request' = [r \in Requests |-> IF request[r] = "pinning" THEN "sent" ELSE request[r]]
  /\ main' = [main EXCEPT !.pinned = TRUE, !.waiters = <<>>]
  /\ UNCHANGED child

MainReceives ==
  /\ toMain # <<>>
  /\ LET event == Head(toMain) IN
     CASE event.type = "exit" -> ChildExited
       [] event.type = "response" -> Responded(event)
       [] event.type = "pinned" -> Pinned
  /\ UNCHANGED <<landed, faults>>

-----------------------------------------------------------------------------
(* The child's own steps *)

ChildReceives ==
  /\ child.up /\ toChild # <<>>
  /\ toChild' = Tail(toChild)
  /\ ChildBecomes(Handled(child, Head(toChild)))
  /\ UNCHANGED <<main, request, landed, faults>>

\* The key is built: the prover task that waits for it goes on.
WarmedUp ==
  /\ child.up /\ child.warming
  /\ LET ready == SetProver(WithSdk([child EXCEPT !.warming = FALSE, !.builder = TRUE]), "ready")
         waits == IF PROVER_LANE \in Lanes THEN ready.lanes[PROVER_LANE] ELSE <<>>
     IN ChildBecomes(IF waits = <<>> THEN ready ELSE Execute(ready, Head(waits)))
  /\ UNCHANGED <<main, request, toChild, landed, faults>>

\* It is not: the task fails, the next one tries again.
WarmupFails ==
  /\ child.up /\ child.warming /\ faults.failures < MaxFailures
  /\ LET failed == SetProver([child EXCEPT !.warming = FALSE], "error")
         waits == IF PROVER_LANE \in Lanes THEN failed.lanes[PROVER_LANE] ELSE <<>>
     IN ChildBecomes(IF waits = <<>> THEN failed ELSE Settle(failed, Head(waits), "failed"))
  /\ faults' = [faults EXCEPT !.failures = @ + 1]
  /\ UNCHANGED <<main, request, toChild, landed>>

\* broadcast hands the transition to the network.
Broadcasts(r) ==
  /\ child.up /\ r \in DOMAIN child.running /\ r \in Transitions \ landed
  /\ landed' = landed \union {r}
  /\ UNCHANGED <<main, request, child, toChild, toMain, faults>>

TaskSucceeds(r) ==
  /\ child.up /\ r \in DOMAIN child.running
  /\ r \in Transitions => r \in landed
  /\ ChildBecomes(Settle(child, r, "ok"))
  /\ UNCHANGED <<main, request, toChild, landed, faults>>

\* An error after the broadcast carries the hash, one of the broadcast itself
\* does not, also when the transition was taken (unheard); a banned pool is refilled.
TaskFails(r, banned, unheard) ==
  /\ child.up /\ r \in DOMAIN child.running /\ (banned => faults.failures < MaxFailures)
  /\ unheard => r \in Transitions \ landed
  /\ ChildBecomes(Settle(IF banned THEN RefillBannedPool(child) ELSE child, r,
                         IF r \in landed THEN "uncertain" ELSE "failed"))
  /\ landed' = IF unheard THEN landed \union {r} ELSE landed
  /\ faults' = [faults EXCEPT !.failures = IF banned THEN @ + 1 ELSE @]
  /\ UNCHANGED <<main, request, toChild>>

\* A probe pins the first evonodes that answer, and at its end all that did.
ProbePins(probe, over) ==
  /\ child.up /\ probe \in child.probes /\ (probe.some => over)
  /\ ChildBecomes(Pin([child EXCEPT !.probes =
       (@ \ {probe}) \union (IF over THEN {} ELSE {[probe EXCEPT !.some = TRUE]})], probe.list))
  /\ UNCHANGED <<main, request, toChild, landed, faults>>

\* None answered: only the latest list is tried again.
ProbeFails(probe) ==
  /\ child.up /\ probe \in child.probes /\ ~probe.some /\ faults.failures < MaxFailures
  /\ child' = [child EXCEPT !.probes = @ \ {probe},
                            !.retries = IF probe.list = child.list THEN @ \union {probe.list} ELSE @]
  /\ faults' = [faults EXCEPT !.failures = @ + 1]
  /\ UNCHANGED <<main, request, toChild, toMain, landed>>

\* DAPI_REPROBE_MS later.
Reprobe(list) ==
  /\ child.up /\ list \in child.retries
  /\ LET tried == [child EXCEPT !.retries = @ \ {list}]
     IN child' = IF list = child.list THEN Probe(tried, list) ELSE tried
  /\ UNCHANGED <<main, request, toChild, toMain, landed, faults>>

\* The probe of a refill ends, with or without an answer.
RefillEnds(pins) ==
  /\ child.up /\ child.refill # 0
  /\ LET over == [child EXCEPT !.refill = 0]
     IN ChildBecomes(IF pins THEN Pin(over, child.refill) ELSE over)
  /\ UNCHANGED <<main, request, toChild, landed, faults>>

\* The child dies with all it holds; main hears of it after its last message.
ChildDies ==
  /\ child.up /\ faults.exits < MaxExits
  /\ child' = NoChild
  /\ toChild' = <<>>
  /\ toMain' = Append(toMain, [type |-> "exit"])
  /\ faults' = [faults EXCEPT !.exits = @ + 1]
  /\ UNCHANGED <<main, request, landed>>

-----------------------------------------------------------------------------
(* Situations an instance can leave out *)

\* What runs or waits in a lane, its caller answered or not.
Working(c) == DOMAIN c.running \union (UNION {ToSet(c.lanes[l]) : l \in Lanes})

\* A request is held, out, on its way, or cancelled and still to run.
SomeOut ==
  \E r \in Requests \ Exempt :
    request[r] \in {"pinning", "sent"} \/ Ask(r) \in ToSet(toChild) \/ r \in Working(child)

Allowed(situation, happens) == happens => situation \notin Excluded

Next ==
  \/ \E r \in Requests :
       \/ Allowed("request while the preference is saved", main.reload) /\ Request(r)
       \/ Cancel(r) \/ Broadcasts(r) \/ TaskSucceeds(r)
       \/ \E banned, unheard \in BOOLEAN :
            Allowed("answer of a broadcast lost", unheard) /\ TaskFails(r, banned, unheard)
  \/ PinTimeout \/ NewEvonodeList \/ ReloadDapi \/ MainReceives
  \/ Allowed("switch with requests out", SomeOut) /\ ApplyDapi
  \/ ChildReceives \/ WarmedUp \/ WarmupFails
  \/ \E probe \in child.probes :
       \/ \E over \in BOOLEAN :
            Allowed("older probe answers", probe.list < child.list) /\ ProbePins(probe, over)
       \/ ProbeFails(probe)
  \/ \E list \in child.retries : Reprobe(list)
  \/ \E pins \in BOOLEAN :
       Allowed("older probe answers", pins /\ child.refill < child.list) /\ RefillEnds(pins)
  \/ Allowed("exit after a broadcast", \E r \in landed : request[r] = "sent") /\ ChildDies

Spec == Init /\ [][Next]_vars

TaskEnds(r) == Broadcasts(r) \/ TaskSucceeds(r) \/ TaskFails(r, FALSE, FALSE)

\* Ports deliver, builds and operations end one way or the other, the timer of
\* a held request fires.
FairSpec ==
  /\ Spec
  /\ WF_vars(MainReceives) /\ WF_vars(ChildReceives) /\ WF_vars(PinTimeout)
  /\ WF_vars(WarmedUp)
  /\ \A r \in Requests :
       WF_vars(TaskEnds(r))

-----------------------------------------------------------------------------
(* Properties *)

Outcomes == {"ok", "failed", "uncertain", "cancelled"}
Drained == child.up /\ toChild = <<>> /\ toMain = <<>>

\* What main, the child and their ports are made of: requests in known stages,
\* in their own lanes, and SDKs built on a list, the seeds or the user's urls.
TypeOK ==
  /\ request \in [Requests -> {"idle", "pinning", "sent"} \union Outcomes]
  /\ ToSet(main.waiters) = {r \in Requests : request[r] = "pinning"}
  /\ \A l \in Lanes : \A r \in ToSet(child.lanes[l]) : LaneOf[r] = l
  /\ child.out = <<>>
  /\ landed \subseteq Transitions

\* untilPinned keeps its word: whatever the order of forks, exits, lists and
\* fallbacks, no operation runs on an SDK built before there was an evonode,
\* a seed or a url of the user to build it on.
NoSeedlessRun ==
  \A r \in DOMAIN child.running \ Exempt : child.running[r] # None

\* Once the ports are empty the child has the list and the preference main has,
\* also a child forked in the middle: ensureChild's replay misses nothing.
ChildInStep ==
  (Drained /\ main.child /\ ~main.reload) => child.list = main.list /\ child.mode = main.mode

\* The status main is told counts every operation that runs or waits in a lane;
\* too much only for one that was cancelled meanwhile.
StatusTrue ==
  child.up =>
    /\ Working(child) \subseteq child.status.busy
    /\ child.status.busy \ Working(child) \subseteq faults.cancelled
    /\ child.status.prover = "ready" <=> child.builder

\* broadcast.ts: an error without a hash tells the caller that a retry is safe,
\* so no transition that reached the network ends in one.
RetrySafe == \A r \in Transitions : request[r] = "failed" => r \notin landed

\* With no probe under way the evonodes pinned are those of the latest list:
\* lists, retries, refills and fallbacks may come in any order.
LatestPinned ==
  (child.up /\ child.list # 0 /\ child.probes = {} /\ child.retries = {} /\ child.refill = 0)
    => child.pin = child.list

\* A lane runs one task at a time, its oldest: also when that task was
\* cancelled, failed, or waits for the proving key.
OneAtATime ==
  \A r \in DOMAIN child.running :
    LaneOf[r] # NoLane => IsPrefix(<<r>>, child.lanes[LaneOf[r]])

\* No proof starts without the proving key, whoever asked for the warm-up.
ProverReady ==
  \A r \in DOMAIN child.running : LaneOf[r] = PROVER_LANE => child.builder

\* Who asks for an SDK now gets one for the preference and the evonodes in
\* force: no change of either leaves a stale SDK in the cache.
SdkFresh == child.sdk # NoSdk => child.sdk = FreshSdk(child)

\* What main last said of evonodes and preference is what the child goes by,
\* whatever forks, switches, probes and refills crossed it (ensureChild, setDapi,
\* SdkRegistry.setEvonodeDapiUrls, which drops the cached SDK).
InForce == ChildInStep /\ LatestPinned /\ SdkFresh

\* Tasks are where they belong, over cancels, failures and late warm-ups: one at
\* a time in each lane, none before what it needs is there, and all of them in
\* the status main is told (Lane.run, PlatformService.dispatch, publishStatus).
TasksSound == TypeOK /\ OneAtATime /\ ProverReady /\ StatusTrue

\* No caller hangs: a request is answered, cancelled or failed by the exit of
\* the child, also when it was held, queued, or sent to a child that had died.
EverySettles ==
  \A r \in Requests : request[r] # "idle" ~> request[r] \in Outcomes
=============================================================================
