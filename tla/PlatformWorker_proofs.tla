----------------------- MODULE PlatformWorker_proofs -----------------------
(***************************************************************************)
(* Theorems of PlatformWorker.  Tasks are sound in every situation: a      *)
(* request is carried to the child once, a lane holds no request twice and *)
(* what runs of a lane is its head.  In every situation, too, the child is *)
(* in step with main, with the commands under way to it.  That main's      *)
(* list and preference are in force, and that nothing runs seedless, rest  *)
(* on the situations those theorems name, and on what the commands under   *)
(* way promise: the lists climb, and no preference is behind a request.    *)
(***************************************************************************)
EXTENDS PlatformWorker, SequenceTheorems, TLAPS

Modes == {"dynamic", "static"}
Provers == {"idle", "preparing", "ready", "error"}
Responses == [type : {"response"}, request : Requests, outcome : Outcomes]
Says == Responses \union {[type |-> "pinned"]}
Exit == [type |-> "exit"]
Probes == [list : Nat, some : BOOLEAN]
Runs == UNION {[S -> Nat] : S \in SUBSET Requests}

Children ==
  [up : BOOLEAN, mode : Modes, list : Nat, pin : Nat, sdk : Nat,
   probes : SUBSET Probes, retries : SUBSET Nat, refill : Nat,
   warming : BOOLEAN, builder : BOOLEAN,
   lanes : [Lanes -> Seq(Requests)], running : Runs, inFlight : SUBSET Requests,
   status : [prover : Provers, busy : SUBSET Requests], out : Seq(Says)]

Commands ==
  [type : {"request", "cancel"}, request : Requests]
    \union [type : {"setDapi"}, mode : Modes]
    \union [type : {"setEvonodeDapiUrls"}, list : Nat]
    \union {[type |-> "useSeedNodes"]}

Mains ==
  [child : BOOLEAN, pinned : BOOLEAN, list : Nat, mode : Modes, reload : BOOLEAN,
   waiters : Seq(Requests)]

Faults == [exits : Nat, switches : Nat, failures : Nat, cancelled : SUBSET Requests]

-----------------------------------------------------------------------------
(* What a child keeps of its tasks *)

\* r runs as a read, or runs or waits in its lane.
Works(c, r) ==
  IF LaneOf[r] = NoLane THEN r \in DOMAIN c.running ELSE r \in ToSet(c.lanes[LaneOf[r]])

\* If r has a lane it is the head of it.
Leads(c, r) ==
  LaneOf[r] # NoLane => c.lanes[LaneOf[r]] # <<>> /\ Head(c.lanes[LaneOf[r]]) = r

Orderly(c) ==
  /\ \A l \in Lanes :
       IsInjective(c.lanes[l]) /\ \A r \in ToSet(c.lanes[l]) : LaneOf[r] = l
  /\ \A r \in DOMAIN c.running : Leads(c, r)

Keyed(c) ==
  /\ c.builder <=> c.status.prover = "ready"
  /\ c.warming => c.status.prover = "preparing"
  /\ \A r \in DOMAIN c.running : LaneOf[r] = PROVER_LANE => c.builder

\* The cancelled requests are those whose answer is out before the task is.
Answers(c, cancelled) ==
  \A r \in Requests : Works(c, r) => r \in c.inFlight \/ r \in cancelled

Told(c, cancelled) ==
  \A r \in Requests :
    /\ Works(c, r) => r \in c.status.busy
    /\ r \in c.status.busy => Works(c, r) \/ r \in cancelled

\* A child in the middle of a step, and one at its end.
Settling(c, cancelled) ==
  c \in Children /\ Orderly(c) /\ Keyed(c) /\ Answers(c, cancelled)

Sound(c, cancelled) == Settling(c, cancelled) /\ Told(c, cancelled)

\* The cached SDK is one for the preference and the evonodes in force.
Fresh(c) == c.sdk # NoSdk => c.sdk = FreshSdk(c)

SameEvonodes(c, d) ==
  /\ d.up = c.up /\ d.mode = c.mode /\ d.list = c.list /\ d.pin = c.pin
  /\ d.probes = c.probes /\ d.retries = c.retries /\ d.refill = c.refill

\* What a step of the tasks does to the evonodes: at most it caches a fresh SDK,
\* and what it starts keeps that one; all it says are responses.
OnlyTasks(c, d) ==
  /\ SameEvonodes(c, d)
  /\ Fresh(c) =>
       /\ Fresh(d)
       /\ \A r \in DOMAIN d.running :
            \/ r \in DOMAIN c.running /\ d.running[r] = c.running[r]
            \/ d.running[r] = FreshSdk(c)
  /\ ToSet(d.out) \subseteq ToSet(c.out) \union Responses

\* What a step of the evonodes does to the tasks: nothing.
SameTasks(c, d) ==
  /\ d.up = c.up /\ d.lanes = c.lanes /\ d.running = c.running /\ d.inFlight = c.inFlight
  /\ d.status = c.status /\ d.warming = c.warming /\ d.builder = c.builder

-----------------------------------------------------------------------------
(* Why tasks are sound *)

Asked(q) == {r \in Requests : \E i \in DOMAIN q : q[i] = Ask(r)}
OnceEach(q) == \A i, j \in DOMAIN q : q[i].type = "request" /\ q[i] = q[j] => i = j
KnownCancels(q, cancelled) ==
  \A i \in DOMAIN q : q[i].type = "cancel" => q[i].request \in cancelled

Typed ==
  /\ main \in Mains
  /\ request \in [Requests -> {"idle", "pinning", "sent"} \union Outcomes]
  /\ toChild \in Seq(Commands) /\ toMain \in Seq(Says \union {Exit})
  /\ landed \subseteq Transitions
  /\ faults \in Faults
  /\ child.out = <<>>

\* The requests that left main.
Sent == {r \in Requests : request[r] \notin {"idle", "pinning"}}

Waiting ==
  /\ IsInjective(main.waiters)
  /\ \A r \in Requests : r \in ToSet(main.waiters) <=> request[r] = "pinning"

\* A request is carried once, and is not on its way and in the child at a time.
Carried ==
  /\ OnceEach(toChild)
  /\ \A r \in Asked(toChild) : r \in Sent /\ ~Works(child, r)
  /\ \A r \in Requests : Works(child, r) => r \in Sent
  /\ KnownCancels(toChild, faults.cancelled)

TaskInv == Typed /\ Sound(child, faults.cancelled) /\ Waiting /\ Carried

-----------------------------------------------------------------------------
(* Sequences *)

LEMMA Appended ==
  ASSUME NEW S, NEW q \in Seq(S), NEW e \in S
  PROVE  /\ Append(q, e) \in Seq(S) /\ Append(q, e) # <<>>
         /\ ToSet(Append(q, e)) = ToSet(q) \union {e}
         /\ q = <<>> => Head(Append(q, e)) = e
         /\ q # <<>> => Head(Append(q, e)) = Head(q)
         /\ IsInjective(q) /\ e \notin ToSet(q) => IsInjective(Append(q, e))
<1>1. /\ Append(q, e) \in Seq(S) /\ Len(Append(q, e)) = Len(q) + 1 /\ Len(q) \in Nat
      /\ \A i \in 1 .. Len(q) : Append(q, e)[i] = q[i]
      /\ Append(q, e)[Len(q) + 1] = e
      /\ DOMAIN q = 1 .. Len(q) /\ DOMAIN Append(q, e) = 1 .. Len(q) + 1
  OBVIOUS
<1> DEFINE a == Append(q, e)
<1> HIDE DEF a
<1>2. ToSet(a) = ToSet(q) \union {e}
  BY <1>1 DEF a, ToSet
<1>3. IsInjective(q) /\ e \notin ToSet(q) => IsInjective(a)
  BY <1>1 DEF a, ToSet, IsInjective
<1>4. q = <<>> => Head(Append(q, e)) = e
  OBVIOUS
<1>5. q # <<>> => Head(Append(q, e)) = Head(q)
  OBVIOUS
<1> QED BY <1>1, <1>2, <1>3, <1>4, <1>5 DEF a

LEMMA Tailed ==
  ASSUME NEW S, NEW q \in Seq(S), q # <<>>
  PROVE  /\ Tail(q) \in Seq(S) /\ Head(q) \in S /\ Head(q) = q[1]
         /\ Len(Tail(q)) = Len(q) - 1 /\ Len(q) \in Nat /\ Len(q) >= 1
         /\ DOMAIN q = 1 .. Len(q) /\ DOMAIN Tail(q) = 1 .. Len(q) - 1
         /\ \A i \in 1 .. Len(q) - 1 : Tail(q)[i] = q[i + 1]
         /\ ToSet(q) = ToSet(Tail(q)) \union {Head(q)}
         /\ IsInjective(q) => IsInjective(Tail(q)) /\ Head(q) \notin ToSet(Tail(q))
<1>1. /\ Tail(q) \in Seq(S) /\ Head(q) \in S /\ Head(q) = q[1]
      /\ Len(Tail(q)) = Len(q) - 1 /\ Len(q) \in Nat /\ Len(q) >= 1
      /\ DOMAIN q = 1 .. Len(q) /\ DOMAIN Tail(q) = 1 .. Len(q) - 1
      /\ \A i \in 1 .. Len(q) - 1 : Tail(q)[i] = q[i + 1]
  OBVIOUS
<1> DEFINE t == Tail(q)
<1> DEFINE h == Head(q)
<1> HIDE DEF t, h
<1>2. ToSet(q) = ToSet(t) \union {h}
  <2>1. \A i \in DOMAIN q : i = 1 \/ (i - 1 \in DOMAIN t /\ q[i] = t[i - 1])
    BY <1>1 DEF t
  <2>2. \A i \in DOMAIN t : i + 1 \in DOMAIN q /\ t[i] = q[i + 1]
    BY <1>1 DEF t
  <2> QED BY <2>1, <2>2, <1>1 DEF h, ToSet
<1>3. IsInjective(q) => IsInjective(t) /\ h \notin ToSet(t)
  BY <1>1 DEF h, t, ToSet, IsInjective
<1> QED BY <1>1, <1>2, <1>3 DEF t, h

LEMMA Joined ==
  ASSUME NEW S, NEW p \in Seq(S), NEW q \in Seq(S)
  PROVE  /\ p \o q \in Seq(S) /\ Len(p \o q) = Len(p) + Len(q)
         /\ Len(p) \in Nat /\ Len(q) \in Nat
         /\ DOMAIN p = 1 .. Len(p) /\ DOMAIN q = 1 .. Len(q)
         /\ DOMAIN (p \o q) = 1 .. Len(p) + Len(q)
         /\ \A i \in 1 .. Len(p) : (p \o q)[i] = p[i]
         /\ \A i \in 1 .. Len(q) : (p \o q)[Len(p) + i] = q[i]
         /\ \A i \in 1 .. Len(p) + Len(q) :
              i \in 1 .. Len(p) \/ (i - Len(p) \in 1 .. Len(q) /\ i = Len(p) + (i - Len(p)))
<1> QED OBVIOUS

LEMMA NoneHeld == \A S : <<>> \in Seq(S) /\ ToSet(<<>>) = {} /\ IsInjective(<<>>)
BY DEF ToSet, IsInjective

-----------------------------------------------------------------------------
(* The child's operators *)

LEMMA SdkNumbers ==
  /\ None \in Nat /\ Seeds \in Nat /\ Static \in Nat /\ NoSdk \in Nat
  /\ Seeds # None /\ Static # None
BY RequestsAssumption DEF None, Seeds, Static, NoSdk

LEMMA LanesOfRequests ==
  \A r \in Requests : LaneOf[r] # NoLane => LaneOf[r] \in Lanes
BY DEF Lanes

LEMMA RunsOfRequests ==
  ASSUME NEW f \in Runs
  PROVE  DOMAIN f \subseteq Requests /\ \A r \in DOMAIN f : f[r] \in Nat
<1>1. PICK S \in SUBSET Requests : f \in [S -> Nat]
  BY DEF Runs
<1> QED BY <1>1

\* In an orderly child Busy and Working are what Works says of each request.
LEMMA BusyWorks ==
  ASSUME NEW c \in Children, Orderly(c)
  PROVE  /\ Busy(c) \in SUBSET Requests /\ Working(c) \in SUBSET Requests
         /\ \A r \in Requests : (r \in Busy(c) <=> Works(c, r)) /\ (r \in Working(c) <=> Works(c, r))
<1>1. \A l \in Lanes : c.lanes[l] \in Seq(Requests) /\ ToSet(c.lanes[l]) \subseteq Requests
  BY DEF Children, ToSet
<1>2. DOMAIN c.running \subseteq Requests
  <2>1. c.running \in Runs
    BY DEF Children
  <2> QED BY <2>1, RunsOfRequests
<1>3. \A r : r \in UNION {ToSet(c.lanes[l]) : l \in Lanes} <=> \E l \in Lanes : r \in ToSet(c.lanes[l])
  OBVIOUS
<1>4. \A r \in Requests : (\E l \in Lanes : r \in ToSet(c.lanes[l]))
                            <=> LaneOf[r] # NoLane /\ r \in ToSet(c.lanes[LaneOf[r]])
  <2>1. NoLane \notin Lanes
    BY DEF Lanes
  <2> QED BY <2>1, LanesOfRequests DEF Orderly
<1>5. \A r \in DOMAIN c.running : LaneOf[r] # NoLane => r \in ToSet(c.lanes[LaneOf[r]])
  <2> SUFFICES ASSUME NEW r \in DOMAIN c.running, LaneOf[r] # NoLane
               PROVE  r \in ToSet(c.lanes[LaneOf[r]])
    OBVIOUS
  <2>1. PICK q \in Seq(Requests) : q = c.lanes[LaneOf[r]]
    BY <1>1, <1>2, LanesOfRequests
  <2>2. q # <<>> /\ Head(q) = r
    BY <2>1 DEF Orderly, Leads
  <2>3. r \in ToSet(q)
    BY <2>2, Tailed
  <2> QED BY <2>1, <2>3
<1> DEFINE held == UNION {ToSet(c.lanes[l]) : l \in Lanes}
<1>6. held \subseteq Requests /\ \A r \in Requests : r \in held
                                  <=> LaneOf[r] # NoLane /\ r \in ToSet(c.lanes[LaneOf[r]])
  BY <1>1, <1>3, <1>4
<1> HIDE DEF held
<1>7. \A r : r \in Busy(c) <=> r \in held \/ (r \in DOMAIN c.running /\ LaneOf[r] = NoLane)
  BY DEF Busy, held
<1>10. \A r : r \in Working(c) <=> r \in DOMAIN c.running \/ r \in held
  BY DEF Working, held
<1>8. \A r \in Requests : r \in Busy(c) <=> Works(c, r)
  BY <1>6, <1>7 DEF Works
<1>9. \A r \in Requests : r \in Working(c) <=> Works(c, r)
  BY <1>5, <1>6, <1>10 DEF Works
<1> QED BY <1>2, <1>6, <1>7, <1>8, <1>9, <1>10

LEMMA Same ==
  ASSUME NEW c, NEW d, d.lanes = c.lanes, d.running = c.running
  PROVE  /\ \A r : Works(d, r) <=> Works(c, r)
         /\ Orderly(c) => Orderly(d)
BY DEF Works, Orderly, Leads

LEMMA EvonodesKept ==
  ASSUME NEW cancelled, NEW c, NEW d \in Children, Sound(c, cancelled), SameTasks(c, d)
  PROVE  Sound(d, cancelled) /\ \A r : Works(d, r) <=> Works(c, r)
<1>1. (\A r : Works(d, r) <=> Works(c, r)) /\ Orderly(d)
  BY Same DEF SameTasks, Sound, Settling
<1>2. Keyed(d)
  BY DEF Keyed, SameTasks, Sound, Settling
<1>3. Answers(d, cancelled) /\ Told(d, cancelled)
  BY <1>1 DEF Answers, Told, SameTasks, Sound, Settling
<1> QED BY <1>1, <1>2, <1>3 DEF Sound, Settling

\* The status is true once it is published.
LEMMA Publishes ==
  ASSUME NEW cancelled, NEW c, Settling(c, cancelled)
  PROVE  /\ Sound(Publish(c), cancelled) /\ OnlyTasks(c, Publish(c))
         /\ Publish(c).lanes = c.lanes /\ Publish(c).running = c.running
         /\ Publish(c).inFlight = c.inFlight /\ Publish(c).builder = c.builder
         /\ Publish(c).status.prover = c.status.prover /\ Publish(c).warming = c.warming
         /\ Publish(c).out = c.out
<1> DEFINE b == Busy(c)
<1>1. b \in SUBSET Requests /\ \A r \in Requests : r \in b <=> Works(c, r)
  BY BusyWorks DEF Settling
<1>2. PICK d : d = Publish(c)
  OBVIOUS
<1>3. d = [c EXCEPT !.status = [c.status EXCEPT !.busy = b]]
  BY <1>2 DEF Publish
<1> HIDE DEF b
<1>4. /\ d \in Children /\ d.lanes = c.lanes /\ d.running = c.running /\ d.inFlight = c.inFlight
      /\ d.builder = c.builder /\ d.status.prover = c.status.prover /\ d.warming = c.warming
      /\ d.out = c.out /\ d.sdk = c.sdk /\ SameEvonodes(c, d) /\ d.status.busy = b
  BY <1>1, <1>3 DEF Children, SameEvonodes, Settling
<1>5. (\A r : Works(d, r) <=> Works(c, r)) /\ Orderly(d)
  BY <1>4, Same DEF Settling
<1>6. Keyed(d) /\ Answers(d, cancelled) /\ Told(d, cancelled)
  BY <1>1, <1>4, <1>5 DEF Keyed, Answers, Told, Settling
<1>7. OnlyTasks(c, d)
  BY <1>4 DEF OnlyTasks, SameEvonodes, Fresh, FreshSdk
<1> QED BY <1>2, <1>4, <1>5, <1>6, <1>7 DEF Sound, Settling

LEMMA Transitive ==
  ASSUME NEW c, NEW d, NEW e, OnlyTasks(c, d), OnlyTasks(d, e)
  PROVE  OnlyTasks(c, e)
<1>1. FreshSdk(d) = FreshSdk(c)
  BY DEF OnlyTasks, SameEvonodes, FreshSdk
<1>2. SameEvonodes(c, e)
  BY DEF OnlyTasks, SameEvonodes
<1> QED BY <1>1, <1>2 DEF OnlyTasks

\* Nothing but what is sent changes.
LEMMA Emits ==
  ASSUME NEW c \in Children, NEW event \in Says
  PROVE  /\ Emit(c, event) \in Children
         /\ ToSet(Emit(c, event).out) = ToSet(c.out) \union {event}
         /\ SameTasks(c, Emit(c, event)) /\ SameEvonodes(c, Emit(c, event))
         /\ Emit(c, event).sdk = c.sdk
<1>1. c.out \in Seq(Says)
  BY DEF Children
<1>2. PICK o \in Seq(Says) : o = Append(c.out, event) /\ ToSet(o) = ToSet(c.out) \union {event}
  <2> HIDE DEF Says, Children
  <2>1. Append(c.out, event) \in Seq(Says) /\ ToSet(Append(c.out, event)) = ToSet(c.out) \union {event}
    BY <1>1, Appended
  <2> QED BY <2>1
<1>3. Emit(c, event) = [c EXCEPT !.out = o]
  BY <1>2 DEF Emit
<1> HIDE DEF Says
<1> QED BY <1>2, <1>3 DEF Children, SameTasks, SameEvonodes

\* A request whose task is over, or whose caller cancelled it, is answered once.
LEMMA Finishes ==
  ASSUME NEW cancelled, NEW c, NEW r \in Requests, NEW outcome \in Outcomes,
         Settling(c, cancelled), Works(c, r) => r \in cancelled,
         r \notin c.inFlight => Told(c, cancelled)
  PROVE  /\ Sound(Finish(c, r, outcome), cancelled) /\ OnlyTasks(c, Finish(c, r, outcome))
         /\ Finish(c, r, outcome).lanes = c.lanes /\ Finish(c, r, outcome).running = c.running
         /\ Finish(c, r, outcome).status.prover = c.status.prover
         /\ Finish(c, r, outcome).builder = c.builder
<1>1. CASE r \notin c.inFlight
  <2>1. Finish(c, r, outcome) = c
    BY <1>1 DEF Finish
  <2> QED BY <1>1, <2>1 DEF Sound, OnlyTasks, SameEvonodes
<1>2. CASE r \in c.inFlight
  <2> DEFINE event == [type |-> "response", request |-> r, outcome |-> outcome]
  <2>1. event \in Responses
    BY DEF Responses
  <2>2. PICK left : left = [c EXCEPT !.inFlight = c.inFlight \ {r}]
    OBVIOUS
  <2>3. /\ left \in Children /\ left.inFlight = c.inFlight \ {r} /\ left.lanes = c.lanes
        /\ left.running = c.running /\ left.status = c.status /\ left.builder = c.builder
        /\ left.warming = c.warming /\ left.sdk = c.sdk /\ SameEvonodes(c, left) /\ left.out = c.out
    BY <2>2 DEF Settling, Children, SameEvonodes
  <2>4. PICK d : d = Emit(left, event)
    OBVIOUS
  <2> HIDE DEF event
  <2>5. /\ d \in Children /\ ToSet(d.out) = ToSet(c.out) \union {event}
        /\ SameTasks(left, d) /\ SameEvonodes(left, d) /\ d.sdk = left.sdk
    BY <2>1, <2>3, <2>4, Emits DEF Says
  <2>6. Finish(c, r, outcome) = Publish(d)
    BY <1>2, <2>2, <2>4 DEF Finish, event
  <2>7. (\A x : Works(d, x) <=> Works(c, x)) /\ Orderly(d)
    BY <2>3, <2>5, Same DEF SameTasks, Settling
  <2>8. Keyed(d) /\ Answers(d, cancelled)
    BY <2>3, <2>5, <2>7 DEF Keyed, Answers, SameTasks, Settling
  <2>9. Settling(d, cancelled)
    BY <2>5, <2>7, <2>8 DEF Settling
  <2>10. OnlyTasks(c, d)
    BY <2>1, <2>3, <2>5 DEF OnlyTasks, SameEvonodes, SameTasks, Fresh, FreshSdk
  <2>11. /\ Sound(Publish(d), cancelled) /\ OnlyTasks(d, Publish(d))
         /\ Publish(d).lanes = d.lanes /\ Publish(d).running = d.running
         /\ Publish(d).builder = d.builder /\ Publish(d).status.prover = d.status.prover
    BY <2>9, Publishes
  <2>12. OnlyTasks(c, Publish(d))
    BY <2>10, <2>11, Transitive
  <2> QED BY <2>3, <2>5, <2>6, <2>11, <2>12 DEF SameTasks
<1> QED BY <1>1, <1>2

LEMMA GetsSdk ==
  ASSUME NEW c \in Children
  PROVE  /\ WithSdk(c) \in Children /\ SameTasks(c, WithSdk(c)) /\ SameEvonodes(c, WithSdk(c))
         /\ WithSdk(c).out = c.out
         /\ Fresh(c) => WithSdk(c).sdk = FreshSdk(c)
<1>1. FreshSdk(c) \in Nat
  BY SdkNumbers DEF FreshSdk, Children
<1>2. PICK fresh \in Nat : fresh = FreshSdk(c)
  BY <1>1
<1>3. WithSdk(c) = IF c.sdk = NoSdk THEN [c EXCEPT !.sdk = fresh] ELSE c
  BY <1>2 DEF WithSdk
<1> QED BY <1>2, <1>3 DEF Children, SameTasks, SameEvonodes, Fresh

\* An operation begins: of its lane it is the head, and a proof has its key.
LEMMA Executes ==
  ASSUME NEW cancelled, NEW c, NEW r \in Requests, Settling(c, cancelled),
         Leads(c, r), LaneOf[r] = PROVER_LANE => c.builder,
         r \in c.inFlight \/ r \in cancelled \/ LaneOf[r] # NoLane
  PROVE  /\ Settling(Execute(c, r), cancelled) /\ OnlyTasks(c, Execute(c, r))
         /\ Execute(c, r).lanes = c.lanes /\ Execute(c, r).status = c.status
         /\ Execute(c, r).inFlight = c.inFlight
         /\ DOMAIN Execute(c, r).running = DOMAIN c.running \union {r}
<1>1. PICK b : b = WithSdk(c)
  OBVIOUS
<1>2. /\ b \in Children /\ SameTasks(c, b) /\ SameEvonodes(c, b) /\ b.out = c.out
      /\ Fresh(c) => b.sdk = FreshSdk(c)
  BY <1>1, GetsSdk DEF Settling
<1> DEFINE f == [x \in DOMAIN b.running \union {r} |-> IF x = r THEN b.sdk ELSE b.running[x]]
<1>3. f \in Runs
  <2>1. b.running \in Runs /\ b.sdk \in Nat
    BY <1>2 DEF Children
  <2>2. PICK S \in SUBSET Requests : b.running \in [S -> Nat]
    BY <2>1 DEF Runs
  <2>3. f \in [S \union {r} -> Nat]
    BY <2>1, <2>2
  <2> QED BY <2>3 DEF Runs
<1>4. DOMAIN f = DOMAIN c.running \union {r}
  BY <1>2 DEF SameTasks
<1>5. \A x \in DOMAIN f : (x = r /\ f[x] = b.sdk) \/ (x \in DOMAIN c.running /\ f[x] = c.running[x])
  BY <1>2 DEF SameTasks
<1>6. Execute(c, r) = [b EXCEPT !.running = f]
  BY <1>1 DEF Execute
<1> HIDE DEF f
<1>7. PICK d : d = [b EXCEPT !.running = f]
  OBVIOUS
<1>8. /\ d \in Children /\ d.running = f /\ d.lanes = b.lanes /\ d.status = b.status
      /\ d.inFlight = b.inFlight /\ d.builder = b.builder /\ d.warming = b.warming
      /\ d.out = b.out /\ d.sdk = b.sdk /\ SameEvonodes(b, d)
  BY <1>2, <1>3, <1>7 DEF Children, SameEvonodes
<1>9. \A x \in DOMAIN d.running : x \in DOMAIN c.running \/ x = r
  BY <1>4, <1>8
<1>10. Orderly(d)
  BY <1>2, <1>8, <1>9 DEF Orderly, Leads, SameTasks, Settling
<1>11. Keyed(d)
  BY <1>2, <1>8, <1>9 DEF Keyed, SameTasks, Settling
<1>12. Answers(d, cancelled)
  <2>1. \A x \in Requests : Works(d, x) => Works(c, x) \/ (x = r /\ LaneOf[r] = NoLane)
    BY <1>2, <1>8, <1>9 DEF Works, SameTasks
  <2> QED BY <1>2, <1>8, <2>1 DEF Answers, SameTasks, Settling
<1>13. OnlyTasks(c, d)
  <2>1. SameEvonodes(c, d) /\ FreshSdk(d) = FreshSdk(c)
    BY <1>2, <1>8 DEF SameEvonodes, FreshSdk
  <2>2. Fresh(c) => d.sdk = FreshSdk(c) /\ Fresh(d)
    BY <1>2, <1>8, <2>1 DEF Fresh
  <2>3. ASSUME Fresh(c), NEW x \in DOMAIN d.running
        PROVE  (x \in DOMAIN c.running /\ d.running[x] = c.running[x]) \/ d.running[x] = FreshSdk(c)
    BY <1>5, <1>8, <2>2, <2>3
  <2> QED BY <1>2, <1>8, <2>1, <2>2, <2>3 DEF OnlyTasks
<1> QED BY <1>2, <1>4, <1>6, <1>7, <1>8, <1>10, <1>11, <1>12, <1>13 DEF Settling, SameTasks

\* Nothing of the prover lane runs while the key is built again.
LEMMA WarmsUp ==
  ASSUME NEW cancelled, NEW c, Settling(c, cancelled), c.status.prover # "ready"
  PROVE  /\ Sound(Warmup(c), cancelled) /\ OnlyTasks(c, Warmup(c))
         /\ Warmup(c).lanes = c.lanes /\ Warmup(c).running = c.running
<1>1. PICK d : d = [c EXCEPT !.warming = TRUE, !.status.prover = "preparing"]
  OBVIOUS
<1>2. /\ d \in Children /\ d.lanes = c.lanes /\ d.running = c.running /\ d.inFlight = c.inFlight
      /\ d.builder = c.builder /\ d.status.prover = "preparing" /\ d.out = c.out
      /\ d.sdk = c.sdk /\ SameEvonodes(c, d)
  BY <1>1 DEF Settling, Children, SameEvonodes, Provers
<1>3. Warmup(c) = Publish(d)
  <2>1. [[c EXCEPT !.warming = TRUE] EXCEPT !.status.prover = "preparing"] = d
    BY <1>1 DEF Settling, Children
  <2> QED BY <2>1 DEF Warmup, SetProver
<1>4. (\A r : Works(d, r) <=> Works(c, r)) /\ Orderly(d)
  BY <1>2, Same DEF Settling
<1>5. Keyed(d) /\ Answers(d, cancelled)
  BY <1>2, <1>4 DEF Keyed, Answers, Settling
<1>6. Settling(d, cancelled) /\ OnlyTasks(c, d)
  BY <1>2, <1>4, <1>5 DEF Settling, OnlyTasks, SameEvonodes, Fresh, FreshSdk
<1>7. /\ Sound(Publish(d), cancelled) /\ OnlyTasks(d, Publish(d))
      /\ Publish(d).lanes = d.lanes /\ Publish(d).running = d.running
  BY <1>6, Publishes
<1> QED BY <1>2, <1>3, <1>6, <1>7, Transitive

\* The head of a lane begins.
LEMMA StartsHead ==
  ASSUME NEW cancelled, NEW c, NEW r \in Requests, Sound(c, cancelled),
         LaneOf[r] # NoLane, Leads(c, r), LaneOf[r] = PROVER_LANE => c.builder
  PROVE  /\ Sound(Execute(c, r), cancelled) /\ OnlyTasks(c, Execute(c, r))
         /\ \A x \in Requests : Works(Execute(c, r), x) <=> Works(c, x)
<1>1. /\ Settling(Execute(c, r), cancelled) /\ OnlyTasks(c, Execute(c, r))
      /\ Execute(c, r).lanes = c.lanes /\ Execute(c, r).status = c.status
      /\ DOMAIN Execute(c, r).running = DOMAIN c.running \union {r}
  BY Executes DEF Sound
<1>2. \A x \in Requests : Works(Execute(c, r), x) <=> Works(c, x)
  BY <1>1 DEF Works
<1>3. Told(Execute(c, r), cancelled)
  BY <1>1, <1>2 DEF Told, Sound
<1> QED BY <1>1, <1>2, <1>3 DEF Sound

LEMMA Begins ==
  ASSUME NEW cancelled, NEW c, NEW r \in Requests, Sound(c, cancelled),
         LaneOf[r] # NoLane, Leads(c, r)
  PROVE  /\ Sound(Begin(c, r), cancelled) /\ OnlyTasks(c, Begin(c, r))
         /\ \A x \in Requests : Works(Begin(c, r), x) <=> Works(c, x)
<1>1. CASE LaneOf[r] # PROVER_LANE \/ c.status.prover = "ready"
  <2>1. Begin(c, r) = Execute(c, r)
    BY <1>1 DEF Begin
  <2>2. LaneOf[r] = PROVER_LANE => c.builder
    BY <1>1 DEF Sound, Settling, Keyed
  <2> QED BY <2>1, <2>2, StartsHead
<1>2. CASE ~(LaneOf[r] # PROVER_LANE \/ c.status.prover = "ready")
  <2>1. Begin(c, r) = Warmup(c)
    BY <1>2 DEF Begin
  <2> QED BY <1>2, <2>1, WarmsUp, Same DEF Sound
<1> QED BY <1>1, <1>2

LEMMA Dispatches ==
  ASSUME NEW cancelled, NEW c, NEW r \in Requests, Sound(c, cancelled), ~Works(c, r)
  PROVE  /\ Sound(Dispatch(c, r), cancelled) /\ OnlyTasks(c, Dispatch(c, r))
         /\ \A x \in Requests : Works(Dispatch(c, r), x) <=> Works(c, x) \/ x = r
<1>1. PICK taken : taken = [c EXCEPT !.inFlight = c.inFlight \union {r}]
  OBVIOUS
<1>2. /\ taken \in Children /\ taken.inFlight = c.inFlight \union {r} /\ taken.lanes = c.lanes
      /\ taken.running = c.running /\ taken.status = c.status /\ taken.builder = c.builder
      /\ taken.warming = c.warming /\ taken.sdk = c.sdk /\ SameEvonodes(c, taken)
      /\ taken.out = c.out
  BY <1>1 DEF Sound, Settling, Children, SameEvonodes
<1>3. (\A x : Works(taken, x) <=> Works(c, x)) /\ Orderly(taken) /\ OnlyTasks(c, taken)
  BY <1>2, Same DEF Sound, Settling, OnlyTasks, SameEvonodes, Fresh, FreshSdk
<1>4. Settling(taken, cancelled)
  BY <1>2, <1>3 DEF Settling, Sound, Keyed, Answers
<1>5. CASE LaneOf[r] = NoLane
  <2>1. /\ Settling(Execute(taken, r), cancelled) /\ OnlyTasks(taken, Execute(taken, r))
        /\ Execute(taken, r).lanes = taken.lanes
        /\ DOMAIN Execute(taken, r).running = DOMAIN taken.running \union {r}
    BY <1>2, <1>4, <1>5, Executes, RequestsAssumption DEF Leads
  <2>2. PICK e : e = Execute(taken, r)
    OBVIOUS
  <2>3. /\ Sound(Publish(e), cancelled) /\ OnlyTasks(e, Publish(e))
        /\ Publish(e).lanes = e.lanes /\ Publish(e).running = e.running
    BY <2>1, <2>2, Publishes
  <2>4. Dispatch(c, r) = Publish(e)
    BY <1>1, <1>5, <2>2 DEF Dispatch
  <2>5. \A x \in Requests : Works(e, x) <=> Works(c, x) \/ x = r
    BY <1>2, <1>5, <2>1, <2>2 DEF Works
  <2>6. \A x : Works(Publish(e), x) <=> Works(e, x)
    BY <2>3, Same
  <2> QED BY <1>3, <2>1, <2>2, <2>3, <2>4, <2>5, <2>6, Transitive
<1>6. CASE LaneOf[r] # NoLane
  <2>1. PICK l \in Lanes : l = LaneOf[r]
    BY <1>6, LanesOfRequests
  <2>2. PICK lane \in Seq(Requests) : lane = c.lanes[l]
    BY DEF Sound, Settling, Children
  <2>3. PICK longer \in Seq(Requests) : longer = Append(lane, r)
    <3> HIDE DEF Sound
    <3>1. Append(lane, r) \in Seq(Requests)
      BY Appended
    <3> QED BY <3>1
  <2>4. /\ longer # <<>> /\ ToSet(longer) = ToSet(lane) \union {r}
        /\ lane = <<>> => Head(longer) = r
        /\ lane # <<>> => Head(longer) = Head(lane)
        /\ IsInjective(lane) /\ r \notin ToSet(lane) => IsInjective(longer)
    BY <2>3, Appended
  <2>5. r \notin ToSet(lane)
    BY <1>6, <2>1, <2>2 DEF Works
  <2>6. PICK queued : queued = [taken EXCEPT !.lanes = [taken.lanes EXCEPT ![l] = longer]]
    OBVIOUS
  <2>7. /\ queued \in Children /\ queued.lanes = [c.lanes EXCEPT ![l] = longer]
        /\ queued.inFlight = taken.inFlight
        /\ queued.running = c.running /\ queued.status = c.status /\ queued.builder = c.builder
        /\ queued.warming = c.warming /\ queued.sdk = c.sdk /\ SameEvonodes(c, queued)
        /\ queued.out = c.out
    BY <1>2, <2>6 DEF Children, SameEvonodes
  <2>8. queued.lanes[l] = longer /\ \A m \in Lanes \ {l} : queued.lanes[m] = c.lanes[m]
    BY <2>7 DEF Sound, Settling, Children
  <2>9. Orderly(queued)
    <3>1. \A m \in Lanes : /\ IsInjective(queued.lanes[m])
                           /\ \A x \in ToSet(queued.lanes[m]) : LaneOf[x] = m
      BY <2>1, <2>2, <2>4, <2>5, <2>8 DEF Sound, Settling, Orderly
    <3>2. ASSUME NEW x \in DOMAIN queued.running, LaneOf[x] # NoLane
          PROVE  queued.lanes[LaneOf[x]] # <<>> /\ Head(queued.lanes[LaneOf[x]]) = x
      <4>1. x \in Requests
        BY <2>7, <3>2, RunsOfRequests DEF Children
      <4>2. LaneOf[x] \in Lanes /\ c.lanes[LaneOf[x]] # <<>> /\ Head(c.lanes[LaneOf[x]]) = x
        BY <2>7, <3>2, <4>1, LanesOfRequests DEF Sound, Settling, Orderly, Leads
      <4> QED BY <2>2, <2>4, <2>8, <4>2
    <3> QED BY <3>1, <3>2 DEF Orderly, Leads
  <2>10. \A x \in Requests : Works(queued, x) <=> Works(c, x) \/ x = r
    BY <1>6, <2>1, <2>2, <2>4, <2>7, <2>8, LanesOfRequests DEF Works
  <2>11. Settling(queued, cancelled) /\ OnlyTasks(c, queued)
    <3>1. Keyed(queued)
      BY <2>7 DEF Keyed, Sound, Settling
    <3>2. Answers(queued, cancelled)
      BY <1>2, <2>7, <2>10 DEF Answers, Sound, Settling
    <3>3. OnlyTasks(c, queued)
      BY <2>7 DEF OnlyTasks, SameEvonodes, Fresh, FreshSdk
    <3> QED BY <2>7, <2>9, <3>1, <3>2, <3>3 DEF Settling
  <2>12. PICK p : p = Publish(queued)
    OBVIOUS
  <2>13. Sound(p, cancelled) /\ OnlyTasks(c, p) /\ p.lanes = queued.lanes /\ p.running = queued.running
    BY <2>11, <2>12, Publishes, Transitive
  <2>14. \A x : Works(p, x) <=> Works(queued, x)
    BY <2>13, Same
  <2>15. Dispatch(c, r) = IF lane = <<>> THEN Begin(p, r) ELSE p
    <3>1. [taken EXCEPT !.lanes[l] = Append(@, r)] = queued
      BY <1>2, <2>2, <2>3, <2>6
    <3> QED BY <1>1, <1>6, <2>1, <2>2, <2>12, <3>1 DEF Dispatch
  <2>16. CASE lane # <<>>
    BY <2>10, <2>13, <2>14, <2>15, <2>16
  <2>17. CASE lane = <<>>
    <3>1. Leads(p, r)
      BY <2>1, <2>4, <2>8, <2>13, <2>17 DEF Leads
    <3>2. /\ Sound(Begin(p, r), cancelled) /\ OnlyTasks(p, Begin(p, r))
          /\ \A x \in Requests : Works(Begin(p, r), x) <=> Works(p, x)
      BY <1>6, <2>13, <3>1, Begins
    <3> QED BY <2>10, <2>13, <2>14, <2>15, <2>17, <3>2, Transitive
  <2> QED BY <2>16, <2>17
<1> QED BY <1>5, <1>6

\* What is left once the task of r is over: without its lane's head if it had one.
LanesWithout(c, r) ==
  IF LaneOf[r] = NoLane THEN c.lanes ELSE [c.lanes EXCEPT ![LaneOf[r]] = Tail(c.lanes[LaneOf[r]])]

Without(c, r) ==
  [c EXCEPT !.running = [x \in DOMAIN c.running \ {r} |-> c.running[x]], !.lanes = LanesWithout(c, r)]

LEMMA Releases ==
  ASSUME NEW cancelled, NEW c, NEW r \in Requests, Sound(c, cancelled), Leads(c, r)
  PROVE  /\ Settling(Without(c, r), cancelled) /\ OnlyTasks(c, Without(c, r))
         /\ Without(c, r).status = c.status /\ Without(c, r).inFlight = c.inFlight
         /\ Without(c, r).lanes = LanesWithout(c, r)
         /\ \A x \in Requests : Works(Without(c, r), x) <=> Works(c, x) /\ x # r
<1> PICK lanes : lanes = LanesWithout(c, r)
  OBVIOUS
<1> PICK d : d = Without(c, r)
  OBVIOUS
<1> DEFINE f == [x \in DOMAIN c.running \ {r} |-> c.running[x]]
<1>1. f \in Runs
  <2>1. PICK S \in SUBSET Requests : c.running \in [S -> Nat]
    <3>1. c.running \in Runs
      BY DEF Sound, Settling, Children
    <3> QED BY <3>1 DEF Runs
  <2>2. f \in [S \ {r} -> Nat]
    BY <2>1
  <2> QED BY <2>2 DEF Runs
<1>2. DOMAIN f = DOMAIN c.running \ {r} /\ \A x \in DOMAIN f : f[x] = c.running[x]
  OBVIOUS
<1> HIDE DEF f
<1>3. \A m \in Lanes : c.lanes[m] \in Seq(Requests)
  BY DEF Sound, Settling, Children
<1>4. \A m \in Lanes :
        /\ lanes[m] \in Seq(Requests)
        /\ IF m = LaneOf[r]
             THEN /\ IsInjective(lanes[m]) /\ r \notin ToSet(lanes[m])
                  /\ ToSet(c.lanes[m]) = ToSet(lanes[m]) \union {r}
             ELSE lanes[m] = c.lanes[m]
  <2> SUFFICES ASSUME NEW m \in Lanes
               PROVE  /\ lanes[m] \in Seq(Requests)
                      /\ IF m = LaneOf[r]
                           THEN /\ IsInjective(lanes[m]) /\ r \notin ToSet(lanes[m])
                                /\ ToSet(c.lanes[m]) = ToSet(lanes[m]) \union {r}
                           ELSE lanes[m] = c.lanes[m]
    OBVIOUS
  <2>1. m # NoLane
    BY DEF Lanes
  <2>2. CASE m # LaneOf[r]
    <3>1. m \in DOMAIN c.lanes
      BY DEF Sound, Settling, Children
    <3> QED BY <1>3, <2>2, <3>1 DEF LanesWithout
  <2>3. CASE m = LaneOf[r]
    <3>1. PICK q \in Seq(Requests) : q = c.lanes[m]
      BY <1>3
    <3>2. q # <<>> /\ Head(q) = r /\ IsInjective(q)
      BY <2>1, <2>3, <3>1 DEF Leads, Sound, Settling, Orderly
    <3>3. m \in DOMAIN c.lanes
      BY DEF Sound, Settling, Children
    <3>4. lanes[m] = Tail(q)
      BY <2>1, <2>3, <3>1, <3>3 DEF LanesWithout
    <3>5. /\ Tail(q) \in Seq(Requests) /\ IsInjective(Tail(q)) /\ r \notin ToSet(Tail(q))
          /\ ToSet(q) = ToSet(Tail(q)) \union {r}
      BY <3>2, Tailed
    <3> QED BY <2>3, <3>1, <3>4, <3>5
  <2> QED BY <2>2, <2>3
<1>5. lanes \in [Lanes -> Seq(Requests)]
  <2>1. c.lanes \in [Lanes -> Seq(Requests)]
    BY DEF Sound, Settling, Children
  <2>2. lanes = [m \in Lanes |-> lanes[m]]
    <3>1. CASE LaneOf[r] = NoLane
      BY <2>1, <3>1 DEF LanesWithout
    <3>2. CASE LaneOf[r] # NoLane
      BY <2>1, <3>2 DEF LanesWithout
    <3> QED BY <3>1, <3>2
  <2> QED BY <1>4, <2>2
<1>6. /\ d \in Children /\ d.running = f /\ d.lanes = lanes /\ d.status = c.status
      /\ d.inFlight = c.inFlight /\ d.builder = c.builder /\ d.warming = c.warming
      /\ d.out = c.out /\ d.sdk = c.sdk /\ SameEvonodes(c, d)
  <2>1. d = [c EXCEPT !.running = f, !.lanes = lanes]
    BY DEF Without, f
  <2>2. PICK e : e = [c EXCEPT !.running = f]
    OBVIOUS
  <2>3. /\ e \in Children /\ e.running = f /\ e.lanes = c.lanes /\ e.status = c.status
        /\ e.inFlight = c.inFlight /\ e.builder = c.builder /\ e.warming = c.warming
        /\ e.out = c.out /\ e.sdk = c.sdk /\ SameEvonodes(c, e)
    BY <1>1, <2>2 DEF Sound, Settling, Children, SameEvonodes
  <2>4. d = [e EXCEPT !.lanes = lanes]
    BY <2>1, <2>2
  <2> QED BY <1>5, <2>3, <2>4 DEF Children, SameEvonodes
<1>7. \A x \in Requests : Works(d, x) <=> Works(c, x) /\ x # r
  <2> SUFFICES ASSUME NEW x \in Requests
               PROVE  Works(d, x) <=> Works(c, x) /\ x # r
    OBVIOUS
  <2>1. CASE LaneOf[x] = NoLane
    BY <1>2, <1>6, <2>1 DEF Works
  <2>2. CASE LaneOf[x] # NoLane /\ LaneOf[x] = LaneOf[r]
    BY <1>4, <1>6, <2>2, LanesOfRequests DEF Works
  <2>3. CASE LaneOf[x] # NoLane /\ LaneOf[x] # LaneOf[r]
    BY <1>4, <1>6, <2>3, LanesOfRequests DEF Works
  <2> QED BY <2>1, <2>2, <2>3
<1>8. Orderly(d)
  <2>1. \A m \in Lanes : IsInjective(d.lanes[m]) /\ \A x \in ToSet(d.lanes[m]) : LaneOf[x] = m
    <3> SUFFICES ASSUME NEW m \in Lanes
                 PROVE  IsInjective(d.lanes[m]) /\ \A x \in ToSet(d.lanes[m]) : LaneOf[x] = m
      OBVIOUS
    <3>1. IsInjective(c.lanes[m]) /\ \A x \in ToSet(c.lanes[m]) : LaneOf[x] = m
      BY DEF Sound, Settling, Orderly
    <3>2. IsInjective(lanes[m]) /\ ToSet(lanes[m]) \subseteq ToSet(c.lanes[m])
      BY <1>4, <3>1
    <3> QED BY <1>6, <3>1, <3>2
  <2>2. ASSUME NEW x \in DOMAIN d.running, LaneOf[x] # NoLane
        PROVE  d.lanes[LaneOf[x]] # <<>> /\ Head(d.lanes[LaneOf[x]]) = x
    <3>1. x \in DOMAIN c.running /\ x # r
      BY <1>2, <1>6
    <3>2. x \in Requests
      BY <3>1, RunsOfRequests DEF Sound, Settling, Children
    <3>3. LaneOf[x] \in Lanes /\ c.lanes[LaneOf[x]] # <<>> /\ Head(c.lanes[LaneOf[x]]) = x
      BY <2>2, <3>1, <3>2, LanesOfRequests DEF Sound, Settling, Orderly, Leads
    <3>4. LaneOf[x] # LaneOf[r]
      BY <2>2, <3>1, <3>3 DEF Leads
    <3> QED BY <1>4, <1>6, <3>3, <3>4
  <2> QED BY <2>1, <2>2 DEF Orderly, Leads
<1>9. Keyed(d)
  BY <1>2, <1>6 DEF Keyed, Sound, Settling
<1>10. Answers(d, cancelled)
  BY <1>6, <1>7 DEF Answers, Sound, Settling
<1>11. OnlyTasks(c, d)
  BY <1>2, <1>6 DEF OnlyTasks, SameEvonodes, Fresh, FreshSdk
<1> QED BY <1>6, <1>7, <1>8, <1>9, <1>10, <1>11 DEF Settling

\* A task settles: its caller is answered if not before, the next one begins.
LEMMA Settles ==
  ASSUME NEW cancelled, NEW c, NEW r \in Requests, NEW outcome \in Outcomes,
         Sound(c, cancelled), Leads(c, r), Works(c, r)
  PROVE  /\ Sound(Settle(c, r, outcome), cancelled) /\ OnlyTasks(c, Settle(c, r, outcome))
         /\ \A x \in Requests : Works(Settle(c, r, outcome), x) <=> Works(c, x) /\ x # r
<1> DEFINE l == LaneOf[r]
<1>1. PICK lanes : lanes = LanesWithout(c, r)
  OBVIOUS
<1>2. PICK gone : gone = Without(c, r)
  OBVIOUS
<1>3. /\ Settling(gone, cancelled) /\ OnlyTasks(c, gone)
      /\ gone.status = c.status /\ gone.inFlight = c.inFlight /\ gone.lanes = lanes
      /\ \A x \in Requests : Works(gone, x) <=> Works(c, x) /\ x # r
  BY <1>1, <1>2, Releases
<1>4. PICK told : told = IF l = NoLane THEN Publish(gone) ELSE gone
  OBVIOUS
<1>5. /\ Settling(told, cancelled) /\ OnlyTasks(c, told) /\ told.inFlight = c.inFlight
      /\ told.lanes = lanes /\ told.running = gone.running
      /\ r \notin told.inFlight => Told(told, cancelled)
  <2>1. CASE l = NoLane
    BY <1>3, <1>4, <2>1, Publishes, Transitive DEF Sound
  <2>2. CASE l # NoLane
    <3>1. r \notin c.inFlight => r \in cancelled
      BY DEF Sound, Settling, Answers
    <3>2. r \notin c.inFlight => Told(gone, cancelled)
      BY <1>3, <3>1 DEF Told, Sound
    <3> QED BY <1>3, <1>4, <2>2, <3>2
  <2> QED BY <2>1, <2>2
<1>6. \A x \in Requests : Works(told, x) <=> Works(c, x) /\ x # r
  BY <1>3, <1>5, Same
<1>7. PICK done : done = Finish(told, r, outcome)
  OBVIOUS
<1>8. /\ Sound(done, cancelled) /\ OnlyTasks(c, done) /\ done.lanes = lanes
      /\ done.running = told.running
  BY <1>5, <1>6, <1>7, Finishes, Transitive
<1>9. \A x \in Requests : Works(done, x) <=> Works(c, x) /\ x # r
  BY <1>5, <1>6, <1>8, Same
<1>10. PICK rest : rest = IF l = NoLane THEN <<>> ELSE Tail(c.lanes[l])
  OBVIOUS
<1>11. Settle(c, r, outcome) = IF rest = <<>> THEN done ELSE Begin(done, Head(rest))
  <2>1. CASE l = NoLane
    BY <1>1, <1>2, <1>4, <1>7, <1>10, <2>1 DEF Settle, Without, LanesWithout
  <2>2. CASE l # NoLane
    BY <1>1, <1>2, <1>4, <1>7, <1>10, <2>2 DEF Settle, Without, LanesWithout
  <2> QED BY <2>1, <2>2
<1>12. CASE rest = <<>>
  BY <1>8, <1>9, <1>11, <1>12
<1>13. CASE rest # <<>>
  <2>1. l # NoLane /\ l \in Lanes
    BY <1>10, <1>13, LanesOfRequests
  <2>2. c.lanes \in [Lanes -> Seq(Requests)]
    BY DEF Sound, Settling, Children
  <2>3. done.lanes[l] = rest
    BY <1>1, <1>8, <1>10, <2>1, <2>2 DEF LanesWithout
  <2>4. PICK q \in Seq(Requests) : q = c.lanes[l]
    BY <2>1, <2>2
  <2>5. q # <<>>
    BY <2>1, <2>4 DEF Leads
  <2>6. rest \in Seq(Requests)
    BY <1>10, <2>1, <2>4, <2>5, Tailed
  <2>7. PICK next \in Requests : next = Head(rest) /\ next \in ToSet(rest)
    <3>1. Head(rest) \in Requests /\ Head(rest) \in ToSet(rest)
      BY <1>13, <2>6, Tailed
    <3> QED BY <3>1
  <2>8. LaneOf[next] = l
    BY <1>8, <2>1, <2>3, <2>7 DEF Sound, Settling, Orderly
  <2>9. Leads(done, next)
    BY <1>13, <2>3, <2>7, <2>8 DEF Leads
  <2>10. /\ Sound(Begin(done, next), cancelled) /\ OnlyTasks(done, Begin(done, next))
         /\ \A x \in Requests : Works(Begin(done, next), x) <=> Works(done, x)
    BY <1>8, <2>1, <2>8, <2>9, Begins
  <2>11. OnlyTasks(c, Begin(done, next))
    BY <1>8, <2>10, Transitive
  <2> QED BY <1>9, <1>11, <1>13, <2>7, <2>10, <2>11
<1> QED BY <1>12, <1>13

\* What the commands and the probes do to the evonodes leaves the tasks alone.
LEMMA EvonodeSteps ==
  ASSUME NEW c \in Children
  PROVE  /\ \A mode \in Modes : SetDapi(c, mode) \in Children /\ SameTasks(c, SetDapi(c, mode))
         /\ \A list \in Nat : Probe(c, list) \in Children /\ SameTasks(c, Probe(c, list))
         /\ UseSeedNodes(c) \in Children /\ SameTasks(c, UseSeedNodes(c))
         /\ RefillBannedPool(c) \in Children /\ SameTasks(c, RefillBannedPool(c))
<1>1. ASSUME NEW mode \in Modes
      PROVE  SetDapi(c, mode) \in Children /\ SameTasks(c, SetDapi(c, mode))
  BY SdkNumbers DEF SetDapi, Children, SameTasks
<1>2. ASSUME NEW list \in Nat
      PROVE  Probe(c, list) \in Children /\ SameTasks(c, Probe(c, list))
  <2>1. PICK probes : probes = c.probes \union {[list |-> list, some |-> FALSE]}
    OBVIOUS
  <2>2. [list |-> list, some |-> FALSE] \in Probes
    BY DEF Probes
  <2>4. probes \in SUBSET Probes
    BY <2>1, <2>2 DEF Children
  <2>3. Probe(c, list) = [c EXCEPT !.list = list, !.probes = probes]
    BY <2>1 DEF Probe
  <2> QED BY <2>3, <2>4 DEF Children, SameTasks
<1>3. UseSeedNodes(c) \in Children /\ SameTasks(c, UseSeedNodes(c))
  BY SdkNumbers DEF UseSeedNodes, Children, SameTasks
<1>4. RefillBannedPool(c) \in Children /\ SameTasks(c, RefillBannedPool(c))
  BY SdkNumbers DEF RefillBannedPool, Children, SameTasks
<1> QED BY <1>1, <1>2, <1>3, <1>4

LEMMA PinsList ==
  ASSUME NEW c \in Children, NEW list \in Nat
  PROVE  /\ Pin(c, list) \in Children /\ SameTasks(c, Pin(c, list))
         /\ Pin(c, list).mode = c.mode /\ Pin(c, list).list = c.list /\ Pin(c, list).pin = list
         /\ Pin(c, list).sdk = NoSdk
         /\ Pin(c, list).probes = c.probes /\ Pin(c, list).retries = c.retries
         /\ Pin(c, list).refill = c.refill
         /\ ToSet(Pin(c, list).out) = ToSet(c.out) \union {[type |-> "pinned"]}
<1>1. PICK d : d = [c EXCEPT !.pin = list, !.sdk = NoSdk]
  OBVIOUS
<1>2. /\ d \in Children /\ SameTasks(c, d) /\ d.mode = c.mode /\ d.list = c.list
      /\ d.pin = list /\ d.sdk = NoSdk /\ d.probes = c.probes /\ d.retries = c.retries
      /\ d.refill = c.refill /\ d.out = c.out
  BY <1>1, SdkNumbers DEF Children, SameTasks
<1> DEFINE event == [type |-> "pinned"]
<1>3. event \in Says
  BY DEF Says
<1>4. PICK e : e = Emit(d, event)
  OBVIOUS
<1>5. Pin(c, list) = e
  BY <1>1, <1>4 DEF Pin
<1> HIDE DEF event
<1>6. /\ e \in Children /\ ToSet(e.out) = ToSet(d.out) \union {event}
      /\ SameTasks(d, e) /\ SameEvonodes(d, e) /\ e.sdk = d.sdk
  BY <1>2, <1>3, <1>4, Emits
<1> QED BY <1>2, <1>5, <1>6 DEF event, SameTasks, SameEvonodes

\* A cancelled request is answered, its task stays.
LEMMA Cancels ==
  ASSUME NEW cancelled, NEW c, NEW r \in cancelled, r \in Requests, Sound(c, cancelled)
  PROVE  /\ Sound(CancelTask(c, r), cancelled) /\ OnlyTasks(c, CancelTask(c, r))
         /\ \A x : Works(CancelTask(c, r), x) <=> Works(c, x)
<1>1. "cancelled" \in Outcomes
  BY DEF Outcomes
<1> QED BY <1>1, Finishes, Same DEF CancelTask, Sound
-----------------------------------------------------------------------------
(* The ports *)

LEMMA AskIsCommand ==
  \A r \in Requests : Ask(r) \in Commands /\ Ask(r).type = "request" /\ Ask(r).request = r
BY DEF Ask, Commands

LEMMA Requested ==
  ASSUME NEW command \in Commands
  PROVE  /\ command.type \in {"request", "cancel"} => command.request \in Requests
         /\ command.type = "request" => command = Ask(command.request)
         /\ command.type = "setDapi" => command.mode \in Modes
         /\ command.type = "setEvonodeDapiUrls" => command.list \in Nat
         /\ command.type \in {"request", "cancel", "setDapi", "setEvonodeDapiUrls", "useSeedNodes"}
BY DEF Ask, Commands

LEMMA HeadLeaves ==
  ASSUME NEW q \in Seq(Commands), q # <<>>, OnceEach(q), NEW cancelled, KnownCancels(q, cancelled)
  PROVE  /\ Tail(q) \in Seq(Commands) /\ Head(q) \in Commands
         /\ OnceEach(Tail(q)) /\ KnownCancels(Tail(q), cancelled)
         /\ Asked(Tail(q)) \subseteq Asked(q)
         /\ Head(q).type = "cancel" => Head(q).request \in cancelled
         /\ Head(q).type = "request" => /\ Head(q).request \in Asked(q)
                                        /\ Head(q).request \notin Asked(Tail(q))
<1>1. /\ Tail(q) \in Seq(Commands) /\ Head(q) \in Commands /\ Head(q) = q[1]
      /\ Len(q) \in Nat /\ Len(q) >= 1
      /\ DOMAIN q = 1 .. Len(q) /\ DOMAIN Tail(q) = 1 .. Len(q) - 1
      /\ \A i \in 1 .. Len(q) - 1 : Tail(q)[i] = q[i + 1]
  BY Tailed
<1> DEFINE t == Tail(q)
<1> HIDE DEF t
<1>2. \A i \in DOMAIN t : i + 1 \in DOMAIN q /\ t[i] = q[i + 1] /\ i + 1 # 1
  BY <1>1 DEF t
<1>3. 1 \in DOMAIN q
  BY <1>1
<1>4. OnceEach(t)
  <2> SUFFICES ASSUME NEW i \in DOMAIN t, NEW j \in DOMAIN t, t[i].type = "request", t[i] = t[j]
               PROVE  i = j
    BY DEF OnceEach
  <2>1. i + 1 = j + 1
    BY <1>2 DEF OnceEach
  <2> QED BY <1>1, <2>1 DEF t
<1>5. KnownCancels(t, cancelled) /\ Asked(t) \subseteq Asked(q)
  BY <1>2 DEF KnownCancels, Asked
<1>6. Head(q).type = "cancel" => Head(q).request \in cancelled
  BY <1>1, <1>3 DEF KnownCancels
<1>7. ASSUME Head(q).type = "request"
      PROVE  Head(q).request \in Asked(q) /\ Head(q).request \notin Asked(t)
  <2>1. Head(q) = Ask(Head(q).request) /\ Head(q).request \in Requests
    BY <1>1, <1>7, Requested
  <2>2. \A i \in DOMAIN t : t[i] # q[1]
    BY <1>1, <1>2, <1>3, <1>7 DEF OnceEach
  <2> QED BY <1>1, <1>3, <2>1, <2>2 DEF Asked
<1> QED BY <1>1, <1>4, <1>5, <1>6, <1>7 DEF t

LEMMA Behind ==
  ASSUME NEW p \in Seq(Commands), NEW q \in Seq(Commands), NEW cancelled,
         OnceEach(p), OnceEach(q), Asked(p) \intersect Asked(q) = {},
         KnownCancels(p, cancelled), KnownCancels(q, cancelled)
  PROVE  /\ p \o q \in Seq(Commands) /\ OnceEach(p \o q) /\ KnownCancels(p \o q, cancelled)
         /\ Asked(p \o q) \subseteq Asked(p) \union Asked(q)
<1> DEFINE s == p \o q
<1>1. /\ s \in Seq(Commands) /\ Len(p) \in Nat /\ Len(q) \in Nat
      /\ DOMAIN p = 1 .. Len(p) /\ DOMAIN q = 1 .. Len(q) /\ DOMAIN s = 1 .. Len(p) + Len(q)
      /\ \A i \in 1 .. Len(p) : s[i] = p[i]
      /\ \A i \in 1 .. Len(q) : s[Len(p) + i] = q[i]
      /\ \A i \in 1 .. Len(p) + Len(q) :
           i \in 1 .. Len(p) \/ (i - Len(p) \in 1 .. Len(q) /\ i = Len(p) + (i - Len(p)))
  BY Joined
<1> HIDE DEF s
<1>2. \A i \in DOMAIN s : \/ i \in DOMAIN p /\ s[i] = p[i]
                          \/ \E n \in DOMAIN q : i = Len(p) + n /\ s[i] = q[n]
  <2> SUFFICES ASSUME NEW i \in DOMAIN s
               PROVE  \/ i \in DOMAIN p /\ s[i] = p[i]
                      \/ \E n \in DOMAIN q : i = Len(p) + n /\ s[i] = q[n]
    OBVIOUS
  <2>1. CASE i \in 1 .. Len(p)
    BY <1>1, <2>1
  <2>2. CASE i - Len(p) \in 1 .. Len(q) /\ i = Len(p) + (i - Len(p))
    <3>1. PICK n \in DOMAIN q : i = Len(p) + n
      BY <1>1, <2>2
    <3>2. s[i] = q[n]
      BY <1>1, <3>1
    <3> QED BY <3>1, <3>2
  <2> QED BY <1>1, <2>1, <2>2
<1>3. KnownCancels(s, cancelled) /\ Asked(s) \subseteq Asked(p) \union Asked(q)
  BY <1>2 DEF KnownCancels, Asked
<1>4. \A i \in DOMAIN p, j \in DOMAIN q : p[i].type = "request" => p[i] # q[j]
  <2> SUFFICES ASSUME NEW i \in DOMAIN p, NEW j \in DOMAIN q, p[i].type = "request", p[i] = q[j]
               PROVE  FALSE
    OBVIOUS
  <2>1. p[i] \in Commands
    BY <1>1
  <2>2. p[i] = Ask(p[i].request) /\ p[i].request \in Requests
    BY <2>1, Requested
  <2> QED BY <2>2 DEF Asked
<1>5. OnceEach(s)
  <2> SUFFICES ASSUME NEW i \in DOMAIN s, NEW j \in DOMAIN s, s[i].type = "request", s[i] = s[j]
               PROVE  i = j
    BY DEF OnceEach
  <2>1. CASE i \in DOMAIN p /\ s[i] = p[i]
    <3>1. CASE j \in DOMAIN p /\ s[j] = p[j]
      BY <2>1, <3>1 DEF OnceEach
    <3>2. CASE \E n \in DOMAIN q : j = Len(p) + n /\ s[j] = q[n]
      BY <1>4, <2>1, <3>2
    <3> QED BY <1>2, <3>1, <3>2
  <2>2. CASE \E n \in DOMAIN q : i = Len(p) + n /\ s[i] = q[n]
    <3>1. PICK n \in DOMAIN q : i = Len(p) + n /\ s[i] = q[n]
      BY <2>2
    <3>2. CASE j \in DOMAIN p /\ s[j] = p[j]
      BY <1>4, <3>1, <3>2
    <3>3. CASE \E m \in DOMAIN q : j = Len(p) + m /\ s[j] = q[m]
      BY <3>1, <3>3 DEF OnceEach
    <3> QED BY <1>2, <3>2, <3>3
  <2> QED BY <1>2, <2>1, <2>2
<1> QED BY <1>1, <1>3, <1>5 DEF s

\* A command that asks for nothing.
LEMMA OneCommand ==
  ASSUME NEW cancelled, NEW command \in Commands,
         command.type = "cancel" => command.request \in cancelled
  PROVE  /\ <<command>> \in Seq(Commands) /\ OnceEach(<<command>>)
         /\ KnownCancels(<<command>>, cancelled)
         /\ \A r \in Asked(<<command>>) : command = Ask(r)
<1>1. <<command>> \in Seq(Commands)
  OBVIOUS
<1>2. \A i \in DOMAIN <<command>> : i = 1 /\ <<command>>[i] = command
  OBVIOUS
<1> QED BY <1>1, <1>2 DEF OnceEach, KnownCancels, Asked

LEMMA NoCommand ==
  \A cancelled : /\ <<>> \in Seq(Commands) /\ OnceEach(<<>>) /\ KnownCancels(<<>>, cancelled)
                 /\ Asked(<<>>) = {}
<1>1. DOMAIN <<>> = {} /\ <<>> \in Seq(Commands)
  OBVIOUS
<1> QED BY <1>1 DEF OnceEach, KnownCancels, Asked

\* What wakes the held requests asks for each of them once.
LEMMA HeldAsks ==
  ASSUME NEW waiters \in Seq(Requests), IsInjective(waiters), NEW cancelled
  PROVE  LET asks == [i \in DOMAIN waiters |-> Ask(waiters[i])]
         IN /\ asks \in Seq(Commands) /\ OnceEach(asks) /\ KnownCancels(asks, cancelled)
            /\ Asked(asks) = ToSet(waiters)
<1> DEFINE asks == [i \in DOMAIN waiters |-> Ask(waiters[i])]
<1>1. DOMAIN waiters = 1 .. Len(waiters) /\ Len(waiters) \in Nat
  OBVIOUS
<1>2. \A i \in DOMAIN waiters : waiters[i] \in Requests
  OBVIOUS
<1>3. \A i \in DOMAIN waiters : asks[i] = Ask(waiters[i]) /\ asks[i] \in Commands
                                /\ asks[i].type = "request" /\ asks[i].request = waiters[i]
  BY <1>2, AskIsCommand
<1>4. DOMAIN asks = DOMAIN waiters /\ asks \in [1 .. Len(waiters) -> Commands]
  BY <1>1, <1>3
<1> HIDE DEF asks
<1>5. asks \in Seq(Commands)
  BY <1>1, <1>4
<1>6. OnceEach(asks) /\ KnownCancels(asks, cancelled)
  BY <1>3, <1>4 DEF OnceEach, KnownCancels, IsInjective
<1>7. Asked(asks) = ToSet(waiters)
  <2>1. \A r \in Requests : Ask(r).request = r
    BY AskIsCommand
  <2> QED BY <1>2, <1>3, <1>4, <2>1 DEF Asked, ToSet
<1> QED BY <1>5, <1>6, <1>7 DEF asks

-----------------------------------------------------------------------------
(* Tasks are sound *)

LEMMA BootedSound ==
  ASSUME NEW cancelled
  PROVE  /\ Sound(Booted, cancelled) /\ Sound(NoChild, cancelled)
         /\ \A r \in Requests : ~Works(Booted, r) /\ ~Works(NoChild, r)
         /\ Booted.out = <<>> /\ NoChild.out = <<>>
<1>1. <<>> \in Runs /\ DOMAIN <<>> = {}
  <2>1. <<>> \in [{} -> Nat]
    OBVIOUS
  <2> QED BY <2>1 DEF Runs
<1>2. <<>> \in Seq(Requests) /\ <<>> \in Seq(Says) /\ ToSet(<<>>) = {} /\ IsInjective(<<>>)
  BY NoneHeld
<1>3. [l \in Lanes |-> <<>>] \in [Lanes -> Seq(Requests)]
  BY <1>2
<1> DEFINE none == <<>>
<1> DEFINE free == [l \in Lanes |-> <<>>]
<1>4. /\ none \in Runs /\ none \in Seq(Says) /\ free \in [Lanes -> Seq(Requests)]
      /\ \A l \in Lanes : free[l] = <<>>
  BY <1>1, <1>2, <1>3
<1>5. Booted = [up |-> TRUE, mode |-> "dynamic", list |-> 0, pin |-> None, sdk |-> NoSdk,
                 probes |-> {}, retries |-> {}, refill |-> 0,
                 warming |-> TRUE, builder |-> FALSE,
                 lanes |-> free, running |-> none, inFlight |-> {},
                 status |-> [prover |-> "preparing", busy |-> {}], out |-> none]
  <2>1. [EmptyStatus EXCEPT !.prover = "preparing"] = [prover |-> "preparing", busy |-> {}]
    BY DEF EmptyStatus
  <2> QED BY <2>1 DEF Booted
<1>6. NoChild = [[[Booted EXCEPT !.up = FALSE] EXCEPT !.warming = FALSE] EXCEPT !.status = EmptyStatus]
  BY <1>5 DEF NoChild
<1>7. NoChild = [up |-> FALSE, mode |-> "dynamic", list |-> 0, pin |-> None, sdk |-> NoSdk,
                 probes |-> {}, retries |-> {}, refill |-> 0,
                 warming |-> FALSE, builder |-> FALSE,
                 lanes |-> free, running |-> none, inFlight |-> {},
                 status |-> [prover |-> "idle", busy |-> {}], out |-> none]
  BY <1>5, <1>6 DEF EmptyStatus
<1>8. /\ Booted.out = <<>> /\ NoChild.out = <<>>
      /\ DOMAIN Booted.running = {} /\ DOMAIN NoChild.running = {}
  BY <1>1, <1>7, <1>5
<1> HIDE DEF none, free
<1>9. Booted \in Children /\ NoChild \in Children
  BY <1>4, <1>7, <1>5, SdkNumbers DEF Children, Modes, Provers
<1>10. \A r \in Requests : ~Works(Booted, r) /\ ~Works(NoChild, r)
  BY <1>2, <1>4, <1>7, <1>5, <1>8, LanesOfRequests DEF Works
<1>11. Orderly(Booted) /\ Orderly(NoChild)
  BY <1>2, <1>4, <1>7, <1>5, <1>8 DEF Orderly
<1>12. Keyed(Booted) /\ Keyed(NoChild)
  BY <1>7, <1>5, <1>8 DEF Keyed
<1>13. /\ Answers(Booted, cancelled) /\ Told(Booted, cancelled)
       /\ Answers(NoChild, cancelled) /\ Told(NoChild, cancelled)
  BY <1>7, <1>5, <1>10 DEF Answers, Told
<1> QED BY <1>8, <1>9, <1>10, <1>11, <1>12, <1>13 DEF Sound, Settling

LEMMA Handles ==
  ASSUME NEW cancelled, NEW c, NEW command \in Commands, Sound(c, cancelled),
         command.type = "cancel" => command.request \in cancelled,
         command.type = "request" => ~Works(c, command.request)
  PROVE  /\ Sound(Handled(c, command), cancelled)
         /\ \A r \in Requests : Works(Handled(c, command), r)
                                  => Works(c, r) \/ command = Ask(r)
<1>1. c \in Children
  BY DEF Sound, Settling
<1>2. CASE command.type = "request"
  <2>1. command = Ask(command.request) /\ command.request \in Requests
    BY <1>2, Requested
  <2>2. Handled(c, command) = Dispatch(c, command.request)
    BY <1>2 DEF Handled
  <2> QED BY <1>2, <2>1, <2>2, Dispatches
<1>3. CASE command.type = "cancel"
  <2>1. command.request \in Requests
    BY <1>3, Requested
  <2>2. Handled(c, command) = CancelTask(c, command.request)
    BY <1>3 DEF Handled
  <2> QED BY <1>3, <2>1, <2>2, Cancels
<1>4. CASE command.type = "setDapi"
  <2>1. Handled(c, command) = SetDapi(c, command.mode) /\ command.mode \in Modes
    BY <1>4, Requested DEF Handled
  <2> QED BY <1>1, <2>1, EvonodeSteps, EvonodesKept
<1>5. CASE command.type = "setEvonodeDapiUrls"
  <2>1. Handled(c, command) = Probe(c, command.list) /\ command.list \in Nat
    BY <1>5, Requested DEF Handled
  <2> QED BY <1>1, <2>1, EvonodeSteps, EvonodesKept
<1>6. CASE command.type = "useSeedNodes"
  <2>1. Handled(c, command) = UseSeedNodes(c)
    BY <1>6 DEF Handled
  <2> QED BY <1>1, <2>1, EvonodeSteps, EvonodesKept
<1> QED BY <1>2, <1>3, <1>4, <1>5, <1>6, Requested

LEMMA Became ==
  ASSUME NEW cancelled, NEW c, Sound(c, cancelled), toMain \in Seq(Says \union {Exit}),
         ChildBecomes(c)
  PROVE  /\ Sound(child', cancelled) /\ child'.out = <<>>
         /\ c.out \in Seq(Says) /\ toMain' \in Seq(Says \union {Exit})
         /\ \A r : Works(child', r) <=> Works(c, r)
         /\ SameTasks(c, child') /\ SameEvonodes(c, child') /\ child'.sdk = c.sdk
<1>1. PICK d : d = [c EXCEPT !.out = <<>>]
  OBVIOUS
<1>2. child' = d
  BY <1>1 DEF ChildBecomes
<1>3. <<>> \in Seq(Says)
  BY NoneHeld
<1> DEFINE none == <<>>
<1>4. d = [c EXCEPT !.out = none] /\ none \in Seq(Says)
  BY <1>1, <1>3
<1> HIDE DEF none
<1>5. /\ d \in Children /\ d.out = none
      /\ SameTasks(c, d) /\ SameEvonodes(c, d) /\ d.sdk = c.sdk
  BY <1>4 DEF Sound, Settling, Children, SameTasks, SameEvonodes
<1>6. Sound(d, cancelled) /\ \A r : Works(d, r) <=> Works(c, r)
  BY <1>5, EvonodesKept
<1>7. c.out \in Seq(Says)
  BY DEF Sound, Settling, Children
<1>8. toMain' \in Seq(Says \union {Exit})
  <2>1. c.out \in Seq(Says \union {Exit})
    BY <1>7
  <2> QED BY <2>1, Joined DEF ChildBecomes
<1> QED BY <1>2, <1>5, <1>6, <1>7, <1>8 DEF none

\* A step of the child that starts nothing new.
LEMMA ChildSteps ==
  ASSUME TaskInv, NEW c, Sound(c, faults.cancelled),
         \A r \in Requests : Works(c, r) => Works(child, r), ChildBecomes(c),
         UNCHANGED <<main, request, toChild>>, landed' \subseteq Transitions,
         faults' \in Faults, faults'.cancelled = faults.cancelled
  PROVE  TaskInv'
<1>1. toMain \in Seq(Says \union {Exit})
  BY DEF TaskInv, Typed
<1>2. /\ Sound(child', faults.cancelled) /\ child'.out = <<>>
      /\ toMain' \in Seq(Says \union {Exit})
      /\ \A r : Works(child', r) <=> Works(c, r)
  BY <1>1, Became
<1>3. Typed'
  BY <1>2 DEF TaskInv, Typed
<1>4. Waiting'
  BY DEF TaskInv, Waiting
<1>5. Carried'
  <2>1. OnceEach(toChild') /\ KnownCancels(toChild', faults'.cancelled) /\ Sent' = Sent
    BY DEF TaskInv, Carried, Sent
  <2>2. \A r \in Asked(toChild') : r \in Sent' /\ ~Works(child', r)
    BY <1>2, <2>1 DEF TaskInv, Carried, Asked
  <2>3. \A r \in Requests : Works(child', r) => r \in Sent'
    BY <1>2, <2>1 DEF TaskInv, Carried
  <2> QED BY <2>1, <2>2, <2>3 DEF Carried
<1> QED BY <1>2, <1>3, <1>4, <1>5 DEF TaskInv

\* A step of the evonodes.
LEMMA EvonodesStep ==
  ASSUME TaskInv, child' \in Children, SameTasks(child, child'), child'.out = <<>>,
         UNCHANGED <<main, request, toChild, toMain, landed>>,
         faults' \in Faults, faults'.cancelled = faults.cancelled
  PROVE  TaskInv'
<1>1. PICK d : d = child'
  OBVIOUS
<1>2. Sound(d, faults.cancelled) /\ \A r : Works(d, r) <=> Works(child, r)
  BY <1>1, EvonodesKept DEF TaskInv
<1>3. Typed'
  BY DEF TaskInv, Typed
<1>4. Waiting'
  BY DEF TaskInv, Waiting
<1>5. Carried'
  <2>1. OnceEach(toChild') /\ KnownCancels(toChild', faults'.cancelled) /\ Sent' = Sent
    BY DEF TaskInv, Carried, Sent
  <2>2. \A r \in Asked(toChild') : r \in Sent' /\ ~Works(child', r)
    BY <1>1, <1>2, <2>1 DEF TaskInv, Carried, Asked
  <2>3. \A r \in Requests : Works(child', r) => r \in Sent'
    BY <1>1, <1>2, <2>1 DEF TaskInv, Carried
  <2> QED BY <2>1, <2>2, <2>3 DEF Carried
<1> QED BY <1>1, <1>2, <1>3, <1>4, <1>5 DEF TaskInv

LEMMA MoreCancelled ==
  ASSUME NEW cancelled, NEW more, cancelled \subseteq more, NEW c, Sound(c, cancelled)
  PROVE  Sound(c, more)
BY DEF Sound, Settling, Answers, Told

LEMMA Replays ==
  ASSUME TaskInv, NEW cancelled
  PROVE  /\ Replay \in Seq(Commands) /\ OnceEach(Replay) /\ KnownCancels(Replay, cancelled)
         /\ Asked(Replay) = {}
<1> DEFINE mode == [type |-> "setDapi", mode |-> main.mode]
<1> DEFINE list == [type |-> "setEvonodeDapiUrls", list |-> main.list]
<1>1. main.mode \in Modes /\ main.list \in Nat
  BY DEF TaskInv, Typed, Mains
<1>2. mode \in Commands /\ list \in Commands
  BY <1>1 DEF Commands
<1>3. PICK m \in Commands : m = mode
  BY <1>2
<1>4. PICK n \in Commands : n = list
  BY <1>2
<1>5. /\ m.type = "setDapi" /\ n.type = "setEvonodeDapiUrls"
      /\ \A r \in Requests : m # Ask(r) /\ n # Ask(r)
  <2>1. \A r \in Requests : Ask(r).type = "request"
    BY AskIsCommand
  <2> QED BY <1>3, <1>4, <2>1
<1>6. Replay = <<m>> \o (IF main.list = 0 THEN <<>> ELSE <<n>>)
  BY <1>3, <1>4 DEF Replay
<1> HIDE DEF mode, list
<1>7. PICK p \in Seq(Commands) : /\ p = IF main.list = 0 THEN <<>> ELSE <<n>>
                                 /\ OnceEach(p) /\ KnownCancels(p, cancelled) /\ Asked(p) = {}
  <2>1. /\ <<n>> \in Seq(Commands) /\ OnceEach(<<n>>) /\ KnownCancels(<<n>>, cancelled)
        /\ \A r \in Asked(<<n>>) : n = Ask(r)
    BY <1>5, OneCommand
  <2>2. Asked(<<n>>) = {}
    BY <1>5, <2>1 DEF Asked
  <2> QED BY <2>1, <2>2, NoCommand
<1>8. /\ <<m>> \in Seq(Commands) /\ OnceEach(<<m>>) /\ KnownCancels(<<m>>, cancelled)
      /\ \A r \in Asked(<<m>>) : m = Ask(r)
  BY <1>5, OneCommand
<1>9. Asked(<<m>>) = {}
  BY <1>5, <1>8 DEF Asked
<1>10. PICK u \in Seq(Commands) : /\ u = <<m>> /\ OnceEach(u) /\ KnownCancels(u, cancelled)
                                  /\ Asked(u) = {}
  BY <1>8, <1>9
<1>11. Asked(u) \intersect Asked(p) = {}
  BY <1>10
<1>12. /\ u \o p \in Seq(Commands) /\ OnceEach(u \o p) /\ KnownCancels(u \o p, cancelled)
       /\ Asked(u \o p) \subseteq Asked(u) \union Asked(p)
  BY <1>7, <1>10, <1>11, Behind
<1>13. Replay = u \o p
  BY <1>6, <1>7, <1>10
<1> QED BY <1>7, <1>10, <1>12, <1>13

LEMMA Sends ==
  ASSUME TaskInv, NEW more \in SUBSET Requests, faults.cancelled \subseteq more,
         NEW commands \in Seq(Commands), OnceEach(commands), KnownCancels(commands, more),
         Asked(commands) \intersect Sent = {}, Send(commands)
  PROVE  /\ Sound(child', more) /\ child'.out = <<>>
         /\ toChild' \in Seq(Commands) /\ toMain' = toMain
         /\ OnceEach(toChild') /\ KnownCancels(toChild', more)
         /\ Asked(toChild') \subseteq Asked(toChild) \union Asked(commands)
         /\ \A r \in Requests : Works(child', r) => Works(child, r)
<1>1. /\ toChild \in Seq(Commands) /\ OnceEach(toChild) /\ KnownCancels(toChild, more)
      /\ Asked(toChild) \subseteq Sent /\ Sound(child, more) /\ child.out = <<>>
  BY MoreCancelled DEF TaskInv, Typed, Carried, KnownCancels
<1>2. /\ toChild \o commands \in Seq(Commands) /\ OnceEach(toChild \o commands)
      /\ KnownCancels(toChild \o commands, more)
      /\ Asked(toChild \o commands) \subseteq Asked(toChild) \union Asked(commands)
  <2>1. Asked(toChild) \intersect Asked(commands) = {}
    BY <1>1
  <2> QED BY <1>1, <2>1, Behind
<1>3. CASE main.child
  BY <1>1, <1>2, <1>3 DEF Send
<1>4. CASE ~main.child
  <2>1. PICK p \in Seq(Commands) : /\ p = Replay /\ OnceEach(p) /\ KnownCancels(p, more)
                                   /\ Asked(p) = {}
    BY Replays
  <2>2. /\ p \o commands \in Seq(Commands) /\ OnceEach(p \o commands)
        /\ KnownCancels(p \o commands, more)
        /\ Asked(p \o commands) \subseteq Asked(p) \union Asked(commands)
    BY <2>1, Behind
  <2>3. toChild' = p \o commands /\ child' = Booted /\ toMain' = toMain
    BY <1>4, <2>1 DEF Send
  <2>4. Sound(Booted, more) /\ Booted.out = <<>> /\ \A r \in Requests : ~Works(Booted, r)
    BY BootedSound
  <2> QED BY <2>1, <2>2, <2>3, <2>4
<1> QED BY <1>3, <1>4

\* After main sent: what it asked for has left main.
LEMMA MainSteps ==
  ASSUME TaskInv, NEW more \in SUBSET Requests, faults' \in Faults, faults'.cancelled = more,
         Sound(child', more), child'.out = <<>>,
         toChild' \in Seq(Commands), toMain' \in Seq(Says \union {Exit}),
         OnceEach(toChild'), KnownCancels(toChild', more),
         NEW asked, Asked(toChild') \subseteq Asked(toChild) \union asked,
         \A r \in Requests : Works(child', r) => Works(child, r),
         main' \in Mains, request' \in [Requests -> {"idle", "pinning", "sent"} \union Outcomes],
         Waiting', asked \subseteq Sent', Sent \subseteq Sent', asked \intersect Sent = {},
         UNCHANGED landed
  PROVE  TaskInv'
<1>1. Typed'
  BY DEF TaskInv, Typed
<1>2. Carried'
  <2>1. \A r \in Asked(toChild') : r \in Sent' /\ ~Works(child', r)
    BY DEF TaskInv, Carried, Asked
  <2>2. \A r \in Requests : Works(child', r) => r \in Sent'
    BY DEF TaskInv, Carried
  <2> QED BY <2>1, <2>2 DEF Carried
<1> QED BY <1>1, <1>2 DEF TaskInv

LEMMA RequestStep ==
  ASSUME TaskInv, NEW r \in Requests, Request(r)
  PROVE  TaskInv'
<1>1. /\ request[r] = "idle" /\ r \notin Sent
      /\ main \in Mains /\ request \in [Requests -> {"idle", "pinning", "sent"} \union Outcomes]
      /\ main.waiters \in Seq(Requests) /\ toMain \in Seq(Says \union {Exit})
      /\ faults.cancelled \in SUBSET Requests /\ faults' = faults /\ faults \in Faults /\ landed' = landed
  BY DEF Request, Sent, TaskInv, Typed, Mains, Faults
<1>2. CASE r \in Exempt \/ main.pinned \/ main.mode = "static"
  <2>1. /\ Send(<<Ask(r)>>) /\ request' = [request EXCEPT ![r] = "sent"]
        /\ main' = [main EXCEPT !.child = TRUE]
    BY <1>2 DEF Request
  <2>2. PICK commands \in Seq(Commands) :
          /\ commands = <<Ask(r)>> /\ OnceEach(commands)
          /\ KnownCancels(commands, faults.cancelled)
          /\ \A x \in Asked(commands) : Ask(r) = Ask(x)
    <3>1. Ask(r) \in Commands /\ Ask(r).type = "request"
      BY AskIsCommand
    <3> QED BY <3>1, OneCommand
  <2>3. \A x \in Asked(commands) : x = r
    <3>1. \A x \in Asked(commands) : x \in Requests
      BY DEF Asked
    <3> QED BY <2>2, <3>1, AskIsCommand
  <2>4. Asked(commands) \intersect Sent = {}
    BY <1>1, <2>3
  <2>5. /\ Sound(child', faults.cancelled) /\ child'.out = <<>>
        /\ toChild' \in Seq(Commands) /\ toMain' = toMain
        /\ OnceEach(toChild') /\ KnownCancels(toChild', faults.cancelled)
        /\ Asked(toChild') \subseteq Asked(toChild) \union Asked(commands)
        /\ \A x \in Requests : Works(child', x) => Works(child, x)
    BY <1>1, <2>1, <2>2, <2>4, Sends
  <2>6. main' \in Mains /\ main'.waiters = main.waiters
    BY <1>1, <2>1 DEF Mains
  <2>7. /\ request' \in [Requests -> {"idle", "pinning", "sent"} \union Outcomes]
        /\ \A x \in Requests : request'[x] = IF x = r THEN "sent" ELSE request[x]
    BY <1>1, <2>1
  <2>8. Waiting'
    BY <1>1, <2>6, <2>7 DEF TaskInv, Waiting
  <2>9. Sent \subseteq Sent' /\ Asked(commands) \subseteq Sent'
    BY <1>1, <2>3, <2>7 DEF Sent
  <2> QED BY <1>1, <2>4, <2>5, <2>6, <2>7, <2>8, <2>9, MainSteps
<1>3. CASE ~(r \in Exempt \/ main.pinned \/ main.mode = "static")
  <2>1. /\ Send(<<>>) /\ request' = [request EXCEPT ![r] = "pinning"]
        /\ main' = [main EXCEPT !.child = TRUE, !.waiters = Append(main.waiters, r)]
    BY <1>3 DEF Request
  <2>2. PICK commands \in Seq(Commands) :
          /\ commands = <<>> /\ OnceEach(commands)
          /\ KnownCancels(commands, faults.cancelled) /\ Asked(commands) = {}
    BY NoCommand
  <2>3. Asked(commands) \intersect Sent = {}
    BY <2>2
  <2>4. /\ Sound(child', faults.cancelled) /\ child'.out = <<>>
        /\ toChild' \in Seq(Commands) /\ toMain' = toMain
        /\ OnceEach(toChild') /\ KnownCancels(toChild', faults.cancelled)
        /\ Asked(toChild') \subseteq Asked(toChild) \union Asked(commands)
        /\ \A x \in Requests : Works(child', x) => Works(child, x)
    BY <1>1, <2>1, <2>2, <2>3, Sends
  <2>5. /\ Append(main.waiters, r) \in Seq(Requests)
        /\ ToSet(Append(main.waiters, r)) = ToSet(main.waiters) \union {r}
        /\ IsInjective(main.waiters) /\ r \notin ToSet(main.waiters)
             => IsInjective(Append(main.waiters, r))
    BY <1>1, Appended
  <2>6. PICK longer \in Seq(Requests) : longer = Append(main.waiters, r)
    BY <2>5
  <2>7. main' \in Mains /\ main'.waiters = longer
    <3>1. main' = [main EXCEPT !.child = TRUE, !.waiters = longer]
      BY <2>1, <2>6
    <3> QED BY <1>1, <3>1 DEF Mains
  <2>8. /\ request' \in [Requests -> {"idle", "pinning", "sent"} \union Outcomes]
        /\ \A x \in Requests : request'[x] = IF x = r THEN "pinning" ELSE request[x]
    BY <1>1, <2>1
  <2>9. Waiting'
    <3>1. r \notin ToSet(main.waiters)
      BY <1>1 DEF TaskInv, Waiting
    <3> QED BY <2>5, <2>6, <2>7, <2>8, <3>1 DEF TaskInv, Waiting
  <2>10. Sent \subseteq Sent' /\ Asked(commands) \subseteq Sent'
    BY <1>1, <2>2, <2>8 DEF Sent
  <2> QED BY <1>1, <2>3, <2>4, <2>7, <2>8, <2>9, <2>10, MainSteps
<1> QED BY <1>2, <1>3

\* Every held request goes out, and none is held any more.
LEMMA Woken ==
  ASSUME TaskInv, request' = [x \in Requests |-> IF request[x] = "pinning" THEN "sent" ELSE request[x]],
         main'.waiters = <<>>
  PROVE  /\ request' \in [Requests -> {"idle", "pinning", "sent"} \union Outcomes]
         /\ Waiting' /\ Sent \subseteq Sent' /\ ToSet(main.waiters) \intersect Requests \subseteq Sent'
         /\ ToSet(main.waiters) \intersect Sent = {}
<1>1. request \in [Requests -> {"idle", "pinning", "sent"} \union Outcomes]
  BY DEF TaskInv, Typed
<1>2. \A x \in Requests : request'[x] = IF request[x] = "pinning" THEN "sent" ELSE request[x]
  OBVIOUS
<1>3. Waiting'
  BY <1>2, NoneHeld DEF Waiting
<1>4. Sent \subseteq Sent' /\ ToSet(main.waiters) \intersect Requests \subseteq Sent'
  BY <1>2 DEF TaskInv, Waiting, Sent
<1>5. ToSet(main.waiters) \intersect Sent = {}
  BY DEF TaskInv, Waiting, Sent
<1> QED BY <1>1, <1>3, <1>4, <1>5

LEMMA TimeoutStep ==
  ASSUME TaskInv, PinTimeout
  PROVE  TaskInv'
<1>1. /\ main \in Mains /\ main.waiters \in Seq(Requests) /\ IsInjective(main.waiters)
      /\ toMain \in Seq(Says \union {Exit})
      /\ faults.cancelled \in SUBSET Requests /\ faults' = faults /\ faults \in Faults /\ landed' = landed
  BY DEF PinTimeout, TaskInv, Typed, Mains, Waiting, Faults
<1>2. PICK asks \in Seq(Commands) :
        /\ asks = [i \in DOMAIN main.waiters |-> Ask(main.waiters[i])]
        /\ OnceEach(asks) /\ KnownCancels(asks, faults.cancelled)
        /\ Asked(asks) = ToSet(main.waiters)
  BY <1>1, HeldAsks
<1> DEFINE seeds == [type |-> "useSeedNodes"]
<1>3. seeds \in Commands /\ seeds.type = "useSeedNodes" /\ \A r \in Requests : seeds # Ask(r)
  BY AskIsCommand DEF Commands, Ask
<1>4. PICK pre \in Seq(Commands) :
        /\ pre = <<seeds>> /\ OnceEach(pre) /\ KnownCancels(pre, faults.cancelled)
        /\ Asked(pre) = {}
  <2> HIDE DEF seeds
  <2>1. /\ <<seeds>> \in Seq(Commands) /\ OnceEach(<<seeds>>)
        /\ KnownCancels(<<seeds>>, faults.cancelled)
        /\ \A r \in Asked(<<seeds>>) : seeds = Ask(r)
    BY <1>3, OneCommand
  <2>2. Asked(<<seeds>>) = {}
    BY <1>3, <2>1 DEF Asked
  <2> QED BY <2>1, <2>2
<1>5. PICK commands \in Seq(Commands) :
        /\ commands = pre \o asks /\ OnceEach(commands)
        /\ KnownCancels(commands, faults.cancelled)
        /\ Asked(commands) \subseteq ToSet(main.waiters)
  <2>1. Asked(pre) \intersect Asked(asks) = {}
    BY <1>4
  <2>2. /\ pre \o asks \in Seq(Commands) /\ OnceEach(pre \o asks)
        /\ KnownCancels(pre \o asks, faults.cancelled)
        /\ Asked(pre \o asks) \subseteq Asked(pre) \union Asked(asks)
    BY <1>2, <1>4, <2>1, Behind
  <2> QED BY <1>2, <1>4, <2>2
<1>6. /\ Send(commands)
      /\ request' = [r \in Requests |-> IF request[r] = "pinning" THEN "sent" ELSE request[r]]
      /\ main' = [main EXCEPT !.child = TRUE, !.pinned = TRUE, !.waiters = <<>>]
  BY <1>2, <1>4, <1>5 DEF PinTimeout, Wake
<1>7. main' \in Mains /\ main'.waiters = <<>>
  <2> DEFINE none == <<>>
  <2>1. none \in Seq(Requests) /\ main' = [main EXCEPT !.child = TRUE, !.pinned = TRUE, !.waiters = none]
    BY <1>6
  <2> HIDE DEF none
  <2>2. main' \in Mains /\ main'.waiters = none
    BY <1>1, <2>1 DEF Mains
  <2> QED BY <2>2 DEF none
<1>8. /\ request' \in [Requests -> {"idle", "pinning", "sent"} \union Outcomes]
      /\ Waiting' /\ Sent \subseteq Sent' /\ ToSet(main.waiters) \intersect Requests \subseteq Sent'
      /\ ToSet(main.waiters) \intersect Sent = {}
  BY <1>6, <1>7, Woken
<1>9. /\ Asked(commands) \subseteq Sent' /\ Asked(commands) \intersect Sent = {}
  <2>1. Asked(commands) \subseteq Requests
    BY DEF Asked
  <2> QED BY <1>5, <1>8, <2>1
<1>10. /\ Sound(child', faults.cancelled) /\ child'.out = <<>>
       /\ toChild' \in Seq(Commands) /\ toMain' = toMain
       /\ OnceEach(toChild') /\ KnownCancels(toChild', faults.cancelled)
       /\ Asked(toChild') \subseteq Asked(toChild) \union Asked(commands)
       /\ \A x \in Requests : Works(child', x) => Works(child, x)
  BY <1>1, <1>5, <1>6, <1>9, Sends
<1> QED BY <1>1, <1>7, <1>8, <1>9, <1>10, MainSteps

LEMMA CancelStep ==
  ASSUME TaskInv, NEW r \in Requests, Cancel(r)
  PROVE  TaskInv'
<1> DEFINE cancel == [type |-> "cancel", request |-> r]
<1>1. /\ request[r] = "sent" /\ main \in Mains /\ toMain \in Seq(Says \union {Exit})
      /\ request \in [Requests -> {"idle", "pinning", "sent"} \union Outcomes]
      /\ faults \in Faults /\ main' = [main EXCEPT !.child = TRUE]
      /\ request' = request /\ landed' = landed /\ Send(<<cancel>>)
  BY DEF Cancel, TaskInv, Typed
<1>2. PICK more \in SUBSET Requests : more = faults.cancelled \union {r}
  BY <1>1 DEF Faults
<1>3. faults' \in Faults /\ faults'.cancelled = more
  <2>1. faults' = [faults EXCEPT !.cancelled = more]
    BY <1>2 DEF Cancel
  <2> QED BY <1>1, <2>1 DEF Faults
<1>4. cancel \in Commands /\ cancel.request = r /\ \A x \in Requests : cancel # Ask(x)
  BY AskIsCommand DEF Commands, Ask
<1>5. PICK commands \in Seq(Commands) :
        /\ commands = <<cancel>> /\ OnceEach(commands) /\ KnownCancels(commands, more)
        /\ Asked(commands) = {}
  <2> HIDE DEF cancel
  <2>1. /\ <<cancel>> \in Seq(Commands) /\ OnceEach(<<cancel>>) /\ KnownCancels(<<cancel>>, more)
        /\ \A x \in Asked(<<cancel>>) : cancel = Ask(x)
    BY <1>2, <1>4, OneCommand
  <2>2. Asked(<<cancel>>) = {}
    BY <1>4, <2>1 DEF Asked
  <2> QED BY <2>1, <2>2
<1> HIDE DEF cancel
<1>6. Asked(commands) \intersect Sent = {} /\ Asked(commands) \subseteq Sent'
  BY <1>5
<1>7. /\ Sound(child', more) /\ child'.out = <<>>
      /\ toChild' \in Seq(Commands) /\ toMain' = toMain
      /\ OnceEach(toChild') /\ KnownCancels(toChild', more)
      /\ Asked(toChild') \subseteq Asked(toChild) \union Asked(commands)
      /\ \A x \in Requests : Works(child', x) => Works(child, x)
  BY <1>1, <1>2, <1>5, <1>6, Sends
<1>8. main' \in Mains /\ main'.waiters = main.waiters
  BY <1>1 DEF Mains
<1>9. Waiting' /\ Sent' = Sent
  BY <1>1, <1>8 DEF TaskInv, Waiting, Sent
<1> QED BY <1>1, <1>3, <1>6, <1>7, <1>8, <1>9, MainSteps

\* A command posted to a child that lives asks for nothing.
LEMMA PostSteps ==
  ASSUME TaskInv, NEW command \in Commands, command.type \notin {"request", "cancel"},
         Post(command), main' \in Mains, main'.waiters = main.waiters,
         UNCHANGED <<request, landed, faults>>
  PROVE  TaskInv'
<1>1. /\ toChild \in Seq(Commands) /\ OnceEach(toChild)
      /\ KnownCancels(toChild, faults.cancelled) /\ toMain \in Seq(Says \union {Exit})
      /\ request \in [Requests -> {"idle", "pinning", "sent"} \union Outcomes]
      /\ faults \in Faults /\ faults.cancelled \in SUBSET Requests
      /\ Sound(child, faults.cancelled) /\ child.out = <<>>
  BY DEF TaskInv, Typed, Carried, Faults
<1>2. \A x \in Requests : command # Ask(x)
  BY AskIsCommand
<1>3. PICK commands \in Seq(Commands) :
        /\ commands = <<command>> /\ OnceEach(commands)
        /\ KnownCancels(commands, faults.cancelled) /\ Asked(commands) = {}
  <2>1. /\ <<command>> \in Seq(Commands) /\ OnceEach(<<command>>)
        /\ KnownCancels(<<command>>, faults.cancelled)
        /\ \A x \in Asked(<<command>>) : command = Ask(x)
    BY OneCommand
  <2>2. Asked(<<command>>) = {}
    BY <1>2, <2>1 DEF Asked
  <2> QED BY <2>1, <2>2
<1>4. /\ toChild \o commands \in Seq(Commands) /\ OnceEach(toChild \o commands)
      /\ KnownCancels(toChild \o commands, faults.cancelled)
      /\ Asked(toChild \o commands) \subseteq Asked(toChild)
  <2>1. Asked(toChild) \intersect Asked(commands) = {}
    BY <1>3
  <2>2. /\ toChild \o commands \in Seq(Commands) /\ OnceEach(toChild \o commands)
        /\ KnownCancels(toChild \o commands, faults.cancelled)
        /\ Asked(toChild \o commands) \subseteq Asked(toChild) \union Asked(commands)
    BY <1>1, <1>3, <2>1, Behind
  <2> QED BY <1>3, <2>2
<1>5. Append(toChild, command) = toChild \o commands
  <2>1. \A q \in Seq(Commands) : Append(q, command) = q \o <<command>>
    OBVIOUS
  <2> QED BY <1>1, <1>3, <2>1
<1>6. /\ toChild' \in Seq(Commands) /\ OnceEach(toChild')
      /\ KnownCancels(toChild', faults.cancelled) /\ Asked(toChild') \subseteq Asked(toChild)
      /\ child' = child /\ toMain' = toMain
  BY <1>1, <1>4, <1>5 DEF Post
<1>7. Waiting' /\ Sent' = Sent
  BY DEF TaskInv, Waiting, Sent
<1> DEFINE none == {}
<1>8. none \intersect Sent = {} /\ none \subseteq Sent' /\ Asked(toChild') \subseteq Asked(toChild) \union none
  BY <1>6
<1> HIDE DEF none
<1>9. \A x \in Requests : Works(child', x) => Works(child, x)
  BY <1>6
<1> QED BY <1>1, <1>6, <1>7, <1>8, <1>9, MainSteps

LEMMA ListStep == ASSUME TaskInv, NewEvonodeList PROVE TaskInv'
<1>1. main \in Mains /\ main' = [main EXCEPT !.list = main.list + 1]
  BY DEF TaskInv, Typed, NewEvonodeList
<1>2. main' \in Mains /\ main'.waiters = main.waiters /\ main.list + 1 \in Nat
  BY <1>1 DEF Mains
<1>3. PICK command \in Commands : command = [type |-> "setEvonodeDapiUrls", list |-> main.list + 1]
  BY <1>2 DEF Commands
<1>4. command.type = "setEvonodeDapiUrls"
  BY <1>3
<1> QED BY <1>2, <1>3, <1>4, PostSteps DEF NewEvonodeList

LEMMA ReloadStep == ASSUME TaskInv, ReloadDapi PROVE TaskInv'
<1>1. main \in Mains /\ main' = [main EXCEPT !.reload = FALSE]
  BY DEF TaskInv, Typed, ReloadDapi
<1>2. main' \in Mains /\ main'.waiters = main.waiters /\ main.mode \in Modes
  BY <1>1 DEF Mains
<1>3. PICK command \in Commands : command = [type |-> "setDapi", mode |-> main.mode]
  BY <1>2 DEF Commands
<1>4. command.type = "setDapi"
  BY <1>3
<1> QED BY <1>2, <1>3, <1>4, PostSteps DEF ReloadDapi

LEMMA ApplyStep == ASSUME TaskInv, ApplyDapi PROVE TaskInv'
<1>1. /\ main \in Mains /\ faults \in Faults
      /\ faults' = [faults EXCEPT !.switches = faults.switches + 1]
      /\ main' = [main EXCEPT !.mode = IF main.mode = "static" THEN "dynamic" ELSE "static",
                              !.reload = TRUE]
      /\ UNCHANGED <<request, child, toChild, toMain, landed>>
  BY DEF TaskInv, Typed, ApplyDapi
<1>2. main' \in Mains /\ main'.waiters = main.waiters
  BY <1>1 DEF Mains, Modes
<1>3. faults' \in Faults /\ faults'.cancelled = faults.cancelled
  BY <1>1 DEF Faults
<1>4. Typed' /\ Waiting' /\ Carried'
  <2>1. Typed'
    BY <1>1, <1>2, <1>3 DEF TaskInv, Typed
  <2>2. Waiting'
    BY <1>1, <1>2 DEF TaskInv, Waiting
  <2>3. Carried'
    <3>1. Sent' = Sent
      BY <1>1 DEF Sent
    <3> QED BY <1>1, <1>3, <3>1 DEF TaskInv, Carried, Asked
  <2> QED BY <2>1, <2>2, <2>3
<1> QED BY <1>1, <1>3, <1>4 DEF TaskInv

LEMMA ReceiveStep == ASSUME TaskInv, MainReceives PROVE TaskInv'
<1>1. /\ toMain \in Seq(Says \union {Exit}) /\ toMain # <<>>
      /\ main \in Mains /\ main.waiters \in Seq(Requests) /\ IsInjective(main.waiters)
      /\ request \in [Requests -> {"idle", "pinning", "sent"} \union Outcomes]
      /\ toChild \in Seq(Commands) /\ OnceEach(toChild)
      /\ KnownCancels(toChild, faults.cancelled)
      /\ Sound(child, faults.cancelled) /\ child.out = <<>>
      /\ faults \in Faults /\ faults.cancelled \in SUBSET Requests
      /\ faults' = faults /\ landed' = landed
  BY DEF MainReceives, TaskInv, Typed, Mains, Waiting, Carried, Faults
<1> DEFINE none == {}
<1>2. none \intersect Sent = {} /\ none \subseteq Sent' /\ Asked(toChild) \subseteq Asked(toChild) \union none
  OBVIOUS
<1> HIDE DEF none
<1>3. Tail(toMain) \in Seq(Says \union {Exit}) /\ Head(toMain) \in Says \union {Exit}
  BY <1>1, Tailed
<1>4. CASE Head(toMain).type = "exit"
  <2>1. /\ main' = [main EXCEPT !.child = FALSE, !.pinned = FALSE]
        /\ request' = [r \in Requests |-> IF request[r] = "sent" THEN "failed" ELSE request[r]]
        /\ toMain' = Tail(toMain) /\ UNCHANGED <<child, toChild>>
    BY <1>4 DEF MainReceives, ChildExited
  <2>2. main' \in Mains /\ main'.waiters = main.waiters
    BY <1>1, <2>1 DEF Mains
  <2>3. /\ request' \in [Requests -> {"idle", "pinning", "sent"} \union Outcomes]
        /\ \A x \in Requests : request'[x] = IF request[x] = "sent" THEN "failed" ELSE request[x]
    BY <1>1, <2>1 DEF Outcomes
  <2>4. Waiting' /\ Sent \subseteq Sent'
    BY <2>2, <2>3 DEF TaskInv, Waiting, Sent
  <2> QED BY <1>1, <1>2, <1>3, <2>1, <2>2, <2>3, <2>4, MainSteps
<1>5. CASE Head(toMain).type = "response"
  <2>1. PICK event : event = Head(toMain)
    OBVIOUS
  <2>2. event.request \in Requests /\ event.outcome \in Outcomes
    BY <1>3, <1>5, <2>1 DEF Says, Responses, Exit
  <2>3. /\ request' = [request EXCEPT ![event.request] =
                         IF request[event.request] = "sent" THEN event.outcome ELSE request[event.request]]
        /\ toMain' = Tail(toMain) /\ UNCHANGED <<main, child, toChild>>
    BY <1>5, <2>1 DEF MainReceives, Responded
  <2>4. /\ request' \in [Requests -> {"idle", "pinning", "sent"} \union Outcomes]
        /\ \A x \in Requests : request'[x] = request[x] \/ (request[x] = "sent" /\ request'[x] \in Outcomes)
    BY <1>1, <2>2, <2>3
  <2>5. Waiting' /\ Sent \subseteq Sent'
    BY <2>3, <2>4 DEF TaskInv, Waiting, Sent, Outcomes
  <2> QED BY <1>1, <1>2, <1>3, <2>3, <2>4, <2>5, MainSteps
<1>6. CASE Head(toMain).type = "pinned"
  <2>1. PICK asks \in Seq(Commands) :
          /\ asks = [i \in DOMAIN main.waiters |-> Ask(main.waiters[i])]
          /\ OnceEach(asks) /\ KnownCancels(asks, faults.cancelled)
          /\ Asked(asks) = ToSet(main.waiters)
    BY <1>1, HeldAsks
  <2>2. /\ toChild' = IF child.up THEN toChild \o asks ELSE toChild
        /\ toMain' = Tail(toMain) /\ child' = child
        /\ request' = [r \in Requests |-> IF request[r] = "pinning" THEN "sent" ELSE request[r]]
        /\ main' = [main EXCEPT !.pinned = TRUE, !.waiters = <<>>]
    BY <1>6, <2>1 DEF MainReceives, Pinned
  <2>3. main' \in Mains /\ main'.waiters = <<>>
    <3> DEFINE nobody == <<>>
    <3>1. nobody \in Seq(Requests) /\ main' = [main EXCEPT !.pinned = TRUE, !.waiters = nobody]
      BY <2>2
    <3> HIDE DEF nobody
    <3>2. main' \in Mains /\ main'.waiters = nobody
      BY <1>1, <3>1 DEF Mains
    <3> QED BY <3>2 DEF nobody
  <2>4. /\ request' \in [Requests -> {"idle", "pinning", "sent"} \union Outcomes]
        /\ Waiting' /\ Sent \subseteq Sent' /\ ToSet(main.waiters) \intersect Requests \subseteq Sent'
        /\ ToSet(main.waiters) \intersect Sent = {}
    BY <2>2, <2>3, Woken
  <2>5. /\ Asked(asks) \subseteq Sent' /\ Asked(asks) \intersect Sent = {}
        /\ Asked(toChild) \subseteq Sent
    <3>1. Asked(asks) \subseteq Requests
      BY DEF Asked
    <3> QED BY <2>1, <2>4, <3>1 DEF TaskInv, Carried
  <2>6. /\ toChild \o asks \in Seq(Commands) /\ OnceEach(toChild \o asks)
        /\ KnownCancels(toChild \o asks, faults.cancelled)
        /\ Asked(toChild \o asks) \subseteq Asked(toChild) \union Asked(asks)
    <3>1. Asked(toChild) \intersect Asked(asks) = {}
      BY <2>5
    <3> QED BY <1>1, <2>1, <3>1, Behind
  <2>7. /\ toChild' \in Seq(Commands) /\ OnceEach(toChild')
        /\ KnownCancels(toChild', faults.cancelled)
        /\ Asked(toChild') \subseteq Asked(toChild) \union Asked(asks)
    BY <1>1, <2>2, <2>6
  <2>8. \A x \in Requests : Works(child', x) => Works(child, x)
    BY <2>2
  <2> QED BY <1>1, <1>3, <2>2, <2>3, <2>4, <2>5, <2>7, <2>8, MainSteps
<1>7. Head(toMain).type \in {"exit", "response", "pinned"}
  BY <1>3 DEF Says, Responses, Exit
<1> QED BY <1>4, <1>5, <1>6, <1>7

LEMMA CommandStep == ASSUME TaskInv, ChildReceives PROVE TaskInv'
<1>1. /\ toChild \in Seq(Commands) /\ toChild # <<>> /\ OnceEach(toChild)
      /\ KnownCancels(toChild, faults.cancelled) /\ Sound(child, faults.cancelled)
      /\ toMain \in Seq(Says \union {Exit})
      /\ toChild' = Tail(toChild) /\ ChildBecomes(Handled(child, Head(toChild)))
      /\ UNCHANGED <<main, request, landed, faults>>
  BY DEF ChildReceives, TaskInv, Typed, Carried
<1>2. PICK command : command = Head(toChild)
  OBVIOUS
<1>3. /\ Tail(toChild) \in Seq(Commands) /\ command \in Commands
      /\ OnceEach(Tail(toChild)) /\ KnownCancels(Tail(toChild), faults.cancelled)
      /\ Asked(Tail(toChild)) \subseteq Asked(toChild)
      /\ command.type = "cancel" => command.request \in faults.cancelled
      /\ command.type = "request" => /\ command.request \in Asked(toChild)
                                     /\ command.request \notin Asked(Tail(toChild))
  BY <1>1, <1>2, HeadLeaves
<1>4. command.type = "request" => ~Works(child, command.request)
  BY <1>3 DEF TaskInv, Carried
<1>5. PICK c : c = Handled(child, command)
  OBVIOUS
<1>6. /\ Sound(c, faults.cancelled)
      /\ \A r \in Requests : Works(c, r) => Works(child, r) \/ command = Ask(r)
  BY <1>1, <1>3, <1>4, <1>5, Handles
<1>7. /\ Sound(child', faults.cancelled) /\ child'.out = <<>>
      /\ toMain' \in Seq(Says \union {Exit})
      /\ \A r : Works(child', r) <=> Works(c, r)
  BY <1>1, <1>2, <1>5, <1>6, Became
<1>8. \A r \in Requests : command = Ask(r) => r \in Asked(toChild) /\ r \notin Asked(toChild')
  BY <1>1, <1>3, AskIsCommand
<1>9. Typed' /\ Waiting'
  BY <1>1, <1>3, <1>7 DEF TaskInv, Typed, Waiting
<1>10. Carried'
  <2>1. Sent' = Sent
    BY <1>1 DEF Sent
  <2>2. \A r \in Asked(toChild') : r \in Sent' /\ ~Works(child', r)
    <3>1. \A r \in Asked(toChild') : r \in Requests
      BY DEF Asked
    <3> QED BY <1>1, <1>3, <1>6, <1>7, <1>8, <2>1, <3>1 DEF TaskInv, Carried
  <2>3. \A r \in Requests : Works(child', r) => r \in Sent'
    BY <1>6, <1>7, <1>8, <2>1 DEF TaskInv, Carried
  <2> QED BY <1>1, <1>3, <2>2, <2>3 DEF Carried
<1> QED BY <1>1, <1>7, <1>9, <1>10 DEF TaskInv

LEMMA EndStep ==
  ASSUME TaskInv, NEW r \in Requests,
         TaskSucceeds(r) \/ \E banned, unheard \in BOOLEAN : TaskFails(r, banned, unheard)
  PROVE  TaskInv'
<1>1. /\ r \in DOMAIN child.running /\ child \in Children /\ Sound(child, faults.cancelled)
      /\ faults \in Faults /\ landed \subseteq Transitions
  BY DEF TaskSucceeds, TaskFails, TaskInv, Typed, Sound, Settling
<1>2. Leads(child, r) /\ Works(child, r)
  <2>1. Leads(child, r)
    BY <1>1 DEF Sound, Settling, Orderly
  <2>2. LaneOf[r] # NoLane => r \in ToSet(child.lanes[LaneOf[r]])
    <3>1. LaneOf[r] # NoLane => child.lanes[LaneOf[r]] \in Seq(Requests)
      BY <1>1, LanesOfRequests DEF Children
    <3>2. \A q \in Seq(Requests) : q # <<>> => Head(q) \in ToSet(q)
      BY Tailed
    <3> QED BY <2>1, <3>1, <3>2 DEF Leads
  <2> QED BY <1>1, <2>1, <2>2 DEF Works
<1>3. CASE TaskSucceeds(r)
  <2>1. PICK c : c = Settle(child, r, "ok")
    OBVIOUS
  <2>2. "ok" \in Outcomes
    BY DEF Outcomes
  <2>3. Sound(c, faults.cancelled) /\ \A x \in Requests : Works(c, x) => Works(child, x)
    BY <1>1, <1>2, <2>1, <2>2, Settles
  <2>4. /\ ChildBecomes(c) /\ UNCHANGED <<main, request, toChild, landed, faults>>
    BY <1>3, <2>1 DEF TaskSucceeds
  <2> QED BY <1>1, <2>3, <2>4, ChildSteps
<1>4. ASSUME NEW banned \in BOOLEAN, NEW unheard \in BOOLEAN, TaskFails(r, banned, unheard)
      PROVE  TaskInv'
  <2>1. PICK b : b = IF banned THEN RefillBannedPool(child) ELSE child
    OBVIOUS
  <2>2. b \in Children /\ SameTasks(child, b)
    BY <1>1, <2>1, EvonodeSteps DEF SameTasks
  <2>3. Sound(b, faults.cancelled) /\ (\A x : Works(b, x) <=> Works(child, x)) /\ Leads(b, r)
    BY <1>1, <1>2, <2>2, EvonodesKept DEF Leads, SameTasks
  <2>4. PICK outcome \in Outcomes : outcome = IF r \in landed THEN "uncertain" ELSE "failed"
    BY DEF Outcomes
  <2>5. PICK c : c = Settle(b, r, outcome)
    OBVIOUS
  <2>6. Sound(c, faults.cancelled) /\ \A x \in Requests : Works(c, x) => Works(child, x)
    BY <1>2, <2>3, <2>5, Settles
  <2>7. ChildBecomes(c) /\ UNCHANGED <<main, request, toChild>>
    BY <1>4, <2>1, <2>4, <2>5 DEF TaskFails
  <2>8. landed' \subseteq Transitions
    BY <1>1, <1>4 DEF TaskFails
  <2>9. faults' \in Faults /\ faults'.cancelled = faults.cancelled
    <3>1. faults' = [faults EXCEPT !.failures = IF banned THEN faults.failures + 1 ELSE faults.failures]
      BY <1>4 DEF TaskFails
    <3> QED BY <1>1, <3>1 DEF Faults
  <2> QED BY <2>6, <2>7, <2>8, <2>9, ChildSteps
<1> QED BY <1>3, <1>4

\* What the end of a warm-up makes of a child.
Ready(c) == SetProver(WithSdk([c EXCEPT !.warming = FALSE, !.builder = TRUE]), "ready")
Refused(c) == SetProver([c EXCEPT !.warming = FALSE], "error")
Heads(c) == IF PROVER_LANE \in Lanes THEN c.lanes[PROVER_LANE] ELSE <<>>

LEMMA BecomesReady ==
  ASSUME NEW cancelled, NEW c, Sound(c, cancelled)
  PROVE  /\ Sound(Ready(c), cancelled) /\ OnlyTasks(c, Ready(c)) /\ Ready(c).builder
         /\ Ready(c).lanes = c.lanes /\ Ready(c).running = c.running
<1>1. PICK a : a = [c EXCEPT !.warming = FALSE, !.builder = TRUE]
  OBVIOUS
<1>2. /\ a \in Children /\ a.builder = TRUE /\ a.warming = FALSE /\ a.lanes = c.lanes
      /\ a.running = c.running /\ a.inFlight = c.inFlight /\ a.status = c.status
      /\ a.out = c.out /\ a.sdk = c.sdk /\ SameEvonodes(c, a)
  BY <1>1 DEF Sound, Settling, Children, SameEvonodes
<1>3. PICK b : b = WithSdk(a)
  OBVIOUS
<1>4. /\ b \in Children /\ SameTasks(a, b) /\ SameEvonodes(a, b) /\ b.out = a.out
      /\ Fresh(a) => b.sdk = FreshSdk(a)
  BY <1>2, <1>3, GetsSdk
<1>5. PICK d : d = [b EXCEPT !.status.prover = "ready"]
  OBVIOUS
<1>6. /\ d \in Children /\ d.builder = b.builder /\ d.warming = b.warming /\ d.lanes = b.lanes
      /\ d.running = b.running /\ d.inFlight = b.inFlight /\ d.status.prover = "ready"
      /\ d.out = b.out /\ d.sdk = b.sdk /\ SameEvonodes(b, d)
  BY <1>4, <1>5 DEF Children, SameEvonodes, Provers
<1>7. /\ d.builder = TRUE /\ d.warming = FALSE /\ d.lanes = c.lanes /\ d.running = c.running
      /\ d.inFlight = c.inFlight
  BY <1>2, <1>4, <1>6 DEF SameTasks
<1>8. (\A r : Works(d, r) <=> Works(c, r)) /\ Orderly(d)
  BY <1>7, Same DEF Sound, Settling
<1>9. Keyed(d) /\ Answers(d, cancelled)
  BY <1>6, <1>7, <1>8 DEF Keyed, Answers, Sound, Settling
<1>10. OnlyTasks(c, d)
  <2>1. SameEvonodes(c, d) /\ FreshSdk(d) = FreshSdk(c) /\ FreshSdk(a) = FreshSdk(c) /\ a.sdk = c.sdk
    BY <1>2, <1>4, <1>6 DEF SameEvonodes, FreshSdk
  <2>2. Fresh(c) => Fresh(d)
    BY <1>4, <1>6, <2>1 DEF Fresh
  <2> QED BY <1>2, <1>4, <1>6, <1>7, <2>1, <2>2 DEF OnlyTasks
<1>11. Settling(d, cancelled)
  BY <1>6, <1>8, <1>9 DEF Settling
<1>12. Ready(c) = Publish(d)
  BY <1>1, <1>3, <1>5 DEF Ready, SetProver
<1>13. /\ Sound(Publish(d), cancelled) /\ OnlyTasks(d, Publish(d))
       /\ Publish(d).lanes = d.lanes /\ Publish(d).running = d.running
       /\ Publish(d).builder = d.builder
  BY <1>11, Publishes
<1> QED BY <1>7, <1>10, <1>12, <1>13, Transitive

LEMMA BecomesRefused ==
  ASSUME NEW cancelled, NEW c, Sound(c, cancelled), c.warming
  PROVE  /\ Sound(Refused(c), cancelled) /\ OnlyTasks(c, Refused(c))
         /\ Refused(c).lanes = c.lanes /\ Refused(c).running = c.running
<1>1. PICK a : a = [c EXCEPT !.warming = FALSE]
  OBVIOUS
<1>2. PICK d : d = [a EXCEPT !.status.prover = "error"]
  OBVIOUS
<1>3. /\ d \in Children /\ d.builder = c.builder /\ d.warming = FALSE /\ d.lanes = c.lanes
      /\ d.running = c.running /\ d.inFlight = c.inFlight /\ d.status.prover = "error"
      /\ d.out = c.out /\ d.sdk = c.sdk /\ SameEvonodes(c, d)
  BY <1>1, <1>2 DEF Sound, Settling, Children, SameEvonodes, Provers
<1>4. (\A r : Works(d, r) <=> Works(c, r)) /\ Orderly(d)
  BY <1>3, Same DEF Sound, Settling
<1>5. Keyed(d) /\ Answers(d, cancelled)
  BY <1>3, <1>4 DEF Keyed, Answers, Sound, Settling
<1>6. OnlyTasks(c, d)
  BY <1>3 DEF OnlyTasks, SameEvonodes, Fresh, FreshSdk
<1>7. Settling(d, cancelled)
  BY <1>3, <1>4, <1>5 DEF Settling
<1>8. Refused(c) = Publish(d)
  BY <1>1, <1>2 DEF Refused, SetProver
<1>9. /\ Sound(Publish(d), cancelled) /\ OnlyTasks(d, Publish(d))
      /\ Publish(d).lanes = d.lanes /\ Publish(d).running = d.running
  BY <1>7, Publishes
<1> QED BY <1>3, <1>6, <1>8, <1>9, Transitive

\* The prover task that waits for the key is the head of its lane.
LEMMA HeadWaits ==
  ASSUME NEW cancelled, NEW c, Sound(c, cancelled), Heads(c) # <<>>
  PROVE  /\ Head(Heads(c)) \in Requests /\ LaneOf[Head(Heads(c))] = PROVER_LANE
         /\ Leads(c, Head(Heads(c))) /\ Works(c, Head(Heads(c)))
<1>1. PROVER_LANE \in Lanes /\ Heads(c) = c.lanes[PROVER_LANE]
  BY DEF Heads
<1>2. PICK q \in Seq(Requests) : q = c.lanes[PROVER_LANE]
  BY <1>1 DEF Sound, Settling, Children
<1>3. q # <<>> /\ Head(q) \in Requests /\ Head(q) \in ToSet(q)
  BY <1>1, <1>2, Tailed
<1>4. LaneOf[Head(q)] = PROVER_LANE
  BY <1>1, <1>2, <1>3 DEF Sound, Settling, Orderly
<1> QED BY <1>1, <1>2, <1>3, <1>4, RequestsAssumption DEF Leads, Works

\* What WarmedUp and WarmupFails make of the child.
LEMMA WarmupEnds ==
  ASSUME NEW cancelled, NEW c, Sound(c, cancelled)
  PROVE  /\ LET d == IF Heads(Ready(c)) = <<>> THEN Ready(c)
                     ELSE Execute(Ready(c), Head(Heads(Ready(c))))
            IN /\ Sound(d, cancelled) /\ OnlyTasks(c, d)
               /\ \A x \in Requests : Works(d, x) => Works(c, x)
         /\ c.warming =>
              LET d == IF Heads(Refused(c)) = <<>> THEN Refused(c)
                       ELSE Settle(Refused(c), Head(Heads(Refused(c))), "failed")
              IN /\ Sound(d, cancelled) /\ OnlyTasks(c, d)
                 /\ \A x \in Requests : Works(d, x) => Works(c, x)
<1>1. PICK e : e = Ready(c)
  OBVIOUS
<1>2. /\ Sound(e, cancelled) /\ OnlyTasks(c, e) /\ e.builder
      /\ \A x : Works(e, x) <=> Works(c, x)
  <2>1. /\ Sound(e, cancelled) /\ OnlyTasks(c, e) /\ e.builder
        /\ e.lanes = c.lanes /\ e.running = c.running
    BY <1>1, BecomesReady
  <2>2. \A x : Works(e, x) <=> Works(c, x)
    BY <2>1, Same
  <2> QED BY <2>1, <2>2
<1>3. Heads(e) = <<>> => Sound(e, cancelled) /\ OnlyTasks(c, e)
                         /\ \A x \in Requests : Works(e, x) => Works(c, x)
  BY <1>2
<1>4. ASSUME Heads(e) # <<>>
      PROVE  LET d == Execute(e, Head(Heads(e)))
             IN /\ Sound(d, cancelled) /\ OnlyTasks(c, d)
                /\ \A x \in Requests : Works(d, x) => Works(c, x)
  <2>1. PICK r \in Requests : /\ r = Head(Heads(e)) /\ LaneOf[r] = PROVER_LANE
                              /\ Leads(e, r) /\ Works(e, r)
    BY <1>2, <1>4, HeadWaits
  <2>2. LaneOf[r] # NoLane
    BY <2>1, RequestsAssumption
  <2>3. LaneOf[r] = PROVER_LANE => e.builder
    BY <1>2
  <2>4. Sound(e, cancelled) /\ Leads(e, r)
    BY <1>2, <2>1
  <2>5. PICK d : d = Execute(e, r)
    OBVIOUS
  <2>6. /\ Sound(d, cancelled) /\ OnlyTasks(e, d)
        /\ \A x \in Requests : Works(d, x) <=> Works(e, x)
    BY <2>2, <2>3, <2>4, <2>5, StartsHead
  <2>7. OnlyTasks(c, d)
    BY <1>2, <2>6, Transitive
  <2> QED BY <1>2, <2>1, <2>5, <2>6, <2>7
<1>5. ASSUME c.warming
      PROVE  LET d == IF Heads(Refused(c)) = <<>> THEN Refused(c)
                      ELSE Settle(Refused(c), Head(Heads(Refused(c))), "failed")
             IN /\ Sound(d, cancelled) /\ OnlyTasks(c, d)
                /\ \A x \in Requests : Works(d, x) => Works(c, x)
  <2>1. PICK f : f = Refused(c)
    OBVIOUS
  <2>2. /\ Sound(f, cancelled) /\ OnlyTasks(c, f) /\ \A x : Works(f, x) <=> Works(c, x)
    BY <1>5, <2>1, BecomesRefused, Same
  <2>3. CASE Heads(f) = <<>>
    BY <2>1, <2>2, <2>3
  <2>4. CASE Heads(f) # <<>>
    <3>1. PICK r \in Requests : r = Head(Heads(f)) /\ Leads(f, r) /\ Works(f, r)
      BY <2>2, <2>4, HeadWaits
    <3>2. PICK d : d = Settle(f, r, "failed")
      OBVIOUS
    <3>3. "failed" \in Outcomes
      BY DEF Outcomes
    <3>4. /\ Sound(d, cancelled) /\ OnlyTasks(f, d)
          /\ \A x \in Requests : Works(d, x) <=> Works(f, x) /\ x # r
      BY <2>2, <3>1, <3>2, <3>3, Settles
    <3>5. OnlyTasks(c, d)
      BY <2>2, <3>4, Transitive
    <3> QED BY <2>1, <2>2, <2>4, <3>1, <3>2, <3>4, <3>5
  <2> QED BY <2>3, <2>4
<1> QED BY <1>1, <1>3, <1>4, <1>5

LEMMA WarmupStep == ASSUME TaskInv, WarmedUp \/ WarmupFails PROVE TaskInv'
<1>1. Sound(child, faults.cancelled) /\ faults \in Faults /\ landed \subseteq Transitions
  BY DEF TaskInv, Typed
<1>2. CASE WarmedUp
  <2>1. PICK c : c = IF Heads(Ready(child)) = <<>> THEN Ready(child)
                     ELSE Execute(Ready(child), Head(Heads(Ready(child))))
    OBVIOUS
  <2>2. Sound(c, faults.cancelled) /\ \A x \in Requests : Works(c, x) => Works(child, x)
    BY <1>1, <2>1, WarmupEnds
  <2>3. ChildBecomes(c) /\ UNCHANGED <<main, request, toChild, landed, faults>>
    BY <1>2, <2>1 DEF WarmedUp, Ready, Heads
  <2> QED BY <1>1, <2>2, <2>3, ChildSteps
<1>3. CASE WarmupFails
  <2>1. PICK c : c = IF Heads(Refused(child)) = <<>> THEN Refused(child)
                     ELSE Settle(Refused(child), Head(Heads(Refused(child))), "failed")
    OBVIOUS
  <2>2. Sound(c, faults.cancelled) /\ \A x \in Requests : Works(c, x) => Works(child, x)
    BY <1>1, <1>3, <2>1, WarmupEnds DEF WarmupFails
  <2>3. ChildBecomes(c) /\ UNCHANGED <<main, request, toChild, landed>>
    BY <1>3, <2>1 DEF WarmupFails, Refused, Heads
  <2>4. faults' \in Faults /\ faults'.cancelled = faults.cancelled
    <3>1. faults' = [faults EXCEPT !.failures = faults.failures + 1]
      BY <1>3 DEF WarmupFails
    <3> QED BY <1>1, <3>1 DEF Faults
  <2> QED BY <1>1, <2>2, <2>3, <2>4, ChildSteps
<1> QED BY <1>2, <1>3

LEMMA ProbeStep ==
  ASSUME TaskInv, NEW probe \in child.probes,
         \/ \E over \in BOOLEAN : ProbePins(probe, over)
         \/ ProbeFails(probe)
  PROVE  TaskInv'
<1>1. /\ Sound(child, faults.cancelled) /\ child \in Children /\ faults \in Faults
      /\ landed \subseteq Transitions /\ child.out = <<>>
  BY DEF TaskInv, Typed, Sound, Settling
<1>2. probe \in Probes /\ probe.list \in Nat /\ child.probes \subseteq Probes
  <2>1. child.probes \subseteq Probes
    BY <1>1 DEF Children
  <2> QED BY <2>1 DEF Probes
<1>3. ASSUME NEW over \in BOOLEAN, ProbePins(probe, over)
      PROVE  TaskInv'
  <2>1. PICK probes : probes = (child.probes \ {probe})
                                 \union (IF over THEN {} ELSE {[probe EXCEPT !.some = TRUE]})
    OBVIOUS
  <2>2. [probe EXCEPT !.some = TRUE] \in Probes
    BY <1>2 DEF Probes
  <2>3. probes \subseteq Probes
    BY <1>2, <2>1, <2>2
  <2>4. PICK b : b = [child EXCEPT !.probes = probes]
    OBVIOUS
  <2>5. b \in Children /\ SameTasks(child, b)
    BY <1>1, <2>3, <2>4 DEF Children, SameTasks
  <2>6. PICK c : c = Pin(b, probe.list)
    OBVIOUS
  <2>7. c \in Children /\ SameTasks(b, c)
    BY <1>2, <2>5, <2>6, PinsList
  <2>8. Sound(c, faults.cancelled) /\ \A x : Works(c, x) <=> Works(child, x)
    <3>1. SameTasks(child, c)
      BY <2>5, <2>7 DEF SameTasks
    <3> QED BY <1>1, <2>7, <3>1, EvonodesKept
  <2>9. ChildBecomes(c) /\ UNCHANGED <<main, request, toChild, landed, faults>>
    BY <1>3, <2>1, <2>4, <2>6 DEF ProbePins
  <2> QED BY <1>1, <2>8, <2>9, ChildSteps
<1>4. CASE ProbeFails(probe)
  <2>1. PICK retries : retries = IF probe.list = child.list THEN child.retries \union {probe.list}
                                 ELSE child.retries
    OBVIOUS
  <2>2. PICK probes : probes = child.probes \ {probe}
    OBVIOUS
  <2>3. retries \in SUBSET Nat /\ probes \in SUBSET Probes
    BY <1>1, <1>2, <2>1, <2>2 DEF Children
  <2>4. child' = [child EXCEPT !.probes = probes, !.retries = retries]
    BY <1>4, <2>1, <2>2 DEF ProbeFails
  <2>5. child' \in Children /\ SameTasks(child, child') /\ child'.out = child.out
    BY <1>1, <2>3, <2>4 DEF Children, SameTasks
  <2>6. faults' \in Faults /\ faults'.cancelled = faults.cancelled
    <3>1. faults' = [faults EXCEPT !.failures = faults.failures + 1]
      BY <1>4 DEF ProbeFails
    <3> QED BY <1>1, <3>1 DEF Faults
  <2>7. UNCHANGED <<main, request, toChild, toMain, landed>>
    BY <1>4 DEF ProbeFails
  <2> QED BY <1>1, <2>5, <2>6, <2>7, EvonodesStep
<1> QED BY <1>3, <1>4

LEMMA RetryStep ==
  ASSUME TaskInv, \/ \E list \in child.retries : Reprobe(list)
                  \/ \E pins \in BOOLEAN : RefillEnds(pins)
  PROVE  TaskInv'
<1>1. /\ Sound(child, faults.cancelled) /\ child \in Children /\ faults \in Faults
      /\ landed \subseteq Transitions /\ child.out = <<>>
  BY DEF TaskInv, Typed, Sound, Settling
<1>2. ASSUME NEW list \in child.retries, Reprobe(list)
      PROVE  TaskInv'
  <2>1. PICK tried : tried = [child EXCEPT !.retries = child.retries \ {list}]
    OBVIOUS
  <2>2. /\ tried \in Children /\ SameTasks(child, tried) /\ tried.out = child.out /\ list \in Nat
    BY <1>1, <2>1 DEF Children, SameTasks
  <2>3. /\ Probe(tried, list) \in Children /\ SameTasks(tried, Probe(tried, list))
        /\ Probe(tried, list).out = tried.out
    <3>1. Probe(tried, list).out = tried.out
      BY <2>2 DEF Probe, Children
    <3> QED BY <2>2, <3>1, EvonodeSteps
  <2>4. child' = IF list = child.list THEN Probe(tried, list) ELSE tried
    BY <1>2, <2>1 DEF Reprobe
  <2>5. child' \in Children /\ SameTasks(child, child') /\ child'.out = <<>>
    BY <1>1, <2>2, <2>3, <2>4 DEF SameTasks
  <2>6. UNCHANGED <<main, request, toChild, toMain, landed, faults>>
    BY <1>2 DEF Reprobe
  <2> QED BY <1>1, <2>5, <2>6, EvonodesStep
<1>3. ASSUME NEW pins \in BOOLEAN, RefillEnds(pins)
      PROVE  TaskInv'
  <2>1. PICK over : over = [child EXCEPT !.refill = 0]
    OBVIOUS
  <2>2. over \in Children /\ SameTasks(child, over) /\ child.refill \in Nat
    BY <1>1, <2>1 DEF Children, SameTasks
  <2>3. PICK c : c = IF pins THEN Pin(over, child.refill) ELSE over
    OBVIOUS
  <2>4. c \in Children /\ SameTasks(child, c)
    BY <2>2, <2>3, PinsList DEF SameTasks
  <2>5. Sound(c, faults.cancelled) /\ \A x : Works(c, x) <=> Works(child, x)
    BY <1>1, <2>4, EvonodesKept
  <2>6. ChildBecomes(c) /\ UNCHANGED <<main, request, toChild, landed, faults>>
    BY <1>3, <2>1, <2>3 DEF RefillEnds
  <2> QED BY <1>1, <2>5, <2>6, ChildSteps
<1> QED BY <1>2, <1>3

LEMMA DeathStep == ASSUME TaskInv, ChildDies PROVE TaskInv'
<1>1. /\ child' = NoChild /\ toChild' = <<>> /\ toMain' = Append(toMain, Exit)
      /\ faults' = [faults EXCEPT !.exits = faults.exits + 1]
      /\ UNCHANGED <<main, request, landed>>
  BY DEF ChildDies, Exit
<1>2. /\ toMain \in Seq(Says \union {Exit}) /\ faults \in Faults
      /\ faults.cancelled \in SUBSET Requests
      /\ main \in Mains /\ request \in [Requests -> {"idle", "pinning", "sent"} \union Outcomes]
  BY DEF TaskInv, Typed, Faults
<1>3. toMain' \in Seq(Says \union {Exit})
  <2> DEFINE S == Says \union {Exit}
  <2>1. Exit \in S /\ toMain \in Seq(S)
    BY <1>2
  <2> HIDE DEF S
  <2>2. Append(toMain, Exit) \in Seq(S)
    BY <2>1, Appended
  <2>3. toMain' \in Seq(S)
    BY <1>1, <2>2
  <2> QED BY <2>3 DEF S
<1>4. faults' \in Faults /\ faults'.cancelled = faults.cancelled
  <2>1. faults \in Faults /\ faults' = [faults EXCEPT !.exits = faults.exits + 1]
    BY <1>1, <1>2
  <2> QED BY <2>1 DEF Faults
<1>5. /\ Sound(child', faults.cancelled) /\ child'.out = <<>>
      /\ \A x \in Requests : ~Works(child', x)
  BY <1>1, BootedSound
<1>6. /\ toChild' \in Seq(Commands) /\ OnceEach(toChild')
      /\ KnownCancels(toChild', faults.cancelled) /\ Asked(toChild') = {}
  BY <1>1, NoCommand
<1>7. Typed' /\ Waiting' /\ Carried'
  <2>1. Typed' /\ Waiting'
    BY <1>1, <1>3, <1>4, <1>5, <1>6 DEF TaskInv, Typed, Waiting
  <2>2. Carried'
    BY <1>4, <1>5, <1>6 DEF Carried
  <2> QED BY <2>1, <2>2
<1> QED BY <1>4, <1>5, <1>7 DEF TaskInv

LEMMA TaskInit == Init => TaskInv
<1> SUFFICES ASSUME Init PROVE TaskInv
  OBVIOUS
<1>1. /\ child = NoChild /\ toChild = <<>> /\ toMain = <<>> /\ landed = {}
      /\ request = [r \in Requests |-> "idle"]
      /\ main = [child |-> FALSE, pinned |-> FALSE, list |-> 0, mode |-> "dynamic",
                 reload |-> FALSE, waiters |-> <<>>]
      /\ faults = [exits |-> 0, switches |-> 0, failures |-> 0, cancelled |-> {}]
  BY DEF Init
<1>2. faults \in Faults /\ faults.cancelled = {}
  BY <1>1 DEF Faults
<1>3. main \in Mains /\ main.waiters = <<>>
  <2> DEFINE none == <<>>
  <2>1. none \in Seq(Requests)
    BY NoneHeld
  <2>2. main = [child |-> FALSE, pinned |-> FALSE, list |-> 0, mode |-> "dynamic",
                reload |-> FALSE, waiters |-> none]
    BY <1>1
  <2> HIDE DEF none
  <2>3. main \in Mains /\ main.waiters = none
    BY <2>1, <2>2 DEF Mains, Modes
  <2> QED BY <2>3 DEF none
<1>4. /\ Sound(child, faults.cancelled) /\ child.out = <<>>
      /\ \A r \in Requests : ~Works(child, r)
  BY <1>1, BootedSound
<1>5. /\ toChild \in Seq(Commands) /\ OnceEach(toChild)
      /\ KnownCancels(toChild, faults.cancelled) /\ Asked(toChild) = {}
  BY <1>1, NoCommand
<1>6. toMain \in Seq(Says \union {Exit})
  BY <1>1, NoneHeld
<1>7. \A r \in Requests : request[r] = "idle"
  BY <1>1
<1>8. request \in [Requests -> {"idle", "pinning", "sent"} \union Outcomes]
  BY <1>1
<1>9. Typed
  BY <1>1, <1>2, <1>3, <1>4, <1>5, <1>6, <1>8 DEF Typed
<1>10. Waiting
  BY <1>3, <1>7, NoneHeld DEF Waiting
<1>11. Carried
  BY <1>4, <1>5 DEF Carried
<1> QED BY <1>4, <1>9, <1>10, <1>11 DEF TaskInv

LEMMA TaskStep == TaskInv /\ [Next]_vars => TaskInv'
<1> SUFFICES ASSUME TaskInv, [Next]_vars PROVE TaskInv'
  OBVIOUS
<1>1. ASSUME NEW r \in Requests, Request(r) PROVE TaskInv'
  BY <1>1, RequestStep
<1>2. ASSUME NEW r \in Requests, Cancel(r) PROVE TaskInv'
  BY <1>2, CancelStep
<1>3. ASSUME NEW r \in Requests, Broadcasts(r) PROVE TaskInv'
  <2>1. /\ landed' \subseteq Transitions
        /\ UNCHANGED <<main, request, child, toChild, toMain, faults>>
    BY <1>3 DEF Broadcasts, TaskInv, Typed
  <2> QED BY <2>1 DEF TaskInv, Typed, Waiting, Carried, Sent
<1>4. ASSUME NEW r \in Requests,
             TaskSucceeds(r) \/ \E banned, unheard \in BOOLEAN : TaskFails(r, banned, unheard)
      PROVE  TaskInv'
  BY <1>4, EndStep
<1>5. CASE PinTimeout
  BY <1>5, TimeoutStep
<1>6. CASE NewEvonodeList
  BY <1>6, ListStep
<1>7. CASE ReloadDapi
  BY <1>7, ReloadStep
<1>8. CASE MainReceives
  BY <1>8, ReceiveStep
<1>9. CASE ApplyDapi
  BY <1>9, ApplyStep
<1>10. CASE ChildReceives
  BY <1>10, CommandStep
<1>11. CASE WarmedUp \/ WarmupFails
  BY <1>11, WarmupStep
<1>12. ASSUME NEW probe \in child.probes,
              (\E over \in BOOLEAN : ProbePins(probe, over)) \/ ProbeFails(probe)
       PROVE  TaskInv'
  BY <1>12, ProbeStep
<1>13. CASE (\E list \in child.retries : Reprobe(list)) \/ \E pins \in BOOLEAN : RefillEnds(pins)
  BY <1>13, RetryStep
<1>14. CASE ChildDies
  BY <1>14, DeathStep
<1>15. CASE UNCHANGED vars
  BY <1>15 DEF vars, TaskInv, Typed, Waiting, Carried, Sent
<1> QED BY <1>1, <1>2, <1>3, <1>4, <1>5, <1>6, <1>7, <1>8, <1>9, <1>10, <1>11, <1>12, <1>13, <1>14,
           <1>15 DEF Next

LEMMA TaskAlways == Spec => []TaskInv
BY TaskInit, TaskStep, PTL DEF Spec

LEMMA TasksAreSound == TaskInv => TasksSound
<1> SUFFICES ASSUME TaskInv PROVE TasksSound
  OBVIOUS
<1>1. /\ child \in Children /\ Orderly(child) /\ Keyed(child)
      /\ Told(child, faults.cancelled) /\ child.out = <<>>
  BY DEF TaskInv, Typed, Sound, Settling
<1>2. \A l \in Lanes : child.lanes[l] \in Seq(Requests)
  BY <1>1 DEF Children
<1>3. TypeOK
  <2>1. ToSet(main.waiters) = {r \in Requests : request[r] = "pinning"}
    <3>1. main.waiters \in Seq(Requests)
      BY DEF TaskInv, Typed, Mains
    <3>2. ToSet(main.waiters) \subseteq Requests
      BY <3>1 DEF ToSet
    <3> QED BY <3>2 DEF TaskInv, Waiting
  <2>2. \A l \in Lanes : \A r \in ToSet(child.lanes[l]) : LaneOf[r] = l
    BY <1>1 DEF Orderly
  <2> QED BY <1>1, <2>1, <2>2 DEF TypeOK, TaskInv, Typed
<1>4. DOMAIN child.running \subseteq Requests
  BY <1>1, RunsOfRequests DEF Children
<1>5. OneAtATime
  <2> SUFFICES ASSUME NEW r \in DOMAIN child.running, LaneOf[r] # NoLane
               PROVE  IsPrefix(<<r>>, child.lanes[LaneOf[r]])
    BY DEF OneAtATime
  <2>1. PICK q \in Seq(Requests) : q = child.lanes[LaneOf[r]]
    BY <1>2, <1>4, LanesOfRequests
  <2>2. q # <<>> /\ Head(q) = r
    BY <1>1, <2>1 DEF Orderly, Leads
  <2>3. Len(q) >= 1 /\ q[1] = r /\ Len(q) \in Nat
    BY <2>2, Tailed
  <2>4. SubSeq(q, 1, 1) = <<r>> /\ SubSeq(<<r>>, 1, 1) = <<r>> /\ Len(<<r>>) = 1
    <3>1. <<r>> \in Seq({r}) /\ Len(<<r>>) = 1 /\ <<r>>[1] = r
      OBVIOUS
    <3>2. \A s : s[1] = r => /\ SubSeq(s, 1, 1) \in Seq({r}) /\ Len(SubSeq(s, 1, 1)) = 1
                            /\ SubSeq(s, 1, 1)[1] = r
      <4> SUFFICES ASSUME NEW s, s[1] = r
                   PROVE  /\ SubSeq(s, 1, 1) \in Seq({r}) /\ Len(SubSeq(s, 1, 1)) = 1
                          /\ SubSeq(s, 1, 1)[1] = r
        OBVIOUS
      <4>1. \A i \in 1 .. 1 : s[i] \in {r}
        OBVIOUS
      <4>2. /\ SubSeq(s, 1, 1) \in Seq({r})
            /\ Len(SubSeq(s, 1, 1)) = IF 1 <= 1 THEN 1 - 1 + 1 ELSE 0
            /\ \A i \in 1 .. 1 - 1 + 1 : SubSeq(s, 1, 1)[i] = s[1 + i - 1]
        BY <4>1, SubSeqProperties
      <4> QED BY <4>2
    <3>3. \A t \in Seq({r}) : Len(t) = 1 /\ t[1] = r => t = <<r>>
      <4> SUFFICES ASSUME NEW t \in Seq({r}), Len(t) = 1, t[1] = r
                   PROVE  t = <<r>>
        OBVIOUS
      <4>1. \A i \in 1 .. Len(t) : t[i] = <<r>>[i]
        BY <3>1
      <4> QED BY <3>1, <4>1, SeqEqual
    <3> QED BY <2>3, <3>1, <3>2, <3>3
  <2> QED BY <2>1, <2>3, <2>4 DEF IsPrefix
<1>6. ProverReady
  BY <1>1 DEF Keyed, ProverReady
<1>7. StatusTrue
  <2>1. Working(child) \in SUBSET Requests /\ \A r \in Requests : r \in Working(child) <=> Works(child, r)
    BY <1>1, BusyWorks
  <2>2. child.status.busy \subseteq Requests
    BY <1>1 DEF Children
  <2> QED BY <1>1, <2>1, <2>2 DEF StatusTrue, Told, Keyed
<1> QED BY <1>3, <1>5, <1>6, <1>7 DEF TasksSound

\* Tasks are where they belong, one at a time in each lane and none before what it needs
\* is there, and main is told of all of them: whatever is cancelled, fails, or answers late
\* (Lane.run, PlatformService.dispatch, publishStatus).
THEOREM TasksStaySound == Spec => []TasksSound
BY TaskAlways, TasksAreSound, PTL

-----------------------------------------------------------------------------
(* What is in force *)

SetList(n) == [type |-> "setEvonodeDapiUrls", list |-> n]
SetMode(mode) == [type |-> "setDapi", mode |-> mode]
IsList(command) == command.type = "setEvonodeDapiUrls"
IsMode(command) == command.type = "setDapi"

\* Requests, cancels and seeds: what says nothing of lists and preferences.
Plain(q) == \A i \in DOMAIN q : ~IsList(q[i]) /\ ~IsMode(q[i])

\* The lists under way climb to main's last one, which the child has or will have.
ListSoon(q, now, last) ==
  /\ now <= last
  /\ \A i \in DOMAIN q : IsList(q[i]) =>
       /\ q[i].list # 0 /\ now <= q[i].list /\ q[i].list <= last
       /\ \A j \in DOMAIN q : j < i /\ IsList(q[j]) => q[j].list <= q[i].list
  /\ now = last \/ \E i \in DOMAIN q : q[i] = SetList(last)

\* The last preference under way is mode, or there is none and the child has it.
ModeSoon(q, now, mode) ==
  \/ now = mode /\ \A i \in DOMAIN q : ~IsMode(q[i])
  \/ \E i \in DOMAIN q : q[i] = SetMode(mode) /\ \A j \in DOMAIN q : IsMode(q[j]) => j <= i

\* Main hears of an exit last, and from then on holds no child.
Ups ==
  /\ child.up => main.child
  /\ ~main.child => toMain = <<>>
  /\ \A i \in DOMAIN toMain : toMain[i] = Exit => i = Len(toMain) /\ ~child.up

NoOlderAnswer == "older probe answers" \in Excluded

\* The latest list is pinned, or a probe or a retry of it is under way; unless the
\* answer of an older list may come late.
Latest(c) ==
  /\ \A p \in c.probes : p.list # 0 /\ p.list <= c.list
  /\ \A n \in c.retries : n # 0
  /\ c.refill <= c.list
  /\ NoOlderAnswer /\ c.list # 0 =>
       c.pin = c.list \/ c.list \in c.retries \/ \E p \in c.probes : p.list = c.list

Commanded ==
  child.up => /\ ListSoon(toChild, child.list, main.list)
              /\ ~main.reload => ModeSoon(toChild, child.mode, main.mode)

ForceInv == Ups /\ Commanded /\ Latest(child) /\ Fresh(child)

LEMMA Parts ==
  ASSUME NEW S, NEW p \in Seq(S), NEW q \in Seq(S)
  PROVE  /\ p \o q \in Seq(S)
         /\ \A i \in DOMAIN p : i \in Nat /\ i <= Len(p) /\ i \in DOMAIN (p \o q) /\ (p \o q)[i] = p[i]
         /\ \A i \in DOMAIN q : /\ i \in Nat /\ Len(p) + i \in DOMAIN (p \o q) /\ i >= 1
                                /\ (p \o q)[Len(p) + i] = q[i]
         /\ \A i \in DOMAIN (p \o q) :
              \/ i \in DOMAIN p /\ (p \o q)[i] = p[i]
              \/ \E n \in DOMAIN q : i = Len(p) + n /\ (p \o q)[i] = q[n]
         /\ Len(p) \in Nat
<1> DEFINE s == p \o q
<1>1. /\ s \in Seq(S) /\ Len(p) \in Nat /\ Len(q) \in Nat
      /\ DOMAIN p = 1 .. Len(p) /\ DOMAIN q = 1 .. Len(q) /\ DOMAIN s = 1 .. Len(p) + Len(q)
      /\ \A i \in 1 .. Len(p) : s[i] = p[i]
      /\ \A i \in 1 .. Len(q) : s[Len(p) + i] = q[i]
      /\ \A i \in 1 .. Len(p) + Len(q) :
           i \in 1 .. Len(p) \/ (i - Len(p) \in 1 .. Len(q) /\ i = Len(p) + (i - Len(p)))
  BY Joined
<1> HIDE DEF s
<1>2. ASSUME NEW i \in DOMAIN s
      PROVE  \/ i \in DOMAIN p /\ s[i] = p[i]
             \/ \E n \in DOMAIN q : i = Len(p) + n /\ s[i] = q[n]
  <2>1. CASE i \in 1 .. Len(p)
    BY <1>1, <2>1
  <2>2. CASE i - Len(p) \in 1 .. Len(q) /\ i = Len(p) + (i - Len(p))
    <3>1. PICK n \in DOMAIN q : i = Len(p) + n
      BY <1>1, <2>2
    <3>2. s[i] = q[n]
      BY <1>1, <3>1
    <3> QED BY <3>1, <3>2
  <2> QED BY <1>1, <2>1, <2>2
<1>3. \A i \in DOMAIN p : i \in Nat /\ i <= Len(p) /\ i \in DOMAIN s /\ s[i] = p[i]
  BY <1>1
<1>4. \A i \in DOMAIN q : i \in Nat /\ Len(p) + i \in DOMAIN s /\ i >= 1 /\ s[Len(p) + i] = q[i]
  BY <1>1
<1> QED BY <1>1, <1>2, <1>3, <1>4 DEF s

LEMMA PlainBehind ==
  ASSUME NEW p \in Seq(Commands), NEW q \in Seq(Commands), Plain(q), NEW now, NEW last, NEW mode
  PROVE  /\ p \o q \in Seq(Commands)
         /\ ListSoon(p, now, last) => ListSoon(p \o q, now, last)
         /\ ModeSoon(p, now, mode) => ModeSoon(p \o q, now, mode)
         /\ Plain(p) => Plain(p \o q)
<1> DEFINE s == p \o q
<1>1. /\ s \in Seq(Commands)
      /\ \A i \in DOMAIN p : i \in DOMAIN s /\ s[i] = p[i]
      /\ \A i \in DOMAIN s : \/ i \in DOMAIN p /\ s[i] = p[i]
                             \/ \E n \in DOMAIN q : s[i] = q[n]
  <2>1. s \in Seq(Commands)
    BY Parts
  <2>2. \A i \in DOMAIN p : i \in DOMAIN s /\ s[i] = p[i]
    BY Parts
  <2>3. ASSUME NEW i \in DOMAIN s
        PROVE  (i \in DOMAIN p /\ s[i] = p[i]) \/ \E n \in DOMAIN q : s[i] = q[n]
    <3>1. (i \in DOMAIN p /\ s[i] = p[i]) \/ \E n \in DOMAIN q : i = Len(p) + n /\ s[i] = q[n]
      BY <2>3, Parts
    <3> QED BY <3>1
  <2> QED BY <2>1, <2>2, <2>3
<1> HIDE DEF s
<1>2. \A i \in DOMAIN s : IsList(s[i]) \/ IsMode(s[i]) => i \in DOMAIN p /\ s[i] = p[i]
  BY <1>1 DEF Plain
<1>3. ListSoon(p, now, last) => ListSoon(s, now, last)
  BY <1>1, <1>2 DEF ListSoon
<1>4. ModeSoon(p, now, mode) => ModeSoon(s, now, mode)
  BY <1>1, <1>2 DEF ModeSoon
<1>5. Plain(p) => Plain(s)
  BY <1>1, <1>2 DEF Plain
<1> QED BY <1>1, <1>3, <1>4, <1>5 DEF s

LEMMA ListBehind ==
  ASSUME NEW p \in Seq(Commands), NEW now \in Nat, NEW last \in Nat, NEW here, NEW mode,
         ListSoon(p, now, last)
  PROVE  /\ ListSoon(Append(p, SetList(last + 1)), now, last + 1)
         /\ ModeSoon(p, here, mode) => ModeSoon(Append(p, SetList(last + 1)), here, mode)
<1> DEFINE e == SetList(last + 1)
<1>1. e \in Commands /\ IsList(e) /\ ~IsMode(e) /\ e.list = last + 1
  BY DEF SetList, Commands, IsList, IsMode
<1> DEFINE s == Append(p, e)
<1>2. /\ s \in Seq(Commands) /\ Len(p) \in Nat /\ DOMAIN p = 1 .. Len(p)
      /\ DOMAIN s = 1 .. Len(p) + 1 /\ s[Len(p) + 1] = e
      /\ \A i \in 1 .. Len(p) : s[i] = p[i]
  <2> HIDE DEF e, Commands
  <2> QED BY <1>1
<1>3. \A i \in DOMAIN s : \/ i \in DOMAIN p /\ s[i] = p[i]
                          \/ i = Len(p) + 1 /\ s[i] = e
  BY <1>2
<1>4. \A i \in DOMAIN p : IsList(p[i]) => p[i].list \in Nat
  BY Requested DEF IsList
<1>5. \A i \in DOMAIN p : i \in DOMAIN s /\ i \in Nat /\ i < Len(p) + 1
  BY <1>2
<1>6. Len(p) + 1 \in DOMAIN s
  BY <1>2
<1> HIDE DEF s
<1>7. \A i \in DOMAIN s : IsList(s[i]) =>
        /\ s[i].list # 0 /\ now <= s[i].list /\ s[i].list <= last + 1
        /\ \A j \in DOMAIN s : j < i /\ IsList(s[j]) => s[j].list <= s[i].list
  <2> SUFFICES ASSUME NEW i \in DOMAIN s, IsList(s[i])
               PROVE  /\ s[i].list # 0 /\ now <= s[i].list /\ s[i].list <= last + 1
                      /\ \A j \in DOMAIN s : j < i /\ IsList(s[j]) => s[j].list <= s[i].list
    OBVIOUS
  <2> HIDE DEF e
  <2>1. CASE i \in DOMAIN p /\ s[i] = p[i]
    <3>1. p[i].list # 0 /\ now <= p[i].list /\ p[i].list <= last /\ p[i].list \in Nat
      BY <1>4, <2>1 DEF ListSoon
    <3>2. ASSUME NEW j \in DOMAIN s, j < i, IsList(s[j])
          PROVE  s[j].list <= s[i].list
      <4>1. j \in DOMAIN p /\ s[j] = p[j]
        BY <1>2, <1>3, <1>5, <2>1, <3>2
      <4> QED BY <2>1, <3>2, <4>1 DEF ListSoon
    <3> QED BY <2>1, <3>1, <3>2
  <2>2. CASE i = Len(p) + 1 /\ s[i] = e
    <3>1. s[i].list = last + 1
      BY <1>1, <2>2
    <3>2. now <= last
      BY DEF ListSoon
    <3>3. ASSUME NEW j \in DOMAIN s, j < i, IsList(s[j])
          PROVE  s[j].list <= s[i].list
      <4>1. j \in DOMAIN p /\ s[j] = p[j]
        BY <1>2, <1>3, <2>2, <3>3
      <4>2. p[j].list <= last /\ p[j].list \in Nat
        BY <1>4, <3>3, <4>1 DEF ListSoon
      <4> QED BY <3>1, <4>1, <4>2
    <3> QED BY <3>1, <3>2, <3>3
  <2> QED BY <1>3, <2>1, <2>2
<1>8. ListSoon(s, now, last + 1)
  <2>1. now <= last + 1
    BY DEF ListSoon
  <2>2. s[Len(p) + 1] = SetList(last + 1)
    BY <1>2 DEF s
  <2> HIDE DEF e
  <2> QED BY <1>6, <1>7, <2>1, <2>2 DEF ListSoon
<1>9. ModeSoon(p, here, mode) => ModeSoon(s, here, mode)
  <2> HIDE DEF e
  <2> QED BY <1>1, <1>3, <1>5 DEF ModeSoon
<1> QED BY <1>8, <1>9 DEF s

LEMMA ModeBehind ==
  ASSUME NEW p \in Seq(Commands), NEW mode \in Modes, NEW now, NEW here, NEW last
  PROVE  /\ ModeSoon(Append(p, SetMode(mode)), here, mode)
         /\ ListSoon(p, now, last) => ListSoon(Append(p, SetMode(mode)), now, last)
<1> DEFINE e == SetMode(mode)
<1>1. e \in Commands /\ IsMode(e) /\ ~IsList(e)
  BY DEF SetMode, Commands, IsList, IsMode
<1> DEFINE s == Append(p, e)
<1>2. /\ s \in Seq(Commands) /\ Len(p) \in Nat /\ DOMAIN p = 1 .. Len(p)
      /\ DOMAIN s = 1 .. Len(p) + 1 /\ s[Len(p) + 1] = e
      /\ \A i \in 1 .. Len(p) : s[i] = p[i]
  <2> HIDE DEF e, Commands
  <2> QED BY <1>1
<1>3. \A i \in DOMAIN s : \/ i \in DOMAIN p /\ s[i] = p[i]
                          \/ i = Len(p) + 1 /\ s[i] = e
  BY <1>2
<1>4. \A i \in DOMAIN p : i \in DOMAIN s /\ s[i] = p[i]
  BY <1>2
<1>5. ModeSoon(s, here, mode)
  <2>1. Len(p) + 1 \in DOMAIN s /\ \A j \in DOMAIN s : j <= Len(p) + 1
    BY <1>2
  <2> HIDE DEF s
  <2> QED BY <1>2, <2>1 DEF ModeSoon
<1>6. ListSoon(p, now, last) => ListSoon(s, now, last)
  <2>1. \A i \in DOMAIN s : IsList(s[i]) => i \in DOMAIN p /\ s[i] = p[i]
    <3> HIDE DEF s, e
    <3> QED BY <1>1, <1>3
  <2> HIDE DEF s
  <2> QED BY <1>4, <2>1 DEF ListSoon
<1> QED BY <1>5, <1>6

LEMMA TailSoon ==
  ASSUME NEW q \in Seq(Commands), q # <<>>, NEW now, NEW last \in Nat, NEW here, NEW mode
  PROVE  /\ ListSoon(q, now, last) =>
              ListSoon(Tail(q), IF IsList(Head(q)) THEN Head(q).list ELSE now, last)
         /\ ModeSoon(q, here, mode) =>
              ModeSoon(Tail(q), IF IsMode(Head(q)) THEN Head(q).mode ELSE here, mode)
<1> DEFINE t == Tail(q)
<1>1. /\ Head(q) = q[1] /\ Len(q) \in Nat /\ Len(q) >= 1
      /\ DOMAIN q = 1 .. Len(q) /\ DOMAIN t = 1 .. Len(q) - 1
      /\ \A i \in 1 .. Len(q) - 1 : t[i] = q[i + 1]
  BY Tailed
<1> HIDE DEF t
<1>2. /\ 1 \in DOMAIN q
      /\ \A i \in DOMAIN t : /\ i \in Nat /\ i >= 1 /\ i + 1 \in DOMAIN q /\ t[i] = q[i + 1]
                            /\ 1 < i + 1
      /\ \A i \in DOMAIN q : i \in Nat /\ (i = 1 \/ \E n \in DOMAIN t : i = n + 1)
  <2>1. ASSUME NEW i \in DOMAIN q PROVE i \in Nat /\ (i = 1 \/ \E n \in DOMAIN t : i = n + 1)
    <3>1. i = 1 \/ i - 1 \in DOMAIN t
      BY <1>1
    <3>2. i \in Nat /\ i = (i - 1) + 1
      BY <1>1
    <3> QED BY <3>1, <3>2
  <2>2. ASSUME NEW i \in DOMAIN t
        PROVE  i \in Nat /\ i >= 1 /\ i + 1 \in DOMAIN q /\ t[i] = q[i + 1] /\ 1 < i + 1
    BY <1>1
  <2> QED BY <1>1, <2>1, <2>2
<1>3. ASSUME ListSoon(q, now, last)
      PROVE  ListSoon(t, IF IsList(Head(q)) THEN Head(q).list ELSE now, last)
  <2>1. PICK first : first = IF IsList(Head(q)) THEN Head(q).list ELSE now
    OBVIOUS
  <2>2. first <= last
    BY <1>1, <1>2, <1>3, <2>1 DEF ListSoon
  <2>3. ASSUME NEW i \in DOMAIN t, IsList(t[i])
        PROVE  /\ t[i].list # 0 /\ first <= t[i].list /\ t[i].list <= last
               /\ \A j \in DOMAIN t : j < i /\ IsList(t[j]) => t[j].list <= t[i].list
    <3>1. /\ i + 1 \in DOMAIN q /\ t[i] = q[i + 1] /\ IsList(q[i + 1]) /\ 1 < i + 1
          /\ \A j \in DOMAIN q : j < i + 1 /\ IsList(q[j]) => q[j].list <= q[i + 1].list
      BY <1>2, <1>3, <2>3 DEF ListSoon
    <3>2. first <= t[i].list
      BY <1>1, <1>2, <1>3, <2>1, <3>1 DEF ListSoon
    <3>3. ASSUME NEW j \in DOMAIN t, j < i, IsList(t[j])
          PROVE  t[j].list <= t[i].list
      <4>1. j + 1 \in DOMAIN q /\ j + 1 < i + 1 /\ t[j] = q[j + 1]
        BY <1>2, <3>3
      <4> QED BY <3>1, <3>3, <4>1
    <3> QED BY <1>3, <3>1, <3>2, <3>3 DEF ListSoon
  <2>4. first = last \/ \E i \in DOMAIN t : t[i] = SetList(last)
    <3>1. CASE now = last
      <4>1. IsList(q[1]) => q[1].list = last
        <5>1. IsList(q[1]) => q[1].list \in Nat
          BY <1>1, <1>2, Requested DEF IsList
        <5> QED BY <1>2, <1>3, <3>1, <5>1 DEF ListSoon
      <4> QED BY <1>1, <2>1, <3>1, <4>1
    <3>2. CASE \E i \in DOMAIN q : q[i] = SetList(last)
      <4>1. PICK i \in DOMAIN q : q[i] = SetList(last)
        BY <3>2
      <4>2. CASE i = 1
        <5>1. IsList(q[1]) /\ q[1].list = last
          BY <4>1, <4>2 DEF SetList, IsList
        <5> QED BY <1>1, <2>1, <5>1
      <4>3. CASE \E n \in DOMAIN t : i = n + 1
        BY <1>2, <4>1, <4>3
      <4> QED BY <1>2, <4>2, <4>3
    <3> QED BY <1>3, <3>1, <3>2 DEF ListSoon
  <2> QED BY <2>1, <2>2, <2>3, <2>4 DEF ListSoon
<1>4. ASSUME ModeSoon(q, here, mode)
      PROVE  ModeSoon(t, IF IsMode(Head(q)) THEN Head(q).mode ELSE here, mode)
  <2>1. CASE here = mode /\ \A i \in DOMAIN q : ~IsMode(q[i])
    BY <1>1, <1>2, <2>1 DEF ModeSoon
  <2>2. ASSUME NEW i \in DOMAIN q, q[i] = SetMode(mode), \A j \in DOMAIN q : IsMode(q[j]) => j <= i
        PROVE  ModeSoon(t, IF IsMode(Head(q)) THEN Head(q).mode ELSE here, mode)
    <3>1. IsMode(q[i]) /\ q[i].mode = mode
      BY <2>2 DEF SetMode, IsMode
    <3>2. CASE i = 1
      <4>1. \A n \in DOMAIN t : ~IsMode(t[n])
        <5> SUFFICES ASSUME NEW n \in DOMAIN t, IsMode(t[n]) PROVE FALSE
          OBVIOUS
        <5>1. n + 1 \in DOMAIN q /\ IsMode(q[n + 1]) /\ n \in Nat /\ 1 < n + 1
          BY <1>2
        <5>2. n + 1 <= 1
          BY <2>2, <3>2, <5>1
        <5> QED BY <5>1, <5>2
      <4> QED BY <1>1, <3>1, <3>2, <4>1 DEF ModeSoon
    <3>3. ASSUME NEW n \in DOMAIN t, i = n + 1
          PROVE  ModeSoon(t, IF IsMode(Head(q)) THEN Head(q).mode ELSE here, mode)
      <4>1. \A j \in DOMAIN t : IsMode(t[j]) => j <= n
        <5> SUFFICES ASSUME NEW j \in DOMAIN t, IsMode(t[j]) PROVE j <= n
          OBVIOUS
        <5>1. j + 1 \in DOMAIN q /\ IsMode(q[j + 1]) /\ j \in Nat /\ n \in Nat
          BY <1>2
        <5>2. j + 1 <= n + 1
          BY <2>2, <3>3, <5>1
        <5> QED BY <5>1, <5>2
      <4>2. t[n] = SetMode(mode)
        BY <1>2, <2>2, <3>3
      <4> QED BY <4>1, <4>2 DEF ModeSoon
    <3> QED BY <1>2, <3>2, <3>3
  <2> QED BY <1>4, <2>1, <2>2 DEF ModeSoon
<1> QED BY <1>3, <1>4 DEF t

LEMMA ReplaySoon ==
  ASSUME main \in Mains, NEW q \in Seq(Commands), Plain(q)
  PROVE  /\ ListSoon(Replay \o q, 0, main.list)
         /\ ModeSoon(Replay \o q, "dynamic", main.mode)
<1>1. main.list \in Nat /\ main.mode \in Modes
  BY DEF Mains
<1>2. PICK m : m = SetMode(main.mode)
  OBVIOUS
<1>3. PICK n : n = SetList(main.list)
  OBVIOUS
<1>4. /\ m \in Commands /\ IsMode(m) /\ ~IsList(m)
      /\ n \in Commands /\ IsList(n) /\ ~IsMode(n) /\ n.list = main.list
  BY <1>1, <1>2, <1>3 DEF Commands, IsMode, IsList, SetMode, SetList
<1>5. Replay = <<m>> \o (IF main.list = 0 THEN <<>> ELSE <<n>>)
  BY <1>2, <1>3 DEF Replay, SetMode, SetList
<1>6. PICK p \in Seq(Commands) : /\ p = Replay /\ DOMAIN p = 1 .. Len(p) /\ p[1] = m
                                 /\ Len(p) = (IF main.list = 0 THEN 1 ELSE 2)
                                 /\ main.list # 0 => p[2] = n
  <2>1. /\ <<m>> \in Seq(Commands) /\ Len(<<m>>) = 1 /\ <<m>>[1] = m
        /\ <<n>> \in Seq(Commands) /\ Len(<<n>>) = 1 /\ <<n>>[1] = n
    BY <1>4
  <2>2. PICK u \in Seq(Commands) : u = <<m>> /\ Len(u) = 1 /\ u[1] = m
    BY <2>1
  <2>3. PICK v \in Seq(Commands) : v = <<n>> /\ Len(v) = 1 /\ v[1] = n
    BY <2>1
  <2>4. DOMAIN u = 1 .. Len(u)
    OBVIOUS
  <2>5. CASE main.list = 0
    <3>1. Replay = u
      BY <1>5, <2>2, <2>5, ConcatEmptySeq
    <3> QED BY <2>2, <2>4, <2>5, <3>1
  <2>6. CASE main.list # 0
    <3>1. Replay = u \o v
      BY <1>5, <2>2, <2>3, <2>6
    <3>2. /\ u \o v \in Seq(Commands) /\ Len(u \o v) = Len(u) + Len(v)
          /\ DOMAIN (u \o v) = 1 .. Len(u) + Len(v)
          /\ \A i \in 1 .. Len(u) : (u \o v)[i] = u[i]
          /\ \A i \in 1 .. Len(v) : (u \o v)[Len(u) + i] = v[i]
      BY Joined
    <3>3. Len(u \o v) = 2 /\ (u \o v)[1] = m /\ (u \o v)[2] = n /\ DOMAIN (u \o v) = 1 .. 2
      BY <2>2, <2>3, <3>2
    <3> QED BY <2>6, <3>1, <3>2, <3>3
  <2> QED BY <2>5, <2>6
<1>7. /\ 1 \in DOMAIN p
      /\ \A i \in DOMAIN p : (i = 1 /\ p[i] = m) \/ (i = 2 /\ p[i] = n /\ main.list # 0)
  <2>1. CASE main.list = 0
    <3>1. Len(p) = 1
      BY <1>6, <2>1
    <3>2. DOMAIN p = 1 .. 1
      BY <1>6, <3>1
    <3>3. 1 \in DOMAIN p /\ \A i \in DOMAIN p : i = 1
      BY <3>2
    <3>4. p[1] = m
      BY <1>6
    <3> QED BY <3>3, <3>4
  <2>2. CASE main.list # 0
    <3>1. Len(p) = 2
      BY <1>6, <2>2
    <3>2. DOMAIN p = 1 .. 2
      BY <1>6, <3>1
    <3>3. 1 \in DOMAIN p /\ \A i \in DOMAIN p : i = 1 \/ i = 2
      BY <3>2
    <3>4. p[1] = m /\ p[2] = n
      BY <1>6, <2>2
    <3> QED BY <2>2, <3>3, <3>4
  <2> QED BY <2>1, <2>2
<1>8. main.list # 0 => 2 \in DOMAIN p
  BY <1>6
<1>9. ListSoon(p, 0, main.list)
  BY <1>1, <1>3, <1>4, <1>6, <1>7, <1>8 DEF ListSoon
<1>10. ModeSoon(p, "dynamic", main.mode)
  <2>1. \A j \in DOMAIN p : IsMode(p[j]) => j <= 1
    BY <1>4, <1>7
  <2> QED BY <1>2, <1>7, <2>1 DEF ModeSoon
<1> QED BY <1>6, <1>9, <1>10, PlainBehind

LEMMA ForceTypes ==
  TaskInv => /\ child \in Children /\ Sound(child, faults.cancelled) /\ child.out = <<>>
             /\ child.list \in Nat /\ child.mode \in Modes
             /\ main \in Mains /\ main.list \in Nat /\ main.mode \in Modes
             /\ main.waiters \in Seq(Requests)
             /\ toChild \in Seq(Commands) /\ toMain \in Seq(Says \union {Exit})
<1> SUFFICES ASSUME TaskInv
             PROVE  /\ child \in Children /\ Sound(child, faults.cancelled) /\ child.out = <<>>
                    /\ child.list \in Nat /\ child.mode \in Modes
                    /\ main \in Mains /\ main.list \in Nat /\ main.mode \in Modes
                    /\ main.waiters \in Seq(Requests)
                    /\ toChild \in Seq(Commands) /\ toMain \in Seq(Says \union {Exit})
  OBVIOUS
<1>1. /\ child \in Children /\ Sound(child, faults.cancelled) /\ child.out = <<>> /\ main \in Mains
      /\ toChild \in Seq(Commands) /\ toMain \in Seq(Says \union {Exit})
  BY DEF TaskInv, Typed, Sound, Settling
<1>2. child.list \in Nat /\ child.mode \in Modes
  BY <1>1 DEF Children
<1>3. main.list \in Nat /\ main.mode \in Modes /\ main.waiters \in Seq(Requests)
  BY <1>1 DEF Mains
<1> QED BY <1>1, <1>2, <1>3

LEMMA NewChild ==
  /\ Booted.up = TRUE /\ Booted.list = 0 /\ Booted.mode = "dynamic" /\ Booted.pin = None
  /\ Latest(Booted) /\ Fresh(Booted)
  /\ NoChild.up = FALSE /\ Latest(NoChild) /\ Fresh(NoChild)
<1>1. /\ Booted.up = TRUE /\ Booted.list = 0 /\ Booted.mode = "dynamic" /\ Booted.pin = None
      /\ Booted.sdk = NoSdk /\ Booted.probes = {} /\ Booted.retries = {} /\ Booted.refill = 0
  BY DEF Booted
<1>2. /\ NoChild.up = FALSE /\ NoChild.list = Booted.list /\ NoChild.sdk = Booted.sdk
      /\ NoChild.probes = Booted.probes /\ NoChild.retries = Booted.retries
      /\ NoChild.refill = Booted.refill
  <2>1. Booted \in Children
    BY BootedSound DEF Sound, Settling
  <2>2. NoChild = [[[Booted EXCEPT !.up = FALSE] EXCEPT !.warming = FALSE] EXCEPT !.status = EmptyStatus]
    BY <2>1 DEF NoChild, Children
  <2> QED BY <2>1, <2>2 DEF Children
<1> QED BY <1>1, <1>2 DEF Latest, Fresh

LEMMA PlainCommands ==
  /\ Plain(<<>>)
  /\ \A r \in Requests : Plain(<<Ask(r)>>) /\ Plain(<<[type |-> "cancel", request |-> r]>>)
  /\ Plain(<<[type |-> "useSeedNodes"]>>)
  /\ \A waiters \in Seq(Requests) :
       /\ [i \in DOMAIN waiters |-> Ask(waiters[i])] \in Seq(Commands)
       /\ Plain([i \in DOMAIN waiters |-> Ask(waiters[i])])
<1>1. \A e : DOMAIN <<e>> = {1} /\ <<e>>[1] = e
  OBVIOUS
<1>2. Plain(<<>>)
  BY DEF Plain
<1>3. \A r \in Requests : Plain(<<Ask(r)>>) /\ Plain(<<[type |-> "cancel", request |-> r]>>)
  BY <1>1 DEF Plain, IsList, IsMode, Ask
<1>4. Plain(<<[type |-> "useSeedNodes"]>>)
  BY <1>1 DEF Plain, IsList, IsMode
<1>5. ASSUME NEW waiters \in Seq(Requests)
      PROVE  /\ [i \in DOMAIN waiters |-> Ask(waiters[i])] \in Seq(Commands)
             /\ Plain([i \in DOMAIN waiters |-> Ask(waiters[i])])
  <2> DEFINE asks == [i \in DOMAIN waiters |-> Ask(waiters[i])]
  <2>1. DOMAIN waiters = 1 .. Len(waiters) /\ Len(waiters) \in Nat
        /\ \A i \in DOMAIN waiters : waiters[i] \in Requests
    OBVIOUS
  <2>2. \A i \in DOMAIN waiters : asks[i] \in Commands /\ asks[i].type = "request"
    BY <2>1, AskIsCommand
  <2>3. DOMAIN asks = DOMAIN waiters /\ asks \in [1 .. Len(waiters) -> Commands]
    BY <2>1, <2>2
  <2> HIDE DEF asks
  <2>4. asks \in Seq(Commands)
    BY <2>1, <2>3
  <2>5. Plain(asks)
    BY <2>2, <2>3 DEF Plain, IsList, IsMode
  <2> QED BY <2>4, <2>5 DEF asks
<1> QED BY <1>2, <1>3, <1>4, <1>5

LEMMA ForceSends ==
  ASSUME TaskInv, ForceInv, NEW commands \in Seq(Commands), Plain(commands), Send(commands),
         main'.child, main'.list = main.list, main'.mode = main.mode, main'.reload = main.reload
  PROVE  ForceInv'
<1>1. CASE main.child
  <2>1. /\ child' = child /\ toMain' = toMain
        /\ toChild' = IF child.up THEN toChild \o commands ELSE toChild
    BY <1>1 DEF Send
  <2>2. Ups'
    BY <2>1 DEF ForceInv, Ups
  <2>3. Commanded'
    <3> SUFFICES ASSUME child'.up
                 PROVE  /\ ListSoon(toChild', child'.list, main'.list)
                        /\ ~main'.reload => ModeSoon(toChild', child'.mode, main'.mode)
      BY DEF Commanded
    <3>1. /\ toChild \in Seq(Commands) /\ toChild' = toChild \o commands
          /\ ListSoon(toChild, child.list, main.list)
          /\ ~main.reload => ModeSoon(toChild, child.mode, main.mode)
      BY <2>1, ForceTypes DEF ForceInv, Commanded
    <3>2. /\ ListSoon(toChild \o commands, child.list, main.list)
          /\ ~main.reload => ModeSoon(toChild \o commands, child.mode, main.mode)
      BY <3>1, PlainBehind
    <3> QED BY <2>1, <3>1, <3>2
  <2>4. Latest(child') /\ Fresh(child')
    BY <2>1 DEF ForceInv
  <2> QED BY <2>2, <2>3, <2>4 DEF ForceInv
<1>2. CASE ~main.child
  <2>1. child' = Booted /\ toMain' = toMain /\ toChild' = Replay \o commands
    BY <1>2 DEF Send
  <2>2. Ups'
    <3>1. toMain' = <<>>
      BY <1>2, <2>1 DEF ForceInv, Ups
    <3> QED BY <3>1 DEF Ups
  <2>3. Commanded'
    <3>1. /\ ListSoon(Replay \o commands, 0, main.list)
          /\ ModeSoon(Replay \o commands, "dynamic", main.mode)
      BY ForceTypes, ReplaySoon
    <3> QED BY <2>1, <3>1, NewChild DEF Commanded
  <2>4. Latest(child') /\ Fresh(child')
    BY <2>1, NewChild
  <2> QED BY <2>2, <2>3, <2>4 DEF ForceInv
<1> QED BY <1>1, <1>2

LEMMA ForceMain ==
  ASSUME TaskInv, ForceInv,
         (\E r \in Requests : Request(r) \/ Cancel(r)) \/ PinTimeout
  PROVE  ForceInv'
<1>1. main \in Mains /\ main.waiters \in Seq(Requests)
  BY ForceTypes
<1>2. ASSUME NEW r \in Requests, Request(r)
      PROVE  ForceInv'
  <2>1. CASE r \in Exempt \/ main.pinned \/ main.mode = "static"
    <3>1. Send(<<Ask(r)>>) /\ main' = [main EXCEPT !.child = TRUE]
      BY <1>2, <2>1 DEF Request
    <3>2. main'.child /\ main'.list = main.list /\ main'.mode = main.mode /\ main'.reload = main.reload
      BY <1>1, <3>1 DEF Mains
    <3>3. PICK command \in Commands : command = Ask(r)
      BY AskIsCommand
    <3>4. <<command>> \in Seq(Commands)
      OBVIOUS
    <3>5. Plain(<<command>>)
      BY <3>3, PlainCommands
    <3> QED BY <3>1, <3>2, <3>3, <3>4, <3>5, ForceSends
  <2>2. CASE ~(r \in Exempt \/ main.pinned \/ main.mode = "static")
    <3>1. PICK longer : longer = Append(main.waiters, r)
      OBVIOUS
    <3>2. Send(<<>>) /\ main' = [main EXCEPT !.child = TRUE, !.waiters = longer]
      BY <1>2, <2>2, <3>1 DEF Request
    <3>3. main'.child /\ main'.list = main.list /\ main'.mode = main.mode /\ main'.reload = main.reload
      BY <1>1, <3>2 DEF Mains
    <3>4. <<>> \in Seq(Commands) /\ Plain(<<>>)
      BY PlainCommands
    <3> QED BY <3>2, <3>3, <3>4, ForceSends
  <2> QED BY <2>1, <2>2
<1>3. ASSUME NEW r \in Requests, Cancel(r)
      PROVE  ForceInv'
  <2>1. Send(<<[type |-> "cancel", request |-> r]>>) /\ main' = [main EXCEPT !.child = TRUE]
    BY <1>3 DEF Cancel
  <2>2. main'.child /\ main'.list = main.list /\ main'.mode = main.mode /\ main'.reload = main.reload
    BY <1>1, <2>1 DEF Mains
  <2>3. PICK commands \in Seq(Commands) :
          commands = <<[type |-> "cancel", request |-> r]>> /\ Plain(commands)
    <3>1. [type |-> "cancel", request |-> r] \in Commands
      BY DEF Commands
    <3>2. PICK command \in Commands : command = [type |-> "cancel", request |-> r]
      BY <3>1
    <3>3. <<command>> \in Seq(Commands)
      OBVIOUS
    <3> QED BY <3>2, <3>3, PlainCommands
  <2> QED BY <2>1, <2>2, <2>3, ForceSends
<1>4. CASE PinTimeout
  <2>1. PICK asks \in Seq(Commands) :
          asks = [i \in DOMAIN main.waiters |-> Ask(main.waiters[i])] /\ Plain(asks)
    BY <1>1, PlainCommands
  <2>2. PICK seeds \in Seq(Commands) : seeds = <<[type |-> "useSeedNodes"]>> /\ Plain(seeds)
    <3>1. PICK command \in Commands : command = [type |-> "useSeedNodes"]
      BY DEF Commands
    <3>2. <<command>> \in Seq(Commands)
      OBVIOUS
    <3> QED BY <3>1, <3>2, PlainCommands
  <2>3. PICK commands \in Seq(Commands) : commands = seeds \o asks /\ Plain(commands)
    BY <2>1, <2>2, PlainBehind
  <2>4. /\ Send(commands) /\ main' = [main EXCEPT !.child = TRUE, !.pinned = TRUE, !.waiters = <<>>]
    BY <1>4, <2>1, <2>2, <2>3 DEF PinTimeout, Wake
  <2>5. main'.child /\ main'.list = main.list /\ main'.mode = main.mode /\ main'.reload = main.reload
    BY <1>1, <2>4 DEF Mains
  <2> QED BY <2>3, <2>4, <2>5, ForceSends
<1> QED BY <1>2, <1>3, <1>4

LEMMA ForcePost ==
  ASSUME TaskInv, ForceInv, NewEvonodeList \/ ReloadDapi \/ ApplyDapi
  PROVE  ForceInv'
<1>1. /\ child' = child /\ toMain' = toMain
  BY DEF NewEvonodeList, ReloadDapi, ApplyDapi, Post
<1>2. Latest(child') /\ Fresh(child')
  BY <1>1 DEF ForceInv
<1>3. main \in Mains /\ main.list \in Nat /\ main.mode \in Modes /\ child.list \in Nat
      /\ toChild \in Seq(Commands)
  BY ForceTypes
<1>4. /\ child.up => main.child
      /\ child.up => ListSoon(toChild, child.list, main.list)
      /\ child.up /\ ~main.reload => ModeSoon(toChild, child.mode, main.mode)
  BY DEF ForceInv, Ups, Commanded
<1>5. main'.child = main.child
  <2>1. \/ main' = [main EXCEPT !.list = main.list + 1]
        \/ main' = [main EXCEPT !.reload = FALSE]
        \/ main' = [main EXCEPT !.mode = IF main.mode = "static" THEN "dynamic" ELSE "static",
                                !.reload = TRUE]
    BY DEF NewEvonodeList, ReloadDapi, ApplyDapi
  <2> QED BY <1>3, <2>1 DEF Mains
<1>6. Ups'
  BY <1>1, <1>5 DEF ForceInv, Ups
<1>7. Commanded'
  <2> SUFFICES ASSUME child.up
               PROVE  /\ ListSoon(toChild', child.list, main'.list)
                      /\ ~main'.reload => ModeSoon(toChild', child.mode, main'.mode)
    BY <1>1 DEF Commanded
  <2>1. CASE NewEvonodeList
    <3>1. main' = [main EXCEPT !.list = main.list + 1]
      BY <2>1 DEF NewEvonodeList
    <3>2. main'.list = main.list + 1 /\ main'.mode = main.mode /\ main'.reload = main.reload
      BY <1>3, <3>1 DEF Mains
    <3>3. toChild' = Append(toChild, SetList(main.list + 1))
      BY <1>4, <2>1 DEF NewEvonodeList, Post, SetList
    <3>4. /\ ListSoon(toChild', child.list, main.list + 1)
          /\ ModeSoon(toChild, child.mode, main.mode) => ModeSoon(toChild', child.mode, main.mode)
      BY <1>3, <1>4, <3>3, ListBehind
    <3> QED BY <1>4, <3>2, <3>4
  <2>2. CASE ReloadDapi
    <3>1. main' = [main EXCEPT !.reload = FALSE]
      BY <2>2 DEF ReloadDapi
    <3>2. main'.list = main.list /\ main'.mode = main.mode
      BY <1>3, <3>1 DEF Mains
    <3>3. toChild' = Append(toChild, SetMode(main.mode))
      BY <1>4, <2>2 DEF ReloadDapi, Post, SetMode
    <3>4. /\ ListSoon(toChild', child.list, main.list)
          /\ ModeSoon(toChild', child.mode, main.mode)
      BY <1>3, <1>4, <3>3, ModeBehind
    <3> QED BY <3>2, <3>4
  <2>3. CASE ApplyDapi
    <3>1. main' = [main EXCEPT !.mode = IF main.mode = "static" THEN "dynamic" ELSE "static",
                               !.reload = TRUE]
      BY <2>3 DEF ApplyDapi
    <3>2. main'.list = main.list /\ main'.reload = TRUE /\ toChild' = toChild
      BY <1>3, <2>3, <3>1 DEF Mains, ApplyDapi
    <3> QED BY <1>4, <3>2
  <2> QED BY <2>1, <2>2, <2>3
<1> QED BY <1>2, <1>6, <1>7 DEF ForceInv

\* Of the last message, or of one that is not the exit.
LEMMA OneLess ==
  ASSUME NEW S, NEW q \in Seq(S), q # <<>>, NEW up,
         \A i \in DOMAIN q : q[i] = Exit => i = Len(q) /\ ~up
  PROVE  /\ \A i \in DOMAIN Tail(q) : Tail(q)[i] = Exit => i = Len(Tail(q)) /\ ~up
         /\ Head(q) = Exit => Tail(q) = <<>> /\ ~up
<1> DEFINE t == Tail(q)
<1>1. /\ t \in Seq(S) /\ Head(q) = q[1] /\ Len(q) \in Nat /\ Len(q) >= 1 /\ Len(t) = Len(q) - 1
      /\ DOMAIN q = 1 .. Len(q) /\ DOMAIN t = 1 .. Len(q) - 1
      /\ \A i \in 1 .. Len(q) - 1 : t[i] = q[i + 1]
  BY Tailed
<1> HIDE DEF t
<1>2. ASSUME NEW i \in DOMAIN t, t[i] = Exit
      PROVE  i = Len(t) /\ ~up
  <2>1. i + 1 \in DOMAIN q /\ q[i + 1] = Exit /\ i \in Nat
    BY <1>1, <1>2
  <2>2. i + 1 = Len(q) /\ ~up
    BY <2>1
  <2> QED BY <1>1, <2>1, <2>2
<1>3. ASSUME Head(q) = Exit PROVE t = <<>> /\ ~up
  <2>1. 1 \in DOMAIN q /\ q[1] = Exit
    BY <1>1, <1>3
  <2>2. Len(q) = 1 /\ ~up
    BY <2>1
  <2>3. Len(t) = 0
    BY <1>1, <2>2
  <2> QED BY <1>1, <2>2, <2>3
<1> QED BY <1>2, <1>3 DEF t

LEMMA ForceReceive == ASSUME TaskInv, ForceInv, MainReceives PROVE ForceInv'
<1>1. /\ toMain \in Seq(Says \union {Exit}) /\ toMain # <<>> /\ main \in Mains
      /\ main.waiters \in Seq(Requests) /\ toChild \in Seq(Commands)
  BY ForceTypes DEF MainReceives
<1>2. /\ child.up => main.child
      /\ ~main.child => toMain = <<>>
      /\ \A i \in DOMAIN toMain : toMain[i] = Exit => i = Len(toMain) /\ ~child.up
      /\ child.up => ListSoon(toChild, child.list, main.list)
      /\ child.up /\ ~main.reload => ModeSoon(toChild, child.mode, main.mode)
  BY DEF ForceInv, Ups, Commanded
<1>3. Head(toMain) \in Says \union {Exit}
  BY <1>1, Tailed
<1>4. /\ \A i \in DOMAIN Tail(toMain) : Tail(toMain)[i] = Exit => i = Len(Tail(toMain)) /\ ~child.up
      /\ Head(toMain) = Exit => Tail(toMain) = <<>> /\ ~child.up
  <2> DEFINE S == Says \union {Exit}
  <2>1. toMain \in Seq(S) /\ toMain # <<>>
    BY <1>1
  <2> HIDE DEF S
  <2> QED BY <1>2, <2>1, OneLess
<1>5. toMain' = Tail(toMain) /\ child' = child
  <2>1. Head(toMain).type \in {"exit", "response", "pinned"}
    BY <1>3 DEF Says, Responses, Exit
  <2> QED BY <2>1 DEF MainReceives, ChildExited, Responded, Pinned
<1>6. Latest(child') /\ Fresh(child')
  BY <1>5 DEF ForceInv
<1>7. CASE Head(toMain).type = "exit"
  <2>1. Head(toMain) = Exit
    BY <1>3, <1>7 DEF Says, Responses, Exit
  <2>2. ~child'.up /\ toMain' = <<>>
    BY <1>4, <1>5, <2>1
  <2> QED BY <1>6, <2>2 DEF ForceInv, Ups, Commanded
<1>8. CASE Head(toMain).type = "response"
  <2>1. UNCHANGED <<main, toChild>>
    BY <1>8 DEF MainReceives, Responded
  <2>2. Ups'
    BY <1>1, <1>2, <1>4, <1>5, <2>1 DEF Ups
  <2> QED BY <1>2, <1>5, <1>6, <2>1, <2>2 DEF ForceInv, Commanded
<1>9. CASE Head(toMain).type = "pinned"
  <2>1. PICK asks \in Seq(Commands) :
          asks = [i \in DOMAIN main.waiters |-> Ask(main.waiters[i])] /\ Plain(asks)
    BY <1>1, PlainCommands
  <2>2. /\ toChild' = IF child.up THEN toChild \o asks ELSE toChild
        /\ main' = [main EXCEPT !.pinned = TRUE, !.waiters = <<>>]
    BY <1>9, <2>1 DEF MainReceives, Pinned
  <2>3. /\ main'.child = main.child /\ main'.list = main.list /\ main'.mode = main.mode
        /\ main'.reload = main.reload
    BY <1>1, <2>2 DEF Mains
  <2>4. Ups'
    BY <1>1, <1>2, <1>4, <1>5, <2>3 DEF Ups
  <2>5. ASSUME child.up
        PROVE  /\ ListSoon(toChild', child.list, main.list)
               /\ ~main.reload => ModeSoon(toChild', child.mode, main.mode)
    BY <1>1, <1>2, <2>1, <2>2, <2>5, PlainBehind
  <2> QED BY <1>5, <1>6, <2>3, <2>4, <2>5 DEF ForceInv, Commanded
<1>10. Head(toMain).type \in {"exit", "response", "pinned"}
  BY <1>3 DEF Says, Responses, Exit
<1> QED BY <1>7, <1>8, <1>9, <1>10

-----------------------------------------------------------------------------
(* What the child's steps make of it *)

\* The command the child takes, and the child that took it.
LEMMA Taken ==
  ASSUME TaskInv, ChildReceives
  PROVE  \E command \in Commands, c \in Children :
           /\ command = Head(toChild) /\ c = Handled(child, command)
           /\ Sound(c, faults.cancelled) /\ ChildBecomes(c)
           /\ toChild \in Seq(Commands) /\ toChild # <<>> /\ toChild' = Tail(toChild)
           /\ child.up /\ UNCHANGED <<main, request, faults>>
           /\ command.type = "request" =>
                /\ command.request \in Requests /\ command = Ask(command.request)
                /\ c = Dispatch(child, command.request) /\ OnlyTasks(child, c)
                /\ \A r \in Requests : Works(c, r) => Works(child, r) \/ r = command.request
           /\ command.type = "cancel" =>
                /\ c = CancelTask(child, command.request) /\ OnlyTasks(child, c)
                /\ \A r \in Requests : Works(c, r) => Works(child, r)
<1>1. /\ toChild \in Seq(Commands) /\ toChild # <<>> /\ OnceEach(toChild)
      /\ KnownCancels(toChild, faults.cancelled) /\ Sound(child, faults.cancelled)
      /\ toChild' = Tail(toChild) /\ ChildBecomes(Handled(child, Head(toChild)))
      /\ child.up /\ UNCHANGED <<main, request, faults>>
  BY DEF ChildReceives, TaskInv, Typed, Carried
<1>2. PICK command : command = Head(toChild)
  OBVIOUS
<1>3. /\ command \in Commands
      /\ command.type = "cancel" => command.request \in faults.cancelled
      /\ command.type = "request" => command.request \in Asked(toChild)
  BY <1>1, <1>2, HeadLeaves
<1>4. command.type = "request" => ~Works(child, command.request)
  BY <1>3 DEF TaskInv, Carried
<1>5. PICK c : c = Handled(child, command)
  OBVIOUS
<1>6. Sound(c, faults.cancelled) /\ c \in Children
  BY <1>1, <1>3, <1>4, <1>5, Handles DEF Sound, Settling
<1>7. ASSUME command.type = "request"
      PROVE  /\ command.request \in Requests /\ command = Ask(command.request)
             /\ c = Dispatch(child, command.request) /\ OnlyTasks(child, c)
             /\ \A r \in Requests : Works(c, r) => Works(child, r) \/ r = command.request
  <2>1. command = Ask(command.request) /\ command.request \in Requests
    BY <1>3, <1>7, Requested
  <2>2. PICK r \in Requests : r = command.request
    BY <2>1
  <2>3. c = Dispatch(child, r) /\ ~Works(child, r)
    BY <1>4, <1>5, <1>7, <2>2 DEF Handled
  <2>4. /\ OnlyTasks(child, Dispatch(child, r))
        /\ \A x \in Requests : Works(Dispatch(child, r), x) <=> Works(child, x) \/ x = r
    BY <1>1, <2>3, Dispatches
  <2> QED BY <2>1, <2>2, <2>3, <2>4
<1>8. ASSUME command.type = "cancel"
      PROVE  /\ c = CancelTask(child, command.request) /\ OnlyTasks(child, c)
             /\ \A r \in Requests : Works(c, r) => Works(child, r)
  <2>1. command.request \in Requests
    BY <1>3, <1>8, Requested
  <2>2. c = CancelTask(child, command.request)
    BY <1>5, <1>8 DEF Handled
  <2> QED BY <1>1, <1>3, <1>8, <2>1, <2>2, Cancels
<1> QED BY <1>1, <1>2, <1>3, <1>5, <1>6, <1>7, <1>8

\* The end of a task, after the refill its failure may start.
LEMMA Ended ==
  ASSUME TaskInv, NEW r \in Requests,
         TaskSucceeds(r) \/ \E banned, unheard \in BOOLEAN : TaskFails(r, banned, unheard)
  PROVE  \E b \in Children, c \in Children :
           /\ b = child \/ b = RefillBannedPool(child)
           /\ OnlyTasks(b, c) /\ Sound(c, faults.cancelled) /\ ChildBecomes(c)
           /\ \A x \in Requests : Works(c, x) => Works(child, x)
           /\ child.up /\ UNCHANGED <<main, request, toChild>>
<1>1. /\ r \in DOMAIN child.running /\ child \in Children /\ Sound(child, faults.cancelled)
      /\ child.up
  BY DEF TaskSucceeds, TaskFails, TaskInv, Typed, Sound, Settling
<1>2. Leads(child, r) /\ Works(child, r)
  <2>1. Leads(child, r)
    BY <1>1 DEF Sound, Settling, Orderly
  <2>2. LaneOf[r] # NoLane => r \in ToSet(child.lanes[LaneOf[r]])
    <3>1. LaneOf[r] # NoLane => child.lanes[LaneOf[r]] \in Seq(Requests)
      BY <1>1, LanesOfRequests DEF Children
    <3>2. \A q \in Seq(Requests) : q # <<>> => Head(q) \in ToSet(q)
      BY Tailed
    <3> QED BY <2>1, <3>1, <3>2 DEF Leads
  <2> QED BY <1>1, <2>1, <2>2 DEF Works
<1>3. PICK b \in Children, outcome \in Outcomes :
        /\ b = child \/ b = RefillBannedPool(child)
        /\ SameTasks(child, b) /\ ChildBecomes(Settle(b, r, outcome))
        /\ UNCHANGED <<main, request, toChild>>
  <2>1. CASE TaskSucceeds(r)
    <3>1. "ok" \in Outcomes
      BY DEF Outcomes
    <3>2. SameTasks(child, child)
      BY DEF SameTasks
    <3>3. ChildBecomes(Settle(child, r, "ok")) /\ UNCHANGED <<main, request, toChild>>
      BY <2>1 DEF TaskSucceeds
    <3> QED BY <1>1, <3>1, <3>2, <3>3
  <2>2. ASSUME NEW banned \in BOOLEAN, NEW unheard \in BOOLEAN, TaskFails(r, banned, unheard)
        PROVE  \E b \in Children, outcome \in Outcomes :
                 /\ b = child \/ b = RefillBannedPool(child)
                 /\ SameTasks(child, b) /\ ChildBecomes(Settle(b, r, outcome))
                 /\ UNCHANGED <<main, request, toChild>>
    <3>1. PICK b : b = IF banned THEN RefillBannedPool(child) ELSE child
      OBVIOUS
    <3>2. b \in Children /\ SameTasks(child, b)
      BY <1>1, <3>1, EvonodeSteps DEF SameTasks
    <3>3. PICK outcome \in Outcomes : outcome = IF r \in landed THEN "uncertain" ELSE "failed"
      BY DEF Outcomes
    <3>4. ChildBecomes(Settle(b, r, outcome)) /\ UNCHANGED <<main, request, toChild>>
      BY <2>2, <3>1, <3>3 DEF TaskFails
    <3> QED BY <3>1, <3>2, <3>4
  <2> QED BY <2>1, <2>2
<1>4. Sound(b, faults.cancelled) /\ (\A x : Works(b, x) <=> Works(child, x)) /\ Leads(b, r)
  BY <1>1, <1>2, <1>3, EvonodesKept DEF Leads, SameTasks
<1>5. PICK c : c = Settle(b, r, outcome)
  OBVIOUS
<1>6. /\ Sound(c, faults.cancelled) /\ OnlyTasks(b, c)
      /\ \A x \in Requests : Works(c, x) => Works(child, x)
  BY <1>2, <1>4, <1>5, Settles
<1>7. c \in Children
  BY <1>6 DEF Sound, Settling
<1> QED BY <1>1, <1>3, <1>5, <1>6, <1>7

LEMMA Warmed ==
  ASSUME TaskInv, WarmedUp \/ WarmupFails
  PROVE  \E c \in Children :
           /\ OnlyTasks(child, c) /\ Sound(c, faults.cancelled) /\ ChildBecomes(c)
           /\ \A x \in Requests : Works(c, x) => Works(child, x)
           /\ child.up /\ UNCHANGED <<main, request, toChild>>
<1>1. Sound(child, faults.cancelled)
  BY DEF TaskInv
<1>2. CASE WarmedUp
  <2>1. PICK c : c = IF Heads(Ready(child)) = <<>> THEN Ready(child)
                     ELSE Execute(Ready(child), Head(Heads(Ready(child))))
    OBVIOUS
  <2>2. /\ Sound(c, faults.cancelled) /\ OnlyTasks(child, c)
        /\ \A x \in Requests : Works(c, x) => Works(child, x)
    BY <1>1, <2>1, WarmupEnds
  <2>3. ChildBecomes(c) /\ child.up /\ UNCHANGED <<main, request, toChild>>
    BY <1>2, <2>1 DEF WarmedUp, Ready, Heads
  <2>4. c \in Children
    BY <2>2 DEF Sound, Settling
  <2> QED BY <2>2, <2>3, <2>4
<1>3. CASE WarmupFails
  <2>1. PICK c : c = IF Heads(Refused(child)) = <<>> THEN Refused(child)
                     ELSE Settle(Refused(child), Head(Heads(Refused(child))), "failed")
    OBVIOUS
  <2>2. /\ Sound(c, faults.cancelled) /\ OnlyTasks(child, c)
        /\ \A x \in Requests : Works(c, x) => Works(child, x)
    BY <1>1, <1>3, <2>1, WarmupEnds DEF WarmupFails
  <2>3. ChildBecomes(c) /\ child.up /\ UNCHANGED <<main, request, toChild>>
    BY <1>3, <2>1 DEF WarmupFails, Refused, Heads
  <2>4. c \in Children
    BY <2>2 DEF Sound, Settling
  <2> QED BY <2>2, <2>3, <2>4
<1> QED BY <1>2, <1>3

\* What is built next, and what it rests on, after each step of the evonodes.
LEMMA EvonodesLatest ==
  ASSUME NEW c \in Children, Latest(c), Fresh(c)
  PROVE  /\ \A mode \in Modes :
              Latest(SetDapi(c, mode)) /\ Fresh(SetDapi(c, mode))
                /\ SetDapi(c, mode).list = c.list /\ SetDapi(c, mode).mode = mode
         /\ \A list \in Nat : list # 0 /\ c.list <= list =>
              Latest(Probe(c, list)) /\ Fresh(Probe(c, list))
                /\ Probe(c, list).list = list /\ Probe(c, list).mode = c.mode
         /\ Latest(UseSeedNodes(c)) /\ Fresh(UseSeedNodes(c))
              /\ UseSeedNodes(c).list = c.list /\ UseSeedNodes(c).mode = c.mode
         /\ Latest(RefillBannedPool(c)) /\ Fresh(RefillBannedPool(c))
              /\ RefillBannedPool(c).list = c.list /\ RefillBannedPool(c).mode = c.mode
<1>1. /\ c.list \in Nat /\ c.refill \in Nat /\ c.pin \in Nat /\ c.probes \subseteq Probes
      /\ \A p \in c.probes : p.list \in Nat
  BY DEF Children, Probes
<1>2. ASSUME NEW mode \in Modes
      PROVE  Latest(SetDapi(c, mode)) /\ Fresh(SetDapi(c, mode))
               /\ SetDapi(c, mode).list = c.list /\ SetDapi(c, mode).mode = mode
  <2>1. PICK d : d = SetDapi(c, mode)
    OBVIOUS
  <2>2. /\ d.list = c.list /\ d.probes = c.probes /\ d.retries = c.retries /\ d.refill = c.refill
        /\ d.pin = c.pin /\ d.sdk = NoSdk /\ d.mode = mode
    BY <2>1 DEF SetDapi, Children
  <2> QED BY <2>1, <2>2 DEF Latest, Fresh
<1>3. ASSUME NEW list \in Nat, list # 0, c.list <= list
      PROVE  Latest(Probe(c, list)) /\ Fresh(Probe(c, list))
               /\ Probe(c, list).list = list /\ Probe(c, list).mode = c.mode
  <2>1. PICK d : d = Probe(c, list)
    OBVIOUS
  <2>2. PICK p : p = [list |-> list, some |-> FALSE]
    OBVIOUS
  <2>3. /\ d.list = list /\ d.probes = c.probes \union {p} /\ d.retries = c.retries
        /\ d.refill = c.refill /\ d.pin = c.pin /\ d.sdk = c.sdk /\ d.mode = c.mode
        /\ p.list = list
    BY <2>1, <2>2 DEF Probe, Children
  <2>4. Latest(d)
    <3>1. \A n \in Nat : n <= c.list => n <= list
      BY <1>1, <1>3
    <3> QED BY <1>1, <1>3, <2>3, <3>1 DEF Latest
  <2>5. Fresh(d)
    BY <2>3 DEF Fresh, FreshSdk
  <2> QED BY <2>1, <2>3, <2>4, <2>5
<1>4. /\ Latest(UseSeedNodes(c)) /\ Fresh(UseSeedNodes(c))
      /\ UseSeedNodes(c).list = c.list /\ UseSeedNodes(c).mode = c.mode
  <2>1. CASE c.pin # None
    <3>1. UseSeedNodes(c) = c
      BY <2>1 DEF UseSeedNodes
    <3> QED BY <3>1
  <2>2. CASE c.pin = None
    <3>1. PICK d : d = UseSeedNodes(c)
      OBVIOUS
    <3>2. /\ d.list = c.list /\ d.probes = c.probes /\ d.retries = c.retries /\ d.refill = c.refill
          /\ d.sdk = NoSdk /\ d.mode = c.mode
      BY <2>2, <3>1 DEF UseSeedNodes, Children
    <3>3. Latest(d)
      BY <2>2, <3>2 DEF Latest, None
    <3> QED BY <3>1, <3>2, <3>3 DEF Fresh
  <2> QED BY <2>1, <2>2
<1>5. /\ Latest(RefillBannedPool(c)) /\ Fresh(RefillBannedPool(c))
      /\ RefillBannedPool(c).list = c.list /\ RefillBannedPool(c).mode = c.mode
  <2>1. PICK d : d = RefillBannedPool(c)
    OBVIOUS
  <2>2. /\ d.list = c.list /\ d.probes = c.probes /\ d.retries = c.retries
        /\ d.refill = c.refill \/ d.refill = c.list
        /\ d.sdk = c.sdk \/ d.sdk = NoSdk
        /\ d.pin = c.pin /\ d.mode = c.mode
    BY <2>1 DEF RefillBannedPool, Children
  <2>3. Latest(d) /\ Fresh(d)
    BY <1>1, <2>2 DEF Latest, Fresh, FreshSdk
  <2> QED BY <2>1, <2>2, <2>3
<1> QED BY <1>2, <1>3, <1>4, <1>5

LEMMA ForceChild ==
  ASSUME TaskInv, ForceInv, child.up, NEW c, Sound(c, faults.cancelled), ChildBecomes(c),
         c.up = child.up, Latest(c), Fresh(c), UNCHANGED main,
         ListSoon(toChild', c.list, main.list),
         ~main.reload => ModeSoon(toChild', c.mode, main.mode)
  PROVE  ForceInv'
<1>1. toMain \in Seq(Says \union {Exit})
  BY ForceTypes
<1>2. /\ c.out \in Seq(Says) /\ SameEvonodes(c, child') /\ child'.sdk = c.sdk
      /\ toMain' = toMain \o c.out
  BY <1>1, Became DEF ChildBecomes
<1>3. /\ child'.up /\ child'.list = c.list /\ child'.mode = c.mode /\ child'.pin = c.pin
      /\ child'.probes = c.probes /\ child'.retries = c.retries /\ child'.refill = c.refill
  BY <1>2 DEF SameEvonodes
<1>4. Latest(child') /\ Fresh(child')
  BY <1>2, <1>3 DEF Latest, Fresh, FreshSdk
<1>5. \A i \in DOMAIN toMain' : toMain'[i] # Exit
  <2> DEFINE S == Says \union {Exit}
  <2>1. PICK p \in Seq(S) : p = toMain
    BY <1>1
  <2>2. PICK q \in Seq(Says) : q = c.out
    BY <1>2
  <2>3. \A i \in DOMAIN p : p[i] # Exit
    BY <2>1 DEF ForceInv, Ups
  <2>4. q \in Seq(S) /\ \A i \in DOMAIN q : q[i] # Exit
    <3>1. \A x \in Says : x # Exit
      BY DEF Says, Responses, Exit
    <3>2. Says \subseteq S
      OBVIOUS
    <3> HIDE DEF S
    <3> QED BY <2>2, <3>1, <3>2
  <2> HIDE DEF S
  <2>5. \A i \in DOMAIN (p \o q) : (p \o q)[i] # Exit
    BY <2>3, <2>4, Parts
  <2> QED BY <1>2, <2>1, <2>2, <2>5
<1>6. Ups'
  BY <1>3, <1>5 DEF ForceInv, Ups
<1>7. Commanded'
  BY <1>3 DEF Commanded
<1> QED BY <1>4, <1>6, <1>7 DEF ForceInv

LEMMA ForceSame ==
  ASSUME TaskInv, ForceInv, child.up, NEW b, Latest(b), Fresh(b), b.up = child.up,
         b.list = child.list, b.mode = child.mode,
         NEW c, Sound(c, faults.cancelled), OnlyTasks(b, c), ChildBecomes(c),
         UNCHANGED main,
         ListSoon(toChild', child.list, main.list),
         ~main.reload => ModeSoon(toChild', child.mode, main.mode)
  PROVE  ForceInv'
<1>1. SameEvonodes(b, c) /\ Fresh(c)
  BY DEF OnlyTasks
<1>2. Latest(c) /\ c.up = child.up /\ c.list = child.list /\ c.mode = child.mode
  BY <1>1 DEF SameEvonodes, Latest
<1> QED BY <1>1, <1>2, ForceChild

LEMMA ForceTasks ==
  ASSUME TaskInv, ForceInv,
         \/ \E r \in Requests : \/ TaskSucceeds(r)
                                \/ \E banned, unheard \in BOOLEAN : TaskFails(r, banned, unheard)
         \/ WarmedUp \/ WarmupFails
  PROVE  ForceInv'
<1>1. Latest(child) /\ Fresh(child) /\ child \in Children
  BY ForceTypes DEF ForceInv
<1>2. PICK b \in Children, c \in Children :
        /\ b = child \/ b = RefillBannedPool(child)
        /\ OnlyTasks(b, c) /\ Sound(c, faults.cancelled) /\ ChildBecomes(c)
        /\ child.up /\ UNCHANGED <<main, request, toChild>>
  <2>1. CASE WarmedUp \/ WarmupFails
    <3>1. PICK c \in Children :
            /\ OnlyTasks(child, c) /\ Sound(c, faults.cancelled) /\ ChildBecomes(c)
            /\ child.up /\ UNCHANGED <<main, request, toChild>>
      BY <2>1, Warmed
    <3> QED BY <1>1, <3>1
  <2>2. ASSUME NEW r \in Requests,
               TaskSucceeds(r) \/ \E banned, unheard \in BOOLEAN : TaskFails(r, banned, unheard)
        PROVE  \E b \in Children, c \in Children :
                 /\ b = child \/ b = RefillBannedPool(child)
                 /\ OnlyTasks(b, c) /\ Sound(c, faults.cancelled) /\ ChildBecomes(c)
                 /\ child.up /\ UNCHANGED <<main, request, toChild>>
    BY <2>2, Ended
  <2> QED BY <2>1, <2>2
<1>3. Latest(b) /\ Fresh(b) /\ b.list = child.list /\ b.mode = child.mode
  BY <1>1, <1>2, EvonodesLatest
<1>4. b.up = child.up
  <2>1. SameTasks(child, RefillBannedPool(child))
    BY <1>1, EvonodeSteps
  <2> QED BY <1>2, <2>1 DEF SameTasks
<1>5. /\ ListSoon(toChild', child.list, main.list)
      /\ ~main.reload => ModeSoon(toChild', child.mode, main.mode)
  BY <1>2 DEF ForceInv, Commanded
<1> QED BY <1>2, <1>3, <1>4, <1>5, ForceSame

LEMMA ForceCommand == ASSUME TaskInv, ForceInv, ChildReceives PROVE ForceInv'
<1>1. /\ Latest(child) /\ Fresh(child) /\ child \in Children
      /\ main.list \in Nat /\ child.list \in Nat
  BY ForceTypes DEF ForceInv
<1>2. PICK command \in Commands, c \in Children :
        /\ command = Head(toChild) /\ c = Handled(child, command)
        /\ Sound(c, faults.cancelled) /\ ChildBecomes(c)
        /\ toChild \in Seq(Commands) /\ toChild # <<>> /\ toChild' = Tail(toChild)
        /\ child.up /\ UNCHANGED <<main, request, faults>>
        /\ command.type = "request" => OnlyTasks(child, c)
        /\ command.type = "cancel" => OnlyTasks(child, c)
  BY Taken
<1>3. ListSoon(toChild, child.list, main.list)
  BY <1>2 DEF ForceInv, Commanded
<1>4. /\ ListSoon(toChild', IF IsList(command) THEN command.list ELSE child.list, main.list)
      /\ ~main.reload =>
           ModeSoon(toChild', IF IsMode(command) THEN command.mode ELSE child.mode, main.mode)
  BY <1>1, <1>2, <1>3, TailSoon DEF ForceInv, Commanded
<1>5. CASE command.type = "request" \/ command.type = "cancel"
  <2>1. ~IsList(command) /\ ~IsMode(command) /\ OnlyTasks(child, c)
    BY <1>2, <1>5 DEF IsList, IsMode
  <2> QED BY <1>1, <1>2, <1>4, <2>1, ForceSame
<1>6. CASE command.type = "setDapi"
  <2>1. ~IsList(command) /\ IsMode(command) /\ command.mode \in Modes
    BY <1>6, Requested DEF IsList, IsMode
  <2>2. c = SetDapi(child, command.mode)
    BY <1>2, <1>6 DEF Handled
  <2>3. Latest(c) /\ Fresh(c) /\ c.list = child.list /\ c.mode = command.mode
    BY <1>1, <2>1, <2>2, EvonodesLatest
  <2>4. c.up = child.up
    BY <1>1, <2>1, <2>2, EvonodeSteps DEF SameTasks
  <2> QED BY <1>2, <1>4, <2>1, <2>3, <2>4, ForceChild
<1>7. CASE command.type = "setEvonodeDapiUrls"
  <2>1. IsList(command) /\ ~IsMode(command) /\ command.list \in Nat
    BY <1>7, Requested DEF IsList, IsMode
  <2>2. c = Probe(child, command.list)
    BY <1>2, <1>7 DEF Handled
  <2>3. command.list # 0 /\ child.list <= command.list
    <3>1. 1 \in DOMAIN toChild /\ toChild[1] = command
      BY <1>2, Tailed
    <3> QED BY <1>3, <2>1, <3>1 DEF ListSoon
  <2>4. Latest(c) /\ Fresh(c) /\ c.list = command.list /\ c.mode = child.mode
    BY <1>1, <2>1, <2>2, <2>3, EvonodesLatest
  <2>5. c.up = child.up
    BY <1>1, <2>1, <2>2, EvonodeSteps DEF SameTasks
  <2> QED BY <1>2, <1>4, <2>1, <2>4, <2>5, ForceChild
<1>8. CASE command.type = "useSeedNodes"
  <2>1. ~IsList(command) /\ ~IsMode(command)
    BY <1>8 DEF IsList, IsMode
  <2>2. c = UseSeedNodes(child)
    BY <1>2, <1>8 DEF Handled
  <2>3. Latest(c) /\ Fresh(c) /\ c.list = child.list /\ c.mode = child.mode
    BY <1>1, <2>2, EvonodesLatest
  <2>4. c.up = child.up
    BY <1>1, <2>2, EvonodeSteps DEF SameTasks
  <2> QED BY <1>2, <1>4, <2>1, <2>3, <2>4, ForceChild
<1> QED BY <1>5, <1>6, <1>7, <1>8, Requested

LEMMA ForceQuiet ==
  ASSUME ForceInv, UNCHANGED <<main, toChild, toMain>>, child'.up = child.up,
         child'.list = child.list, child'.mode = child.mode, Latest(child'), Fresh(child')
  PROVE  ForceInv'
BY DEF ForceInv, Ups, Commanded

LEMMA ForceProbe ==
  ASSUME TaskInv, ForceInv, NEW probe \in child.probes,
         \/ \E over \in BOOLEAN :
              ProbePins(probe, over) /\ (NoOlderAnswer => child.list <= probe.list)
         \/ ProbeFails(probe)
  PROVE  ForceInv'
<1>1. /\ child \in Children /\ Sound(child, faults.cancelled) /\ child.list \in Nat
      /\ Latest(child) /\ Fresh(child) /\ main.list \in Nat
  BY ForceTypes DEF ForceInv
<1>2. child.probes \subseteq Probes /\ probe.list \in Nat /\ probe.list # 0 /\ probe.list <= child.list
  <2>1. child.probes \subseteq Probes
    BY <1>1 DEF Children
  <2> QED BY <1>1, <2>1 DEF Probes, Latest
<1>3. ASSUME NEW over \in BOOLEAN, ProbePins(probe, over),
             NoOlderAnswer => child.list <= probe.list
      PROVE  ForceInv'
  <2>1. PICK again : again = [probe EXCEPT !.some = TRUE]
    OBVIOUS
  <2>2. again \in Probes /\ again.list = probe.list
    BY <1>2, <2>1 DEF Probes
  <2>3. PICK probes : probes = (child.probes \ {probe}) \union (IF over THEN {} ELSE {again})
    OBVIOUS
  <2>4. probes \subseteq Probes /\ \A p \in probes : p \in child.probes \/ p = again
    BY <1>2, <2>2, <2>3
  <2>5. PICK b : b = [child EXCEPT !.probes = probes]
    OBVIOUS
  <2>6. /\ b \in Children /\ SameTasks(child, b) /\ b.up = child.up /\ b.mode = child.mode
        /\ b.list = child.list /\ b.probes = probes /\ b.retries = child.retries
        /\ b.refill = child.refill
    BY <1>1, <2>4, <2>5 DEF Children, SameTasks
  <2>7. PICK c : c = Pin(b, probe.list)
    OBVIOUS
  <2>8. /\ c \in Children /\ SameTasks(b, c) /\ c.mode = b.mode /\ c.list = b.list
        /\ c.pin = probe.list /\ c.sdk = NoSdk /\ c.probes = b.probes /\ c.retries = b.retries
        /\ c.refill = b.refill
    BY <1>2, <2>6, <2>7, PinsList
  <2>9. Sound(c, faults.cancelled) /\ c.up = child.up
    <3>1. SameTasks(child, c)
      BY <2>6, <2>8 DEF SameTasks
    <3>2. Sound(c, faults.cancelled)
      BY <1>1, <2>8, <3>1, EvonodesKept
    <3> QED BY <3>1, <3>2 DEF SameTasks
  <2>10. NoOlderAnswer => c.pin = c.list
    BY <1>1, <1>2, <1>3, <2>6, <2>8
  <2>11. Latest(c) /\ Fresh(c)
    <3>1. \A p \in c.probes : p.list # 0 /\ p.list <= c.list
      BY <1>1, <1>2, <2>2, <2>4, <2>6, <2>8 DEF Latest
    <3>2. (\A n \in c.retries : n # 0) /\ c.refill <= c.list
      BY <1>1, <2>6, <2>8 DEF Latest
    <3> QED BY <2>8, <2>10, <3>1, <3>2 DEF Latest, Fresh
  <2>12. ChildBecomes(c) /\ child.up /\ UNCHANGED <<main, toChild>>
    BY <1>3, <2>1, <2>3, <2>5, <2>7 DEF ProbePins
  <2>13. /\ ListSoon(toChild', c.list, main.list)
         /\ ~main.reload => ModeSoon(toChild', c.mode, main.mode)
    BY <2>6, <2>8, <2>12 DEF ForceInv, Commanded
  <2> QED BY <2>9, <2>11, <2>12, <2>13, ForceChild
<1>4. CASE ProbeFails(probe)
  <2>1. PICK retries : retries = IF probe.list = child.list THEN child.retries \union {probe.list}
                                 ELSE child.retries
    OBVIOUS
  <2>2. PICK probes : probes = child.probes \ {probe}
    OBVIOUS
  <2>3. child' = [child EXCEPT !.probes = probes, !.retries = retries]
    BY <1>4, <2>1, <2>2 DEF ProbeFails
  <2>4. /\ child'.up = child.up /\ child'.mode = child.mode /\ child'.list = child.list
        /\ child'.pin = child.pin /\ child'.sdk = child.sdk /\ child'.refill = child.refill
        /\ child'.probes = probes /\ child'.retries = retries
    BY <1>1, <2>3 DEF Children
  <2>5. Latest(child')
    BY <1>1, <1>2, <2>1, <2>2, <2>4 DEF Latest
  <2>6. Fresh(child')
    BY <1>1, <2>4 DEF Fresh, FreshSdk
  <2>7. UNCHANGED <<main, toChild, toMain>>
    BY <1>4 DEF ProbeFails
  <2> QED BY <2>4, <2>5, <2>6, <2>7, ForceQuiet
<1> QED BY <1>3, <1>4

LEMMA ForceRetry ==
  ASSUME TaskInv, ForceInv,
         \/ \E list \in child.retries : Reprobe(list)
         \/ \E pins \in BOOLEAN :
              RefillEnds(pins) /\ (NoOlderAnswer /\ pins => child.list <= child.refill)
  PROVE  ForceInv'
<1>1. /\ child \in Children /\ Sound(child, faults.cancelled) /\ child.list \in Nat
      /\ Latest(child) /\ Fresh(child) /\ main.list \in Nat
  BY ForceTypes DEF ForceInv
<1>2. child.refill \in Nat /\ child.retries \subseteq Nat /\ child.refill <= child.list
  BY <1>1 DEF Children, Latest
<1>3. ASSUME NEW list \in child.retries, Reprobe(list)
      PROVE  ForceInv'
  <2>1. PICK tried : tried = [child EXCEPT !.retries = child.retries \ {list}]
    OBVIOUS
  <2>2. /\ tried \in Children /\ tried.up = child.up /\ tried.mode = child.mode
        /\ tried.list = child.list /\ tried.pin = child.pin /\ tried.sdk = child.sdk
        /\ tried.refill = child.refill /\ tried.probes = child.probes
        /\ tried.retries = child.retries \ {list}
    BY <1>1, <2>1 DEF Children
  <2>3. PICK p : p = [list |-> list, some |-> FALSE]
    OBVIOUS
  <2>4. PICK d : d = Probe(tried, list)
    OBVIOUS
  <2>5. /\ d.up = child.up /\ d.mode = child.mode /\ d.list = list
        /\ d.pin = child.pin /\ d.sdk = child.sdk /\ d.refill = child.refill
        /\ d.probes = child.probes \union {p} /\ d.retries = child.retries \ {list}
        /\ p.list = list
    BY <2>2, <2>3, <2>4 DEF Probe, Children
  <2>6. child' = IF list = child.list THEN d ELSE tried
    BY <1>3, <2>1, <2>4 DEF Reprobe
  <2>7. list # 0
    BY <1>1 DEF Latest
  <2>8. Latest(child') /\ Fresh(child')
    <3>1. CASE list = child.list
      <4>1. Latest(d)
        BY <1>1, <2>5, <2>7, <3>1 DEF Latest
      <4> QED BY <1>1, <2>5, <2>6, <3>1, <4>1 DEF Fresh, FreshSdk
    <3>2. CASE list # child.list
      <4>1. Latest(tried)
        BY <1>1, <2>2, <3>2 DEF Latest
      <4> QED BY <1>1, <2>2, <2>6, <3>2, <4>1 DEF Fresh, FreshSdk
    <3> QED BY <3>1, <3>2
  <2>9. child'.up = child.up /\ child'.list = child.list /\ child'.mode = child.mode
    BY <2>2, <2>5, <2>6
  <2>10. UNCHANGED <<main, toChild, toMain>>
    BY <1>3 DEF Reprobe
  <2> QED BY <2>8, <2>9, <2>10, ForceQuiet
<1>4. ASSUME NEW pins \in BOOLEAN, RefillEnds(pins),
             NoOlderAnswer /\ pins => child.list <= child.refill
      PROVE  ForceInv'
  <2>1. PICK over : over = [child EXCEPT !.refill = 0]
    OBVIOUS
  <2>2. /\ over \in Children /\ SameTasks(child, over) /\ over.up = child.up
        /\ over.mode = child.mode /\ over.list = child.list /\ over.pin = child.pin
        /\ over.sdk = child.sdk /\ over.refill = 0 /\ over.probes = child.probes
        /\ over.retries = child.retries
    BY <1>1, <2>1 DEF Children, SameTasks
  <2>3. PICK d : d = Pin(over, child.refill)
    OBVIOUS
  <2>4. /\ d \in Children /\ SameTasks(over, d) /\ d.mode = over.mode /\ d.list = over.list
        /\ d.pin = child.refill /\ d.sdk = NoSdk /\ d.probes = over.probes
        /\ d.retries = over.retries /\ d.refill = over.refill
    BY <1>2, <2>2, <2>3, PinsList
  <2>5. PICK c : c = IF pins THEN d ELSE over
    OBVIOUS
  <2>6. c \in Children /\ SameTasks(child, c) /\ c.list = child.list /\ c.mode = child.mode
    BY <2>2, <2>4, <2>5 DEF SameTasks
  <2>7. Sound(c, faults.cancelled) /\ c.up = child.up
    BY <1>1, <2>6, EvonodesKept DEF SameTasks
  <2>8. Latest(over) /\ Fresh(over)
    BY <1>1, <2>2 DEF Latest, Fresh, FreshSdk
  <2>9. pins => Latest(d) /\ Fresh(d)
    <3>1. NoOlderAnswer /\ pins => d.pin = d.list
      BY <1>1, <1>2, <1>4, <2>2, <2>4
    <3>2. Fresh(d)
      BY <2>4 DEF Fresh
    <3> QED BY <2>2, <2>4, <2>8, <3>1, <3>2 DEF Latest
  <2>10. Latest(c) /\ Fresh(c)
    BY <2>5, <2>8, <2>9
  <2>11. ChildBecomes(c) /\ child.up /\ UNCHANGED <<main, toChild>>
    BY <1>4, <2>1, <2>3, <2>5 DEF RefillEnds
  <2>12. /\ ListSoon(toChild', c.list, main.list)
         /\ ~main.reload => ModeSoon(toChild', c.mode, main.mode)
    BY <2>6, <2>11 DEF ForceInv, Commanded
  <2> QED BY <2>7, <2>10, <2>11, <2>12, ForceChild
<1> QED BY <1>3, <1>4

LEMMA ForceDeath == ASSUME TaskInv, ForceInv, ChildDies PROVE ForceInv'
<1>1. child.up /\ child' = NoChild /\ toMain' = Append(toMain, Exit) /\ UNCHANGED main
  BY DEF ChildDies, Exit
<1>2. ~child'.up /\ Latest(child') /\ Fresh(child')
  BY <1>1, NewChild
<1>3. \A i \in DOMAIN toMain' : toMain'[i] = Exit => i = Len(toMain')
  <2> DEFINE S == Says \union {Exit}
  <2>1. PICK q \in Seq(S) : q = toMain
    BY ForceTypes
  <2>2. \A i \in DOMAIN q : q[i] # Exit
    BY <1>1, <2>1 DEF ForceInv, Ups
  <2>3. Exit \in S
    OBVIOUS
  <2> HIDE DEF S
  <2>4. /\ Len(q) \in Nat /\ Len(Append(q, Exit)) = Len(q) + 1
        /\ DOMAIN q = 1 .. Len(q) /\ DOMAIN Append(q, Exit) = 1 .. Len(q) + 1
        /\ \A i \in 1 .. Len(q) : Append(q, Exit)[i] = q[i]
    BY <2>1, <2>3
  <2> QED BY <1>1, <2>1, <2>2, <2>4
<1>4. main.child
  BY <1>1 DEF ForceInv, Ups
<1> QED BY <1>1, <1>2, <1>3, <1>4 DEF ForceInv, Ups, Commanded

LEMMA ForceStart == Init => ForceInv
<1> SUFFICES ASSUME Init PROVE ForceInv
  OBVIOUS
<1>1. ~child.up /\ Latest(child) /\ Fresh(child)
  BY NewChild DEF Init
<1>2. toMain = <<>> /\ \A i \in DOMAIN toMain : FALSE
  BY DEF Init
<1> QED BY <1>1, <1>2 DEF ForceInv, Ups, Commanded

LEMMA ForceStep == TaskInv /\ ForceInv /\ [Next]_vars => ForceInv'
<1> SUFFICES ASSUME TaskInv, ForceInv, [Next]_vars PROVE ForceInv'
  OBVIOUS
<1>1. child \in Children /\ child.list \in Nat /\ child.refill \in Nat
      /\ \A p \in child.probes : p.list \in Nat
  <2>1. child \in Children /\ child.list \in Nat
    BY ForceTypes
  <2> QED BY <2>1 DEF Children, Probes
<1>2. CASE (\E r \in Requests : Request(r) \/ Cancel(r)) \/ PinTimeout
  BY <1>2, ForceMain
<1>3. CASE NewEvonodeList \/ ReloadDapi \/ ApplyDapi
  BY <1>3, ForcePost
<1>4. CASE MainReceives
  BY <1>4, ForceReceive
<1>5. CASE ChildReceives
  BY <1>5, ForceCommand
<1>6. CASE \/ \E r \in Requests : \/ TaskSucceeds(r)
                                  \/ \E banned, unheard \in BOOLEAN : TaskFails(r, banned, unheard)
           \/ WarmedUp \/ WarmupFails
  BY <1>6, ForceTasks
<1>7. ASSUME NEW r \in Requests, Broadcasts(r) PROVE ForceInv'
  BY <1>7, ForceQuiet DEF Broadcasts, ForceInv
<1>8. ASSUME NEW probe \in child.probes,
             \/ \E over \in BOOLEAN :
                  Allowed("older probe answers", probe.list < child.list) /\ ProbePins(probe, over)
             \/ ProbeFails(probe)
      PROVE  ForceInv'
  <2>1. Allowed("older probe answers", probe.list < child.list)
          => (NoOlderAnswer => child.list <= probe.list)
    <3>1. NoOlderAnswer /\ Allowed("older probe answers", probe.list < child.list)
            => ~(probe.list < child.list)
      BY DEF Allowed, NoOlderAnswer
    <3>2. ~(probe.list < child.list) => child.list <= probe.list
      BY <1>1
    <3> QED BY <3>1, <3>2
  <2> QED BY <1>8, <2>1, ForceProbe
<1>9. ASSUME \/ \E list \in child.retries : Reprobe(list)
             \/ \E pins \in BOOLEAN :
                  /\ Allowed("older probe answers", pins /\ child.refill < child.list)
                  /\ RefillEnds(pins)
      PROVE  ForceInv'
  <2>1. ~(child.refill < child.list) => child.list <= child.refill
    BY <1>1
  <2>2. \A pins \in BOOLEAN : Allowed("older probe answers", pins /\ child.refill < child.list)
                                => (NoOlderAnswer /\ pins => child.list <= child.refill)
    <3> SUFFICES ASSUME NEW pins \in BOOLEAN,
                        Allowed("older probe answers", pins /\ child.refill < child.list), pins,
                        NoOlderAnswer
                 PROVE  child.list <= child.refill
      OBVIOUS
    <3>1. child.refill < child.list => FALSE
      BY DEF Allowed, NoOlderAnswer
    <3> QED BY <2>1, <3>1
  <2> QED BY <1>9, <2>2, ForceRetry
<1>10. CASE ChildDies
  BY <1>10, ForceDeath
<1>11. CASE UNCHANGED vars
  BY <1>11, ForceQuiet DEF vars, ForceInv
<1> QED BY <1>2, <1>3, <1>4, <1>5, <1>6, <1>7, <1>8, <1>9, <1>10, <1>11 DEF Next

LEMMA ForceAlways == Spec => [](TaskInv /\ ForceInv)
BY TaskInit, TaskStep, ForceStart, ForceStep, PTL DEF Spec

LEMMA ForceHolds == TaskInv /\ ForceInv => ChildInStep /\ SdkFresh /\ (NoOlderAnswer => InForce)
<1> SUFFICES ASSUME TaskInv, ForceInv
             PROVE  ChildInStep /\ SdkFresh /\ (NoOlderAnswer => LatestPinned)
  BY DEF InForce
<1>1. \A i \in DOMAIN <<>> : FALSE
  OBVIOUS
<1>2. ChildInStep
  <2> SUFFICES ASSUME Drained, main.child, ~main.reload
               PROVE  child.list = main.list /\ child.mode = main.mode
    BY DEF ChildInStep
  <2>1. toChild = <<>> /\ child.up
    BY DEF Drained
  <2>2. ListSoon(<<>>, child.list, main.list) /\ ModeSoon(<<>>, child.mode, main.mode)
    BY <2>1 DEF ForceInv, Commanded
  <2> QED BY <1>1, <2>2 DEF ListSoon, ModeSoon
<1>3. NoOlderAnswer => LatestPinned
  BY DEF ForceInv, Latest, LatestPinned
<1>4. SdkFresh
  BY DEF ForceInv, Fresh, SdkFresh
<1> QED BY <1>2, <1>3, <1>4

\* Main's evonodes and preference reach the child through forks, deaths, switches and
\* fallbacks, and the cached SDK is one for what the child has (ensureChild, setDapi,
\* SdkRegistry.get).
THEOREM ChildFollowsMain == Spec => [](ChildInStep /\ SdkFresh)
BY ForceAlways, ForceHolds, PTL

\* And its evonodes are those of the latest list unless a probe of that is still under
\* way: where no answer for an older list comes late (SdkRegistry.probeAndPin).
THEOREM WhatMainSaidIsInForce == ASSUME NoOlderAnswer PROVE Spec => []InForce
<1>1. TaskInv /\ ForceInv => InForce
  BY NoOlderAnswer, ForceHolds
<1> QED BY <1>1, ForceAlways, PTL

-----------------------------------------------------------------------------
(* Why nothing runs before there is an evonode *)

Waits == Requests \ Exempt
IsSeeds(command) == command.type = "useSeedNodes"
Seeding(q) == \E i \in DOMAIN q : IsSeeds(q[i])

\* No preference is behind a request that waits for a pin, and unless the preference is
\* the user's own urls a pin or the seeds are before it.
Covered(c, q, mode) ==
  /\ \A i \in DOMAIN q : \A r \in Waits : q[i] = Ask(r) =>
       /\ \A j \in DOMAIN q : IsMode(q[j]) => j < i
       /\ mode = "static" \/ c.pin # None \/ \E j \in DOMAIN q : j < i /\ IsSeeds(q[j])
  /\ \A r \in Waits : Works(c, r) =>
       /\ \A j \in DOMAIN q : ~IsMode(q[j])
       /\ mode = "static" \/ c.pin # None

\* Main does not hold requests back for nothing.
Awaited ==
  /\ child.up /\ main.pinned => child.pin # None \/ Seeding(toChild)
  /\ main.pinned => main.child
  /\ child.up => \A i \in DOMAIN toMain : toMain[i].type = "pinned" => child.pin # None
  /\ \A r \in Requests : request[r] = "pinning" => r \notin Exempt

Seeded(c) == \A r \in DOMAIN c.running \ Exempt : c.running[r] # None

SeedInv ==
  Covered(child, toChild, main.mode) /\ (main.reload => ~SomeOut) /\ Awaited /\ Seeded(child)

SwitchesAlone ==
  {"request while the preference is saved", "switch with requests out"} \subseteq Excluded

LEMMA CoveredBehind ==
  ASSUME NEW p \in Seq(Commands), NEW q \in Seq(Commands), NEW c, NEW mode,
         Covered(c, p, mode), \A i \in DOMAIN q : ~IsMode(q[i]),
         \A i \in DOMAIN q : \A r \in Waits : q[i] = Ask(r) =>
           \/ mode = "static" \/ c.pin # None \/ Seeding(p)
           \/ \E j \in DOMAIN q : j < i /\ IsSeeds(q[j])
  PROVE  Covered(c, p \o q, mode)
<1> DEFINE s == p \o q
<1>1. /\ \A i \in DOMAIN p : i \in Nat /\ i <= Len(p) /\ i \in DOMAIN s /\ s[i] = p[i]
      /\ \A i \in DOMAIN q : i \in Nat /\ Len(p) + i \in DOMAIN s /\ i >= 1 /\ s[Len(p) + i] = q[i]
      /\ \A i \in DOMAIN s : \/ i \in DOMAIN p /\ s[i] = p[i]
                             \/ \E n \in DOMAIN q : i = Len(p) + n /\ s[i] = q[n]
      /\ Len(p) \in Nat
  <2>1. \A i \in DOMAIN q : i \in Nat
    OBVIOUS
  <2> QED BY <2>1, Parts
<1> HIDE DEF s
<1>2. \A j \in DOMAIN s : IsMode(s[j]) => j \in DOMAIN p /\ s[j] = p[j]
  BY <1>1
<1>3. ASSUME NEW i \in DOMAIN s, NEW r \in Waits, s[i] = Ask(r)
      PROVE  /\ \A j \in DOMAIN s : IsMode(s[j]) => j < i
             /\ mode = "static" \/ c.pin # None \/ \E j \in DOMAIN s : j < i /\ IsSeeds(s[j])
  <2>1. CASE i \in DOMAIN p /\ s[i] = p[i]
    <3>1. /\ \A j \in DOMAIN p : IsMode(p[j]) => j < i
          /\ mode = "static" \/ c.pin # None \/ \E j \in DOMAIN p : j < i /\ IsSeeds(p[j])
      BY <1>3, <2>1 DEF Covered
    <3>2. \A j \in DOMAIN s : IsMode(s[j]) => j < i
      BY <1>2, <3>1
    <3>3. (\E j \in DOMAIN p : j < i /\ IsSeeds(p[j])) => \E j \in DOMAIN s : j < i /\ IsSeeds(s[j])
      BY <1>1
    <3> QED BY <3>1, <3>2, <3>3
  <2>2. ASSUME NEW n \in DOMAIN q, i = Len(p) + n, s[i] = q[n]
        PROVE  /\ \A j \in DOMAIN s : IsMode(s[j]) => j < i
               /\ mode = "static" \/ c.pin # None \/ \E j \in DOMAIN s : j < i /\ IsSeeds(s[j])
    <3>1. \A j \in DOMAIN p : j < i
      BY <1>1, <2>2
    <3>2. \A j \in DOMAIN s : IsMode(s[j]) => j < i
      BY <1>2, <3>1
    <3>3. Seeding(p) => \E j \in DOMAIN s : j < i /\ IsSeeds(s[j])
      BY <1>1, <3>1 DEF Seeding
    <3>4. (\E j \in DOMAIN q : j < n /\ IsSeeds(q[j])) => \E j \in DOMAIN s : j < i /\ IsSeeds(s[j])
      <4> SUFFICES ASSUME NEW j \in DOMAIN q, j < n, IsSeeds(q[j])
                   PROVE  \E k \in DOMAIN s : k < i /\ IsSeeds(s[k])
        OBVIOUS
      <4>1. Len(p) + j \in DOMAIN s /\ s[Len(p) + j] = q[j] /\ Len(p) + j < i
        BY <1>1, <2>2
      <4> QED BY <4>1
    <3>5. q[n] = Ask(r)
      BY <1>3, <2>2
    <3> QED BY <3>2, <3>3, <3>4, <3>5
  <2> QED BY <1>1, <2>1, <2>2
<1>4. ASSUME NEW r \in Waits, Works(c, r)
      PROVE  (\A j \in DOMAIN s : ~IsMode(s[j])) /\ (mode = "static" \/ c.pin # None)
  BY <1>2, <1>4 DEF Covered
<1> QED BY <1>3, <1>4 DEF Covered, s

LEMMA CoveredTail ==
  ASSUME NEW q \in Seq(Commands), q # <<>>, NEW c, NEW d, NEW mode, Covered(c, q, mode),
         c.pin # None => d.pin # None, IsSeeds(Head(q)) => d.pin # None,
         \A r \in Waits : Works(d, r) => Works(c, r) \/ Head(q) = Ask(r)
  PROVE  /\ Covered(d, Tail(q), mode)
         /\ Seeding(q) => Seeding(Tail(q)) \/ IsSeeds(Head(q))
<1> DEFINE t == Tail(q)
<1>1. /\ Head(q) = q[1] /\ Len(q) \in Nat /\ Len(q) >= 1
      /\ DOMAIN q = 1 .. Len(q) /\ DOMAIN t = 1 .. Len(q) - 1
      /\ \A i \in 1 .. Len(q) - 1 : t[i] = q[i + 1]
  BY Tailed
<1> HIDE DEF t
<1>2. /\ 1 \in DOMAIN q
      /\ \A i \in DOMAIN t : i \in Nat /\ i + 1 \in DOMAIN q /\ t[i] = q[i + 1] /\ 1 < i + 1
      /\ \A i \in DOMAIN q : i \in Nat /\ ~(i < 1) /\ (i = 1 \/ \E n \in DOMAIN t : i = n + 1)
  <2>1. ASSUME NEW i \in DOMAIN q PROVE i \in Nat /\ ~(i < 1) /\ (i = 1 \/ \E n \in DOMAIN t : i = n + 1)
    <3>1. i = 1 \/ i - 1 \in DOMAIN t
      BY <1>1
    <3>2. i \in Nat /\ i = (i - 1) + 1 /\ ~(i < 1)
      BY <1>1
    <3> QED BY <3>1, <3>2
  <2>2. ASSUME NEW i \in DOMAIN t
        PROVE  i \in Nat /\ i + 1 \in DOMAIN q /\ t[i] = q[i + 1] /\ 1 < i + 1
    BY <1>1
  <2> QED BY <1>1, <2>1, <2>2
<1>3. ASSUME NEW i \in DOMAIN t, NEW r \in Waits, t[i] = Ask(r)
      PROVE  /\ \A j \in DOMAIN t : IsMode(t[j]) => j < i
             /\ mode = "static" \/ d.pin # None \/ \E j \in DOMAIN t : j < i /\ IsSeeds(t[j])
  <2>1. /\ i \in Nat /\ i + 1 \in DOMAIN q /\ q[i + 1] = Ask(r)
    BY <1>2, <1>3
  <2>2. /\ \A j \in DOMAIN q : IsMode(q[j]) => j < i + 1
        /\ mode = "static" \/ c.pin # None \/ \E j \in DOMAIN q : j < i + 1 /\ IsSeeds(q[j])
    BY <2>1 DEF Covered
  <2>3. ASSUME NEW j \in DOMAIN t, IsMode(t[j]) PROVE j < i
    <3>1. j \in Nat /\ j + 1 \in DOMAIN q /\ IsMode(q[j + 1])
      BY <1>2, <2>3
    <3>2. j + 1 < i + 1
      BY <2>2, <3>1
    <3> QED BY <2>1, <3>1, <3>2
  <2>4. ASSUME NEW j \in DOMAIN q, j < i + 1, IsSeeds(q[j])
        PROVE  d.pin # None \/ \E k \in DOMAIN t : k < i /\ IsSeeds(t[k])
    <3>1. CASE j = 1
      BY <1>1, <2>4, <3>1
    <3>2. ASSUME NEW n \in DOMAIN t, j = n + 1
          PROVE  \E k \in DOMAIN t : k < i /\ IsSeeds(t[k])
      <4>1. n \in Nat /\ IsSeeds(t[n])
        BY <1>2, <2>4, <3>2
      <4>2. n < i
        BY <2>1, <2>4, <3>2, <4>1
      <4> QED BY <4>1, <4>2
    <3> QED BY <1>2, <3>1, <3>2
  <2> QED BY <2>2, <2>3, <2>4
<1>4. ASSUME NEW r \in Waits, Works(d, r)
      PROVE  (\A j \in DOMAIN t : ~IsMode(t[j])) /\ (mode = "static" \/ d.pin # None)
  <2>1. (\A j \in DOMAIN q : ~IsMode(q[j]) \/ j < 1) /\ (mode = "static" \/ c.pin # None)
    <3>1. CASE Works(c, r)
      BY <3>1 DEF Covered
    <3>2. CASE Head(q) = Ask(r)
      <4>1. /\ \A j \in DOMAIN q : IsMode(q[j]) => j < 1
            /\ mode = "static" \/ c.pin # None \/ \E j \in DOMAIN q : j < 1 /\ IsSeeds(q[j])
        BY <1>1, <1>2, <3>2 DEF Covered
      <4> QED BY <1>2, <4>1
    <3> QED BY <1>4, <3>1, <3>2
  <2> QED BY <1>2, <2>1
<1>5. Seeding(q) => Seeding(t) \/ IsSeeds(Head(q))
  <2> SUFFICES ASSUME NEW i \in DOMAIN q, IsSeeds(q[i]) PROVE Seeding(t) \/ IsSeeds(Head(q))
    BY DEF Seeding
  <2>1. CASE i = 1
    BY <1>1, <2>1
  <2>2. CASE \E n \in DOMAIN t : i = n + 1
    BY <1>2, <2>2 DEF Seeding
  <2> QED BY <1>2, <2>1, <2>2
<1> QED BY <1>3, <1>4, <1>5 DEF Covered, t

LEMMA RunsWork ==
  ASSUME NEW cancelled, NEW c, Sound(c, cancelled), NEW r \in DOMAIN c.running
  PROVE  r \in Requests /\ Works(c, r)
<1>1. c \in Children /\ Leads(c, r)
  BY DEF Sound, Settling, Orderly
<1>2. r \in Requests
  BY <1>1, RunsOfRequests DEF Children
<1>3. LaneOf[r] # NoLane => r \in ToSet(c.lanes[LaneOf[r]])
  <2>1. LaneOf[r] # NoLane => c.lanes[LaneOf[r]] \in Seq(Requests)
    BY <1>1, <1>2, LanesOfRequests DEF Children
  <2>2. \A q \in Seq(Requests) : q # <<>> => Head(q) \in ToSet(q)
    BY Tailed
  <2> QED BY <1>1, <2>1, <2>2 DEF Leads
<1> QED BY <1>2, <1>3 DEF Works

LEMMA OutMeans ==
  ASSUME NEW cancelled, NEW c, Sound(c, cancelled), NEW q \in Seq(Commands)
  PROVE  \A r \in Requests : /\ Ask(r) \in ToSet(q) <=> r \in Asked(q)
                             /\ r \in Working(c) <=> Works(c, r)
<1>1. c \in Children /\ Orderly(c)
  BY DEF Sound, Settling
<1> QED BY <1>1, BusyWorks DEF Asked, ToSet

\* While a request waits for a pin the preference is saved.
LEMMA SavedBefore ==
  ASSUME TaskInv, SeedInv, NEW r \in Waits,
         request[r] \in {"pinning", "sent"} \/ r \in Asked(toChild) \/ Works(child, r)
  PROVE  ~main.reload
<1>1. toChild \in Seq(Commands) /\ Sound(child, faults.cancelled)
  BY ForceTypes
<1>2. SomeOut
  BY <1>1, OutMeans DEF SomeOut, Waits
<1> QED BY <1>2 DEF SeedInv

\* What starts now starts on something.
LEMMA BuiltOnSome ==
  ASSUME TaskInv, ForceInv, child.up, ~main.reload, \A i \in DOMAIN toChild : ~IsMode(toChild[i]),
         main.mode = "static" \/ child.pin # None,
         NEW b, b.mode = child.mode, b.pin = child.pin
  PROVE  FreshSdk(b) # None
<1>1. ModeSoon(toChild, child.mode, main.mode)
  BY DEF ForceInv, Commanded
<1>2. \A mode : IsMode(SetMode(mode))
  BY DEF IsMode, SetMode
<1>3. child.mode = main.mode
  BY <1>1, <1>2 DEF ModeSoon
<1> QED BY <1>3, SdkNumbers DEF FreshSdk

LEMMA TasksSeeded ==
  ASSUME TaskInv, ForceInv, SeedInv, child.up,
         NEW b, Fresh(b), b.mode = child.mode, b.pin = child.pin, b.running = child.running,
         NEW c, OnlyTasks(b, c), Sound(c, faults.cancelled),
         \A r \in Waits : Works(c, r) =>
           Works(child, r) \/ (toChild # <<>> /\ Head(toChild) = Ask(r))
  PROVE  Seeded(c)
<1>1. /\ toChild \in Seq(Commands) /\ Covered(child, toChild, main.mode) /\ Seeded(child)
  BY ForceTypes DEF SeedInv
<1> SUFFICES ASSUME NEW r \in DOMAIN c.running \ Exempt
             PROVE  c.running[r] # None
  BY DEF Seeded
<1>2. r \in Waits /\ Works(c, r)
  BY RunsWork DEF Waits
<1>3. \/ r \in DOMAIN b.running /\ c.running[r] = b.running[r]
      \/ c.running[r] = FreshSdk(b)
  BY DEF OnlyTasks
<1>4. /\ \A i \in DOMAIN toChild : ~IsMode(toChild[i])
      /\ main.mode = "static" \/ child.pin # None
      /\ ~main.reload
  <2>1. CASE Works(child, r)
    BY <1>1, <1>2, <2>1, SavedBefore DEF Covered
  <2>2. CASE toChild # <<>> /\ Head(toChild) = Ask(r)
    <3>1. 1 \in DOMAIN toChild /\ toChild[1] = Ask(r) /\ \A i \in DOMAIN toChild : ~(i < 1)
      BY <1>1, <2>2, Tailed
    <3>2. /\ \A j \in DOMAIN toChild : IsMode(toChild[j]) => j < 1
          /\ \/ main.mode = "static" \/ child.pin # None
             \/ \E j \in DOMAIN toChild : j < 1 /\ IsSeeds(toChild[j])
      BY <1>1, <1>2, <3>1 DEF Covered
    <3>3. r \in Asked(toChild)
      BY <1>2, <3>1 DEF Asked, Waits
    <3>4. ~main.reload
      BY <1>2, <3>3, SavedBefore
    <3> QED BY <3>1, <3>2, <3>4
  <2> QED BY <1>2, <2>1, <2>2
<1>5. FreshSdk(b) # None
  BY <1>4, BuiltOnSome
<1> QED BY <1>1, <1>3, <1>5 DEF Seeded

LEMMA QuietAfter ==
  ASSUME TaskInv, TaskInv', SeedInv, main'.reload => main.reload,
         \A r \in Waits :
           request'[r] \in {"pinning", "sent"} \/ r \in Asked(toChild') \/ Works(child', r)
             => \/ request[r] \in {"pinning", "sent"} \/ r \in Asked(toChild) \/ Works(child, r)
                \/ ~main.reload
  PROVE  main'.reload => ~SomeOut'
<1> SUFFICES ASSUME main'.reload, SomeOut' PROVE FALSE
  OBVIOUS
<1>1. toChild' \in Seq(Commands) /\ Sound(child', faults'.cancelled)
  BY DEF TaskInv, Typed
<1>2. PICK r \in Waits : \/ request'[r] \in {"pinning", "sent"} \/ Ask(r) \in ToSet(toChild')
                         \/ r \in Working(child')
  BY DEF SomeOut, Waits
<1>3. r \in Requests
  BY DEF Waits
<1>4. request'[r] \in {"pinning", "sent"} \/ r \in Asked(toChild') \/ Works(child', r)
  BY <1>1, <1>2, <1>3, OutMeans
<1>5. request[r] \in {"pinning", "sent"} \/ r \in Asked(toChild) \/ Works(child, r)
  BY <1>4
<1> QED BY <1>5, SavedBefore

LEMMA SeedChild ==
  ASSUME TaskInv, TaskInv', ForceInv, SeedInv, child.up, UNCHANGED <<main, request>>,
         toChild' = toChild \/ (toChild # <<>> /\ toChild' = Tail(toChild)),
         NEW c, Sound(c, faults.cancelled), ChildBecomes(c), c.up = child.up,
         child.pin # None => c.pin # None, Covered(c, toChild', main.mode),
         Seeding(toChild) => c.pin # None \/ Seeding(toChild'),
         \A e \in ToSet(c.out) : e.type = "pinned" => c.pin # None, Seeded(c),
         \A r \in Waits : Works(c, r) => Works(child, r) \/ r \in Asked(toChild)
  PROVE  SeedInv'
<1>1. toMain \in Seq(Says \union {Exit}) /\ toChild \in Seq(Commands)
  BY ForceTypes
<1>2. /\ c.out \in Seq(Says) /\ SameEvonodes(c, child') /\ SameTasks(c, child')
      /\ toMain' = toMain \o c.out /\ Sound(child', faults.cancelled)
      /\ \A r : Works(child', r) <=> Works(c, r)
  BY <1>1, Became DEF ChildBecomes
<1>3. child'.pin = c.pin /\ child'.up = child.up /\ child'.running = c.running
  BY <1>2 DEF SameEvonodes, SameTasks
<1>4. toChild' \in Seq(Commands) /\ Asked(toChild') \subseteq Asked(toChild)
  <2>1. \A q \in Seq(Commands) : q # <<>> => Tail(q) \in Seq(Commands) /\ Asked(Tail(q)) \subseteq Asked(q)
    <3> SUFFICES ASSUME NEW q \in Seq(Commands), q # <<>>
                 PROVE  Tail(q) \in Seq(Commands) /\ Asked(Tail(q)) \subseteq Asked(q)
      OBVIOUS
    <3>1. /\ Tail(q) \in Seq(Commands) /\ Len(q) \in Nat
          /\ DOMAIN q = 1 .. Len(q) /\ DOMAIN Tail(q) = 1 .. Len(q) - 1
          /\ \A i \in 1 .. Len(q) - 1 : Tail(q)[i] = q[i + 1]
      BY Tailed
    <3>2. \A i \in DOMAIN Tail(q) : i + 1 \in DOMAIN q /\ Tail(q)[i] = q[i + 1]
      BY <3>1
    <3> QED BY <3>1, <3>2 DEF Asked
  <2> QED BY <1>1, <2>1
<1>5. Covered(child', toChild', main'.mode)
  BY <1>2, <1>3 DEF Covered
<1>6. main'.reload => ~SomeOut'
  BY <1>2, <1>4, QuietAfter
<1>7. Awaited'
  <2>1. main.pinned => c.pin # None \/ Seeding(toChild')
    BY DEF SeedInv, Awaited
  <2>2. \A i \in DOMAIN toMain' : toMain'[i].type = "pinned" => c.pin # None
    <3> DEFINE S == Says \union {Exit}
    <3>1. PICK p \in Seq(S) : p = toMain
      BY <1>1
    <3>2. PICK q \in Seq(Says) : q = c.out
      BY <1>2
    <3>3. q \in Seq(S)
      <4>1. Says \subseteq S
        OBVIOUS
      <4> HIDE DEF S
      <4> QED BY <4>1
    <3>4. \A i \in DOMAIN p : p[i].type = "pinned" => c.pin # None
      BY <3>1 DEF SeedInv, Awaited
    <3>5. \A i \in DOMAIN q : q[i].type = "pinned" => c.pin # None
      BY <3>2 DEF ToSet
    <3> HIDE DEF S
    <3>6. \A i \in DOMAIN (p \o q) : (p \o q)[i].type = "pinned" => c.pin # None
      BY <3>3, <3>4, <3>5, Parts
    <3> QED BY <1>2, <3>1, <3>2, <3>6
  <2> QED BY <1>3, <2>1, <2>2 DEF SeedInv, Awaited
<1>8. Seeded(child')
  BY <1>3 DEF Seeded
<1> QED BY <1>5, <1>6, <1>7, <1>8 DEF SeedInv

LEMMA CoveredStill ==
  ASSUME NEW c, NEW d, NEW q, NEW mode, Covered(c, q, mode), c.pin # None => d.pin # None,
         \A r \in Waits : Works(d, r) => Works(c, r)
  PROVE  Covered(d, q, mode)
BY DEF Covered

LEMMA NothingPinned ==
  ASSUME NEW b, b.out = <<>>, NEW c, OnlyTasks(b, c)
  PROVE  \A e \in ToSet(c.out) : e.type # "pinned"
<1>1. ToSet(<<>>) = {} /\ \A e \in Responses : e.type # "pinned"
  BY NoneHeld DEF Responses
<1> QED BY <1>1 DEF OnlyTasks

LEMMA SeedTasks ==
  ASSUME TaskInv, TaskInv', ForceInv, SeedInv,
         \/ \E r \in Requests : \/ TaskSucceeds(r)
                                \/ \E banned, unheard \in BOOLEAN : TaskFails(r, banned, unheard)
         \/ WarmedUp \/ WarmupFails
  PROVE  SeedInv'
<1>1. /\ Latest(child) /\ Fresh(child) /\ child \in Children /\ child.out = <<>>
      /\ Covered(child, toChild, main.mode)
  BY ForceTypes DEF ForceInv, SeedInv
<1>2. PICK b \in Children, c \in Children :
        /\ b = child \/ b = RefillBannedPool(child)
        /\ OnlyTasks(b, c) /\ Sound(c, faults.cancelled) /\ ChildBecomes(c)
        /\ \A x \in Requests : Works(c, x) => Works(child, x)
        /\ child.up /\ UNCHANGED <<main, request, toChild>>
  <2>1. CASE WarmedUp \/ WarmupFails
    <3>1. PICK c \in Children :
            /\ OnlyTasks(child, c) /\ Sound(c, faults.cancelled) /\ ChildBecomes(c)
            /\ \A x \in Requests : Works(c, x) => Works(child, x)
            /\ child.up /\ UNCHANGED <<main, request, toChild>>
      BY <2>1, Warmed
    <3> QED BY <1>1, <3>1
  <2>2. ASSUME NEW r \in Requests,
               TaskSucceeds(r) \/ \E banned, unheard \in BOOLEAN : TaskFails(r, banned, unheard)
        PROVE  \E b \in Children, c \in Children :
                 /\ b = child \/ b = RefillBannedPool(child)
                 /\ OnlyTasks(b, c) /\ Sound(c, faults.cancelled) /\ ChildBecomes(c)
                 /\ \A x \in Requests : Works(c, x) => Works(child, x)
                 /\ child.up /\ UNCHANGED <<main, request, toChild>>
    BY <2>2, Ended
  <2> QED BY <2>1, <2>2
<1>3. /\ Fresh(b) /\ b.mode = child.mode /\ b.pin = child.pin /\ b.running = child.running
      /\ b.up = child.up /\ b.out = <<>>
  <2>1. PICK d : d = RefillBannedPool(child)
    OBVIOUS
  <2>2. d.pin = child.pin /\ d.out = <<>>
    BY <1>1, <2>1 DEF RefillBannedPool, Children
  <2>3. d.running = child.running /\ d.up = child.up
    BY <1>1, <2>1, EvonodeSteps DEF SameTasks
  <2>4. Fresh(d) /\ d.mode = child.mode
    BY <1>1, <2>1, EvonodesLatest
  <2> QED BY <1>1, <1>2, <2>1, <2>2, <2>3, <2>4
<1>4. \A r \in Waits : Works(c, r) => Works(child, r)
  BY <1>2 DEF Waits
<1>5. Seeded(c)
  BY <1>2, <1>3, <1>4, TasksSeeded
<1>6. c.pin = child.pin /\ c.up = child.up
  BY <1>2, <1>3 DEF OnlyTasks, SameEvonodes
<1>7. Covered(c, toChild', main.mode)
  BY <1>1, <1>2, <1>4, <1>6, CoveredStill
<1>8. \A e \in ToSet(c.out) : e.type = "pinned" => c.pin # None
  BY <1>2, <1>3, NothingPinned
<1>9. Seeding(toChild) => c.pin # None \/ Seeding(toChild')
  BY <1>2
<1> QED BY <1>2, <1>4, <1>5, <1>6, <1>7, <1>8, <1>9, SeedChild

LEMMA SeedCommand == ASSUME TaskInv, TaskInv', ForceInv, SeedInv, ChildReceives PROVE SeedInv'
<1>1. /\ Fresh(child) /\ child \in Children /\ child.out = <<>>
      /\ Covered(child, toChild, main.mode) /\ Seeded(child)
  BY ForceTypes DEF ForceInv, SeedInv
<1>2. PICK command \in Commands, c \in Children :
        /\ command = Head(toChild) /\ c = Handled(child, command)
        /\ Sound(c, faults.cancelled) /\ ChildBecomes(c)
        /\ toChild \in Seq(Commands) /\ toChild # <<>> /\ toChild' = Tail(toChild)
        /\ child.up /\ UNCHANGED <<main, request, faults>>
        /\ command.type = "request" =>
             /\ command.request \in Requests /\ command = Ask(command.request)
             /\ OnlyTasks(child, c)
             /\ \A r \in Requests : Works(c, r) => Works(child, r) \/ r = command.request
        /\ command.type = "cancel" =>
             OnlyTasks(child, c) /\ \A r \in Requests : Works(c, r) => Works(child, r)
  BY Taken
<1>3. /\ \A r \in Waits : Works(c, r) => Works(child, r) \/ command = Ask(r)
      /\ c.up = child.up
      /\ child.pin # None => c.pin # None
      /\ IsSeeds(command) => c.pin # None
      /\ (\A e \in ToSet(c.out) : e.type = "pinned" => c.pin # None) /\ Seeded(c)
  <2>1. CASE command.type = "request" \/ command.type = "cancel"
    <3>1. OnlyTasks(child, c) /\ ~IsSeeds(command)
      BY <1>2, <2>1 DEF IsSeeds
    <3>2. c.pin = child.pin /\ c.up = child.up
      BY <3>1 DEF OnlyTasks, SameEvonodes
    <3>3. \A r \in Waits : Works(c, r) => Works(child, r) \/ command = Ask(r)
      BY <1>2, <2>1 DEF Waits
    <3>4. Seeded(c)
      BY <1>1, <1>2, <3>1, <3>3, TasksSeeded
    <3>5. \A e \in ToSet(c.out) : e.type = "pinned" => c.pin # None
      BY <1>1, <3>1, NothingPinned
    <3> QED BY <3>1, <3>2, <3>3, <3>4, <3>5
  <2>2. ASSUME SameTasks(child, c), c.out = <<>>, child.pin # None => c.pin # None,
               IsSeeds(command) => c.pin # None
        PROVE  /\ \A r \in Waits : Works(c, r) => Works(child, r) \/ command = Ask(r)
               /\ c.up = child.up
               /\ child.pin # None => c.pin # None
               /\ IsSeeds(command) => c.pin # None
               /\ (\A e \in ToSet(c.out) : e.type = "pinned" => c.pin # None) /\ Seeded(c)
    <3>1. c.up = child.up /\ c.running = child.running /\ \A r : Works(c, r) <=> Works(child, r)
      BY <2>2, Same DEF SameTasks
    <3>2. Seeded(c)
      BY <1>1, <3>1 DEF Seeded
    <3>3. ToSet(c.out) = {}
      BY <2>2, NoneHeld
    <3> QED BY <2>2, <3>1, <3>2, <3>3
  <2>3. CASE command.type = "setDapi"
    <3>1. c = SetDapi(child, command.mode) /\ command.mode \in Modes /\ ~IsSeeds(command)
      BY <1>2, <2>3, Requested DEF Handled, IsSeeds
    <3>2. c.pin = child.pin /\ c.out = <<>>
      BY <1>1, <3>1 DEF SetDapi, Children
    <3>3. SameTasks(child, c)
      BY <1>1, <3>1, EvonodeSteps
    <3> QED BY <2>2, <3>1, <3>2, <3>3
  <2>4. CASE command.type = "setEvonodeDapiUrls"
    <3>1. c = Probe(child, command.list) /\ command.list \in Nat /\ ~IsSeeds(command)
      BY <1>2, <2>4, Requested DEF Handled, IsSeeds
    <3>2. c.pin = child.pin /\ c.out = <<>>
      BY <1>1, <3>1 DEF Probe, Children
    <3>3. SameTasks(child, c)
      BY <1>1, <3>1, EvonodeSteps
    <3> QED BY <2>2, <3>1, <3>2, <3>3
  <2>5. CASE command.type = "useSeedNodes"
    <3>1. c = UseSeedNodes(child)
      BY <1>2, <2>5 DEF Handled
    <3>2. c.pin # None /\ c.out = <<>>
      BY <1>1, <3>1, SdkNumbers DEF UseSeedNodes, Children
    <3>3. SameTasks(child, c)
      BY <1>1, <3>1, EvonodeSteps
    <3> QED BY <2>2, <3>2, <3>3
  <2> QED BY <2>1, <2>3, <2>4, <2>5, Requested
<1>4. /\ Covered(c, toChild', main.mode)
      /\ Seeding(toChild) => Seeding(toChild') \/ IsSeeds(command)
  BY <1>1, <1>2, <1>3, CoveredTail
<1>5. \A r \in Waits : Works(c, r) => Works(child, r) \/ r \in Asked(toChild)
  <2>1. 1 \in DOMAIN toChild /\ toChild[1] = command
    BY <1>2, Tailed
  <2> QED BY <1>3, <2>1 DEF Asked, Waits
<1> QED BY <1>2, <1>3, <1>4, <1>5, SeedChild

LEMMA SeedQuiet ==
  ASSUME TaskInv, TaskInv', SeedInv, UNCHANGED <<main, request, toChild, toMain>>,
         child'.up = child.up, child'.pin = child.pin, SameTasks(child, child')
  PROVE  SeedInv'
<1>1. /\ child'.running = child.running
      /\ \A r : Works(child', r) <=> Works(child, r)
  BY Same DEF SameTasks
<1>2. Covered(child', toChild', main'.mode)
  BY <1>1, CoveredStill DEF SeedInv
<1>3. main'.reload => ~SomeOut'
  BY <1>1, QuietAfter
<1>4. Awaited' /\ Seeded(child')
  BY <1>1 DEF SeedInv, Awaited, Seeded
<1> QED BY <1>2, <1>3, <1>4 DEF SeedInv

\* A list is pinned: a step that makes SeedChild's child.
LEMMA SeedPins ==
  ASSUME TaskInv, TaskInv', ForceInv, SeedInv, child.up, UNCHANGED <<main, request, toChild>>,
         NEW b \in Children, SameTasks(child, b), b.out = <<>>, b.pin = child.pin,
         NEW list \in Nat, list # 0, NEW pins \in BOOLEAN,
         ChildBecomes(IF pins THEN Pin(b, list) ELSE b)
  PROVE  SeedInv'
<1>1. Sound(child, faults.cancelled) /\ Covered(child, toChild, main.mode) /\ Seeded(child)
  BY ForceTypes DEF SeedInv
<1>2. PICK c : c = IF pins THEN Pin(b, list) ELSE b
  OBVIOUS
<1>3. /\ c \in Children /\ SameTasks(child, c)
      /\ child.pin # None => c.pin # None
      /\ \A e \in ToSet(c.out) : e.type = "pinned" => c.pin # None
  <2>1. CASE pins = TRUE
    <3>1. c = Pin(b, list)
      BY <1>2, <2>1
    <3>2. c \in Children /\ SameTasks(b, c) /\ c.pin = list
      BY <3>1, PinsList
    <3> QED BY <3>2 DEF SameTasks, None
  <2>2. CASE pins = FALSE
    <3>1. c = b
      BY <1>2, <2>2
    <3>2. ToSet(c.out) = {}
      BY <3>1, NoneHeld
    <3> QED BY <3>1, <3>2
  <2> QED BY <2>1, <2>2
<1>4. /\ Sound(c, faults.cancelled) /\ c.up = child.up /\ c.running = child.running
      /\ \A r : Works(c, r) <=> Works(child, r)
  BY <1>1, <1>3, EvonodesKept DEF SameTasks
<1>5. Covered(c, toChild', main.mode)
  BY <1>1, <1>3, <1>4, CoveredStill
<1>6. Seeded(c)
  BY <1>1, <1>4 DEF Seeded
<1> QED BY <1>2, <1>3, <1>4, <1>5, <1>6, SeedChild

LEMMA SeedProbe ==
  ASSUME TaskInv, TaskInv', ForceInv, SeedInv, NEW probe \in child.probes,
         (\E over \in BOOLEAN : ProbePins(probe, over)) \/ ProbeFails(probe)
  PROVE  SeedInv'
<1>1. /\ child \in Children /\ Latest(child) /\ child.out = <<>>
  BY ForceTypes DEF ForceInv
<1>2. child.probes \subseteq Probes /\ probe.list \in Nat /\ probe.list # 0
  <2>1. child.probes \subseteq Probes
    BY <1>1 DEF Children
  <2> QED BY <1>1, <2>1 DEF Probes, Latest
<1>3. ASSUME NEW over \in BOOLEAN, ProbePins(probe, over)
      PROVE  SeedInv'
  <2>1. PICK again : again = [probe EXCEPT !.some = TRUE]
    OBVIOUS
  <2>2. again \in Probes
    BY <1>2, <2>1 DEF Probes
  <2>3. PICK probes : probes = (child.probes \ {probe}) \union (IF over THEN {} ELSE {again})
    OBVIOUS
  <2>4. probes \subseteq Probes
    BY <1>2, <2>2, <2>3
  <2>5. PICK b : b = [child EXCEPT !.probes = probes]
    OBVIOUS
  <2>6. b \in Children /\ SameTasks(child, b) /\ b.out = <<>> /\ b.pin = child.pin
    BY <1>1, <2>4, <2>5 DEF Children, SameTasks
  <2>7. ChildBecomes(Pin(b, probe.list)) /\ child.up /\ UNCHANGED <<main, request, toChild>>
    BY <1>3, <2>1, <2>3, <2>5 DEF ProbePins
  <2>8. ChildBecomes(IF TRUE THEN Pin(b, probe.list) ELSE b)
    BY <2>7
  <2> QED BY <1>2, <2>6, <2>7, <2>8, SeedPins
<1>4. CASE ProbeFails(probe)
  <2>1. PICK retries : retries = IF probe.list = child.list THEN child.retries \union {probe.list}
                                 ELSE child.retries
    OBVIOUS
  <2>2. PICK probes : probes = child.probes \ {probe}
    OBVIOUS
  <2>3. child' = [child EXCEPT !.probes = probes, !.retries = retries]
    BY <1>4, <2>1, <2>2 DEF ProbeFails
  <2>4. child'.up = child.up /\ child'.pin = child.pin /\ SameTasks(child, child')
    BY <1>1, <2>3 DEF Children, SameTasks
  <2>5. UNCHANGED <<main, request, toChild, toMain>>
    BY <1>4 DEF ProbeFails
  <2> QED BY <2>4, <2>5, SeedQuiet
<1> QED BY <1>3, <1>4

LEMMA SeedRetry ==
  ASSUME TaskInv, TaskInv', ForceInv, SeedInv,
         \/ \E list \in child.retries : Reprobe(list)
         \/ \E pins \in BOOLEAN : RefillEnds(pins)
  PROVE  SeedInv'
<1>1. /\ child \in Children /\ child.out = <<>> /\ child.refill \in Nat /\ child.retries \subseteq Nat
  <2>1. child \in Children /\ child.out = <<>>
    BY ForceTypes
  <2> QED BY <2>1 DEF Children
<1>2. ASSUME NEW list \in child.retries, Reprobe(list)
      PROVE  SeedInv'
  <2>1. PICK tried : tried = [child EXCEPT !.retries = child.retries \ {list}]
    OBVIOUS
  <2>2. /\ tried \in Children /\ tried.pin = child.pin /\ SameTasks(child, tried)
    BY <1>1, <2>1 DEF Children, SameTasks
  <2>3. PICK d : d = Probe(tried, list)
    OBVIOUS
  <2>4. d.pin = tried.pin /\ SameTasks(tried, d)
    <3>1. list \in Nat
      BY <1>1
    <3>2. SameTasks(tried, d)
      BY <2>2, <2>3, <3>1, EvonodeSteps
    <3> QED BY <2>2, <2>3, <3>2 DEF Probe, Children
  <2>5. child' = IF list = child.list THEN d ELSE tried
    BY <1>2, <2>1, <2>3 DEF Reprobe
  <2>6. child'.up = child.up /\ child'.pin = child.pin /\ SameTasks(child, child')
    BY <2>2, <2>4, <2>5 DEF SameTasks
  <2>7. UNCHANGED <<main, request, toChild, toMain>>
    BY <1>2 DEF Reprobe
  <2> QED BY <2>6, <2>7, SeedQuiet
<1>3. ASSUME NEW pins \in BOOLEAN, RefillEnds(pins)
      PROVE  SeedInv'
  <2>1. PICK over : over = [child EXCEPT !.refill = 0]
    OBVIOUS
  <2>2. over \in Children /\ SameTasks(child, over) /\ over.out = <<>> /\ over.pin = child.pin
    BY <1>1, <2>1 DEF Children, SameTasks
  <2>3. /\ ChildBecomes(IF pins THEN Pin(over, child.refill) ELSE over)
        /\ child.up /\ child.refill # 0 /\ UNCHANGED <<main, request, toChild>>
    BY <1>3, <2>1 DEF RefillEnds
  <2> QED BY <1>1, <2>2, <2>3, SeedPins
<1> QED BY <1>2, <1>3

\* A child that holds nothing.
LEMMA NothingCovered ==
  ASSUME NEW c, c = Booted \/ c = NoChild, NEW q, Asked(q) = {}, NEW mode
  PROVE  Covered(c, q, mode) /\ Seeded(c)
<1>1. \A r \in Requests : ~Works(c, r)
  BY BootedSound
<1>2. \A r \in DOMAIN c.running : FALSE
  <2>1. Sound(c, {})
    BY BootedSound
  <2> QED BY <1>1, <2>1, RunsWork
<1>3. \A i \in DOMAIN q : \A r \in Waits : q[i] # Ask(r)
  BY DEF Asked, Waits
<1> QED BY <1>1, <1>2, <1>3 DEF Covered, Seeded, Waits

LEMMA SeedDeath == ASSUME TaskInv, TaskInv', ForceInv, SeedInv, ChildDies PROVE SeedInv'
<1>1. child' = NoChild /\ toChild' = <<>> /\ UNCHANGED <<main, request>>
  BY DEF ChildDies
<1>2. Asked(toChild') = {}
  BY <1>1, NoCommand
<1>3. Covered(child', toChild', main'.mode) /\ Seeded(child')
  BY <1>1, <1>2, NothingCovered
<1>4. ~child'.up /\ \A r \in Requests : ~Works(child', r)
  BY <1>1, NewChild, BootedSound
<1>5. main'.reload => ~SomeOut'
  <2>1. \A r \in Waits : ~Works(child', r) /\ r \notin Asked(toChild')
    BY <1>2, <1>4 DEF Waits
  <2> QED BY <1>1, <2>1, QuietAfter
<1>6. Awaited'
  BY <1>1, <1>4 DEF SeedInv, Awaited
<1> QED BY <1>3, <1>5, <1>6 DEF SeedInv

LEMMA SeedStart == Init => SeedInv
<1> SUFFICES ASSUME Init PROVE SeedInv
  OBVIOUS
<1>1. /\ child = NoChild /\ toChild = <<>> /\ main.reload = FALSE /\ main.pinned = FALSE
      /\ \A r \in Requests : request[r] = "idle"
  BY DEF Init
<1>2. Asked(toChild) = {}
  BY <1>1, NoCommand
<1>3. Covered(child, toChild, main.mode) /\ Seeded(child)
  BY <1>1, <1>2, NothingCovered
<1>4. ~child.up
  BY <1>1, NewChild
<1> QED BY <1>1, <1>3, <1>4 DEF SeedInv, Awaited

LEMMA AskedBehind ==
  ASSUME NEW p \in Seq(Commands), NEW q \in Seq(Commands)
  PROVE  /\ Asked(p \o q) \subseteq Asked(p) \union Asked(q)
         /\ Seeding(p) => Seeding(p \o q)
         /\ Seeding(q) => Seeding(p \o q)
<1> DEFINE s == p \o q
<1>1. /\ \A i \in DOMAIN p : i \in DOMAIN s /\ s[i] = p[i]
      /\ \A i \in DOMAIN q : Len(p) + i \in DOMAIN s /\ s[Len(p) + i] = q[i]
      /\ \A i \in DOMAIN s : \/ i \in DOMAIN p /\ s[i] = p[i]
                             \/ \E n \in DOMAIN q : s[i] = q[n]
  BY Parts
<1> HIDE DEF s
<1>2. Asked(s) \subseteq Asked(p) \union Asked(q)
  BY <1>1 DEF Asked
<1>3. Seeding(p) => Seeding(s)
  BY <1>1 DEF Seeding
<1>4. Seeding(q) => Seeding(s)
  BY <1>1 DEF Seeding
<1> QED BY <1>2, <1>3, <1>4 DEF s

LEMMA SeedSends ==
  ASSUME TaskInv, TaskInv', ForceInv, SeedInv, NEW commands \in Seq(Commands), Send(commands),
         main'.mode = main.mode, main'.reload = main.reload, main'.child,
         main'.pinned => main.pinned \/ Seeding(commands),
         \A i \in DOMAIN commands : ~IsMode(commands[i]),
         \A i \in DOMAIN commands : \A r \in Waits : commands[i] = Ask(r) =>
           \/ main.mode = "static" \/ main.pinned
           \/ \E j \in DOMAIN commands : j < i /\ IsSeeds(commands[j]),
         \A r \in Requests : request'[r] = "pinning" => r \notin Exempt,
         main.reload => \A r \in Waits : r \in Asked(commands) \/ request'[r] \in {"pinning", "sent"}
                                           => request[r] \in {"pinning", "sent"}
  PROVE  SeedInv'
<1>1. /\ toChild \in Seq(Commands) /\ Covered(child, toChild, main.mode) /\ Seeded(child)
      /\ child.up /\ main.pinned => child.pin # None \/ Seeding(toChild)
      /\ main.pinned => main.child
      /\ child.up => \A i \in DOMAIN toMain : toMain[i].type = "pinned" => child.pin # None
  BY ForceTypes DEF SeedInv, Awaited
<1>2. ~main.child => toMain = <<>>
  BY DEF ForceInv, Ups
<1>3. CASE main.child /\ child.up
  <2>1. child' = child /\ toMain' = toMain /\ toChild' = toChild \o commands
    BY <1>3 DEF Send
  <2>2. main.pinned => child.pin # None \/ Seeding(toChild)
    BY <1>1, <1>3
  <2>3. Covered(child', toChild', main'.mode)
    <3>1. \A i \in DOMAIN commands : \A r \in Waits : commands[i] = Ask(r) =>
            \/ main.mode = "static" \/ child.pin # None \/ Seeding(toChild)
            \/ \E j \in DOMAIN commands : j < i /\ IsSeeds(commands[j])
      BY <2>2
    <3>2. Covered(child, toChild \o commands, main.mode)
      BY <1>1, <3>1, CoveredBehind
    <3> QED BY <2>1, <3>2
  <2>4. Asked(toChild') \subseteq Asked(toChild) \union Asked(commands)
    BY <1>1, <2>1, AskedBehind
  <2>5. main'.reload => ~SomeOut'
    BY <2>1, <2>4, QuietAfter
  <2>6. Awaited'
    <3>1. Seeding(toChild) \/ Seeding(commands) => Seeding(toChild')
      BY <1>1, <2>1, AskedBehind
    <3> QED BY <1>1, <2>1, <2>2, <3>1 DEF Awaited
  <2> QED BY <1>1, <2>1, <2>3, <2>5, <2>6 DEF SeedInv
<1>4. CASE main.child /\ ~child.up
  <2>1. child' = child /\ toMain' = toMain /\ toChild' = toChild
    BY <1>4 DEF Send
  <2>2. Covered(child', toChild', main'.mode)
    BY <1>1, <2>1
  <2>3. main'.reload => ~SomeOut'
    BY <2>1, QuietAfter
  <2>4. Awaited'
    BY <1>4, <2>1 DEF Awaited
  <2> QED BY <1>1, <2>1, <2>2, <2>3, <2>4 DEF SeedInv
<1>5. CASE ~main.child
  <2>1. child' = Booted /\ toMain' = <<>> /\ toChild' = Replay \o commands
    BY <1>2, <1>5 DEF Send
  <2>2. PICK p \in Seq(Commands) : p = Replay /\ Asked(p) = {}
    BY Replays
  <2>3. Covered(child', toChild', main'.mode) /\ Seeded(child')
    <3>1. Covered(Booted, p, main.mode) /\ Seeded(Booted)
      BY <2>2, NothingCovered
    <3>2. \A i \in DOMAIN commands : \A r \in Waits : commands[i] = Ask(r) =>
            \/ main.mode = "static" \/ Booted.pin # None \/ Seeding(p)
            \/ \E j \in DOMAIN commands : j < i /\ IsSeeds(commands[j])
      BY <1>1, <1>5
    <3>3. Covered(Booted, p \o commands, main.mode)
      BY <3>1, <3>2, CoveredBehind
    <3> QED BY <2>1, <2>2, <3>1, <3>3
  <2>4. Asked(toChild') \subseteq Asked(commands)
    BY <2>1, <2>2, AskedBehind
  <2>5. \A r \in Requests : ~Works(child', r)
    BY <2>1, BootedSound
  <2>6. main'.reload => ~SomeOut'
    <3>1. \A r \in Waits : ~Works(child', r)
      BY <2>5 DEF Waits
    <3> QED BY <2>4, <3>1, QuietAfter
  <2>7. Awaited'
    <3>1. Seeding(commands) => Seeding(toChild')
      BY <2>1, <2>2, AskedBehind
    <3>2. \A i \in DOMAIN toMain' : FALSE
      BY <2>1
    <3> QED BY <1>1, <1>5, <3>1, <3>2 DEF Awaited
  <2> QED BY <2>3, <2>6, <2>7 DEF SeedInv
<1> QED BY <1>3, <1>4, <1>5

LEMMA SeedRequest ==
  ASSUME TaskInv, TaskInv', ForceInv, SeedInv, NEW r \in Requests, Request(r), ~main.reload
  PROVE  SeedInv'
<1>1. /\ main \in Mains /\ request \in [Requests -> {"idle", "pinning", "sent"} \union Outcomes]
      /\ \A x \in Requests : request[x] = "pinning" => x \notin Exempt
  BY DEF TaskInv, Typed, SeedInv, Awaited
<1>2. CASE r \in Exempt \/ main.pinned \/ main.mode = "static"
  <2>1. /\ Send(<<Ask(r)>>) /\ main' = [main EXCEPT !.child = TRUE]
        /\ request' = [request EXCEPT ![r] = "sent"]
    BY <1>2 DEF Request
  <2>2. /\ main'.child /\ main'.mode = main.mode /\ main'.reload = main.reload
        /\ main'.pinned = main.pinned
    BY <1>1, <2>1 DEF Mains
  <2>3. PICK commands \in Seq(Commands) :
          commands = <<Ask(r)>> /\ \A i \in DOMAIN commands : commands[i] = Ask(r)
    <3>1. PICK command \in Commands : command = Ask(r)
      BY AskIsCommand
    <3>2. <<command>> \in Seq(Commands) /\ \A i \in DOMAIN <<command>> : <<command>>[i] = command
      OBVIOUS
    <3> QED BY <3>1, <3>2
  <2>4. \A i \in DOMAIN commands : ~IsMode(commands[i])
    BY <2>3, AskIsCommand DEF IsMode
  <2>5. \A i \in DOMAIN commands : \A x \in Waits : commands[i] = Ask(x) =>
          main.mode = "static" \/ main.pinned
    <3>1. \A x \in Waits : Ask(r) = Ask(x) => x = r
      BY AskIsCommand DEF Waits
    <3> QED BY <1>2, <2>3, <3>1 DEF Waits
  <2>6. \A x \in Requests : request'[x] = "pinning" => x \notin Exempt
    BY <1>1, <2>1
  <2> QED BY <2>1, <2>2, <2>3, <2>4, <2>5, <2>6, SeedSends
<1>3. CASE ~(r \in Exempt \/ main.pinned \/ main.mode = "static")
  <2>1. PICK longer : longer = Append(main.waiters, r)
    OBVIOUS
  <2>2. /\ Send(<<>>) /\ main' = [main EXCEPT !.child = TRUE, !.waiters = longer]
        /\ request' = [request EXCEPT ![r] = "pinning"]
    BY <1>3, <2>1 DEF Request
  <2>3. /\ main'.child /\ main'.mode = main.mode /\ main'.reload = main.reload
        /\ main'.pinned = main.pinned
    BY <1>1, <2>2 DEF Mains
  <2>4. PICK commands \in Seq(Commands) : commands = <<>> /\ \A i \in DOMAIN commands : FALSE
    <3>1. DOMAIN <<>> = {}
      OBVIOUS
    <3> QED BY <3>1, NoCommand
  <2>5. \A x \in Requests : request'[x] = "pinning" => x \notin Exempt
    BY <1>1, <1>3, <2>2
  <2> QED BY <2>2, <2>3, <2>4, <2>5, SeedSends
<1> QED BY <1>2, <1>3

LEMMA SeedCancel ==
  ASSUME TaskInv, TaskInv', ForceInv, SeedInv, NEW r \in Requests, Cancel(r)
  PROVE  SeedInv'
<1>1. /\ main \in Mains /\ request' = request
      /\ \A x \in Requests : request[x] = "pinning" => x \notin Exempt
  BY DEF TaskInv, Typed, SeedInv, Awaited, Cancel
<1>2. Send(<<[type |-> "cancel", request |-> r]>>) /\ main' = [main EXCEPT !.child = TRUE]
  BY DEF Cancel
<1>3. /\ main'.child /\ main'.mode = main.mode /\ main'.reload = main.reload
      /\ main'.pinned = main.pinned
  BY <1>1, <1>2 DEF Mains
<1>4. PICK commands \in Seq(Commands) :
        /\ commands = <<[type |-> "cancel", request |-> r]>>
        /\ \A i \in DOMAIN commands : commands[i].type = "cancel"
  <2>1. [type |-> "cancel", request |-> r] \in Commands
    BY DEF Commands
  <2>2. PICK command \in Commands :
          command = [type |-> "cancel", request |-> r] /\ command.type = "cancel"
    BY <2>1
  <2>3. <<command>> \in Seq(Commands) /\ \A i \in DOMAIN <<command>> : <<command>>[i] = command
    OBVIOUS
  <2> QED BY <2>2, <2>3
<1>5. /\ \A i \in DOMAIN commands : ~IsMode(commands[i])
      /\ \A i \in DOMAIN commands : \A x \in Requests : commands[i] # Ask(x)
  BY <1>4, AskIsCommand DEF IsMode
<1>6. /\ \A i \in DOMAIN commands : \A x \in Waits : commands[i] # Ask(x)
      /\ \A x \in Waits : x \notin Asked(commands)
  BY <1>5 DEF Asked, Waits
<1> QED BY <1>1, <1>2, <1>3, <1>4, <1>5, <1>6, SeedSends

LEMMA WaiterWaits ==
  ASSUME TaskInv, SeedInv
  PROVE  \A r \in ToSet(main.waiters) : r \in Waits /\ request[r] = "pinning"
<1>1. main.waiters \in Seq(Requests) /\ ToSet(main.waiters) \subseteq Requests
  <2>1. main.waiters \in Seq(Requests)
    BY ForceTypes
  <2> QED BY <2>1 DEF ToSet
<1> QED BY <1>1 DEF TaskInv, Waiting, SeedInv, Awaited, Waits

LEMMA SeedTimeout ==
  ASSUME TaskInv, TaskInv', ForceInv, SeedInv, PinTimeout
  PROVE  SeedInv'
<1>1. /\ main \in Mains /\ main.waiters \in Seq(Requests) /\ main.waiters # <<>>
      /\ \A x \in Requests : request[x] = "pinning" => x \notin Exempt
  BY ForceTypes DEF SeedInv, Awaited, PinTimeout
<1>2. PICK asks \in Seq(Commands) :
        /\ asks = [i \in DOMAIN main.waiters |-> Ask(main.waiters[i])]
        /\ Asked(asks) = ToSet(main.waiters) /\ \A i \in DOMAIN asks : ~IsMode(asks[i])
  <2>1. PICK asks \in Seq(Commands) :
          /\ asks = [i \in DOMAIN main.waiters |-> Ask(main.waiters[i])]
          /\ Asked(asks) = ToSet(main.waiters)
    BY <1>1, HeldAsks DEF TaskInv, Waiting
  <2>2. Plain(asks)
    BY <1>1, <2>1, PlainCommands
  <2> QED BY <2>1, <2>2 DEF Plain
<1>3. PICK pre \in Seq(Commands) :
        /\ pre = <<[type |-> "useSeedNodes"]>> /\ Len(pre) = 1 /\ DOMAIN pre = {1}
        /\ IsSeeds(pre[1]) /\ ~IsMode(pre[1]) /\ \A r \in Requests : pre[1] # Ask(r)
  <2>1. PICK command \in Commands : command = [type |-> "useSeedNodes"]
    BY DEF Commands
  <2>2. /\ <<command>> \in Seq(Commands) /\ Len(<<command>>) = 1 /\ DOMAIN <<command>> = {1}
        /\ <<command>>[1] = command
    OBVIOUS
  <2>3. IsSeeds(command) /\ ~IsMode(command) /\ \A r \in Requests : command # Ask(r)
    BY <2>1, AskIsCommand DEF IsSeeds, IsMode
  <2> QED BY <2>1, <2>2, <2>3
<1>4. PICK commands \in Seq(Commands) :
        /\ commands = pre \o asks
        /\ 1 \in DOMAIN commands /\ commands[1] = pre[1]
        /\ \A i \in DOMAIN commands : \/ i = 1 /\ commands[i] = pre[1]
                                      \/ 1 < i /\ \E n \in DOMAIN asks : commands[i] = asks[n]
  <2>1. PICK commands : commands = pre \o asks
    OBVIOUS
  <2>2. /\ commands \in Seq(Commands)
        /\ \A i \in DOMAIN pre : i \in DOMAIN commands /\ commands[i] = pre[i]
        /\ \A i \in DOMAIN asks : i >= 1
        /\ \A i \in DOMAIN commands :
             \/ i \in DOMAIN pre /\ commands[i] = pre[i]
             \/ \E n \in DOMAIN asks : i = Len(pre) + n /\ commands[i] = asks[n]
    BY <2>1, Parts
  <2>3. \A n \in DOMAIN asks : n \in Nat /\ n >= 1 /\ 1 < Len(pre) + n
    <3>1. \A n \in DOMAIN asks : n \in Nat
      OBVIOUS
    <3> QED BY <1>3, <2>2, <3>1
  <2>4. ASSUME NEW i \in DOMAIN commands
        PROVE  \/ i = 1 /\ commands[i] = pre[1]
               \/ 1 < i /\ \E n \in DOMAIN asks : commands[i] = asks[n]
    <3>1. CASE i \in DOMAIN pre /\ commands[i] = pre[i]
      BY <1>3, <3>1
    <3>2. ASSUME NEW n \in DOMAIN asks, i = Len(pre) + n, commands[i] = asks[n]
          PROVE  1 < i /\ \E m \in DOMAIN asks : commands[i] = asks[m]
      BY <2>3, <3>2
    <3> QED BY <2>2, <3>1, <3>2
  <2> QED BY <1>3, <2>1, <2>2, <2>4
<1>5. /\ Send(commands)
      /\ request' = [r \in Requests |-> IF request[r] = "pinning" THEN "sent" ELSE request[r]]
      /\ main' = [main EXCEPT !.child = TRUE, !.pinned = TRUE, !.waiters = <<>>]
  BY <1>2, <1>3, <1>4 DEF PinTimeout, Wake
<1>6. main'.child /\ main'.mode = main.mode /\ main'.reload = main.reload
  BY <1>1, <1>5 DEF Mains
<1>7. Seeding(commands)
  BY <1>3, <1>4 DEF Seeding
<1>8. \A i \in DOMAIN commands : ~IsMode(commands[i])
  BY <1>2, <1>3, <1>4
<1>9. \A i \in DOMAIN commands : \A r \in Waits : commands[i] = Ask(r) =>
        \E j \in DOMAIN commands : j < i /\ IsSeeds(commands[j])
  BY <1>3, <1>4 DEF Waits
<1>10. \A x \in Requests : request'[x] = "pinning" => x \notin Exempt
  BY <1>1, <1>5
<1>11. ~main.reload
  <2>1. main.waiters[1] \in ToSet(main.waiters)
    BY <1>1 DEF ToSet
  <2> QED BY <2>1, WaiterWaits, SavedBefore
<1> QED BY <1>5, <1>6, <1>7, <1>8, <1>9, <1>10, <1>11, SeedSends

LEMMA SeedPost ==
  ASSUME TaskInv, TaskInv', ForceInv, SeedInv, NewEvonodeList \/ ReloadDapi
  PROVE  SeedInv'
<1>1. /\ main \in Mains /\ main.list + 1 \in Nat /\ main.mode \in Modes
      /\ toChild \in Seq(Commands) /\ Covered(child, toChild, main.mode)
      /\ Sound(child, faults.cancelled)
  BY ForceTypes DEF SeedInv
<1>2. PICK command \in Commands :
        /\ toChild' = IF main.child /\ child.up THEN Append(toChild, command) ELSE toChild
        /\ UNCHANGED <<request, child, toMain>>
        /\ \A r \in Requests : command # Ask(r)
        /\ \/ /\ main' = [main EXCEPT !.list = main.list + 1]
              /\ ~IsMode(command)
           \/ /\ main' = [main EXCEPT !.reload = FALSE]
              /\ main.reload
  <2>1. CASE NewEvonodeList
    <3>1. PICK command \in Commands : command = SetList(main.list + 1)
      BY <1>1 DEF SetList, Commands
    <3>2. ~IsMode(command) /\ \A r \in Requests : command # Ask(r)
      BY <3>1, AskIsCommand DEF IsMode, SetList
    <3>3. Post(command) /\ main' = [main EXCEPT !.list = main.list + 1] /\ request' = request
      BY <2>1, <3>1 DEF NewEvonodeList, SetList
    <3> QED BY <3>2, <3>3 DEF Post
  <2>2. CASE ReloadDapi
    <3>1. PICK command \in Commands : command = SetMode(main.mode)
      BY <1>1 DEF SetMode, Commands
    <3>2. \A r \in Requests : command # Ask(r)
      BY <3>1, AskIsCommand DEF SetMode
    <3>3. /\ Post(command) /\ main' = [main EXCEPT !.reload = FALSE] /\ request' = request
          /\ main.reload
      BY <2>2, <3>1 DEF ReloadDapi, SetMode
    <3> QED BY <3>2, <3>3 DEF Post
  <2> QED BY <2>1, <2>2
<1>3. /\ main'.child = main.child /\ main'.mode = main.mode /\ main'.pinned = main.pinned
      /\ main'.reload => main.reload
  BY <1>1, <1>2 DEF Mains
<1>4. PICK q \in Seq(Commands) : q = <<command>> /\ \A i \in DOMAIN q : q[i] = command
  <2>1. <<command>> \in Seq(Commands) /\ \A i \in DOMAIN <<command>> : <<command>>[i] = command
    OBVIOUS
  <2> QED BY <2>1
<1>5. Append(toChild, command) = toChild \o q
  <2>1. \A p \in Seq(Commands) : Append(p, command) = p \o <<command>>
    OBVIOUS
  <2> QED BY <1>1, <1>4, <2>1
<1>6. Asked(q) = {}
  BY <1>2, <1>4 DEF Asked
<1>7. Asked(toChild') \subseteq Asked(toChild) /\ (Seeding(toChild) => Seeding(toChild'))
  BY <1>1, <1>2, <1>5, <1>6, AskedBehind
<1>8. main'.reload => ~SomeOut'
  BY <1>2, <1>3, <1>7, QuietAfter
<1>9. Awaited' /\ Seeded(child')
  BY <1>2, <1>3, <1>7 DEF SeedInv, Awaited, Seeded
<1>10. Covered(child', toChild', main'.mode)
  <2>1. CASE toChild' = toChild
    BY <1>1, <1>2, <1>3, <2>1
  <2>2. CASE toChild' = toChild \o q /\ ~IsMode(command)
    <3>1. /\ \A i \in DOMAIN q : ~IsMode(q[i])
          /\ \A i \in DOMAIN q : \A r \in Waits : q[i] # Ask(r)
      BY <1>2, <1>4, <2>2 DEF Waits
    <3>2. Covered(child, toChild \o q, main.mode)
      BY <1>1, <3>1, CoveredBehind
    <3> QED BY <1>2, <1>3, <2>2, <3>2
  <2>3. CASE main.reload
    <3>1. \A r \in Waits : r \notin Asked(toChild) /\ ~Works(child, r)
      BY <2>3, SavedBefore
    <3>2. \A r \in Waits : r \notin Asked(toChild') /\ ~Works(child', r)
      BY <1>2, <1>7, <3>1
    <3> QED BY <3>2 DEF Covered, Asked, Waits
  <2> QED BY <1>2, <1>5, <2>1, <2>2, <2>3
<1> QED BY <1>8, <1>9, <1>10 DEF SeedInv

LEMMA SeedApply ==
  ASSUME TaskInv, TaskInv', ForceInv, SeedInv, ApplyDapi, ~SomeOut
  PROVE  SeedInv'
<1>1. /\ main \in Mains /\ UNCHANGED <<request, child, toChild, toMain>>
      /\ main' = [main EXCEPT !.mode = IF main.mode = "static" THEN "dynamic" ELSE "static",
                              !.reload = TRUE]
  BY ForceTypes DEF ApplyDapi
<1>2. main'.child = main.child /\ main'.pinned = main.pinned
  BY <1>1 DEF Mains
<1>3. toChild \in Seq(Commands) /\ Sound(child, faults.cancelled)
  BY ForceTypes
<1>4. \A r \in Waits : r \notin Asked(toChild) /\ ~Works(child, r)
  BY <1>3, OutMeans DEF SomeOut, Waits
<1>5. Covered(child', toChild', main'.mode)
  BY <1>1, <1>4 DEF Covered, Asked, Waits
<1>6. ~SomeOut'
  BY <1>1 DEF SomeOut
<1>7. Awaited' /\ Seeded(child')
  BY <1>1, <1>2 DEF SeedInv, Awaited, Seeded
<1> QED BY <1>5, <1>6, <1>7 DEF SeedInv

LEMMA SeedReceive ==
  ASSUME TaskInv, TaskInv', ForceInv, SeedInv, MainReceives
  PROVE  SeedInv'
<1>1. /\ toMain \in Seq(Says \union {Exit}) /\ toMain # <<>> /\ main \in Mains
      /\ main.waiters \in Seq(Requests) /\ toChild \in Seq(Commands)
      /\ request \in [Requests -> {"idle", "pinning", "sent"} \union Outcomes]
  BY ForceTypes DEF MainReceives, TaskInv, Typed
<1>2. /\ Covered(child, toChild, main.mode) /\ Seeded(child)
      /\ child.up /\ main.pinned => child.pin # None \/ Seeding(toChild)
      /\ main.pinned => main.child
      /\ child.up => \A i \in DOMAIN toMain : toMain[i].type = "pinned" => child.pin # None
      /\ \A r \in Requests : request[r] = "pinning" => r \notin Exempt
      /\ main.child
  BY <1>1 DEF SeedInv, Awaited, ForceInv, Ups
<1>3. Head(toMain) \in Says \union {Exit}
  BY <1>1, Tailed
<1>4. /\ child.up => \A i \in DOMAIN Tail(toMain) : Tail(toMain)[i].type = "pinned" => child.pin # None
      /\ child.up /\ Head(toMain).type = "pinned" => child.pin # None
  <2> DEFINE S == Says \union {Exit}
  <2>1. PICK q \in Seq(S) : q = toMain /\ q # <<>>
    BY <1>1
  <2> HIDE DEF S
  <2>2. /\ Head(q) = q[1] /\ Len(q) \in Nat /\ Len(q) >= 1
        /\ DOMAIN q = 1 .. Len(q) /\ DOMAIN Tail(q) = 1 .. Len(q) - 1
        /\ \A i \in 1 .. Len(q) - 1 : Tail(q)[i] = q[i + 1]
    BY <2>1, Tailed
  <2>3. 1 \in DOMAIN q /\ \A i \in DOMAIN Tail(q) : i + 1 \in DOMAIN q /\ Tail(q)[i] = q[i + 1]
    BY <2>2
  <2> QED BY <1>2, <2>1, <2>2, <2>3
<1>5. toMain' = Tail(toMain) /\ child' = child
  <2>1. Head(toMain).type \in {"exit", "response", "pinned"}
    BY <1>3 DEF Says, Responses, Exit
  <2> QED BY <2>1 DEF MainReceives, ChildExited, Responded, Pinned
<1>6. CASE Head(toMain).type = "exit"
  <2>1. /\ main' = [main EXCEPT !.child = FALSE, !.pinned = FALSE] /\ toChild' = toChild
        /\ request' = [r \in Requests |-> IF request[r] = "sent" THEN "failed" ELSE request[r]]
    BY <1>6 DEF MainReceives, ChildExited
  <2>2. main'.pinned = FALSE /\ main'.mode = main.mode /\ main'.reload = main.reload
    BY <1>1, <2>1 DEF Mains
  <2>3. \A r \in Requests : request'[r] = IF request[r] = "sent" THEN "failed" ELSE request[r]
    BY <2>1
  <2>4. main'.reload => ~SomeOut'
    <3>1. \A r \in Waits : request'[r] \in {"pinning", "sent"} => request[r] \in {"pinning", "sent"}
      BY <2>3 DEF Waits
    <3> QED BY <1>5, <2>1, <2>2, <3>1, QuietAfter
  <2>5. Awaited'
    <3>1. \A r \in Requests : request'[r] = "pinning" => r \notin Exempt
      BY <1>2, <2>3
    <3> QED BY <1>4, <1>5, <2>2, <3>1 DEF Awaited
  <2> QED BY <1>2, <1>5, <2>1, <2>2, <2>4, <2>5 DEF SeedInv
<1>7. CASE Head(toMain).type = "response"
  <2>1. PICK event : event = Head(toMain)
    OBVIOUS
  <2>2. event.request \in Requests /\ event.outcome \in Outcomes
    BY <1>3, <1>7, <2>1 DEF Says, Responses, Exit
  <2>3. /\ request' = [request EXCEPT ![event.request] =
                         IF request[event.request] = "sent" THEN event.outcome ELSE request[event.request]]
        /\ UNCHANGED <<main, toChild>>
    BY <1>7, <2>1 DEF MainReceives, Responded
  <2>4. \A r \in Requests : request'[r] \in {"pinning", "sent"} => request'[r] = request[r]
    BY <1>1, <2>2, <2>3 DEF Outcomes
  <2>5. main'.reload => ~SomeOut'
    <3>1. \A r \in Waits : request'[r] \in {"pinning", "sent"} => request[r] \in {"pinning", "sent"}
      BY <2>4 DEF Waits
    <3> QED BY <1>5, <2>3, <3>1, QuietAfter
  <2>6. Awaited'
    <3>1. \A r \in Requests : request'[r] = "pinning" => r \notin Exempt
      BY <1>2, <2>4
    <3> QED BY <1>2, <1>4, <1>5, <2>3, <3>1 DEF Awaited
  <2> QED BY <1>2, <1>5, <2>3, <2>5, <2>6 DEF SeedInv
<1>8. CASE Head(toMain).type = "pinned"
  <2>1. PICK asks \in Seq(Commands) :
          /\ asks = [i \in DOMAIN main.waiters |-> Ask(main.waiters[i])]
          /\ Asked(asks) = ToSet(main.waiters) /\ \A i \in DOMAIN asks : ~IsMode(asks[i])
    <3>1. PICK asks \in Seq(Commands) :
            /\ asks = [i \in DOMAIN main.waiters |-> Ask(main.waiters[i])]
            /\ Asked(asks) = ToSet(main.waiters)
      BY <1>1, HeldAsks DEF TaskInv, Waiting
    <3>2. Plain(asks)
      BY <1>1, <3>1, PlainCommands
    <3> QED BY <3>1, <3>2 DEF Plain
  <2>2. /\ toChild' = IF child.up THEN toChild \o asks ELSE toChild
        /\ request' = [r \in Requests |-> IF request[r] = "pinning" THEN "sent" ELSE request[r]]
        /\ main' = [main EXCEPT !.pinned = TRUE, !.waiters = <<>>]
    BY <1>8, <2>1 DEF MainReceives, Pinned
  <2>3. main'.child = main.child /\ main'.mode = main.mode /\ main'.reload = main.reload
    BY <1>1, <2>2 DEF Mains
  <2>4. Asked(toChild') \subseteq Asked(toChild) \union ToSet(main.waiters)
    BY <1>1, <2>1, <2>2, AskedBehind
  <2>5. main'.reload => ~SomeOut'
    <3>1. \A r \in Waits : request'[r] \in {"pinning", "sent"} => request[r] \in {"pinning", "sent"}
      BY <2>2 DEF Waits
    <3>2. \A r \in ToSet(main.waiters) : request[r] \in {"pinning", "sent"}
      BY WaiterWaits
    <3> QED BY <1>5, <2>3, <2>4, <3>1, <3>2, QuietAfter
  <2>6. Covered(child', toChild', main'.mode)
    <3>1. CASE child.up
      <4>1. child.pin # None
        BY <1>4, <1>8, <3>1
      <4>2. Covered(child, toChild \o asks, main.mode)
        BY <1>1, <1>2, <2>1, <4>1, CoveredBehind
      <4> QED BY <1>5, <2>2, <2>3, <3>1, <4>2
    <3>2. CASE ~child.up
      BY <1>2, <1>5, <2>2, <2>3, <3>2
    <3> QED BY <3>1, <3>2
  <2>7. Awaited'
    <3>1. \A r \in Requests : request'[r] = "pinning" => r \notin Exempt
      BY <1>2, <2>2
    <3>2. child.up => child.pin # None
      BY <1>4, <1>8
    <3> QED BY <1>2, <1>5, <2>3, <3>1, <3>2 DEF Awaited
  <2> QED BY <1>2, <1>5, <2>5, <2>6, <2>7 DEF SeedInv
<1>9. Head(toMain).type \in {"exit", "response", "pinned"}
  BY <1>3 DEF Says, Responses, Exit
<1> QED BY <1>6, <1>7, <1>8, <1>9

LEMMA SeedStep ==
  ASSUME SwitchesAlone, TaskInv, ForceInv, SeedInv, [Next]_vars
  PROVE  SeedInv'
<1>1. TaskInv'
  BY TaskStep
<1>2. ASSUME NEW r \in Requests,
             Allowed("request while the preference is saved", main.reload) /\ Request(r)
      PROVE  SeedInv'
  BY <1>1, <1>2, SeedRequest DEF Allowed, SwitchesAlone
<1>3. ASSUME NEW r \in Requests, Cancel(r) PROVE SeedInv'
  BY <1>1, <1>3, SeedCancel
<1>4. ASSUME NEW r \in Requests, Broadcasts(r) PROVE SeedInv'
  BY <1>1, <1>4, SeedQuiet DEF Broadcasts, SameTasks
<1>5. CASE \/ \E r \in Requests : \/ TaskSucceeds(r)
                                  \/ \E banned, unheard \in BOOLEAN : TaskFails(r, banned, unheard)
           \/ WarmedUp \/ WarmupFails
  BY <1>1, <1>5, SeedTasks
<1>6. CASE PinTimeout
  BY <1>1, <1>6, SeedTimeout
<1>7. CASE NewEvonodeList \/ ReloadDapi
  BY <1>1, <1>7, SeedPost
<1>8. CASE MainReceives
  BY <1>1, <1>8, SeedReceive
<1>9. CASE Allowed("switch with requests out", SomeOut) /\ ApplyDapi
  <2>1. ~SomeOut
    BY <1>9 DEF Allowed, SwitchesAlone
  <2> QED BY <1>1, <1>9, <2>1, SeedApply
<1>10. CASE ChildReceives
  BY <1>1, <1>10, SeedCommand
<1>11. ASSUME NEW probe \in child.probes,
              (\E over \in BOOLEAN : ProbePins(probe, over)) \/ ProbeFails(probe)
       PROVE  SeedInv'
  BY <1>1, <1>11, SeedProbe
<1>12. CASE (\E list \in child.retries : Reprobe(list)) \/ \E pins \in BOOLEAN : RefillEnds(pins)
  BY <1>1, <1>12, SeedRetry
<1>13. CASE ChildDies
  BY <1>1, <1>13, SeedDeath
<1>14. CASE UNCHANGED vars
  BY <1>1, <1>14, SeedQuiet DEF vars, SameTasks
<1> QED BY <1>2, <1>3, <1>4, <1>5, <1>6, <1>7, <1>8, <1>9, <1>10, <1>11, <1>12, <1>13, <1>14 DEF Next

\* untilPinned keeps its word through forks, deaths, timeouts, cancels and fallbacks, where
\* no switch of the preference crosses a request: nothing that waits for a pin runs on an
\* SDK built before there was an evonode, a seed or a url of the user (untilPinned,
\* wakePinWaiters, SdkRegistry.get).
THEOREM NothingRunsSeedless == ASSUME SwitchesAlone PROVE Spec => []NoSeedlessRun
<1>1. TaskInv /\ ForceInv /\ SeedInv /\ [Next]_vars => SeedInv'
  BY SwitchesAlone, SeedStep
<1>2. SeedInv => NoSeedlessRun
  BY DEF SeedInv, Seeded, NoSeedlessRun
<1> QED BY <1>1, <1>2, TaskInit, TaskStep, ForceStart, ForceStep, SeedStart, PTL DEF Spec
=============================================================================
