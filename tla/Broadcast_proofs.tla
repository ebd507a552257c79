-------------------------- MODULE Broadcast_proofs --------------------------
(***************************************************************************)
(* For every pool, every number of witnesses and acks wanted, and all of   *)
(* the policy's times: whoever can carry the transaction gets it, success  *)
(* is told on evidence only, and a settled call is silent.                 *)
(***************************************************************************)
EXTENDS Broadcast, FiniteSetTheorems, TLAPS

\* What is heard of the transaction comes from a mempool that has it.
HeardIsTrue ==
  /\ propagated # {} => mempools # {}
  /\ locked => mempools # {}

\* Nobody is invited or held back before the call.
NotBefore == outcome = "idle" => invited = {} /\ witnesses = {}

IInv == TypeOK /\ HeardIsTrue /\ NotBefore
     /\ EveryCarrierServed /\ CarriersFirst /\ SuccessIsProof

\* What is due on the clock is due after its start.
LEMMA DueLater ==
  ASSUME now = 0, TypeOK
  PROVE ~Due
<1>1. RebroadcastEvery \in Nat \ {0} /\ MaxRebroadcasts \in Nat /\ rebroadcasts \in 0..MaxRebroadcasts
  BY BroadcastAssumption DEF TypeOK
<1>2. DEFINE left == MaxRebroadcasts - rebroadcasts
<1>3. left \in Nat
  BY <1>1
<1> HIDE DEF left
<1>4. \A n \in Nat \ {0}, m \in Nat : n * (m + 1) = n * m + n /\ n * m \in Nat
  OBVIOUS
<1>5. RebroadcastEvery * (left + 1) # 0
  BY <1>1, <1>3, <1>4
<1> QED
  BY <1>5 DEF Due, left

\* The witnesses leave as many peers as a broadcast wants to have.
LEMMA SparedOnly ==
  ASSUME TypeOK, NEW some \in SUBSET Ready, Cardinality(some) = Spare, some # {}
  PROVE Cardinality(Ready \ some) >= MinPeerAcks
<1>1. IsFiniteSet(Ready) /\ IsFiniteSet(some) /\ IsFiniteSet(Ready \ some)
  <2>1. IsFiniteSet(Peers) /\ Ready \in SUBSET Peers
    BY BroadcastAssumption DEF Ready
  <2>2. IsFiniteSet(Ready)
    BY <2>1, FS_Subset
  <2>3. some \in SUBSET Ready /\ Ready \ some \in SUBSET Ready
    OBVIOUS
  <2> QED
    BY <2>2, <2>3, FS_Subset
<1>2. Cardinality(some \union (Ready \ some))
        = Cardinality(some) + Cardinality(Ready \ some) - Cardinality(some \cap (Ready \ some))
  BY <1>1, FS_Union
<1>3. some \union (Ready \ some) = Ready /\ some \cap (Ready \ some) = {}
  OBVIOUS
<1>4. Cardinality(Ready) = Cardinality(some) + Cardinality(Ready \ some) - 0
  BY <1>2, <1>3, FS_EmptySet
<1>5. /\ Cardinality(Ready) \in Nat /\ Cardinality(some) \in Nat
      /\ Cardinality(Ready \ some) \in Nat
  BY <1>1, FS_CardinalityType
<1>6. Cardinality(some) # 0
  BY <1>1, FS_EmptySet
<1>7. MinPeerAcks \in Nat /\ WitnessPeers \in Nat
  BY BroadcastAssumption
<1>8. Cardinality(some) <= Cardinality(Ready) - MinPeerAcks
  BY <1>5, <1>6, <1>7 DEF Spare
<1> QED
  BY <1>4, <1>5, <1>7, <1>8

-----------------------------------------------------------------------------
(* Types *)

\* What holds of the call and its timers, and of the sets of peers.
TimersTyped ==
  /\ outcome \in {"idle", "running", "succeeded", "failed"}
  /\ waiting \in BOOLEAN
  /\ rebroadcasts \in 0..MaxRebroadcasts /\ now \in 0..Timeout
  /\ pushAt \in [Peers -> 0..Never]
  /\ \A p \in Peers : pushAt[p] # Never => outcome = "running" /\ now <= pushAt[p]

SetsTyped ==
  /\ link \in [Peers -> {"away", "dialing", "ready", "gone"}]
  /\ requested \subseteq sent /\ requested \subseteq invited
  /\ invited \subseteq Peers /\ sent \subseteq Peers /\ propagated \subseteq Peers
  /\ witnesses \subseteq Peers /\ mempools \subseteq Peers
  /\ locked \in BOOLEAN

LEMMA TypesAreBoth == TypeOK <=> TimersTyped /\ SetsTyped
BY DEF TypeOK, TimersTyped, SetsTyped

LEMMA InitType == Init => TypeOK
<1> SUFFICES ASSUME Init PROVE TypeOK
  OBVIOUS
<1>1. 0 \in 0..Timeout /\ MaxRebroadcasts \in 0..MaxRebroadcasts /\ Never \in 0..Never
  BY BroadcastAssumption DEF Never
<1>2. pushAt \in [Peers -> 0..Never] /\ \A p \in Peers : pushAt[p] = Never
  BY <1>1 DEF Init
<1>3. TimersTyped
  BY <1>1, <1>2 DEF Init, TimersTyped
<1>4. SetsTyped
  BY DEF Init, SetsTyped
<1> QED
  BY <1>3, <1>4, TypesAreBoth

\* Push timers are armed for the next step of time, and none is taken away.
LEMMA ArmedTypes ==
  ASSUME TimersTyped, NEW peers
  PROVE /\ Armed(pushAt, peers) \in [Peers -> 0..Never]
        /\ \A p \in Peers : Armed(pushAt, peers)[p] # Never => now <= Armed(pushAt, peers)[p]
        /\ \A p \in Peers : p \in peers \/ pushAt[p] # Never => Armed(pushAt, peers)[p] # Never
<1>1. now \in Nat /\ now <= Timeout /\ Timeout \in Nat /\ Never = Timeout + 2
  BY BroadcastAssumption DEF TimersTyped, Never
<1>2. now + 1 \in 0..Never /\ now + 1 # Never /\ now <= now + 1
  BY <1>1
<1> HIDE DEF Never
<1> QED
  BY <1>2 DEF Armed, TimersTyped

\* A call that ends, by its proof or otherwise, leaves no timer behind.
LEMMA ClearedTypes ==
  ASSUME TimersTyped, Cleared, outcome' \in {"succeeded", "failed"}
  PROVE TimersTyped'
<1>1. Never \in 0..Never
  BY BroadcastAssumption DEF Never
<1> QED
  BY <1>1 DEF TimersTyped, Cleared, Never

LEMMA CheckDoneTypes ==
  ASSUME TimersTyped, outcome = "running",
         NEW armed \in [Peers -> 0..Never],
         \A p \in Peers : armed[p] # Never => now <= armed[p],
         CheckDone(armed)
  PROVE TimersTyped'
<1>1. CASE Proven'
  BY <1>1, ClearedTypes DEF CheckDone
<1>2. CASE ~Proven'
  BY <1>2 DEF CheckDone, TimersTyped, Never
<1> QED
  BY <1>1, <1>2

LEMMA StepTimers == TypeOK /\ [Next]_vars => TimersTyped'
<1> SUFFICES ASSUME TypeOK, [Next]_vars PROVE TimersTyped'
  OBVIOUS
<1>0. TimersTyped /\ SetsTyped /\ \A p \in Peers : pushAt[p] # Never => now <= pushAt[p]
  BY TypesAreBoth DEF TimersTyped
<1>1. CASE Begin
  <2>1. PICK peers : pushAt' = Armed(pushAt, peers)
    BY <1>1 DEF Begin
  <2>2. UNCHANGED <<rebroadcasts, now>> /\ outcome' = "running" /\ waiting' \in BOOLEAN
    BY <1>1 DEF Begin
  <2> QED
    BY <1>0, <2>1, <2>2, ArmedTypes DEF TimersTyped, Never
<1>2. CASE NobodyThere
  <2>1. CASE invited = {}
    BY <1>0, <1>2, <2>1, ClearedTypes DEF NobodyThere, Fail
  <2>2. CASE invited # {}
    BY <1>0, <1>2, <2>2 DEF NobodyThere, TimersTyped, Never
  <2> QED
    BY <2>1, <2>2
<1>3. CASE Rebroadcast
  <2>1. PICK peers : pushAt' = Armed(pushAt, peers)
    BY <1>3 DEF Rebroadcast
  <2>2. outcome' = "running" /\ UNCHANGED <<waiting, now>>
    BY <1>3 DEF Rebroadcast
  <2>3. rebroadcasts' \in 0..MaxRebroadcasts
    BY <1>0, <1>3, BroadcastAssumption DEF Rebroadcast, Due, TimersTyped
  <2> QED
    BY <1>0, <2>1, <2>2, <2>3, ArmedTypes DEF TimersTyped, Never
<1>4. CASE Deadline
  BY <1>0, <1>4, ClearedTypes DEF Deadline, Fail
<1>5. CASE Tick
  <2>1. now' = now + 1 /\ now < Timeout /\ UNCHANGED <<outcome, pushAt, waiting, rebroadcasts>>
    BY <1>5 DEF Tick
  <2>2. \A p \in Peers : pushAt[p] # now
    BY <1>5 DEF Tick
  <2>3. Timeout \in Nat /\ now \in 0..Timeout /\ now' \in 0..Timeout
    BY <1>0, <2>1, BroadcastAssumption DEF TimersTyped
  <2>4. \A p \in Peers : pushAt[p] \in 0..Never /\ Never \in Nat
    BY <1>0, BroadcastAssumption DEF TimersTyped, Never
  <2>5. \A p \in Peers : pushAt[p] # Never => now' <= pushAt[p]
    BY <1>0, <2>1, <2>2, <2>3, <2>4
  <2> QED
    BY <1>0, <2>1, <2>3, <2>5 DEF TimersTyped, Never
<1>6. CASE Lock
  BY <1>0, <1>6, CheckDoneTypes DEF Lock, TimersTyped
<1>7. ASSUME NEW p \in Peers, Push(p) PROVE TimersTyped'
  <2>1. DEFINE left == [pushAt EXCEPT ![p] = Never]
  <2>2. left \in [Peers -> 0..Never] /\ \A q \in Peers : left[q] # Never => now <= left[q]
    <3>1. Never \in 0..Never
      BY BroadcastAssumption DEF Never
    <3>2. pushAt \in [Peers -> 0..Never]
      BY <1>0 DEF TimersTyped
    <3> QED
      BY <1>0, <3>1, <3>2
  <2>3. outcome = "running"
    BY <1>7 DEF Push
  <2>4. CASE sent' = sent
    <3>1. pushAt' = left /\ UNCHANGED <<outcome, waiting, rebroadcasts, now>>
      BY <1>7, <2>4 DEF Push
    <3> HIDE DEF left
    <3> QED
      BY <1>0, <2>2, <2>3, <3>1 DEF TimersTyped, Never
  <2>5. CASE sent' # sent
    <3>1. CheckDone(left)
      BY <1>7, <2>5 DEF Push
    <3> HIDE DEF left
    <3> QED
      BY <1>0, <2>2, <2>3, <3>1, CheckDoneTypes
  <2> QED
    BY <2>4, <2>5
<1>8. ASSUME NEW p \in Peers, PeerReady(p) PROVE TimersTyped'
  <2>1. CASE outcome = "running"
    <3>1. CheckDone(Armed(pushAt, {p}))
      BY <1>8, <2>1 DEF PeerReady
    <3> QED
      BY <1>0, <2>1, <3>1, ArmedTypes, CheckDoneTypes
  <2>2. CASE outcome # "running"
    BY <1>0, <1>8, <2>2 DEF PeerReady, TimersTyped, timers, Never
  <2> QED
    BY <2>1, <2>2
<1>9. ASSUME NEW p \in Peers, Request(p) \/ Propagated(p) PROVE TimersTyped'
  BY <1>0, <1>9, CheckDoneTypes DEF Request, Propagated, TimersTyped
<1>10. ASSUME NEW p \in Peers, Dial(p) \/ Disconnect(p) \/ Accept(p) PROVE TimersTyped'
  BY <1>0, <1>10 DEF Dial, Disconnect, Accept, TimersTyped, timers, Never
<1>11. ASSUME NEW p \in Peers, Reject(p) PROVE TimersTyped'
  BY <1>0, <1>11, ClearedTypes DEF Reject, Fail
<1>12. CASE UNCHANGED vars
  BY <1>0, <1>12 DEF vars, timers, TimersTyped, Never
<1> QED
  BY <1>1, <1>2, <1>3, <1>4, <1>5, <1>6, <1>7, <1>8, <1>9, <1>10, <1>11, <1>12 DEF Next, Clock

LEMMA StepSets == TypeOK /\ [Next]_vars => SetsTyped'
<1> SUFFICES ASSUME TypeOK, [Next]_vars PROVE SetsTyped'
  OBVIOUS
<1>0. SetsTyped
  BY TypesAreBoth
<1> USE DEF SetsTyped
<1>1. CASE Begin \/ Rebroadcast
  <2>1. witnesses' \subseteq Peers /\ invited' \subseteq Peers /\ invited \subseteq invited'
    BY <1>0, <1>1 DEF Begin, Rebroadcast, InviteNewPeers, Invited, ReserveWitnesses, Ready
  <2>2. UNCHANGED <<link, requested, sent, propagated, locked, mempools>>
    BY <1>1 DEF Begin, Rebroadcast
  <2> QED
    BY <1>0, <2>1, <2>2
<1>2. CASE NobodyThere \/ Deadline \/ Tick \/ UNCHANGED vars
  BY <1>0, <1>2 DEF NobodyThere, Deadline, Tick, vars
<1>3. CASE Lock
  BY <1>0, <1>3 DEF Lock
<1>4. ASSUME NEW p \in Peers, Push(p) \/ Dial(p) \/ Disconnect(p) PROVE SetsTyped'
  BY <1>0, <1>4 DEF Push, Dial, Disconnect
<1>5. ASSUME NEW p \in Peers, PeerReady(p) PROVE SetsTyped'
  BY <1>0, <1>5 DEF PeerReady
<1>6. ASSUME NEW p \in Peers, Request(p) \/ Accept(p) PROVE SetsTyped'
  BY <1>0, <1>6 DEF Request, Accept
<1>7. ASSUME NEW p \in Peers, Propagated(p) \/ Reject(p) PROVE SetsTyped'
  BY <1>0, <1>7 DEF Propagated, Reject
<1> QED
  BY <1>1, <1>2, <1>3, <1>4, <1>5, <1>6, <1>7 DEF Next, Clock

LEMMA StepType == TypeOK /\ [Next]_vars => TypeOK'
BY StepTimers, StepSets, TypesAreBoth DEF TypeOK, TimersTyped, SetsTyped

\* Every variable keeps its type: above all, a settled call has no timer
\* (BroadcastService, cleanup).
THEOREM TypeCorrect == Spec => []TypeOK
<1> QED
  BY InitType, StepType, PTL DEF Spec

-----------------------------------------------------------------------------
(* What is told and what is served *)

\* A call that its proof ends has that proof.
LEMMA CheckDoneProof ==
  ASSUME outcome = "running", HeardIsTrue', NEW armed, CheckDone(armed)
  PROVE SuccessIsProof'
<1>1. CASE Proven'
  BY <1>1 DEF Proven, HeardIsTrue, SuccessIsProof
<1>2. CASE ~Proven'
  BY <1>2 DEF CheckDone, SuccessIsProof
<1> QED
  BY <1>1, <1>2

LEMMA StepTrue ==
  TypeOK /\ HeardIsTrue /\ SuccessIsProof /\ [Next]_vars => HeardIsTrue' /\ SuccessIsProof'
<1> SUFFICES ASSUME TypeOK, HeardIsTrue, SuccessIsProof, [Next]_vars
             PROVE HeardIsTrue' /\ SuccessIsProof'
  OBVIOUS
<1> USE DEF HeardIsTrue
<1>1. CASE Begin \/ Rebroadcast \/ Tick
  <2>1. outcome' = "running" /\ UNCHANGED <<propagated, locked, mempools>>
    BY <1>1 DEF Begin, Rebroadcast, Tick
  <2> QED
    BY <2>1 DEF SuccessIsProof
<1>2. CASE NobodyThere \/ Deadline
  BY <1>2 DEF NobodyThere, Deadline, Fail, SuccessIsProof
<1>3. CASE Lock
  BY <1>3, CheckDoneProof DEF Lock
<1>4. ASSUME NEW p \in Peers, Push(p) PROVE HeardIsTrue' /\ SuccessIsProof'
  <2>1. HeardIsTrue' /\ outcome = "running"
    BY <1>4 DEF Push
  <2>2. CASE sent' = sent
    BY <1>4, <2>2 DEF Push, SuccessIsProof
  <2>3. CASE sent' # sent
    BY <1>4, <2>1, <2>3, CheckDoneProof DEF Push
  <2> QED
    BY <2>1, <2>2, <2>3
<1>5. ASSUME NEW p \in Peers, PeerReady(p) PROVE HeardIsTrue' /\ SuccessIsProof'
  <2>1. HeardIsTrue'
    BY <1>5 DEF PeerReady
  <2>2. CASE outcome = "running"
    BY <1>5, <2>1, <2>2, CheckDoneProof DEF PeerReady
  <2>3. CASE outcome # "running"
    BY <1>5, <2>3 DEF PeerReady, SuccessIsProof, Delivered
  <2> QED
    BY <2>1, <2>2, <2>3
<1>6. ASSUME NEW p \in Peers, Dial(p) \/ Disconnect(p) \/ Accept(p)
      PROVE HeardIsTrue' /\ SuccessIsProof'
  BY <1>6 DEF Dial, Disconnect, Accept, SuccessIsProof, Delivered
<1>7. ASSUME NEW p \in Peers, Request(p) PROVE HeardIsTrue' /\ SuccessIsProof'
  BY <1>7, CheckDoneProof DEF Request
<1>8. ASSUME NEW p \in Peers, Propagated(p) PROVE HeardIsTrue' /\ SuccessIsProof'
  BY <1>8, CheckDoneProof DEF Propagated
<1>9. ASSUME NEW p \in Peers, Reject(p) PROVE HeardIsTrue' /\ SuccessIsProof'
  BY <1>9 DEF Reject, Fail, SuccessIsProof
<1>10. CASE UNCHANGED vars
  BY <1>10 DEF vars, SuccessIsProof, Delivered
<1> QED
  BY <1>1, <1>2, <1>3, <1>4, <1>5, <1>6, <1>7, <1>8, <1>9, <1>10 DEF Next, Clock

\* No carrier is left out: p was told of the transaction and has it, or is due.
Served(p) == p \in invited /\ (p \in Delivered \/ pushAt[p] # Never)

\* A step that keeps the call open and takes no peer's timer away serves the
\* carriers it leaves.
LEMMA StillServed ==
  ASSUME TypeOK, EveryCarrierServed, outcome = "running", NEW armed,
         CheckDone(armed), \A q \in Peers : pushAt[q] # Never => armed[q] # Never,
         invited \subseteq invited', requested \subseteq requested', sent \subseteq sent',
         witnesses' = witnesses,
         \A q \in Peers : link'[q] = "ready" /\ link[q] # "ready" /\ q \notin witnesses
                            => q \in invited' /\ armed[q] # Never
  PROVE EveryCarrierServed'
<1> SUFFICES ASSUME outcome' = "running", NEW q \in Ready' \ witnesses'
             PROVE Served(q)'
  BY DEF EveryCarrierServed, Served
<1>1. pushAt' = armed
  BY DEF CheckDone
<1>2. q \in Peers /\ link'[q] = "ready" /\ q \notin witnesses
  BY DEF Ready
<1>3. CASE link[q] = "ready"
  BY <1>1, <1>2, <1>3 DEF Ready, EveryCarrierServed, Served, Delivered
<1>4. CASE link[q] # "ready"
  BY <1>1, <1>2, <1>4 DEF Served
<1> QED
  BY <1>3, <1>4

LEMMA StepServed ==
  TypeOK /\ NotBefore /\ EveryCarrierServed /\ [Next]_vars => NotBefore' /\ EveryCarrierServed'
<1> SUFFICES ASSUME TypeOK, NotBefore, EveryCarrierServed, [Next]_vars
             PROVE NotBefore' /\ EveryCarrierServed'
  OBVIOUS
<1>0. TimersTyped
  BY TypesAreBoth
<1>1. CASE Begin
  <2>1. outcome' = "running" /\ invited' = Invited /\ UNCHANGED <<link, requested, sent>>
    BY <1>1 DEF Begin, InviteNewPeers, NotBefore
  <2>2. pushAt' = Armed(pushAt, Invited)
    BY <1>1 DEF Begin
  <2>3. ASSUME NEW q \in Ready' \ witnesses' PROVE Served(q)'
    <3>1. q \in Peers /\ q \in Invited
      BY <1>1, <2>1, <2>3 DEF Ready, Invited, NotBefore, Begin
    <3> QED
      BY <1>0, <2>1, <2>2, <3>1, ArmedTypes DEF Served, Never
  <2> QED
    BY <2>1, <2>3 DEF NotBefore, EveryCarrierServed, Served
<1>2. CASE Rebroadcast
  <2>1. /\ outcome = "running" /\ outcome' = "running" /\ UNCHANGED <<link, requested, sent>>
        /\ invited' = invited \union Invited /\ pushAt' = Armed(pushAt, Invited)
        /\ witnesses \subseteq witnesses'
    BY <1>2 DEF Rebroadcast, InviteNewPeers, ReserveWitnesses
  <2>2. ASSUME NEW q \in Ready' \ witnesses' PROVE Served(q)'
    <3>1. q \in Peers /\ q \in Ready \ witnesses
      BY <2>1, <2>2 DEF Ready
    <3>2. Served(q)
      BY <2>1, <3>1 DEF EveryCarrierServed, Served
    <3> QED
      BY <1>0, <2>1, <3>1, <3>2, ArmedTypes DEF Served, Never, Delivered
  <2> QED
    BY <2>1, <2>2 DEF NotBefore, EveryCarrierServed, Served
<1>3. CASE Tick
  BY <1>3 DEF Tick, NotBefore, EveryCarrierServed, Ready, Delivered, Never
<1>4. CASE NobodyThere
  BY <1>4 DEF NobodyThere, Fail, NotBefore, EveryCarrierServed, Ready, Delivered, Never
<1>5. CASE Deadline
  BY <1>5 DEF Deadline, Fail, NotBefore, EveryCarrierServed
<1>6. CASE Lock
  <2>1. /\ outcome = "running" /\ CheckDone(pushAt)
        /\ UNCHANGED <<link, invited, requested, sent, witnesses>>
    BY <1>6 DEF Lock
  <2> QED
    BY <2>1, StillServed DEF CheckDone, NotBefore
<1>7. ASSUME NEW p \in Peers, Push(p) PROVE NotBefore' /\ EveryCarrierServed'
  <2>1. /\ outcome = "running" /\ UNCHANGED <<link, invited, requested, witnesses>>
        /\ sent \subseteq sent'
        /\ p \in Ready => p \in requested' \union sent'
    BY <1>7 DEF Push, Ready, Delivered
  <2>2. outcome' # "idle"
    BY <1>7, <2>1 DEF Push, CheckDone
  <2>3. pushAt' = [pushAt EXCEPT ![p] = Never] \/ outcome' # "running"
    BY <1>7 DEF Push, CheckDone
  <2>4. ASSUME outcome' = "running", NEW q \in Ready' \ witnesses' PROVE Served(q)'
    <3>1. q \in Ready \ witnesses /\ q \in Peers
      BY <2>1, <2>4 DEF Ready
    <3>2. Served(q)
      BY <2>1, <3>1 DEF EveryCarrierServed, Served
    <3>3. CASE q = p
      BY <2>1, <3>1, <3>2, <3>3 DEF Served, Delivered
    <3>4. CASE q # p
      <4>1. pushAt'[q] = pushAt[q]
        BY <1>0, <2>3, <2>4, <3>1, <3>4 DEF TimersTyped
      <4> QED
        BY <2>1, <3>2, <4>1 DEF Served, Delivered, Never
    <3> QED
      BY <3>3, <3>4
  <2> QED
    BY <2>2, <2>4 DEF NotBefore, EveryCarrierServed, Served
<1>8. ASSUME NEW p \in Peers, PeerReady(p) PROVE NotBefore' /\ EveryCarrierServed'
  <2>1. CASE outcome = "running"
    <3>1. CheckDone(Armed(pushAt, {p})) /\ UNCHANGED <<requested, sent, witnesses>>
          /\ invited' = invited \union {p}
      BY <1>8, <2>1 DEF PeerReady
    <3>2. \A q \in Peers : link'[q] = "ready" /\ link[q] # "ready" => q = p
      BY <1>8, TypesAreBoth DEF PeerReady, SetsTyped
    <3>3. \A q \in Peers : q = p \/ pushAt[q] # Never => Armed(pushAt, {p})[q] # Never
      BY <1>0, ArmedTypes
    <3>4. EveryCarrierServed'
      <4> DEFINE armed == Armed(pushAt, {p})
      <4>1. CheckDone(armed) /\ \A q \in Peers : pushAt[q] # Never => armed[q] # Never
        BY <3>1, <3>3
      <4>2. \A q \in Peers : link'[q] = "ready" /\ link[q] # "ready" /\ q \notin witnesses
                                => q \in invited' /\ armed[q] # Never
        BY <3>1, <3>2, <3>3
      <4> HIDE DEF armed
      <4> QED
        BY <2>1, <3>1, <4>1, <4>2, StillServed
    <3> QED
      BY <2>1, <3>1, <3>4 DEF CheckDone, NotBefore
  <2>2. CASE outcome # "running"
    BY <1>8, <2>2 DEF PeerReady, NotBefore, EveryCarrierServed
  <2> QED
    BY <2>1, <2>2
<1>9. ASSUME NEW p \in Peers, Request(p) \/ Propagated(p)
      PROVE NotBefore' /\ EveryCarrierServed'
  <2>1. /\ outcome = "running" /\ CheckDone(pushAt) /\ UNCHANGED <<link, invited, witnesses>>
        /\ requested \subseteq requested' /\ sent \subseteq sent'
    BY <1>9 DEF Request, Propagated
  <2> QED
    BY <2>1, StillServed DEF CheckDone, NotBefore
<1>10. ASSUME NEW p \in Peers, Dial(p) \/ Disconnect(p) PROVE NotBefore' /\ EveryCarrierServed'
  <2>1. Ready' \subseteq Ready
    BY <1>10, TypesAreBoth DEF Dial, Disconnect, Ready, SetsTyped
  <2> QED
    BY <1>10, <2>1 DEF Dial, Disconnect, timers, NotBefore, EveryCarrierServed, Delivered, Never
<1>11. ASSUME NEW p \in Peers, Accept(p) PROVE NotBefore' /\ EveryCarrierServed'
  BY <1>11 DEF Accept, timers, NotBefore, EveryCarrierServed, Ready, Delivered, Never
<1>12. ASSUME NEW p \in Peers, Reject(p) PROVE NotBefore' /\ EveryCarrierServed'
  BY <1>12 DEF Reject, Fail, NotBefore, EveryCarrierServed
<1>13. CASE UNCHANGED vars
  BY <1>13 DEF vars, timers, NotBefore, EveryCarrierServed, Ready, Delivered, Never
<1> QED
  BY <1>1, <1>2, <1>3, <1>4, <1>5, <1>6, <1>7, <1>8, <1>9, <1>10, <1>11, <1>12, <1>13 DEF Next, Clock

-----------------------------------------------------------------------------
(* Who carries it *)

\* The peers a broadcast was offered to, gone ones included.
Carriers == {p \in invited : link[p] # "away"}

LEMMA CarriersGrow ==
  ASSUME TypeOK, TypeOK', invited \subseteq invited',
         \A p \in Peers : link[p] # "away" => link'[p] # "away",
         Cardinality(Carriers) >= MinPeerAcks
  PROVE Cardinality(Carriers') >= MinPeerAcks
<1>1. Carriers \in SUBSET Carriers' /\ Carriers' \in SUBSET Peers
  BY DEF TypeOK, Carriers
<1>2. IsFiniteSet(Carriers') /\ IsFiniteSet(Carriers)
  BY <1>1, FS_Subset, BroadcastAssumption
<1>3. Cardinality(Carriers) <= Cardinality(Carriers')
  BY <1>1, <1>2, FS_Subset
<1>4. Cardinality(Carriers) \in Nat /\ Cardinality(Carriers') \in Nat
  BY <1>2, FS_CardinalityType
<1> QED
  BY <1>3, <1>4, BroadcastAssumption

LEMMA StepCarriers ==
  TypeOK /\ TypeOK' /\ NotBefore /\ CarriersFirst /\ [Next]_vars => CarriersFirst'
<1> SUFFICES ASSUME TypeOK, TypeOK', NotBefore, CarriersFirst, [Next]_vars,
                    outcome' = "running", now' = 0, witnesses' # {}
             PROVE Cardinality(Carriers') >= MinPeerAcks
  BY DEF CarriersFirst, Carriers
<1>1. CASE Begin
  <2>1. UNCHANGED link /\ invited' = Ready \ witnesses'
    BY <1>1 DEF Begin, InviteNewPeers, Invited, NotBefore
  <2>2. witnesses' \in SUBSET Ready /\ Cardinality(witnesses') = Spare
    BY <1>1 DEF Begin, InviteNewPeers, ReserveWitnesses, NotBefore
  <2>3. Carriers' = Ready \ witnesses'
    BY <2>1 DEF Carriers, Ready
  <2> QED
    BY <2>2, <2>3, SparedOnly
<1>2. CASE Rebroadcast
  <2>1. now = 0 /\ Due
    BY <1>2 DEF Rebroadcast
  <2> QED
    BY <2>1, DueLater
<1>3. CASE Tick
  BY <1>3 DEF Tick, TypeOK
<1>4. CASE ~(Begin \/ Rebroadcast \/ Tick)
  <2>1. /\ outcome = "running" /\ now = 0 /\ witnesses = witnesses'
        /\ invited \subseteq invited'
    BY <1>4 DEF Next, Clock, NobodyThere, Deadline, Lock, Push, Dial, PeerReady, Disconnect,
       Request, Accept, Propagated, Reject, CheckDone, Cleared, Fail, timers, vars
  <2>2. \A p \in Peers : link[p] # "away" => link'[p] # "away"
    BY <1>4 DEF Next, Clock, NobodyThere, Deadline, Lock, Push, Dial, PeerReady, Disconnect,
       Request, Accept, Propagated, Reject, vars, TypeOK
  <2>3. Cardinality(Carriers) >= MinPeerAcks
    BY <2>1 DEF CarriersFirst, Carriers
  <2> QED
    BY <2>1, <2>2, <2>3, CarriersGrow
<1> QED
  BY <1>1, <1>2, <1>3, <1>4

-----------------------------------------------------------------------------
LEMMA InitIInv == Init => IInv
<1> SUFFICES ASSUME Init PROVE IInv
  OBVIOUS
<1>1. TypeOK
  BY InitType
<1>2. HeardIsTrue /\ NotBefore /\ EveryCarrierServed /\ CarriersFirst /\ SuccessIsProof
  BY DEF Init, HeardIsTrue, NotBefore, EveryCarrierServed, CarriersFirst, SuccessIsProof
<1> QED
  BY <1>1, <1>2 DEF IInv

LEMMA StepIInv == IInv /\ [Next]_vars => IInv'
BY StepType, StepTrue, StepServed, StepCarriers DEF IInv

\* Whoever can carry the transaction gets it, whenever it came, and witnesses
\* are only held back while enough can (reserveWitnesses, inviteNewPeers,
\* armUnsolicited).
THEOREM CarriersAreServed == Spec => []CarriersServed
<1>1. IInv => CarriersServed
  BY DEF IInv, CarriersServed
<1> QED
  BY <1>1, InitIInv, StepIInv, PTL DEF Spec

\* Success is told on evidence only (checkDone).
THEOREM SuccessIsProved == Spec => []SuccessIsProof
<1>1. IInv => SuccessIsProof
  BY DEF IInv
<1> QED
  BY <1>1, InitIInv, StepIInv, PTL DEF Spec

\* A call that has settled keeps its outcome and sends nothing (cleanup).
THEOREM SettledIsQuiet == Spec => QuietAfter
<1>1. [Next]_vars => [Settled => outcome' = outcome /\ invited' = invited /\ sent' = sent]_vars
  BY DEF Settled, Next, Clock, Begin, NobodyThere, Rebroadcast, Deadline, Tick, Lock, Push,
     Dial, PeerReady, Disconnect, Request, Accept, Propagated, Reject, vars
<1> QED
  BY <1>1, PTL DEF Spec, QuietAfter
=============================================================================
