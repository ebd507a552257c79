----------------------------- MODULE Broadcast -----------------------------
(***************************************************************************)
(* One broadcast of a transaction over the lock pool (BroadcastService).   *)
(* Ready peers are invited with an inv, except a few witnesses: a peer     *)
(* never relays a transaction to one that announced it, so only a peer     *)
(* left uninvited can prove that the transaction reached a mempool.  A     *)
(* peer that does not ask for it is pushed the bytes after a while, new    *)
(* peers are invited as they come, and the call settles on a proof, a      *)
(* rejection or its deadline.                                              *)
(*                                                                         *)
(* A peer here is one connection: who reconnects is another peer.  Time    *)
(* passes in steps of unsolicitedPushAfterMs, and no timer is late.        *)
(***************************************************************************)
EXTENDS Naturals, FiniteSets

CONSTANTS
  Peers,            \* connections of the pool
  Pinned,           \* pinnedOnly: the pool holds only the peers the user named
  RequireLock,      \* requireInstantLock
  MinPeerAcks, WitnessPeers, MaxRebroadcasts,    \* of BROADCAST_POLICY
  PeerWait, RebroadcastEvery, Timeout            \* its times, in steps

ASSUME BroadcastAssumption ==
  /\ IsFiniteSet(Peers)
  /\ Pinned \in BOOLEAN /\ RequireLock \in BOOLEAN
  /\ MinPeerAcks \in Nat /\ WitnessPeers \in Nat /\ MaxRebroadcasts \in Nat
  /\ Timeout \in Nat /\ PeerWait \in 1..Timeout /\ RebroadcastEvery \in 1..Timeout

VARIABLES
  outcome,      \* "idle" before the call; "running", "succeeded" or "failed"
  link,         \* connections: "away", "dialing", "ready" or "gone"
  invited, requested, sent, propagated,      \* the session's sets of peers
  locked,       \* instantLocked
  witnesses,
  pushAt,       \* pushTimers: when each fires, Never if it is not armed
  waiting,      \* the timer that fails a call no peer was there for
  rebroadcasts, \* rebroadcastsLeft
  now,
  mempools      \* peers that hold the transaction in theirs

timers == <<pushAt, waiting, rebroadcasts, now>>
vars == <<outcome, link, invited, requested, sent, propagated, locked,
          witnesses, timers, mempools>>

Never == Timeout + 2
Ready == {p \in Peers : link[p] = "ready"}
Settled == outcome \in {"succeeded", "failed"}
Delivered == requested \union sent

Init ==
  /\ outcome = "idle"
  /\ link \in [Peers -> {"away", "dialing", "ready"}]
  /\ invited = {} /\ requested = {} /\ sent = {} /\ propagated = {}
  /\ locked = FALSE /\ witnesses = {}
  /\ pushAt = [p \in Peers |-> Never] /\ waiting = FALSE
  /\ rebroadcasts = MaxRebroadcasts /\ now = 0
  /\ mempools = {}

-----------------------------------------------------------------------------
(* What settles a broadcast *)

\* A bug for Proven: delivery is proof on a pinned pool whoever could witness.
Proven_Unwitnessed == locked \/ propagated # {} \/ (Pinned /\ Delivered # {})

\* checkDone: is this the end?
Proven ==
  IF RequireLock
  THEN locked /\ propagated # {}
  ELSE \/ locked
       \/ propagated # {}
       \/ Pinned /\ witnesses = {} /\ Delivered # {}

\* cleanup: every timer is cleared.
Cleared ==
  /\ pushAt' = [p \in Peers |-> Never]
  /\ waiting' = FALSE
  /\ UNCHANGED <<rebroadcasts, now>>

\* The end of a handler that calls checkDone; armed is what it leaves of pushAt.
CheckDone(armed) ==
  IF Proven'
  THEN outcome' = "succeeded" /\ Cleared
  ELSE /\ outcome' = outcome /\ pushAt' = armed
       /\ UNCHANGED <<waiting, rebroadcasts, now>>

Fail == outcome' = "failed" /\ Cleared

-----------------------------------------------------------------------------
(* Inviting *)

\* A bug for Spare: peers are held back even from carrying the transaction.
Spare_Always == WitnessPeers

\* How many of the ready peers can be spared to watch, when it is that many.
Spare ==
  LET over == IF Cardinality(Ready) > MinPeerAcks
              THEN Cardinality(Ready) - MinPeerAcks ELSE 0
  IN  IF WitnessPeers < over THEN WitnessPeers ELSE over

\* reserveWitnesses: chosen once, from whoever is last in the pool's order.
ReserveWitnesses ==
  IF witnesses # {}
  THEN UNCHANGED witnesses
  ELSE \E some \in SUBSET Ready : Cardinality(some) = Spare /\ witnesses' = some

\* armUnsolicited for those just invited.
Armed(at, peers) ==
  [p \in Peers |-> IF p \in peers /\ at[p] = Never THEN now + 1 ELSE at[p]]

\* inviteNewPeers
Invited == Ready \ (witnesses' \union invited)
InviteNewPeers == ReserveWitnesses /\ invited' = invited \union Invited

\* The call.
Begin ==
  /\ outcome = "idle"
  /\ InviteNewPeers
  /\ outcome' = "running"
  /\ pushAt' = Armed(pushAt, Invited)
  /\ waiting' = \A p \in Peers : link[p] \notin {"ready", "dialing"}
  /\ UNCHANGED <<link, requested, sent, propagated, locked,
                 rebroadcasts, now, mempools>>

\* A bug for PeerReady: the peer is invited before the call is seen to be over.
PeerReady_InvitesFirst(p) ==
  /\ link[p] = "dialing"
  /\ link' = [link EXCEPT ![p] = "ready"]
  /\ invited' = IF outcome = "idle" THEN invited ELSE invited \union {p}
  /\ UNCHANGED <<requested, sent, propagated, locked, witnesses>>
  /\ IF outcome = "running"
     THEN CheckDone(Armed(pushAt, {p}))
     ELSE UNCHANGED <<outcome, timers>>
  /\ UNCHANGED mempools

\* A handshake completes: who is ready is invited, unless the call is over.
PeerReady(p) ==
  /\ link[p] = "dialing"
  /\ link' = [link EXCEPT ![p] = "ready"]
  /\ IF outcome = "running"
     THEN /\ invited' = invited \union {p}
          /\ UNCHANGED <<requested, sent, propagated, locked, witnesses>>
          /\ CheckDone(Armed(pushAt, {p}))
     ELSE UNCHANGED <<outcome, invited, requested, sent, propagated, locked,
                      witnesses, timers>>
  /\ UNCHANGED mempools

Dial(p) ==
  /\ outcome \in {"idle", "running"} /\ link[p] = "away"
  /\ link' = [link EXCEPT ![p] = "dialing"]
  /\ UNCHANGED <<outcome, invited, requested, sent, propagated, locked,
                 witnesses, timers, mempools>>

Disconnect(p) ==
  /\ outcome \in {"idle", "running"} /\ link[p] \in {"dialing", "ready"}
  /\ link' = [link EXCEPT ![p] = "gone"]
  /\ UNCHANGED <<outcome, invited, requested, sent, propagated, locked,
                 witnesses, timers, mempools>>

-----------------------------------------------------------------------------
(* What peers answer *)

\* A getdata for the transaction, which the session serves.
Request(p) ==
  /\ outcome = "running" /\ p \in Ready \cap invited /\ p \notin Delivered
  /\ requested' = requested \union {p}
  /\ sent' = sent \union {p}
  /\ UNCHANGED <<invited, propagated, locked, witnesses>>
  /\ CheckDone(pushAt)
  /\ UNCHANGED <<link, mempools>>

\* A peer takes what it was sent into its mempool (or never does, silently);
\* one that was not hears of it from the others.
Accept(p) ==
  /\ outcome = "running" /\ link[p] = "ready" /\ p \notin mempools
  /\ p \in sent \/ mempools # {}
  /\ mempools' = mempools \union {p}
  /\ UNCHANGED <<outcome, link, invited, requested, sent, propagated, locked,
                 witnesses, timers>>

\* And announces it to us, unless it was us who told it.
Propagated(p) ==
  /\ outcome = "running" /\ p \in (Ready \cap mempools) \ invited
  /\ propagated' = propagated \union {p}
  /\ UNCHANGED <<invited, requested, sent, locked, witnesses>>
  /\ CheckDone(pushAt)
  /\ UNCHANGED <<link, mempools>>

\* onLock
Lock ==
  /\ outcome = "running" /\ ~locked /\ mempools # {} /\ Ready # {}
  /\ locked' = TRUE
  /\ UNCHANGED <<invited, requested, sent, propagated, witnesses>>
  /\ CheckDone(pushAt)
  /\ UNCHANGED <<link, mempools>>

\* An old peer refuses aloud, and failOnReject makes that the end.
Reject(p) ==
  /\ outcome = "running" /\ p \in (Ready \cap sent) \ mempools
  /\ Fail
  /\ UNCHANGED <<link, invited, requested, sent, propagated, locked,
                 witnesses, mempools>>

-----------------------------------------------------------------------------
(* Timers *)

\* A push timer fires: the bytes go to a peer that has not asked for them.
Push(p) ==
  /\ outcome = "running" /\ pushAt[p] = now
  /\ sent' = IF p \in Delivered \/ link[p] # "ready" THEN sent ELSE sent \union {p}
  /\ UNCHANGED <<invited, requested, propagated, locked, witnesses>>
  /\ IF sent' = sent
     THEN /\ pushAt' = [pushAt EXCEPT ![p] = Never]
          /\ UNCHANGED <<outcome, waiting, rebroadcasts, now>>
     ELSE CheckDone([pushAt EXCEPT ![p] = Never])
  /\ UNCHANGED <<link, mempools>>

NobodyThere ==
  /\ outcome = "running" /\ waiting /\ now = PeerWait
  /\ IF invited = {}
     THEN Fail
     ELSE /\ waiting' = FALSE
          /\ UNCHANGED <<outcome, pushAt, rebroadcasts, now>>
  /\ UNCHANGED <<link, invited, requested, sent, propagated, locked,
                 witnesses, mempools>>

\* The rebroadcast interval is due at its first two multiples (as many as are left).
Due == rebroadcasts > 0
    /\ now = RebroadcastEvery * (MaxRebroadcasts - rebroadcasts + 1)

\* No checkDone follows.
Rebroadcast ==
  /\ outcome = "running" /\ Due
  /\ rebroadcasts' = rebroadcasts - 1
  /\ InviteNewPeers
  /\ pushAt' = Armed(pushAt, Invited)
  /\ UNCHANGED <<outcome, waiting, now, link, requested, sent, propagated,
                 locked, mempools>>

Deadline ==
  /\ outcome = "running" /\ now = Timeout
  /\ Fail
  /\ UNCHANGED <<link, invited, requested, sent, propagated, locked,
                 witnesses, mempools>>

\* Time passes once the timers that are due have fired.
Tick ==
  /\ outcome = "running" /\ now < Timeout
  /\ \A p \in Peers : pushAt[p] # now
  /\ ~(waiting /\ now = PeerWait) /\ ~Due
  /\ now' = now + 1
  /\ UNCHANGED <<outcome, link, invited, requested, sent, propagated, locked,
                 witnesses, pushAt, waiting, rebroadcasts, mempools>>

-----------------------------------------------------------------------------
Clock == NobodyThere \/ Rebroadcast \/ Deadline \/ Tick \/ \E p \in Peers : Push(p)

Next ==
  \/ Begin \/ Clock \/ Lock
  \/ \E p \in Peers :
       \/ Dial(p) \/ PeerReady(p) \/ Disconnect(p)
       \/ Request(p) \/ Accept(p) \/ Propagated(p) \/ Reject(p)

Spec == Init /\ [][Next]_vars

\* A call that is made runs on timers; nothing else has to happen.
FairSpec == Spec /\ WF_vars(Clock)

-----------------------------------------------------------------------------
TypeOK ==
  /\ outcome \in {"idle", "running", "succeeded", "failed"}
  /\ link \in [Peers -> {"away", "dialing", "ready", "gone"}]
  /\ requested \subseteq sent /\ requested \subseteq invited
  /\ invited \subseteq Peers /\ sent \subseteq Peers /\ propagated \subseteq Peers
  /\ witnesses \subseteq Peers /\ mempools \subseteq Peers
  /\ locked \in BOOLEAN /\ waiting \in BOOLEAN
  /\ rebroadcasts \in 0..MaxRebroadcasts /\ now \in 0..Timeout
  /\ pushAt \in [Peers -> 0..Never]
  /\ \A p \in Peers : pushAt[p] # Never => outcome = "running" /\ now <= pushAt[p]

\* Every peer that is there to carry the transaction gets it: a ready peer that
\* is not a witness was invited, whenever it came, and has asked for the bytes,
\* was pushed them, or will be unless it asks first (inviteNewPeers,
\* onPeerReady, armUnsolicited).
EveryCarrierServed ==
  outcome = "running" =>
    \A p \in Ready \ witnesses :
      p \in invited /\ (p \in Delivered \/ pushAt[p] # Never)

\* Enough of them are there to carry it: watching never takes the peers below
\* minPeerAcks that were ready when the witnesses were chosen.
CarriersFirst ==
  outcome = "running" /\ now = 0 /\ witnesses # {} =>
    Cardinality({p \in invited : link[p] # "away"}) >= MinPeerAcks

\* Whoever can carry the transaction gets it, whenever it came, and witnesses
\* are only held back while enough can (reserveWitnesses, inviteNewPeers).
CarriersServed == TypeOK /\ EveryCarrierServed /\ CarriersFirst

\* A witness can speak: it is held back for the life of the session, because
\* one that gets an inv from us "stops being able to answer the only question
\* we have" (BroadcastService, above witnesses).
WitnessQuiet == witnesses \cap invited = {}

\* Success is told only on evidence that the transaction is in a mempool, or,
\* where nobody could ever show that, that a peer took it (checkDone).
SuccessIsProof ==
  outcome = "succeeded" =>
    IF RequireLock
    THEN locked /\ mempools # {}
    ELSE mempools # {} \/ (Pinned /\ witnesses = {} /\ Delivered # {})

\* A pinned pool is not held to a proof it cannot give: a broadcast some peer
\* took is still undecided, at its deadline or before, only while a peer that
\* was left uninvited could report it.
PinnedVerdict ==
  Pinned /\ ~RequireLock /\ outcome = "running" /\ Delivered # {} =>
    witnesses \ invited # {}

\* While witnesses are relied on, one of them is there.
WitnessPresent ==
  outcome = "running" /\ witnesses # {} => witnesses \cap Ready # {}

\* Once the call has settled it sends nothing more: no inv, no bytes, whatever
\* timers were armed and whoever connects (cleanup).
QuietAfter ==
  [][Settled =>
       outcome' = outcome /\ invited' = invited /\ sent' = sent]_vars
=============================================================================
