----------------------------- MODULE LockWatch -----------------------------
(***************************************************************************)
(* Waiting for InstantSend locks.  A peer announces a lock by hash only    *)
(* and once, so the p2p child fetches locks while it watches some          *)
(* transaction and keeps those of the transactions it watches.             *)
(* WalletSyncService decides what that is: it arms a transaction when it   *)
(* broadcasts or awaits it, and reinstalls the child's set from time to    *)
(* time out of what is armed and what SQL holds as unconfirmed.  The child *)
(* may exit, and be forked again by whatever is sent next.                 *)
(***************************************************************************)
EXTENDS Naturals, FiniteSets, Sequences, SequencesExt

CONSTANTS
  Txs,         \* transactions
  Local,       \* those this wallet broadcasts; the others pay it
  Ttl,         \* LOCK_WATCH_TTL_MS in sweeps (of LOCK_WATCH_SWEEP_INTERVAL_MS)
  WaitTime,    \* IDENTITY_LOCK_TIMEOUT_MS in sweeps
  MaxFaults,   \* bound on exits of the child and rebuilds of its pool
  Excluded     \* situations this instance leaves out, see Allowed

ASSUME LockWatchAssumption ==
  /\ IsFiniteSet(Txs) /\ Local \subseteq Txs
  /\ Ttl \in Nat /\ WaitTime \in Nat \ {0} /\ WaitTime < Ttl
  /\ MaxFaults \in Nat

VARIABLES
  armed,       \* armedLockTxids: sweeps since each was armed, NotArmed if it is not
  cache,       \* instantLocks
  waiter,      \* waitForInstantLock of each: sweeps left, Idle if none
  refreshing,  \* refreshWatchedTxids calls awaiting SQL: what each read of armed
  call,        \* broadcastTransaction of each
  row,         \* transactions: no row, block_height 0, or mined
  marked,      \* transactions: instant_locked
  child,       \* the child's process and pool: "none", "bare" (no lock pool), "listening"
  watched,     \* watchedTxids
  sessions,    \* transactions with a broadcast session
  down, up,    \* messages to and from the child
  relayed,     \* transactions the network has
  locked,      \* those it has locked
  announced,   \* locks announced to the child's peers, not handled yet
  asked,       \* locks a getdata went out for
  faults

main == <<armed, cache, waiter, refreshing, call>>
store == <<row, marked>>
proc == <<child, watched, sessions>>
network == <<relayed, locked, announced, asked>>
vars == <<main, store, proc, down, up, network, faults>>

NotArmed == Ttl + 1
Idle == WaitTime + 1
Armed == {t \in Txs : armed[t] # NotArmed}
Running == child # "none"

\* getPendingTxs of the last hour, without those known to be locked.
Unlocked == {t \in Txs : row[t] = "pending" /\ t \notin marked}

Allowed(situation, happens) == happens => situation \notin Excluded

Init ==
  /\ armed = [t \in Txs |-> NotArmed] /\ cache = {}
  /\ waiter = [t \in Txs |-> Idle]
  /\ refreshing = <<>> /\ call = [t \in Txs |-> "idle"]
  /\ row = [t \in Txs |-> "none"] /\ marked = {}
  /\ child = "listening" /\ watched = {} /\ sessions = {}
  /\ down = <<>> /\ up = <<>>
  /\ relayed = Txs \ Local /\ locked = {} /\ announced = {} /\ asked = {}
  /\ faults = 0

-----------------------------------------------------------------------------
(* Main: what is watched *)

\* send forks the child if it has exited: a process that has no lock pool yet.
Post(messages) ==
  /\ down' = down \o messages
  /\ child' = IF Running THEN child ELSE "bare"

Add(t) == [type |-> "add", txs |-> {t}]
Listen(rebuild) == [type |-> "listen", rebuild |-> rebuild]

\* Those of an arming that have not expired.
Fresh(a) == {t \in Txs : a[t] < Ttl}

\* A bug for Purged: what was noted once is forgotten.
Purged_All(a) == [t \in Txs |-> NotArmed]

Purged(a) == [t \in Txs |-> IF a[t] < Ttl THEN a[t] ELSE NotArmed]

\* refreshWatchedTxids up to its await, for what is armed now: what expired is
\* forgotten, the rest noted.
Refresh(now) ==
  IF Running
  THEN armed' = Purged(now) /\ refreshing' = Append(refreshing, Fresh(now))
  ELSE armed' = now /\ UNCHANGED refreshing

\* A bug for Swept: only what SQL holds is watched.
Swept_SqlOnly(read) == Unlocked

\* What a refresh installs.
Swept(read) == read \union Unlocked

\* And the part after it.
SendRefresh ==
  /\ refreshing # <<>>
  /\ refreshing' = Tail(refreshing)
  /\ Post(<<[type |-> "replace", txs |-> Swept(Head(refreshing))]>>)
  /\ UNCHANGED <<armed, cache, waiter, call, store,
                 watched, sessions, up, network, faults>>

\* Nothing that takes seconds at most is under way.
Quiet ==
  /\ down = <<>> /\ up = <<>> /\ refreshing = <<>> /\ sessions = {}
  /\ announced = {} /\ asked = {} /\ \A t \in Txs : call[t] = "idle"

\* Five minutes pass: arms age, the sweep drops the expired ones, timers run.
Tick ==
  /\ Quiet /\ \A t \in Txs : waiter[t] # 0
  /\ Refresh([t \in Txs |-> IF armed[t] < Ttl THEN armed[t] + 1 ELSE armed[t]])
  /\ waiter' = [t \in Txs |-> IF waiter[t] = Idle THEN Idle ELSE waiter[t] - 1]
  /\ UNCHANGED <<cache, call, store, proc, down, up, network, faults>>

-----------------------------------------------------------------------------
(* Main: sending, receiving, waiting *)

\* startLockListen, at the head of broadcastTransaction: a child that is not
\* running is forked and told to listen.
Relisten == IF Running THEN <<>> ELSE <<Listen(FALSE)>>

Broadcast(t) == [type |-> "broadcast", tx |-> t]

\* broadcastTransaction up to its await: armed, then sent.
Call(t) ==
  /\ call[t] = "idle" /\ row[t] = "none"
  /\ armed' = [armed EXCEPT ![t] = 0]
  /\ call' = [call EXCEPT ![t] = "sent"]
  /\ Post(Relisten \o <<Add(t), Broadcast(t)>>)
  /\ UNCHANGED <<cache, waiter, refreshing, store,
                 watched, sessions, up, network, faults>>

\* rebroadcastPending for one row.  The refresh at its end reads what is armed
\* before the calls, which go on after an await, arm theirs.
Rebroadcast(t) ==
  /\ Running /\ call[t] = "idle" /\ t \in Local \intersect Unlocked
  /\ refreshing = <<>>
  /\ refreshing' = <<Fresh(armed)>>
  /\ armed' = [Purged(armed) EXCEPT ![t] = 0]
  /\ call' = [call EXCEPT ![t] = "sent"]
  /\ Post(<<Add(t), Broadcast(t)>>)
  /\ UNCHANGED <<cache, waiter, store,
                 watched, sessions, up, network, faults>>

\* recordOptimisticSpend after a session that went well.
Record(t) ==
  /\ call[t] = "ok"
  /\ call' = [call EXCEPT ![t] = "idle"]
  /\ row' = [row EXCEPT ![t] = IF @ = "none" THEN "pending" ELSE @]
  /\ UNCHANGED <<armed, cache, waiter, refreshing, marked,
                 proc, down, up, network, faults>>

\* recordIncomingTx: a payment the pool saw, recorded and then armed.
Incoming(t) ==
  /\ child = "listening" /\ t \in relayed \ Local /\ row[t] = "none"
  /\ row' = [row EXCEPT ![t] = "pending"]
  /\ armed' = [armed EXCEPT ![t] = 0]
  /\ Post(<<Add(t)>>)
  /\ UNCHANGED <<cache, waiter, refreshing, call, marked,
                 watched, sessions, up, network, faults>>

\* waitForInstantLock: arms what is not armed, if a child runs.
Wait(t) ==
  /\ waiter[t] = Idle /\ t \notin cache /\ t \in Local /\ row[t] # "none"
  /\ waiter' = [waiter EXCEPT ![t] = WaitTime]
  /\ IF t \notin Armed /\ Running
     THEN armed' = [armed EXCEPT ![t] = 0] /\ Post(<<Add(t)>>)
     ELSE UNCHANGED <<armed, down, child>>
  /\ UNCHANGED <<cache, refreshing, call, store,
                 watched, sessions, up, network, faults>>

\* Its timer.
WaitOver(t) ==
  /\ waiter[t] = 0
  /\ waiter' = [waiter EXCEPT ![t] = Idle]
  /\ UNCHANGED <<armed, cache, refreshing, call, store, proc,
                 down, up, network, faults>>

-----------------------------------------------------------------------------
(* Main: what the child reports *)

\* The waiters of a lock that arrived.
Woken(t) == [waiter EXCEPT ![t] = Idle]

\* recordInstantLock: cached, disarmed, which refreshes, and waiters woken.
RecordInstantLock(t) ==
  /\ cache' = cache \union {t}
  /\ IF t \in Armed
     THEN Refresh([armed EXCEPT ![t] = NotArmed])
     ELSE UNCHANGED <<armed, refreshing>>
  /\ waiter' = Woken(t)

TakeReport ==
  /\ up # <<>> /\ up' = Tail(up)
  /\ LET report == Head(up) IN
     \/ /\ report.type = "result"
        /\ call' = [call EXCEPT ![report.tx] =
             IF @ # "sent" THEN @ ELSE IF report.ok THEN "ok" ELSE "idle"]
        /\ IF report.lock THEN RecordInstantLock(report.tx)
           ELSE UNCHANGED <<cache, armed, refreshing, waiter>>
        /\ UNCHANGED <<marked>>
     \/ /\ report.type = "lock"
        /\ marked' = IF row[report.tx] = "none" THEN marked ELSE marked \union {report.tx}
        /\ RecordInstantLock(report.tx)
        /\ UNCHANGED <<call>>
  /\ UNCHANGED <<row, proc, down, network, faults>>

\* The exit handler rejects every call in flight.
Rejected == [t \in Txs |-> IF call[t] = "sent" THEN "idle" ELSE call[t]]

ChildExits ==
  /\ Running /\ faults < MaxFaults /\ faults' = faults + 1
  /\ child' = "none" /\ watched' = {} /\ sessions' = {}
  /\ down' = <<>> /\ up' = <<>> /\ announced' = {} /\ asked' = {}
  /\ call' = Rejected
  /\ UNCHANGED <<armed, cache, waiter, refreshing, store,
                 relayed, locked>>

\* reloadPeerPreferences: listen with other settings.
Reload ==
  /\ Running /\ faults < MaxFaults /\ faults' = faults + 1
  /\ Post(<<Listen(TRUE)>>)
  /\ UNCHANGED <<main, store, watched, sessions, up, network>>

-----------------------------------------------------------------------------
(* The child *)

Result(t, ok, lock) == [type |-> "result", tx |-> t, ok |-> ok, lock |-> lock]

\* The next command.  A new lock pool starts with nothing watched, and the
\* sessions of the old one can only time out.
TakeCommand ==
  /\ Running /\ down # <<>> /\ down' = Tail(down)
  /\ LET command == Head(down) IN
     \/ /\ command.type = "listen"
        /\ child' = "listening"
        /\ IF command.rebuild \/ child = "bare"
           THEN /\ watched' = {} /\ announced' = {} /\ asked' = {} /\ sessions' = {}
                /\ up' = up \o SetToSeq({Result(t, FALSE, FALSE) : t \in sessions})
           ELSE UNCHANGED <<watched, announced, asked, sessions, up>>
        /\ UNCHANGED relayed
     \/ /\ command.type \in {"add", "replace"}
        /\ watched' = IF command.type = "add" THEN watched \union command.txs ELSE command.txs
        /\ UNCHANGED <<child, announced, asked, sessions, relayed, up>>
     \/ /\ command.type = "broadcast"
        /\ IF child = "bare"
           THEN up' = Append(up, Result(command.tx, FALSE, FALSE)) /\ UNCHANGED <<sessions, relayed>>
           ELSE /\ sessions' = sessions \union {command.tx}
                /\ relayed' = relayed \union {command.tx}
                /\ UNCHANGED up
        /\ UNCHANGED <<child, watched, announced, asked>>
  /\ UNCHANGED <<main, store, locked, faults>>

\* A session settles: a witness had the transaction, or time ran out.
Settles(t, ok) ==
  /\ t \in sessions /\ sessions' = sessions \ {t}
  /\ up' = Append(up, Result(t, ok, FALSE))
  /\ UNCHANGED <<main, store, child, watched, down, network, faults>>

\* onPeerInvForLocks: a getdata goes out while anything is watched.
LockAnnounced(t) ==
  /\ t \in announced /\ announced' = announced \ {t}
  /\ asked' = IF watched # {} THEN asked \union {t} ELSE asked
  /\ UNCHANGED <<main, store, proc, down, up, relayed, locked, faults>>

\* onIsdlock: a lock of something watched is reported, others are dropped.  A
\* session of that transaction settles.
LockArrives(t) ==
  /\ t \in asked /\ asked' = asked \ {t}
  /\ watched' = watched \ {t} /\ sessions' = sessions \ {t}
  /\ up' = up \o (IF t \in watched THEN <<[type |-> "lock", tx |-> t]>> ELSE <<>>)
              \o (IF t \in sessions THEN <<Result(t, TRUE, TRUE)>> ELSE <<>>)
  /\ UNCHANGED <<main, store, child, down, relayed, locked, announced, faults>>

-----------------------------------------------------------------------------
(* The network *)

Lock(t) ==
  /\ t \in relayed \ locked /\ locked' = locked \union {t}
  /\ announced' = IF child = "listening" THEN announced \union {t} ELSE announced
  /\ UNCHANGED <<main, store, proc, down, up, relayed, asked, faults>>

\* A block, or the hour of PENDING_TX_TTL_MS: the row is no longer read as pending.
\* Not within the seconds that broadcasts and messages take.
Mine(t) ==
  /\ Quiet
  /\ row[t] = "pending" /\ row' = [row EXCEPT ![t] = "mined"]
  /\ UNCHANGED <<main, marked, proc, down, up, network, faults>>

-----------------------------------------------------------------------------
Next ==
  \/ Allowed("bare fork", ~Running) /\ SendRefresh
  \/ Tick \/ TakeReport \/ TakeCommand \/ ChildExits \/ Reload
  \/ \E t \in Txs :
       \/ Allowed("arm while a refresh reads", refreshing # <<>>) /\ Incoming(t)
       \/ /\ Allowed("arm while a refresh reads", refreshing # <<>>)
          /\ Allowed("late waiter", armed[t] \in 1..Ttl)
          /\ Allowed("waiter without a child", ~Running)
          /\ Wait(t)
       \/ Rebroadcast(t) \/ Record(t) \/ WaitOver(t)
       \/ \E ok \in BOOLEAN : Settles(t, ok)
       \/ LockAnnounced(t) \/ Lock(t) \/ Mine(t)
       \/ Allowed("lock before the record", row[t] = "none") /\ LockArrives(t)
  \/ \E t \in Local : Allowed("arm while a refresh reads", refreshing # <<>>) /\ Call(t)

Spec == Init /\ [][Next]_vars

\* Messages are handled, promises and timers resolve, time passes.
FairSpec ==
  /\ Spec
  /\ WF_vars(SendRefresh) /\ WF_vars(TakeReport) /\ WF_vars(TakeCommand) /\ SF_vars(Tick)
  /\ \A t \in Txs :
       /\ WF_vars(Record(t)) /\ WF_vars(WaitOver(t)) /\ WF_vars(Settles(t, FALSE))
       /\ WF_vars(LockAnnounced(t)) /\ WF_vars(LockArrives(t))
-----------------------------------------------------------------------------
(* Properties *)

TypeOK ==
  /\ armed \in [Txs -> 0..NotArmed] /\ waiter \in [Txs -> 0..Idle]
  /\ cache \subseteq locked /\ marked \subseteq {t \in locked : row[t] # "none"}
  /\ call \in [Txs -> {"idle", "sent", "ok"}]
  /\ row \in [Txs -> {"none", "pending", "mined"}]
  /\ child \in {"none", "bare", "listening"}
  /\ watched \union sessions \subseteq Txs
  /\ ~Running => down = <<>> /\ up = <<>> /\ watched = {} /\ sessions = {}
  /\ \A t \in Txs : (t \in sessions => call[t] # "idle") /\ (call[t] = "sent" => Running)

\* Nobody waits for a lock that main holds.
NoWaitBesideLock == \A t \in Txs : waiter[t] # Idle => t \notin cache

\* While somebody waits for the lock of a transaction it stays armed.
ArmOutlivesWaiter == \A t \in Txs : waiter[t] # Idle => t \in Armed

\* With nothing under way, and until a child or pool is lost, the child watches
\* whatever is armed and not mined, and whatever SQL holds as unconfirmed and
\* not locked.
WatchedWhenQuiet ==
  faults = 0 /\ down = <<>> /\ up = <<>> /\ refreshing = <<>>
    => {t \in Armed : row[t] # "mined"} \union Unlocked \subseteq watched

\* A child that was forked without a lock pool is about to be given one.
ForkListens == child = "bare" => \E n \in DOMAIN down : down[n].type = "listen"

\* Main, SQL and the child agree on whose lock is to be watched: what is armed is
\* watched, whoever waits is armed and not beside a lock main holds, and a child
\* forked anew is told to listen (refreshWatchedTxids, waitForInstantLock,
\* startLockListen).
WatchSound ==
  TypeOK /\ NoWaitBesideLock /\ ArmOutlivesWaiter /\ WatchedWhenQuiet /\ ForkListens

\* A transaction whose lock main holds is final: it is not broadcast again.
NeverRepushed ==
  [][\A t \in cache : row[t] # "none" /\ call[t] = "idle" => call'[t] # "sent"]_vars

\* What is armed gets watched, or a lock, an expiry or an exit ends it: also
\* after a new child or pool, and whatever a refresh in flight overwrote.
ArmedGetsWatched ==
  \A t \in Txs :
    t \in Armed /\ child = "listening" ~> t \in watched \/ t \notin Armed \/ child # "listening"
=============================================================================
