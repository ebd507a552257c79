-------------------------- MODULE LockWatch_proofs --------------------------
(***************************************************************************)
(* For every set of transactions, number of faults and lifetime of an arm  *)
(* that outlasts a waiter's: what main, SQL and the child hold of a call   *)
(* or a lock agrees, and, with the situations of Allowed left out, what is *)
(* to be watched is watched as soon as nothing is under way.               *)
(***************************************************************************)
EXTENDS LockWatch, FiniteSetTheorems, SequenceTheorems, TLAPS

-----------------------------------------------------------------------------
(* The inductive invariant *)

\* A message about t's broadcast: its command or the end of its session.
About(m, t) == m.type \in {"broadcast", "result"} /\ m.tx = t
Holds(queue, t) == \E n \in DOMAIN queue : About(queue[n], t)
Once(queue, t) ==
  \A n, m \in DOMAIN queue : About(queue[n], t) /\ About(queue[m], t) => n = m

Commands ==
  [type : {"add", "replace"}, txs : SUBSET Txs] \union [type : {"listen"}, rebuild : BOOLEAN]
    \union [type : {"broadcast"}, tx : Txs]
Messages ==
  [type : {"lock"}, tx : Txs] \union [type : {"result"}, tx : Txs, ok : BOOLEAN, lock : BOOLEAN]

\* TypeOK but for its last two lines, and what it leaves open.
Typed ==
  /\ armed \in [Txs -> 0..NotArmed] /\ waiter \in [Txs -> 0..Idle]
  /\ cache \subseteq locked /\ marked \subseteq {t \in locked : row[t] # "none"}
  /\ call \in [Txs -> {"idle", "sent", "ok"}]
  /\ row \in [Txs -> {"none", "pending", "mined"}]
  /\ child \in {"none", "bare", "listening"}
  /\ watched \subseteq Txs /\ sessions \subseteq Txs
  /\ refreshing \in Seq(SUBSET Txs) /\ down \in Seq(Commands) /\ up \in Seq(Messages)
  /\ relayed \subseteq Txs /\ locked \subseteq Txs
  /\ announced \subseteq locked /\ asked \subseteq locked /\ faults \in Nat

\* What does not run holds nothing; and only a fault takes the lock pool away.
ChildTrue ==
  /\ ~Running => /\ down = <<>> /\ up = <<>> /\ watched = {} /\ sessions = {}
                 /\ announced = {} /\ asked = {}
  /\ faults = 0 => /\ child = "listening"
                   /\ \A n \in DOMAIN down : down[n].type = "listen" => ~down[n].rebuild

\* A lock on its way to main is one.
IsLock(m) == m.type = "lock" \/ m.lock
LocksTrue == \A n \in DOMAIN up : IsLock(up[n]) => up[n].tx \in locked

\* A call that was sent is under way in one place at most: its command, its
\* session or its result.
CallTrue(t) ==
  /\ call[t] = "sent" => Running
  /\ Holds(down, t) \/ t \in sessions \/ Holds(up, t) => call[t] = "sent"
  /\ t \in sessions => ~Holds(down, t) /\ ~Holds(up, t)
  /\ Holds(down, t) => ~Holds(up, t)
  /\ Once(down, t) /\ Once(up, t)

\* True whatever is excluded.
IInv ==
  Typed /\ ChildTrue /\ LocksTrue /\ NoWaitBesideLock /\ \A t \in Txs : CallTrue(t)

-----------------------------------------------------------------------------
(* Queues *)

LEMMA Concat ==
  ASSUME NEW S, NEW q \in Seq(S), NEW r \in Seq(S)
  PROVE /\ q \o r \in Seq(S) /\ Len(q \o r) = Len(q) + Len(r)
        /\ \A n \in DOMAIN q : n \in DOMAIN (q \o r) /\ (q \o r)[n] = q[n]
        /\ \A n \in DOMAIN r : n + Len(q) \in DOMAIN (q \o r) /\ (q \o r)[n + Len(q)] = r[n]
        /\ \A n \in DOMAIN (q \o r) :
             \/ n \in DOMAIN q /\ (q \o r)[n] = q[n]
             \/ n - Len(q) \in DOMAIN r /\ (q \o r)[n] = r[n - Len(q)]
OBVIOUS

LEMMA Tailed ==
  ASSUME NEW S, NEW q \in Seq(S), q # <<>>
  PROVE /\ Tail(q) \in Seq(S) /\ Len(Tail(q)) = Len(q) - 1
        /\ 1 \in DOMAIN q /\ Head(q) = q[1] /\ Head(q) \in S
        /\ \A n \in DOMAIN Tail(q) : n + 1 \in DOMAIN q /\ n + 1 # 1 /\ Tail(q)[n] = q[n + 1]
OBVIOUS

\* What a queue holds after something was put behind it.
LEMMA HoldsConcat ==
  ASSUME NEW S, NEW q \in Seq(S), NEW r \in Seq(S), NEW t
  PROVE /\ Holds(q \o r, t) <=> Holds(q, t) \/ Holds(r, t)
        /\ Once(q, t) /\ Once(r, t) /\ ~(Holds(q, t) /\ Holds(r, t)) => Once(q \o r, t)
<1>1. Holds(q \o r, t) <=> Holds(q, t) \/ Holds(r, t)
  <2>1. Holds(q \o r, t) => Holds(q, t) \/ Holds(r, t)
    BY Concat DEF Holds
  <2>2. Holds(q, t) => Holds(q \o r, t)
    BY Concat DEF Holds
  <2>3. ASSUME NEW n \in DOMAIN r, About(r[n], t) PROVE Holds(q \o r, t)
    <3>1. n + Len(q) \in DOMAIN (q \o r) /\ (q \o r)[n + Len(q)] = r[n]
      BY Concat
    <3> QED
      BY <2>3, <3>1 DEF Holds
  <2> QED
    BY <2>1, <2>2, <2>3 DEF Holds
<1>2. ASSUME Once(q, t), Once(r, t), ~(Holds(q, t) /\ Holds(r, t)) PROVE Once(q \o r, t)
  <2> SUFFICES ASSUME NEW n \in DOMAIN (q \o r), NEW m \in DOMAIN (q \o r),
                      About((q \o r)[n], t), About((q \o r)[m], t)
               PROVE n = m
    BY DEF Once
  <2>1. CASE n \in DOMAIN q /\ (q \o r)[n] = q[n] /\ m \in DOMAIN q /\ (q \o r)[m] = q[m]
    BY <1>2, <2>1 DEF Once
  <2>2. CASE /\ n - Len(q) \in DOMAIN r /\ (q \o r)[n] = r[n - Len(q)]
             /\ m - Len(q) \in DOMAIN r /\ (q \o r)[m] = r[m - Len(q)]
    <3>1. n - Len(q) = m - Len(q)
      BY <1>2, <2>2 DEF Once
    <3>2. n \in Nat /\ m \in Nat /\ Len(q) \in Nat
      BY Concat
    <3> QED
      BY <3>1, <3>2
  <2> QED
    BY <1>2, <2>1, <2>2, Concat DEF Holds
<1> QED
  BY <1>1, <1>2

\* And after its head was taken.
LEMMA HoldsTail ==
  ASSUME NEW S, NEW q \in Seq(S), q # <<>>, NEW t, Once(q, t)
  PROVE /\ Holds(Tail(q), t) => Holds(q, t)
        /\ About(Head(q), t) => Holds(q, t) /\ ~Holds(Tail(q), t)
        /\ Once(Tail(q), t)
<1>1. Holds(Tail(q), t) => Holds(q, t)
  BY Tailed DEF Holds
<1>2. About(Head(q), t) => Holds(q, t) /\ ~Holds(Tail(q), t)
  BY Tailed DEF Holds, Once
<1>3. Once(Tail(q), t)
  <2>1. \A n \in DOMAIN Tail(q) : n \in Nat
    BY Tailed
  <2> QED
    BY <2>1, Tailed DEF Once
<1> QED
  BY <1>1, <1>2, <1>3

LEMMA HoldsNothing == ASSUME NEW t PROVE ~Holds(<<>>, t) /\ Once(<<>>, t)
BY DEF Holds, Once

\* One message.
LEMMA HoldsOne ==
  ASSUME NEW m, NEW t
  PROVE (Holds(<<m>>, t) <=> About(m, t)) /\ Once(<<m>>, t)
BY DEF Holds, Once

\* The results of the sessions a rebuilt pool drops: one for each.
LEMMA Results ==
  ASSUME NEW S \in SUBSET Txs
  PROVE LET results == SetToSeq({Result(t, FALSE, FALSE) : t \in S})
        IN /\ results \in Seq(Messages)
           /\ \A n \in DOMAIN results : ~IsLock(results[n])
           /\ \A t \in Txs : (Holds(results, t) => t \in S) /\ Once(results, t)
<1> DEFINE R == {Result(t, FALSE, FALSE) : t \in S}
           image == [t \in S |-> Result(t, FALSE, FALSE)]
           results == SetToSeq(R)
<1>1. IsFiniteSet(S)
  BY FS_Subset, LockWatchAssumption
<1>2. image \in Surjection(S, R)
  BY DEF Surjection
<1>3. IsFiniteSet(R)
  <2> HIDE DEF image, R
  <2> QED
    BY <1>1, <1>2, FS_Surjection
<1>4. Cardinality(R) \in Nat /\ Bijection(1..Cardinality(R), R) # {}
  BY <1>3, FS_CardinalityType DEF ExistsBijection
<1>5. \E f \in [1..Cardinality(R) -> R] : IsInjective(f)
  BY <1>4 DEF Bijection, Injection
<1>6. results \in [1..Cardinality(R) -> R] /\ IsInjective(results)
  BY <1>5 DEF SetToSeq
<1>7. R \subseteq Messages
  <2>1. \A t \in S : Result(t, FALSE, FALSE) \in [type : {"result"}, tx : Txs, ok : BOOLEAN, lock : BOOLEAN]
    BY DEF Result
  <2> QED
    BY <2>1 DEF Messages
<1>8. \A r \in R : r.type = "result" /\ r.tx \in S /\ ~IsLock(r) /\ r = Result(r.tx, FALSE, FALSE)
  BY DEF Result, IsLock
<1> HIDE DEF R, results
<1>9. results \in Seq(Messages) /\ DOMAIN results = 1..Cardinality(R) /\ \A n \in DOMAIN results : results[n] \in R
  BY <1>4, <1>6, <1>7
<1>10. ASSUME NEW t \in Txs PROVE (Holds(results, t) => t \in S) /\ Once(results, t)
  <2>1. ASSUME NEW n \in DOMAIN results, About(results[n], t)
        PROVE t \in S /\ results[n] = Result(t, FALSE, FALSE)
    BY <1>8, <1>9, <2>1 DEF About
  <2>2. \A n, m \in DOMAIN results : results[n] = results[m] => n = m
    BY <1>6 DEF IsInjective
  <2> QED
    BY <2>1, <2>2 DEF Holds, Once
<1> QED
  BY <1>8, <1>9, <1>10 DEF R, results

-----------------------------------------------------------------------------
(* Steps *)

LEMMA ResultTyped ==
  ASSUME NEW t \in Txs, NEW ok \in BOOLEAN, NEW lock \in BOOLEAN
  PROVE Result(t, ok, lock) \in Messages
<1>1. Result(t, ok, lock) \in [type : {"result"}, tx : Txs, ok : BOOLEAN, lock : BOOLEAN]
  BY DEF Result
<1> QED
  BY <1>1 DEF Messages

LEMMA SeqOfThree ==
  ASSUME NEW S, NEW a \in S, NEW b \in S, NEW c \in S PROVE <<a, b, c>> \in Seq(S)
OBVIOUS

LEMMA InFront ==
  ASSUME NEW a, NEW b, NEW c
  PROVE <<a>> \o <<b, c>> = <<a, b, c>> /\ <<>> \o <<b, c>> = <<b, c>>
<1> DEFINE S == {a, b, c}
<1>1. <<a>> \in Seq(S) /\ <<b, c>> \in Seq(S) /\ <<a, b, c>> \in Seq(S) /\ <<>> \in Seq(S)
  OBVIOUS
<1>2. <<a>> \o <<b, c>> \in Seq(S) /\ Len(<<a>> \o <<b, c>>) = 3
  BY <1>1
<1>3. \A n \in 1..3 : (<<a>> \o <<b, c>>)[n] = <<a, b, c>>[n]
  BY <1>1
<1>4. <<a>> \o <<b, c>> = <<a, b, c>>
  BY <1>1, <1>2, <1>3, SeqEqual, Zenon
<1>5. <<>> \o <<b, c>> = <<b, c>>
  BY <1>1, EmptySeq
<1> QED
  BY <1>4, <1>5

\* What broadcastTransaction sends.
LEMMA SentCommands ==
  ASSUME NEW t \in Txs,
         NEW ms \in {<<Listen(FALSE), Add(t), Broadcast(t)>>, <<Add(t), Broadcast(t)>>}
  PROVE /\ ms \in Seq(Commands) /\ \A n \in DOMAIN ms : ms[n].type = "listen" => ~ms[n].rebuild
        /\ \A u : (Holds(ms, u) => u = t) /\ Once(ms, u)
<1> DEFINE a == Listen(FALSE)
           b == Add(t)
           c == Broadcast(t)
<1>1. a \in Commands /\ a.type = "listen" /\ ~a.rebuild
  BY DEF Listen, Commands
<1>2. b \in Commands /\ b.type = "add"
  BY DEF Add, Commands
<1>3. c \in Commands /\ c.type = "broadcast" /\ c.tx = t
  BY DEF Broadcast, Commands
<1> HIDE DEF a, b, c
<1>4. CASE ms = <<a, b, c>>
  <2>1. ms \in Seq(Commands)
    <3>1. a \in Commands /\ b \in Commands /\ c \in Commands
      BY <1>1, <1>2, <1>3
    <3>2. <<a, b, c>> \in Seq(Commands)
      BY <3>1, SeqOfThree
    <3> QED
      BY <3>2, <1>4, Zenon
  <2>2. DOMAIN ms = 1..3 /\ ms[1] = a /\ ms[2] = b /\ ms[3] = c
    BY <1>4
  <2>3. \A n \in DOMAIN ms : ms[n].type \in {"broadcast", "result"} => n = 3
    BY <1>1, <1>2, <2>2
  <2>4. \A u : (Holds(ms, u) => u = t) /\ Once(ms, u)
    BY <1>3, <2>2, <2>3 DEF Holds, Once, About
  <2>5. \A n \in DOMAIN ms : ms[n].type = "listen" => ~ms[n].rebuild
    BY <1>1, <1>2, <1>3, <2>2
  <2> QED
    BY <2>1, <2>4, <2>5
<1>5. CASE ms = <<b, c>>
  <2>1. ms \in Seq(Commands) /\ DOMAIN ms = {1, 2}
    BY <1>2, <1>3, <1>5
  <2> QED
    BY <1>2, <1>3, <1>5, <2>1 DEF Holds, Once, About
<1> QED
  BY <1>4, <1>5 DEF a, b, c

\* What a message sent to the child changes, the fork it may bring included.
LEMMA Posted ==
  ASSUME IInv, NEW ms \in Seq(Commands), Post(ms)
  PROVE /\ down' \in Seq(Commands) /\ child' \in {"bare", "listening"}
        /\ Running => child' = child
        /\ \A t : Holds(down', t) <=> Holds(down, t) \/ Holds(ms, t)
        /\ \A t : Once(down, t) /\ Once(ms, t) /\ ~(Holds(down, t) /\ Holds(ms, t)) => Once(down', t)
<1>1. down \in Seq(Commands) /\ down' = down \o ms /\ child' = IF Running THEN child ELSE "bare"
  BY DEF IInv, Typed, Post
<1>2. down' \in Seq(Commands)
  BY <1>1, Concat
<1>3. child' \in {"bare", "listening"} /\ (Running => child' = child)
  BY <1>1 DEF IInv, Typed, Running
<1>4. ASSUME NEW t
      PROVE /\ Holds(down', t) <=> Holds(down, t) \/ Holds(ms, t)
            /\ Once(down, t) /\ Once(ms, t) /\ ~(Holds(down, t) /\ Holds(ms, t)) => Once(down', t)
  BY <1>1, HoldsConcat
<1> QED
  BY <1>2, <1>3, <1>4

\* Nothing sent rebuilds the pool, and without faults nothing has to fork it.
LEMMA PostedChild ==
  ASSUME IInv, NEW ms \in Seq(Commands), Post(ms), UNCHANGED <<up, watched, sessions, announced, asked>>,
         faults' = 0 => faults = 0 /\ \A n \in DOMAIN ms : ms[n].type = "listen" => ~ms[n].rebuild
  PROVE ChildTrue'
<1>1. down \in Seq(Commands) /\ down' = down \o ms /\ child' = IF Running THEN child ELSE "bare"
  BY DEF IInv, Typed, Post
<1>2. child' # "none"
  BY <1>1, Posted
<1>3. ASSUME faults' = 0
      PROVE child' = "listening" /\ \A n \in DOMAIN down' : down'[n].type = "listen" => ~down'[n].rebuild
  <2>1. child = "listening" /\ \A n \in DOMAIN down : down[n].type = "listen" => ~down[n].rebuild
    BY <1>3 DEF IInv, ChildTrue
  <2> QED
    BY <1>1, <1>3, <2>1, Concat DEF Running
<1> QED
  BY <1>2, <1>3 DEF ChildTrue, Running

\* Messages that are not about t leave its call alone.
LEMMA PostedCall ==
  ASSUME IInv, NEW ms \in Seq(Commands), Post(ms), NEW t \in Txs, ~Holds(ms, t),
         UNCHANGED <<up, sessions>>, call'[t] = call[t]
  PROVE CallTrue(t)'
<1>1. CallTrue(t) /\ child' # "none"
  BY Posted DEF IInv
<1>2. Holds(down', t) <=> Holds(down, t)
  BY Posted
<1>3. Once(ms, t)
  BY DEF Holds, Once
<1>4. Once(down', t)
  BY <1>1, <1>3, Posted DEF CallTrue
<1> QED
  BY <1>1, <1>2, <1>4 DEF CallTrue, Running

\* The child's set is added to or replaced.
LEMMA PostedSet ==
  ASSUME IInv, NEW m \in Commands, m.type \in {"add", "replace"}, Post(<<m>>),
         UNCHANGED <<up, watched, sessions, announced, asked, faults, call>>
  PROVE /\ down' \in Seq(Commands) /\ child' \in {"none", "bare", "listening"}
        /\ ChildTrue' /\ \A t \in Txs : CallTrue(t)'
<1>1. <<m>> \in Seq(Commands) /\ \A t : ~Holds(<<m>>, t)
  BY HoldsOne DEF About
<1>2. \A n \in DOMAIN <<m>> : <<m>>[n].type # "listen"
  OBVIOUS
<1>3. ChildTrue'
  BY <1>1, <1>2, PostedChild
<1>4. \A t \in Txs : CallTrue(t)'
  BY <1>1, PostedCall
<1> QED
  BY <1>1, <1>3, <1>4, Posted

\* What a refresh does to arms.
LEMMA Refreshed ==
  ASSUME NEW now \in [Txs -> 0..NotArmed], refreshing \in Seq(SUBSET Txs), Refresh(now)
  PROVE /\ armed' \in [Txs -> 0..NotArmed] /\ refreshing' \in Seq(SUBSET Txs)
        /\ \A t \in Txs : armed'[t] = now[t] \/ (now[t] >= Ttl /\ armed'[t] = NotArmed)
<1>1. Purged(now) \in [Txs -> 0..NotArmed]
  BY LockWatchAssumption DEF Purged, NotArmed
<1>2. \A t \in Txs : now[t] \in Nat
  BY LockWatchAssumption DEF NotArmed
<1>3. Fresh(now) \in SUBSET Txs
  BY DEF Fresh
<1>4. refreshing' \in Seq(SUBSET Txs)
  BY <1>3 DEF Refresh
<1>5. \A t \in Txs : Purged(now)[t] = now[t] \/ (now[t] >= Ttl /\ Purged(now)[t] = NotArmed)
  BY <1>2, LockWatchAssumption DEF Purged
<1>6. armed' = Purged(now) \/ armed' = now
  BY DEF Refresh
<1> QED
  BY <1>1, <1>4, <1>5, <1>6

\* The step keeps messages, processes and calls as they are.
LEMMA Elsewhere ==
  ASSUME IInv, UNCHANGED <<call, child, watched, sessions, down, up, announced, asked, faults>>
  PROVE ChildTrue' /\ \A t \in Txs : CallTrue(t)'
<1>1. ChildTrue'
  BY DEF IInv, ChildTrue, Running
<1>2. ASSUME NEW t \in Txs PROVE CallTrue(t)'
  BY DEF IInv, CallTrue, Running, Holds, Once
<1> QED
  BY <1>1, <1>2

LEMMA InitIInv == Init => IInv
<1> SUFFICES ASSUME Init PROVE IInv
  OBVIOUS
<1>1. Typed
  BY LockWatchAssumption DEF Init, Typed, NotArmed, Idle
<1>2. ChildTrue /\ LocksTrue /\ NoWaitBesideLock
  BY DEF Init, ChildTrue, LocksTrue, NoWaitBesideLock, Running
<1>3. ASSUME NEW t \in Txs PROVE CallTrue(t)
  BY HoldsNothing DEF Init, CallTrue, Running
<1> QED
  BY <1>1, <1>2, <1>3 DEF IInv

\* Every step keeps it, whatever is excluded.
LEMMA StepIInv == IInv /\ [Next]_vars => IInv'
<1> SUFFICES ASSUME IInv, [Next]_vars PROVE IInv'
  OBVIOUS
<1> USE LockWatchAssumption
<1>a. Typed /\ ChildTrue /\ LocksTrue /\ NoWaitBesideLock /\ \A t \in Txs : CallTrue(t)
  BY DEF IInv
<1>b. Idle \in Nat /\ NotArmed \in Nat /\ WaitTime \in 0..Idle /\ 0 \in 0..NotArmed /\ NotArmed \in 0..NotArmed
  BY DEF Idle, NotArmed
<1>1. ASSUME SendRefresh PROVE IInv'
  <2> DEFINE m == [type |-> "replace", txs |-> Swept(Head(refreshing))]
  <2>1. /\ refreshing # <<>> /\ refreshing' = Tail(refreshing) /\ Post(<<m>>)
        /\ UNCHANGED <<armed, cache, waiter, call, row, marked, watched, sessions, up, relayed, locked,
                       announced, asked, faults>>
    BY <1>1 DEF SendRefresh, store, network
  <2>2. refreshing' \in Seq(SUBSET Txs) /\ Head(refreshing) \in SUBSET Txs
    BY <1>a, <2>1, Tailed DEF Typed
  <2>3. m \in Commands /\ m.type = "replace"
    BY <2>2 DEF Commands, Swept, Unlocked
  <2> HIDE DEF m
  <2>4. /\ down' \in Seq(Commands) /\ child' \in {"none", "bare", "listening"}
        /\ ChildTrue' /\ \A t \in Txs : CallTrue(t)'
    BY <2>1, <2>3, PostedSet
  <2>5. Typed'
    BY <1>a, <2>1, <2>2, <2>4 DEF Typed
  <2> QED
    BY <1>a, <2>1, <2>4, <2>5 DEF IInv, LocksTrue, NoWaitBesideLock
<1>2. ASSUME Tick PROVE IInv'
  <2> DEFINE now == [t \in Txs |-> IF armed[t] < Ttl THEN armed[t] + 1 ELSE armed[t]]
  <2>1. /\ Refresh(now) /\ \A t \in Txs : waiter[t] # 0
        /\ waiter' = [t \in Txs |-> IF waiter[t] = Idle THEN Idle ELSE waiter[t] - 1]
        /\ UNCHANGED <<cache, call, row, marked, child, watched, sessions, down, up, relayed, locked,
                       announced, asked, faults>>
    BY <1>2 DEF Tick, store, proc, network
  <2>2. now \in [Txs -> 0..NotArmed] /\ refreshing \in Seq(SUBSET Txs)
    BY <1>a DEF Typed, NotArmed
  <2> HIDE DEF now
  <2>3. armed' \in [Txs -> 0..NotArmed] /\ refreshing' \in Seq(SUBSET Txs)
    BY <2>1, <2>2, Refreshed
  <2>4. waiter' \in [Txs -> 0..Idle] /\ \A t \in Txs : waiter'[t] # Idle => waiter[t] # Idle
    BY <1>a, <1>b, <2>1 DEF Typed
  <2>5. Typed'
    BY <1>a, <2>1, <2>3, <2>4 DEF Typed
  <2>6. NoWaitBesideLock'
    BY <1>a, <2>1, <2>4 DEF NoWaitBesideLock
  <2> QED
    BY <1>a, <2>1, <2>5, <2>6, Elsewhere DEF IInv, LocksTrue
<1>3. ASSUME TakeReport PROVE IInv'
  <2> DEFINE m == Head(up)
  <2>1. /\ up # <<>> /\ up' = Tail(up)
        /\ UNCHANGED <<row, child, watched, sessions, down, relayed, locked, announced, asked, faults>>
    BY <1>3 DEF TakeReport, proc, network
  <2>2. /\ up \in Seq(Messages) /\ Tail(up) \in Seq(Messages) /\ m \in Messages /\ m.tx \in Txs
        /\ 1 \in DOMAIN up /\ m = up[1]
        /\ \A n \in DOMAIN Tail(up) : n + 1 \in DOMAIN up /\ Tail(up)[n] = up[n + 1]
    BY <1>a, <2>1, Tailed DEF Typed, Messages
  <2>3. IsLock(m) => m.tx \in locked
    BY <1>a, <2>2 DEF LocksTrue
  <2>4. Running
    BY <1>a, <2>1 DEF ChildTrue
  <2>5. /\ m.type \in {"result", "lock"}
        /\ m.type = "result" =>
             /\ \E v \in {"ok", "idle"} : call' = [call EXCEPT ![m.tx] = IF @ # "sent" THEN @ ELSE v]
             /\ marked' = marked
             /\ (m.lock /\ RecordInstantLock(m.tx)) \/ UNCHANGED <<cache, armed, refreshing, waiter>>
        /\ m.type = "lock" =>
             /\ marked' = (IF row[m.tx] = "none" THEN marked ELSE marked \union {m.tx})
             /\ RecordInstantLock(m.tx) /\ call' = call
    BY <1>3 DEF TakeReport
  <2> HIDE DEF m
  <2>6. /\ armed' \in [Txs -> 0..NotArmed] /\ waiter' \in [Txs -> 0..Idle]
        /\ refreshing' \in Seq(SUBSET Txs)
        /\ cache' \subseteq locked
        /\ \A t \in Txs : waiter'[t] # Idle => t \notin cache'
    <3>1. CASE UNCHANGED <<cache, armed, refreshing, waiter>>
      BY <1>a, <3>1 DEF Typed, NoWaitBesideLock
    <3>2. CASE RecordInstantLock(m.tx) /\ m.tx \in locked
      <4>1. [armed EXCEPT ![m.tx] = NotArmed] \in [Txs -> 0..NotArmed]
        BY <1>a, <1>b DEF Typed
      <4>2. armed' \in [Txs -> 0..NotArmed] /\ refreshing' \in Seq(SUBSET Txs)
        BY <1>a, <3>2, <4>1, Refreshed DEF RecordInstantLock, Typed
      <4>3. cache' = cache \union {m.tx} /\ waiter' = [waiter EXCEPT ![m.tx] = Idle]
        BY <3>2 DEF RecordInstantLock, Woken
      <4>4. Idle \in 0..Idle
        BY <1>b
      <4> QED
        BY <1>a, <2>2, <3>2, <4>2, <4>3, <4>4 DEF Typed, NoWaitBesideLock
    <3> QED
      BY <2>3, <2>5, <3>1, <3>2 DEF IsLock
  <2>7. /\ marked' \subseteq {t \in locked : row[t] # "none"} /\ call' \in [Txs -> {"idle", "sent", "ok"}]
        /\ \A t \in Txs : call'[t] # call[t] => t = m.tx /\ m.type = "result" /\ call'[t] # "sent"
    <3>1. CASE m.type = "result"
      <4>1. PICK v \in {"ok", "idle"} : call' = [call EXCEPT ![m.tx] = IF @ # "sent" THEN @ ELSE v]
        BY <2>5, <3>1
      <4>2. call' \in [Txs -> {"idle", "sent", "ok"}]
        BY <1>a, <2>2, <4>1 DEF Typed
      <4>3. \A t \in Txs : call'[t] # call[t] => t = m.tx /\ call'[t] # "sent"
        BY <1>a, <2>2, <4>1 DEF Typed
      <4> QED
        BY <1>a, <2>5, <3>1, <4>2, <4>3 DEF Typed
    <3>2. CASE m.type = "lock"
      BY <1>a, <2>2, <2>3, <2>5, <3>2 DEF Typed, IsLock
    <3> QED
      BY <2>5, <3>1, <3>2
  <2>8. Typed'
    BY <1>a, <2>1, <2>2, <2>6, <2>7 DEF Typed
  <2>9. ChildTrue' /\ LocksTrue'
    BY <1>a, <2>1, <2>2, <2>4 DEF ChildTrue, LocksTrue, Running
  <2>10. ASSUME NEW t \in Txs PROVE CallTrue(t)'
    <3>1. CallTrue(t)
      BY <1>a
    <3>2. /\ Holds(up', t) => Holds(up, t)
          /\ m.type = "result" /\ m.tx = t => Holds(up, t) /\ ~Holds(up', t)
          /\ Once(up', t)
      BY <2>1, <2>2, <3>1, HoldsTail DEF CallTrue, About, m
    <3>3. UNCHANGED <<sessions, down>> /\ Running'
      BY <2>1, <2>4 DEF Running
    <3> QED
      BY <2>7, <3>1, <3>2, <3>3 DEF CallTrue
  <2> QED
    BY <2>1, <2>6, <2>8, <2>9, <2>10 DEF IInv, NoWaitBesideLock
<1>4. ASSUME TakeCommand PROVE IInv'
  <2> DEFINE m == Head(down)
  <2>1. /\ Running /\ down # <<>> /\ down' = Tail(down)
        /\ UNCHANGED <<armed, cache, waiter, refreshing, call, row, marked, locked, faults>>
    BY <1>4 DEF TakeCommand, main, store
  <2>2. /\ down \in Seq(Commands) /\ Tail(down) \in Seq(Commands) /\ m \in Commands
        /\ 1 \in DOMAIN down /\ m = down[1]
        /\ \A n \in DOMAIN Tail(down) : n + 1 \in DOMAIN down /\ Tail(down)[n] = down[n + 1]
    BY <1>a, <2>1, Tailed DEF Typed
  <2>3. ASSUME NEW t \in Txs
        PROVE /\ CallTrue(t) /\ (Holds(down', t) => Holds(down, t)) /\ Once(down', t)
              /\ About(m, t) => Holds(down, t) /\ ~Holds(down', t)
    BY <1>a, <2>1, <2>2, HoldsTail DEF CallTrue
  <2>4. CASE m.type = "listen"
    <3>1. /\ child' = "listening" /\ relayed' = relayed
          /\ \/ /\ watched' = {} /\ announced' = {} /\ asked' = {} /\ sessions' = {}
                /\ m.rebuild \/ child = "bare"
                /\ up' = up \o SetToSeq({Result(t, FALSE, FALSE) : t \in sessions})
             \/ UNCHANGED <<watched, announced, asked, sessions, up>>
      BY <1>4, <2>4 DEF TakeCommand
    <3> DEFINE results == SetToSeq({Result(t, FALSE, FALSE) : t \in sessions})
    <3>2. /\ results \in Seq(Messages) /\ \A n \in DOMAIN results : ~IsLock(results[n])
          /\ \A t \in Txs : (Holds(results, t) => t \in sessions) /\ Once(results, t)
      BY <1>a, Results DEF Typed
    <3> HIDE DEF results
    <3>3. CASE /\ watched' = {} /\ announced' = {} /\ asked' = {} /\ sessions' = {}
               /\ up' = up \o results
      <4>1. up' \in Seq(Messages) /\ LocksTrue'
        <5>1. up' \in Seq(Messages)
          BY <1>a, <3>2, <3>3 DEF Typed
        <5>2. LocksTrue'
          BY <1>a, <2>1, <3>2, <3>3, Concat DEF Typed, LocksTrue
        <5> QED
          BY <5>1, <5>2
      <4>2. Typed'
        BY <1>a, <2>1, <2>2, <3>1, <3>3, <4>1 DEF Typed
      <4>3. ChildTrue'
        BY <1>a, <2>1, <2>2, <3>1 DEF ChildTrue, Running
      <4>4. ASSUME NEW t \in Txs PROVE CallTrue(t)'
        <5>1. CallTrue(t) /\ (Holds(down', t) => Holds(down, t)) /\ Once(down', t)
          BY <2>3
        <5>2. /\ Holds(up', t) <=> Holds(up, t) \/ Holds(results, t)
              /\ Once(up, t) /\ Once(results, t) /\ ~(Holds(up, t) /\ Holds(results, t)) => Once(up', t)
          BY <1>a, <3>2, <3>3, HoldsConcat DEF Typed
        <5> QED
          BY <2>1, <3>1, <3>2, <3>3, <5>1, <5>2 DEF CallTrue, Running
      <4> QED
        BY <1>a, <2>1, <4>1, <4>2, <4>3, <4>4 DEF IInv, NoWaitBesideLock
    <3>4. CASE UNCHANGED <<watched, announced, asked, sessions, up>>
      <4>1. Typed'
        BY <1>a, <2>1, <2>2, <3>1, <3>4 DEF Typed
      <4>2. ChildTrue'
        BY <1>a, <2>1, <2>2, <3>1 DEF ChildTrue, Running
      <4>3. ASSUME NEW t \in Txs PROVE CallTrue(t)'
        BY <2>1, <2>3, <3>1, <3>4 DEF CallTrue, Running
      <4> QED
        BY <1>a, <2>1, <3>4, <4>1, <4>2, <4>3 DEF IInv, NoWaitBesideLock, LocksTrue
    <3> QED
      BY <3>1, <3>3, <3>4 DEF results
  <2>5. CASE m.type \in {"add", "replace"}
    <3>1. /\ watched' \in {watched \union m.txs, m.txs}
          /\ UNCHANGED <<child, announced, asked, sessions, relayed, up>>
      BY <1>4, <2>5 DEF TakeCommand
    <3>2. m.txs \subseteq Txs
      BY <2>2, <2>5 DEF Commands
    <3>3. Typed'
      BY <1>a, <2>1, <2>2, <3>1, <3>2 DEF Typed
    <3>4. ChildTrue'
      BY <1>a, <2>1, <2>2, <3>1 DEF ChildTrue, Running
    <3>5. ASSUME NEW t \in Txs PROVE CallTrue(t)'
      BY <2>1, <2>3, <3>1 DEF CallTrue, Running
    <3> QED
      BY <1>a, <2>1, <3>1, <3>3, <3>4, <3>5 DEF IInv, NoWaitBesideLock, LocksTrue
  <2>6. CASE m.type = "broadcast"
    <3>1. /\ UNCHANGED <<child, watched, announced, asked>>
          /\ \/ up' = Append(up, Result(m.tx, FALSE, FALSE)) /\ UNCHANGED <<sessions, relayed>>
             \/ sessions' = sessions \union {m.tx} /\ relayed' = relayed \union {m.tx} /\ up' = up
      BY <1>4, <2>6 DEF TakeCommand
    <3>2. m.tx \in Txs /\ About(m, m.tx)
      BY <2>2, <2>6 DEF Commands, About
    <3>3. Result(m.tx, FALSE, FALSE) \in Messages /\ ~IsLock(Result(m.tx, FALSE, FALSE))
          /\ \A t : About(Result(m.tx, FALSE, FALSE), t) => t = m.tx
      BY <3>2, ResultTyped DEF Result, About, IsLock
    <3>4. ChildTrue'
      BY <1>a, <2>1, <2>2, <3>1 DEF ChildTrue, Running
    <3>5. CASE up' = Append(up, Result(m.tx, FALSE, FALSE)) /\ UNCHANGED <<sessions, relayed>>
      <4> DEFINE r == Result(m.tx, FALSE, FALSE)
      <4>0. r \in Messages /\ ~IsLock(r) /\ (\A t : About(r, t) => t = m.tx) /\ up' = Append(up, r)
        BY <3>3, <3>5
      <4> HIDE DEF r
      <4>1. up' = up \o <<r>> /\ <<r>> \in Seq(Messages) /\ up \in Seq(Messages)
        BY <1>a, <4>0 DEF Typed
      <4>2. up' \in Seq(Messages)
        BY <4>1, Concat
      <4>3. LocksTrue'
        BY <1>a, <2>1, <4>0, <4>1, Concat DEF LocksTrue
      <4>4. Typed'
        BY <1>a, <2>1, <2>2, <3>1, <3>5, <4>2 DEF Typed
      <4>5. ASSUME NEW t \in Txs PROVE CallTrue(t)'
        <5>1. (Holds(<<r>>, t) => t = m.tx) /\ Once(<<r>>, t)
          BY <4>0, HoldsOne
        <5>2. /\ Holds(up', t) <=> Holds(up, t) \/ Holds(<<r>>, t)
              /\ Once(up, t) /\ Once(<<r>>, t) /\ ~(Holds(up, t) /\ Holds(<<r>>, t)) => Once(up', t)
          BY <4>1, HoldsConcat
        <5> QED
          BY <2>1, <2>3, <3>1, <3>2, <3>5, <5>1, <5>2 DEF CallTrue, Running
      <4> QED
        BY <1>a, <2>1, <3>4, <4>3, <4>4, <4>5 DEF IInv, NoWaitBesideLock
    <3>6. CASE sessions' = sessions \union {m.tx} /\ relayed' = relayed \union {m.tx} /\ up' = up
      <4>1. Typed'
        BY <1>a, <2>1, <2>2, <3>1, <3>2, <3>6 DEF Typed
      <4>2. ASSUME NEW t \in Txs PROVE CallTrue(t)'
        BY <2>1, <2>3, <3>1, <3>2, <3>6 DEF CallTrue, Running
      <4> QED
        BY <1>a, <2>1, <3>4, <3>6, <4>1, <4>2 DEF IInv, NoWaitBesideLock, LocksTrue
    <3> QED
      BY <3>1, <3>5, <3>6
  <2> QED
    BY <2>2, <2>4, <2>5, <2>6 DEF Commands
<1>5. ASSUME ChildExits PROVE IInv'
  <2>1. Typed'
    BY <1>a, <1>5 DEF ChildExits, store, Typed, Rejected
  <2>2. ChildTrue' /\ LocksTrue' /\ NoWaitBesideLock'
    BY <1>a, <1>5 DEF ChildExits, store, Typed, ChildTrue, LocksTrue, NoWaitBesideLock, Running
  <2>3. ASSUME NEW t \in Txs PROVE CallTrue(t)'
    <3>1. call'[t] # "sent" /\ down' = <<>> /\ up' = <<>> /\ sessions' = {}
      BY <1>a, <1>5 DEF ChildExits, Rejected
    <3> QED
      BY <3>1, HoldsNothing DEF CallTrue
  <2> QED
    BY <2>1, <2>2, <2>3 DEF IInv
<1>6. ASSUME Reload PROVE IInv'
  <2> DEFINE m == Listen(TRUE)
  <2>1. Post(<<m>>) /\ faults' = faults + 1
        /\ UNCHANGED <<armed, cache, waiter, refreshing, call, row, marked, watched, sessions, up, relayed,
                       locked, announced, asked>>
    BY <1>6 DEF Reload, main, store, network
  <2>2. m \in Commands /\ m.type = "listen"
    BY DEF Listen, Commands
  <2> HIDE DEF m
  <2>3. <<m>> \in Seq(Commands) /\ \A t : ~Holds(<<m>>, t)
    BY <2>2, HoldsOne DEF About
  <2>a. down' \in Seq(Commands) /\ child' \in {"bare", "listening"}
    BY <2>1, <2>3, Posted
  <2>4. faults' \in Nat /\ faults' # 0 /\ down' \in Seq(Commands) /\ child' \in {"bare", "listening"}
    BY <1>a, <2>1, <2>a DEF Typed
  <2>5. Typed'
    BY <1>a, <2>1, <2>4 DEF Typed
  <2>6. ChildTrue'
    BY <2>1, <2>3, <2>4, PostedChild
  <2>7. \A t \in Txs : CallTrue(t)'
    BY <2>1, <2>3, PostedCall
  <2> QED
    BY <1>a, <2>1, <2>5, <2>6, <2>7 DEF IInv, LocksTrue, NoWaitBesideLock
<1>7. ASSUME NEW t \in Txs, Incoming(t) PROVE IInv'
  <2>1. /\ t \in relayed /\ row' = [row EXCEPT ![t] = "pending"] /\ armed' = [armed EXCEPT ![t] = 0]
        /\ Post(<<Add(t)>>)
        /\ UNCHANGED <<cache, waiter, refreshing, call, marked, watched, sessions, up, relayed, locked,
                       announced, asked, faults>>
    BY <1>7 DEF Incoming, network
  <2>2. Add(t) \in Commands /\ Add(t).type = "add"
    BY DEF Add, Commands
  <2>3. /\ down' \in Seq(Commands) /\ child' \in {"none", "bare", "listening"}
        /\ ChildTrue' /\ \A u \in Txs : CallTrue(u)'
    BY <2>1, <2>2, PostedSet
  <2>4. Typed'
    BY <1>a, <1>b, <2>1, <2>3 DEF Typed
  <2> QED
    BY <1>a, <2>1, <2>3, <2>4 DEF IInv, LocksTrue, NoWaitBesideLock
<1>8. ASSUME NEW t \in Txs, Wait(t) PROVE IInv'
  <2>1. /\ waiter' = [waiter EXCEPT ![t] = WaitTime] /\ t \notin cache
        /\ UNCHANGED <<cache, refreshing, call, row, marked, watched, sessions, up, relayed, locked,
                       announced, asked, faults>>
        /\ \/ armed' = [armed EXCEPT ![t] = 0] /\ Post(<<Add(t)>>)
           \/ UNCHANGED <<armed, down, child>>
    BY <1>8 DEF Wait, store, network
  <2>2. /\ armed' \in [Txs -> 0..NotArmed] /\ down' \in Seq(Commands)
        /\ child' \in {"none", "bare", "listening"} /\ ChildTrue' /\ \A u \in Txs : CallTrue(u)'
    <3>1. CASE armed' = [armed EXCEPT ![t] = 0] /\ Post(<<Add(t)>>)
      <4>1. Add(t) \in Commands /\ Add(t).type = "add"
        BY DEF Add, Commands
      <4>2. /\ down' \in Seq(Commands) /\ child' \in {"none", "bare", "listening"}
            /\ ChildTrue' /\ \A u \in Txs : CallTrue(u)'
        BY <2>1, <3>1, <4>1, PostedSet
      <4> QED
        BY <1>a, <1>b, <3>1, <4>2 DEF Typed
    <3>2. CASE UNCHANGED <<armed, down, child>>
      BY <1>a, <2>1, <3>2, Elsewhere DEF Typed
    <3> QED
      BY <2>1, <3>1, <3>2
  <2>3. Typed'
    BY <1>a, <1>b, <2>1, <2>2 DEF Typed
  <2>4. NoWaitBesideLock'
    BY <1>a, <2>1 DEF NoWaitBesideLock, Typed
  <2> QED
    BY <1>a, <2>1, <2>2, <2>3, <2>4 DEF IInv, LocksTrue
<1>9. ASSUME NEW t \in Txs, Call(t) \/ Rebroadcast(t) PROVE IInv'
  <2>1. PICK ms \in {<<Listen(FALSE), Add(t), Broadcast(t)>>, <<Add(t), Broadcast(t)>>} :
          /\ Post(ms) /\ call[t] = "idle" /\ call' = [call EXCEPT ![t] = "sent"]
          /\ UNCHANGED <<cache, waiter, row, marked, watched, sessions, up, relayed, locked, announced,
                         asked, faults>>
    <3>1. CASE Call(t)
      <4>1. Relisten \o <<Add(t), Broadcast(t)>> \in
              {<<Listen(FALSE), Add(t), Broadcast(t)>>, <<Add(t), Broadcast(t)>>}
        BY InFront DEF Relisten
      <4> QED
        BY <3>1, <4>1 DEF Call, store, network
    <3>2. CASE Rebroadcast(t)
      BY <3>2 DEF Rebroadcast, store, network
    <3> QED
      BY <1>9, <3>1, <3>2
  <2>2. /\ ms \in Seq(Commands) /\ \A n \in DOMAIN ms : ms[n].type = "listen" => ~ms[n].rebuild
        /\ \A u : (Holds(ms, u) => u = t) /\ Once(ms, u)
    BY SentCommands
  <2>5. armed' \in [Txs -> 0..NotArmed] /\ refreshing' \in Seq(SUBSET Txs)
    <3>1. CASE Call(t)
      BY <1>a, <1>b, <3>1 DEF Call, Typed
    <3>2. CASE Rebroadcast(t)
      <4>1. Purged(armed) \in [Txs -> 0..NotArmed] /\ Fresh(armed) \in SUBSET Txs
        BY <1>a, <1>b DEF Typed, Purged, Fresh
      <4> QED
        BY <1>b, <3>2, <4>1 DEF Rebroadcast
    <3> QED
      BY <1>9, <3>1, <3>2
  <2>6. down' \in Seq(Commands) /\ child' \in {"bare", "listening"}
    BY <2>1, <2>2, Posted
  <2>7. Typed'
    BY <1>a, <2>1, <2>5, <2>6 DEF Typed
  <2>8. ChildTrue'
    BY <2>1, <2>2, PostedChild
  <2>9. ASSUME NEW u \in Txs PROVE CallTrue(u)'
    <3>1. CASE u = t
      <4>1. CallTrue(u) /\ call'[u] = "sent" /\ call[u] # "sent"
        BY <1>a, <2>1, <3>1 DEF Typed
      <4>2. ~Holds(down, u)
        BY <4>1 DEF CallTrue
      <4>3. Once(down', u) /\ Running'
        BY <2>1, <2>2, <2>6, <4>1, <4>2, Posted DEF CallTrue, Running
      <4> QED
        BY <2>1, <4>1, <4>3 DEF CallTrue
    <3>2. CASE u # t
      BY <1>a, <2>1, <2>2, <3>2, PostedCall DEF Typed
    <3> QED
      BY <3>1, <3>2
  <2> QED
    BY <1>a, <2>1, <2>7, <2>8, <2>9 DEF IInv, LocksTrue, NoWaitBesideLock
<1>10. ASSUME NEW t \in Txs, Record(t) PROVE IInv'
  <2>1. /\ call[t] = "ok" /\ call' = [call EXCEPT ![t] = "idle"]
        /\ row' = [row EXCEPT ![t] = IF @ = "none" THEN "pending" ELSE @]
        /\ UNCHANGED <<armed, cache, waiter, refreshing, marked, child, watched, sessions, down, up,
                       relayed, locked, announced, asked, faults>>
    BY <1>10 DEF Record, proc, network
  <2>2. Typed'
    BY <1>a, <2>1 DEF Typed
  <2>3. ASSUME NEW u \in Txs PROVE CallTrue(u)'
    <3>1. CallTrue(u) /\ (call'[u] = call[u] \/ (call'[u] = "idle" /\ call[u] = "ok"))
      BY <1>a, <2>1 DEF Typed
    <3> QED
      BY <2>1, <3>1 DEF CallTrue, Running
  <2> QED
    BY <1>a, <2>1, <2>2, <2>3 DEF IInv, ChildTrue, LocksTrue, NoWaitBesideLock, Running
<1>11. ASSUME NEW t \in Txs, WaitOver(t) PROVE IInv'
  <2>1. /\ waiter' = [waiter EXCEPT ![t] = Idle]
        /\ UNCHANGED <<armed, cache, refreshing, call, row, marked, child, watched, sessions, down, up,
                       relayed, locked, announced, asked, faults>>
    BY <1>11 DEF WaitOver, store, proc, network
  <2>2. Typed' /\ NoWaitBesideLock'
    BY <1>a, <1>b, <2>1 DEF Typed, NoWaitBesideLock
  <2> QED
    BY <1>a, <2>1, <2>2, Elsewhere DEF IInv, LocksTrue
<1>12. ASSUME NEW t \in Txs, Mine(t) PROVE IInv'
  <2>1. /\ row' = [row EXCEPT ![t] = "mined"]
        /\ UNCHANGED <<armed, cache, waiter, refreshing, call, marked, child, watched, sessions, down, up,
                       relayed, locked, announced, asked, faults>>
    BY <1>12 DEF Mine, main, proc, network
  <2>2. Typed'
    BY <1>a, <2>1 DEF Typed
  <2> QED
    BY <1>a, <2>1, <2>2, Elsewhere DEF IInv, LocksTrue, NoWaitBesideLock
<1>13. ASSUME NEW t \in Txs, Lock(t) \/ LockAnnounced(t) PROVE IInv'
  <2>1. /\ UNCHANGED <<armed, cache, waiter, refreshing, call, row, marked, child, watched, sessions, down,
                       up, relayed, faults>>
        /\ locked \subseteq locked' /\ locked' \subseteq locked \union {t}
        /\ announced' \subseteq locked' /\ asked' \subseteq locked'
        /\ ~Running => announced' = announced \/ announced' \subseteq announced
        /\ asked # {} \/ announced # {} \/ asked' = {}
    BY <1>a, <1>13 DEF Lock, LockAnnounced, main, store, proc, Running, Typed
  <2>2. Typed'
    BY <1>a, <2>1 DEF Typed
  <2>3. ChildTrue'
    BY <1>a, <2>1 DEF ChildTrue, Running
  <2>4. \A u \in Txs : CallTrue(u)'
    BY <1>a, <2>1 DEF CallTrue, Running
  <2> QED
    BY <1>a, <2>1, <2>2, <2>3, <2>4 DEF IInv, LocksTrue, NoWaitBesideLock
<1>14. ASSUME NEW t \in Txs, NEW ok \in BOOLEAN, Settles(t, ok) PROVE IInv'
  <2> DEFINE r == Result(t, ok, FALSE)
  <2>1. /\ t \in sessions /\ sessions' = sessions \ {t} /\ up' = Append(up, r)
        /\ UNCHANGED <<armed, cache, waiter, refreshing, call, row, marked, child, watched, down, relayed,
                       locked, announced, asked, faults>>
    BY <1>14 DEF Settles, main, store, network
  <2>2. r \in Messages /\ ~IsLock(r) /\ \A u : About(r, u) <=> u = t
    <3>1. r \in Messages
      BY ResultTyped
    <3>2. ~IsLock(r) /\ \A u : About(r, u) <=> u = t
      BY DEF Result, IsLock, About
    <3> QED
      BY <3>1, <3>2
  <2> HIDE DEF r
  <2>3. up' = up \o <<r>> /\ <<r>> \in Seq(Messages) /\ up \in Seq(Messages)
    <3>1. up \in Seq(Messages) /\ r \in Messages /\ up' = Append(up, r)
      BY <1>a, <2>1, <2>2 DEF Typed
    <3> QED
      BY <3>1
  <2>4. up' \in Seq(Messages) /\ LocksTrue'
    BY <1>a, <2>1, <2>2, <2>3, Concat DEF LocksTrue
  <2>5. Typed'
    BY <1>a, <2>1, <2>4 DEF Typed
  <2>6. ChildTrue'
    BY <1>a, <2>1 DEF ChildTrue, Running
  <2>7. ASSUME NEW u \in Txs PROVE CallTrue(u)'
    <3>1. (Holds(<<r>>, u) <=> u = t) /\ Once(<<r>>, u)
      BY <2>2, HoldsOne
    <3>2. /\ Holds(up', u) <=> Holds(up, u) \/ Holds(<<r>>, u)
          /\ Once(up, u) /\ Once(<<r>>, u) /\ ~(Holds(up, u) /\ Holds(<<r>>, u)) => Once(up', u)
      BY <2>3, HoldsConcat
    <3> QED
      BY <1>a, <2>1, <3>1, <3>2 DEF CallTrue, Running
  <2> QED
    BY <1>a, <2>1, <2>4, <2>5, <2>6, <2>7 DEF IInv, NoWaitBesideLock
<1>15. ASSUME NEW t \in Txs, LockArrives(t) PROVE IInv'
  <2> DEFINE news == (IF t \in watched THEN <<[type |-> "lock", tx |-> t]>> ELSE <<>>)
             results == (IF t \in sessions THEN <<Result(t, TRUE, TRUE)>> ELSE <<>>)
  <2>1. /\ t \in asked /\ asked' = asked \ {t} /\ watched' = watched \ {t} /\ sessions' = sessions \ {t}
        /\ up' = up \o news \o results
        /\ UNCHANGED <<armed, cache, waiter, refreshing, call, row, marked, child, down, relayed, locked,
                       announced, faults>>
    BY <1>15 DEF LockArrives, main, store
  <2>2. /\ news \in Seq(Messages) /\ \A n \in DOMAIN news : news[n].tx = t
        /\ \A u : ~Holds(news, u) /\ Once(news, u)
    <3>1. [type |-> "lock", tx |-> t] \in Messages /\ ~\E u : About([type |-> "lock", tx |-> t], u)
      BY DEF Messages, About
    <3> QED
      BY <3>1, HoldsOne, HoldsNothing
  <2>3. /\ results \in Seq(Messages) /\ \A n \in DOMAIN results : results[n].tx = t
        /\ \A u : (Holds(results, u) <=> u = t /\ t \in sessions) /\ Once(results, u)
    <3> DEFINE r == Result(t, TRUE, TRUE)
    <3>1. r \in Messages /\ r.tx = t /\ \A u : About(r, u) <=> u = t
      BY ResultTyped DEF Result, About
    <3> HIDE DEF r
    <3>2. CASE t \in sessions
      <4>1. results = <<r>>
        BY <3>2 DEF r
      <4> HIDE DEF results
      <4>2. results \in Seq(Messages) /\ DOMAIN results = {1} /\ results[1] = r
        BY <3>1, <4>1
      <4>3. \A u : (Holds(results, u) <=> u = t) /\ Once(results, u)
        BY <3>1, <4>1, HoldsOne
      <4> QED
        BY <3>1, <3>2, <4>2, <4>3
    <3>3. CASE t \notin sessions
      <4>1. results = <<>>
        BY <3>3
      <4> QED
        BY <3>3, <4>1, HoldsNothing
    <3> QED
      BY <3>2, <3>3
  <2> HIDE DEF news, results
  <2>4. up \in Seq(Messages) /\ t \in locked
    BY <1>a, <2>1 DEF Typed
  <2>5. up \o news \in Seq(Messages) /\ up' \in Seq(Messages)
    BY <2>1, <2>2, <2>3, <2>4
  <2>6. LocksTrue'
    <3>1. \A n \in DOMAIN (up \o news) : IsLock((up \o news)[n]) => (up \o news)[n].tx \in locked
      BY <1>a, <2>2, <2>4, Concat DEF LocksTrue
    <3> QED
      BY <2>1, <2>3, <2>4, <2>5, <3>1, Concat DEF LocksTrue
  <2>7. Typed'
    BY <1>a, <2>1, <2>5 DEF Typed
  <2>8. ChildTrue'
    BY <1>a, <2>1 DEF ChildTrue, Running
  <2>9. ASSUME NEW u \in Txs PROVE CallTrue(u)'
    <3>1. /\ Holds(up \o news, u) <=> Holds(up, u)
          /\ Once(up, u) => Once(up \o news, u)
      BY <2>2, <2>4, HoldsConcat
    <3>2. /\ Holds(up', u) <=> Holds(up, u) \/ Holds(results, u)
          /\ Once(up, u) /\ ~(Holds(up, u) /\ Holds(results, u)) => Once(up', u)
      <4>1. /\ Holds((up \o news) \o results, u) <=> Holds(up \o news, u) \/ Holds(results, u)
            /\ Once(up \o news, u) /\ Once(results, u) /\ ~(Holds(up \o news, u) /\ Holds(results, u))
                 => Once((up \o news) \o results, u)
        BY <2>3, <2>5, HoldsConcat
      <4> QED
        BY <2>1, <2>3, <3>1, <4>1
    <3> QED
      BY <1>a, <2>1, <2>3, <3>2 DEF CallTrue, Running
  <2> QED
    BY <1>a, <2>1, <2>6, <2>7, <2>8, <2>9 DEF IInv, NoWaitBesideLock
<1>16. CASE UNCHANGED vars
  <2>1. UNCHANGED <<armed, cache, waiter, refreshing, call, row, marked, child, watched, sessions, down, up,
                    relayed, locked, announced, asked, faults>>
    BY <1>16 DEF vars, main, store, proc, network
  <2>2. Typed'
    BY <1>a, <2>1 DEF Typed
  <2> QED
    BY <1>a, <2>1, <2>2, Elsewhere DEF IInv, LocksTrue, NoWaitBesideLock
<1> QED
  BY <1>1, <1>2, <1>3, <1>4, <1>5, <1>6, <1>7, <1>8, <1>9, <1>10, <1>11, <1>12, <1>13, <1>14, <1>15,
     <1>16 DEF Next

LEMMA InvariantHolds == Spec => []IInv
BY InitIInv, StepIInv, PTL DEF Spec

\* What main, SQL and the child hold is well formed in every state, whatever is
\* excluded: an exited child holds nothing, marks are of locked transactions with a
\* row, and a session or a call under way belongs to the other.
THEOREM TypeCorrect == Spec => []TypeOK
<1>1. IInv => TypeOK
  <2> SUFFICES ASSUME IInv PROVE TypeOK
    OBVIOUS
  <2>1. \A t \in Txs : (t \in sessions => call[t] # "idle") /\ (call[t] = "sent" => Running)
    BY DEF IInv, CallTrue
  <2> QED
    BY <2>1 DEF IInv, Typed, ChildTrue, TypeOK
<1> QED
  BY InvariantHolds, <1>1, PTL

\* Nobody waits for a lock main already holds, whatever is excluded.
THEOREM LockWakesWaiters == Spec => []NoWaitBesideLock
<1>1. IInv => NoWaitBesideLock
  BY DEF IInv
<1> QED
  BY InvariantHolds, <1>1, PTL

-----------------------------------------------------------------------------
(* What is watched *)

\* The situations the theorem about what is watched leaves out.
Calm ==
  {"bare fork", "arm while a refresh reads", "late waiter", "waiter without a child",
   "lock before the record"} \subseteq Excluded

\* SQL has the transaction when its lock is on its way.
LocksRecorded == \A n \in DOMAIN up : IsLock(up[n]) => row[up[n].tx] # "none"

\* A waiter's time ends before its arm expires.
WaitTrue(t) == waiter[t] # Idle => armed[t] + waiter[t] <= WaitTime

\* The arm of a call lasts until its transaction is recorded.
ArmTrue(t) == call[t] # "idle" /\ row[t] = "none" => armed[t] = 0

\* The child watches t once it has done what it was sent: something names t, or it
\* watches t already, and no later replacement leaves t out.
Names(n, t) ==
  IF n = 0 THEN t \in watched ELSE down[n].type \in {"add", "replace"} /\ t \in down[n].txs
Spares(n, t) == down[n].type = "replace" => t \in down[n].txs
WillWatch(t) ==
  \E n \in 0..Len(down) : Names(n, t) /\ \A m \in n + 1..Len(down) : Spares(m, t)

\* What is to be watched will be, or its lock is on its way; a refresh under way
\* decides.
Reported(t) == \E n \in DOMAIN up : up[n].type = "lock" /\ up[n].tx = t
Wanted(t) == (t \in Armed /\ row[t] # "mined") \/ t \in Unlocked
Decided(t) ==
  refreshing # <<>> /\ (t \in refreshing[Len(refreshing)] \/ t \in Unlocked)
WatchTrue(t) ==
  faults = 0 /\ Wanted(t) => Reported(t) \/ (refreshing = <<>> /\ WillWatch(t)) \/ Decided(t)

WatchInv ==
  /\ ForkListens /\ LocksRecorded
  /\ \A t \in Txs : WaitTrue(t) /\ ArmTrue(t) /\ WatchTrue(t)

\* Commands that replace nothing leave what will be watched.
LEMMA WatchStays ==
  ASSUME IInv, NEW ms \in Seq(Commands), down' = down \o ms, watched' = watched,
         \A n \in DOMAIN ms : ms[n].type # "replace", NEW t \in Txs, WillWatch(t)
  PROVE WillWatch(t)'
<1>1. down \in Seq(Commands)
  BY DEF IInv, Typed
<1>2. PICK n \in 0..Len(down) : Names(n, t) /\ \A m \in n + 1..Len(down) : Spares(m, t)
  BY DEF WillWatch
<1>3. n \in 0..Len(down') /\ Names(n, t)'
  BY <1>1, <1>2, Concat DEF Names
<1>4. ASSUME NEW m \in n + 1..Len(down') PROVE Spares(m, t)'
  <2>1. m \in DOMAIN down'
    BY <1>1, <1>2, Concat
  <2>2. CASE m \in DOMAIN down /\ down'[m] = down[m]
    <3>1. Spares(m, t)
      BY <1>1, <1>2, <2>2
    <3> QED
      BY <2>2, <3>1 DEF Spares
  <2>3. CASE m - Len(down) \in DOMAIN ms /\ down'[m] = ms[m - Len(down)]
    BY <2>3 DEF Spares
  <2> QED
    BY <1>1, <2>1, <2>2, <2>3, Concat
<1> QED
  BY <1>3, <1>4 DEF WillWatch

\* A command that names t makes it watched, unless it is replaced after that.
LEMMA WatchNamed ==
  ASSUME IInv, NEW ms \in Seq(Commands), down' = down \o ms, NEW t \in Txs, NEW k \in DOMAIN ms,
         ms[k].type \in {"add", "replace"}, t \in ms[k].txs,
         \A n \in DOMAIN ms : n # k => ms[n].type # "replace"
  PROVE WillWatch(t)'
<1>1. down \in Seq(Commands) /\ Len(down) \in Nat /\ k \in Nat /\ k > 0
  BY DEF IInv, Typed
<1> PICK n \in Nat : n = k + Len(down)
  BY <1>1
<1>2. n \in DOMAIN down' /\ down'[n] = ms[k] /\ n > 0 /\ n \in 0..Len(down')
  BY <1>1, Concat
<1>3. Names(n, t)'
  BY <1>2 DEF Names
<1>4. ASSUME NEW m \in n + 1..Len(down') PROVE Spares(m, t)'
  <2>1. m \in DOMAIN down' /\ m > Len(down) /\ m - Len(down) # k
    BY <1>1, <1>2, Concat
  <2>2. m - Len(down) \in DOMAIN ms /\ down'[m] = ms[m - Len(down)]
    BY <1>1, <2>1, Concat
  <2>3. ms[m - Len(down)].type # "replace"
    BY <2>1, <2>2
  <2>4. down'[m].type # "replace"
    BY <2>2, <2>3
  <2> QED
    BY <2>4 DEF Spares
<1> QED
  BY <1>2, <1>3, <1>4 DEF WillWatch

\* The child does what it was sent.
LEMMA WatchTaken ==
  ASSUME IInv, faults = 0, TakeCommand, NEW t \in Txs, WillWatch(t)
  PROVE WillWatch(t)'
<1>1. down \in Seq(Commands) /\ down # <<>> /\ down' = Tail(down) /\ Len(down) \in Nat
  BY DEF IInv, Typed, TakeCommand
<1>2. /\ Len(down') = Len(down) - 1 /\ Head(down) = down[1]
      /\ \A n \in DOMAIN down' : down'[n] = down[n + 1]
      /\ DOMAIN down' = 1..Len(down')
  BY <1>1, Tailed
<1>3. PICK n \in 0..Len(down) : Names(n, t) /\ \A m \in n + 1..Len(down) : Spares(m, t)
  BY DEF WillWatch
<1>4. ASSUME NEW m \in 1..Len(down'), m + 1 \in n + 1..Len(down) PROVE Spares(m, t)'
  BY <1>2, <1>3, <1>4 DEF Spares
<1>5. CASE n \in {0, 1}
  <2>1. Names(1, t) \/ (t \in watched /\ Spares(1, t))
    <3>1. CASE n = 0
      BY <1>1, <1>3, <3>1 DEF Names
    <3>2. CASE n = 1
      BY <1>3, <3>2
    <3> QED
      BY <1>5, <3>1, <3>2
  <2>2. t \in watched'
    <3>1. child = "listening" /\ (Head(down).type = "listen" => ~Head(down).rebuild)
      BY <1>1, <1>2, Tailed DEF IInv, ChildTrue
    <3>2. \/ Head(down).type = "add" /\ watched' = watched \union Head(down).txs
          \/ Head(down).type = "replace" /\ watched' = Head(down).txs
          \/ Head(down).type \notin {"add", "replace"} /\ watched' = watched
      BY <3>1 DEF TakeCommand
    <3> QED
      BY <1>2, <2>1, <3>2 DEF Names, Spares
  <2>3. 0 \in 0..Len(down') /\ Names(0, t)'
    BY <1>1, <1>2, <2>2, Tailed DEF Names
  <2>4. \A m \in 0 + 1..Len(down') : Spares(m, t)'
    BY <1>1, <1>2, <1>4, <1>5
  <2> QED
    BY <2>3, <2>4 DEF WillWatch
<1>6. CASE n \notin {0, 1}
  <2>1. n - 1 \in 0..Len(down') /\ n - 1 # 0 /\ n - 1 \in DOMAIN down' /\ n # 0
    BY <1>1, <1>2, <1>6
  <2>2. Names(n - 1, t)'
    BY <1>2, <1>3, <2>1 DEF Names
  <2>3. \A m \in (n - 1) + 1..Len(down') : Spares(m, t)'
    BY <1>1, <1>2, <1>4, <2>1
  <2> QED
    BY <2>1, <2>2, <2>3 DEF WillWatch
<1> QED
  BY <1>5, <1>6

\* A child that is to listen still is, whatever else it is sent.
LEMMA ListenStays ==
  ASSUME IInv, ForkListens, NEW ms \in Seq(Commands), Post(ms),
         Running \/ \E n \in DOMAIN ms : ms[n].type = "listen"
  PROVE ForkListens'
<1>1. down \in Seq(Commands) /\ down' = down \o ms /\ child' = IF Running THEN child ELSE "bare"
  BY DEF IInv, Typed, Post
<1>2. CASE Running
  BY <1>1, <1>2, Concat DEF ForkListens
<1>3. CASE ~Running
  <2>1. PICK n \in DOMAIN ms : ms[n].type = "listen"
    BY <1>3
  <2>2. n + Len(down) \in DOMAIN down' /\ down'[n + Len(down)] = ms[n]
    BY <1>1, Concat
  <2> QED
    BY <2>1, <2>2 DEF ForkListens
<1> QED
  BY <1>2, <1>3

\* A step that moves no refresh keeps what is decided.
LEMMA WatchKept ==
  ASSUME NEW t \in Txs, WatchTrue(t), faults' = 0 => faults = 0, refreshing' = refreshing,
         faults' = 0 /\ Wanted(t)' => Wanted(t) /\ (t \in Unlocked => t \in Unlocked'),
         Reported(t) => Reported(t)', faults = 0 /\ WillWatch(t) => WillWatch(t)' \/ Reported(t)'
  PROVE WatchTrue(t)'
BY DEF WatchTrue, Decided

\* Nor does one that changes neither what main holds nor what the child is sent.
LEMMA WatchUnmoved ==
  ASSUME UNCHANGED <<armed, waiter, refreshing, row, marked, child, watched, down, up, faults>>,
         WatchInv, \A t \in Txs : call'[t] # "idle" => call[t] # "idle"
  PROVE WatchInv'
BY DEF WatchInv, ForkListens, LocksRecorded, WaitTrue, ArmTrue, WatchTrue, Decided, Wanted, Reported,
       WillWatch, Names, Spares, Armed, Unlocked

\* Reports are only added.
LEMMA ReportStays ==
  ASSUME IInv, NEW rs \in Seq(Messages), up' = up \o rs, NEW t \in Txs, Reported(t)
  PROVE Reported(t)'
<1>1. up \in Seq(Messages)
  BY DEF IInv, Typed
<1> QED
  BY <1>1, Concat DEF Reported

LEMMA RecordedStays ==
  ASSUME IInv, LocksRecorded, NEW rs \in Seq(Messages), up' = up \o rs, row' = row,
         \A n \in DOMAIN rs : IsLock(rs[n]) => row[rs[n].tx] # "none"
  PROVE LocksRecorded'
<1>1. up \in Seq(Messages)
  BY DEF IInv, Typed
<1> QED
  BY <1>1, Concat DEF LocksRecorded

\* What a refresh reads covers what stays armed.
LEMMA RefreshCovers ==
  ASSUME IInv, NEW now \in [Txs -> 0..NotArmed], Refresh(now), Running, NEW t \in Txs,
         Wanted(t)'
  PROVE Decided(t)'
<1>1. refreshing \in Seq(SUBSET Txs) /\ Fresh(now) \in SUBSET Txs
  BY DEF IInv, Typed, Fresh
<1>2. armed' = Purged(now) /\ refreshing' = Append(refreshing, Fresh(now))
  BY DEF Refresh
<1>3. refreshing' # <<>> /\ refreshing'[Len(refreshing')] = Fresh(now)
  BY <1>1, <1>2
<1>4. t \in Armed' => t \in Fresh(now)
  BY <1>2 DEF Armed, Purged, Fresh
<1> QED
  BY <1>3, <1>4 DEF Wanted, Decided

LEMMA OneMore ==
  ASSUME NEW S, NEW q \in Seq(S), NEW x \in S
  PROVE /\ Append(q, x) = q \o <<x>> /\ <<x>> \in Seq(S) /\ q \o <<>> = q /\ <<>> \in Seq(S)
        /\ DOMAIN <<x>> = {1} /\ <<x>>[1] = x
        /\ Append(q, x) # <<>> /\ Append(q, x)[Len(Append(q, x))] = x
OBVIOUS

LEMMA LastOnes ==
  ASSUME NEW S, NEW q \in Seq(S), q # <<>>
  PROVE /\ Tail(q) = <<>> => q[Len(q)] = Head(q)
        /\ Tail(q) # <<>> => Tail(q)[Len(Tail(q))] = q[Len(q)]
<1>1. Len(q) \in Nat /\ Len(q) > 0 /\ Len(Tail(q)) = Len(q) - 1 /\ Tail(q) \in Seq(S)
  OBVIOUS
<1>2. ASSUME Tail(q) = <<>> PROVE Len(q) = 1
  <2>1. \A r \in Seq(S) : r = <<>> => Len(r) = 0
    OBVIOUS
  <2>2. Len(Tail(q)) = 0
    BY <1>1, <1>2, <2>1
  <2>3. \A n, m \in Nat : n > 0 /\ m = n - 1 /\ m = 0 => n = 1
    OBVIOUS
  <2>4. Len(q) \in Nat /\ Len(q) > 0 /\ Len(Tail(q)) = Len(q) - 1 /\ Len(Tail(q)) \in Nat
    BY <1>1
  <2> QED
    BY <2>2, <2>3, <2>4, Zenon
<1>3. ASSUME Tail(q) # <<>> PROVE Tail(q)[Len(Tail(q))] = q[Len(q)]
  <2>1. Len(Tail(q)) \in DOMAIN Tail(q)
    BY <1>1, <1>3
  <2> QED
    BY <1>1, <2>1, Tailed
<1> QED
  BY <1>2, <1>3

\* What broadcastTransaction sends names its transaction, and replaces nothing.
LEMMA SentNames ==
  ASSUME NEW t, NEW ms \in {<<Listen(FALSE), Add(t), Broadcast(t)>>, <<Add(t), Broadcast(t)>>}
  PROVE \E k \in DOMAIN ms :
          /\ ms[k].type = "add" /\ t \in ms[k].txs
          /\ \A n \in DOMAIN ms : ms[n].type # "replace"
<1> DEFINE a == Listen(FALSE)
           b == Add(t)
           c == Broadcast(t)
<1>1. /\ b.type = "add" /\ t \in b.txs
      /\ a.type # "replace" /\ b.type # "replace" /\ c.type # "replace"
  BY DEF Add, Listen, Broadcast
<1> HIDE DEF a, b, c
<1>2. CASE ms = <<a, b, c>>
  <2>1. DOMAIN ms = 1..3 /\ ms[1] = a /\ ms[2] = b /\ ms[3] = c
    BY <1>2
  <2> QED
    BY <1>1, <2>1
<1>3. CASE ms = <<b, c>>
  <2>1. DOMAIN ms = 1..2 /\ ms[1] = b /\ ms[2] = c
    BY <1>3
  <2> QED
    BY <1>1, <2>1
<1> QED
  BY <1>2, <1>3 DEF a, b, c

\* An arm set to nothing serves a whole wait.
LEMMA ArmedAnew ==
  ASSUME IInv, WatchInv, NEW t \in Txs, armed' = [armed EXCEPT ![t] = 0],
         waiter' = waiter \/ (waiter' = [waiter EXCEPT ![t] = WaitTime]), NEW u \in Txs
  PROVE WaitTrue(u)' /\ (u # t => armed'[u] = armed[u]) /\ armed'[t] = 0
<1>1. armed \in [Txs -> 0..NotArmed] /\ waiter \in [Txs -> 0..Idle] /\ WaitTrue(u)
  BY DEF IInv, Typed, WatchInv
<1> QED
  BY <1>1, LockWatchAssumption DEF WaitTrue, Idle, NotArmed

\* A transaction is armed and the child told, with no refresh under way.
LEMMA ArmingWatches ==
  ASSUME IInv, WatchInv, NEW t \in Txs, NEW ms \in Seq(Commands), Post(ms),
         armed' = [armed EXCEPT ![t] = 0], refreshing = <<>>,
         UNCHANGED <<refreshing, marked, watched, up, faults>>,
         \A u \in Txs : u # t => row'[u] = row[u],
         NEW k \in DOMAIN ms, ms[k].type = "add", t \in ms[k].txs,
         \A n \in DOMAIN ms : ms[n].type # "replace", NEW u \in Txs
  PROVE WatchTrue(u)'
<1>1. down' = down \o ms /\ armed \in [Txs -> 0..NotArmed]
  BY DEF Post, IInv, Typed
<1>2. CASE u = t
  BY <1>1, <1>2, WatchNamed DEF WatchTrue
<1>3. CASE u # t
  <2>1. Wanted(u)' => Wanted(u) /\ (u \in Unlocked => u \in Unlocked')
    BY <1>1, <1>3 DEF Wanted, Armed, Unlocked
  <2>2. WillWatch(u) => WillWatch(u)'
    BY <1>1, WatchStays
  <2>3. WatchTrue(u) /\ (Reported(u) => Reported(u)')
    BY DEF WatchInv, Reported
  <2> QED
    BY <2>1, <2>2, <2>3, WatchKept
<1> QED
  BY <1>2, <1>3

\* With those situations left out every step keeps what will be watched.
LEMMA StepWatch ==
  ASSUME Calm, IInv, WatchInv, [Next]_vars
  PROVE WatchInv'
<1>a. /\ ForkListens /\ LocksRecorded
      /\ \A t \in Txs : WaitTrue(t) /\ ArmTrue(t) /\ WatchTrue(t)
  BY DEF WatchInv
<1>b. /\ armed \in [Txs -> 0..NotArmed] /\ waiter \in [Txs -> 0..Idle]
      /\ call \in [Txs -> {"idle", "sent", "ok"}] /\ row \in [Txs -> {"none", "pending", "mined"}]
      /\ refreshing \in Seq(SUBSET Txs) /\ down \in Seq(Commands) /\ up \in Seq(Messages)
      /\ faults \in Nat
  BY DEF IInv, Typed
<1>e. down \in Seq(Commands) /\ up \in Seq(Messages)
  BY DEF IInv, Typed
<1>c. Ttl \in Nat /\ WaitTime \in Nat /\ 0 < WaitTime /\ WaitTime < Ttl
  BY LockWatchAssumption
<1>d. ~Running => up = <<>> /\ faults # 0
  BY DEF IInv, ChildTrue, Running
<1>1. ASSUME SendRefresh, Allowed("bare fork", ~Running) PROVE WatchInv'
  <2> DEFINE m == [type |-> "replace", txs |-> Swept(Head(refreshing))]
  <2>1. /\ refreshing # <<>> /\ refreshing' = Tail(refreshing) /\ Post(<<m>>)
        /\ UNCHANGED <<armed, waiter, call, row, marked, watched, up, faults>>
    BY <1>1 DEF SendRefresh, store
  <2>2. Head(refreshing) \in SUBSET Txs /\ Unlocked \in SUBSET Txs
    BY <1>b, <2>1 DEF Unlocked
  <2>3. m \in Commands /\ m.type = "replace" /\ m.txs = Head(refreshing) \union Unlocked
    BY <2>2 DEF Commands, Swept
  <2> HIDE DEF m
  <2>4. <<m>> \in Seq(Commands) /\ DOMAIN <<m>> = {1} /\ <<m>>[1] = m
    BY <2>3
  <2>5. ForkListens'
    BY <1>1, <1>a, <2>1, <2>4, ListenStays DEF Calm, Allowed
  <2>6. ASSUME NEW t \in Txs PROVE WatchTrue(t)'
    <3> SUFFICES ASSUME faults' = 0, Wanted(t)', ~Reported(t)'
                 PROVE (refreshing' = <<>> /\ WillWatch(t)') \/ Decided(t)'
      BY DEF WatchTrue
    <3>1. Decided(t)
      <4>1. faults = 0 /\ Wanted(t) /\ ~Reported(t)
        BY <2>1 DEF Wanted, Reported, Armed, Unlocked
      <4> QED
        BY <1>a, <2>1, <4>1 DEF WatchTrue
    <3>2. CASE Tail(refreshing) = <<>>
      <4>1. refreshing[Len(refreshing)] = Head(refreshing)
        BY <1>b, <2>1, <3>2, LastOnes
      <4>2. t \in m.txs
        BY <2>3, <3>1, <4>1 DEF Decided
      <4>3. WillWatch(t)'
        BY <2>1, <2>3, <2>4, <4>2, WatchNamed DEF Post
      <4> QED
        BY <2>1, <3>2, <4>3
    <3>3. CASE Tail(refreshing) # <<>>
      <4>1. Tail(refreshing)[Len(Tail(refreshing))] = refreshing[Len(refreshing)]
        BY <1>b, <2>1, <3>3, LastOnes
      <4> QED
        BY <2>1, <3>1, <3>3, <4>1 DEF Decided, Unlocked
    <3> QED
      BY <3>2, <3>3
  <2> QED
    BY <1>a, <2>1, <2>5, <2>6 DEF WatchInv, LocksRecorded, WaitTrue, ArmTrue
<1>2. ASSUME Tick PROVE WatchInv'
  <2> DEFINE now == [t \in Txs |-> IF armed[t] < Ttl THEN armed[t] + 1 ELSE armed[t]]
  <2>1. /\ Refresh(now) /\ \A t \in Txs : waiter[t] # 0 /\ call[t] = "idle"
        /\ waiter' = [t \in Txs |-> IF waiter[t] = Idle THEN Idle ELSE waiter[t] - 1]
        /\ UNCHANGED <<call, row, marked, child, down, up, faults>>
    BY <1>2 DEF Tick, Quiet, store, proc
  <2>2. now \in [Txs -> 0..NotArmed]
    BY <1>b, <1>c DEF NotArmed
  <2>3. ASSUME NEW t \in Txs PROVE WaitTrue(t)'
    <3> SUFFICES ASSUME waiter'[t] # Idle PROVE armed'[t] + waiter'[t] <= WaitTime
      BY DEF WaitTrue
    <3>1. waiter[t] # Idle /\ waiter'[t] = waiter[t] - 1 /\ waiter[t] \in Nat /\ waiter[t] > 0
      BY <1>b, <1>c, <2>1 DEF Idle
    <3>2. armed[t] + waiter[t] <= WaitTime /\ armed[t] \in Nat
      BY <1>a, <1>b, <1>c, <3>1 DEF WaitTrue, NotArmed
    <3>3. now[t] = armed[t] + 1 /\ now[t] < Ttl
      BY <1>c, <3>1, <3>2
    <3> HIDE DEF now
    <3>4. armed'[t] = now[t] \/ now[t] >= Ttl
      BY <1>b, <2>1, <2>2, Refreshed
    <3>5. armed'[t] = now[t]
      BY <1>c, <3>2, <3>3, <3>4
    <3> QED
      BY <1>c, <3>1, <3>2, <3>3, <3>5
  <2> HIDE DEF now
  <2>4. ASSUME NEW t \in Txs PROVE WatchTrue(t)'
    <3> SUFFICES ASSUME faults' = 0, Wanted(t)' PROVE Decided(t)'
      BY DEF WatchTrue
    <3> QED
      BY <1>d, <2>1, <2>2, RefreshCovers
  <2>5. \A t \in Txs : ArmTrue(t)'
    BY <2>1 DEF ArmTrue
  <2> QED
    BY <1>a, <2>1, <2>3, <2>4, <2>5 DEF WatchInv, ForkListens, LocksRecorded
<1>3. ASSUME TakeReport PROVE WatchInv'
  <2> DEFINE report == Head(up)
             t == report.tx
             lock == report.type = "lock" \/ report.lock
  <2>1. /\ up # <<>> /\ up' = Tail(up)
        /\ UNCHANGED <<row, child, watched, down, faults>>
    BY <1>3 DEF TakeReport, proc
  <2>2. /\ DOMAIN up' \subseteq Nat /\ report = up[1] /\ 1 \in DOMAIN up
        /\ report \in Messages
        /\ \A n \in DOMAIN up' : n + 1 \in DOMAIN up /\ up'[n] = up[n + 1]
        /\ \A n \in DOMAIN up : n = 1 \/ (n - 1 \in DOMAIN up' /\ up'[n - 1] = up[n])
    BY <1>b, <2>1
  <2>3. t \in Txs /\ (report.type = "lock" \/ report.type = "result")
    BY <2>2 DEF Messages
  <2>4. lock => row[t] # "none"
    BY <1>a, <2>2 DEF LocksRecorded, IsLock
  <2>5. /\ \A u \in Txs : (u # t => call'[u] = call[u]) /\ (call'[u] # "idle" => call[u] # "idle")
        /\ IF lock THEN RecordInstantLock(t) ELSE UNCHANGED <<cache, armed, refreshing, waiter>>
        /\ marked' = IF report.type = "lock" /\ row[t] # "none" THEN marked \union {t} ELSE marked
    <3> HIDE DEF report
    <3>1. CASE report.type = "lock"
      BY <1>3, <3>1 DEF TakeReport, report
    <3>2. CASE report.type = "result"
      <4>1. call' = [call EXCEPT ![t] = IF @ # "sent" THEN @ ELSE IF report.ok THEN "ok" ELSE "idle"]
        BY <1>3, <3>2 DEF TakeReport, report
      <4>2. /\ IF report.lock THEN RecordInstantLock(t) ELSE UNCHANGED <<cache, armed, refreshing, waiter>>
            /\ marked' = marked
        BY <1>3, <3>2 DEF TakeReport, report
      <4> QED
        BY <1>b, <2>3, <3>2, <4>1, <4>2
    <3> QED
      BY <2>3, <3>1, <3>2
  <2> HIDE DEF report, t, lock
  <2> DEFINE now == [armed EXCEPT ![t] = NotArmed]
  <2>6. now \in [Txs -> 0..NotArmed]
    <3>1. NotArmed \in 0..NotArmed
      BY <1>c DEF NotArmed
    <3> QED
      BY <1>b, <3>1
  <2>7. \/ UNCHANGED <<armed, refreshing>> /\ (lock => t \notin Armed)
        \/ lock /\ Refresh(now)
    BY <2>5 DEF RecordInstantLock
  <2>8. waiter' = waiter \/ (lock /\ waiter' = Woken(t))
    BY <2>5 DEF RecordInstantLock
  <2>9. ASSUME NEW u \in Txs
        PROVE /\ armed'[u] = armed[u] \/ (armed[u] >= Ttl /\ armed'[u] = NotArmed) \/ (lock /\ u = t)
              /\ lock => armed'[t] = NotArmed
    <3>1. CASE UNCHANGED <<armed, refreshing>> /\ (lock => t \notin Armed)
      BY <2>3, <3>1 DEF Armed
    <3>2. CASE lock /\ Refresh(now)
      <4>1. now[t] = NotArmed /\ (u # t => now[u] = armed[u])
        BY <1>b, <2>3
      <4>2. \A v \in Txs : armed'[v] = now[v] \/ (now[v] >= Ttl /\ armed'[v] = NotArmed)
        BY <1>b, <2>6, <3>2, Refreshed
      <4> QED
        BY <2>3, <3>2, <4>1, <4>2
    <3> QED
      BY <2>7, <3>1, <3>2
  <2>10. ForkListens' /\ LocksRecorded'
    BY <1>a, <2>1, <2>2 DEF ForkListens, LocksRecorded
  <2>11. ASSUME NEW u \in Txs PROVE WaitTrue(u)'
    <3> SUFFICES ASSUME waiter'[u] # Idle PROVE armed'[u] + waiter'[u] <= WaitTime
      BY DEF WaitTrue
    <3>1. waiter'[u] = waiter[u] /\ ~(lock /\ u = t)
      BY <1>b, <2>3, <2>5, <2>8 DEF Woken, RecordInstantLock
    <3>2. armed[u] + waiter[u] <= WaitTime /\ armed[u] \in Nat /\ waiter[u] \in Nat
      BY <1>a, <1>b, <1>c, <3>1 DEF WaitTrue, NotArmed, Idle
    <3>3. armed'[u] = armed[u]
      BY <1>c, <2>9, <3>1, <3>2
    <3> QED
      BY <3>1, <3>2, <3>3
  <2>12. ASSUME NEW u \in Txs PROVE ArmTrue(u)'
    <3> SUFFICES ASSUME call'[u] # "idle", row'[u] = "none" PROVE armed'[u] = 0
      BY DEF ArmTrue
    <3>1. armed[u] = 0 /\ ~(lock /\ u = t)
      BY <1>a, <2>1, <2>4, <2>5 DEF ArmTrue
    <3> QED
      BY <1>c, <2>9, <3>1
  <2>13. ASSUME NEW u \in Txs PROVE WatchTrue(u)'
    <3> SUFFICES ASSUME faults' = 0, Wanted(u)'
                 PROVE Reported(u)' \/ (refreshing' = <<>> /\ WillWatch(u)') \/ Decided(u)'
      BY DEF WatchTrue
    <3>1. faults = 0 /\ Running
      BY <1>d, <2>1
    <3>2. u \in Unlocked' => u \in Unlocked
      BY <2>1, <2>5 DEF Unlocked
    <3>3. u \in Armed' => u \in Armed
      BY <2>9, <2>3, <1>c DEF Armed
    <3>4. Wanted(u)
      BY <2>1, <3>2, <3>3 DEF Wanted
    <3>5. CASE Reported(u)
      <4>1. PICK n \in DOMAIN up : up[n].type = "lock" /\ up[n].tx = u
        BY <3>5 DEF Reported
      <4>2. CASE n = 1
        <5>1. u = t /\ lock /\ report.type = "lock"
          BY <2>2, <4>1, <4>2 DEF t, lock
        <5>2. u \in marked' /\ u \notin Armed'
          BY <2>4, <2>5, <2>9, <5>1 DEF Armed
        <5> QED
          BY <5>2 DEF Wanted, Unlocked
      <4>3. CASE n # 1
        BY <2>2, <4>1, <4>3 DEF Reported
      <4> QED
        BY <4>2, <4>3
    <3>6. CASE ~Reported(u)
      <4>1. CASE UNCHANGED <<armed, refreshing>> /\ (lock => t \notin Armed)
        <5>1. (refreshing = <<>> /\ WillWatch(u)) \/ Decided(u)
          BY <1>a, <3>1, <3>4, <3>6 DEF WatchTrue
        <5>2. WillWatch(u) => WillWatch(u)'
          BY <2>1 DEF WillWatch, Names, Spares
        <5>3. u \in Unlocked => u \in Unlocked' \/ (u = t /\ lock)
          BY <2>1, <2>5 DEF Unlocked, lock
        <5>4. u = t /\ lock => u \in Unlocked'
          BY <2>9 DEF Wanted, Armed
        <5> QED
          BY <4>1, <5>1, <5>2, <5>3, <5>4 DEF Decided
      <4>2. CASE lock /\ Refresh(now)
        BY <2>6, <3>1, <4>2, RefreshCovers
      <4> QED
        BY <2>7, <4>1, <4>2
    <3> QED
      BY <3>5, <3>6
  <2> QED
    BY <2>10, <2>11, <2>12, <2>13 DEF WatchInv
<1>4. ASSUME TakeCommand PROVE WatchInv'
  <2>1. /\ down # <<>> /\ down' = Tail(down)
        /\ UNCHANGED <<armed, waiter, refreshing, call, row, marked, faults>>
    BY <1>4 DEF TakeCommand, main, store
  <2>2. \E rs \in Seq(Messages) : up' = up \o rs /\ \A n \in DOMAIN rs : ~IsLock(rs[n])
    <3>1. CASE up' = up \o SetToSeq({Result(t, FALSE, FALSE) : t \in sessions})
      <4>1. sessions \in SUBSET Txs
        BY DEF IInv, Typed
      <4> QED
        BY <3>1, <4>1, Results
    <3>2. CASE up' = up
      <4>1. up' = up \o <<>> /\ <<>> \in Seq(Messages)
        BY <1>b, <3>2, EmptySeq, ConcatEmptySeq
      <4>2. \A n \in DOMAIN <<>> : ~IsLock(<<>>[n])
        OBVIOUS
      <4> QED
        BY <4>1, <4>2
    <3>3. CASE Head(down).type = "broadcast" /\ up' = Append(up, Result(Head(down).tx, FALSE, FALSE))
      <4> DEFINE r == Result(Head(down).tx, FALSE, FALSE)
      <4>1. Head(down) \in Commands
        BY <1>b, <2>1
      <4>2. Head(down).tx \in Txs
        BY <3>3, <4>1 DEF Commands
      <4>3. r \in Messages
        BY <4>2, ResultTyped
      <4>4. ~IsLock(r)
        BY DEF IsLock, Result
      <4> HIDE DEF r
      <4>5. up' = up \o <<r>> /\ <<r>> \in Seq(Messages)
        <5>1. up' = Append(up, r)
          BY <3>3 DEF r
        <5> QED
          BY <1>e, <4>3, <5>1, OneMore
      <4>6. DOMAIN <<r>> = {1} /\ <<r>>[1] = r
        BY <1>e, <4>3, OneMore
      <4> QED
        BY <4>4, <4>5, <4>6
    <3> QED
      BY <1>4, <3>1, <3>2, <3>3 DEF TakeCommand
  <2>3. LocksRecorded' /\ \A t \in Txs : Reported(t) => Reported(t)'
    BY <1>a, <2>1, <2>2, RecordedStays, ReportStays
  <2>4. ForkListens'
    <3> SUFFICES ASSUME child' = "bare" PROVE \E n \in DOMAIN down' : down'[n].type = "listen"
      BY DEF ForkListens
    <3>1. child = "bare" /\ Head(down).type # "listen"
      BY <1>4 DEF TakeCommand
    <3>2. PICK n \in DOMAIN down : down[n].type = "listen"
      BY <1>a, <3>1 DEF ForkListens
    <3>3. n # 1 /\ n - 1 \in DOMAIN down' /\ down'[n - 1] = down[n]
      BY <1>b, <2>1, <3>1, <3>2
    <3> QED
      BY <3>2, <3>3
  <2>5. ASSUME NEW t \in Txs PROVE WatchTrue(t)'
    <3>1. faults = 0 /\ WillWatch(t) => WillWatch(t)'
      BY <1>4, WatchTaken
    <3>2. Wanted(t)' => Wanted(t) /\ (t \in Unlocked => t \in Unlocked')
      BY <2>1 DEF Wanted, Armed, Unlocked
    <3> QED
      BY <1>a, <2>1, <2>3, <3>1, <3>2, WatchKept
  <2> QED
    BY <1>a, <2>1, <2>3, <2>4, <2>5 DEF WatchInv, WaitTrue, ArmTrue
<1>5. ASSUME ChildExits PROVE WatchInv'
  <2>1. /\ child' = "none" /\ up' = <<>> /\ faults' = faults + 1 /\ call' = Rejected
        /\ UNCHANGED <<armed, waiter, row>>
    BY <1>5 DEF ChildExits, store
  <2>2. \A t \in Txs : call'[t] # "idle" => call[t] # "idle"
    BY <2>1 DEF Rejected
  <2> QED
    BY <1>a, <1>b, <2>1, <2>2 DEF WatchInv, ForkListens, LocksRecorded, WaitTrue, ArmTrue, WatchTrue
<1>6. ASSUME Reload PROVE WatchInv'
  <2>1. /\ Running /\ Post(<<Listen(TRUE)>>) /\ faults' = faults + 1
        /\ UNCHANGED <<armed, waiter, call, row, up>>
    BY <1>6 DEF Reload, main, store
  <2>2. <<Listen(TRUE)>> \in Seq(Commands)
    <3>1. Listen(TRUE) \in Commands
      BY DEF Listen, Commands
    <3> QED
      BY <1>b, <3>1, OneMore
  <2>3. ForkListens'
    BY <1>a, <2>1, <2>2, ListenStays
  <2> QED
    BY <1>a, <1>b, <2>1, <2>3 DEF WatchInv, LocksRecorded, WaitTrue, ArmTrue, WatchTrue
<1>7. ASSUME NEW t \in Txs, Incoming(t), Allowed("arm while a refresh reads", refreshing # <<>>)
      PROVE WatchInv'
  <2>1. /\ row' = [row EXCEPT ![t] = "pending"] /\ armed' = [armed EXCEPT ![t] = 0] /\ Post(<<Add(t)>>)
        /\ child = "listening" /\ refreshing = <<>>
        /\ UNCHANGED <<waiter, refreshing, call, marked, watched, up, faults>>
    BY <1>7 DEF Incoming, Calm, Allowed
  <2>2. <<Add(t)>> \in Seq(Commands) /\ DOMAIN <<Add(t)>> = {1} /\ <<Add(t)>>[1] = Add(t)
    <3>1. Add(t) \in Commands
      BY DEF Add, Commands
    <3> QED
      BY <3>1
  <2>3. ForkListens'
    BY <1>a, <2>1, <2>2, ListenStays DEF Running
  <2>4. \A u \in Txs : WatchTrue(u)'
    <3>1. Add(t).type = "add" /\ t \in Add(t).txs
      BY DEF Add
    <3>2. \A u \in Txs : u # t => row'[u] = row[u]
      BY <1>b, <2>1
    <3> QED
      BY <2>1, <2>2, <3>1, <3>2, ArmingWatches
  <2>5. LocksRecorded'
    BY <1>a, <1>b, <2>1 DEF LocksRecorded
  <2>6. ASSUME NEW u \in Txs PROVE WaitTrue(u)' /\ ArmTrue(u)'
    <3>1. WaitTrue(u)' /\ (u # t => armed'[u] = armed[u] /\ row'[u] = row[u]) /\ row'[t] # "none"
      BY <1>b, <2>1, ArmedAnew
    <3> QED
      BY <1>a, <2>1, <3>1 DEF ArmTrue
  <2> QED
    BY <2>3, <2>4, <2>5, <2>6 DEF WatchInv
<1>8. ASSUME NEW t \in Txs, Wait(t), Allowed("arm while a refresh reads", refreshing # <<>>),
             Allowed("late waiter", armed[t] \in 1..Ttl), Allowed("waiter without a child", ~Running)
      PROVE WatchInv'
  <2>1. /\ waiter' = [waiter EXCEPT ![t] = WaitTime] /\ row[t] # "none"
        /\ Running /\ refreshing = <<>> /\ armed[t] \notin 1..Ttl
        /\ UNCHANGED <<refreshing, call, row, marked, watched, up, faults>>
    BY <1>8 DEF Wait, Calm, Allowed, store
  <2>2. CASE t \notin Armed
    <3>1. armed' = [armed EXCEPT ![t] = 0] /\ Post(<<Add(t)>>)
      BY <1>8, <2>1, <2>2 DEF Wait
    <3>2. <<Add(t)>> \in Seq(Commands) /\ DOMAIN <<Add(t)>> = {1} /\ <<Add(t)>>[1] = Add(t)
      <4>1. Add(t) \in Commands
        BY DEF Add, Commands
      <4> QED
        BY <4>1
    <3>3. ForkListens'
      BY <1>a, <2>1, <3>1, <3>2, ListenStays
    <3>4. \A u \in Txs : WatchTrue(u)'
      <4>1. Add(t).type = "add" /\ t \in Add(t).txs
        BY DEF Add
      <4> QED
        BY <2>1, <3>1, <3>2, <4>1, ArmingWatches
    <3>5. ASSUME NEW u \in Txs PROVE WaitTrue(u)' /\ ArmTrue(u)'
      <4>1. WaitTrue(u)' /\ (u # t => armed'[u] = armed[u])
        BY <2>1, <3>1, ArmedAnew
      <4> QED
        BY <1>a, <2>1, <4>1 DEF ArmTrue
    <3> QED
      BY <1>a, <2>1, <3>3, <3>4, <3>5 DEF WatchInv, LocksRecorded
  <2>3. CASE t \in Armed
    <3>1. UNCHANGED <<armed, down, child>>
      BY <1>8, <2>3 DEF Wait
    <3>2. armed[t] = 0
      <4>1. armed[t] \in 0..Ttl + 1 /\ armed[t] \notin 1..Ttl /\ armed[t] # Ttl + 1
        BY <1>b, <2>1, <2>3 DEF Armed, NotArmed
      <4> QED
        BY <1>c, <4>1
    <3>3. ASSUME NEW u \in Txs PROVE WaitTrue(u)'
      BY <1>a, <1>b, <1>c, <2>1, <3>1, <3>2 DEF WaitTrue
    <3>4. ASSUME NEW u \in Txs PROVE WatchTrue(u)' /\ ArmTrue(u)'
      BY <1>a, <2>1, <3>1 DEF WatchTrue, Decided, Wanted, Reported, WillWatch, Names, Spares, Armed,
                              Unlocked, ArmTrue
    <3> QED
      BY <1>a, <2>1, <3>1, <3>3, <3>4 DEF WatchInv, ForkListens, LocksRecorded
  <2> QED
    BY <2>2, <2>3
<1>9. ASSUME NEW t \in Txs, Call(t), Allowed("arm while a refresh reads", refreshing # <<>>)
      PROVE WatchInv'
  <2> DEFINE ms == Relisten \o <<Add(t), Broadcast(t)>>
  <2>1. /\ armed' = [armed EXCEPT ![t] = 0] /\ call' = [call EXCEPT ![t] = "sent"]
        /\ Post(ms) /\ refreshing = <<>>
        /\ UNCHANGED <<waiter, refreshing, row, marked, watched, up, faults>>
    BY <1>9 DEF Call, Calm, Allowed, store
  <2>2. /\ ms \in {<<Listen(FALSE), Add(t), Broadcast(t)>>, <<Add(t), Broadcast(t)>>}
        /\ ~Running => ms = <<Listen(FALSE), Add(t), Broadcast(t)>>
    BY InFront DEF Relisten
  <2> HIDE DEF ms
  <2>3. ms \in Seq(Commands)
    BY <2>2, SentCommands
  <2>4. PICK k \in DOMAIN ms :
          /\ ms[k].type = "add" /\ t \in ms[k].txs
          /\ \A n \in DOMAIN ms : ms[n].type # "replace"
    BY <2>2, SentNames
  <2>5. ForkListens'
    <3>1. ~Running => 1 \in DOMAIN ms /\ ms[1].type = "listen"
      BY <2>2 DEF Listen
    <3> QED
      BY <1>a, <2>1, <2>3, <3>1, ListenStays
  <2>6. \A u \in Txs : WatchTrue(u)'
    BY <2>1, <2>3, <2>4, ArmingWatches
  <2>7. ASSUME NEW u \in Txs PROVE WaitTrue(u)' /\ ArmTrue(u)'
    <3>1. /\ WaitTrue(u)' /\ (u # t => armed'[u] = armed[u] /\ call'[u] = call[u])
          /\ armed'[t] = 0
      BY <1>b, <2>1, ArmedAnew
    <3> QED
      BY <1>a, <2>1, <3>1 DEF ArmTrue
  <2> QED
    BY <1>a, <2>1, <2>5, <2>6, <2>7 DEF WatchInv, LocksRecorded
<1>10. ASSUME NEW t \in Txs, Rebroadcast(t) PROVE WatchInv'
  <2>1. /\ Running /\ t \in Unlocked /\ refreshing' = <<Fresh(armed)>>
        /\ armed' = [Purged(armed) EXCEPT ![t] = 0] /\ Post(<<Add(t), Broadcast(t)>>)
        /\ call' = [call EXCEPT ![t] = "sent"]
        /\ UNCHANGED <<waiter, row, marked, watched, up, faults>>
    BY <1>10 DEF Rebroadcast, store
  <2>2. ForkListens'
    BY <1>a, <2>1, SentCommands, ListenStays
  <2>3. ASSUME NEW u \in Txs PROVE armed'[u] = 0 \/ armed'[u] = Purged(armed)[u]
    BY <2>1 DEF Purged
  <2>4. armed'[t] = 0
    BY <2>1 DEF Purged
  <2>5. ASSUME NEW u \in Txs PROVE WatchTrue(u)'
    <3> SUFFICES ASSUME Wanted(u)' PROVE Decided(u)'
      BY DEF WatchTrue
    <3>1. refreshing' # <<>> /\ refreshing'[Len(refreshing')] = Fresh(armed)
      BY <2>1
    <3>2. Unlocked' = Unlocked
      BY <2>1 DEF Unlocked
    <3>3. u \in Armed' /\ u # t => u \in Fresh(armed)
      BY <2>1 DEF Armed, Purged, Fresh
    <3> QED
      BY <2>1, <3>1, <3>2, <3>3 DEF Wanted, Decided
  <2>6. ASSUME NEW u \in Txs PROVE WaitTrue(u)'
    <3> SUFFICES ASSUME waiter[u] # Idle PROVE armed'[u] + waiter[u] <= WaitTime
      BY <2>1 DEF WaitTrue
    <3>1. armed[u] + waiter[u] <= WaitTime /\ armed[u] \in Nat /\ waiter[u] \in Nat
      BY <1>a, <1>b, <1>c DEF WaitTrue, NotArmed, Idle
    <3>2. Purged(armed)[u] = armed[u]
      BY <1>c, <3>1 DEF Purged
    <3> QED
      BY <1>c, <2>3, <3>1, <3>2
  <2>7. ASSUME NEW u \in Txs PROVE ArmTrue(u)'
    <3> SUFFICES ASSUME call'[u] # "idle", row[u] = "none" PROVE armed'[u] = 0
      BY <2>1 DEF ArmTrue
    <3>1. CASE u = t
      BY <2>4, <3>1
    <3>2. CASE u # t
      <4>1. call[u] # "idle"
        BY <1>b, <2>1, <3>2
      <4>2. armed[u] = 0
        BY <1>a, <4>1 DEF ArmTrue
      <4> QED
        BY <1>c, <2>3, <4>2 DEF Purged
    <3> QED
      BY <3>1, <3>2
  <2> QED
    BY <1>a, <2>1, <2>2, <2>5, <2>6, <2>7 DEF WatchInv, LocksRecorded
<1>11. ASSUME NEW t \in Txs, Record(t) PROVE WatchInv'
  <2>1. /\ call[t] = "ok" /\ call' = [call EXCEPT ![t] = "idle"]
        /\ row' = [row EXCEPT ![t] = IF @ = "none" THEN "pending" ELSE @]
        /\ UNCHANGED <<armed, waiter, refreshing, marked, child, watched, down, up, faults>>
    BY <1>11 DEF Record, proc
  <2>2. /\ \A u \in Txs : row'[u] = row[u] \/ (u = t /\ row[u] = "none" /\ row'[u] = "pending")
        /\ \A u \in Txs : call'[u] # "idle" => call[u] # "idle"
    BY <1>b, <2>1
  <2>3. ASSUME NEW u \in Txs PROVE WatchTrue(u)'
    <3>1. Wanted(u)' => Wanted(u)
      <4>1. CASE row'[u] = row[u]
        BY <2>1, <4>1 DEF Wanted, Armed, Unlocked
      <4>2. CASE u = t /\ row[u] = "none"
        <5>1. armed[u] = 0
          BY <1>a, <2>1, <4>2 DEF ArmTrue
        <5> QED
          BY <1>c, <4>2, <5>1 DEF Wanted, Armed, NotArmed
      <4> QED
        BY <2>2, <4>1, <4>2
    <3>2. u \in Unlocked => u \in Unlocked'
      BY <2>1, <2>2 DEF Unlocked
    <3>3. (Reported(u) => Reported(u)') /\ (WillWatch(u) => WillWatch(u)')
      BY <2>1 DEF Reported, WillWatch, Names, Spares
    <3> QED
      BY <1>a, <2>1, <3>1, <3>2, <3>3, WatchKept
  <2>4. \A u \in Txs : WaitTrue(u)' /\ ArmTrue(u)'
    BY <1>a, <2>1, <2>2 DEF WaitTrue, ArmTrue
  <2>5. LocksRecorded'
    <3> SUFFICES ASSUME NEW n \in DOMAIN up, IsLock(up[n]) PROVE row'[up[n].tx] # "none"
      BY <2>1 DEF LocksRecorded
    <3> QED
      BY <1>a, <1>b, <2>1 DEF LocksRecorded
  <2> QED
    BY <1>a, <2>1, <2>3, <2>4, <2>5 DEF WatchInv, ForkListens
<1>12. ASSUME NEW t \in Txs, WaitOver(t) PROVE WatchInv'
  <2>1. /\ waiter' = [waiter EXCEPT ![t] = Idle]
        /\ UNCHANGED <<armed, refreshing, call, row, marked, child, watched, down, up, faults>>
    BY <1>12 DEF WaitOver, store, proc
  <2>2. \A u \in Txs : WaitTrue(u)'
    BY <1>a, <1>b, <2>1 DEF WaitTrue
  <2> QED
    BY <1>a, <2>1, <2>2 DEF WatchInv, ForkListens, LocksRecorded, ArmTrue, WatchTrue, Decided, Wanted,
       Reported, WillWatch, Names, Spares, Armed, Unlocked
<1>13. ASSUME NEW t \in Txs, NEW ok \in BOOLEAN, Settles(t, ok) PROVE WatchInv'
  <2> DEFINE r == Result(t, ok, FALSE)
  <2>1. /\ up' = Append(up, r)
        /\ UNCHANGED <<armed, waiter, refreshing, call, row, marked, child, watched, down, faults>>
    BY <1>13 DEF Settles, main, store
  <2>2. r \in Messages
    BY ResultTyped
  <2>3. ~IsLock(r)
    BY DEF Result, IsLock
  <2> HIDE DEF r
  <2>4. up' = up \o <<r>> /\ <<r>> \in Seq(Messages) /\ DOMAIN <<r>> = {1} /\ <<r>>[1] = r
    BY <1>b, <2>1, <2>2, OneMore
  <2>5. LocksRecorded' /\ \A u \in Txs : Reported(u) => Reported(u)'
    BY <1>a, <2>1, <2>3, <2>4, RecordedStays, ReportStays
  <2>6. ASSUME NEW u \in Txs PROVE WatchTrue(u)'
    <3>1. Wanted(u)' => Wanted(u) /\ (u \in Unlocked => u \in Unlocked')
      BY <2>1 DEF Wanted, Armed, Unlocked
    <3>2. WillWatch(u) => WillWatch(u)'
      BY <2>1 DEF WillWatch, Names, Spares
    <3> QED
      BY <1>a, <2>1, <2>5, <3>1, <3>2, WatchKept
  <2> QED
    BY <1>a, <2>1, <2>5, <2>6 DEF WatchInv, ForkListens, WaitTrue, ArmTrue
<1>14. ASSUME NEW t \in Txs, LockAnnounced(t) \/ Lock(t) PROVE WatchInv'
  <2>1. UNCHANGED <<armed, waiter, refreshing, call, row, marked, child, watched, down, up, faults>>
    BY <1>14 DEF LockAnnounced, Lock, main, store, proc
  <2> QED
    BY <2>1, WatchUnmoved
<1>15. ASSUME NEW t \in Txs, Mine(t) PROVE WatchInv'
  <2>1. /\ row' = [row EXCEPT ![t] = "mined"]
        /\ UNCHANGED <<armed, waiter, refreshing, call, marked, child, watched, down, up, faults>>
    BY <1>15 DEF Mine, main, proc
  <2>2. \A u \in Txs : (u # t => row'[u] = row[u]) /\ (row'[u] = "none" => row[u] = "none")
    BY <1>b, <2>1
  <2>3. ASSUME NEW u \in Txs PROVE WatchTrue(u)'
    <3>1. Wanted(u)' => Wanted(u) /\ (u \in Unlocked => u \in Unlocked')
      BY <1>b, <2>1, <2>2 DEF Wanted, Armed, Unlocked
    <3>2. (Reported(u) => Reported(u)') /\ (WillWatch(u) => WillWatch(u)')
      BY <2>1 DEF Reported, WillWatch, Names, Spares
    <3> QED
      BY <1>a, <2>1, <3>1, <3>2, WatchKept
  <2>4. LocksRecorded'
    <3> SUFFICES ASSUME NEW n \in DOMAIN up, IsLock(up[n]) PROVE row'[up[n].tx] # "none"
      BY <2>1 DEF LocksRecorded
    <3> QED
      BY <1>a, <1>b, <2>1 DEF LocksRecorded
  <2> QED
    BY <1>a, <2>1, <2>2, <2>3, <2>4 DEF WatchInv, ForkListens, WaitTrue, ArmTrue
<1>16. ASSUME NEW t \in Txs, LockArrives(t), Allowed("lock before the record", row[t] = "none")
       PROVE WatchInv'
  <2> DEFINE news == (IF t \in watched THEN <<[type |-> "lock", tx |-> t]>> ELSE <<>>)
             results == (IF t \in sessions THEN <<Result(t, TRUE, TRUE)>> ELSE <<>>)
  <2>1. /\ watched' = watched \ {t} /\ up' = up \o news \o results /\ row[t] # "none"
        /\ UNCHANGED <<armed, waiter, refreshing, call, row, marked, child, down, faults>>
    BY <1>16 DEF LockArrives, main, store, Calm, Allowed
  <2>2. /\ news \in Seq(Messages) /\ \A n \in DOMAIN news : news[n].tx = t
        /\ t \in watched => 1 \in DOMAIN news /\ news[1].type = "lock" /\ news[1].tx = t
    <3>1. [type |-> "lock", tx |-> t] \in Messages
      BY DEF Messages
    <3> QED
      BY <3>1
  <2>3. results \in Seq(Messages) /\ \A n \in DOMAIN results : results[n].tx = t
    <3> DEFINE r == Result(t, TRUE, TRUE)
    <3>1. r \in Messages /\ r.tx = t
      BY ResultTyped DEF Result
    <3> HIDE DEF r
    <3>3. CASE t \in sessions
      <4>1. results = <<r>>
        BY <3>3 DEF r
      <4> HIDE DEF results
      <4>2. results \in Seq(Messages) /\ DOMAIN results = {1} /\ results[1] = r
        BY <3>1, <4>1
      <4> QED
        BY <3>1, <4>2
    <3>4. CASE t \notin sessions
      BY <3>4
    <3> QED
      BY <3>3, <3>4
  <2> HIDE DEF news, results
  <2>4. (up \o news) \in Seq(Messages)
    BY <1>b, <2>2
  <2>5. LocksRecorded'
    <3>1. \A n \in DOMAIN up : IsLock(up[n]) => row[up[n].tx] # "none"
      BY <1>a DEF LocksRecorded
    <3>2. \A n \in DOMAIN (up \o news) : IsLock((up \o news)[n]) => row[(up \o news)[n].tx] # "none"
      BY <1>e, <2>1, <2>2, <3>1, Concat
    <3> QED
      <4> SUFFICES ASSUME NEW n \in DOMAIN up', IsLock(up'[n]) PROVE row[up'[n].tx] # "none"
        BY <2>1 DEF LocksRecorded
      <4>1. CASE n \in DOMAIN (up \o news) /\ up'[n] = (up \o news)[n]
        BY <3>2, <4>1
      <4>2. CASE n - Len(up \o news) \in DOMAIN results /\ up'[n] = results[n - Len(up \o news)]
        BY <2>1, <2>3, <4>2
      <4> QED
        BY <2>1, <2>3, <2>4, <4>1, <4>2, Concat
  <2>6. ASSUME NEW u \in Txs PROVE (Reported(u) => Reported(u)') /\ (u = t /\ t \in watched => Reported(u)')
    <3>1. \A n \in DOMAIN up : n \in DOMAIN up' /\ up'[n] = up[n]
      BY <1>e, <2>1, <2>2, <2>3, <2>4, Concat
    <3>2. t \in watched => \E n \in DOMAIN up' : up'[n] = news[1]
      <4>1. ASSUME t \in watched PROVE 1 + Len(up) \in DOMAIN (up \o news) /\ (up \o news)[1 + Len(up)] = news[1]
        BY <1>e, <2>2, <4>1, Concat
      <4> QED
        BY <2>1, <2>3, <2>4, <4>1, Concat
    <3> QED
      BY <2>2, <3>1, <3>2 DEF Reported
  <2>7. ASSUME NEW u \in Txs PROVE WatchTrue(u)'
    <3>1. Wanted(u)' => Wanted(u) /\ (u \in Unlocked => u \in Unlocked')
      BY <2>1 DEF Wanted, Armed, Unlocked
    <3>2. WillWatch(u) => WillWatch(u)' \/ Reported(u)'
      <4>1. CASE u = t /\ t \in watched
        BY <2>6, <4>1
      <4>2. CASE ~(u = t /\ t \in watched)
        BY <2>1, <4>2 DEF WillWatch, Names, Spares
      <4> QED
        BY <4>1, <4>2
    <3> QED
      BY <1>a, <2>1, <2>6, <3>1, <3>2, WatchKept
  <2> QED
    BY <1>a, <2>1, <2>5, <2>7 DEF WatchInv, ForkListens, WaitTrue, ArmTrue
<1>17. CASE UNCHANGED vars
  <2>1. UNCHANGED <<armed, waiter, refreshing, call, row, marked, child, watched, down, up, faults>>
    BY <1>17 DEF vars, main, store, proc
  <2> QED
    BY <2>1, WatchUnmoved
<1> QED
  BY <1>1, <1>2, <1>3, <1>4, <1>5, <1>6, <1>7, <1>8, <1>9, <1>10, <1>11, <1>12, <1>13, <1>14, <1>15,
     <1>16, <1>17, LockWatchAssumption DEF Next

LEMMA InitWatch == Init => WatchInv
<1> SUFFICES ASSUME Init PROVE WatchInv
  OBVIOUS
<1>1. ForkListens /\ LocksRecorded
  BY DEF Init, ForkListens, LocksRecorded
<1>2. ASSUME NEW t \in Txs PROVE WaitTrue(t) /\ ArmTrue(t) /\ WatchTrue(t)
  BY <1>1 DEF Init, WaitTrue, ArmTrue, WatchTrue, Wanted, Armed, Unlocked
<1> QED
  BY <1>1, <1>2 DEF WatchInv

\* With nothing under way what is to be watched is.
LEMMA WatchIsSound == IInv /\ WatchInv => WatchSound
<1> SUFFICES ASSUME IInv, WatchInv PROVE WatchSound
  OBVIOUS
<1>1. TypeOK
  <2>1. \A t \in Txs : (t \in sessions => call[t] # "idle") /\ (call[t] = "sent" => Running)
    BY DEF IInv, CallTrue
  <2> QED
    BY <2>1 DEF IInv, Typed, ChildTrue, TypeOK
<1>2. ArmOutlivesWaiter
  BY LockWatchAssumption DEF WatchInv, WaitTrue, ArmOutlivesWaiter, Armed, NotArmed, IInv, Typed, Idle
<1>3. WatchedWhenQuiet
  <2> SUFFICES ASSUME faults = 0, down = <<>>, up = <<>>, refreshing = <<>>, NEW t \in Txs, Wanted(t)
               PROVE t \in watched
    BY DEF WatchedWhenQuiet, Wanted, Armed, Unlocked
  <2>1. ~Reported(t)
    BY DEF Reported
  <2>2. WillWatch(t)
    BY <2>1 DEF WatchInv, WatchTrue, Decided
  <2>3. PICK n \in 0..Len(down) : Names(n, t)
    BY <2>2 DEF WillWatch
  <2>4. n = 0
    BY <2>3
  <2> QED
    BY <2>3, <2>4 DEF Names
<1> QED
  BY <1>1, <1>2, <1>3 DEF WatchSound, IInv, WatchInv

\* Whoever waits for a lock is armed; with nothing under way, and until the child
\* or its pool is lost, the child watches whatever is armed and whatever SQL holds
\* as unconfirmed and not locked; and a child forked without a pool is about to be
\* given one (refreshWatchedTxids, waitForInstantLock, startLockListen).
THEOREM WatchIsKept == ASSUME Calm PROVE Spec => []WatchSound
<1>2. IInv /\ WatchInv /\ [Next]_vars => WatchInv'
  BY StepWatch
<1>3. IInv /\ WatchInv => WatchSound
  BY WatchIsSound
<1> QED
  BY InvariantHolds, InitWatch, <1>2, <1>3, PTL DEF Spec
=============================================================================
