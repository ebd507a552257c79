----------------------- MODULE ScanPersistence_proofs -----------------------
(***************************************************************************)
(* What TLAPS proves of ScanPersistence for every chain length, every set  *)
(* of owed heights and every number of retries: type correctness; that the *)
(* resume marker never steps over a block while no reorg and no discovery  *)
(* interfere, whatever fails, stops or crashes; that a reorg leaves no row *)
(* of an orphaned block; and that reorgs and discoveries, in whatever      *)
(* order their resets land, leave no hole once nothing is in flight.       *)
(***************************************************************************)
EXTENDS ScanPersistence, FiniteSetTheorems, SequenceTheorems, TLAPS

-----------------------------------------------------------------------------
(* The gate *)

\* A non-empty set of heights has a lowest one.
LEMMA HasMinimum ==
  ASSUME NEW n \in Nat, NEW S \in SUBSET (1..n), S # {}
  PROVE  \E m \in S : \A k \in S : m <= k
<1> DEFINE Below(h) == S \intersect (1..h)
           Family == {Below(h) : h \in S}
           R == StrictSubsetOrdering(1..n)
<1>1. IsFiniteSet(1..n)
  BY FS_Interval
<1>2. IsWellFoundedOn(R, FiniteSubsetsOf(1..n))
  BY FS_StrictSubsetOrderingWellFounded
<1>3. Family \subseteq FiniteSubsetsOf(1..n) /\ Family # {}
  <2>1. FiniteSubsetsOf(1..n) = SUBSET (1..n)
    BY <1>1, FS_FiniteSubsetsOfFinite
  <2>2. \A h \in S : Below(h) \in SUBSET (1..n)
    OBVIOUS
  <2>3. \E h \in S : Below(h) \in Family
    OBVIOUS
  <2>4. Family \subseteq SUBSET (1..n)
    BY <2>2, Zenon
  <2>5. Family # {}
    BY <2>3, Zenon
  <2> QED BY <2>1, <2>4, <2>5, Zenon
<1>4. PICK least \in Family : \A T \in Family : <<T, least>> \notin R
  <2> HIDE DEF Family, R
  <2> QED BY <1>2, <1>3, WFMin
<1>5. PICK m \in S : least = Below(m)
  BY <1>4
<1>6. ASSUME NEW k \in S, k < m PROVE FALSE
  <2>1. Below(k) \subseteq Below(m) /\ m \notin Below(k) /\ m \in Below(m)
    BY <1>6
  <2>2. Below(k) # Below(m)
    BY <2>1
  <2>3. <<Below(k), Below(m)>> \in R
    BY <2>1, <2>2 DEF StrictSubsetOrdering
  <2> QED BY <2>3, <1>4, <1>5
<1> QED BY <1>6

\* lowestFailed is one of the failed heights, and no other is below it.
LEMMA LowestFailedIsLowest ==
  ASSUME failed \subseteq Heights, failed # {}
  PROVE  LowestFailed \in failed /\ \A f \in failed : LowestFailed <= f
<1>1. \E h \in failed : \A f \in failed : h <= f
  BY HasMinimum, ConstantsAssumption DEF Heights
<1> QED BY <1>1, Zenon DEF LowestFailed

\* allowedHeight never answers past the request nor at a failed height or
\* above, and only requests inside the chain get an answer inside the chain.
LEMMA AllowedHeightBound ==
  ASSUME failed \subseteq Heights, NEW requested \in 0..Tip
  PROVE  /\ AllowedHeight(requested) \in 0..requested
         /\ \A f \in failed : AllowedHeight(requested) < f
<1>1. CASE failed = {}
  BY <1>1, ConstantsAssumption DEF AllowedHeight
<1>2. CASE failed # {}
  <2>1. LowestFailed \in failed /\ \A f \in failed : LowestFailed <= f
    BY <1>2, LowestFailedIsLowest
  <2>2. LowestFailed \in 1..Tip
    BY <2>1 DEF Heights
  <2> QED BY <1>2, <2>1, <2>2, ConstantsAssumption DEF AllowedHeight, Lesser, Heights
<1> QED BY <1>1, <1>2

\* A write whose cursor the gate lets through is below every failed height.
LEMMA AllowedBlockBelowFailed ==
  ASSUME failed \subseteq Heights, NEW h \in Heights, AllowsBlockCursor(h)
  PROVE  \A f \in failed : h < f
<1>1. CASE failed = {}
  BY <1>1
<1>2. CASE failed # {}
  <2>1. LowestFailed \in failed /\ \A f \in failed : LowestFailed <= f
    BY <1>2, LowestFailedIsLowest
  <2> QED BY <1>2, <2>1, ConstantsAssumption DEF AllowsBlockCursor, Heights
<1> QED BY <1>1, <1>2

-----------------------------------------------------------------------------
(* Type correctness *)

LEMMA InitType == Init => TypeOK
<1> SUFFICES ASSUME Init PROVE TypeOK
  OBVIOUS
<1> QED
  BY ConstantsAssumption, EmptySeq
  DEF Init, TypeOK, Branches, Heights, Genesis, NoRow, NotStarting

\* What a worker event leaves of the queue is a queue again.
LEMMA EmitType ==
  ASSUME TypeOK, NEW tasks \in Seq(Tasks), Emit(tasks)
  PROVE  persistQueue' \in Seq(Tasks)
BY ConcatProperties DEF TypeOK, Emit

LEMMA TaskType ==
  ASSUME TypeOK, NEW kind \in Kinds \ {"block"}, NEW h \in 0..Tip
  PROVE  Task(kind, h) \in Tasks
BY DEF TypeOK, Task, Tasks

LEMMA WorkerType ==
  ASSUME TypeOK, WorkerScan \/ WorkerSettle \/ \E f \in Forks : WorkerReorg(f)
  PROVE  TypeOK'
<1> USE ConstantsAssumption
<1>1. CASE WorkerScan
  <2>1. pos + 1 \in Heights
    BY <1>1 DEF WorkerScan, TypeOK, Heights
  <2>2. persistQueue' \in Seq(Tasks)
    <3> DEFINE t == [Task("block", pos + 1) EXCEPT !.branch = chain[pos + 1]]
    <3>1. t \in Tasks
      <4>1. chain[pos + 1] \in Branches /\ pos + 1 \in 0..Tip /\ "block" \in Kinds
        BY <2>1 DEF TypeOK, Heights, Kinds
      <4> QED BY <2>1, <4>1 DEF Task, Tasks
    <3>2. CASE pos + 1 \in watch
      <4>1. Emit(<<t>>)
        BY <1>1, <3>2 DEF WorkerScan
      <4>2. <<t>> \in Seq(Tasks)
        BY <3>1
      <4> HIDE DEF t
      <4> QED BY <4>1, <4>2, EmitType
    <3>3. CASE pos + 1 \notin watch
      BY <1>1, <3>3 DEF WorkerScan, TypeOK
    <3> QED BY <3>2, <3>3
  <2>3. pos' \in 0..Tip
    BY <1>1, <2>1 DEF WorkerScan, Heights
  <2> QED
    BY <1>1, <2>2, <2>3 DEF WorkerScan, TypeOK, chainVars, sqlVars, halts
<1>2. CASE WorkerSettle
  <2>1. persistQueue' \in Seq(Tasks)
    <3>1. Task("advance", pos) \in Tasks
      BY TaskType DEF TypeOK, Kinds
    <3>2. <<Task("advance", pos)>> \in Seq(Tasks)
      BY <3>1
    <3> QED BY <1>2, <3>2, EmitType DEF WorkerSettle
  <2> QED
    BY <1>2, <2>1 DEF WorkerSettle, TypeOK, chainVars, childVars, sqlVars, halts
<1>3. ASSUME NEW f \in Forks, WorkerReorg(f) PROVE TypeOK'
  <2>1. f \in 0..Tip
    BY DEF Heights
  <2>2. persistQueue' \in Seq(Tasks)
    <3>1. Task("reset", f) \in Tasks /\ Task("rewind", f) \in Tasks
      BY <2>1, TaskType DEF Kinds
    <3>2. <<Task("reset", f), Task("rewind", f)>> \in Seq(Tasks)
      BY <3>1
    <3> QED BY <1>3, <3>2, EmitType DEF WorkerReorg
  <2>3. reorgs' \in Branches /\ chain' \in [Heights -> Branches]
    BY <1>3 DEF WorkerReorg, TypeOK, Branches
  <2>4. pos' \in 0..Tip
    BY <1>3, <2>1 DEF WorkerReorg, TypeOK, Lesser
  <2> QED
    BY <1>3, <2>2, <2>3, <2>4 DEF WorkerReorg, TypeOK, sqlVars, halts
<1> QED BY <1>1, <1>2, <1>3

\* Every command the child receives leaves its state in its type.
LEMMA ChildType ==
  ASSUME TypeOK, ChildReceive
  PROVE  TypeOK'
<1> USE ConstantsAssumption
<1> DEFINE cmd == Head(commands)
<1>1. cmd \in Commands /\ commands' \in Seq(Commands)
  BY HeadTailProperties DEF TypeOK, ChildReceive
<1>2. SUFFICES /\ session' \in {"down", "scanning", "held"} /\ pos' \in 0..Tip
               /\ watch' \subseteq Heights /\ persistQueue' \in Seq(Tasks)
  BY <1>1 DEF ChildReceive, TypeOK, chainVars, sqlVars, halts
<1>3. cmd.watch \subseteq Heights /\ cmd.at \in {NoRow} \union 0..Tip
  BY <1>1 DEF Commands
<1> HIDE DEF cmd
<1>4. CASE ChildStart(cmd)
  BY <1>3, <1>4 DEF ChildStart, TypeOK, childVars, Greater, Genesis, NoRow
<1>5. CASE ChildStop(cmd)
  BY <1>5 DEF ChildStop, TypeOK
<1>6. CASE ChildWatch(cmd)
  <2> DEFINE target == Lesser(pos + 1, Greater(Genesis, cmd.at))
  <2>1. target \in 1..Tip
    BY <1>3 DEF TypeOK, Lesser, Greater, Genesis, NoRow
  <2>2. CASE session = "down" \/ cmd.watch \subseteq watch
    BY <1>6, <2>2 DEF ChildWatch, TypeOK, childVars
  <2>3. CASE ~(session = "down" \/ cmd.watch \subseteq watch)
    <3>1. /\ watch' = watch \union cmd.watch /\ pos' = target - 1
          /\ Emit(<<Task("reset", target)>>) /\ UNCHANGED session
      BY <1>6, <2>3 DEF ChildWatch
    <3>2. <<Task("reset", target)>> \in Seq(Tasks)
      <4>1. Task("reset", target) \in Tasks
        BY <2>1, TaskType DEF Kinds
      <4> QED BY <4>1
    <3>3. persistQueue' \in Seq(Tasks)
      BY <3>1, <3>2, EmitType
    <3> HIDE DEF target
    <3> QED BY <1>3, <2>1, <3>1, <3>3 DEF TypeOK
  <2> QED BY <2>2, <2>3
<1>7. CASE ChildReseed(cmd)
  BY <1>7 DEF ChildReseed, TypeOK
<1> QED BY <1>4, <1>5, <1>6, <1>7 DEF ChildReceive, cmd

\* The tasks a queue step can meet at the head.
LEMMA PersistCases ==
  ASSUME PersistNext
  PROVE  LET task == Head(persistQueue) IN
           \/ BlockLands(task) \/ BlockRefused(task)
           \/ AdvanceLands(task) \/ ResetLands(task) \/ RewindLands(task)
           \/ DiscoverLands(task) \/ TaskDropped(task)
BY DEF PersistNext

LEMMA PersistType ==
  ASSUME TypeOK, PersistNext
  PROVE  TypeOK'
<1> USE ConstantsAssumption
<1> DEFINE task == Head(persistQueue)
<1>1. task \in Tasks /\ Tail(persistQueue) \in Seq(Tasks)
  BY HeadTailProperties DEF TypeOK, PersistNext
<1>2. /\ task.at \in 0..Tip /\ task.branch \in Branches
      /\ task.kind = "block" => task.at \in Heights
  BY <1>1 DEF Tasks, Heights
<1> HIDE DEF task
<1>3. SUFFICES /\ commands' \in Seq(Commands) /\ persistQueue' \in Seq(Tasks)
               /\ attempt' \in 0..PERSIST_ATTEMPTS - 1 /\ failed' \subseteq Heights
               /\ cursor' \in {NoRow} \union 0..Tip
               /\ saved' \subseteq Heights \X Branches /\ owed' \subseteq Heights
  BY DEF PersistNext, TypeOK, chainVars, childVars, halts
<1>4. \A h \in 0..Tip, w \in SUBSET Heights, k \in {"watch", "reseed"} :
        Append(commands, Command(k, h, w)) \in Seq(Commands)
  <2> TAKE h \in 0..Tip, w \in SUBSET Heights, k \in {"watch", "reseed"}
  <2>1. Command(k, h, w) \in Commands
    BY DEF Command, Commands
  <2> QED BY <2>1, AppendProperties DEF TypeOK
<1> USE DEF task
<1>5. CASE BlockLands(task)
  <2>1. saved' \subseteq Heights \X Branches
    BY <1>2, <1>5 DEF BlockLands, TypeOK
  <2>2. cursor' \in {NoRow} \union 0..Tip
    BY <1>2, <1>5 DEF BlockLands, TypeOK, Greater, NoRow
  <2> QED BY <1>1, <1>5, <2>1, <2>2 DEF BlockLands, TypeOK
<1>6. CASE BlockRefused(task)
  <2>1. task.at \in Heights
    BY <1>2, <1>6 DEF BlockRefused
  <2>2. attempt' \in 0..PERSIST_ATTEMPTS - 1 /\ failed' \subseteq Heights
    BY <1>6, <2>1 DEF BlockRefused, TypeOK
  <2>3. persistQueue' \in Seq(Tasks)
    BY <1>1, <1>6 DEF BlockRefused, TypeOK
  <2> QED BY <1>6, <2>2, <2>3 DEF BlockRefused, TypeOK, sqlVars
<1>7. CASE AdvanceLands(task)
  <2>1. AllowedHeight(task.at) \in 0..Tip
    BY <1>2, AllowedHeightBound DEF TypeOK
  <2> QED BY <1>1, <1>7, <2>1 DEF AdvanceLands, TypeOK, Greater, NoRow
<1>8. CASE ResetLands(task)
  BY <1>1, <1>2, <1>8 DEF ResetLands, TypeOK
<1>9. CASE RewindLands(task)
  <2>1. commands' \in Seq(Commands)
    BY <1>4, <1>9 DEF RewindLands
  <2>2. cursor' \in {NoRow} \union 0..Tip
    BY <1>2, <1>9 DEF RewindLands, TypeOK, Lesser, NoRow
  <2> QED BY <1>1, <1>9, <2>1, <2>2 DEF RewindLands, TypeOK
<1>10. CASE DiscoverLands(task)
  <2>1. Greater(Genesis, task.at) \in 0..Tip
    BY <1>2 DEF Greater, Genesis
  <2>2. commands' \in Seq(Commands)
    BY <1>4, <1>10, <2>1 DEF DiscoverLands
  <2>3. cursor' \in {NoRow} \union 0..Tip
    BY <1>10, <2>1 DEF DiscoverLands, TypeOK
  <2> QED BY <1>1, <1>10, <2>2, <2>3 DEF DiscoverLands, TypeOK
<1>11. CASE TaskDropped(task)
  BY <1>1, <1>11 DEF TaskDropped, TypeOK, sqlVars
<1> QED
  BY <1>5, <1>6, <1>7, <1>8, <1>9, <1>10, <1>11, PersistCases

\* The main process's own steps and the two kinds of halt.
LEMMA MainType ==
  ASSUME TypeOK,
         \/ StartSync \/ StartSend \/ StopSync
         \/ \E floor \in Floors : AddWatchAddresses(floor)
         \/ ChildExit \/ Crash
  PROVE  TypeOK'
<1> USE ConstantsAssumption
<1>1. CASE StartSync
  BY <1>1 DEF StartSync, TypeOK, chainVars, childVars, sqlVars, halts
<1>2. CASE StartSend
  <2>1. Command("start", cursor, starting.watch) \in Commands
    BY DEF Command, Commands, TypeOK
  <2>2. commands' \in Seq(Commands)
    BY <1>2, <2>1, AppendProperties DEF StartSend, TypeOK
  <2> QED
    BY <1>2, <2>2 DEF StartSend, TypeOK, NotStarting, chainVars, childVars, sqlVars, halts
<1>3. CASE StopSync
  <2>1. Command("stop", 0, {}) \in Commands
    BY DEF Command, Commands
  <2>2. commands' \in Seq(Commands)
    BY <1>3, <2>1, AppendProperties DEF StopSync, TypeOK
  <2> QED
    BY <1>3, <2>2 DEF StopSync, TypeOK, chainVars, childVars, mainVars, sqlVars
<1>4. ASSUME NEW floor \in Floors, AddWatchAddresses(floor) PROVE TypeOK'
  <2>1. Task("discover", floor) \in Tasks
    BY TaskType DEF Kinds
  <2>2. persistQueue' \in Seq(Tasks)
    BY <1>4, <2>1, AppendProperties DEF AddWatchAddresses, TypeOK
  <2> QED
    BY <1>4, <2>2 DEF AddWatchAddresses, TypeOK, chainVars, childVars, sqlVars, halts
<1>5. CASE ChildExit
  BY <1>5, EmptySeq DEF ChildExit, TypeOK, chainVars, mainVars, sqlVars
<1>6. CASE Crash
  BY <1>6, EmptySeq DEF Crash, TypeOK, NotStarting, chainVars, sqlVars
<1> QED BY <1>1, <1>2, <1>3, <1>4, <1>5, <1>6

LEMMA NextType == TypeOK /\ [Next]_vars => TypeOK'
<1> SUFFICES ASSUME TypeOK, [Next]_vars PROVE TypeOK'
  OBVIOUS
<1>1. CASE WorkerScan \/ WorkerSettle \/ \E f \in Forks : WorkerReorg(f)
  BY <1>1, WorkerType
<1>2. CASE ChildReceive
  BY <1>2, ChildType
<1>3. CASE PersistNext
  BY <1>3, PersistType
<1>4. CASE \/ StartSync \/ StartSend \/ StopSync
           \/ \E floor \in Floors : AddWatchAddresses(floor)
           \/ ChildExit \/ Crash
  BY <1>4, MainType
<1>5. CASE UNCHANGED vars
  BY <1>5 DEF vars, TypeOK, chainVars, childVars, mainVars, sqlVars, halts
<1> QED BY <1>1, <1>2, <1>3, <1>4, <1>5 DEF Next

\* Whatever is refused, rewound, discovered, stopped or crashed, every variable
\* keeps its type: no arithmetic of the cursor, the gate or a rewind target
\* (min, max, minus one) leaves the chain.
THEOREM TypeCorrect == Spec => []TypeOK
<1> QED BY InitType, NextType, PTL DEF Spec

-----------------------------------------------------------------------------
(* The resume marker, while no reorg and no discovery interfere *)

\* Only the first session's own events ever reach the queue.
Undisturbed ==
  /\ chain = [h \in Heights |-> 0] /\ reorgs = 0 /\ owed = Early
  /\ session # "held" /\ (session = "scanning" => watch = Early)

\* The gate works: the marker is below every height it holds.
GateHolds == \A h \in failed : cursor < h

\* The scan is never behind the marker, and what it has walked is accounted for.
Walked ==
  session = "scanning" =>
    /\ cursor <= pos
    /\ \A h \in Early : h <= pos => Covered(h, Len(persistQueue))

\* A queued task claims nothing that the tasks before it do not account for,
\* and block writes come in ascending order above the marker.
QueueSound ==
  \A i \in 1..Len(persistQueue) :
    LET task == persistQueue[i] IN
      /\ task.kind \in {"block", "advance"} /\ task.branch = 0
      /\ session = "scanning" => task.at <= pos
      /\ task.kind = "block" =>
           cursor < task.at /\ \A j \in 1..i - 1 : persistQueue[j].at < task.at
      /\ \A h \in Early :
           h < task.at \/ (h = task.at /\ task.kind = "advance") => Covered(h, i - 1)

\* A launch that has read SQL finds it as it left it when the worker starts.
LaunchFresh ==
  /\ starting.reading =>
       /\ session = "down" /\ commands = <<>> /\ persistQueue = <<>>
       /\ failed = {} /\ starting.watch = Early
  /\ \A i \in 1..Len(commands) :
       /\ commands[i].kind \in {"start", "stop"}
       /\ commands[i].kind = "start" =>
            /\ Len(commands) = 1 /\ session = "down" /\ persistQueue = <<>>
            /\ failed = {} /\ ~starting.reading
            /\ commands[i].at = cursor /\ commands[i].watch = Early

IInv ==
  TypeOK /\ NoHole /\ Undisturbed /\ GateHolds /\ Walked /\ QueueSound /\ LaunchFresh

LEMMA InitIInv == Init => IInv
<1> SUFFICES ASSUME Init PROVE IInv
  OBVIOUS
<1>1. TypeOK
  BY InitType
<1>2. NoHole
  BY ConstantsAssumption DEF Init, NoHole, NoRow, Heights
<1>3. Undisturbed /\ GateHolds /\ Walked
  BY DEF Init, Undisturbed, GateHolds, Walked
<1>4. QueueSound /\ LaunchFresh
  BY DEF Init, QueueSound, LaunchFresh, NotStarting
<1> QED BY <1>1, <1>2, <1>3, <1>4 DEF IInv

\* A queue that only grows keeps what it accounted for.
LEMMA EmitKeepsCovered ==
  ASSUME TypeOK, NEW t \in Tasks, Emit(<<t>>), UNCHANGED <<chain, saved, failed>>
  PROVE  /\ persistQueue' \in Seq(Tasks)
         /\ Len(persistQueue') = Len(persistQueue) + 1
         /\ \A i \in 1..Len(persistQueue) : persistQueue'[i] = persistQueue[i]
         /\ persistQueue'[Len(persistQueue) + 1] = t
         /\ \A h \in Early : \A n \in 0..Len(persistQueue) : Covered(h, n) => Covered(h, n)'
<1>1. persistQueue \in Seq(Tasks) /\ <<t>> \in Seq(Tasks) /\ Len(<<t>>) = 1
  BY DEF TypeOK
<1>2. /\ persistQueue' \in Seq(Tasks)
      /\ Len(persistQueue') = Len(persistQueue) + 1
      /\ \A i \in 1..Len(persistQueue) : persistQueue'[i] = persistQueue[i]
      /\ persistQueue'[Len(persistQueue) + 1] = t
  BY <1>1, ConcatProperties DEF Emit
<1>3. ASSUME NEW h \in Early, NEW n \in 0..Len(persistQueue), Covered(h, n)
      PROVE  Covered(h, n)'
  <2>1. Row(h)' = Row(h) /\ Write(h)' = Write(h)
    BY DEF Row, Write
  <2>2. 1..n \subseteq 1..Len(persistQueue)
    BY <1>1, LenProperties
  <2> QED BY <1>2, <1>3, <2>1, <2>2 DEF Covered
<1> QED BY <1>2, <1>3

\* While a session lives nothing is being launched.
LEMMA LiveSessionNotLaunching ==
  ASSUME IInv, session = "scanning" \/ persistQueue # <<>>
  PROVE  ~starting.reading /\ \A i \in 1..Len(commands) : commands[i].kind = "stop"
BY DEF IInv, LaunchFresh

LEMMA WorkerIInv ==
  ASSUME Forks = {}, IInv, TypeOK',
         WorkerScan \/ WorkerSettle \/ \E f \in Forks : WorkerReorg(f)
  PROVE  IInv'
<1> USE ConstantsAssumption DEF IInv
<1>1. PICK n \in Nat : n = Len(persistQueue)
  BY LenProperties DEF TypeOK
<1>2. PICK p \in 0..Tip : p = pos
  BY DEF TypeOK
<1>3. \A i \in 1..n : persistQueue[i].at \in 0..Tip
  BY <1>1 DEF TypeOK, Tasks, Heights
<1>4. Early \subseteq Heights
  OBVIOUS
<1>5. CASE WorkerScan
  <2>1. /\ session = "scanning" /\ p + 1 \in Heights /\ pos' = p + 1
        /\ UNCHANGED <<chain, reorgs, session, watch, commands, failed, starting, cursor,
                       saved, owed>>
    BY <1>2, <1>5 DEF WorkerScan, Heights, chainVars, sqlVars
  <2>2. watch = Early
    BY <2>1 DEF Undisturbed
  <2>3. cursor <= p /\ cursor \in Int /\ \A h \in Early : h <= p => Covered(h, n)
    BY <1>1, <1>2, <2>1 DEF Walked, TypeOK, NoRow
  <2>4. \A h : Row(h)' = Row(h) /\ Write(h)' = Write(h)
    BY <2>1 DEF Row, Write
  <2>5. NoHole' /\ Undisturbed' /\ GateHolds'
    BY <2>1, <2>4 DEF NoHole, Undisturbed, GateHolds
  <2>6. LaunchFresh'
    BY <2>1, LiveSessionNotLaunching DEF LaunchFresh
  <2>7. CASE p + 1 \in watch
    <3>1. PICK t \in Tasks : t = Write(p + 1) /\ t.branch = 0 /\ Emit(<<t>>)
      <4>1. chain[p + 1] = 0
        BY <2>1 DEF Undisturbed
      <4> DEFINE t == [Task("block", pos + 1) EXCEPT !.branch = chain[pos + 1]]
      <4>2. t = Write(p + 1) /\ t.branch = 0 /\ t \in Tasks
        BY <1>2, <2>1, <4>1 DEF Task, Write, Tasks, Branches
      <4>3. Emit(<<t>>)
        BY <1>2, <1>5, <2>7 DEF WorkerScan
      <4> QED BY <4>2, <4>3
    <3>2. /\ Len(persistQueue') = n + 1 /\ persistQueue'[n + 1] = t
          /\ \A i \in 1..n : persistQueue'[i] = persistQueue[i]
          /\ \A h \in Early : \A k \in 0..n : Covered(h, k) => Covered(h, k)'
      BY <1>1, <2>1, <3>1, EmitKeepsCovered
    <3>3. \A h \in Early : h <= p => Covered(h, n)'
      BY <2>3, <3>2
    <3>4. Walked'
      <4>1. \A h \in Early : h <= p => Covered(h, n + 1)'
        BY <3>3 DEF Covered
      <4>2. Covered(p + 1, n + 1)'
        BY <2>4, <3>1, <3>2 DEF Covered
      <4>3. \A h \in Early : h <= p + 1 => h <= p \/ h = p + 1
        BY <1>4 DEF Heights
      <4> QED BY <2>1, <2>3, <3>2, <4>1, <4>2, <4>3 DEF Walked
    <3>5. QueueSound'
      <4> SUFFICES ASSUME NEW i \in 1..n + 1
                   PROVE  LET task == persistQueue'[i] IN
                            /\ task.kind \in {"block", "advance"} /\ task.branch = 0
                            /\ task.at <= p + 1
                            /\ task.kind = "block" =>
                                 /\ cursor < task.at
                                 /\ \A j \in 1..i - 1 : persistQueue'[j].at < task.at
                            /\ \A h \in Early :
                                 h < task.at \/ (h = task.at /\ task.kind = "advance")
                                   => Covered(h, i - 1)'
        BY <2>1, <3>2 DEF QueueSound
      <4>1. CASE i \in 1..n
        BY <1>1, <1>2, <1>3, <2>1, <3>2, <4>1 DEF QueueSound
      <4>2. CASE i = n + 1
        <5>1. t.kind = "block" /\ t.at = p + 1
          BY <3>1 DEF Write
        <5>2. \A j \in 1..n : persistQueue'[j].at <= p /\ persistQueue'[j].at \in 0..Tip
          BY <1>1, <1>2, <1>3, <2>1, <3>2 DEF QueueSound
        <5>3. \A h \in Early : h < p + 1 => h <= p
          BY <1>4 DEF Heights
        <5> QED BY <2>3, <3>1, <3>2, <3>3, <4>2, <5>1, <5>2, <5>3
      <4> QED BY <4>1, <4>2
    <3> QED BY <2>5, <2>6, <3>4, <3>5
  <2>8. CASE p + 1 \notin watch
    <3>1. UNCHANGED persistQueue
      BY <1>2, <1>5, <2>8 DEF WorkerScan
    <3>2. \A h, k : Covered(h, k)' = Covered(h, k)
      BY <2>1, <2>4, <3>1 DEF Covered
    <3>3. Walked'
      <4>1. \A h \in Early : h <= p + 1 => h <= p
        BY <1>4, <2>2, <2>8 DEF Heights
      <4> QED BY <1>1, <2>1, <2>3, <3>1, <3>2, <4>1 DEF Walked
    <3>4. QueueSound'
      <4> SUFFICES ASSUME NEW i \in 1..n
                   PROVE  LET task == persistQueue[i] IN
                            /\ task.kind \in {"block", "advance"} /\ task.branch = 0
                            /\ task.at <= p + 1
                            /\ task.kind = "block" =>
                                 /\ cursor < task.at
                                 /\ \A j \in 1..i - 1 : persistQueue[j].at < task.at
                            /\ \A h \in Early :
                                 h < task.at \/ (h = task.at /\ task.kind = "advance")
                                   => Covered(h, i - 1)
        BY <1>1, <2>1, <3>1, <3>2 DEF QueueSound
      <4> QED BY <1>1, <1>2, <1>3, <2>1 DEF QueueSound
    <3> QED BY <2>5, <2>6, <3>3, <3>4
  <2> QED BY <2>7, <2>8
<1>6. CASE WorkerSettle
  <2>1. /\ session = "scanning"
        /\ UNCHANGED <<chain, reorgs, session, pos, watch, commands, failed, starting,
                       cursor, saved, owed>>
    BY <1>6 DEF WorkerSettle, childVars, chainVars, sqlVars
  <2>2. PICK t \in Tasks : t.kind = "advance" /\ t.at = p /\ t.branch = 0 /\ Emit(<<t>>)
    <3>1. reorgs = 0 /\ Task("advance", p) \in Tasks
      BY TaskType DEF Undisturbed, Kinds
    <3> QED BY <1>2, <1>6, <3>1 DEF WorkerSettle, Task
  <2>3. /\ Len(persistQueue') = n + 1 /\ persistQueue'[n + 1] = t
        /\ \A i \in 1..n : persistQueue'[i] = persistQueue[i]
        /\ \A h \in Early : \A k \in 0..n : Covered(h, k) => Covered(h, k)'
    BY <1>1, <2>1, <2>2, EmitKeepsCovered
  <2>4. NoHole' /\ Undisturbed' /\ GateHolds'
    BY <2>1 DEF NoHole, Row, Undisturbed, GateHolds
  <2>5. LaunchFresh'
    BY <2>1, LiveSessionNotLaunching DEF LaunchFresh
  <2>6. \A h \in Early : h <= p => Covered(h, n)'
    BY <1>1, <1>2, <2>1, <2>3 DEF Walked
  <2>7. Walked'
    <3>1. \A h \in Early : h <= p => Covered(h, n + 1)'
      BY <2>6 DEF Covered
    <3> QED BY <1>2, <2>1, <2>3, <3>1 DEF Walked
  <2>8. QueueSound'
    <3> SUFFICES ASSUME NEW i \in 1..n + 1
                 PROVE  LET task == persistQueue'[i] IN
                          /\ task.kind \in {"block", "advance"} /\ task.branch = 0
                          /\ task.at <= p
                          /\ task.kind = "block" =>
                               /\ cursor < task.at
                               /\ \A j \in 1..i - 1 : persistQueue'[j].at < task.at
                          /\ \A h \in Early :
                               h < task.at \/ (h = task.at /\ task.kind = "advance")
                                 => Covered(h, i - 1)'
      BY <1>2, <2>1, <2>3 DEF QueueSound
    <3>1. CASE i \in 1..n
      BY <1>1, <1>2, <1>3, <2>1, <2>3, <3>1 DEF QueueSound
    <3>2. CASE i = n + 1
      <4>1. \A h \in Early : h < p \/ h = p => h <= p
        BY <1>4 DEF Heights
      <4> QED BY <2>2, <2>3, <2>6, <3>2, <4>1
    <3> QED BY <3>1, <3>2
  <2> QED BY <2>4, <2>5, <2>7, <2>8
<1> QED BY <1>5, <1>6

\* Every command of the child: a launch resumes above the marker, where nothing
\* owed is missing, and an end of session claims nothing.
LEMMA ChildIInv ==
  ASSUME IInv, TypeOK', ChildReceive
  PROVE  IInv'
<1> USE ConstantsAssumption DEF IInv
<1> DEFINE cmd == Head(commands)
<1>1. /\ commands # <<>> /\ cmd = commands[1] /\ Len(commands) \in Nat \ {0}
      /\ Len(commands') = Len(commands) - 1
      /\ \A i \in 1..Len(commands') : commands'[i] = commands[i + 1]
      /\ UNCHANGED <<chain, reorgs, failed, starting, cursor, saved, owed>>
  BY HeadTailProperties, LenProperties
  DEF ChildReceive, TypeOK, chainVars, sqlVars
<1>2. ~starting.reading /\ cmd.kind \in {"start", "stop"}
  BY <1>1 DEF LaunchFresh
<1>3. \A h : Row(h)' = Row(h) /\ Write(h)' = Write(h)
  BY <1>1 DEF Row, Write
<1>4. NoHole' /\ GateHolds'
  BY <1>1, <1>3 DEF NoHole, GateHolds
<1>5. \A i \in 1..Len(commands') : commands'[i].kind = "stop"
  BY <1>1 DEF LaunchFresh
<1>6. LaunchFresh'
  BY <1>1, <1>2, <1>5 DEF LaunchFresh
<1>7. CASE cmd.kind = "start"
  <2>1. /\ session = "down" /\ persistQueue = <<>> /\ failed = {}
        /\ cmd.at = cursor /\ cmd.watch = Early
    BY <1>1, <1>7 DEF LaunchFresh
  <2>2. ChildStart(cmd)
    BY <1>7 DEF ChildReceive, ChildStop, ChildWatch, ChildReseed
  <2>3. /\ session' = "scanning" /\ pos' = Greater(cursor, 0) /\ watch' = Early
        /\ persistQueue' = <<>>
    BY <2>1, <2>2 DEF ChildStart, Genesis
  <2>4. Undisturbed'
    BY <1>1, <2>3 DEF Undisturbed
  <2>5. Walked'
    <3>1. cursor <= pos' /\ \A h \in Early : h <= pos' => h <= cursor
      BY <2>3 DEF TypeOK, Greater, NoRow, Heights
    <3>2. \A h \in Early : h <= pos' => Row(h)' \in saved'
      BY <1>1, <1>3, <3>1 DEF NoHole, Undisturbed
    <3> QED BY <1>1, <3>1, <3>2 DEF Walked, Covered
  <2>6. QueueSound'
    BY <2>3 DEF QueueSound
  <2> QED BY <1>4, <1>6, <2>4, <2>5, <2>6
<1>8. CASE cmd.kind = "stop"
  <2>1. session' = "down" /\ UNCHANGED persistQueue
    BY <1>8 DEF ChildReceive, ChildStart, ChildStop, ChildWatch, ChildReseed
  <2>2. Undisturbed' /\ Walked'
    BY <1>1, <2>1 DEF Undisturbed, Walked
  <2>3. \A h, k : Covered(h, k)' = Covered(h, k)
    BY <1>1, <1>3, <2>1 DEF Covered
  <2>4. QueueSound'
    BY <1>1, <2>1, <2>3 DEF QueueSound
  <2> QED BY <1>4, <1>6, <2>2, <2>4
<1> QED BY <1>2, <1>7, <1>8

LEMMA MainIInv ==
  ASSUME Floors = {}, ~OverlappingStarts, IInv, TypeOK',
         \/ StartSync \/ StartSend \/ StopSync
         \/ \E floor \in Floors : AddWatchAddresses(floor)
         \/ ChildExit \/ Crash
  PROVE  IInv'
<1> USE ConstantsAssumption DEF IInv
<1>1. CASE StartSync
  <2>1. /\ session = "down" /\ commands = <<>> /\ persistQueue = <<>>
        /\ failed' = {} /\ starting' = [reading |-> TRUE, watch |-> Early]
        /\ UNCHANGED <<chain, reorgs, session, pos, watch, commands, persistQueue,
                       cursor, saved, owed>>
    BY <1>1 DEF StartSync, Quiet, Undisturbed, chainVars, childVars, sqlVars
  <2> QED
    BY <2>1 DEF NoHole, Row, Undisturbed, GateHolds, Walked, QueueSound, LaunchFresh
<1>2. CASE StartSend
  <2>1. /\ session = "down" /\ commands = <<>> /\ persistQueue = <<>> /\ failed = {}
        /\ starting.watch = Early
    BY <1>2 DEF StartSend, LaunchFresh
  <2>2. /\ commands' = <<Command("start", cursor, Early)>> /\ ~starting'.reading
        /\ UNCHANGED <<chain, reorgs, session, pos, watch, persistQueue, failed,
                       cursor, saved, owed>>
    BY <1>2, <2>1 DEF StartSend, NotStarting, chainVars, childVars, sqlVars
  <2>3. LaunchFresh'
    BY <2>1, <2>2 DEF LaunchFresh, Command
  <2> QED
    BY <2>1, <2>2, <2>3 DEF NoHole, Row, Undisturbed, GateHolds, Walked, QueueSound
<1>3. CASE StopSync
  <2>1. /\ session = "scanning" /\ commands' = Append(commands, Command("stop", 0, {}))
        /\ UNCHANGED <<chain, reorgs, session, pos, watch, persistQueue, failed, starting,
                       cursor, saved, owed>>
    BY <1>3 DEF StopSync, Undisturbed, TypeOK, chainVars, childVars, mainVars, sqlVars
  <2>2. LaunchFresh'
    <3>1. /\ Len(commands') = Len(commands) + 1
          /\ \A i \in 1..Len(commands) : commands'[i] = commands[i]
          /\ commands'[Len(commands) + 1].kind = "stop"
      BY <2>1, AppendProperties DEF TypeOK, Command, Commands
    <3>2. \A i \in 1..Len(commands') : commands'[i].kind = "stop"
      BY <2>1, <3>1, LiveSessionNotLaunching, LenProperties DEF TypeOK
    <3> QED BY <2>1, <3>2, LiveSessionNotLaunching DEF LaunchFresh
  <2>3. \A h, k : Covered(h, k)' = Covered(h, k)
    BY <2>1 DEF Covered, Row, Write
  <2>4. Walked' /\ QueueSound'
    BY <2>1, <2>3 DEF Walked, QueueSound
  <2> QED BY <2>1, <2>2, <2>4 DEF NoHole, Row, Undisturbed, GateHolds
<1>4. CASE ChildExit
  <2>1. /\ session' = "down" /\ commands' = <<>>
        /\ UNCHANGED <<chain, reorgs, persistQueue, failed, starting, cursor, saved, owed>>
    BY <1>4 DEF ChildExit, chainVars, mainVars, sqlVars
  <2>2. \A h, k : Covered(h, k)' = Covered(h, k)
    BY <2>1 DEF Covered, Row, Write
  <2>3. QueueSound'
    BY <2>1, <2>2 DEF QueueSound
  <2> QED
    BY <2>1, <2>3 DEF NoHole, Row, Undisturbed, GateHolds, Walked, LaunchFresh
<1>5. CASE Crash
  <2>1. /\ session' = "down" /\ commands' = <<>> /\ persistQueue' = <<>> /\ failed' = {}
        /\ ~starting'.reading /\ UNCHANGED <<chain, reorgs, cursor, saved, owed>>
    BY <1>5 DEF Crash, NotStarting, chainVars, sqlVars
  <2> QED
    BY <2>1 DEF NoHole, Row, Undisturbed, GateHolds, Walked, QueueSound, LaunchFresh
<1> QED BY <1>1, <1>2, <1>3, <1>4, <1>5

\* When the head of the queue settles into SQL or the gate, the tasks behind it
\* still claim nothing unaccounted for.
LEMMA SettledHead ==
  ASSUME IInv, TypeOK', persistQueue # <<>>, persistQueue' = Tail(persistQueue),
         UNCHANGED <<chain, reorgs, session, pos, watch, commands, starting, owed>>,
         \A h \in Early :
           Row(h) \in saved \/ h \in failed \/ persistQueue[1] = Write(h)
             => Row(h) \in saved' \/ h \in failed',
         \A i \in 2..Len(persistQueue) :
           persistQueue[i].kind = "block" => cursor' < persistQueue[i].at,
         session = "scanning" => cursor' <= pos
  PROVE  Undisturbed' /\ Walked' /\ QueueSound' /\ LaunchFresh'
<1> USE ConstantsAssumption DEF IInv
<1>1. PICK n \in Nat : n = Len(persistQueue)
  BY LenProperties DEF TypeOK
<1>2. /\ n > 0 /\ Len(persistQueue') = n - 1
      /\ \A i \in 1..n - 1 : persistQueue'[i] = persistQueue[i + 1]
  BY <1>1, HeadTailProperties, EmptySeq, LenProperties DEF TypeOK
<1>3. \A h : Row(h)' = Row(h) /\ Write(h)' = Write(h)
  BY DEF Row, Write
<1>4. ASSUME NEW h \in Early, NEW k \in 0..n, Covered(h, k)
      PROVE  Covered(h, k - 1)'
  <2>1. CASE Row(h) \in saved \/ h \in failed
    BY <1>3, <2>1 DEF Covered
  <2>2. ASSUME NEW j \in 1..k, persistQueue[j] = Write(h) PROVE Covered(h, k - 1)'
    <3>1. CASE j = 1
      BY <1>3, <2>2, <3>1 DEF Covered
    <3>2. CASE j # 1
      <4>1. j - 1 \in 1..k - 1 /\ j - 1 \in 1..n - 1
        BY <3>2
      <4>2. persistQueue'[j - 1] = persistQueue[j]
        BY <1>2, <4>1
      <4> QED BY <1>3, <2>2, <4>1, <4>2 DEF Covered
    <3> QED BY <3>1, <3>2
  <2> QED BY <1>4, <2>1, <2>2 DEF Covered
<1>5. Undisturbed'
  BY DEF Undisturbed
<1>6. LaunchFresh'
  BY LiveSessionNotLaunching DEF LaunchFresh
<1>7. Walked'
  <2>1. ASSUME session = "scanning", NEW h \in Early, h <= pos PROVE Covered(h, n - 1)'
    BY <1>1, <1>4, <2>1 DEF Walked
  <2> QED BY <1>2, <2>1 DEF Walked
<1>8. QueueSound'
  <2> SUFFICES ASSUME NEW i \in 1..n - 1
               PROVE  LET task == persistQueue[i + 1] IN
                        /\ task.kind \in {"block", "advance"} /\ task.branch = 0
                        /\ session = "scanning" => task.at <= pos
                        /\ task.kind = "block" =>
                             /\ cursor' < task.at
                             /\ \A j \in 1..i - 1 : persistQueue[j + 1].at < task.at
                        /\ \A h \in Early :
                             h < task.at \/ (h = task.at /\ task.kind = "advance")
                               => Covered(h, i - 1)'
    BY <1>2 DEF QueueSound
  <2>1. i + 1 \in 2..n /\ i + 1 \in 1..n /\ i \in 0..n /\ (i + 1) - 1 = i
    OBVIOUS
  <2>2. \A j \in 1..i - 1 : j + 1 \in 1..i
    OBVIOUS
  <2>3. \A h \in Early : Covered(h, i) => Covered(h, i - 1)'
    BY <1>4, <2>1
  <2> QED BY <1>1, <2>1, <2>2, <2>3 DEF QueueSound
<1> QED BY <1>5, <1>6, <1>7, <1>8

LEMMA PersistIInv ==
  ASSUME IInv, TypeOK', PersistNext
  PROVE  IInv'
<1> USE ConstantsAssumption DEF IInv
<1> DEFINE task == Head(persistQueue)
<1>1. /\ persistQueue # <<>> /\ task = persistQueue[1]
      /\ 1 \in 1..Len(persistQueue) /\ Len(persistQueue) \in Nat
      /\ UNCHANGED <<chain, reorgs, session, pos, watch, starting>>
  BY EmptySeq, LenProperties DEF PersistNext, TypeOK, chainVars, childVars
<1>2. /\ task.kind \in {"block", "advance"} /\ task.branch = 0
      /\ session = "scanning" => task.at <= pos
      /\ task.kind = "block" => cursor < task.at
      /\ \A h \in Early :
           h < task.at \/ (h = task.at /\ task.kind = "advance") =>
             Row(h) \in saved \/ h \in failed
  BY <1>1 DEF QueueSound, Covered
<1>3. \A i \in 2..Len(persistQueue) : persistQueue[i].kind = "block" =>
        cursor < persistQueue[i].at /\ task.at < persistQueue[i].at
  BY <1>1 DEF QueueSound
<1>4. task \in Tasks /\ task.at \in 0..Tip /\ cursor \in Int
  BY HeadTailProperties, <1>1 DEF TypeOK, Tasks, Heights, NoRow
<1>5. \A h : Row(h)' = Row(h)
  BY <1>1 DEF Row
<1>6. session = "scanning" => cursor <= pos
  BY DEF Walked
<1>7. owed = Early
  BY DEF Undisturbed
<1>8. ASSUME NEW h \in Early, task = Write(h) PROVE task.at = h /\ task.kind = "block"
  BY <1>8 DEF Write
<1> HIDE DEF task
<1>9. CASE BlockLands(task)
  <2>1. /\ task.kind = "block" /\ saved' = saved \union {<<task.at, task.branch>>}
        /\ cursor' = IF AllowsBlockCursor(task.at) THEN Greater(cursor, task.at) ELSE cursor
        /\ failed' = failed \ {task.at} /\ persistQueue' = Tail(persistQueue)
        /\ UNCHANGED <<owed, commands>>
    BY <1>9 DEF BlockLands
  <2>2. task.at \in Heights /\ Row(task.at) = <<task.at, task.branch>>
    BY <1>2, <1>4, <2>1 DEF Tasks, Row, Undisturbed
  <2>3. AllowsBlockCursor(task.at) => \A f \in failed : task.at < f
    BY <2>2, AllowedBlockBelowFailed DEF TypeOK
  <2>4. cursor' \in {cursor, task.at} /\ (AllowsBlockCursor(task.at) \/ cursor' = cursor)
    BY <2>1 DEF Greater
  <2>5. \A h \in Early : Row(h) \in saved \/ h \in failed \/ task = Write(h)
                           => Row(h)' \in saved' \/ h \in failed'
    BY <1>5, <1>8, <2>1, <2>2
  <2>6. Undisturbed' /\ Walked' /\ QueueSound' /\ LaunchFresh'
    <3>1. session = "scanning" => cursor' <= pos
      BY <1>2, <1>6, <2>4
    <3>2. \A i \in 2..Len(persistQueue) : persistQueue[i].kind = "block" =>
            cursor' < persistQueue[i].at
      BY <1>3, <2>4
    <3> QED BY <1>1, <1>5, <2>1, <2>5, <3>1, <3>2, SettledHead
  <2>7. NoHole'
    <3>1. ASSUME NEW h \in Early, h <= cursor' PROVE Row(h)' \in saved'
      <4>1. CASE cursor' = cursor
        BY <1>5, <1>7, <2>1, <3>1, <4>1 DEF NoHole
      <4>2. CASE cursor' # cursor
        <5>1. cursor' = task.at /\ \A f \in failed : task.at < f
          BY <2>3, <2>4, <4>2
        <5>2. h \in Heights /\ h <= task.at /\ h \notin failed
          BY <2>2, <3>1, <5>1 DEF Heights
        <5>3. h < task.at \/ h = task.at
          BY <2>2, <5>2 DEF Heights
        <5> QED BY <1>2, <1>5, <2>1, <2>2, <5>2, <5>3
      <4> QED BY <4>1, <4>2
    <3> QED BY <1>7, <2>1, <3>1 DEF NoHole
  <2>8. GateHolds'
    BY <2>1, <2>3, <2>4 DEF GateHolds
  <2> QED BY <2>6, <2>7, <2>8
<1>10. CASE BlockRefused(task)
  <2>1. CASE attempt + 1 < PERSIST_ATTEMPTS
    <3>1. UNCHANGED <<failed, persistQueue, cursor, saved, owed, commands>>
      BY <1>10, <2>1 DEF BlockRefused, sqlVars
    <3>2. \A h, k : Covered(h, k)' = Covered(h, k)
      BY <1>1, <3>1 DEF Covered, Row, Write
    <3> QED
      BY <1>1, <1>5, <3>1, <3>2
      DEF NoHole, Undisturbed, GateHolds, Walked, QueueSound, LaunchFresh
  <2>2. CASE ~(attempt + 1 < PERSIST_ATTEMPTS)
    <3>1. /\ task.kind = "block" /\ failed' = failed \union {task.at}
          /\ persistQueue' = Tail(persistQueue)
          /\ UNCHANGED <<cursor, saved, owed, commands>>
      BY <1>10, <2>2 DEF BlockRefused, sqlVars
    <3>2. \A h \in Early : Row(h) \in saved \/ h \in failed \/ task = Write(h)
                             => Row(h)' \in saved' \/ h \in failed'
      BY <1>5, <1>8, <3>1
    <3>3. Undisturbed' /\ Walked' /\ QueueSound' /\ LaunchFresh'
      BY <1>1, <1>3, <1>5, <1>6, <3>1, <3>2, SettledHead
    <3> QED BY <1>2, <1>5, <3>1, <3>3 DEF NoHole, GateHolds
  <2> QED BY <2>1, <2>2
<1>11. CASE AdvanceLands(task)
  <2>1. /\ task.kind = "advance" /\ cursor' = Greater(cursor, AllowedHeight(task.at))
        /\ persistQueue' = Tail(persistQueue) /\ UNCHANGED <<saved, owed, failed, commands>>
    BY <1>11 DEF AdvanceLands
  <2>2. /\ AllowedHeight(task.at) \in 0..task.at
        /\ \A f \in failed : AllowedHeight(task.at) < f
    BY <1>4, AllowedHeightBound DEF TypeOK
  <2>3. cursor' \in {cursor, AllowedHeight(task.at)}
    BY <2>1 DEF Greater
  <2>4. Undisturbed' /\ Walked' /\ QueueSound' /\ LaunchFresh'
    <3>1. session = "scanning" => cursor' <= pos
      BY <1>2, <1>4, <1>6, <2>2, <2>3 DEF TypeOK
    <3>2. \A i \in 2..Len(persistQueue) : persistQueue[i].kind = "block" =>
            cursor' < persistQueue[i].at
      <4>1. \A i \in 2..Len(persistQueue) : persistQueue[i].at \in 0..Tip
        BY <1>1 DEF TypeOK, Tasks, Heights
      <4> QED BY <1>3, <1>4, <2>2, <2>3, <4>1
    <3> QED BY <1>1, <1>5, <1>8, <2>1, <3>1, <3>2, SettledHead
  <2>5. NoHole'
    <3>1. ASSUME NEW h \in Early, h <= cursor' PROVE Row(h) \in saved
      <4>1. CASE cursor' = cursor
        BY <1>7, <3>1, <4>1 DEF NoHole
      <4>2. CASE cursor' = AllowedHeight(task.at)
        <5>1. h \in Heights /\ h \notin failed /\ (h < task.at \/ h = task.at)
          BY <1>4, <2>2, <3>1, <4>2 DEF Heights
        <5> QED BY <1>2, <2>1, <5>1
      <4> QED BY <2>3, <4>1, <4>2
    <3> QED BY <1>5, <1>7, <2>1, <3>1 DEF NoHole
  <2>6. GateHolds'
    BY <2>1, <2>2, <2>3 DEF GateHolds
  <2> QED BY <2>4, <2>5, <2>6
<1>12. CASE TaskDropped(task)
  <2>1. /\ task.kind # "block" /\ persistQueue' = Tail(persistQueue)
        /\ UNCHANGED <<cursor, saved, owed, failed, commands>>
    BY <1>12 DEF TaskDropped, sqlVars
  <2>2. Undisturbed' /\ Walked' /\ QueueSound' /\ LaunchFresh'
    BY <1>1, <1>3, <1>5, <1>6, <1>8, <2>1, SettledHead
  <2> QED BY <1>5, <2>1, <2>2 DEF NoHole, GateHolds
<1>13. ~ResetLands(task) /\ ~RewindLands(task) /\ ~DiscoverLands(task)
  BY <1>2 DEF ResetLands, RewindLands, DiscoverLands
<1> QED BY <1>9, <1>10, <1>11, <1>12, <1>13, PersistCases DEF task

LEMMA NextIInv ==
  ASSUME Floors = {}, Forks = {}, ~OverlappingStarts
  PROVE  IInv /\ [Next]_vars => IInv'
<1> SUFFICES ASSUME IInv, [Next]_vars PROVE IInv'
  OBVIOUS
<1>1. TypeOK'
  BY NextType DEF IInv
<1>2. CASE WorkerScan \/ WorkerSettle \/ \E f \in Forks : WorkerReorg(f)
  BY <1>1, <1>2, WorkerIInv
<1>3. CASE ChildReceive
  BY <1>1, <1>3, ChildIInv
<1>4. CASE PersistNext
  BY <1>1, <1>4, PersistIInv
<1>5. CASE \/ StartSync \/ StartSend \/ StopSync
           \/ \E floor \in Floors : AddWatchAddresses(floor)
           \/ ChildExit \/ Crash
  BY <1>1, <1>5, MainIInv
<1>6. CASE UNCHANGED vars
  <2>1. \A h, k : Covered(h, k)' = Covered(h, k)
    BY <1>6 DEF vars, chainVars, mainVars, sqlVars, Covered, Row, Write
  <2> QED
    BY <1>1, <1>6, <2>1
    DEF vars, chainVars, childVars, mainVars, sqlVars, halts, IInv, NoHole, Row,
        Undisturbed, GateHolds, Walked, QueueSound, LaunchFresh
<1> QED BY <1>2, <1>3, <1>4, <1>5, <1>6 DEF Next

\* The persisted cursor never covers a height whose block is missing from SQL:
\* however many block writes are refused, retried and given up on, and wherever
\* in between the scan is stopped or either process dies, the next launch
\* resumes at or below everything that did not land.
THEOREM NoHoleCorrect ==
  ASSUME Floors = {}, Forks = {}, ~OverlappingStarts
  PROVE  Spec => []NoHole
<1>1. Init => IInv
  BY InitIInv
<1>2. IInv /\ [Next]_vars => IInv'
  BY NextIInv
<1>3. IInv => NoHole
  BY DEF IInv
<1> QED BY <1>1, <1>2, <1>3, PTL DEF Spec

-----------------------------------------------------------------------------
(* Reorgs and discovery *)

Last == Len(persistQueue)

\* The task at i undoes the block at h; the task at i sets the cursor below h.
Undoes(i, h) == persistQueue[i].kind = "rewind" /\ persistQueue[i].at < h
Lowers(i, h) == persistQueue[i].kind \in {"reset", "rewind"} /\ persistQueue[i].at < h

Rewatching == \E i \in DOMAIN commands : commands[i].kind = "watch"

\* A branch is newer than every block that was named before it.
BranchesPast ==
  /\ \A h \in Heights : chain[h] <= reorgs
  /\ \A row \in saved : row[2] <= reorgs
  /\ \A i \in 1..Last : persistQueue[i].kind = "block" => persistQueue[i].branch <= reorgs

\* What names a block that left the chain has its undo still behind it.
OrphansUndone ==
  /\ \A row \in saved : row[2] # chain[row[1]] => \E j \in 1..Last : Undoes(j, row[1])
  /\ \A i \in 1..Last :
       persistQueue[i].kind = "block" /\ persistQueue[i].branch # chain[persistQueue[i].at] =>
         \E j \in i + 1..Last : Undoes(j, persistQueue[i].at)

\* An undo finds no row of the chain above its fork, and no such write before it.
CurrentKept ==
  \A j \in 1..Last, h \in Heights : Undoes(j, h) =>
    /\ Row(h) \notin saved
    /\ \A i \in 1..j - 1 : persistQueue[i] # Write(h)

UndoInv ==
  TypeOK /\ (Forks = {} => reorgs = 0) /\ BranchesPast /\ OrphansUndone /\ CurrentKept

\* Block h is stored, or its write is among the first n tasks.
Written(h, n) == Row(h) \in saved \/ \E j \in 1..n : persistQueue[j] = Write(h)

\* The gate holds h, and no undo among the first n tasks gave that up.
Gated(h, n) == h \in failed /\ \A j \in 1..n : ~Undoes(j, h)

\* Discovery is about to have h scanned again.
Again(h) == h \in Late /\ Rewatching

\* The cursor is at or above h only if h is stored or a later task lowers it.
CursorSound ==
  \A h \in owed : h <= cursor =>
    Row(h) \in saved \/ Again(h) \/ \E j \in 1..Last : Lowers(j, h)

\* Landing, a task would leave the cursor at or above h without having stored h.
Passes(task, h) ==
  /\ task.kind \in {"block", "advance", "reset"}
  /\ h < task.at \/ (h = task.at /\ task.kind # "block")

\* A task passes a block only if that is accounted for before it, or the cursor
\* is lowered after it.
ClaimsSound ==
  \A i \in 1..Last, h \in owed : Passes(persistQueue[i], h) =>
    \/ Written(h, i - 1) \/ Gated(h, i - 1) \/ Again(h)
    \/ \E j \in i + 1..Last : Lowers(j, h)

\* Where block writes fail, no reset names a height at or above what is owed.
ResetsLow ==
  /\ failed # {} => "block" \in Fails
  /\ \A i \in 1..Last : persistQueue[i].kind = "reset" /\ "block" \in Fails =>
       \A h \in Early \union Late : persistQueue[i].at < h

SessionKept ==
  session # "down" => \A h \in watch : h <= pos => Written(h, Last) \/ Gated(h, Last) \/ Again(h)

\* What is owed, what a session watches, and where a discovery stands.
DiscoverySound ==
  /\ owed \in {Early, Early \union Late}
  /\ session # "down" => watch = IF Rewatching THEN Early ELSE owed
  /\ Rewatching => owed = Early \union Late /\ ~(Late \subseteq Early)
  /\ Rewatching /\ session = "down" =>
       persistQueue = <<>> /\ \A h \in Early \union Late : cursor < h
  /\ \A i \in DOMAIN commands : commands[i].kind = "watch" =>
       /\ commands[i].watch = Late
       /\ \A h \in Early \union Late : Greater(Genesis, commands[i].at) < h
       /\ \A j \in DOMAIN commands : commands[j].kind = "watch" => i = j
  /\ \A i \in 1..Last : persistQueue[i].kind = "discover" =>
       /\ owed = Early /\ ~(Late \subseteq Early)
       /\ \A h \in Early \union Late : Greater(Genesis, persistQueue[i].at) < h
       /\ \A j \in 1..Last : persistQueue[j].kind = "discover" => i = j
       /\ session = "down" => i = Last
  /\ \A i \in DOMAIN commands : commands[i].kind = "stop" => ~Discovering

\* A launch starts from an SQL that nothing but a discovery has touched since.
LaunchSound ==
  /\ starting.reading => Quiet /\ starting.watch = owed
  /\ \A i \in DOMAIN commands : commands[i].kind = "start" =>
       /\ i = 1 /\ session = "down" /\ ~starting.reading
       /\ \A j \in 1..Last : persistQueue[j].kind = "discover"
       /\ \A j \in DOMAIN commands : j # 1 => commands[j].kind = "watch"
       /\ commands[i].watch = IF Rewatching THEN Early ELSE owed
       /\ \A h \in commands[i].watch : h <= commands[i].at => Row(h) \in saved \/ Again(h)

SettleInv ==
  /\ UndoInv
  /\ CursorSound /\ ClaimsSound /\ ResetsLow /\ SessionKept
  /\ DiscoverySound /\ LaunchSound

\* The undo of a reorg is lost neither to a refused write nor to a crash.
UndoReliable == Forks = {} \/ (MaxCrashes = 0 /\ "rewind" \notin Fails)

\* The situations in which SQL keeps a hole for good are left out.
SettlesWell ==
  /\ ~OverlappingStarts /\ ~StopsDuringDiscovery /\ ~ReorgAheadOfScan
  /\ MaxCrashes = 0 /\ {"reset", "rewind"} \intersect Fails = {}
  /\ \A floor \in Floors, h \in Early \union Late : Greater(Genesis, floor) < h
  /\ "block" \in Fails => \A f \in Forks, h \in Early \union Late : f < h

-----------------------------------------------------------------------------
(* What the queue becomes *)

\* The last task is t, and the others are where they were.
LEMMA Appended ==
  ASSUME persistQueue \in Seq(Tasks), NEW t \in Tasks,
         persistQueue' = persistQueue \o <<t>> \/ persistQueue' = Append(persistQueue, t)
  PROVE  /\ Last \in Nat /\ Last' = Last + 1
         /\ \A i \in 1..Last : persistQueue'[i] = persistQueue[i]
         /\ persistQueue'[Last + 1] = t
<1>1. persistQueue' = Append(persistQueue, t)
  OBVIOUS
<1> QED BY <1>1 DEF Last

\* The head is gone, and the others are one place further on.
LEMMA Popped ==
  ASSUME persistQueue \in Seq(Tasks), persistQueue # <<>>, persistQueue' = Tail(persistQueue)
  PROVE  /\ Last \in Nat \ {0} /\ Last' = Last - 1 /\ Last' \in Nat
         /\ persistQueue[1] = Head(persistQueue) /\ persistQueue[1] \in Tasks
         /\ \A i \in 1..Last' : i + 1 \in 2..Last /\ persistQueue'[i] = persistQueue[i + 1]
         /\ \A j \in 2..Last : j - 1 \in 1..Last' /\ persistQueue'[j - 1] = persistQueue[j]
<1>1. Last \in Nat \ {0} /\ persistQueue[1] = Head(persistQueue) /\ persistQueue[1] \in Tasks
  BY EmptySeq DEF Last
<1>2. Last' = Last - 1 /\ \A i \in 1..Last - 1 : persistQueue'[i] = persistQueue[i + 1]
  BY <1>1, HeadTailProperties DEF Last
<1>3. ASSUME NEW j \in 2..Last PROVE j - 1 \in 1..Last' /\ persistQueue'[j - 1] = persistQueue[j]
  <2>1. j - 1 \in 1..Last - 1 /\ (j - 1) + 1 = j
    BY <1>1
  <2> QED BY <1>2, <2>1
<1>4. ASSUME NEW i \in 1..Last' PROVE i + 1 \in 2..Last /\ persistQueue'[i] = persistQueue[i + 1]
  <2>1. i \in 1..Last - 1
    BY <1>2
  <2>2. i + 1 \in 2..Last
    BY <1>1, <2>1
  <2> QED BY <1>2, <2>1, <2>2
<1>5. Last' = Last - 1 /\ Last' \in Nat
  BY <1>1, <1>2
<1> QED BY <1>1, <1>3, <1>4, <1>5

-----------------------------------------------------------------------------
(* No orphan's row outlives its undo *)

LEMMA QueueTyped ==
  ASSUME TypeOK
  PROVE  /\ persistQueue \in Seq(Tasks) /\ Last \in Nat
         /\ \A i \in 1..Last : /\ persistQueue[i] \in Tasks /\ persistQueue[i].at \in 0..Tip
                               /\ persistQueue[i].branch \in Branches
                               /\ persistQueue[i].kind = "block" => persistQueue[i].at \in Heights
<1>1. persistQueue \in Seq(Tasks) /\ Last \in Nat /\ \A i \in 1..Last : persistQueue[i] \in Tasks
  BY LenProperties DEF TypeOK, Last
<1>2. \A t \in Tasks : /\ t.at \in 0..Tip /\ t.branch \in Branches
                       /\ t.kind = "block" => t.at \in Heights
  BY DEF Tasks, Heights
<1> QED BY <1>1, <1>2

\* A task put last that names no orphan leaves the undo of the others behind them.
LEMMA AppendKeepsUndo ==
  ASSUME UndoInv, TypeOK', NEW t \in Tasks,
         persistQueue' = persistQueue \o <<t>> \/ persistQueue' = Append(persistQueue, t),
         UNCHANGED <<chain, reorgs, saved>>,
         t.kind = "block" => t.branch = chain[t.at] /\ t.at \in Heights,
         t.kind # "rewind"
  PROVE  UndoInv'
<1>1. /\ Last \in Nat /\ Last' = Last + 1
      /\ \A i \in 1..Last : persistQueue'[i] = persistQueue[i]
      /\ persistQueue'[Last + 1] = t
  BY Appended, QueueTyped DEF UndoInv
<1>5. Last \in Nat /\ Last' = Last + 1
  BY <1>1
<1>2. \A j \in 1..Last : \A h : Undoes(j, h) => j \in 1..Last' /\ Undoes(j, h)'
  BY <1>1 DEF Undoes
<1>3. BranchesPast'
  BY <1>1 DEF UndoInv, BranchesPast
<1>4. OrphansUndone'
  <2>1. \A row \in saved : row[2] # chain[row[1]] => \E j \in 1..Last' : Undoes(j, row[1])'
    BY <1>2 DEF UndoInv, OrphansUndone
  <2>2. ASSUME NEW i \in 1..Last', persistQueue'[i].kind = "block",
               persistQueue'[i].branch # chain[persistQueue'[i].at]
        PROVE  \E j \in i + 1..Last' : Undoes(j, persistQueue[i].at)'
    <3>1. i \in 1..Last
      BY <1>1, <2>2
    <3>2. PICK j \in i + 1..Last : Undoes(j, persistQueue[i].at)
      BY <1>1, <2>2, <3>1 DEF UndoInv, OrphansUndone
    <3>3. j \in 1..Last /\ j \in i + 1..Last'
      BY <1>5, <3>1, <3>2
    <3> QED BY <1>1, <1>2, <3>1, <3>2, <3>3
  <2> QED BY <2>1, <2>2 DEF OrphansUndone
<1>6. CurrentKept'
  <2> SUFFICES ASSUME NEW j \in 1..Last', NEW h \in Heights, Undoes(j, h)'
               PROVE  /\ Row(h) \notin saved
                      /\ \A i \in 1..j - 1 : persistQueue'[i] # Write(h)
    BY DEF CurrentKept, Row, Write
  <2>1. j \in 1..Last
    <3>1. j # Last + 1
      BY <1>1 DEF Undoes
    <3> QED BY <1>5, <3>1
  <2>2. Undoes(j, h)
    BY <1>1, <2>1 DEF Undoes
  <2>3. \A i \in 1..j - 1 : i \in 1..Last
    BY <1>5, <2>1
  <2> QED BY <1>1, <2>1, <2>2, <2>3 DEF UndoInv, CurrentKept
<1> QED BY <1>3, <1>4, <1>6 DEF UndoInv

\* A task that settles takes no undo with it but its own.
LEMMA PopKeepsUndo ==
  ASSUME UndoInv, TypeOK', persistQueue # <<>>, persistQueue' = Tail(persistQueue),
         UNCHANGED <<chain, reorgs>>,
         \A row \in saved' : row \in saved \/ (/\ persistQueue[1].kind = "block"
                                              /\ row = <<persistQueue[1].at, persistQueue[1].branch>>),
         persistQueue[1].kind = "rewind" =>
           Forks = {} \/ \A row \in saved' : row[1] <= persistQueue[1].at
  PROVE  UndoInv'
<1> USE DEF UndoInv
<1>1. /\ Last \in Nat \ {0} /\ Last' = Last - 1 /\ Last' \in Nat
      /\ persistQueue[1] = Head(persistQueue) /\ persistQueue[1] \in Tasks
      /\ \A i \in 1..Last' : i + 1 \in 2..Last /\ persistQueue'[i] = persistQueue[i + 1]
      /\ \A j \in 2..Last : j - 1 \in 1..Last' /\ persistQueue'[j - 1] = persistQueue[j]
  BY Popped, QueueTyped
<1>5. Last \in Nat \ {0} /\ Last' = Last - 1 /\ Last' \in Nat
  BY <1>1
<1>2. \A j \in 2..Last : \A h : Undoes(j, h) => j - 1 \in 1..Last' /\ Undoes(j - 1, h)'
  BY <1>1 DEF Undoes
<1>3. BranchesPast'
  <2>1. \A row \in saved' : row[2] <= reorgs
    BY <1>1 DEF BranchesPast
  <2>2. ASSUME NEW i \in 1..Last', persistQueue'[i].kind = "block"
        PROVE  persistQueue'[i].branch <= reorgs
    <3>1. i + 1 \in 1..Last
      BY <1>1, <1>5, <2>2
    <3> QED BY <1>1, <2>2, <3>1 DEF BranchesPast
  <2> QED BY <2>1, <2>2 DEF BranchesPast
<1>4. OrphansUndone'
  <2>1. ASSUME NEW row \in saved', row[2] # chain[row[1]]
        PROVE  \E j \in 1..Last' : Undoes(j, row[1])'
    <3>1. CASE row \in saved
      <4>1. PICK j \in 1..Last : Undoes(j, row[1])
        BY <2>1, <3>1 DEF OrphansUndone
      <4>2. row \in Heights \X Branches /\ row[2] <= reorgs /\ chain[row[1]] <= reorgs
        BY <3>1 DEF TypeOK, BranchesPast
      <4>3. j # 1
        <5>1. CASE Forks = {}
          <6>1. reorgs = 0 /\ row[2] \in Nat /\ chain[row[1]] \in Nat
            BY <4>2, <5>1 DEF TypeOK, Branches
          <6> QED BY <2>1, <4>2, <6>1
        <5>2. CASE Forks # {}
          <6>1. persistQueue[1].kind = "rewind" => row[1] <= persistQueue[1].at
            BY <2>1, <5>2
          <6>2. row[1] \in Int /\ persistQueue[1].at \in Int
            BY <1>1, <4>2, QueueTyped, ConstantsAssumption DEF Heights
          <6> QED BY <4>1, <6>1, <6>2 DEF Undoes
        <5> QED BY <5>1, <5>2
      <4> QED BY <1>1, <1>2, <4>1, <4>3
    <3>2. CASE row \notin saved
      <4>1. persistQueue[1].kind = "block" /\ row = <<persistQueue[1].at, persistQueue[1].branch>>
        BY <2>1, <3>2
      <4>2. PICK j \in 1 + 1..Last : Undoes(j, persistQueue[1].at)
        BY <1>1, <2>1, <4>1 DEF OrphansUndone
      <4> QED BY <1>2, <4>1, <4>2
    <3> QED BY <3>1, <3>2
  <2>2. ASSUME NEW i \in 1..Last', persistQueue'[i].kind = "block",
               persistQueue'[i].branch # chain[persistQueue'[i].at]
        PROVE  \E j \in i + 1..Last' : Undoes(j, persistQueue[i].at)'
    <3>1. i + 1 \in 1..Last /\ persistQueue'[i] = persistQueue[i + 1]
      <4>1. i \in 1..Last' /\ i + 1 \in 2..Last
        BY <1>1, <2>2
      <4>2. i + 1 \in 1..Last
        BY <1>5, <4>1
      <4> QED BY <1>1, <4>1, <4>2
    <3>2. PICK j \in (i + 1) + 1..Last : Undoes(j, persistQueue[i + 1].at)
      BY <2>2, <3>1 DEF OrphansUndone
    <3>3. j \in 2..Last /\ j - 1 \in i + 1..Last'
      BY <1>5, <2>2, <3>2
    <3> QED BY <1>2, <3>1, <3>2, <3>3
  <2> QED BY <2>1, <2>2 DEF OrphansUndone
<1>6. CurrentKept'
  <2> SUFFICES ASSUME NEW j \in 1..Last', NEW h \in Heights, Undoes(j, h)'
               PROVE  /\ Row(h) \notin saved'
                      /\ \A i \in 1..j - 1 : persistQueue'[i] # Write(h)
    BY DEF CurrentKept, Row, Write
  <2>1. j + 1 \in 1..Last /\ Undoes(j + 1, h)
    <3>1. j + 1 \in 2..Last /\ persistQueue'[j] = persistQueue[j + 1]
      BY <1>1
    <3>2. j + 1 \in 1..Last
      BY <1>5, <3>1
    <3> QED BY <3>1, <3>2 DEF Undoes
  <2>2. Row(h) \notin saved /\ \A i \in 1..(j + 1) - 1 : persistQueue[i] # Write(h)
    BY <2>1 DEF CurrentKept
  <2>3. Row(h) \notin saved'
    <3>1. SUFFICES ASSUME persistQueue[1].kind = "block",
                          Row(h) = <<persistQueue[1].at, persistQueue[1].branch>>
                   PROVE  FALSE
      BY <2>2
    <3>2. persistQueue[1] = Write(h)
      <4>1. persistQueue[1].at = h /\ persistQueue[1].branch = chain[h]
        BY <3>1 DEF Row
      <4>2. persistQueue[1] = [kind |-> persistQueue[1].kind, at |-> persistQueue[1].at,
                               branch |-> persistQueue[1].branch]
        BY <1>1 DEF Tasks
      <4> QED BY <3>1, <4>1, <4>2 DEF Write
    <3>3. 1 \in 1..(j + 1) - 1
      BY <1>5
    <3> QED BY <2>2, <3>2, <3>3
  <2>4. ASSUME NEW i \in 1..j - 1 PROVE persistQueue'[i] # Write(h)
    <3>1. i \in 1..Last' /\ i + 1 \in 1..(j + 1) - 1
      BY <1>5, <2>4
    <3> QED BY <1>1, <2>2, <3>1
  <2> QED BY <2>3, <2>4
<1> QED BY <1>3, <1>4, <1>6

LEMMA UndoStays ==
  ASSUME UndoInv, TypeOK', UNCHANGED <<chain, reorgs, persistQueue>>, saved' \subseteq saved
  PROVE  UndoInv'
BY DEF UndoInv, BranchesPast, OrphansUndone, CurrentKept, Undoes, Last, Row, Write

LEMMA Numbers ==
  /\ \A h \in Heights : h \in Int /\ h \in 1..Tip /\ h \in 0..Tip
  /\ \A b \in Branches : b \in Nat
  /\ \A h \in 0..Tip : h \in Int
BY ConstantsAssumption DEF Heights, Branches

\* The undo a reorg sends comes behind every write of what it orphans.
LEMMA ReorgKeepsUndo ==
  ASSUME UndoInv, TypeOK', NEW f \in Forks, WorkerReorg(f)
  PROVE  UndoInv'
<1>0. /\ TypeOK /\ (Forks = {} => reorgs = 0)
       /\ BranchesPast /\ OrphansUndone /\ CurrentKept
  BY DEF UndoInv
<1>1. PICK reset : reset = Task("reset", f)
  OBVIOUS
<1>2. PICK rewind : rewind = Task("rewind", f)
  OBVIOUS
<1>3. /\ reset.kind = "reset" /\ reset.at = f
      /\ rewind.kind = "rewind" /\ rewind.at = f
      /\ f \in Heights /\ f \in Int
  BY <1>1, <1>2, ConstantsAssumption, Numbers DEF Task
<1>4. /\ reorgs' = reorgs + 1 /\ saved' = saved /\ Forks # {}
      /\ chain' = [h \in Heights |-> IF h > f THEN reorgs + 1 ELSE chain[h]]
      /\ persistQueue' = persistQueue \o <<reset, rewind>>
  BY <1>1, <1>2 DEF WorkerReorg, Emit, sqlVars
<1>5. PICK n \in Nat : /\ n = Last /\ n + 2 = Last'
                       /\ \A i \in 1..n : persistQueue'[i] = persistQueue[i]
                       /\ persistQueue'[n + 1] = reset /\ persistQueue'[n + 2] = rewind
  <2>1. PICK n \in Nat : n = Last
    BY <1>0, QueueTyped
  <2>2. persistQueue \in Seq(Tasks)
    BY <1>0, QueueTyped
  <2> QED BY <1>4, <2>1, <2>2 DEF Last
<1>6. n \in Nat /\ Last = n /\ Last' = n + 2 /\ n + 2 \in 1..n + 2 /\ reorgs \in Nat
  BY <1>0, <1>5 DEF TypeOK, Branches
<1>7. /\ \A j \in 1..n : \A h : Undoes(j, h) => j \in 1..n + 2 /\ Undoes(j, h)'
      /\ \A h : f < h => Undoes(n + 2, h)'
  BY <1>3, <1>5, <1>6 DEF Undoes
<1>8. /\ \A h \in Heights : h <= f => chain'[h] = chain[h]
      /\ \A h \in Heights : f < h => chain'[h] = reorgs + 1
  BY <1>3, <1>4
<1>9. /\ \A h \in Heights : h \in Int /\ chain[h] \in Nat /\ chain[h] <= reorgs
      /\ \A row \in saved : row[1] \in Heights /\ row[2] \in Nat /\ row[2] <= reorgs
  <2>1. \A h \in Heights : h \in Int /\ chain[h] \in Nat /\ chain[h] <= reorgs
    <3>1. \A h \in Heights : chain[h] \in Branches
      BY <1>0 DEF TypeOK
    <3> QED BY <1>0, <3>1, Numbers DEF BranchesPast
  <2>2. \A row \in saved : row \in Heights \X Branches /\ row[2] <= reorgs
    BY <1>0 DEF TypeOK, BranchesPast
  <2>3. \A row \in saved : row[1] \in Heights /\ row[2] \in Branches
    BY <2>2
  <2> QED BY <2>1, <2>2, <2>3, Numbers
<1>10. \A i \in 1..n + 2 : persistQueue'[i].kind \notin {"reset", "rewind"} => i \in 1..n
  <2> SUFFICES ASSUME NEW i \in 1..n + 2, i \notin 1..n
               PROVE  persistQueue'[i].kind \in {"reset", "rewind"}
    OBVIOUS
  <2>1. i = n + 1 \/ i = n + 2
    BY <1>6
  <2> QED BY <1>3, <1>5, <2>1
<1>11. BranchesPast'
  <2>1. \A h \in Heights : chain'[h] <= reorgs'
    BY <1>3, <1>4, <1>6, <1>8, <1>9
  <2>2. \A row \in saved : row[2] <= reorgs'
    BY <1>4, <1>6, <1>9
  <2>3. ASSUME NEW i \in 1..n + 2, persistQueue'[i].kind = "block"
        PROVE  persistQueue'[i].branch <= reorgs'
    <3>1. i \in 1..n /\ persistQueue'[i] = persistQueue[i]
      BY <1>5, <1>10, <2>3
    <3>2. persistQueue[i].branch <= reorgs /\ persistQueue[i].branch \in Nat
      <4>1. persistQueue[i].branch \in Branches
        BY <1>0, <1>6, <3>1, QueueTyped
      <4>2. persistQueue[i].branch <= reorgs
        BY <1>0, <1>6, <2>3, <3>1 DEF BranchesPast
      <4> QED BY <4>1, <4>2, Numbers
    <3>3. reorgs' = reorgs + 1 /\ reorgs \in Nat
      BY <1>4, <1>6
    <3> QED BY <3>1, <3>2, <3>3
  <2> QED BY <1>4, <1>6, <2>1, <2>2, <2>3 DEF BranchesPast
<1>12. OrphansUndone'
  <2>1. ASSUME NEW row \in saved, row[2] # chain'[row[1]]
        PROVE  \E j \in 1..n + 2 : Undoes(j, row[1])'
    <3>1. CASE f < row[1]
      BY <1>6, <1>7, <3>1
    <3>2. CASE ~(f < row[1])
      <4>1. row[1] \in Heights /\ row[1] <= f
        <5>1. row[1] \in Heights
          BY <1>9, <2>1
        <5>2. row[1] \in Int /\ f \in Int
          BY <1>3, <5>1, Numbers
        <5> QED BY <3>2, <5>1, <5>2
      <4>2. PICK j \in 1..n : Undoes(j, row[1])
        BY <1>0, <1>6, <1>8, <2>1, <4>1 DEF OrphansUndone
      <4> QED BY <1>7, <4>2
    <3> QED BY <3>1, <3>2
  <2>2. ASSUME NEW i \in 1..n + 2, persistQueue'[i].kind = "block",
               persistQueue'[i].branch # chain'[persistQueue'[i].at]
        PROVE  \E j \in i + 1..n + 2 : Undoes(j, persistQueue[i].at)'
    <3>1. i \in 1..n /\ persistQueue'[i] = persistQueue[i]
      BY <1>5, <1>10, <2>2
    <3>2. persistQueue[i].at \in Heights
      BY <1>0, <1>6, <2>2, <3>1, QueueTyped
    <3>3. CASE f < persistQueue[i].at
      <4>1. n + 2 \in i + 1..n + 2
        BY <1>6, <3>1
      <4> QED BY <1>7, <3>1, <3>3, <4>1
    <3>4. CASE ~(f < persistQueue[i].at)
      <4>1. persistQueue[i].at <= f
        <5>1. persistQueue[i].at \in Int /\ f \in Int
          BY <1>3, <3>2, Numbers
        <5> QED BY <3>4, <5>1
      <4>2. PICK j \in i + 1..n : Undoes(j, persistQueue[i].at)
        BY <1>0, <1>6, <1>8, <2>2, <3>1, <3>2, <4>1 DEF OrphansUndone
      <4>3. j \in 1..n /\ j \in i + 1..n + 2
        BY <1>6, <3>1, <4>2
      <4> QED BY <1>7, <3>1, <4>2, <4>3
    <3> QED BY <3>3, <3>4
  <2> QED BY <1>4, <1>6, <2>1, <2>2 DEF OrphansUndone
<1>13. CurrentKept'
  <2> SUFFICES ASSUME NEW j \in 1..n + 2, NEW h \in Heights, Undoes(j, h)'
               PROVE  /\ <<h, chain'[h]>> \notin saved
                      /\ \A i \in 1..j - 1 : persistQueue'[i] # Write(h)'
    BY <1>4, <1>6 DEF CurrentKept, Row
  <2>1. CASE f < h
    <3>1. <<h, chain'[h]>> \notin saved
      BY <1>6, <1>8, <1>9, <2>1
    <3>2. ASSUME NEW i \in 1..j - 1, persistQueue'[i] = Write(h)' PROVE FALSE
      <4>1. persistQueue'[i].kind = "block" /\ persistQueue'[i].branch = reorgs + 1
        BY <1>8, <2>1, <3>2 DEF Write
      <4>2. i \in 1..n + 2
        BY <1>6
      <4>3. i \in 1..n /\ persistQueue[i] = persistQueue'[i]
        BY <1>5, <1>10, <4>1, <4>2
      <4>4. reorgs + 1 <= reorgs
        BY <1>0, <1>6, <4>1, <4>3 DEF BranchesPast
      <4> QED BY <1>6, <4>4
    <3> QED BY <3>1, <3>2
  <2>2. CASE ~(f < h)
    <3>1. h <= f /\ chain'[h] = chain[h] /\ Write(h)' = Write(h)
      BY <1>3, <1>8, <1>9, <2>2 DEF Write
    <3>2. j \in 1..n
      <4>1. j # n + 2 /\ j # n + 1
        BY <1>3, <1>5, <2>2 DEF Undoes
      <4> QED BY <1>6, <4>1
    <3>3. Undoes(j, h) /\ \A i \in 1..j - 1 : i \in 1..n
      BY <1>5, <1>6, <3>2 DEF Undoes
    <3> QED BY <1>0, <1>5, <3>1, <3>2, <3>3 DEF CurrentKept, Row
  <2> QED BY <2>1, <2>2
<1> QED BY <1>4, <1>11, <1>12, <1>13, <1>0 DEF UndoInv

\* All the child posts on a command is where it steps down to.
LEMMA ChildEmits ==
  ASSUME TypeOK, ChildReceive
  PROVE  UNCHANGED persistQueue \/ \E h \in 0..Tip : Emit(<<Task("reset", h)>>)
<1>1. PICK cmd : cmd = Head(commands)
  OBVIOUS
<1>2. cmd \in Commands /\ pos \in 0..Tip
  BY <1>1, HeadTailProperties DEF TypeOK, ChildReceive
<1>3. cmd.at \in {NoRow} \union 0..Tip
  BY <1>2 DEF Commands
<1>4. Lesser(pos + 1, Greater(Genesis, cmd.at)) \in 0..Tip
  BY <1>2, <1>3, ConstantsAssumption DEF Lesser, Greater, Genesis, NoRow
<1> QED BY <1>1, <1>4
        DEF ChildReceive, ChildStart, ChildStop, ChildWatch, ChildReseed

LEMMA NextUndo ==
  ASSUME UndoReliable
  PROVE  UndoInv /\ [Next]_vars => UndoInv'
<1> SUFFICES ASSUME UndoInv, [Next]_vars PROVE UndoInv'
  OBVIOUS
<1>1. TypeOK /\ TypeOK' /\ persistQueue \in Seq(Tasks)
  BY NextType, QueueTyped DEF UndoInv
<1>2. CASE WorkerScan
  <2>1. UNCHANGED <<chain, reorgs, saved>>
    BY <1>2 DEF WorkerScan, chainVars, sqlVars
  <2>2. CASE pos + 1 \in watch
    <3>1. PICK t : t = [Task("block", pos + 1) EXCEPT !.branch = chain[pos + 1]]
      OBVIOUS
    <3>2. t = [kind |-> "block", at |-> pos + 1, branch |-> chain[pos + 1]]
      BY <3>1 DEF Task
    <3>3. pos + 1 \in Heights /\ chain[pos + 1] \in Branches
      BY <1>1, <2>2 DEF TypeOK
    <3>4. t \in Tasks
      BY <3>2, <3>3 DEF Tasks
    <3>5. persistQueue' = persistQueue \o <<t>>
      BY <1>2, <2>2, <3>1 DEF WorkerScan, Emit
    <3>6. t.kind = "block" /\ t.kind # "rewind" /\ t.branch = chain[t.at] /\ t.at \in Heights
      BY <3>2, <3>3
    <3> QED BY <1>1, <2>1, <3>4, <3>5, <3>6, AppendKeepsUndo
  <2>3. CASE pos + 1 \notin watch
    BY <1>1, <1>2, <2>1, <2>3, UndoStays DEF WorkerScan
  <2> QED BY <2>2, <2>3
<1>3. CASE WorkerSettle
  <2>1. PICK t : t = Task("advance", pos)
    OBVIOUS
  <2>2. t \in Tasks /\ t.kind = "advance" /\ persistQueue' = persistQueue \o <<t>>
    BY <1>1, <1>3, <2>1, TaskType DEF WorkerSettle, Emit, Task, TypeOK, Kinds
  <2>3. UNCHANGED <<chain, reorgs, saved>>
    BY <1>3 DEF WorkerSettle, chainVars, sqlVars
  <2> QED BY <1>1, <2>2, <2>3, AppendKeepsUndo
<1>4. CASE \E f \in Forks : WorkerReorg(f)
  BY <1>1, <1>4, ReorgKeepsUndo
<1>5. CASE ChildReceive
  <2>1. UNCHANGED <<chain, reorgs, saved>>
    BY <1>5 DEF ChildReceive, chainVars, sqlVars
  <2>2. \/ UNCHANGED persistQueue
        \/ \E h \in 0..Tip : Emit(<<Task("reset", h)>>)
    BY <1>1, <1>5, ChildEmits
  <2>3. ASSUME NEW h \in 0..Tip, Emit(<<Task("reset", h)>>) PROVE UndoInv'
    <3>1. PICK t : t = Task("reset", h)
      OBVIOUS
    <3>2. t \in Tasks /\ t.kind = "reset" /\ persistQueue' = persistQueue \o <<t>>
      BY <1>1, <2>3, <3>1, TaskType DEF Emit, Task, Kinds
    <3> QED BY <1>1, <2>1, <3>2, AppendKeepsUndo
  <2> QED BY <1>1, <2>1, <2>2, <2>3, UndoStays
<1>6. CASE PersistNext
  <2>1. PICK t : t = Head(persistQueue)
    OBVIOUS
  <2>2. /\ persistQueue # <<>> /\ t = persistQueue[1]
        /\ UNCHANGED <<chain, reorgs>>
    BY <1>1, <1>6, <2>1, EmptySeq DEF PersistNext, chainVars
  <2>3. CASE BlockLands(t)
    BY <1>1, <2>2, <2>3, PopKeepsUndo DEF BlockLands
  <2>4. CASE BlockRefused(t)
    BY <1>1, <2>2, <2>4, PopKeepsUndo, UndoStays DEF BlockRefused, sqlVars
  <2>5. CASE AdvanceLands(t) \/ ResetLands(t) \/ DiscoverLands(t)
    BY <1>1, <2>2, <2>5, PopKeepsUndo DEF AdvanceLands, ResetLands, DiscoverLands
  <2>6. CASE RewindLands(t)
    BY <1>1, <2>2, <2>6, PopKeepsUndo DEF RewindLands
  <2>7. CASE TaskDropped(t)
    <3>1. t.kind = "rewind" => Forks = {}
      BY <2>7 DEF TaskDropped, UndoReliable
    <3> QED BY <1>1, <2>2, <2>7, <3>1, PopKeepsUndo DEF TaskDropped, sqlVars
  <2> QED BY <1>6, <2>1, <2>3, <2>4, <2>5, <2>6, <2>7, PersistCases
<1>7. CASE StartSync \/ StartSend \/ StopSync \/ ChildExit
  BY <1>1, <1>7, UndoStays
  DEF StartSync, StartSend, StopSync, ChildExit, chainVars, mainVars, sqlVars
<1>8. ASSUME NEW floor \in Floors, AddWatchAddresses(floor) PROVE UndoInv'
  <2>1. PICK t : t = Task("discover", floor)
    OBVIOUS
  <2>2. t \in Tasks /\ t.kind = "discover" /\ persistQueue' = Append(persistQueue, t)
    BY <1>1, <1>8, <2>1, TaskType, ConstantsAssumption DEF AddWatchAddresses, Task, Kinds
  <2>3. UNCHANGED <<chain, reorgs, saved>>
    BY <1>8 DEF AddWatchAddresses, chainVars, sqlVars
  <2> QED BY <1>1, <2>2, <2>3, AppendKeepsUndo
<1>9. CASE Crash
  <2>1. UNCHANGED <<chain, reorgs, saved>> /\ persistQueue' = <<>>
    BY <1>9 DEF Crash, chainVars, sqlVars
  <2>2. Forks = {}
    BY <1>1, <1>9 DEF Crash, UndoReliable, TypeOK
  <2>3. BranchesPast' /\ CurrentKept' /\ (Forks = {} => reorgs' = 0)
    BY <2>1 DEF UndoInv, BranchesPast, CurrentKept, Last
  <2>4. ASSUME NEW row \in saved PROVE row[2] = chain[row[1]]
    <3>1. row[1] \in Heights /\ row[2] \in Branches /\ chain[row[1]] \in Branches
      BY <1>1, <2>4 DEF TypeOK
    <3>2. row[2] <= 0 /\ chain[row[1]] <= 0
      BY <2>2, <2>4, <3>1 DEF UndoInv, BranchesPast
    <3> QED BY <3>1, <3>2, Numbers
  <2>5. OrphansUndone'
    BY <2>1, <2>4 DEF OrphansUndone, Last
  <2> QED BY <1>1, <2>3, <2>5 DEF UndoInv
<1>10. CASE UNCHANGED vars
  BY <1>1, <1>10, UndoStays DEF vars, chainVars, mainVars, sqlVars
<1> QED BY <1>2, <1>3, <1>4, <1>5, <1>6, <1>7, <1>8, <1>9, <1>10 DEF Next

LEMMA InitUndo == Init => UndoInv
<1> SUFFICES ASSUME Init PROVE UndoInv
  OBVIOUS
<1>1. TypeOK
  BY InitType
<1>2. BranchesPast /\ OrphansUndone /\ CurrentKept
  BY DEF Init, BranchesPast, OrphansUndone, CurrentKept, Last
<1> QED BY <1>1, <1>2 DEF Init, UndoInv

\* A reorg's undo runs behind every write of what it orphans, also of a block
\* whose write was still in the child's port when the chain moved on: with the
\* queue drained no row names a block that left the chain, whatever else is
\* refused, stopped, discovered or started over a live session.
THEOREM OrphansLeaveNoRow ==
  ASSUME UndoReliable
  PROVE  Spec => []NoOrphanRow
<1>1. UndoInv => NoOrphanRow
  <2> SUFFICES ASSUME UndoInv, persistQueue = <<>>, NEW row \in saved PROVE row = Row(row[1])
    BY DEF NoOrphanRow
  <2>1. row = <<row[1], row[2]>>
    BY DEF UndoInv, TypeOK
  <2>2. row[2] = chain[row[1]]
    BY DEF UndoInv, OrphansUndone, Last
  <2> QED BY <2>1, <2>2 DEF Row
<1> QED BY <1>1, InitUndo, NextUndo, PTL DEF Spec

-----------------------------------------------------------------------------
(* SQL is whole again once the queue has drained *)

LEMMA OwedHeights ==
  ASSUME TypeOK
  PROVE  owed \subseteq Heights /\ watch \subseteq Heights /\ \A h \in Heights : h \in Int /\ h > 0
BY Numbers, ConstantsAssumption DEF TypeOK, Heights

\* A task put last passes only what it may, and what the others may pass stays.
LEMMA AppendKeeps ==
  ASSUME SettleInv, TypeOK', NEW t \in Tasks,
         persistQueue' = persistQueue \o <<t>> \/ persistQueue' = Append(persistQueue, t),
         UNCHANGED <<chain, saved, failed, cursor, owed>>,
         t.kind # "rewind",
         t.kind = "reset" /\ "block" \in Fails => \A h \in Early \union Late : t.at < h,
         \A h \in owed : Passes(t, h) => Written(h, Last) \/ Gated(h, Last) \/ Again(h)',
         \A h \in owed : Again(h) => Again(h)' \/ (t.kind = "reset" /\ t.at < h)
  PROVE  /\ CursorSound' /\ ClaimsSound' /\ ResetsLow'
         /\ \A h : Written(h, Last) => Written(h, Last)'
         /\ \A h : Gated(h, Last) => Gated(h, Last)'
         /\ \A h : t = Write(h) => Written(h, Last)'
<1>0. TypeOK /\ CursorSound /\ ClaimsSound /\ ResetsLow
  BY DEF SettleInv, UndoInv
<1>1. PICK n \in Nat : /\ n = Last /\ n + 1 = Last'
                       /\ \A i \in 1..n : persistQueue'[i] = persistQueue[i]
                       /\ persistQueue'[n + 1] = t
  BY <1>0, Appended, QueueTyped
<1>2. \A h : Row(h)' = Row(h) /\ Write(h)' = Write(h)
  BY DEF Row, Write
<1>3. ASSUME NEW h, NEW k \in 0..n
      PROVE  (Written(h, k) => Written(h, k)') /\ (Gated(h, k) => Gated(h, k)')
  <2>1. \A j \in 1..k : j \in 1..n /\ persistQueue'[j] = persistQueue[j]
    BY <1>1
  <2> QED BY <1>2, <2>1 DEF Written, Gated, Undoes
<1>4. ASSUME NEW h, Written(h, n) PROVE Written(h, n + 1)'
  <2>1. Written(h, n)' /\ \A j \in 1..n : j \in 1..n + 1
    BY <1>3, <1>4
  <2> QED BY <2>1 DEF Written
<1>5. \A h : Gated(h, n) => Gated(h, n + 1)'
  <2> SUFFICES ASSUME NEW h, Gated(h, n), NEW j \in 1..n + 1 PROVE ~Undoes(j, h)'
    BY DEF Gated
  <2>1. CASE j = n + 1
    BY <1>1, <2>1 DEF Undoes
  <2>2. CASE j # n + 1
    <3>1. j \in 1..n
      BY <2>2
    <3> QED BY <1>1, <3>1 DEF Gated, Undoes
  <2> QED BY <2>1, <2>2
<1>6. \A h : t = Write(h) => Written(h, n + 1)'
  <2>1. n + 1 \in 1..n + 1
    OBVIOUS
  <2> QED BY <1>1, <1>2, <2>1 DEF Written
<1>7. /\ \A j \in 1..n : \A h : Lowers(j, h) => j \in 1..n + 1 /\ Lowers(j, h)'
      /\ \A h : t.kind = "reset" /\ t.at < h => Lowers(n + 1, h)'
  BY <1>1 DEF Lowers
<1>8. CursorSound'
  <2> SUFFICES ASSUME NEW h \in owed, h <= cursor
               PROVE  Row(h) \in saved \/ Again(h)' \/ \E j \in 1..n + 1 : Lowers(j, h)'
    BY <1>1, <1>2 DEF CursorSound
  <2>1. n + 1 \in 1..n + 1
    OBVIOUS
  <2>2. Row(h) \in saved \/ Again(h) \/ \E j \in 1..n : Lowers(j, h)
    BY <1>0, <1>1 DEF CursorSound
  <2> QED BY <1>7, <2>1, <2>2
<1>9. ClaimsSound'
  <2> SUFFICES ASSUME NEW i \in 1..n + 1, NEW h \in owed, Passes(persistQueue'[i], h)
               PROVE  \/ Written(h, i - 1)' \/ Gated(h, i - 1)' \/ Again(h)'
                      \/ \E j \in i + 1..n + 1 : Lowers(j, h)'
    BY <1>1 DEF ClaimsSound
  <2>1. CASE i = n + 1
    <3>1. Passes(t, h) /\ i - 1 = n
      BY <1>1, <2>1
    <3> QED BY <1>1, <1>3, <3>1
  <2>2. CASE i # n + 1
    <3>1. i \in 1..n /\ i - 1 \in 0..n /\ n + 1 \in i + 1..n + 1
      BY <2>2
    <3>2. \/ Written(h, i - 1) \/ Gated(h, i - 1) \/ Again(h)
          \/ \E j \in i + 1..n : Lowers(j, h)
      BY <1>0, <1>1, <3>1 DEF ClaimsSound
    <3>3. \A j \in i + 1..n : j \in 1..n /\ j \in i + 1..n + 1
      BY <3>1
    <3> QED BY <1>3, <1>7, <3>1, <3>2, <3>3
  <2> QED BY <2>1, <2>2
<1>10. ResetsLow'
  <2>1. ASSUME NEW i \in 1..n + 1, persistQueue'[i].kind = "reset", "block" \in Fails,
               NEW h \in Early \union Late
        PROVE  persistQueue'[i].at < h
    <3>1. CASE i = n + 1
      BY <1>1, <2>1, <3>1
    <3>2. CASE i # n + 1
      <4>1. i \in 1..n
        BY <3>2
      <4> QED BY <1>0, <1>1, <2>1, <4>1 DEF ResetsLow
    <3> QED BY <3>1, <3>2
  <2> QED BY <1>0, <1>1, <2>1 DEF ResetsLow
<1> QED BY <1>1, <1>4, <1>5, <1>6, <1>8, <1>9, <1>10

\* What a task that settles leaves accounted for: its own block is stored or
\* gated, and the gate gives up only what an undo behind it does.
LEMMA PopShifts ==
  ASSUME SettleInv, persistQueue # <<>>, persistQueue' = Tail(persistQueue), UNCHANGED chain,
         \A h \in Heights : Row(h) \in saved => Row(h) \in saved' \/ Again(h)',
         \A h \in Heights : persistQueue[1] = Write(h) => Row(h) \in saved' \/ h \in failed',
         \A h \in failed : \/ h \in failed' \/ Row(h) \in saved'
                           \/ \E j \in 2..Last : Undoes(j, h),
         NEW h \in Heights, NEW k \in 0..Last
  PROVE  /\ Written(h, k) => Written(h, k - 1)' \/ Gated(h, k - 1)' \/ Again(h)'
         /\ k # 0 /\ Gated(h, k) =>
              \/ Written(h, k - 1)' \/ Gated(h, k - 1)'
              \/ \E j \in k + 1..Last : Undoes(j, h)
<1>0. TypeOK /\ CurrentKept
  BY DEF SettleInv, UndoInv
<1>1. /\ Last \in Nat \ {0} /\ Last' = Last - 1 /\ Last' \in Nat
      /\ \A i \in 1..Last' : i + 1 \in 2..Last /\ persistQueue'[i] = persistQueue[i + 1]
      /\ \A j \in 2..Last : j - 1 \in 1..Last' /\ persistQueue'[j - 1] = persistQueue[j]
  BY <1>0, Popped, QueueTyped
<1>2. PICK n \in Nat : n = Last /\ n > 0 /\ n - 1 = Last'
  BY <1>1
<1>3. Row(h)' = Row(h) /\ Write(h)' = Write(h)
  BY DEF Row, Write
<1>4. \A i \in 1..k - 1 : i + 1 \in 1..k /\ i + 1 \in 2..n /\ i \in 1..n - 1
  BY <1>2
<1>5. \A i \in 1..k - 1 : i + 1 \in 1..k /\ (Undoes(i, h)' => Undoes(i + 1, h))
  <2>1. \A i \in 1..k - 1 : persistQueue'[i] = persistQueue[i + 1]
    BY <1>1, <1>2, <1>4
  <2> QED BY <1>4, <2>1 DEF Undoes
<1>6. ASSUME Written(h, k) PROVE Written(h, k - 1)' \/ Gated(h, k - 1)' \/ Again(h)'
  <2>1. CASE Row(h) \in saved
    BY <1>3, <2>1 DEF Written
  <2>2. ASSUME NEW j \in 1..k, persistQueue[j] = Write(h)
        PROVE  Written(h, k - 1)' \/ Gated(h, k - 1)'
    <3>1. CASE j = 1
      <4>1. CASE Row(h) \in saved'
        BY <1>3, <4>1 DEF Written
      <4>2. CASE h \in failed'
        <5>1. ASSUME NEW i \in 1..k - 1, Undoes(i, h)' PROVE FALSE
          <6>1. i + 1 \in 1..Last /\ 1 \in 1..(i + 1) - 1 /\ Undoes(i + 1, h)
            BY <1>2, <1>4, <1>5, <5>1
          <6> QED BY <1>0, <2>2, <3>1, <6>1 DEF CurrentKept
        <5> QED BY <4>2, <5>1 DEF Gated
      <4> QED BY <2>2, <3>1, <4>1, <4>2
    <3>2. CASE j # 1
      <4>1. j \in 2..Last /\ j - 1 \in 1..k - 1
        BY <1>2, <2>2, <3>2
      <4>2. persistQueue'[j - 1] = persistQueue[j]
        BY <1>1, <4>1
      <4> QED BY <1>3, <2>2, <4>1, <4>2 DEF Written
    <3> QED BY <3>1, <3>2
  <2> QED BY <1>6, <2>1, <2>2 DEF Written
<1>7. ASSUME k # 0, Gated(h, k)
      PROVE  \/ Written(h, k - 1)' \/ Gated(h, k - 1)'
             \/ \E j \in k + 1..Last : Undoes(j, h)
  <2>1. h \in failed /\ \A j \in 1..k : ~Undoes(j, h)
    BY <1>7 DEF Gated
  <2>2. CASE h \in failed'
    BY <1>5, <2>1, <2>2 DEF Gated
  <2>3. CASE Row(h) \in saved'
    BY <1>3, <2>3 DEF Written
  <2>4. ASSUME NEW j \in 2..Last, Undoes(j, h) PROVE \E m \in k + 1..Last : Undoes(m, h)
    <3>1. j \notin 1..k
      BY <2>1, <2>4
    <3>2. j \in k + 1..Last
      BY <1>2, <2>4, <3>1
    <3> QED BY <2>4, <3>2
  <2> QED BY <2>1, <2>2, <2>3, <2>4
<1> QED BY <1>6, <1>7

\* A task that settles leaves what the others pass accounted for, if it moves the
\* cursor to or above only what it may pass.
LEMMA PopKeeps ==
  ASSUME SettleInv, TypeOK', persistQueue # <<>>, persistQueue' = Tail(persistQueue),
         UNCHANGED <<chain, session, pos, watch>>,
         \A h \in Heights : Row(h) \in saved => Row(h) \in saved' \/ Again(h)',
         \A h \in Heights : persistQueue[1] = Write(h) => Row(h) \in saved' \/ h \in failed',
         \A h \in failed : \/ h \in failed' \/ Row(h) \in saved'
                           \/ \E j \in 2..Last : Undoes(j, h),
         \A h : Again(h) => Again(h)',
         \A h \in owed' : h \in owed \/ Again(h)',
         failed' # {} => "block" \in Fails,
         \A h \in owed : h <= cursor' =>
           \/ h <= cursor /\ ~Lowers(1, h)
           \/ Passes(persistQueue[1], h) /\ h \notin failed
           \/ Row(h) \in saved' \/ \E j \in 2..Last : Lowers(j, h)
  PROVE  CursorSound' /\ ClaimsSound' /\ ResetsLow' /\ SessionKept'
<1>0. /\ TypeOK /\ CursorSound /\ ClaimsSound /\ ResetsLow /\ SessionKept
      /\ owed \subseteq Heights /\ watch \subseteq Heights
  BY OwedHeights DEF SettleInv, UndoInv
<1>1. /\ Last \in Nat \ {0} /\ Last' = Last - 1 /\ Last' \in Nat
      /\ persistQueue[1] = Head(persistQueue) /\ persistQueue[1] \in Tasks
      /\ \A i \in 1..Last' : i + 1 \in 2..Last /\ persistQueue'[i] = persistQueue[i + 1]
      /\ \A j \in 2..Last : j - 1 \in 1..Last' /\ persistQueue'[j - 1] = persistQueue[j]
  BY <1>0, Popped, QueueTyped
<1>2. PICK n \in Nat : n = Last /\ n > 0 /\ n - 1 = Last'
  BY <1>1
<1>3. \A h : Row(h)' = Row(h) /\ Write(h)' = Write(h)
  BY DEF Row, Write
<1>4. \A j \in 2..n : \A h : Lowers(j, h) => j - 1 \in 1..n - 1 /\ Lowers(j - 1, h)'
  BY <1>1, <1>2 DEF Lowers
<1>5. ASSUME NEW h \in Heights, NEW k \in 0..n, Written(h, k)
      PROVE  Written(h, k - 1)' \/ Gated(h, k - 1)' \/ Again(h)'
  BY <1>2, <1>5, PopShifts
<1>6. ASSUME NEW h \in Heights, NEW k \in 1..n, Gated(h, k)
      PROVE  \/ Written(h, k - 1)' \/ Gated(h, k - 1)'
             \/ \E j \in k + 1..n : Undoes(j, h)
  <2>1. k \in 0..n /\ k # 0
    BY <1>2
  <2> QED BY <1>2, <1>6, <2>1, PopShifts
<1>7. ASSUME NEW h \in Heights, Row(h) \in saved PROVE Row(h)' \in saved' \/ Again(h)'
  BY <1>3, <1>7
<1>8. CursorSound'
  <2> SUFFICES ASSUME NEW h \in owed', h <= cursor', ~Again(h)'
               PROVE  Row(h)' \in saved' \/ \E j \in 1..n - 1 : Lowers(j, h)'
    BY <1>2 DEF CursorSound
  <2>1. h \in owed /\ h \in Heights /\ ~Again(h)
    BY <1>0
  <2>2. ASSUME NEW j \in 2..n, Lowers(j, h) PROVE \E m \in 1..n - 1 : Lowers(m, h)'
    BY <1>4, <2>2
  <2>3. CASE h <= cursor /\ ~Lowers(1, h)
    <3>1. Row(h) \in saved \/ \E j \in 1..n : Lowers(j, h)
      BY <1>0, <1>2, <2>1, <2>3 DEF CursorSound
    <3>2. ASSUME NEW j \in 1..n, Lowers(j, h) PROVE j \in 2..n
      BY <2>3, <3>2
    <3> QED BY <1>7, <2>1, <2>2, <3>1, <3>2
  <2>4. CASE Passes(persistQueue[1], h) /\ h \notin failed
    <3>1. 1 \in 1..Last /\ 1 - 1 = 0 /\ 1 + 1 = 2
      BY <1>2
    <3>2. Written(h, 0) \/ Gated(h, 0) \/ \E j \in 2..n : Lowers(j, h)
      BY <1>0, <1>2, <2>1, <2>4, <3>1 DEF ClaimsSound
    <3>3. ~Gated(h, 0) /\ (Written(h, 0) => Row(h) \in saved)
      BY <2>4 DEF Gated, Written
    <3> QED BY <1>7, <2>1, <2>2, <3>2, <3>3
  <2>5. CASE Row(h) \in saved'
    BY <1>3, <2>5
  <2> QED BY <1>2, <2>1, <2>2, <2>3, <2>4, <2>5
<1>9. ClaimsSound'
  <2> SUFFICES ASSUME NEW i \in 1..n - 1, NEW h \in owed', Passes(persistQueue'[i], h), ~Again(h)'
               PROVE  \/ Written(h, i - 1)' \/ Gated(h, i - 1)'
                      \/ \E j \in i + 1..n - 1 : Lowers(j, h)'
    BY <1>2 DEF ClaimsSound
  <2>1. h \in owed /\ h \in Heights /\ ~Again(h)
    BY <1>0
  <2>2. i + 1 \in 1..n /\ i \in 1..n /\ i \in 0..n /\ (i + 1) - 1 = i
    BY <1>2
  <2>3. Passes(persistQueue[i + 1], h)
    BY <1>1, <1>2
  <2>4. \/ Written(h, i) \/ Gated(h, i)
        \/ \E j \in (i + 1) + 1..n : Lowers(j, h)
    BY <1>0, <1>2, <2>1, <2>2, <2>3 DEF ClaimsSound
  <2>5. ASSUME NEW j \in (i + 1) + 1..n, Lowers(j, h)
        PROVE  \E m \in i + 1..n - 1 : Lowers(m, h)'
    <3>1. j \in 2..n /\ j - 1 \in i + 1..n - 1
      BY <2>5
    <3> QED BY <1>4, <2>5, <3>1
  <2>6. ASSUME NEW j \in i + 1..n, Undoes(j, h) PROVE j \in (i + 1) + 1..n /\ Lowers(j, h)
    <3>1. j # i + 1
      BY <2>3, <2>6 DEF Passes, Undoes
    <3>2. j \in (i + 1) + 1..n
      BY <2>6, <3>1
    <3> QED BY <2>6, <3>2 DEF Undoes, Lowers
  <2>7. CASE Gated(h, i)
    <3>1. \/ Written(h, i - 1)' \/ Gated(h, i - 1)'
          \/ \E j \in i + 1..n : Undoes(j, h)
      BY <1>6, <2>1, <2>2, <2>7
    <3> QED BY <2>5, <2>6, <3>1
  <2>8. CASE Written(h, i)
    BY <1>5, <2>1, <2>2, <2>8
  <2> QED BY <2>4, <2>5, <2>7, <2>8
<1>10. SessionKept'
  <2> SUFFICES ASSUME session # "down", NEW h \in watch, h <= pos
               PROVE  Written(h, n - 1)' \/ Gated(h, n - 1)' \/ Again(h)'
    BY <1>2 DEF SessionKept
  <2>1. Written(h, n) \/ Gated(h, n) \/ Again(h)
    BY <1>0, <1>2 DEF SessionKept
  <2>2. n \in 0..n /\ n \in 1..n /\ n + 1..n = {} /\ h \in Heights
    BY <1>0, <1>2
  <2> QED BY <1>5, <1>6, <2>1, <2>2
<1>11. ResetsLow'
  <2>1. ASSUME NEW i \in 1..n - 1, persistQueue'[i].kind = "reset", "block" \in Fails,
               NEW h \in Early \union Late
        PROVE  persistQueue'[i].at < h
    <3>1. i \in 1..Last' /\ i + 1 \in 1..n
      BY <1>2, <2>1
    <3>2. persistQueue'[i] = persistQueue[i + 1]
      BY <1>1, <3>1
    <3> QED BY <1>0, <1>2, <2>1, <3>1, <3>2 DEF ResetsLow
  <2> QED BY <1>2, <2>1 DEF ResetsLow
<1> QED BY <1>8, <1>9, <1>10, <1>11

\* The reset a reorg sends lowers the cursor below all it orphans, and names a
\* height the scan has passed.
LEMMA ReorgSettles ==
  ASSUME SettlesWell, SettleInv, UndoInv', NEW f \in Forks, WorkerReorg(f),
         UNCHANGED <<watch, commands, failed, cursor, saved, owed>>,
         \A h \in owed : h <= pos => Written(h, Last) \/ Gated(h, Last) \/ Again(h)
  PROVE  /\ CursorSound' /\ ClaimsSound' /\ ResetsLow' /\ SessionKept'
         /\ \A i \in 1..Last' : persistQueue'[i].kind = "discover" =>
              i \in 1..Last /\ persistQueue[i] = persistQueue'[i]
<1>0. /\ TypeOK /\ CursorSound /\ ClaimsSound /\ ResetsLow /\ SessionKept
      /\ owed \subseteq Heights /\ watch \subseteq Heights
      /\ persistQueue \in Seq(Tasks) /\ Last \in Nat
  BY OwedHeights, QueueTyped DEF SettleInv, UndoInv
<1>1. PICK reset : reset = Task("reset", f)
  OBVIOUS
<1>2. PICK rewind : rewind = Task("rewind", f)
  OBVIOUS
<1>3. /\ reset.kind = "reset" /\ reset.at = f
      /\ rewind.kind = "rewind" /\ rewind.at = f
      /\ f \in Heights /\ f \in Int
  BY <1>1, <1>2, ConstantsAssumption, Numbers DEF Task
<1>4. /\ pos' = Lesser(pos, f) /\ f <= pos /\ session # "down"
      /\ chain' = [h \in Heights |-> IF h > f THEN reorgs + 1 ELSE chain[h]]
      /\ persistQueue' = persistQueue \o <<reset, rewind>>
  BY <1>1, <1>2 DEF WorkerReorg, Emit, SettlesWell
<1>5. PICK n \in Nat : /\ n = Last /\ n + 2 = Last'
                       /\ \A i \in 1..n : persistQueue'[i] = persistQueue[i]
                       /\ persistQueue'[n + 1] = reset /\ persistQueue'[n + 2] = rewind
  <2>1. PICK n \in Nat : n = Last
    BY <1>0
  <2> QED BY <1>0, <1>4, <2>1 DEF Last
<1>6. /\ \A j \in 1..n : \A h : Lowers(j, h) => j \in 1..n + 2 /\ Lowers(j, h)'
      /\ \A h : f < h => Lowers(n + 1, h)'
  BY <1>3, <1>5 DEF Lowers
<1>7. \A h \in Heights : h <= f => Row(h)' = Row(h) /\ Write(h)' = Write(h)
  BY <1>3, <1>4 DEF Row, Write
<1>8. \A h \in Heights : f < h \/ h <= f
  BY <1>3, Numbers
<1>9. ASSUME NEW h \in Heights, h <= f, NEW k \in 0..n
      PROVE  (Written(h, k) => Written(h, k)') /\ (Gated(h, k) => Gated(h, k)')
  <2>1. \A j \in 1..k : j \in 1..n /\ persistQueue'[j] = persistQueue[j]
    BY <1>5
  <2> QED BY <1>7, <1>9, <2>1 DEF Written, Gated, Undoes
<1>10. ASSUME NEW h \in Heights, h <= f
       PROVE  /\ Written(h, n) => Written(h, n + 2)'
              /\ Gated(h, n) => Gated(h, n + 2)'
  <2>1. n \in 0..n /\ \A j \in 1..n : j \in 1..n + 2
    OBVIOUS
  <2>2. ASSUME Written(h, n) PROVE Written(h, n + 2)'
    <3>1. Written(h, n)'
      BY <1>9, <1>10, <2>1, <2>2
    <3> QED BY <2>1, <3>1 DEF Written
  <2>3. ASSUME Gated(h, n), NEW j \in 1..n + 2, Undoes(j, h)' PROVE FALSE
    <3>1. CASE j \in 1..n
      BY <1>5, <2>3, <3>1 DEF Gated, Undoes
    <3>2. CASE j = n + 1
      BY <1>3, <1>5, <2>3, <3>2 DEF Undoes
    <3>3. CASE j = n + 2
      <4>1. f < h /\ h \in Int
        BY <1>3, <1>5, <2>3, <3>3, Numbers DEF Undoes
      <4> QED BY <1>3, <1>10, <4>1
    <3>4. j \in 1..n \/ j = n + 1 \/ j = n + 2
      BY <2>3
    <3> QED BY <3>1, <3>2, <3>3, <3>4
  <2> QED BY <2>2, <2>3 DEF Gated
<1>11. \A h : Again(h)' = Again(h)
  BY DEF Again, Rewatching
<1>12. CursorSound'
  <2> SUFFICES ASSUME NEW h \in owed, h <= cursor
               PROVE  Row(h)' \in saved \/ Again(h) \/ \E j \in 1..n + 2 : Lowers(j, h)'
    BY <1>5, <1>11 DEF CursorSound
  <2>1. CASE f < h
    <3>1. n + 1 \in 1..n + 2
      OBVIOUS
    <3> QED BY <1>6, <2>1, <3>1
  <2>2. CASE h <= f
    <3>1. Row(h) \in saved \/ Again(h) \/ \E j \in 1..n : Lowers(j, h)
      BY <1>0, <1>5 DEF CursorSound
    <3> QED BY <1>0, <1>6, <1>7, <2>2, <3>1
  <2> QED BY <1>0, <1>8, <2>1, <2>2
<1>13. ClaimsSound'
  <2> SUFFICES ASSUME NEW i \in 1..n + 2, NEW h \in owed, Passes(persistQueue'[i], h)
               PROVE  \/ Written(h, i - 1)' \/ Gated(h, i - 1)' \/ Again(h)
                      \/ \E j \in i + 1..n + 2 : Lowers(j, h)'
    BY <1>5, <1>11 DEF ClaimsSound
  <2>1. CASE i = n + 2
    BY <1>3, <1>5, <2>1 DEF Passes
  <2>2. CASE i = n + 1
    <3>1. h <= f /\ h <= pos
      <4>1. h <= f
        BY <1>0, <1>3, <1>5, <2>2, Numbers DEF Passes
      <4>2. h \in Int /\ pos \in Int
        BY <1>0, Numbers DEF TypeOK
      <4> QED BY <1>3, <1>4, <4>1, <4>2
    <3>2. Written(h, n) \/ Gated(h, n) \/ Again(h)
      BY <1>5, <3>1
    <3>3. i - 1 = n /\ n \in 0..n
      BY <2>2
    <3> QED BY <1>0, <1>9, <3>1, <3>2, <3>3
  <2>3. CASE i \in 1..n
    <3>1. i - 1 \in 0..n /\ n + 1 \in i + 1..n + 2
      BY <2>3
    <3>2. CASE f < h
      BY <1>6, <3>1, <3>2
    <3>3. CASE h <= f
      <4>1. \/ Written(h, i - 1) \/ Gated(h, i - 1) \/ Again(h)
            \/ \E j \in i + 1..n : Lowers(j, h)
        BY <1>0, <1>5, <2>3 DEF ClaimsSound
      <4>2. \A j \in i + 1..n : j \in 1..n /\ j \in i + 1..n + 2
        BY <2>3
      <4> QED BY <1>0, <1>6, <1>9, <3>1, <3>3, <4>1, <4>2
    <3> QED BY <1>0, <1>8, <3>2, <3>3
  <2>4. i = n + 2 \/ i = n + 1 \/ i \in 1..n
    OBVIOUS
  <2> QED BY <2>1, <2>2, <2>3, <2>4
<1>14. SessionKept'
  <2> SUFFICES ASSUME NEW h \in watch, h <= pos'
               PROVE  Written(h, n + 2)' \/ Gated(h, n + 2)' \/ Again(h)
    BY <1>5, <1>11 DEF SessionKept
  <2>1. h <= f /\ h <= pos
    <3>1. h \in Int /\ pos \in Int
      BY <1>0, Numbers DEF TypeOK
    <3> QED BY <1>3, <1>4, <3>1 DEF Lesser
  <2>2. Written(h, n) \/ Gated(h, n) \/ Again(h)
    BY <1>0, <1>4, <1>5, <2>1 DEF SessionKept
  <2> QED BY <1>0, <1>10, <2>1, <2>2
<1>15. ResetsLow'
  <2>1. ASSUME NEW i \in 1..n + 2, persistQueue'[i].kind = "reset", "block" \in Fails,
               NEW h \in Early \union Late
        PROVE  persistQueue'[i].at < h
    <3>1. CASE i \in 1..n
      BY <1>0, <1>5, <2>1, <3>1 DEF ResetsLow
    <3>2. CASE i \notin 1..n
      <4>1. persistQueue'[i].at = f
        <5>1. i = n + 1 \/ i = n + 2
          BY <2>1, <3>2
        <5> QED BY <1>3, <1>5, <5>1
      <4> QED BY <2>1, <4>1 DEF SettlesWell
    <3> QED BY <3>1, <3>2
  <2> QED BY <1>0, <1>5, <2>1 DEF ResetsLow
<1>16. ASSUME NEW i \in 1..n + 2, persistQueue'[i].kind = "discover"
       PROVE  i \in 1..n /\ persistQueue[i] = persistQueue'[i]
  <2>1. i # n + 1 /\ i # n + 2
    BY <1>3, <1>5, <1>16
  <2>2. i \in 1..n
    BY <1>16, <2>1
  <2> QED BY <1>5, <2>2
<1> QED BY <1>5, <1>12, <1>13, <1>14, <1>15, <1>16

\* A session that is up has nothing launching behind it.
LEMMA UpNotLaunching ==
  ASSUME SettleInv, session # "down"
  PROVE  ~starting.reading /\ \A i \in DOMAIN commands : commands[i].kind # "start"
BY DEF SettleInv, LaunchSound, Quiet

\* A session that is up takes no step that a discovery in the queue forbids.
LEMMA WorkerSettles ==
  ASSUME SettlesWell, SettleInv, UndoInv',
         WorkerScan \/ WorkerSettle \/ \E f \in Forks : WorkerReorg(f)
  PROVE  SettleInv'
<1>0. /\ TypeOK /\ TypeOK' /\ CursorSound /\ ClaimsSound /\ ResetsLow /\ SessionKept
      /\ DiscoverySound /\ LaunchSound /\ CurrentKept
      /\ owed \subseteq Heights /\ watch \subseteq Heights
      /\ persistQueue \in Seq(Tasks) /\ Last \in Nat
  BY OwedHeights, QueueTyped DEF SettleInv, UndoInv
<1>1. /\ session # "down" /\ session' # "down" /\ starting' = starting
      /\ UNCHANGED <<watch, commands, failed, cursor, saved, owed>>
  BY DEF WorkerScan, WorkerSettle, WorkerReorg, chainVars, childVars, sqlVars
<1>2. ~starting.reading /\ \A i \in DOMAIN commands : commands[i].kind # "start"
  BY <1>1, UpNotLaunching
<1>3. LaunchSound'
  BY <1>1, <1>2 DEF LaunchSound
<1>4. \A h : Again(h)' = Again(h)
  BY <1>1 DEF Again, Rewatching
<1>5. watch = IF Rewatching THEN Early ELSE owed
  BY <1>0, <1>1 DEF DiscoverySound
<1>6. \A h \in owed : h \in watch \/ Again(h)
  BY <1>0, <1>5 DEF DiscoverySound, Again
<1>7. ASSUME NEW h \in owed, h <= pos PROVE Written(h, Last) \/ Gated(h, Last) \/ Again(h)
  BY <1>0, <1>1, <1>6, <1>7 DEF SessionKept
<1>8. ASSUME \A i \in 1..Last' : persistQueue'[i].kind = "discover" =>
               i \in 1..Last /\ persistQueue[i] = persistQueue'[i]
      PROVE  DiscoverySound'
  <2>1. Rewatching' = Rewatching
    BY <1>1 DEF Rewatching
  <2>2. Discovering' => Discovering
    BY <1>1, <1>8 DEF Discovering, Last
  <2> QED BY <1>0, <1>1, <1>8, <2>1, <2>2 DEF DiscoverySound
<1>9. CASE WorkerScan
  <2>1. /\ pos' = pos + 1 /\ chain' = chain /\ pos + 1 \in 1..Tip /\ pos \in 0..Tip
        /\ \A h \in Heights : h <= pos + 1 => h <= pos \/ h = pos + 1
    <3>1. pos' = pos + 1 /\ chain' = chain /\ pos < Tip /\ pos \in 0..Tip /\ Tip \in Nat
      BY <1>0, <1>9, ConstantsAssumption DEF WorkerScan, chainVars, TypeOK
    <3>2. ASSUME NEW h \in Heights, h <= pos + 1 PROVE h <= pos \/ h = pos + 1
      <4>1. h \in Int
        BY Numbers
      <4> QED BY <3>1, <3>2, <4>1
    <3> QED BY <3>1, <3>2
  <2>2. CASE pos + 1 \in watch
    <3>1. PICK t : t = [Task("block", pos + 1) EXCEPT !.branch = chain[pos + 1]]
      OBVIOUS
    <3>2. t = [kind |-> "block", at |-> pos + 1, branch |-> chain[pos + 1]] /\ t = Write(pos + 1)
      BY <3>1 DEF Task, Write
    <3>3. t \in Tasks
      BY <1>0, <2>1, <3>2 DEF Tasks, TypeOK, Heights
    <3>4. persistQueue' = persistQueue \o <<t>>
      BY <1>9, <2>2, <3>1 DEF WorkerScan, Emit
    <3>5. ASSUME NEW h \in owed, Passes(t, h) PROVE Written(h, Last) \/ Gated(h, Last) \/ Again(h)'
      <4>1. h < pos + 1 /\ h \in Int
        BY <1>0, <3>2, <3>5, Numbers DEF Passes
      <4>2. h <= pos
        BY <2>1, <4>1
      <4> QED BY <1>4, <1>7, <4>2
    <3>6. /\ CursorSound' /\ ClaimsSound' /\ ResetsLow'
          /\ \A h : Written(h, Last) => Written(h, Last)'
          /\ \A h : Gated(h, Last) => Gated(h, Last)'
          /\ \A h : t = Write(h) => Written(h, Last)'
      <4>1. t.kind = "block" /\ t.kind # "rewind" /\ t.kind # "reset"
        BY <3>2
      <4> HIDE DEF SettleInv
      <4> QED BY <1>0, <1>1, <1>4, <2>1, <3>3, <3>4, <3>5, <4>1, AppendKeeps
    <3>7. SessionKept'
      <4> SUFFICES ASSUME NEW h \in watch, h <= pos + 1
                   PROVE  Written(h, Last)' \/ Gated(h, Last)' \/ Again(h)'
        BY <1>1, <2>1 DEF SessionKept
      <4>1. CASE h = pos + 1
        BY <3>2, <3>6, <4>1
      <4>2. CASE h # pos + 1
        <5>1. h <= pos
          BY <1>0, <2>1, <4>2
        <5> QED BY <1>0, <1>1, <1>4, <3>6, <5>1 DEF SessionKept
      <4> QED BY <4>1, <4>2
    <3>8. DiscoverySound'
      <4>1. /\ Last' = Last + 1 /\ persistQueue'[Last + 1] = t
            /\ \A i \in 1..Last : persistQueue'[i] = persistQueue[i]
        BY <1>0, <3>3, <3>4, Appended
      <4>2. \A i \in 1..Last' : i \in 1..Last \/ i = Last + 1
        BY <1>0, <4>1
      <4> QED BY <1>8, <3>2, <4>1, <4>2
    <3> QED BY <1>3, <3>6, <3>7, <3>8 DEF SettleInv
  <2>3. CASE pos + 1 \notin watch
    <3>1. UNCHANGED persistQueue
      BY <1>9, <2>3 DEF WorkerScan
    <3>2. /\ \A h, k : /\ Written(h, k)' = Written(h, k) /\ Gated(h, k)' = Gated(h, k)
                       /\ Lowers(h, k)' = Lowers(h, k)
          /\ \A h : Row(h)' = Row(h)
          /\ Last' = Last
      BY <1>1, <2>1, <3>1 DEF Written, Gated, Undoes, Lowers, Row, Write, Last
    <3>3. CursorSound' /\ ClaimsSound' /\ ResetsLow'
      BY <1>0, <1>1, <1>4, <3>1, <3>2 DEF CursorSound, ClaimsSound, ResetsLow
    <3>4. SessionKept'
      <4> SUFFICES ASSUME NEW h \in watch, h <= pos + 1
                   PROVE  Written(h, Last) \/ Gated(h, Last) \/ Again(h)
        BY <1>1, <1>4, <2>1, <3>2 DEF SessionKept
      <4>1. h <= pos
        BY <1>0, <2>1, <2>3
      <4> QED BY <1>0, <1>1, <4>1 DEF SessionKept
    <3>5. DiscoverySound'
      BY <1>8, <3>1, <3>2
    <3> QED BY <1>3, <3>3, <3>4, <3>5 DEF SettleInv
  <2> QED BY <2>2, <2>3
<1>10. CASE WorkerSettle
  <2>1. PICK t : t = Task("advance", pos)
    OBVIOUS
  <2>2. /\ t \in Tasks /\ t.kind = "advance" /\ t.at = pos /\ persistQueue' = persistQueue \o <<t>>
        /\ UNCHANGED <<chain, pos>> /\ pos \in Int
    BY <1>0, <1>10, <2>1, TaskType, ConstantsAssumption
    DEF WorkerSettle, Emit, Task, TypeOK, Kinds, chainVars, childVars
  <2>3. ASSUME NEW h \in owed, Passes(t, h) PROVE Written(h, Last) \/ Gated(h, Last) \/ Again(h)'
    <3>1. h <= pos
      BY <1>0, <2>2, <2>3, Numbers DEF Passes
    <3> QED BY <1>4, <1>7, <3>1
  <2>4. /\ CursorSound' /\ ClaimsSound' /\ ResetsLow'
        /\ \A h : Written(h, Last) => Written(h, Last)'
        /\ \A h : Gated(h, Last) => Gated(h, Last)'
    BY <1>0, <1>1, <1>4, <2>2, <2>3, AppendKeeps
  <2>5. SessionKept'
    BY <1>0, <1>1, <1>4, <2>2, <2>4 DEF SessionKept
  <2>6. DiscoverySound'
    <3>1. /\ Last' = Last + 1 /\ persistQueue'[Last + 1] = t
          /\ \A i \in 1..Last : persistQueue'[i] = persistQueue[i]
      BY <1>0, <2>2, Appended
    <3>2. \A i \in 1..Last' : i \in 1..Last \/ i = Last + 1
      BY <1>0, <3>1
    <3> QED BY <1>8, <2>2, <3>1, <3>2
  <2> QED BY <1>3, <2>4, <2>5, <2>6 DEF SettleInv
<1>11. ASSUME NEW f \in Forks, WorkerReorg(f) PROVE SettleInv'
  <2>1. /\ CursorSound' /\ ClaimsSound' /\ ResetsLow' /\ SessionKept'
        /\ \A i \in 1..Last' : persistQueue'[i].kind = "discover" =>
             i \in 1..Last /\ persistQueue[i] = persistQueue'[i]
    BY <1>1, <1>7, <1>11, ReorgSettles
  <2> QED BY <1>3, <1>8, <2>1 DEF SettleInv
<1> QED BY <1>9, <1>10, <1>11

\* Main's queue is idle while a launch is under way, but for a discovery.
LEMMA BusyNotLaunching ==
  ASSUME SettleInv, persistQueue # <<>>, persistQueue[1].kind # "discover"
  PROVE  ~starting.reading /\ \A i \in DOMAIN commands : commands[i].kind # "start"
<1>1. 1 \in 1..Last
  BY QueueTyped, EmptySeq DEF SettleInv, UndoInv, Last
<1> QED BY <1>1 DEF SettleInv, LaunchSound, Quiet

\* A task other than a discovery leaves discovery where it was, also when it
\* answers a reorg with the reseed.
LEMMA PopKeepsDiscovery ==
  ASSUME SettleInv, persistQueue # <<>>, persistQueue' = Tail(persistQueue),
         UNCHANGED <<session, watch, starting, owed>>,
         persistQueue[1].kind # "discover",
         \/ commands' = commands
         \/ commands' = Append(commands, Command("reseed", 0, {}))
  PROVE  DiscoverySound' /\ LaunchSound' /\ \A h : Again(h) => Again(h)'
<1>0. TypeOK /\ DiscoverySound /\ LaunchSound
  BY DEF SettleInv, UndoInv
<1>1. ~starting.reading /\ \A i \in DOMAIN commands : commands[i].kind # "start"
  BY BusyNotLaunching
<1>2. /\ Last \in Nat \ {0} /\ Last' = Last - 1 /\ Last' \in Nat
      /\ \A i \in 1..Last' : i + 1 \in 2..Last /\ persistQueue'[i] = persistQueue[i + 1]
  BY <1>0, Popped, QueueTyped
<1>3. /\ \A i \in DOMAIN commands : i \in DOMAIN commands' /\ commands'[i] = commands[i]
      /\ \A i \in DOMAIN commands' : commands'[i].kind # "reseed" =>
           i \in DOMAIN commands /\ commands[i] = commands'[i]
  <2>1. commands \in Seq(Commands)
    BY <1>0 DEF TypeOK
  <2>2. CASE commands' = commands
    BY <2>2
  <2>3. CASE commands' = Append(commands, Command("reseed", 0, {}))
    <3>1. PICK c : c = Command("reseed", 0, {})
      OBVIOUS
    <3>2. c.kind = "reseed" /\ commands' = Append(commands, c)
      BY <2>3, <3>1 DEF Command
    <3>3. /\ DOMAIN commands = 1..Len(commands) /\ DOMAIN commands' = 1..Len(commands) + 1
          /\ Len(commands) \in Nat /\ commands'[Len(commands) + 1] = c
          /\ \A i \in 1..Len(commands) : commands'[i] = commands[i]
      BY <2>1, <3>2
    <3>4. \A i \in 1..Len(commands) + 1 : i \in 1..Len(commands) \/ i = Len(commands) + 1
      BY <3>3
    <3>5. ASSUME NEW i \in DOMAIN commands PROVE i \in DOMAIN commands' /\ commands'[i] = commands[i]
      <4>1. i \in 1..Len(commands) /\ i \in 1..Len(commands) + 1
        BY <3>3, <3>5
      <4> QED BY <3>3, <4>1
    <3>6. ASSUME NEW i \in DOMAIN commands', commands'[i].kind # "reseed"
          PROVE  i \in DOMAIN commands /\ commands[i] = commands'[i]
      <4>1. i \in 1..Len(commands)
        BY <3>2, <3>3, <3>4, <3>6
      <4> QED BY <3>3, <4>1
    <3> QED BY <3>5, <3>6
  <2> QED BY <2>2, <2>3
<1>4. Rewatching' = Rewatching
  BY <1>3 DEF Rewatching
<1>5. LaunchSound'
  BY <1>1, <1>3 DEF LaunchSound
<1>6. ~(Rewatching /\ session = "down")
  BY <1>0 DEF DiscoverySound
<1>7. ASSUME NEW i \in 1..Last'
      PROVE  /\ i + 1 \in 1..Last /\ persistQueue'[i] = persistQueue[i + 1]
             /\ i + 1 = Last => i = Last'
  <2>1. i + 1 \in 2..Last /\ persistQueue'[i] = persistQueue[i + 1]
    BY <1>2, <1>7
  <2>2. PICK n \in Nat : n = Last /\ n - 1 = Last'
    BY <1>2
  <2>3. i \in Int /\ (i + 1 \in 2..n => i + 1 \in 1..n) /\ (i + 1 = n => i = n - 1)
    BY <1>7, <2>2
  <2> QED BY <2>1, <2>2, <2>3
<1>8. Discovering' => Discovering
  <2>1. ASSUME NEW i \in 1..Last', persistQueue'[i].kind = "discover" PROVE Discovering
    <3>1. i + 1 \in 1..Last /\ persistQueue[i + 1].kind = "discover"
      BY <1>7, <2>1
    <3>2. DOMAIN persistQueue = 1..Last
      BY <1>0 DEF TypeOK, Last
    <3> QED BY <3>1, <3>2 DEF Discovering
  <2>2. DOMAIN persistQueue' = 1..Last'
    BY <1>0, HeadTailProperties DEF TypeOK, Last
  <2>3. Rewatching => Discovering
    BY DEF Rewatching, Discovering
  <2> QED BY <1>4, <2>1, <2>2, <2>3 DEF Discovering, Rewatching
<1>9. DiscoverySound'
  <2>1. ASSUME NEW i \in 1..Last', persistQueue'[i].kind = "discover"
        PROVE  /\ owed = Early /\ ~(Late \subseteq Early)
               /\ \A h \in Early \union Late : Greater(Genesis, persistQueue'[i].at) < h
               /\ \A j \in 1..Last' : persistQueue'[j].kind = "discover" => i = j
               /\ session = "down" => i = Last'
    <3>1. i + 1 \in 1..Last /\ persistQueue[i + 1].kind = "discover"
      BY <1>7, <2>1
    <3>2. \A j \in 1..Last' : persistQueue'[j].kind = "discover" => i + 1 = j + 1
      BY <1>0, <1>7, <3>1 DEF DiscoverySound
    <3>3. \A j \in 1..Last' : i + 1 = j + 1 => i = j
      BY <1>2
    <3> QED BY <1>0, <1>7, <2>1, <3>1, <3>2, <3>3 DEF DiscoverySound
  <2>2. ASSUME NEW i \in DOMAIN commands', commands'[i].kind = "watch"
        PROVE  /\ commands'[i].watch = Late
               /\ \A h \in Early \union Late : Greater(Genesis, commands'[i].at) < h
               /\ \A j \in DOMAIN commands' : commands'[j].kind = "watch" => i = j
    BY <1>0, <1>3, <2>2 DEF DiscoverySound
  <2>3. \A i \in DOMAIN commands' : commands'[i].kind = "stop" => ~Discovering'
    BY <1>0, <1>3, <1>8 DEF DiscoverySound
  <2> QED BY <1>0, <1>4, <1>6, <2>1, <2>2, <2>3 DEF DiscoverySound
<1> QED BY <1>4, <1>5, <1>9 DEF Again

\* A task other than a discovery settles.
LEMMA PopSettles ==
  ASSUME SettleInv, UndoInv', persistQueue # <<>>, persistQueue' = Tail(persistQueue),
         UNCHANGED <<chain, session, pos, watch, starting, owed>>,
         persistQueue[1].kind # "discover",
         commands' = commands \/ commands' = Append(commands, Command("reseed", 0, {})),
         \A h \in Heights : Row(h) \in saved => Row(h) \in saved',
         \A h \in Heights : persistQueue[1] = Write(h) => Row(h) \in saved' \/ h \in failed',
         \A h \in failed : \/ h \in failed' \/ Row(h) \in saved'
                           \/ \E j \in 2..Last : Undoes(j, h),
         failed' # {} => "block" \in Fails,
         \A h \in owed : h <= cursor' =>
           \/ h <= cursor /\ ~Lowers(1, h)
           \/ Passes(persistQueue[1], h) /\ h \notin failed
           \/ Row(h) \in saved' \/ \E j \in 2..Last : Lowers(j, h)
  PROVE  SettleInv'
<1>1. DiscoverySound' /\ LaunchSound' /\ \A h : Again(h) => Again(h)'
  BY PopKeepsDiscovery
<1>2. /\ \A h \in Heights : Row(h) \in saved => Row(h) \in saved' \/ Again(h)'
      /\ \A h \in owed' : h \in owed \/ Again(h)'
      /\ TypeOK' /\ UNCHANGED <<chain, session, pos, watch>>
  BY DEF UndoInv
<1>3. CursorSound' /\ ClaimsSound' /\ ResetsLow' /\ SessionKept'
  BY <1>1, <1>2, PopKeeps
<1> QED BY <1>1, <1>3 DEF SettleInv

\* What every task at the head may assume.
LEMMA HeadFacts ==
  ASSUME SettleInv, PersistNext, NEW t, t = Head(persistQueue)
  PROVE  /\ persistQueue # <<>> /\ t = persistQueue[1] /\ t \in Tasks /\ 1 \in 1..Last
         /\ t.at \in 0..Tip /\ t.at \in Int /\ (t.kind = "block" => t.at \in Heights)
         /\ cursor \in Int /\ failed \subseteq Heights
         /\ UNCHANGED <<chain, session, pos, watch, starting>>
         /\ owed \subseteq Heights /\ owed \subseteq Early \union Late
         /\ failed # {} => "block" \in Fails
<1>1. TypeOK /\ ResetsLow /\ DiscoverySound
  BY DEF SettleInv, UndoInv
<1>2. /\ persistQueue \in Seq(Tasks) /\ persistQueue # <<>>
      /\ UNCHANGED <<chain, session, pos, watch, starting>>
  BY <1>1, QueueTyped DEF PersistNext, chainVars, childVars
<1>3. t = persistQueue[1] /\ t \in Tasks /\ 1 \in 1..Last
  BY <1>2, EmptySeq DEF Last
<1>4. t.at \in 0..Tip /\ t.at \in Int /\ (t.kind = "block" => t.at \in Heights)
  BY <1>1, <1>3, QueueTyped, Numbers
<1>5. cursor \in Int
  BY <1>1, Numbers DEF TypeOK, NoRow
<1>6. failed \subseteq Heights /\ owed \subseteq Heights
  BY <1>1 DEF TypeOK
<1>7. owed \subseteq Early \union Late /\ (failed # {} => "block" \in Fails)
  BY <1>1 DEF ResetsLow, DiscoverySound
<1> QED BY <1>2, <1>3, <1>4, <1>5, <1>6, <1>7

\* A block that is not on the chain has its undo behind it.
LEMMA HeadUndone ==
  ASSUME SettleInv, persistQueue # <<>>, persistQueue[1].kind = "block"
  PROVE  \/ persistQueue[1] = Write(persistQueue[1].at)
         \/ \E j \in 2..Last : Undoes(j, persistQueue[1].at) /\ Lowers(j, persistQueue[1].at)
<1>1. TypeOK /\ OrphansUndone
  BY DEF SettleInv, UndoInv
<1>2. 1 \in 1..Last /\ persistQueue[1] \in Tasks /\ 1 + 1 = 2
  BY <1>1, EmptySeq, QueueTyped DEF Last
<1>3. persistQueue[1] = [kind |-> "block", at |-> persistQueue[1].at, branch |-> persistQueue[1].branch]
  BY <1>2 DEF Tasks
<1>4. CASE persistQueue[1].branch = chain[persistQueue[1].at]
  BY <1>3, <1>4 DEF Write
<1>5. CASE persistQueue[1].branch # chain[persistQueue[1].at]
  <2>1. \E j \in 2..Last : Undoes(j, persistQueue[1].at)
    BY <1>1, <1>2, <1>5 DEF OrphansUndone
  <2> QED BY <2>1 DEF Undoes, Lowers
<1> QED BY <1>4, <1>5

\* A block's write accounts for its own height, and carries the cursor past no
\* height the gate names.
LEMMA BlockSettles ==
  ASSUME SettleInv, UndoInv', PersistNext, NEW t, t = Head(persistQueue), BlockLands(t)
  PROVE  SettleInv'
<1>0. /\ persistQueue # <<>> /\ t = persistQueue[1] /\ t \in Tasks /\ t.kind = "block"
      /\ t.at \in Heights /\ t.at \in Int /\ cursor \in Int /\ failed \subseteq Heights
      /\ UNCHANGED <<chain, session, pos, watch, starting, owed, commands>>
      /\ owed \subseteq Heights /\ (failed # {} => "block" \in Fails)
      /\ persistQueue' = Tail(persistQueue)
      /\ saved' = saved \union {<<t.at, t.branch>>} /\ failed' = failed \ {t.at}
      /\ cursor' = IF AllowsBlockCursor(t.at) THEN Greater(cursor, t.at) ELSE cursor
  BY HeadFacts DEF BlockLands
<1>1. \/ t = Write(t.at) /\ Row(t.at) \in saved'
      \/ \E j \in 2..Last : Undoes(j, t.at) /\ Lowers(j, t.at)
  BY <1>0, HeadUndone DEF Write, Row
<1>2. \A h \in Heights : Row(h) \in saved => Row(h) \in saved'
  BY <1>0
<1>3. \A h \in Heights : persistQueue[1] = Write(h) => Row(h) \in saved' \/ h \in failed'
  BY <1>0 DEF Write, Row
<1>4. \A h \in failed : \/ h \in failed' \/ Row(h) \in saved'
                        \/ \E j \in 2..Last : Undoes(j, h)
  BY <1>0, <1>1
<1>5. ASSUME NEW h \in owed, h <= cursor'
      PROVE  \/ h <= cursor /\ ~Lowers(1, h)
             \/ Passes(persistQueue[1], h) /\ h \notin failed
             \/ Row(h) \in saved' \/ \E j \in 2..Last : Lowers(j, h)
  <2>1. h \in Int /\ ~Lowers(1, h) /\ \A f \in failed : f \in Int
    BY <1>0, Numbers DEF Lowers
  <2>2. CASE h <= cursor
    BY <2>1, <2>2
  <2>3. CASE ~(h <= cursor)
    <3>1. AllowsBlockCursor(t.at) /\ h <= t.at
      BY <1>0, <1>5, <2>1, <2>3 DEF Greater
    <3>2. \A f \in failed : t.at < f
      BY <1>0, <3>1, AllowedBlockBelowFailed
    <3>3. h \notin failed
      BY <1>0, <2>1, <3>1, <3>2
    <3>4. CASE h = t.at
      BY <1>1, <3>4
    <3>5. CASE h < t.at
      BY <1>0, <3>3, <3>5 DEF Passes
    <3> QED BY <1>0, <2>1, <3>1, <3>4, <3>5
  <2> QED BY <2>2, <2>3
<1>6. /\ UNCHANGED <<chain, session, pos, watch, starting, owed>>
      /\ persistQueue[1].kind # "discover" /\ (failed' # {} => "block" \in Fails)
      /\ (commands' = commands \/ commands' = Append(commands, Command("reseed", 0, {})))
  BY <1>0
<1> QED BY <1>0, <1>2, <1>3, <1>4, <1>5, <1>6, PopSettles

\* A block that is given up is named by the gate.
LEMMA RefusedSettles ==
  ASSUME SettleInv, UndoInv', PersistNext, NEW t, t = Head(persistQueue), BlockRefused(t)
  PROVE  SettleInv'
<1>0. /\ persistQueue # <<>> /\ t = persistQueue[1] /\ t \in Tasks /\ t.kind = "block"
      /\ UNCHANGED <<chain, session, pos, watch, starting, cursor, saved, owed, commands>>
      /\ "block" \in Fails
  BY HeadFacts DEF BlockRefused, sqlVars
<1>1. CASE attempt + 1 < PERSIST_ATTEMPTS
  <2>1. UNCHANGED <<failed, persistQueue>>
    BY <1>1 DEF BlockRefused
  <2> QED BY <1>0, <2>1
      DEF SettleInv, CursorSound, ClaimsSound, ResetsLow, SessionKept, DiscoverySound, LaunchSound,
          Discovering, Rewatching, Quiet, Again, Written, Gated, Undoes, Lowers, Last, Row, Write
<1>2. CASE ~(attempt + 1 < PERSIST_ATTEMPTS)
  <2>1. failed' = failed \union {t.at} /\ persistQueue' = Tail(persistQueue)
    BY <1>2 DEF BlockRefused
  <2>2. \A h \in Heights : persistQueue[1] = Write(h) => Row(h) \in saved' \/ h \in failed'
    BY <1>0, <2>1 DEF Write
  <2>3. \A h : ~Lowers(1, h)
    BY <1>0 DEF Lowers
  <2>4. /\ \A h \in Heights : Row(h) \in saved => Row(h) \in saved'
        /\ \A h \in failed : h \in failed'
        /\ \A h \in owed : h <= cursor' => h <= cursor
        /\ UNCHANGED <<chain, session, pos, watch, starting, owed>>
        /\ persistQueue[1].kind # "discover"
    BY <1>0, <2>1
  <2> QED BY <1>0, <2>1, <2>2, <2>3, <2>4, PopSettles
<1> QED BY <1>1, <1>2

\* An advance ends below every height the gate names.
LEMMA AdvanceSettles ==
  ASSUME SettleInv, UndoInv', PersistNext, NEW t, t = Head(persistQueue), AdvanceLands(t)
  PROVE  SettleInv'
<1>0. /\ persistQueue # <<>> /\ t = persistQueue[1] /\ t \in Tasks /\ t.kind = "advance"
      /\ t.at \in 0..Tip /\ t.at \in Int /\ cursor \in Int /\ failed \subseteq Heights
      /\ UNCHANGED <<chain, session, pos, watch, starting, saved, owed, failed, commands>>
      /\ owed \subseteq Heights /\ (failed # {} => "block" \in Fails)
      /\ persistQueue' = Tail(persistQueue)
      /\ cursor' = Greater(cursor, AllowedHeight(t.at))
  BY HeadFacts DEF AdvanceLands
<1>1. ASSUME NEW h \in owed, h <= cursor'
      PROVE  (h <= cursor /\ ~Lowers(1, h)) \/ (Passes(persistQueue[1], h) /\ h \notin failed)
  <2>1. h \in Int /\ ~Lowers(1, h)
    BY <1>0, Numbers DEF Lowers
  <2>2. PICK a : a = AllowedHeight(t.at)
    OBVIOUS
  <2>3. a \in 0..t.at /\ a \in Int /\ \A f \in failed : a < f
    BY <1>0, <2>2, AllowedHeightBound
  <2>4. CASE h <= cursor
    BY <2>1, <2>4
  <2>5. CASE ~(h <= cursor)
    <3>1. h <= a
      BY <1>0, <1>1, <2>1, <2>2, <2>3, <2>5 DEF Greater
    <3>2. h <= t.at /\ h \notin failed
      BY <1>0, <2>1, <2>3, <3>1
    <3>3. h < t.at \/ h = t.at
      BY <1>0, <2>1, <3>2
    <3> QED BY <1>0, <3>2, <3>3 DEF Passes
  <2> QED BY <2>4, <2>5
<1>2. \A h : persistQueue[1] # Write(h)
  BY <1>0 DEF Write
<1>3. /\ \A h \in Heights : Row(h) \in saved => Row(h) \in saved'
      /\ \A h \in failed : h \in failed'
      /\ UNCHANGED <<chain, session, pos, watch, starting, owed>>
      /\ persistQueue[1].kind # "discover" /\ (failed' # {} => "block" \in Fails)
  BY <1>0
<1> QED BY <1>0, <1>1, <1>2, <1>3, PopSettles

\* A reset that may land names nothing the gate still holds.
LEMMA ResetSettles ==
  ASSUME SettleInv, UndoInv', PersistNext, NEW t, t = Head(persistQueue), ResetLands(t)
  PROVE  SettleInv'
<1>0. /\ persistQueue # <<>> /\ t = persistQueue[1] /\ t \in Tasks /\ t.kind = "reset"
      /\ t.at \in Int /\ failed \subseteq Heights /\ 1 \in 1..Last
      /\ UNCHANGED <<chain, session, pos, watch, starting, saved, owed, failed, commands>>
      /\ owed \subseteq Heights /\ owed \subseteq Early \union Late
      /\ (failed # {} => "block" \in Fails)
      /\ persistQueue' = Tail(persistQueue) /\ cursor' = t.at
  BY HeadFacts DEF ResetLands
<1>1. ASSUME NEW h \in owed, h <= cursor'
      PROVE  Passes(persistQueue[1], h) /\ h \notin failed
  <2>1. h \in Int /\ h <= t.at
    BY <1>0, <1>1, Numbers
  <2>2. h < t.at \/ h = t.at
    BY <1>0, <2>1
  <2>3. h \notin failed
    <3> SUFFICES ASSUME h \in failed PROVE FALSE
      OBVIOUS
    <3>1. ResetsLow /\ "block" \in Fails
      BY <1>0 DEF SettleInv
    <3>2. t.at < h
      BY <1>0, <3>1 DEF ResetsLow
    <3> QED BY <1>0, <2>1, <3>2
  <2> QED BY <1>0, <2>2, <2>3 DEF Passes
<1>2. \A h : persistQueue[1] # Write(h)
  BY <1>0 DEF Write
<1>3. /\ \A h \in Heights : Row(h) \in saved => Row(h) \in saved'
      /\ \A h \in failed : h \in failed'
      /\ UNCHANGED <<chain, session, pos, watch, starting, owed>>
      /\ persistQueue[1].kind # "discover" /\ (failed' # {} => "block" \in Fails)
  BY <1>0
<1> QED BY <1>0, <1>1, <1>2, <1>3, PopSettles

\* An undo drops no row of the chain and leaves the cursor at or below its fork.
LEMMA RewindSettles ==
  ASSUME SettleInv, UndoInv', PersistNext, NEW t, t = Head(persistQueue), RewindLands(t)
  PROVE  SettleInv'
<1>0. /\ persistQueue # <<>> /\ t = persistQueue[1] /\ t \in Tasks /\ t.kind = "rewind"
      /\ t.at \in Int /\ cursor \in Int /\ 1 \in 1..Last
      /\ UNCHANGED <<chain, session, pos, watch, starting, owed, failed>>
      /\ owed \subseteq Heights /\ (failed # {} => "block" \in Fails)
      /\ persistQueue' = Tail(persistQueue) /\ cursor' = Lesser(cursor, t.at)
      /\ saved' = {row \in saved : row[1] <= t.at}
      /\ commands' = Append(commands, Command("reseed", 0, {}))
  BY HeadFacts DEF RewindLands
<1>1. ASSUME NEW h \in Heights, Row(h) \in saved PROVE Row(h) \in saved'
  <2>1. CurrentKept /\ h \in Int
    BY Numbers DEF SettleInv, UndoInv
  <2>2. ~(t.at < h)
    BY <1>0, <1>1, <2>1 DEF CurrentKept, Undoes
  <2>3. h <= t.at
    BY <1>0, <2>1, <2>2
  <2> QED BY <1>0, <1>1, <2>3 DEF Row
<1>2. ASSUME NEW h \in owed, h <= cursor' PROVE h <= cursor /\ ~Lowers(1, h)
  <2>1. h \in Int
    BY <1>0, Numbers
  <2>2. h <= cursor /\ h <= t.at
    BY <1>0, <1>2, <2>1 DEF Lesser
  <2>3. ~(t.at < h)
    BY <1>0, <2>1, <2>2
  <2> QED BY <1>0, <2>2, <2>3 DEF Lowers
<1>3. \A h : persistQueue[1] # Write(h)
  BY <1>0 DEF Write
<1>4. /\ \A h \in failed : h \in failed'
      /\ UNCHANGED <<chain, session, pos, watch, starting, owed>>
      /\ persistQueue[1].kind # "discover" /\ (failed' # {} => "block" \in Fails)
  BY <1>0
<1> QED BY <1>0, <1>1, <1>2, <1>3, <1>4, PopSettles

\* What a discovery at the head of the queue says.
LEMMA HeadDiscovery ==
  ASSUME SettleInv, PersistNext, NEW t, t = Head(persistQueue), t.kind = "discover"
  PROVE  /\ owed = Early /\ ~(Late \subseteq Early) /\ ~Rewatching /\ ~starting.reading
         /\ \A h \in Early \union Late : Greater(Genesis, t.at) < h
         /\ \A j \in 2..Last : persistQueue[j].kind # "discover"
         /\ session = "down" => Last = 1
         /\ \A i \in DOMAIN commands : commands[i].kind # "stop"
<1>0. DiscoverySound /\ LaunchSound /\ TypeOK
  BY DEF SettleInv, UndoInv
<1>1. t = persistQueue[1] /\ 1 \in 1..Last /\ persistQueue # <<>>
  BY HeadFacts
<1>2. /\ owed = Early /\ ~(Late \subseteq Early)
      /\ \A h \in Early \union Late : Greater(Genesis, t.at) < h
      /\ \A j \in 1..Last : persistQueue[j].kind = "discover" => 1 = j
      /\ session = "down" => 1 = Last
  BY <1>0, <1>1 DEF DiscoverySound
<1>3. ~Rewatching
  BY <1>0, <1>2 DEF DiscoverySound
<1>4. Discovering
  <2>1. 1 \in DOMAIN persistQueue
    BY <1>0, <1>1 DEF TypeOK, Last
  <2> QED BY <1>1, <2>1 DEF Discovering
<1>5. \A i \in DOMAIN commands : commands[i].kind # "stop"
  BY <1>0, <1>4 DEF DiscoverySound
<1>6. ~starting.reading
  BY <1>0, <1>1 DEF LaunchSound, Quiet
<1>7. \A j \in 2..Last : j \in 1..Last /\ j # 1
  BY <1>0, QueueTyped
<1> QED BY <1>2, <1>3, <1>5, <1>6, <1>7

\* A discovery's reset lowers the cursor below everything owed, and the command
\* that has it scanned again is on its way.
LEMMA DiscoverSettles ==
  ASSUME SettleInv, UndoInv', PersistNext, NEW t, t = Head(persistQueue), DiscoverLands(t)
  PROVE  SettleInv'
<1>0. /\ persistQueue # <<>> /\ t = persistQueue[1] /\ t \in Tasks /\ t.kind = "discover"
      /\ t.at \in Int /\ cursor \in Int /\ TypeOK /\ TypeOK'
      /\ DiscoverySound /\ LaunchSound
      /\ UNCHANGED <<chain, session, pos, watch, starting, failed>>
      /\ (failed # {} => "block" \in Fails)
      /\ persistQueue' = Tail(persistQueue)
      /\ saved' = {row \in saved : row[1] \notin Late} /\ owed' = owed \union Late
  BY HeadFacts DEF DiscoverLands, SettleInv, UndoInv
<1>1. /\ owed = Early /\ ~(Late \subseteq Early) /\ ~Rewatching /\ ~starting.reading
      /\ \A h \in Early \union Late : Greater(Genesis, t.at) < h
      /\ \A j \in 2..Last : persistQueue[j].kind # "discover"
      /\ session = "down" => Last = 1
      /\ \A i \in DOMAIN commands : commands[i].kind # "stop"
  BY <1>0, HeadDiscovery
<1>2. PICK to : to = Greater(Genesis, t.at)
  OBVIOUS
<1>3. PICK c : c = Command("watch", to, Late)
  OBVIOUS
<1>4. /\ c.kind = "watch" /\ c.at = to /\ c.watch = Late
      /\ commands' = Append(commands, c)
      /\ (cursor' = cursor /\ cursor <= to) \/ cursor' = to
  BY <1>2, <1>3 DEF DiscoverLands, Command
<1>5. /\ to \in Int /\ Greater(Genesis, to) = to
      /\ \A h \in Early \union Late : to < h /\ cursor' < h /\ h \in Int
  <2>1. to \in Int /\ Greater(Genesis, to) = to
    BY <1>0, <1>2 DEF Greater, Genesis
  <2>2. \A h \in Early \union Late : h \in Int
    BY ConstantsAssumption, Numbers
  <2> QED BY <1>0, <1>1, <1>2, <1>4, <2>1, <2>2
<1>6. PICK m \in Nat : /\ m = Len(commands) /\ DOMAIN commands = 1..m /\ DOMAIN commands' = 1..m + 1
                       /\ commands'[m + 1] = c
                       /\ \A i \in 1..m : commands'[i] = commands[i]
  <2>1. commands \in Seq(Commands)
    BY <1>0 DEF TypeOK
  <2>2. PICK m \in Nat : m = Len(commands)
    BY <2>1
  <2> QED BY <1>4, <2>1, <2>2
<1>7. \A i \in 1..m + 1 : i \in 1..m \/ i = m + 1
  OBVIOUS
<1>8. \A i \in 1..m : commands[i].kind # "watch"
  BY <1>1, <1>6 DEF Rewatching
<1>9. Rewatching' /\ \A h : Again(h)' <=> h \in Late
  <2>1. m + 1 \in 1..m + 1
    OBVIOUS
  <2> QED BY <1>4, <1>6, <2>1 DEF Rewatching, Again
<1>10. \A h : ~Again(h)
  BY <1>1 DEF Again
<1>11. CursorSound' /\ ClaimsSound' /\ ResetsLow' /\ SessionKept'
  <2>1. \A h \in Heights : Row(h) \in saved => Row(h) \in saved' \/ Again(h)'
    BY <1>0, <1>9 DEF Row
  <2>2. \A h : persistQueue[1] # Write(h)
    BY <1>0 DEF Write
  <2>3. \A h \in owed' : h \in owed \/ Again(h)'
    BY <1>0, <1>9
  <2>4. \A h \in owed : ~(h <= cursor')
    <3> SUFFICES ASSUME NEW h \in owed, h <= cursor' PROVE FALSE
      OBVIOUS
    <3>1. cursor' \in Int /\ h \in Int /\ cursor' < h
      BY <1>0, <1>1, <1>4, <1>5
    <3> QED BY <3>1
  <2>5. /\ UNCHANGED <<chain, session, pos, watch>>
        /\ (failed' # {} => "block" \in Fails)
        /\ \A h \in failed : h \in failed'
        /\ \A h : Again(h) => Again(h)'
    BY <1>0, <1>10
  <2> QED BY <1>0, <2>1, <2>2, <2>3, <2>4, <2>5, PopKeeps
<1>12. /\ Last \in Nat \ {0} /\ Last' = Last - 1 /\ Last' \in Nat
       /\ \A i \in 1..Last' : i + 1 \in 2..Last /\ persistQueue'[i] = persistQueue[i + 1]
  BY <1>0, Popped, QueueTyped
<1>13. \A i \in 1..Last' : persistQueue'[i].kind # "discover"
  BY <1>1, <1>12
<1>14. session = "down" => Last' = 0 /\ persistQueue' = <<>>
  <2>1. session = "down" => Last' = 0
    BY <1>1, <1>12
  <2>2. persistQueue' \in Seq(Tasks)
    BY <1>0 DEF TypeOK
  <2> QED BY <2>1, <2>2, EmptySeq DEF Last
<1>15. DiscoverySound'
  <2>1. owed' = Early \union Late
    BY <1>0, <1>1
  <2>2. session' # "down" => watch' = Early
    BY <1>0, <1>1 DEF DiscoverySound
  <2>3. ASSUME NEW i \in DOMAIN commands', commands'[i].kind = "watch"
        PROVE  /\ commands'[i].watch = Late
               /\ \A h \in Early \union Late : Greater(Genesis, commands'[i].at) < h
               /\ \A j \in DOMAIN commands' : commands'[j].kind = "watch" => i = j
    <3>1. \A j \in 1..m + 1 : commands'[j].kind = "watch" => j = m + 1
      BY <1>6, <1>7, <1>8
    <3>2. i = m + 1
      BY <1>6, <2>3, <3>1
    <3> QED BY <1>4, <1>5, <1>6, <3>1, <3>2
  <2>4. \A i \in DOMAIN commands' : commands'[i].kind # "stop"
    BY <1>1, <1>4, <1>6, <1>7
  <2>5. session' = "down" => persistQueue' = <<>> /\ \A h \in Early \union Late : cursor' < h
    BY <1>0, <1>5, <1>14
  <2> QED BY <1>1, <1>9, <1>13, <2>1, <2>2, <2>3, <2>4, <2>5 DEF DiscoverySound
<1>16. LaunchSound'
  <2>1. ~starting'.reading
    BY <1>0, <1>1
  <2>2. ASSUME NEW i \in DOMAIN commands', commands'[i].kind = "start"
        PROVE  /\ i = 1 /\ session' = "down" /\ ~starting'.reading
               /\ \A j \in 1..Last' : persistQueue'[j].kind = "discover"
               /\ \A j \in DOMAIN commands' : j # 1 => commands'[j].kind = "watch"
               /\ commands'[i].watch = Early
               /\ \A h \in commands'[i].watch : h <= commands'[i].at => Row(h)' \in saved' \/ Again(h)'
    <3>1. i \in 1..m
      BY <1>4, <1>6, <1>7, <2>2
    <3>2. i \in DOMAIN commands /\ commands'[i] = commands[i]
      BY <1>6, <3>1
    <3>3. /\ i = 1 /\ session = "down"
          /\ \A j \in DOMAIN commands : j # 1 => commands[j].kind = "watch"
          /\ commands[i].watch = Early
          /\ \A h \in commands[i].watch : h <= commands[i].at => Row(h) \in saved
      BY <1>0, <1>1, <1>10, <2>2, <3>2 DEF LaunchSound
    <3>4. \A j \in DOMAIN commands' : j # 1 => commands'[j].kind = "watch"
      BY <1>4, <1>6, <1>7, <3>3
    <3>5. \A j \in 1..Last' : persistQueue'[j].kind = "discover"
      BY <1>14, <3>3
    <3>6. \A h : Row(h)' = Row(h) /\ (Row(h) \in saved => Row(h) \in saved' \/ h \in Late)
      BY <1>0 DEF Row
    <3> QED BY <1>0, <1>9, <2>1, <3>2, <3>3, <3>4, <3>5, <3>6
  <2> QED BY <1>9, <2>1, <2>2 DEF LaunchSound
<1> QED BY <1>11, <1>15, <1>16 DEF SettleInv

\* Only an advance or a discovery may be refused; neither had been counted on.
LEMMA DropSettles ==
  ASSUME SettlesWell, SettleInv, UndoInv', PersistNext, NEW t, t = Head(persistQueue),
         TaskDropped(t)
  PROVE  SettleInv'
<1>0. /\ persistQueue # <<>> /\ t = persistQueue[1] /\ t \in Tasks
      /\ t.kind \notin {"block", "reset", "rewind"} /\ TypeOK /\ TypeOK'
      /\ DiscoverySound /\ LaunchSound
      /\ UNCHANGED <<chain, session, pos, watch, starting, cursor, saved, owed, failed, commands>>
      /\ (failed # {} => "block" \in Fails)
      /\ persistQueue' = Tail(persistQueue)
  BY HeadFacts DEF TaskDropped, SettlesWell, sqlVars, SettleInv, UndoInv
<1>1. /\ \A h \in Heights : Row(h) \in saved => Row(h) \in saved'
      /\ \A h \in failed : h \in failed'
      /\ UNCHANGED <<chain, session, pos, watch, starting, owed>>
      /\ (failed' # {} => "block" \in Fails)
      /\ \A h \in owed : h <= cursor' => h <= cursor /\ ~Lowers(1, h)
      /\ \A h : persistQueue[1] # Write(h)
  BY <1>0 DEF Lowers, Write
<1>2. CASE t.kind # "discover"
  BY <1>0, <1>1, <1>2, PopSettles
<1>3. CASE t.kind = "discover"
  <2>1. /\ ~starting.reading /\ ~Rewatching
        /\ \A j \in 2..Last : persistQueue[j].kind # "discover"
        /\ session = "down" => Last = 1
        /\ \A i \in DOMAIN commands : commands[i].kind # "stop"
    BY <1>3, HeadDiscovery
  <2>2. Rewatching' = Rewatching /\ \A h : Again(h)' = Again(h)
    BY <1>0 DEF Rewatching, Again
  <2>3. CursorSound' /\ ClaimsSound' /\ ResetsLow' /\ SessionKept'
    BY <1>0, <1>1, <2>2, PopKeeps
  <2>4. /\ Last \in Nat \ {0} /\ Last' = Last - 1 /\ Last' \in Nat
        /\ \A i \in 1..Last' : i + 1 \in 2..Last /\ persistQueue'[i] = persistQueue[i + 1]
    BY <1>0, Popped, QueueTyped
  <2>5. \A i \in 1..Last' : persistQueue'[i].kind # "discover"
    BY <2>1, <2>4
  <2>6. session = "down" => Last' = 0
    BY <2>1, <2>4
  <2>7. DiscoverySound'
    BY <1>0, <2>1, <2>2, <2>5 DEF DiscoverySound
  <2>8. LaunchSound'
    <3>1. session = "down" => \A j \in 1..Last' : persistQueue'[j].kind = "discover"
      BY <2>6
    <3>2. \A h : Row(h)' = Row(h)
      BY <1>0 DEF Row
    <3> QED BY <1>0, <2>1, <2>2, <3>1, <3>2 DEF LaunchSound
  <2> QED BY <2>3, <2>7, <2>8 DEF SettleInv
<1> QED BY <1>2, <1>3

LEMMA PersistSettles ==
  ASSUME SettlesWell, SettleInv, UndoInv', PersistNext
  PROVE  SettleInv'
<1>1. PICK t : t = Head(persistQueue)
  OBVIOUS
<1>2. \/ BlockLands(t) \/ BlockRefused(t) \/ AdvanceLands(t) \/ ResetLands(t)
      \/ RewindLands(t) \/ DiscoverLands(t) \/ TaskDropped(t)
  BY <1>1, PersistCases
<1> QED BY <1>1, <1>2, BlockSettles, RefusedSettles, AdvanceSettles, ResetSettles,
           RewindSettles, DiscoverSettles, DropSettles

\* A step that leaves the queue, the gate and SQL alone leaves the claims alone,
\* unless a discovery stops being on its way to the child.
LEMMA StillSettles ==
  ASSUME SettleInv, UNCHANGED <<chain, persistQueue, failed, cursor, saved, owed>>
  PROVE  /\ Last' = Last /\ ResetsLow'
         /\ \A h, k : /\ Written(h, k)' = Written(h, k) /\ Gated(h, k)' = Gated(h, k)
                      /\ Row(h)' = Row(h)
         /\ (\A h \in owed : Again(h) => Again(h)') => CursorSound' /\ ClaimsSound'
<1>1. /\ Last' = Last
      /\ \A h, k : /\ Written(h, k)' = Written(h, k) /\ Gated(h, k)' = Gated(h, k)
                   /\ Lowers(h, k)' = Lowers(h, k) /\ Row(h)' = Row(h)
  BY DEF Written, Gated, Undoes, Lowers, Row, Write, Last
<1>2. CursorSound /\ ClaimsSound /\ ResetsLow
  BY DEF SettleInv
<1>3. ResetsLow'
  BY <1>1, <1>2 DEF ResetsLow
<1>4. ASSUME \A h \in owed : Again(h) => Again(h)' PROVE CursorSound' /\ ClaimsSound'
  BY <1>1, <1>2, <1>4 DEF CursorSound, ClaimsSound
<1> QED BY <1>1, <1>3, <1>4

\* What the child leaves behind when it takes a command.
LEMMA TakenCommand ==
  ASSUME SettleInv, ChildReceive, NEW cmd, cmd = Head(commands)
  PROVE  /\ 1 \in DOMAIN commands /\ cmd = commands[1] /\ cmd \in Commands /\ ~starting.reading
         /\ UNCHANGED <<chain, starting, failed, cursor, saved, owed>>
         /\ \A i \in DOMAIN commands' :
              /\ i + 1 \in DOMAIN commands /\ i \in Int
              /\ commands'[i] = commands[i + 1] /\ commands'[i].kind # "start"
         /\ cmd.kind # "watch" => Rewatching' = Rewatching
         /\ cmd.kind = "watch" => Rewatching /\ ~Rewatching'
         /\ \A i \in DOMAIN commands' : commands'[i].kind = "watch" =>
              /\ commands'[i].watch = Late
              /\ \A h \in Early \union Late : Greater(Genesis, commands'[i].at) < h
              /\ \A j \in DOMAIN commands' : commands'[j].kind = "watch" => i = j
<1>0. TypeOK /\ DiscoverySound /\ LaunchSound
  BY DEF SettleInv, UndoInv
<1>1. /\ commands \in Seq(Commands) /\ commands # <<>> /\ commands' = Tail(commands)
      /\ UNCHANGED <<chain, starting, failed, cursor, saved, owed>>
  BY <1>0 DEF TypeOK, ChildReceive, chainVars, sqlVars
<1>2. PICK m \in Nat : m = Len(commands) /\ m > 0
  BY <1>1, EmptySeq
<1>3. /\ DOMAIN commands = 1..m /\ 1 \in 1..m /\ cmd = commands[1] /\ cmd \in Commands
      /\ DOMAIN commands' = 1..m - 1
      /\ \A i \in 1..m - 1 : commands'[i] = commands[i + 1]
  BY <1>1, <1>2, HeadTailProperties
<1>4. ASSUME NEW i \in 1..m - 1 PROVE i + 1 \in 1..m /\ i + 1 # 1 /\ i \in Int
  BY <1>2
<1>5. ~starting.reading
  BY <1>0, <1>1 DEF LaunchSound, Quiet
<1>6. \A i \in DOMAIN commands' :
        /\ i + 1 \in DOMAIN commands /\ i \in Int
        /\ commands'[i] = commands[i + 1] /\ commands'[i].kind # "start"
  BY <1>0, <1>3, <1>4 DEF LaunchSound
<1>7. ASSUME cmd.kind # "watch", NEW i \in 1..m, commands[i].kind = "watch" PROVE Rewatching'
  <2>1. i # 1
    BY <1>3, <1>7
  <2>2. i - 1 \in 1..m - 1 /\ (i - 1) + 1 = i
    BY <1>2, <1>7, <2>1
  <2> QED BY <1>3, <1>7, <2>2 DEF Rewatching
<1>8. cmd.kind # "watch" => Rewatching' = Rewatching
  BY <1>3, <1>6, <1>7 DEF Rewatching
<1>9. cmd.kind = "watch" => Rewatching /\ ~Rewatching'
  <2> SUFFICES ASSUME cmd.kind = "watch" PROVE Rewatching /\ ~Rewatching'
    OBVIOUS
  <2>1. \A j \in 1..m : commands[j].kind = "watch" => 1 = j
    BY <1>0, <1>3 DEF DiscoverySound
  <2> QED BY <1>3, <1>4, <2>1 DEF Rewatching
<1>10. ASSUME NEW i \in 1..m - 1, commands'[i].kind = "watch"
       PROVE  /\ commands'[i].watch = Late
              /\ \A h \in Early \union Late : Greater(Genesis, commands'[i].at) < h
              /\ \A j \in 1..m - 1 : commands'[j].kind = "watch" => i = j
  <2>1. i + 1 \in 1..m /\ commands'[i] = commands[i + 1]
    BY <1>3, <1>4, <1>10
  <2>2. /\ commands[i + 1].watch = Late
        /\ \A h \in Early \union Late : Greater(Genesis, commands[i + 1].at) < h
        /\ \A j \in 1..m : commands[j].kind = "watch" => i + 1 = j
    BY <1>0, <1>3, <1>10, <2>1 DEF DiscoverySound
  <2>3. ASSUME NEW j \in 1..m - 1, commands'[j].kind = "watch" PROVE i = j
    <3>1. i + 1 = j + 1
      BY <1>3, <1>4, <2>2, <2>3
    <3> QED BY <1>2, <3>1
  <2> QED BY <2>1, <2>2, <2>3
<1> QED BY <1>1, <1>3, <1>5, <1>6, <1>8, <1>9, <1>10

\* A launch's session finds stored what its start names as covered.
LEMMA StartSettles ==
  ASSUME SettleInv, UndoInv', ChildReceive, NEW cmd, cmd = Head(commands), ChildStart(cmd)
  PROVE  SettleInv'
<1>0. /\ TypeOK /\ DiscoverySound /\ LaunchSound /\ cmd.kind = "start"
      /\ persistQueue' = persistQueue
  BY DEF SettleInv, UndoInv, ChildStart
<1>1. /\ 1 \in DOMAIN commands /\ cmd = commands[1] /\ cmd \in Commands /\ ~starting.reading
      /\ UNCHANGED <<chain, starting, failed, cursor, saved, owed>>
      /\ \A i \in DOMAIN commands' :
           /\ i + 1 \in DOMAIN commands /\ i \in Int
           /\ commands'[i] = commands[i + 1] /\ commands'[i].kind # "start"
      /\ Rewatching' = Rewatching
      /\ \A i \in DOMAIN commands' : commands'[i].kind = "watch" =>
           /\ commands'[i].watch = Late
           /\ \A h \in Early \union Late : Greater(Genesis, commands'[i].at) < h
           /\ \A j \in DOMAIN commands' : commands'[j].kind = "watch" => i = j
  BY <1>0, TakenCommand
<1>2. /\ session = "down"
      /\ cmd.watch = IF Rewatching THEN Early ELSE owed
      /\ \A h \in cmd.watch : h <= cmd.at => Row(h) \in saved \/ Again(h)
  BY <1>0, <1>1 DEF LaunchSound
<1>3. session' = "scanning" /\ pos' = Greater(cmd.at, Genesis - 1) /\ watch' = cmd.watch
  BY <1>2 DEF ChildStart
<1>4. \A h : Again(h)' = Again(h)
  BY <1>1 DEF Again
<1>5. /\ Last' = Last /\ CursorSound' /\ ClaimsSound' /\ ResetsLow'
      /\ \A h, k : /\ Written(h, k)' = Written(h, k) /\ Gated(h, k)' = Gated(h, k)
                   /\ Row(h)' = Row(h)
  BY <1>0, <1>1, <1>4, StillSettles
<1>6. SessionKept'
  <2> SUFFICES ASSUME NEW h \in cmd.watch, h <= pos' PROVE Written(h, Last)' \/ Again(h)'
    BY <1>3 DEF SessionKept
  <2>1. h \in Int /\ h > 0 /\ cmd.at \in Int
    <3>1. h \in Heights /\ cmd.at \in {NoRow} \union 0..Tip
      BY <1>1 DEF Commands
    <3>2. h \in Int /\ h > 0
      BY <1>0, <3>1, OwedHeights
    <3> QED BY <3>1, <3>2, Numbers DEF NoRow
  <2>2. h <= cmd.at
    BY <1>3, <2>1 DEF Greater, Genesis
  <2> QED BY <1>2, <1>4, <1>5, <2>2 DEF Written
<1>7. DiscoverySound'
  <2>1. Discovering' => Discovering
    BY <1>0, <1>1 DEF Discovering, Rewatching
  <2>2. \A i \in DOMAIN commands' : commands'[i].kind = "stop" => ~Discovering'
    BY <1>0, <1>1, <2>1 DEF DiscoverySound
  <2>3. \A i \in 1..Last' : persistQueue'[i].kind = "discover" =>
          /\ owed' = Early /\ ~(Late \subseteq Early)
          /\ \A h \in Early \union Late : Greater(Genesis, persistQueue'[i].at) < h
          /\ \A j \in 1..Last' : persistQueue'[j].kind = "discover" => i = j
    BY <1>0, <1>1, <1>5 DEF DiscoverySound
  <2>4. /\ owed' \in {Early, Early \union Late}
        /\ watch' = IF Rewatching' THEN Early ELSE owed'
        /\ Rewatching' => owed' = Early \union Late /\ ~(Late \subseteq Early)
        /\ session' # "down"
    BY <1>0, <1>1, <1>2, <1>3 DEF DiscoverySound
  <2> QED BY <1>1, <2>2, <2>3, <2>4 DEF DiscoverySound
<1>8. LaunchSound'
  BY <1>1 DEF LaunchSound
<1> QED BY <1>5, <1>6, <1>7, <1>8 DEF SettleInv

\* A stop finds no discovery under way, a reseed moves no height.
LEMMA StopSettles ==
  ASSUME SettleInv, UndoInv', ChildReceive, NEW cmd, cmd = Head(commands),
         ChildStop(cmd) \/ ChildReseed(cmd)
  PROVE  SettleInv'
<1>0. /\ TypeOK /\ DiscoverySound /\ LaunchSound /\ SessionKept
      /\ cmd.kind \in {"stop", "reseed"} /\ persistQueue' = persistQueue
      /\ \/ session' = "down" /\ cmd.kind = "stop"
         \/ UNCHANGED <<pos, watch>> /\ (session' = "down" <=> session = "down")
  BY DEF SettleInv, UndoInv, ChildStop, ChildReseed
<1>1. /\ 1 \in DOMAIN commands /\ cmd = commands[1] /\ ~starting.reading
      /\ UNCHANGED <<chain, starting, failed, cursor, saved, owed>>
      /\ \A i \in DOMAIN commands' :
           /\ i + 1 \in DOMAIN commands /\ i \in Int
           /\ commands'[i] = commands[i + 1] /\ commands'[i].kind # "start"
      /\ Rewatching' = Rewatching
      /\ \A i \in DOMAIN commands' : commands'[i].kind = "watch" =>
           /\ commands'[i].watch = Late
           /\ \A h \in Early \union Late : Greater(Genesis, commands'[i].at) < h
           /\ \A j \in DOMAIN commands' : commands'[j].kind = "watch" => i = j
  BY <1>0, TakenCommand
<1>2. \A h : Again(h)' = Again(h)
  BY <1>1 DEF Again
<1>3. /\ Last' = Last /\ CursorSound' /\ ClaimsSound' /\ ResetsLow'
      /\ \A h, k : /\ Written(h, k)' = Written(h, k) /\ Gated(h, k)' = Gated(h, k)
                   /\ Row(h)' = Row(h)
  BY <1>0, <1>1, <1>2, StillSettles
<1>4. SessionKept'
  BY <1>0, <1>2, <1>3 DEF SessionKept
<1>5. cmd.kind = "stop" => ~Discovering /\ ~Rewatching
  BY <1>0, <1>1 DEF DiscoverySound, Discovering, Rewatching
<1>6. cmd.kind = "stop" => \A i \in 1..Last : persistQueue[i].kind # "discover"
  BY <1>0, <1>5 DEF Discovering, TypeOK, Last
<1>7. DiscoverySound'
  <2>1. Discovering' => Discovering
    BY <1>0, <1>1 DEF Discovering, Rewatching
  <2>2. \A i \in DOMAIN commands' : commands'[i].kind = "stop" => ~Discovering'
    BY <1>0, <1>1, <2>1 DEF DiscoverySound
  <2>3. \A i \in 1..Last' : persistQueue'[i].kind = "discover" =>
          /\ owed' = Early /\ ~(Late \subseteq Early)
          /\ \A h \in Early \union Late : Greater(Genesis, persistQueue'[i].at) < h
          /\ \A j \in 1..Last' : persistQueue'[j].kind = "discover" => i = j
          /\ session' = "down" => i = Last'
    BY <1>0, <1>1, <1>3, <1>6 DEF DiscoverySound
  <2>4. /\ owed' \in {Early, Early \union Late}
        /\ session' # "down" => watch' = IF Rewatching' THEN Early ELSE owed'
        /\ Rewatching' => owed' = Early \union Late /\ ~(Late \subseteq Early)
        /\ Rewatching' /\ session' = "down" =>
             persistQueue' = <<>> /\ \A h \in Early \union Late : cursor' < h
    BY <1>0, <1>1, <1>5 DEF DiscoverySound
  <2> QED BY <1>1, <2>2, <2>3, <2>4 DEF DiscoverySound
<1>8. LaunchSound'
  BY <1>1 DEF LaunchSound
<1> QED BY <1>3, <1>4, <1>7, <1>8 DEF SettleInv

\* The rewind of a discovery steps the scan, and with its echo the cursor, below
\* everything owed; with the session down the cursor is there already.
LEMMA WatchSettles ==
  ASSUME SettleInv, UndoInv', ChildReceive, NEW cmd, cmd = Head(commands), ChildWatch(cmd)
  PROVE  SettleInv'
<1>0. /\ TypeOK /\ TypeOK' /\ DiscoverySound /\ LaunchSound /\ SessionKept /\ ResetsLow
      /\ cmd.kind = "watch" /\ persistQueue \in Seq(Tasks) /\ pos \in Int
      /\ \A h \in Early \union Late : h \in Int
  <2>1. TypeOK /\ \A h \in Early \union Late : h \in Heights
    BY ConstantsAssumption DEF SettleInv, UndoInv
  <2>2. pos \in Int /\ persistQueue \in Seq(Tasks)
    BY <2>1, Numbers, QueueTyped DEF TypeOK
  <2> QED BY <2>1, <2>2, Numbers DEF SettleInv, UndoInv, ChildWatch
<1>1. /\ 1 \in DOMAIN commands /\ cmd = commands[1] /\ cmd \in Commands /\ ~starting.reading
      /\ UNCHANGED <<chain, starting, failed, cursor, saved, owed>>
      /\ \A i \in DOMAIN commands' : commands'[i].kind # "start"
      /\ Rewatching /\ ~Rewatching'
  BY <1>0, TakenCommand
<1>2. /\ cmd.watch = Late /\ \A h \in Early \union Late : Greater(Genesis, cmd.at) < h
      /\ owed = Early \union Late /\ ~(Late \subseteq Early)
      /\ \A i \in 1..Last : persistQueue[i].kind # "discover"
  BY <1>0, <1>1 DEF DiscoverySound
<1>3. /\ LaunchSound' /\ \A h : ~Again(h)'
      /\ \A i \in DOMAIN commands' : commands'[i].kind # "watch"
  BY <1>1 DEF LaunchSound, Again, Rewatching
<1>4. ASSUME \A i \in 1..Last' : persistQueue'[i].kind # "discover",
             session' # "down" => watch' = owed
      PROVE  DiscoverySound'
  <2>1. ~Discovering'
    <3>1. DOMAIN persistQueue' = 1..Last'
      BY <1>0 DEF TypeOK, Last
    <3> QED BY <1>3, <1>4, <3>1 DEF Discovering
  <2> QED BY <1>1, <1>2, <1>3, <1>4, <2>1 DEF DiscoverySound
<1>5. CASE session = "down"
  <2>1. UNCHANGED <<session, persistQueue>> /\ Last' = Last
    BY <1>5 DEF ChildWatch, childVars, Last
  <2>2. Last = 0 /\ persistQueue = <<>> /\ \A h \in Early \union Late : cursor < h
    BY <1>0, <1>1, <1>5 DEF DiscoverySound, Last
  <2>3. \A h \in Early \union Late : ~(h <= cursor)
    <3>1. cursor \in Int
      BY <1>0, Numbers DEF TypeOK, NoRow
    <3> QED BY <1>0, <2>2, <3>1
  <2>4. CursorSound'
    BY <1>1, <1>2, <2>3 DEF CursorSound
  <2>5. ClaimsSound'
    BY <2>1, <2>2 DEF ClaimsSound
  <2>6. ResetsLow'
    BY <1>0, <1>1, <2>1 DEF ResetsLow
  <2>7. SessionKept'
    BY <1>5, <2>1 DEF SessionKept
  <2>8. DiscoverySound'
    BY <1>2, <1>4, <1>5, <2>1
  <2> QED BY <1>3, <2>4, <2>5, <2>6, <2>7, <2>8 DEF SettleInv
<1>6. CASE session # "down"
  <2>1. watch = Early
    BY <1>0, <1>1, <1>6 DEF DiscoverySound
  <2>2. PICK target : target = Lesser(pos + 1, Greater(Genesis, cmd.at))
    OBVIOUS
  <2>3. PICK t : t = Task("reset", target)
    OBVIOUS
  <2>4. /\ watch' = watch \union Late /\ pos' = target - 1 /\ session' = session
        /\ persistQueue' = persistQueue \o <<t>> /\ t.kind = "reset" /\ t.at = target
    BY <1>2, <1>6, <2>1, <2>2, <2>3 DEF ChildWatch, Emit, Task
  <2>5. target \in 0..Tip /\ target \in Int /\ \A h \in Early \union Late : target < h
    <3>1. cmd.at \in {NoRow} \union 0..Tip /\ pos \in 0..Tip
      BY <1>0, <1>1 DEF Commands, TypeOK
    <3>2. target \in 0..Tip
      BY <2>2, <3>1, ConstantsAssumption DEF Lesser, Greater, Genesis, NoRow
    <3>3. PICK g : g = Greater(Genesis, cmd.at)
      OBVIOUS
    <3>4. g \in Int /\ \A h \in Early \union Late : g < h
      BY <1>2, <3>1, <3>3, Numbers DEF Greater, Genesis, NoRow
    <3>5. target <= g
      BY <1>0, <2>2, <3>3, <3>4 DEF Lesser
    <3> QED BY <1>0, <3>2, <3>4, <3>5, Numbers
  <2>6. t \in Tasks
    BY <1>0, <2>3, <2>5, TaskType DEF Kinds
  <2>7. \A h \in owed : ~Passes(t, h)
    <3> SUFFICES ASSUME NEW h \in owed, h <= target PROVE FALSE
      BY <1>0, <1>2, <2>4, <2>5 DEF Passes
    <3> QED BY <1>0, <1>2, <2>5
  <2>8. /\ \A h \in owed : Again(h) => Again(h)' \/ (t.kind = "reset" /\ t.at < h)
        /\ t.kind = "reset" /\ "block" \in Fails => \A h \in Early \union Late : t.at < h
        /\ t.kind # "rewind" /\ UNCHANGED <<chain, saved, failed, cursor, owed>>
    BY <1>1, <1>2, <2>4, <2>5
  <2>9. CursorSound' /\ ClaimsSound' /\ ResetsLow'
    BY <1>0, <2>4, <2>6, <2>7, <2>8, AppendKeeps
  <2>10. SessionKept'
    <3> SUFFICES ASSUME NEW h \in watch', h <= pos' PROVE FALSE
      BY DEF SessionKept
    <3>1. h \in Int /\ target < h /\ h <= target - 1
      BY <1>0, <2>1, <2>4, <2>5
    <3> QED BY <2>5, <3>1
  <2>11. \A i \in 1..Last' : persistQueue'[i].kind # "discover"
    <3>1. /\ Last \in Nat /\ Last' = Last + 1 /\ persistQueue'[Last + 1] = t
          /\ \A i \in 1..Last : persistQueue'[i] = persistQueue[i]
      BY <1>0, <2>4, <2>6, Appended
    <3>2. \A i \in 1..Last' : i \in 1..Last \/ i = Last + 1
      BY <3>1
    <3> QED BY <1>2, <2>4, <3>1, <3>2
  <2>12. DiscoverySound'
    BY <1>2, <1>4, <2>1, <2>4, <2>11
  <2> QED BY <1>3, <2>9, <2>10, <2>12 DEF SettleInv
<1> QED BY <1>5, <1>6

LEMMA ChildSettles ==
  ASSUME SettleInv, UndoInv', ChildReceive
  PROVE  SettleInv'
<1>1. PICK cmd : cmd = Head(commands)
  OBVIOUS
<1>2. ChildStart(cmd) \/ ChildStop(cmd) \/ ChildWatch(cmd) \/ ChildReseed(cmd)
  BY <1>1 DEF ChildReceive
<1> QED BY <1>1, <1>2, StartSettles, StopSettles, WatchSettles

\* A launch reads SQL when nothing is left to change it.
LEMMA LaunchSettles ==
  ASSUME SettlesWell, SettleInv, UndoInv', StartSync \/ StartSend
  PROVE  SettleInv'
<1>0. /\ TypeOK /\ CursorSound /\ ResetsLow /\ DiscoverySound /\ LaunchSound
      /\ Quiet /\ Last = 0
      /\ UNCHANGED <<chain, session, pos, watch, persistQueue, cursor, saved, owed>>
  <2>1. TypeOK /\ CursorSound /\ ResetsLow /\ DiscoverySound /\ LaunchSound
    BY DEF SettleInv, UndoInv
  <2>2. Quiet
    BY <2>1 DEF StartSync, StartSend, SettlesWell, LaunchSound
  <2>3. UNCHANGED <<chain, session, pos, watch, persistQueue, cursor, saved, owed>>
    BY DEF StartSync, StartSend, chainVars, childVars, sqlVars
  <2> QED BY <2>1, <2>2, <2>3 DEF Quiet, Last
<1>1. ~Rewatching /\ ~Discovering
  BY <1>0 DEF Quiet, Rewatching, Discovering
<1>2. \A h \in owed : h <= cursor => Row(h) \in saved
  BY <1>0, <1>1 DEF CursorSound, Again
<1>3. /\ Last' = 0 /\ \A h : Row(h)' = Row(h)
      /\ CursorSound' /\ ClaimsSound' /\ SessionKept'
  <2>1. Last' = 0 /\ (\A h : Row(h)' = Row(h)) /\ session' = "down"
    BY <1>0 DEF Last, Row, Quiet
  <2> QED BY <1>0, <1>2, <2>1 DEF CursorSound, ClaimsSound, SessionKept
<1>4. CASE StartSync
  <2>1. starting' = [reading |-> TRUE, watch |-> owed] /\ failed' = {} /\ commands' = commands
    BY <1>4 DEF StartSync
  <2>2. DiscoverySound'
    BY <1>0, <1>3, <2>1 DEF DiscoverySound, Discovering, Rewatching, Quiet
  <2>3. LaunchSound'
    BY <1>0, <2>1 DEF LaunchSound, Quiet
  <2>4. ResetsLow'
    BY <1>3, <2>1 DEF ResetsLow
  <2> QED BY <1>3, <2>2, <2>3, <2>4 DEF SettleInv
<1>5. CASE StartSend
  <2>1. PICK c : c = Command("start", cursor, starting.watch)
    OBVIOUS
  <2>2. /\ c.kind = "start" /\ c.at = cursor /\ c.watch = owed
        /\ commands' = Append(commands, c) /\ starting' = NotStarting /\ failed' = failed
    BY <1>0, <1>5, <2>1 DEF StartSend, Command, LaunchSound
  <2>3. DOMAIN commands' = {1} /\ commands'[1] = c
    <3>1. commands = <<>>
      BY <1>0 DEF Quiet
    <3>2. commands' = <<c>>
      BY <2>2, <3>1
    <3> QED BY <3>2
  <2>4. ~Rewatching' /\ ~Discovering'
    BY <1>0, <1>1, <2>2, <2>3 DEF Rewatching, Discovering
  <2>5. DiscoverySound'
    <3>1. \A i \in DOMAIN commands' : commands'[i].kind # "watch" /\ commands'[i].kind # "stop"
      BY <2>2, <2>3
    <3>2. session' = "down" /\ \A i \in 1..Last' : FALSE
      BY <1>0, <1>3 DEF Quiet
    <3> QED BY <1>0, <2>4, <3>1, <3>2 DEF DiscoverySound
  <2>6. LaunchSound'
    BY <1>0, <1>2, <1>3, <2>2, <2>3, <2>4 DEF LaunchSound, Quiet, NotStarting
  <2>7. ResetsLow'
    BY <1>0, <1>3, <2>2 DEF ResetsLow
  <2> QED BY <1>3, <2>5, <2>6, <2>7 DEF SettleInv
<1> QED BY <1>4, <1>5

\* A discovery goes behind everything the session has said.
LEMMA AddSettles ==
  ASSUME SettlesWell, SettleInv, UndoInv', NEW floor \in Floors, AddWatchAddresses(floor)
  PROVE  SettleInv'
<1>0. /\ TypeOK /\ TypeOK' /\ DiscoverySound /\ LaunchSound /\ SessionKept
      /\ UNCHANGED <<chain, session, pos, watch, commands, starting, failed, cursor, saved, owed>>
      /\ ~(Late \subseteq owed) /\ ~starting.reading
      /\ \A i \in DOMAIN persistQueue : persistQueue[i].kind # "discover"
      /\ \A i \in DOMAIN commands : commands[i].kind # "stop"
  BY DEF SettleInv, UndoInv, AddWatchAddresses, SettlesWell, chainVars, childVars, sqlVars
<1>1. PICK t : t = Task("discover", floor)
  OBVIOUS
<1>2. /\ t \in Tasks /\ t.kind = "discover" /\ t.at = floor
      /\ persistQueue' = Append(persistQueue, t)
      /\ \A h \in Early \union Late : Greater(Genesis, t.at) < h
  <2>1. floor \in 0..Tip /\ t.at = floor /\ t.kind = "discover"
    BY <1>1, ConstantsAssumption DEF Task
  <2>2. t \in Tasks
    BY <1>0, <1>1, <2>1, TaskType DEF Kinds
  <2> QED BY <1>1, <2>1, <2>2 DEF AddWatchAddresses, SettlesWell
<1>3. owed = Early /\ ~(Late \subseteq Early) /\ ~Rewatching
  BY <1>0 DEF DiscoverySound
<1>4. \A h : Again(h)' = Again(h)
  BY <1>0 DEF Again, Rewatching
<1>5. /\ CursorSound' /\ ClaimsSound' /\ ResetsLow'
      /\ \A h : Written(h, Last) => Written(h, Last)'
      /\ \A h : Gated(h, Last) => Gated(h, Last)'
  <2>1. /\ \A h \in owed : ~Passes(t, h)
        /\ t.kind # "rewind" /\ t.kind # "reset"
        /\ UNCHANGED <<chain, saved, failed, cursor, owed>>
    BY <1>0, <1>2 DEF Passes
  <2> QED BY <1>0, <1>2, <1>4, <2>1, AppendKeeps
<1>6. SessionKept'
  BY <1>0, <1>4, <1>5 DEF SessionKept
<1>7. PICK n \in Nat : /\ n = Last /\ n + 1 = Last' /\ DOMAIN persistQueue = 1..n
                       /\ \A i \in 1..n : persistQueue'[i] = persistQueue[i]
                       /\ persistQueue'[n + 1] = t
  <2>1. persistQueue \in Seq(Tasks)
    BY <1>0, QueueTyped
  <2> QED BY <1>2, <2>1, Appended DEF Last
<1>8. \A i \in 1..n + 1 : i \in 1..n \/ i = n + 1
  OBVIOUS
<1>9. \A i \in 1..n + 1 : persistQueue'[i].kind = "discover" => i = n + 1
  BY <1>0, <1>7, <1>8
<1>10. DiscoverySound'
  <2>1. \A i \in 1..Last' : persistQueue'[i].kind = "discover" =>
          /\ owed' = Early /\ ~(Late \subseteq Early)
          /\ \A h \in Early \union Late : Greater(Genesis, persistQueue'[i].at) < h
          /\ \A j \in 1..Last' : persistQueue'[j].kind = "discover" => i = j
          /\ session' = "down" => i = Last'
    BY <1>0, <1>2, <1>3, <1>7, <1>9
  <2>2. /\ session' # "down" => watch' = owed'
        /\ ~Rewatching' /\ owed' = Early
        /\ \A i \in DOMAIN commands' : commands'[i].kind # "watch" /\ commands'[i].kind # "stop"
    BY <1>0, <1>3 DEF DiscoverySound, Rewatching
  <2> QED BY <2>1, <2>2 DEF DiscoverySound
<1>11. LaunchSound'
  <2>1. \A h : Row(h)' = Row(h)
    BY <1>0 DEF Row
  <2>2. Rewatching' = Rewatching
    BY <1>0 DEF Rewatching
  <2>3. (\A j \in 1..Last : persistQueue[j].kind = "discover")
          => \A j \in 1..Last' : persistQueue'[j].kind = "discover"
    BY <1>2, <1>7, <1>8
  <2> QED BY <1>0, <1>4, <2>1, <2>2, <2>3 DEF LaunchSound
<1> QED BY <1>5, <1>6, <1>10, <1>11 DEF SettleInv

\* A session ends beside no discovery; what it had said is in the queue.
LEMMA EndSettles ==
  ASSUME SettlesWell, SettleInv, UndoInv', StopSync \/ ChildExit
  PROVE  SettleInv'
<1>0. /\ TypeOK /\ TypeOK' /\ DiscoverySound /\ LaunchSound /\ SessionKept
      /\ UNCHANGED <<chain, persistQueue, starting, failed, cursor, saved, owed>>
      /\ ~Discovering /\ ~Rewatching
  <2>1. TypeOK /\ TypeOK' /\ DiscoverySound /\ LaunchSound /\ SessionKept
    BY DEF SettleInv, UndoInv
  <2>2. UNCHANGED <<chain, persistQueue, starting, failed, cursor, saved, owed>>
    BY DEF StopSync, ChildExit, chainVars, mainVars, sqlVars
  <2>3. ~Discovering
    BY DEF StopSync, ChildExit, SettlesWell
  <2> QED BY <2>1, <2>2, <2>3 DEF Discovering, Rewatching
<1>1. \A h : ~Again(h)
  BY <1>0 DEF Again
<1>2. /\ Last' = Last /\ CursorSound' /\ ClaimsSound' /\ ResetsLow'
      /\ \A h, k : /\ Written(h, k)' = Written(h, k) /\ Gated(h, k)' = Gated(h, k)
                   /\ Row(h)' = Row(h)
  BY <1>0, <1>1, StillSettles
<1>3. \A i \in 1..Last : persistQueue[i].kind # "discover"
  BY <1>0 DEF Discovering, TypeOK, Last
<1>4. CASE StopSync
  <2>1. PICK c : c = Command("stop", 0, {})
    OBVIOUS
  <2>2. /\ c.kind = "stop" /\ commands' = Append(commands, c)
        /\ session # "down" /\ UNCHANGED <<session, pos, watch>>
    BY <1>4, <2>1 DEF StopSync, Command, childVars
  <2>3. PICK m \in Nat : /\ DOMAIN commands = 1..m /\ DOMAIN commands' = 1..m + 1
                         /\ commands'[m + 1] = c
                         /\ \A i \in 1..m : commands'[i] = commands[i]
    <3>1. commands \in Seq(Commands)
      BY <1>0 DEF TypeOK
    <3>2. PICK m \in Nat : m = Len(commands)
      BY <3>1
    <3> QED BY <2>2, <3>1, <3>2
  <2>4. \A i \in 1..m + 1 : i \in 1..m \/ i = m + 1
    OBVIOUS
  <2>5. ~starting.reading /\ \A i \in DOMAIN commands : commands[i].kind # "start"
    BY <2>2, UpNotLaunching
  <2>6. /\ \A i \in DOMAIN commands' : commands'[i].kind # "start"
        /\ \A i \in DOMAIN commands' : commands'[i].kind # "watch"
    BY <1>0, <2>2, <2>3, <2>4, <2>5 DEF Rewatching
  <2>7. ~Rewatching' /\ ~Discovering' /\ \A h : ~Again(h)'
    BY <1>0, <2>6 DEF Rewatching, Discovering, Again
  <2>8. SessionKept'
    BY <1>0, <1>1, <1>2, <2>2 DEF SessionKept
  <2>9. DiscoverySound'
    BY <1>0, <1>2, <1>3, <2>2, <2>6, <2>7 DEF DiscoverySound
  <2>10. LaunchSound'
    BY <1>0, <2>5, <2>6 DEF LaunchSound
  <2> QED BY <1>2, <2>8, <2>9, <2>10 DEF SettleInv
<1>5. CASE ChildExit
  <2>1. session' = "down" /\ commands' = <<>>
    BY <1>5 DEF ChildExit
  <2>2. DOMAIN commands' = {} /\ ~Rewatching'
    BY <2>1 DEF Rewatching
  <2>3. DiscoverySound'
    BY <1>0, <1>2, <1>3, <2>1, <2>2 DEF DiscoverySound
  <2>4. LaunchSound'
    BY <1>0, <2>1, <2>2 DEF LaunchSound, Quiet
  <2>5. SessionKept'
    BY <2>1 DEF SessionKept
  <2> QED BY <1>2, <2>3, <2>4, <2>5 DEF SettleInv
<1> QED BY <1>4, <1>5

LEMMA NextSettle ==
  ASSUME SettlesWell
  PROVE  SettleInv /\ [Next]_vars => SettleInv'
<1> SUFFICES ASSUME SettleInv, [Next]_vars PROVE SettleInv'
  OBVIOUS
<1>1. UndoReliable
  BY DEF SettlesWell, UndoReliable
<1>2. UndoInv'
  BY <1>1, NextUndo DEF SettleInv
<1>3. CASE WorkerScan \/ WorkerSettle \/ \E f \in Forks : WorkerReorg(f)
  BY <1>2, <1>3, WorkerSettles
<1>4. CASE ChildReceive
  BY <1>2, <1>4, ChildSettles
<1>5. CASE PersistNext
  BY <1>2, <1>5, PersistSettles
<1>6. CASE StartSync \/ StartSend
  BY <1>2, <1>6, LaunchSettles
<1>7. ASSUME NEW floor \in Floors, AddWatchAddresses(floor) PROVE SettleInv'
  BY <1>2, <1>7, AddSettles
<1>8. CASE StopSync \/ ChildExit
  BY <1>2, <1>8, EndSettles
<1>9. CASE Crash
  BY <1>9 DEF SettleInv, UndoInv, TypeOK, SettlesWell, Crash
<1>10. CASE UNCHANGED vars
  <2>1. /\ UNCHANGED <<chain, session, pos, watch, commands, persistQueue, failed, starting,
                       cursor, saved, owed>>
    BY <1>10 DEF vars, chainVars, childVars, mainVars, sqlVars
  <2> QED BY <1>2, <2>1
      DEF SettleInv, CursorSound, ClaimsSound, ResetsLow, SessionKept, DiscoverySound, LaunchSound,
          Discovering, Rewatching, Quiet, Again, Written, Gated, Undoes, Lowers, Last, Row, Write
<1> QED BY <1>3, <1>4, <1>5, <1>6, <1>7, <1>8, <1>9, <1>10 DEF Next

LEMMA InitSettle == Init => SettleInv
<1> SUFFICES ASSUME Init PROVE SettleInv
  OBVIOUS
<1>1. UndoInv
  BY InitUndo
<1>2. Last = 0 /\ ~Rewatching
  BY DEF Init, Last, Rewatching
<1>3. \A h \in owed : ~(h <= cursor)
  <2>1. \A h \in owed : h \in Int /\ h > 0
    BY <1>1, OwedHeights DEF UndoInv
  <2> QED BY <2>1 DEF Init, NoRow
<1>4. CursorSound /\ ClaimsSound /\ ResetsLow /\ SessionKept
  BY <1>2, <1>3 DEF Init, CursorSound, ClaimsSound, ResetsLow, SessionKept
<1>5. DiscoverySound /\ LaunchSound
  BY <1>2 DEF Init, DiscoverySound, LaunchSound, NotStarting, Quiet
<1> QED BY <1>1, <1>4, <1>5 DEF SettleInv

\* Whatever reorgs and discoveries have left behind, and in whatever order the
\* worker's events, main's own reset and the commands landed: once nothing is in
\* flight, every block at or below the cursor that pays an address on record is
\* stored (WalletSyncService's queue, resetCursor, rewindToHeight).
THEOREM NoHoleOnceSettled ==
  ASSUME SettlesWell
  PROVE  Spec => []SettledNoHole
<1>1. SettleInv => SettledNoHole
  BY DEF SettleInv, CursorSound, SettledNoHole, NoHole, Again, Rewatching, Last
<1> QED BY <1>1, InitSettle, NextSettle, PTL DEF Spec

\* A session may end at any point that no discovery is under way: what it has
\* walked past is stored, queued, named by the gate or about to be scanned again,
\* and once main's commands are taken it watches every address on record.
THEOREM SessionsLoseNothing ==
  ASSUME SettlesWell
  PROVE  Spec => []SessionSound
<1>1. SettleInv => SessionSound
  <2> SUFFICES ASSUME SettleInv PROVE SessionSound
    OBVIOUS
  <2>1. TypeOK /\ SessionKept /\ DiscoverySound
    BY DEF SettleInv, UndoInv
  <2>2. \A h : Written(h, Last) \/ Gated(h, Last) => Covered(h, Last)
    BY DEF Written, Gated, Covered
  <2>3. \A h : Again(h) => h \in Late /\ Discovering
    BY DEF Again, Rewatching, Discovering
  <2>4. SessionCovers
    BY <2>1, <2>2, <2>3 DEF SessionKept, SessionCovers, Last
  <2>5. WatchesOwed
    BY <2>1 DEF DiscoverySound, WatchesOwed, Rewatching
  <2> QED BY <2>1, <2>4, <2>5 DEF SessionSound
<1> QED BY <1>1, InitSettle, NextSettle, PTL DEF Spec

=============================================================================
