---------------------- MODULE AssetLockFunding_proofs ----------------------
(***************************************************************************)
(* For every number of locks, jobs, crashes and failures, and with every   *)
(* situation of Allowed included: no asset lock is lost, and a row says    *)
(* Done only when everything is done.                                      *)
(***************************************************************************)
EXTENDS AssetLockFunding, TLAPS

\* What holds of each row: done and given up are earned, and a lock that was
\* sent has a row.
RowsTrue ==
  \A l \in Locks :
    /\ row[l] = "Done" => l \in credited /\ (l \in Registers => l \in identities)
    /\ row[l] = "Error" => l \in dismissed
    /\ l \in l1 => row[l] # "none"

\* What a job at each step has behind it.
JobTrue(s) ==
  /\ job[s].at = "send" => job[s].lock \in Locks /\ row[job[s].lock] # "none"
  /\ job[s].at \in {"prove", "mark", "submit", "reprove", "answer", "record", "finish", "unlock", "reacquire"}
       => job[s].row \in Locks /\ row[job[s].row] # "none"
  /\ job[s].at \in {"answer", "record", "finish"} => job[s].row \in credited
  /\ job[s].at = "finish" => (job[s].row \in Registers => job[s].row \in identities)

IInv == TypeOK /\ RowsTrue /\ \A s \in Slots : JobTrue(s)

\* getActiveFunding finds an open row or none.
LEMMA OpenRowIsOpen ==
  OpenRow # NoRow => OpenRow \in Locks /\ row[OpenRow] \in Open
<1>1. CASE \E l \in Locks : Latest(l)
  <2>1. Latest(CHOOSE l \in Locks : Latest(l)) /\ (CHOOSE l \in Locks : Latest(l)) \in Locks
    BY <1>1, Zenon
  <2>2. OpenRow = CHOOSE l \in Locks : Latest(l)
    BY <1>1 DEF OpenRow
  <2>3. Latest(OpenRow) /\ OpenRow \in Locks
    BY <2>1, <2>2
  <2> QED
    BY <2>3 DEF Latest
<1>2. CASE ~\E l \in Locks : Latest(l)
  BY <1>2 DEF OpenRow
<1> QED
  BY <1>1, <1>2

\* The invariant holds at first.
LEMMA InitIInv == Init => IInv
BY FundingAssumption DEF Init, IInv, TypeOK, RowsTrue, JobTrue, Locks, Free, Jobs, Steps, Running,
   Ended, Statuses, NoRow, Nothing

\* A job that fails ends, and no other job changes.
LEMMA FailEnds ==
  ASSUME NEW s \in Slots, job \in [Slots -> Jobs], Fail(s)
  PROVE /\ job' \in [Slots -> Jobs]
        /\ job'[s].at \in {"error", "resumable"}
        /\ \A t \in Slots \ {s} : job'[t] = job[t]
<1>1. PICK at \in {"error", "resumable"} : job' = [job EXCEPT ![s] = [job[s] EXCEPT !.at = at]]
  BY DEF Fail, Go
<1>2. [job[s] EXCEPT !.at = at] \in Jobs /\ [job[s] EXCEPT !.at = at].at = at
  BY DEF Jobs, Steps, Ended
<1>3. job' = [job EXCEPT ![s] = [job[s] EXCEPT !.at = at]]
  BY <1>1
<1>4. job' \in [Slots -> Jobs] /\ job'[s] = [job[s] EXCEPT !.at = at]
  BY <1>2, <1>3
<1>5. \A t \in Slots \ {s} : job'[t] = job[t]
  BY <1>3
<1> QED
  BY <1>2, <1>4, <1>5

\* A failing job owes nothing: the invariant stays, also when its lock was sent.
LEMMA FailKeeps ==
  ASSUME IInv, NEW s \in Slots, Fail(s),
         UNCHANGED <<row, identities, instant, chain, credited, instantly, current, dismissing, dismissed>>,
         l1 \subseteq l1', l1' \subseteq {l \in Locks : row[l] # "none"}
  PROVE IInv'
<1>1. /\ job' \in [Slots -> Jobs]
      /\ job'[s].at \in {"error", "resumable"}
      /\ \A t \in Slots \ {s} : job'[t] = job[t]
  BY FailEnds DEF IInv, TypeOK
<1>2. TypeOK'
  BY <1>1 DEF IInv, TypeOK
<1>3. RowsTrue'
  BY DEF IInv, RowsTrue
<1>4. ASSUME NEW t \in Slots PROVE JobTrue(t)'
  <2>1. CASE t = s
    BY <1>1, <2>1 DEF JobTrue
  <2>2. CASE t # s
    <3>1. job'[t] = job[t]
      BY <1>1, <2>2
    <3> QED
      BY <3>1 DEF IInv, JobTrue
  <2> QED
    BY <2>1, <2>2
<1> QED
  BY <1>2, <1>3, <1>4 DEF IInv

\* And every step keeps it, whatever is excluded.
LEMMA StepIInv == IInv /\ [Next]_vars => IInv'
<1> SUFFICES ASSUME IInv, [Next]_vars PROVE IInv'
  OBVIOUS
<1> USE FundingAssumption DEF Go, UpdateStatus, store, network, Locks, NoRow, Nothing
<1>1. ASSUME NEW s \in Slots, Begin(s) PROVE IInv'
  BY <1>1 DEF Begin, IInv, TypeOK, RowsTrue, JobTrue, Jobs, Free, Steps, Running, Ended, Statuses, Open
<1>2. ASSUME NEW s \in Slots, Build(s) PROVE IInv'
  <2>1. PICK l \in Locks : row[l] = "none" /\ UpdateStatus(l, "L1Broadcast")
                          /\ job' = [job EXCEPT ![s].at = "send", ![s].lock = l]
    BY <1>2 DEF Build
  <2>2. UNCHANGED <<identities, l1, instant, chain, credited, instantly, current, dismissing, dismissed>>
    BY <1>2 DEF Build
  <2>3. job \in [Slots -> Jobs]
    BY DEF IInv, TypeOK
  <2>4. job' = [job EXCEPT ![s] = [[job[s] EXCEPT !.at = "send"] EXCEPT !.lock = l]]
    BY <2>1, <2>3
  <2>5. [[job[s] EXCEPT !.at = "send"] EXCEPT !.lock = l] \in Jobs
    BY <2>3 DEF Jobs, Steps, Running
  <2>6. TypeOK'
    BY <2>1, <2>2, <2>3, <2>4, <2>5 DEF IInv, TypeOK, Statuses
  <2>7. RowsTrue'
    BY <2>1, <2>2 DEF IInv, TypeOK, RowsTrue
  <2>8. ASSUME NEW t \in Slots PROVE JobTrue(t)'
    BY <2>1, <2>2, <2>3 DEF IInv, TypeOK, JobTrue, Jobs
  <2> QED
    BY <2>6, <2>7, <2>8 DEF IInv
<1>3. ASSUME NEW s \in Slots, BuildFails(s) PROVE IInv'
  BY FailKeeps, <1>3 DEF BuildFails, Fault, IInv, TypeOK, RowsTrue
<1>4. ASSUME NEW s \in Slots, NEW reached \in BOOLEAN, NEW heard \in BOOLEAN, Send(s, reached, heard) PROVE IInv'
  <2>1. CASE ~heard
    BY FailKeeps, <1>4, <2>1 DEF Send, Fault, IInv, TypeOK, RowsTrue, JobTrue
  <2>2. CASE ~(~heard)
    <3>1. TypeOK'
      <4>1. row' \in [Locks -> Statuses] /\ identities' \subseteq Registers
        BY <1>4, <2>2 DEF Send, IInv, TypeOK, Statuses, JobTrue, Steps, Running, Ended
      <4>2. job' \in [Slots -> Jobs]
        <5>1. job \in [Slots -> Jobs]
          BY DEF IInv, TypeOK
        <5>2. job'[s] \in Jobs
          BY <5>1, <1>4, <2>2 DEF Send, Jobs, Steps, Running, Ended
        <5>3. job' = [job EXCEPT ![s] = job'[s]]
          BY <5>1, <1>4, <2>2 DEF Send
        <5> QED
          BY <5>1, <5>2, <5>3
      <4>3. current' \in Slots \union {NoJob} /\ dismissing' \in 0..Nothing
        BY <1>4, <2>2 DEF Send, IInv, TypeOK
      <4>4. /\ l1' \subseteq Locks /\ instant' \subseteq l1' /\ chain' \subseteq l1'
            /\ credited' \subseteq Locks /\ instantly' \subseteq credited' /\ dismissed' \subseteq Locks
        BY <1>4, <2>2 DEF Send, IInv, TypeOK, JobTrue
      <4> QED
        BY <4>1, <4>2, <4>3, <4>4 DEF TypeOK
    <3>2. RowsTrue'
      BY <1>4, <2>2 DEF Send, IInv, TypeOK, RowsTrue, JobTrue, Statuses
    <3>3. ASSUME NEW t \in Slots PROVE JobTrue(t)'
      <4>1. /\ \A l \in Locks : row[l] # "none" => row'[l] # "none"
            /\ credited \subseteq credited' /\ identities \subseteq identities'
        BY <1>4, <2>2 DEF Send, IInv, TypeOK, Statuses
      <4>2. CASE t # s
        <5>1. job'[t] = job[t]
          BY <1>4, <2>2, <4>2 DEF Send, IInv, TypeOK
        <5> QED
          BY <4>1, <5>1 DEF IInv, JobTrue
      <4>3. CASE t = s
        BY <1>4, <2>2, <4>1, <4>3 DEF Send, IInv, TypeOK, JobTrue, Jobs, Open, Statuses
      <4> QED
        BY <4>2, <4>3
    <3> QED
      BY <3>1, <3>2, <3>3 DEF IInv
  <2> QED
    BY <2>1, <2>2
<1>5. ASSUME NEW s \in Slots, ReadRow(s) PROVE IInv'
  <2>1. CASE OpenRow = NoRow
    BY FailKeeps, <1>5, <2>1 DEF ReadRow, Fault, IInv, TypeOK, RowsTrue, JobTrue
  <2>2. CASE ~(OpenRow = NoRow)
    <3>1. TypeOK'
      <4>1. row' \in [Locks -> Statuses] /\ identities' \subseteq Registers
        BY OpenRowIsOpen, <1>5, <2>2 DEF ReadRow, IInv, TypeOK, Statuses, JobTrue, Steps, Running, Ended
      <4>2. job' \in [Slots -> Jobs]
        <5>1. job \in [Slots -> Jobs]
          BY DEF IInv, TypeOK
        <5>2. job'[s] \in Jobs
          BY OpenRowIsOpen, <5>1, <1>5, <2>2 DEF ReadRow, Jobs, Steps, Running, Ended
        <5>3. job' = [job EXCEPT ![s] = job'[s]]
          BY OpenRowIsOpen, <5>1, <1>5, <2>2 DEF ReadRow
        <5> QED
          BY <5>1, <5>2, <5>3
      <4>3. current' \in Slots \union {NoJob} /\ dismissing' \in 0..Nothing
        BY OpenRowIsOpen, <1>5, <2>2 DEF ReadRow, IInv, TypeOK
      <4>4. /\ l1' \subseteq Locks /\ instant' \subseteq l1' /\ chain' \subseteq l1'
            /\ credited' \subseteq Locks /\ instantly' \subseteq credited' /\ dismissed' \subseteq Locks
        BY OpenRowIsOpen, <1>5, <2>2 DEF ReadRow, IInv, TypeOK, JobTrue
      <4> QED
        BY <4>1, <4>2, <4>3, <4>4 DEF TypeOK
    <3>2. RowsTrue'
      BY OpenRowIsOpen, <1>5, <2>2 DEF ReadRow, IInv, TypeOK, RowsTrue, JobTrue, Statuses
    <3>3. ASSUME NEW t \in Slots PROVE JobTrue(t)'
      <4>1. /\ \A l \in Locks : row[l] # "none" => row'[l] # "none"
            /\ credited \subseteq credited' /\ identities \subseteq identities'
        BY OpenRowIsOpen, <1>5, <2>2 DEF ReadRow, IInv, TypeOK, Statuses
      <4>2. CASE t # s
        <5>1. job'[t] = job[t]
          BY OpenRowIsOpen, <1>5, <2>2, <4>2 DEF ReadRow, IInv, TypeOK
        <5> QED
          BY <4>1, <5>1 DEF IInv, JobTrue
      <4>3. CASE t = s
        BY OpenRowIsOpen, <1>5, <2>2, <4>1, <4>3 DEF ReadRow, IInv, TypeOK, JobTrue, Jobs, Open, Statuses
      <4> QED
        BY <4>2, <4>3
    <3> QED
      BY <3>1, <3>2, <3>3 DEF IInv
  <2> QED
    BY <2>1, <2>2
<1>6. ASSUME NEW s \in Slots, NEW proof \in {"instant", "chain"}, Prove(s, proof) PROVE IInv'
  <2>1. TypeOK'
    <3>1. row' \in [Locks -> Statuses] /\ identities' \subseteq Registers
      BY <1>6 DEF Prove, IInv, TypeOK, Statuses, JobTrue, Steps, Running, Ended
    <3>2. job' \in [Slots -> Jobs]
      <4>1. job \in [Slots -> Jobs]
        BY DEF IInv, TypeOK
      <4>2. job'[s] \in Jobs
        BY <4>1, <1>6 DEF Prove, Jobs, Steps, Running, Ended
      <4>3. job' = [job EXCEPT ![s] = job'[s]]
        BY <4>1, <1>6 DEF Prove
      <4> QED
        BY <4>1, <4>2, <4>3
    <3>3. current' \in Slots \union {NoJob} /\ dismissing' \in 0..Nothing
      BY <1>6 DEF Prove, IInv, TypeOK
    <3>4. /\ l1' \subseteq Locks /\ instant' \subseteq l1' /\ chain' \subseteq l1'
          /\ credited' \subseteq Locks /\ instantly' \subseteq credited' /\ dismissed' \subseteq Locks
      BY <1>6 DEF Prove, IInv, TypeOK, JobTrue
    <3> QED
      BY <3>1, <3>2, <3>3, <3>4 DEF TypeOK
  <2>2. RowsTrue'
    BY <1>6 DEF Prove, IInv, TypeOK, RowsTrue, JobTrue, Statuses
  <2>3. ASSUME NEW t \in Slots PROVE JobTrue(t)'
    <3>1. /\ \A l \in Locks : row[l] # "none" => row'[l] # "none"
          /\ credited \subseteq credited' /\ identities \subseteq identities'
      BY <1>6 DEF Prove, IInv, TypeOK, Statuses
    <3>2. CASE t # s
      <4>1. job'[t] = job[t]
        BY <1>6, <3>2 DEF Prove, IInv, TypeOK
      <4> QED
        BY <3>1, <4>1 DEF IInv, JobTrue
    <3>3. CASE t = s
      BY <1>6, <3>1, <3>3 DEF Prove, IInv, TypeOK, JobTrue, Jobs, Open, Statuses
    <3> QED
      BY <3>2, <3>3
  <2> QED
    BY <2>1, <2>2, <2>3 DEF IInv
<1>7. ASSUME NEW s \in Slots, ProofTimeout(s) PROVE IInv'
  BY FailKeeps, <1>7 DEF ProofTimeout, Fault, IInv, TypeOK, RowsTrue
<1>8. ASSUME NEW s \in Slots, Mark(s) PROVE IInv'
  <2>1. TypeOK'
    <3>1. row' \in [Locks -> Statuses] /\ identities' \subseteq Registers
      BY <1>8 DEF Mark, Go, UpdateStatus, IInv, TypeOK, Statuses, JobTrue, Steps, Running, Ended
    <3>2. job' \in [Slots -> Jobs]
      <4>1. job \in [Slots -> Jobs]
        BY DEF IInv, TypeOK
      <4>2. job'[s] \in Jobs
        BY <4>1, <1>8 DEF Mark, Go, UpdateStatus, Jobs, Steps, Running, Ended
      <4>3. job' = [job EXCEPT ![s] = job'[s]]
        BY <4>1, <1>8 DEF Mark, Go, UpdateStatus
      <4> QED
        BY <4>1, <4>2, <4>3
    <3>3. current' \in Slots \union {NoJob} /\ dismissing' \in 0..Nothing
      BY <1>8 DEF Mark, Go, UpdateStatus, IInv, TypeOK
    <3>4. /\ l1' \subseteq Locks /\ instant' \subseteq l1' /\ chain' \subseteq l1'
          /\ credited' \subseteq Locks /\ instantly' \subseteq credited' /\ dismissed' \subseteq Locks
      BY <1>8 DEF Mark, Go, UpdateStatus, IInv, TypeOK, JobTrue
    <3> QED
      BY <3>1, <3>2, <3>3, <3>4 DEF TypeOK
  <2>2. RowsTrue'
    BY <1>8 DEF Mark, Go, UpdateStatus, IInv, TypeOK, RowsTrue, JobTrue, Statuses
  <2>3. ASSUME NEW t \in Slots PROVE JobTrue(t)'
    <3>1. /\ \A l \in Locks : row[l] # "none" => row'[l] # "none"
          /\ credited \subseteq credited' /\ identities \subseteq identities'
      BY <1>8 DEF Mark, Go, UpdateStatus, IInv, TypeOK, Statuses
    <3>2. CASE t # s
      <4>1. job'[t] = job[t]
        BY <1>8, <3>2 DEF Mark, Go, UpdateStatus, IInv, TypeOK
      <4> QED
        BY <3>1, <4>1 DEF IInv, JobTrue
    <3>3. CASE t = s
      BY <1>8, <3>1, <3>3 DEF Mark, Go, UpdateStatus, IInv, TypeOK, JobTrue, Jobs, Open, Statuses
    <3> QED
      BY <3>2, <3>3
  <2> QED
    BY <2>1, <2>2, <2>3 DEF IInv
<1>9. ASSUME NEW s \in Slots, Accept(s) PROVE IInv'
  <2>1. /\ job[s].at = "submit" /\ job[s].row \in Locks /\ row[job[s].row] # "none"
        /\ job \in [Slots -> Jobs]
    BY <1>9 DEF Accept, IInv, JobTrue, TypeOK
  <2>2. /\ UNCHANGED <<row, identities, l1, instant, chain, current, dismissing, dismissed>>
        /\ credited' = credited \union {job[s].row}
        /\ instantly' \subseteq instantly \union {job[s].row}
        /\ job' = [job EXCEPT ![s].at = "answer"]
    BY <1>9 DEF Accept
  <2>3. /\ job' \in [Slots -> Jobs] /\ job'[s].at = "answer" /\ job'[s].row = job[s].row
        /\ \A t \in Slots \ {s} : job'[t] = job[t]
    BY <2>1, <2>2 DEF Jobs, Steps, Running
  <2>4. TypeOK'
    BY <2>1, <2>2, <2>3 DEF IInv, TypeOK
  <2>5. RowsTrue'
    BY <2>2 DEF IInv, RowsTrue
  <2>6. ASSUME NEW t \in Slots PROVE JobTrue(t)'
    BY <2>1, <2>2, <2>3 DEF IInv, JobTrue
  <2> QED
    BY <2>4, <2>5, <2>6 DEF IInv
<1>10. ASSUME NEW s \in Slots, Submitted(s) PROVE IInv'
  BY <1>10 DEF Submitted, IInv, TypeOK, RowsTrue, JobTrue, Jobs, Free, Steps, Running, Ended, Statuses, Open
<1>11. ASSUME NEW s \in Slots, RejectedAsStale(s) PROVE IInv'
  <2>1. TypeOK'
    <3>1. row' \in [Locks -> Statuses] /\ identities' \subseteq Registers
      BY <1>11 DEF RejectedAsStale, IInv, TypeOK, Statuses, JobTrue, Steps, Running, Ended
    <3>2. job' \in [Slots -> Jobs]
      <4>1. job \in [Slots -> Jobs]
        BY DEF IInv, TypeOK
      <4>2. job'[s] \in Jobs
        BY <4>1, <1>11 DEF RejectedAsStale, Jobs, Steps, Running, Ended
      <4>3. job' = [job EXCEPT ![s] = job'[s]]
        BY <4>1, <1>11 DEF RejectedAsStale
      <4> QED
        BY <4>1, <4>2, <4>3
    <3>3. current' \in Slots \union {NoJob} /\ dismissing' \in 0..Nothing
      BY <1>11 DEF RejectedAsStale, IInv, TypeOK
    <3>4. /\ l1' \subseteq Locks /\ instant' \subseteq l1' /\ chain' \subseteq l1'
          /\ credited' \subseteq Locks /\ instantly' \subseteq credited' /\ dismissed' \subseteq Locks
      BY <1>11 DEF RejectedAsStale, IInv, TypeOK, JobTrue
    <3> QED
      BY <3>1, <3>2, <3>3, <3>4 DEF TypeOK
  <2>2. RowsTrue'
    BY <1>11 DEF RejectedAsStale, IInv, TypeOK, RowsTrue, JobTrue, Statuses
  <2>3. ASSUME NEW t \in Slots PROVE JobTrue(t)'
    <3>1. /\ \A l \in Locks : row[l] # "none" => row'[l] # "none"
          /\ credited \subseteq credited' /\ identities \subseteq identities'
      BY <1>11 DEF RejectedAsStale, IInv, TypeOK, Statuses
    <3>2. CASE t # s
      <4>1. job'[t] = job[t]
        BY <1>11, <3>2 DEF RejectedAsStale, IInv, TypeOK
      <4> QED
        BY <3>1, <4>1 DEF IInv, JobTrue
    <3>3. CASE t = s
      BY <1>11, <3>1, <3>3 DEF RejectedAsStale, IInv, TypeOK, JobTrue, Jobs, Open, Statuses
    <3> QED
      BY <3>2, <3>3
  <2> QED
    BY <2>1, <2>2, <2>3 DEF IInv
<1>12. ASSUME NEW s \in Slots, SubmitFails(s) PROVE IInv'
  BY FailKeeps, <1>12 DEF SubmitFails, Fault, IInv, TypeOK, RowsTrue
<1>13. ASSUME NEW s \in Slots, Record(s) PROVE IInv'
  BY <1>13 DEF Record, IInv, TypeOK, RowsTrue, JobTrue, Jobs, Free, Steps, Running, Ended, Statuses, Open
<1>14. ASSUME NEW s \in Slots, Finish(s) PROVE IInv'
  <2>1. TypeOK'
    <3>1. row' \in [Locks -> Statuses] /\ identities' \subseteq Registers
      BY <1>14 DEF Finish, Go, UpdateStatus, IInv, TypeOK, Statuses, JobTrue, Steps, Running, Ended
    <3>2. job' \in [Slots -> Jobs]
      <4>1. job \in [Slots -> Jobs]
        BY DEF IInv, TypeOK
      <4>2. job'[s] \in Jobs
        BY <4>1, <1>14 DEF Finish, Go, UpdateStatus, Jobs, Steps, Running, Ended
      <4>3. job' = [job EXCEPT ![s] = job'[s]]
        BY <4>1, <1>14 DEF Finish, Go, UpdateStatus
      <4> QED
        BY <4>1, <4>2, <4>3
    <3>3. current' \in Slots \union {NoJob} /\ dismissing' \in 0..Nothing
      BY <1>14 DEF Finish, Go, UpdateStatus, IInv, TypeOK
    <3>4. /\ l1' \subseteq Locks /\ instant' \subseteq l1' /\ chain' \subseteq l1'
          /\ credited' \subseteq Locks /\ instantly' \subseteq credited' /\ dismissed' \subseteq Locks
      BY <1>14 DEF Finish, Go, UpdateStatus, IInv, TypeOK, JobTrue
    <3> QED
      BY <3>1, <3>2, <3>3, <3>4 DEF TypeOK
  <2>2. RowsTrue'
    BY <1>14 DEF Finish, Go, UpdateStatus, IInv, TypeOK, RowsTrue, JobTrue, Statuses
  <2>3. ASSUME NEW t \in Slots PROVE JobTrue(t)'
    <3>1. /\ \A l \in Locks : row[l] # "none" => row'[l] # "none"
          /\ credited \subseteq credited' /\ identities \subseteq identities'
      BY <1>14 DEF Finish, Go, UpdateStatus, IInv, TypeOK, Statuses
    <3>2. CASE t # s
      <4>1. job'[t] = job[t]
        BY <1>14, <3>2 DEF Finish, Go, UpdateStatus, IInv, TypeOK
      <4> QED
        BY <3>1, <4>1 DEF IInv, JobTrue
    <3>3. CASE t = s
      BY <1>14, <3>1, <3>3 DEF Finish, Go, UpdateStatus, IInv, TypeOK, JobTrue, Jobs, Open, Statuses
    <3> QED
      BY <3>2, <3>3
  <2> QED
    BY <2>1, <2>2, <2>3 DEF IInv
<1>15. ASSUME NEW s \in Slots, ResumeCall(s) PROVE IInv'
  BY OpenRowIsOpen, <1>15 DEF ResumeCall, IInv, TypeOK, RowsTrue, JobTrue, Jobs, Free, Steps, Running, Ended, Statuses, Open
<1>16. ASSUME NEW s \in Slots, Resume(s) PROVE IInv'
  <2>1. TypeOK'
    <3>1. row' \in [Locks -> Statuses] /\ identities' \subseteq Registers
      BY <1>16 DEF Resume, IInv, TypeOK, Statuses, JobTrue, Steps, Running, Ended
    <3>2. job' \in [Slots -> Jobs]
      <4>1. job \in [Slots -> Jobs]
        BY DEF IInv, TypeOK
      <4>2. job'[s] \in Jobs
        BY <4>1, <1>16 DEF Resume, Jobs, Steps, Running, Ended
      <4>3. job' = [job EXCEPT ![s] = job'[s]]
        BY <4>1, <1>16 DEF Resume
      <4> QED
        BY <4>1, <4>2, <4>3
    <3>3. current' \in Slots \union {NoJob} /\ dismissing' \in 0..Nothing
      BY <1>16 DEF Resume, IInv, TypeOK
    <3>4. /\ l1' \subseteq Locks /\ instant' \subseteq l1' /\ chain' \subseteq l1'
          /\ credited' \subseteq Locks /\ instantly' \subseteq credited' /\ dismissed' \subseteq Locks
      BY <1>16 DEF Resume, IInv, TypeOK, JobTrue
    <3> QED
      BY <3>1, <3>2, <3>3, <3>4 DEF TypeOK
  <2>2. RowsTrue'
    BY <1>16 DEF Resume, IInv, TypeOK, RowsTrue, JobTrue, Statuses
  <2>3. ASSUME NEW t \in Slots PROVE JobTrue(t)'
    <3>1. /\ \A l \in Locks : row[l] # "none" => row'[l] # "none"
          /\ credited \subseteq credited' /\ identities \subseteq identities'
      BY <1>16 DEF Resume, IInv, TypeOK, Statuses
    <3>2. CASE t # s
      <4>1. job'[t] = job[t]
        BY <1>16, <3>2 DEF Resume, IInv, TypeOK
      <4> QED
        BY <3>1, <4>1 DEF IInv, JobTrue
    <3>3. CASE t = s
      BY <1>16, <3>1, <3>3 DEF Resume, IInv, TypeOK, JobTrue, Jobs, Open, Statuses
    <3> QED
      BY <3>2, <3>3
  <2> QED
    BY <2>1, <2>2, <2>3 DEF IInv
<1>17. ASSUME NEW s \in Slots, Reacquire(s) PROVE IInv'
  <2>1. CASE job[s].row \notin chain
    BY FailKeeps, <1>17, <2>1 DEF Reacquire, Fault, IInv, TypeOK, RowsTrue, JobTrue
  <2>2. CASE ~(job[s].row \notin chain)
    <3>1. TypeOK'
      <4>1. row' \in [Locks -> Statuses] /\ identities' \subseteq Registers
        BY <1>17, <2>2 DEF Reacquire, IInv, TypeOK, Statuses, JobTrue, Steps, Running, Ended
      <4>2. job' \in [Slots -> Jobs]
        <5>1. job \in [Slots -> Jobs]
          BY DEF IInv, TypeOK
        <5>2. job'[s] \in Jobs
          BY <5>1, <1>17, <2>2 DEF Reacquire, Jobs, Steps, Running, Ended
        <5>3. job' = [job EXCEPT ![s] = job'[s]]
          BY <5>1, <1>17, <2>2 DEF Reacquire
        <5> QED
          BY <5>1, <5>2, <5>3
      <4>3. current' \in Slots \union {NoJob} /\ dismissing' \in 0..Nothing
        BY <1>17, <2>2 DEF Reacquire, IInv, TypeOK
      <4>4. /\ l1' \subseteq Locks /\ instant' \subseteq l1' /\ chain' \subseteq l1'
            /\ credited' \subseteq Locks /\ instantly' \subseteq credited' /\ dismissed' \subseteq Locks
        BY <1>17, <2>2 DEF Reacquire, IInv, TypeOK, JobTrue
      <4> QED
        BY <4>1, <4>2, <4>3, <4>4 DEF TypeOK
    <3>2. RowsTrue'
      BY <1>17, <2>2 DEF Reacquire, IInv, TypeOK, RowsTrue, JobTrue, Statuses
    <3>3. ASSUME NEW t \in Slots PROVE JobTrue(t)'
      <4>1. /\ \A l \in Locks : row[l] # "none" => row'[l] # "none"
            /\ credited \subseteq credited' /\ identities \subseteq identities'
        BY <1>17, <2>2 DEF Reacquire, IInv, TypeOK, Statuses
      <4>2. CASE t # s
        <5>1. job'[t] = job[t]
          BY <1>17, <2>2, <4>2 DEF Reacquire, IInv, TypeOK
        <5> QED
          BY <4>1, <5>1 DEF IInv, JobTrue
      <4>3. CASE t = s
        <5>1. job[s].at = "reacquire" /\ job[s].row \in Locks /\ row[job[s].row] # "none"
          BY <1>17, <2>2 DEF Reacquire, IInv, JobTrue
        <5>2. job'[s].at = "mark" /\ job'[s].row = job[s].row
          BY <1>17, <2>2 DEF Reacquire, IInv, TypeOK, Jobs
        <5> QED
          BY <4>1, <4>3, <5>1, <5>2 DEF JobTrue
      <4> QED
        BY <4>2, <4>3
    <3> QED
      BY <3>1, <3>2, <3>3 DEF IInv
  <2> QED
    BY <2>1, <2>2
<1>18. ASSUME DismissCall PROVE IInv'
  BY OpenRowIsOpen, <1>18 DEF DismissCall, IInv, TypeOK, RowsTrue, JobTrue, Jobs, Free, Steps, Running, Ended, Statuses, Open
<1>19. ASSUME Dismiss PROVE IInv'
  <2>1. CASE GetActive
    <3>1. UNCHANGED <<row, dismissed, current, identities, job, l1, instant, chain, credited, instantly>> /\ dismissing' = Nothing
      BY <1>19, <2>1 DEF Dismiss
    <3>2. Nothing \in 0..Nothing
      BY FundingAssumption DEF Nothing
    <3>3. TypeOK'
      BY <3>1, <3>2 DEF IInv, TypeOK, Nothing
    <3>4. RowsTrue'
      BY <3>1 DEF IInv, RowsTrue
    <3>5. ASSUME NEW t \in Slots PROVE JobTrue(t)'
      BY <3>1 DEF IInv, JobTrue
    <3> QED
      BY <3>3, <3>4, <3>5 DEF IInv
  <2>2. CASE ~GetActive
    <3>1. dismissing \in Locks \union {NoRow}
      BY <1>19 DEF Dismiss, IInv, TypeOK
    <3>2. /\ row' \in [Locks -> Statuses] /\ \A l \in Locks : row'[l] = row[l] \/ row'[l] = "Error"
          /\ \A l \in Locks : row'[l] = "Error" => l \in dismissed'
          /\ dismissed \subseteq dismissed' /\ dismissed' \subseteq Locks
      BY <1>19, <2>2, <3>1 DEF Dismiss, IInv, TypeOK, RowsTrue, Statuses
    <3>3. UNCHANGED <<identities, job, l1, instant, chain, credited, instantly>> /\ current' = NoJob /\ dismissing' = Nothing
      BY <1>19, <2>2 DEF Dismiss
    <3>4. TypeOK'
      BY <3>2, <3>3 DEF IInv, TypeOK
    <3>5. RowsTrue'
      BY <3>2, <3>3 DEF IInv, RowsTrue
    <3>6. ASSUME NEW t \in Slots PROVE JobTrue(t)'
      BY <3>2, <3>3 DEF IInv, JobTrue
    <3> QED
      BY <3>4, <3>5, <3>6 DEF IInv
  <2> QED
    BY <2>1, <2>2
<1>20. ASSUME NEW l \in Locks, InstantLocked(l) PROVE IInv'
  BY <1>20 DEF InstantLocked, IInv, TypeOK, RowsTrue, JobTrue, Jobs, Free, Steps, Running, Ended, Statuses, Open
<1>21. ASSUME NEW l \in Locks, ChainLocked(l) PROVE IInv'
  BY <1>21 DEF ChainLocked, IInv, TypeOK, RowsTrue, JobTrue, Jobs, Free, Steps, Running, Ended, Statuses, Open
<1>22. ASSUME Crash PROVE IInv'
  BY <1>22 DEF Crash, IInv, TypeOK, RowsTrue, JobTrue, Jobs, Free, Steps, Running, Ended, Statuses, Open
<1>24. ASSUME NEW s \in Slots, Replayed(s) PROVE IInv'
  <2>1. /\ job' = [job EXCEPT ![s].at = "record"] /\ UNCHANGED <<store, network, current, dismissing, dismissed>>
        /\ job[s].row \in credited /\ job[s].at = "submit" /\ job \in [Slots -> Jobs]
    BY <1>24 DEF Replayed, IInv, TypeOK
  <2>2. job' \in [Slots -> Jobs] /\ job'[s].at = "record" /\ job'[s].row = job[s].row
        /\ \A t \in Slots \ {s} : job'[t] = job[t]
    BY <2>1 DEF Jobs, Steps, Running
  <2>3. TypeOK' /\ RowsTrue'
    BY <2>1, <2>2 DEF IInv, TypeOK, RowsTrue
  <2>4. ASSUME NEW t \in Slots PROVE JobTrue(t)'
    BY <2>1, <2>2 DEF IInv, JobTrue
  <2> QED
    BY <2>3, <2>4 DEF IInv
<1>25. ASSUME NEW s \in Slots, RejectedAsSpent(s) PROVE IInv'
  BY FailKeeps, <1>25 DEF RejectedAsSpent, IInv, TypeOK, RowsTrue
<1>23. CASE UNCHANGED vars
  BY <1>23 DEF vars, IInv, TypeOK, RowsTrue, JobTrue
<1> QED
  BY <1>1, <1>2, <1>3, <1>4, <1>5, <1>6, <1>7, <1>8, <1>9, <1>10, <1>11, <1>12, <1>13, <1>14, <1>15, <1>16, <1>17, <1>18, <1>19, <1>20, <1>21, <1>22, <1>23,
     <1>24, <1>25 DEF Next, JobStep

\* The invariant holds in every state.
LEMMA InvariantHolds == Spec => []IInv
BY InitIInv, StepIInv, PTL DEF Spec

\* Rows, jobs and facts of the network keep their types.
THEOREM TypeCorrect == Spec => []TypeOK
<1>1. IInv => TypeOK
  BY DEF IInv
<1> QED
  BY InvariantHolds, <1>1, PTL

\* No coins are locked without a row, a credit or the user's word: however many
\* calls run at a time and wherever the app dies.
THEOREM NoLockIsLost == Spec => []NoLostLock
<1>1. IInv => NoLostLock
  BY DEF IInv, RowsTrue, NoLostLock, TypeOK, Statuses, Open
<1> QED
  BY InvariantHolds, <1>1, PTL

\* A row that says Done never hides something left to do.
THEOREM DoneIsDone == Spec => []DoneMeansDone
<1>1. IInv => DoneMeansDone
  BY DEF IInv, RowsTrue, DoneMeansDone
<1> QED
  BY InvariantHolds, <1>1, PTL
-----------------------------------------------------------------------------
(* What the user is shown.  Two of begin, resume and dismiss at a time can   *)
(* leave two rows open, or hide one; the situations of Allowed say which.    *)

Alone ==
  {"start beside a job", "resume beside a job", "give up beside a resume"} \subseteq Excluded

\* The rows getActiveFunding chooses from.
OpenRows == {l \in Locks : row[l] \in Open}

\* A job or a call that has not ended.
AtWork(s) == job[s].at \notin Ended

\* What a job relies on: it is the one in states, and the row it works on is
\* the only open one.
WorkTrue(s) ==
  /\ job[s].at \in Running \union {"reacquire", "finish"} => s = current
  /\ job[s].at = "build" => job[s].lock = NoRow /\ OpenRows = {}
  /\ job[s].at \in {"send", "read"} => OpenRows = {job[s].lock}
  /\ job[s].at \in {"prove", "mark", "submit", "reprove", "answer", "record", "finish", "unlock", "reacquire"}
       => OpenRows = {job[s].row}
  /\ job[s].at \notin Ended \union {"build", "unlock"} => job[s].lock # NoRow

\* What the state object tells of a job that has ended.
CurrentTrue ==
  current # NoJob =>
    /\ job[current].at # "free"
    /\ job[current].at = "resumable" => OpenRows # {}
    /\ job[current].at \in {"error", "done"} => OpenRows = {}

OneAtWork == \A s, t \in Slots : AtWork(s) /\ AtWork(t) => s = t

ShownInv == OneAtWork /\ OneFunding /\ CurrentTrue /\ \A s \in Slots : WorkTrue(s)

LEMMA OpenRowFinds == ASSUME OneFunding PROVE OpenRow # NoRow <=> OpenRows # {}
<1>1. ASSUME NEW l \in OpenRows PROVE OpenRow # NoRow
  <2>1. Latest(l) /\ l \in Locks
    BY FundingAssumption DEF OneFunding, OpenRows, Latest, Locks
  <2>2. OpenRow = CHOOSE k \in Locks : Latest(k)
    BY <2>1 DEF OpenRow
  <2>3. OpenRow \in Locks
    BY <2>1, <2>2
  <2> QED
    BY <2>3, FundingAssumption DEF Locks, NoRow
<1> QED
  BY <1>1, OpenRowIsOpen DEF OpenRows

\* The row a job works on stays the open one, whatever open status it gets.
LEMMA StaysOpen ==
  ASSUME row \in [Locks -> Statuses], NEW r, OpenRows = {r}, NEW status \in Open,
         UpdateStatus(r, status)
  PROVE OpenRows' = {r}
BY DEF OpenRows, UpdateStatus

\* A step of the one job at work, which states knows, keeps the rest true.
LEMMA WorkGoesOn ==
  ASSUME ShownInv, NEW s \in Slots, AtWork(s),
         \A t \in Slots \ {s} : job'[t] = job[t],
         current' = s, \A l, k \in OpenRows' : l = k, WorkTrue(s)', CurrentTrue'
  PROVE ShownInv'
<1>1. \A t \in Slots \ {s} : job'[t].at \in Ended
  BY DEF ShownInv, OneAtWork, AtWork
<1>2. OneAtWork'
  BY <1>1 DEF OneAtWork, AtWork
<1>3. ASSUME NEW t \in Slots PROVE WorkTrue(t)'
  BY <1>1 DEF WorkTrue, Running, Ended
<1>4. OneFunding'
  BY DEF OneFunding, OpenRows
<1> QED
  BY <1>2, <1>3, <1>4 DEF ShownInv

\* A job that fails on its way leaves its row open, and is resumable.
LEMMA FailShows ==
  ASSUME TypeOK, ShownInv, NEW s \in Slots, Fail(s), job[s].at \in Running \union {"reacquire"},
         UNCHANGED <<row, current>>
  PROVE ShownInv'
<1>1. /\ job' \in [Slots -> Jobs]
      /\ job'[s].at \in {"error", "resumable"}
      /\ \A t \in Slots \ {s} : job'[t] = job[t]
  BY FailEnds DEF TypeOK
<1>2. AtWork(s) /\ current' = s /\ WorkTrue(s)
  BY DEF AtWork, Running, Ended, ShownInv, WorkTrue
<1>3. OpenRows' = OpenRows /\ \A l, k \in OpenRows' : l = k
  BY DEF OpenRows, ShownInv, OneFunding
<1>4. WorkTrue(s)'
  BY <1>1 DEF WorkTrue, Running, Ended
<1>5. CurrentTrue'
  <2>1. CASE job[s].lock = NoRow
    <3>1. job[s].at = "build" /\ OpenRows = {}
      BY <1>2, <2>1 DEF WorkTrue, Running, Ended
    <3>2. Go(s, "error") /\ job \in [Slots -> Jobs]
      BY <2>1 DEF Fail, TypeOK
    <3>3. job'[s].at = "error"
      BY <3>2 DEF Go, Jobs
    <3> QED
      BY <1>2, <1>3, <3>1, <3>3 DEF CurrentTrue
  <2>2. CASE job[s].lock # NoRow
    <3>1. job[s].at # "build"
      BY <1>2, <2>2 DEF WorkTrue
    <3>2. OpenRows # {}
      BY <1>2, <3>1 DEF WorkTrue, Running
    <3>3. Go(s, "resumable") /\ job \in [Slots -> Jobs]
      BY <2>2 DEF Fail, TypeOK
    <3>4. job'[s].at = "resumable"
      BY <3>3 DEF Go, Jobs
    <3> QED
      BY <1>2, <1>3, <3>2, <3>4 DEF CurrentTrue
  <2> QED
    BY <2>1, <2>2
<1> QED
  BY <1>1, <1>2, <1>3, <1>4, <1>5, WorkGoesOn

\* Network and faults do not show.
LEMMA OthersKeep == ASSUME ShownInv, UNCHANGED <<row, job, current>> PROVE ShownInv'
BY DEF ShownInv, OneAtWork, AtWork, OneFunding, CurrentTrue, WorkTrue, OpenRows

LEMMA InitShown == Init => ShownInv
<1> SUFFICES ASSUME Init PROVE ShownInv
  OBVIOUS
<1>1. \A s \in Slots : job[s].at = "free"
  BY DEF Init, Free
<1>2. OneAtWork /\ (\A s \in Slots : WorkTrue(s))
  BY <1>1 DEF OneAtWork, AtWork, WorkTrue, Running, Ended
<1>3. OneFunding /\ CurrentTrue
  BY DEF Init, OneFunding, CurrentTrue, Open
<1> QED
  BY <1>2, <1>3 DEF ShownInv

\* With one call at a time, every step keeps the invariant.
LEMMA StepShown == Alone /\ IInv /\ ShownInv /\ [Next]_vars => ShownInv'
<1> SUFFICES ASSUME Alone, IInv, ShownInv, [Next]_vars PROVE ShownInv'
  OBVIOUS
<1>a. TypeOK /\ job \in [Slots -> Jobs] /\ row \in [Locks -> Statuses] /\ NoJob \notin Slots
  BY FundingAssumption DEF IInv, TypeOK
<1>b. \A s \in Slots : WorkTrue(s)
  BY DEF ShownInv
<1>1. ASSUME NEW s \in Slots, Allowed("start beside a job", Working) /\ Begin(s) PROVE ShownInv'
  <2>1. \A t \in Slots : job[t].at \in Ended
    BY <1>1 DEF Alone, Allowed, Working
  <2>2. /\ job' = [job EXCEPT ![s] = [Free EXCEPT !.at = "build"]]
        /\ current' = s /\ row' = row /\ OpenRows = {}
    BY <1>1, OpenRowFinds DEF Begin, store, ShownInv
  <2>3. job'[s] = [at |-> "build", lock |-> NoRow, row |-> NoRow, proof |-> "none"]
        /\ \A t \in Slots \ {s} : job'[t].at \in Ended
    BY <1>a, <2>1, <2>2 DEF Free
  <2>4. OpenRows' = {}
    BY <2>2 DEF OpenRows
  <2>5. \A t \in Slots : WorkTrue(t)'
    BY <2>2, <2>3, <2>4 DEF WorkTrue, Running, Ended
  <2>6. CurrentTrue' /\ OneAtWork' /\ OneFunding'
    BY <2>2, <2>3, <2>4 DEF CurrentTrue, OneAtWork, AtWork, OneFunding, OpenRows
  <2> QED
    BY <2>5, <2>6 DEF ShownInv
<1>2. ASSUME NEW s \in Slots, Build(s) PROVE ShownInv'
  <2>1. PICK l \in Locks : /\ row' = [row EXCEPT ![l] = "L1Broadcast"]
                           /\ job' = [job EXCEPT ![s].at = "send", ![s].lock = l]
    BY <1>2 DEF Build, UpdateStatus
  <2>2. job[s].at = "build" /\ current' = current /\ current = s /\ OpenRows = {}
    BY <1>2, <1>b DEF Build, WorkTrue, Running
  <2>3. job'[s].at = "send" /\ job'[s].lock = l /\ \A t \in Slots \ {s} : job'[t] = job[t]
    BY <1>a, <2>1 DEF Jobs
  <2>4. OpenRows' = {l}
    BY <1>a, <2>1, <2>2 DEF OpenRows, Open
  <2>5. l # NoRow
    BY FundingAssumption DEF Locks, NoRow
  <2>6. WorkTrue(s)' /\ CurrentTrue' /\ AtWork(s)
    BY <2>2, <2>3, <2>4, <2>5 DEF WorkTrue, CurrentTrue, AtWork, Running, Ended
  <2> QED
    BY <2>2, <2>3, <2>4, <2>6, WorkGoesOn
<1>3. ASSUME NEW s \in Slots, BuildFails(s) PROVE ShownInv'
  BY <1>a, <1>3, FailShows DEF BuildFails, store, Running
<1>4. ASSUME NEW s \in Slots, NEW reached \in BOOLEAN, NEW heard \in BOOLEAN, Send(s, reached, heard)
      PROVE ShownInv'
  <2>1. CASE ~heard
    BY <1>a, <1>4, <2>1, FailShows DEF Send, store, Running
  <2>2. CASE heard
    <3>1. job' = [job EXCEPT ![s].at = "read"] /\ UNCHANGED <<row, current>> /\ job[s].at = "send"
      BY <1>4, <2>2 DEF Send, Go, store
    <3>2. job'[s].at = "read" /\ job'[s].lock = job[s].lock /\ \A t \in Slots \ {s} : job'[t] = job[t]
      BY <1>a, <3>1 DEF Jobs
    <3>3. OpenRows' = OpenRows /\ OpenRows = {job[s].lock} /\ current = s /\ job[s].lock # NoRow
      BY <1>b, <3>1 DEF OpenRows, WorkTrue, Running, Ended
    <3>4. WorkTrue(s)' /\ CurrentTrue' /\ AtWork(s)
      BY <3>1, <3>2, <3>3 DEF WorkTrue, CurrentTrue, AtWork, Running, Ended
    <3> QED
      BY <3>1, <3>2, <3>3, <3>4, WorkGoesOn
  <2> QED
    BY <2>1, <2>2
<1>5. ASSUME NEW s \in Slots, ReadRow(s) PROVE ShownInv'
  <2>1. job[s].at = "read" /\ OpenRows = {job[s].lock} /\ current = s /\ job[s].lock # NoRow
    BY <1>5, <1>b DEF ReadRow, WorkTrue, Running, Ended
  <2>2. OpenRow # NoRow
    BY <2>1, OpenRowFinds DEF ShownInv
  <2>3. OpenRow \in OpenRows
    BY <2>2, OpenRowIsOpen DEF OpenRows
  <2>4. job' = [job EXCEPT ![s].at = "prove", ![s].row = OpenRow] /\ UNCHANGED <<row, current>>
    BY <1>5, <2>2 DEF ReadRow, store
  <2>5. /\ job'[s].at = "prove" /\ job'[s].row = OpenRow /\ job'[s].lock = job[s].lock
        /\ \A t \in Slots \ {s} : job'[t] = job[t]
    BY <1>a, <2>4 DEF Jobs
  <2>6. OpenRows' = {OpenRow}
    BY <2>1, <2>3, <2>4 DEF OpenRows
  <2>7. WorkTrue(s)' /\ CurrentTrue' /\ AtWork(s)
    BY <2>1, <2>4, <2>5, <2>6 DEF WorkTrue, CurrentTrue, AtWork, Running, Ended
  <2> QED
    BY <2>1, <2>4, <2>5, <2>6, <2>7, WorkGoesOn
<1>6. ASSUME NEW s \in Slots, NEW proof \in {"instant", "chain"}, Prove(s, proof) PROVE ShownInv'
  <2>1. /\ job[s].at \in {"prove", "reprove"} /\ row' = [row EXCEPT ![job[s].row] = "ChainLocked"]
        /\ job' = [job EXCEPT ![s] = job'[s]] /\ job'[s].at = "mark" /\ job'[s].row = job[s].row
        /\ job'[s].lock = job[s].lock /\ current' = current
    BY <1>a, <1>6 DEF Prove, UpdateStatus, Go, Jobs
  <2>2. OpenRows = {job[s].row} /\ current = s /\ job[s].lock # NoRow
    BY <1>b, <2>1 DEF WorkTrue, Running, Ended
  <2>3. OpenRows' = {job[s].row}
    BY <1>a, <2>1, <2>2, StaysOpen DEF UpdateStatus, Open
  <2>4. WorkTrue(s)' /\ CurrentTrue' /\ AtWork(s)
    BY <2>1, <2>2, <2>3 DEF WorkTrue, CurrentTrue, AtWork, Running, Ended
  <2>5. \A t \in Slots \ {s} : job'[t] = job[t]
    BY <1>a, <2>1
  <2> QED
    BY <2>1, <2>2, <2>3, <2>4, <2>5, WorkGoesOn
<1>7. ASSUME NEW s \in Slots, ProofTimeout(s) PROVE ShownInv'
  BY <1>a, <1>7, FailShows DEF ProofTimeout, store, Running
<1>8. ASSUME NEW s \in Slots, Mark(s) PROVE ShownInv'
  <2>1. /\ job[s].at \in {"mark"} /\ row' = [row EXCEPT ![job[s].row] = "StBroadcast"]
        /\ job' = [job EXCEPT ![s] = job'[s]] /\ job'[s].at = "submit" /\ job'[s].row = job[s].row
        /\ job'[s].lock = job[s].lock /\ current' = current
    BY <1>a, <1>8 DEF Mark, UpdateStatus, Go, Jobs
  <2>2. OpenRows = {job[s].row} /\ current = s /\ job[s].lock # NoRow
    BY <1>b, <2>1 DEF WorkTrue, Running, Ended
  <2>3. OpenRows' = {job[s].row}
    BY <1>a, <2>1, <2>2, StaysOpen DEF UpdateStatus, Open
  <2>4. WorkTrue(s)' /\ CurrentTrue' /\ AtWork(s)
    BY <2>1, <2>2, <2>3 DEF WorkTrue, CurrentTrue, AtWork, Running, Ended
  <2>5. \A t \in Slots \ {s} : job'[t] = job[t]
    BY <1>a, <2>1
  <2> QED
    BY <2>1, <2>2, <2>3, <2>4, <2>5, WorkGoesOn
<1>9. ASSUME NEW s \in Slots, Accept(s) PROVE ShownInv'
  <2>1. /\ job[s].at = "submit" /\ UNCHANGED <<row, current>>
        /\ job' = [job EXCEPT ![s] = job'[s]] /\ job'[s].at = "answer" /\ job'[s].row = job[s].row
        /\ job'[s].lock = job[s].lock
    BY <1>a, <1>9 DEF Accept, Go, Jobs, store
  <2>2. OpenRows = {job[s].row} /\ OpenRows' = OpenRows /\ current = s /\ job[s].lock # NoRow
    BY <1>b, <2>1 DEF WorkTrue, Running, Ended, OpenRows
  <2>3. WorkTrue(s)' /\ CurrentTrue' /\ AtWork(s)
    BY <2>1, <2>2 DEF WorkTrue, CurrentTrue, AtWork, Running, Ended
  <2>4. \A t \in Slots \ {s} : job'[t] = job[t]
    BY <1>a, <2>1
  <2> QED
    BY <2>1, <2>2, <2>3, <2>4, WorkGoesOn
<1>10. ASSUME NEW s \in Slots, Submitted(s) PROVE ShownInv'
  <2>1. /\ job[s].at = "answer" /\ UNCHANGED <<row, current>>
        /\ job' = [job EXCEPT ![s] = job'[s]] /\ job'[s].at = "record" /\ job'[s].row = job[s].row
        /\ job'[s].lock = job[s].lock
    BY <1>a, <1>10 DEF Submitted, Go, Jobs, store
  <2>2. OpenRows = {job[s].row} /\ OpenRows' = OpenRows /\ current = s /\ job[s].lock # NoRow
    BY <1>b, <2>1 DEF WorkTrue, Running, Ended, OpenRows
  <2>3. WorkTrue(s)' /\ CurrentTrue' /\ AtWork(s)
    BY <2>1, <2>2 DEF WorkTrue, CurrentTrue, AtWork, Running, Ended
  <2>4. \A t \in Slots \ {s} : job'[t] = job[t]
    BY <1>a, <2>1
  <2> QED
    BY <2>1, <2>2, <2>3, <2>4, WorkGoesOn
<1>11. ASSUME NEW s \in Slots, RejectedAsStale(s) PROVE ShownInv'
  <2>1. /\ job[s].at \in {"submit"} /\ row' = [row EXCEPT ![job[s].row] = "L1Broadcast"]
        /\ job' = [job EXCEPT ![s] = job'[s]] /\ job'[s].at = "reprove" /\ job'[s].row = job[s].row
        /\ job'[s].lock = job[s].lock /\ current' = current
    BY <1>a, <1>11 DEF RejectedAsStale, UpdateStatus, Go, Jobs
  <2>2. OpenRows = {job[s].row} /\ current = s /\ job[s].lock # NoRow
    BY <1>b, <2>1 DEF WorkTrue, Running, Ended
  <2>3. OpenRows' = {job[s].row}
    BY <1>a, <2>1, <2>2, StaysOpen DEF UpdateStatus, Open
  <2>4. WorkTrue(s)' /\ CurrentTrue' /\ AtWork(s)
    BY <2>1, <2>2, <2>3 DEF WorkTrue, CurrentTrue, AtWork, Running, Ended
  <2>5. \A t \in Slots \ {s} : job'[t] = job[t]
    BY <1>a, <2>1
  <2> QED
    BY <2>1, <2>2, <2>3, <2>4, <2>5, WorkGoesOn
<1>12. ASSUME NEW s \in Slots, SubmitFails(s) PROVE ShownInv'
  BY <1>a, <1>12, FailShows DEF SubmitFails, store, Running
<1>13. ASSUME NEW s \in Slots, Record(s) PROVE ShownInv'
  <2>1. /\ job[s].at = "record" /\ UNCHANGED <<row, current>>
        /\ job' = [job EXCEPT ![s] = job'[s]] /\ job'[s].at = "finish" /\ job'[s].row = job[s].row
        /\ job'[s].lock = job[s].lock
    BY <1>a, <1>13 DEF Record, Go, Jobs, store
  <2>2. OpenRows = {job[s].row} /\ OpenRows' = OpenRows /\ current = s /\ job[s].lock # NoRow
    BY <1>b, <2>1 DEF WorkTrue, Running, Ended, OpenRows
  <2>3. WorkTrue(s)' /\ CurrentTrue' /\ AtWork(s)
    BY <2>1, <2>2 DEF WorkTrue, CurrentTrue, AtWork, Running, Ended
  <2>4. \A t \in Slots \ {s} : job'[t] = job[t]
    BY <1>a, <2>1
  <2> QED
    BY <2>1, <2>2, <2>3, <2>4, WorkGoesOn
<1>14. ASSUME NEW s \in Slots, Finish(s) PROVE ShownInv'
  <2>1. /\ job[s].at = "finish" /\ row' = [row EXCEPT ![job[s].row] = "Done"]
        /\ job' = [job EXCEPT ![s] = job'[s]] /\ job'[s].at = "done" /\ current' = current
    BY <1>a, <1>14 DEF Finish, UpdateStatus, Go, Jobs
  <2>2. OpenRows = {job[s].row} /\ current = s
    BY <1>b, <2>1 DEF WorkTrue
  <2>3. OpenRows' = {}
    BY <1>a, <2>1, <2>2 DEF OpenRows, Open
  <2>4. WorkTrue(s)' /\ CurrentTrue' /\ AtWork(s)
    BY <2>1, <2>2, <2>3 DEF WorkTrue, CurrentTrue, AtWork, Running, Ended
  <2>5. \A t \in Slots \ {s} : job'[t] = job[t]
    BY <1>a, <2>1
  <2> QED
    BY <2>1, <2>2, <2>3, <2>4, <2>5, WorkGoesOn
<1>15. ASSUME NEW s \in Slots, Allowed("resume beside a job", Working) /\ ResumeCall(s)
       PROVE ShownInv'
  <2>1. \A t \in Slots : job[t].at \in Ended
    BY <1>15 DEF Alone, Allowed, Working
  <2>2. /\ job' = [job EXCEPT ![s] = [Free EXCEPT !.at = "unlock", !.row = OpenRow]]
        /\ UNCHANGED <<current, row>> /\ OpenRow # NoRow /\ s # current
    BY <1>15 DEF ResumeCall, store, Unused
  <2>3. job'[s] = [at |-> "unlock", lock |-> NoRow, row |-> OpenRow, proof |-> "none"]
        /\ \A t \in Slots \ {s} : job'[t] = job[t]
    BY <1>a, <2>2 DEF Free
  <2>4. OpenRow \in OpenRows /\ OpenRows' = OpenRows /\ \A l, k \in OpenRows : l = k
    BY <2>2, OpenRowIsOpen DEF OpenRows, ShownInv, OneFunding
  <2>5. \A t \in Slots : WorkTrue(t)'
    BY <2>1, <2>3, <2>4 DEF WorkTrue, Running, Ended
  <2>6. CurrentTrue'
    <3>1. CASE current = NoJob
      BY <3>1, <2>2 DEF CurrentTrue
    <3>2. CASE current # NoJob
      <4>1. current \in Slots \ {s}
        BY <1>a, <2>2, <3>2 DEF TypeOK
      <4> QED
        BY <2>2, <2>3, <2>4, <4>1 DEF CurrentTrue, ShownInv
    <3> QED
      BY <3>1, <3>2
  <2>7. OneAtWork' /\ OneFunding'
    BY <2>1, <2>3, <2>4 DEF OneAtWork, AtWork, OneFunding, OpenRows
  <2> QED
    BY <2>5, <2>6, <2>7 DEF ShownInv
<1>16. ASSUME NEW s \in Slots, Resume(s) PROVE ShownInv'
  <2>1. /\ job[s].at = "unlock" /\ current' = s /\ row' = row
        /\ job' = [job EXCEPT ![s].at = "reacquire", ![s].lock = job[s].row]
    BY <1>16 DEF Resume, store
  <2>2. /\ job'[s].at = "reacquire" /\ job'[s].row = job[s].row /\ job'[s].lock = job[s].row
        /\ \A t \in Slots \ {s} : job'[t] = job[t]
    BY <1>a, <2>1 DEF Jobs
  <2>3. OpenRows = {job[s].row} /\ OpenRows' = OpenRows
    BY <1>b, <2>1 DEF WorkTrue, OpenRows
  <2>4. job[s].row # NoRow
    BY <2>3, FundingAssumption DEF OpenRows, Locks, NoRow
  <2>5. WorkTrue(s)' /\ CurrentTrue' /\ AtWork(s)
    BY <2>1, <2>2, <2>3, <2>4 DEF WorkTrue, CurrentTrue, AtWork, Running, Ended
  <2> QED
    BY <2>1, <2>2, <2>3, <2>5, WorkGoesOn
<1>17. ASSUME NEW s \in Slots, Reacquire(s) PROVE ShownInv'
  <2>1. CASE job[s].row \notin chain
    BY <1>a, <1>17, <2>1, FailShows DEF Reacquire, store
  <2>2. CASE job[s].row \in chain
    <3>1. /\ job[s].at = "reacquire" /\ row' = [row EXCEPT ![job[s].row] = "ChainLocked"]
          /\ job' = [job EXCEPT ![s] = job'[s]] /\ job'[s].at = "mark" /\ job'[s].row = job[s].row
          /\ job'[s].lock = job[s].lock /\ current' = current
      BY <1>a, <1>17, <2>2 DEF Reacquire, UpdateStatus, Jobs
    <3>2. OpenRows = {job[s].row} /\ current = s /\ job[s].lock # NoRow
      BY <1>b, <3>1 DEF WorkTrue, Running, Ended
    <3>3. OpenRows' = {job[s].row}
      BY <1>a, <3>1, <3>2, StaysOpen DEF UpdateStatus, Open
    <3>4. WorkTrue(s)' /\ CurrentTrue' /\ AtWork(s)
      BY <3>1, <3>2, <3>3 DEF WorkTrue, CurrentTrue, AtWork, Running, Ended
    <3>5. \A t \in Slots \ {s} : job'[t] = job[t]
      BY <1>a, <3>1
    <3> QED
      BY <3>1, <3>2, <3>3, <3>4, <3>5, WorkGoesOn
  <2> QED
    BY <2>1, <2>2
<1>18. ASSUME DismissCall PROVE ShownInv'
  BY <1>18, OthersKeep DEF DismissCall, store
<1>19. ASSUME Allowed("give up beside a resume", Unseen) /\ Dismiss PROVE ShownInv'
  <2>1. CASE GetActive
    BY <1>19, <2>1, OthersKeep DEF Dismiss
  <2>2. CASE ~GetActive
    <3>1. \A s \in Slots : job[s].at \in Ended
      <4> SUFFICES ASSUME NEW s \in Slots, job[s].at \notin Ended PROVE FALSE
        OBVIOUS
      <4>1. job[s].at \notin {"unlock", "finish"} /\ job[s].at \in Steps
        BY <1>19, <1>a DEF Alone, Allowed, Unseen, Jobs
      <4>2. s = current /\ job[s].at \in Running \union {"reacquire"}
        BY <1>b, <4>1 DEF WorkTrue, Steps
      <4> QED
        BY <1>a, <2>2, <4>2 DEF GetActive, Active
    <3>2. /\ job' = job /\ current' = NoJob
          /\ row' = IF dismissing = NoRow THEN row ELSE [row EXCEPT ![dismissing] = "Error"]
      BY <1>19, <2>2 DEF Dismiss
    <3>3. OpenRows' \subseteq OpenRows
      BY <1>a, <3>2 DEF OpenRows, Open
    <3>4. OneFunding'
      BY <3>3 DEF ShownInv, OneFunding, OpenRows
    <3>5. \A s \in Slots : WorkTrue(s)'
      BY <3>1, <3>2 DEF WorkTrue, Running, Ended
    <3>6. OneAtWork' /\ CurrentTrue'
      BY <3>1, <3>2 DEF OneAtWork, AtWork, CurrentTrue
    <3> QED
      BY <3>4, <3>5, <3>6 DEF ShownInv
  <2> QED
    BY <2>1, <2>2
<1>20. ASSUME NEW l \in Locks, InstantLocked(l) PROVE ShownInv'
  BY <1>20, OthersKeep DEF InstantLocked, store
<1>21. ASSUME NEW l \in Locks, ChainLocked(l) PROVE ShownInv'
  BY <1>21, OthersKeep DEF ChainLocked, store
<1>22. ASSUME Crash PROVE ShownInv'
  BY <1>22 DEF Crash, store, ShownInv, OneAtWork, AtWork, OneFunding, CurrentTrue, WorkTrue, Free, Running, Ended
<1>24. ASSUME NEW s \in Slots, Replayed(s) PROVE ShownInv'
  <2>1. /\ job[s].at = "submit" /\ UNCHANGED <<row, current>>
        /\ job' = [job EXCEPT ![s] = job'[s]] /\ job'[s].at = "record" /\ job'[s].row = job[s].row
        /\ job'[s].lock = job[s].lock
    BY <1>a, <1>24 DEF Replayed, Go, Jobs, store
  <2>2. OpenRows = {job[s].row} /\ OpenRows' = OpenRows /\ current = s /\ job[s].lock # NoRow
    BY <1>b, <2>1 DEF WorkTrue, Running, Ended, OpenRows
  <2>3. WorkTrue(s)' /\ CurrentTrue' /\ AtWork(s)
    BY <2>1, <2>2 DEF WorkTrue, CurrentTrue, AtWork, Running, Ended
  <2>4. \A t \in Slots \ {s} : job'[t] = job[t]
    BY <1>a, <2>1
  <2> QED
    BY <2>1, <2>2, <2>3, <2>4, WorkGoesOn
<1>25. ASSUME NEW s \in Slots, RejectedAsSpent(s) PROVE ShownInv'
  BY <1>a, <1>25, FailShows DEF RejectedAsSpent, store, Running
<1>23. CASE UNCHANGED vars
  BY <1>23, OthersKeep DEF vars, store
<1> QED
  BY <1>1, <1>2, <1>3, <1>4, <1>5, <1>6, <1>7, <1>8, <1>9, <1>10, <1>11, <1>12, <1>13, <1>14, <1>15,
     <1>16, <1>17, <1>18, <1>19, <1>20, <1>21, <1>22, <1>23, <1>24, <1>25 DEF Next, JobStep

\* The one row a resume is for shows, and no two are ever open, as long as two
\* calls of the user do not run at a time.
THEOREM TheOpenRowShows == ASSUME Alone PROVE Spec => []FundingShown
<1>1. Init => ShownInv
  BY InitShown
<1>2. IInv /\ ShownInv /\ [Next]_vars => ShownInv'
  BY StepShown
<1>3. IInv /\ ShownInv => FundingShown
  <2> SUFFICES ASSUME IInv, ShownInv PROVE FundingShown
    OBVIOUS
  <2>1. ASSUME ~Working PROVE Shown = "resumable" <=> OpenRow # NoRow
    <3>1. OpenRow # NoRow <=> OpenRows # {}
      BY OpenRowFinds DEF ShownInv
    <3>2. CASE current = NoJob
      BY <3>2 DEF Shown
    <3>3. CASE current # NoJob
      <4>1. current \in Slots /\ job[current].at \in {"done", "resumable", "error"}
        BY <2>1, <3>3 DEF IInv, TypeOK, Working, Ended, ShownInv, CurrentTrue
      <4>2. Shown = job[current].at
        BY <3>3, <4>1 DEF Shown, Active, Running
      <4> QED
        BY <3>1, <3>3, <4>1, <4>2 DEF ShownInv, CurrentTrue
    <3> QED
      BY <3>2, <3>3
  <2> QED
    BY <2>1 DEF FundingShown, IInv, ShownInv, NothingHidden
<1> QED
  BY <1>1, <1>2, <1>3, InvariantHolds, PTL DEF Spec

\* A step writes only to an open row, or to one that was never used.
LEMMA StepFinal ==
  ASSUME Alone, IInv, ShownInv, [Next]_vars
  PROVE \A l \in Locks : row[l] \in {"Done", "Error"} => row'[l] = row[l]
<1> SUFFICES ASSUME NEW l \in Locks, row[l] \in {"Done", "Error"} PROVE row'[l] = row[l]
  OBVIOUS
<1>a. row \in [Locks -> Statuses] /\ l \notin OpenRows
  BY DEF IInv, TypeOK, OpenRows, Open
<1>b. \A s \in Slots : WorkTrue(s)
  BY DEF ShownInv
<1>1. ASSUME NEW s \in Slots, Build(s) PROVE row'[l] = row[l]
  BY <1>a, <1>1 DEF Build, UpdateStatus
<1>2. ASSUME NEW s \in Slots, NEW status, UpdateStatus(job[s].row, status),
             job[s].at \in {"prove", "mark", "submit", "reprove", "finish", "reacquire"}
      PROVE row'[l] = row[l]
  <2>1. OpenRows = {job[s].row}
    BY <1>b, <1>2 DEF WorkTrue
  <2> QED
    BY <1>a, <1>2, <2>1 DEF UpdateStatus
<1>3. ASSUME NEW s \in Slots, NEW proof, Prove(s, proof) PROVE row'[l] = row[l]
  BY <1>2, <1>3 DEF Prove
<1>4. ASSUME NEW s \in Slots, Mark(s) \/ RejectedAsStale(s) \/ Finish(s) PROVE row'[l] = row[l]
  BY <1>2, <1>4 DEF Mark, RejectedAsStale, Finish
<1>5. ASSUME NEW s \in Slots, Reacquire(s) PROVE row'[l] = row[l]
  BY <1>2, <1>5 DEF Reacquire
<1>6. ASSUME Allowed("give up beside a resume", Unseen) /\ Dismiss PROVE row'[l] = row[l]
  <2>1. dismissing # l
    BY <1>6 DEF Alone, Allowed, Unseen
  <2> QED
    BY <1>6, <1>a, <2>1 DEF Dismiss
<1>7. ASSUME NEW s \in Slots,
             \/ Begin(s) \/ BuildFails(s) \/ ReadRow(s) \/ ProofTimeout(s) \/ Accept(s) \/ Submitted(s)
             \/ Replayed(s) \/ RejectedAsSpent(s) \/ SubmitFails(s) \/ Record(s) \/ ResumeCall(s) \/ Resume(s)
      PROVE row'[l] = row[l]
  BY <1>7 DEF Begin, BuildFails, ReadRow, ProofTimeout, Accept, Submitted, Replayed, RejectedAsSpent,
              SubmitFails, Record,
              ResumeCall, Resume, store
<1>8. ASSUME NEW s \in Slots, NEW reached, NEW heard, Send(s, reached, heard) PROVE row'[l] = row[l]
  BY <1>8 DEF Send, store
<1>9. ASSUME DismissCall \/ Crash \/ UNCHANGED vars PROVE row'[l] = row[l]
  BY <1>9 DEF DismissCall, Crash, vars, store
<1>10. ASSUME NEW k \in Locks, InstantLocked(k) \/ ChainLocked(k) PROVE row'[l] = row[l]
  BY <1>10 DEF InstantLocked, ChainLocked, store
<1> QED
  BY <1>1, <1>3, <1>4, <1>5, <1>6, <1>7, <1>8, <1>9, <1>10 DEF Next, JobStep

\* And a row that is done or given up is never written again.
THEOREM DoneOrGivenUpForGood == ASSUME Alone PROVE Spec => Final
<1>1. Init => ShownInv
  BY InitShown
<1>2. IInv /\ ShownInv /\ [Next]_vars => ShownInv'
  BY StepShown
<1>3. IInv /\ ShownInv /\ [Next]_vars =>
        [\A l \in Locks : row[l] \in {"Done", "Error"} => row'[l] = row[l]]_row
  BY StepFinal
<1> QED
  BY <1>1, <1>2, <1>3, InvariantHolds, PTL DEF Spec, Final
=============================================================================
