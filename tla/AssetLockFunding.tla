-------------------------- MODULE AssetLockFunding --------------------------
(***************************************************************************)
(* Asset locks of one wallet: L1 coins are locked, the lock is proved, the *)
(* proof funds a state transition.  AssetLockService runs each funding as  *)
(* a job in memory beside a row of asset_lock_fundings; the services that  *)
(* own identities, shielded notes and addresses drive it.  The app may die *)
(* between any two steps, the row then is all that is left.                *)
(***************************************************************************)
EXTENDS Naturals

CONSTANTS
  MaxLocks,    \* bound on asset locks built
  Registers,   \* the locks that register an identity
  Rebuilt,     \* the locks whose row alone determines the transition for a proof
  Slots,       \* bound on jobs and calls at a time
  MaxCrashes,  \* bound on ends of the process
  MaxFailures, \* bound on calls of the network that fail
  Excluded     \* situations this instance leaves out, see Allowed

Locks == 1..MaxLocks
NoJob == "no job"

ASSUME FundingAssumption ==
  /\ MaxLocks \in Nat /\ MaxCrashes \in Nat /\ MaxFailures \in Nat
  /\ Registers \subseteq Rebuilt /\ Rebuilt \subseteq Locks
  /\ NoJob \notin Slots

VARIABLES
  row,         \* asset_lock_fundings: the status of each lock's row
  identities,  \* locks whose identity is in the identities table
  job,         \* what each job or resume call awaits, and its state object
  current,     \* the job in states, NoJob if none or idle
  dismissing,  \* what a dismiss call read: a row, NoRow, or Nothing
  l1,          \* locks that reached the core network
  instant,     \* locks with an InstantLock
  chain,       \* locks in a chain-locked block
  credited,    \* locks platform has accepted a transition for
  instantly,   \* those credited on the proof of an InstantLock
  dismissed,   \* locks the user gave up
  faults

vars == <<row, identities, job, current, dismissing, l1, instant, chain, credited, instantly, dismissed, faults>>
store == <<row, identities>>
network == <<l1, instant, chain, credited, instantly>>

NoRow == 0
Nothing == MaxLocks + 1

Statuses == {"none", "L1Broadcast", "ChainLocked", "StBroadcast", "Done", "Error"}
Running == {"build", "send", "read", "prove", "mark", "submit", "reprove", "answer", "record"}
Ended == {"free", "done", "resumable", "error"}
Steps == Running \union Ended \union {"unlock", "reacquire", "finish"}
Free == [at |-> "free", lock |-> NoRow, row |-> NoRow, proof |-> "none"]

Jobs == [at : Steps, lock : Locks \union {NoRow}, row : Locks \union {NoRow},
         proof : {"none", "instant", "chain"}]

Init ==
  /\ row = [l \in Locks |-> "none"]
  /\ identities = {}
  /\ job = [s \in Slots |-> Free]
  /\ current = NoJob
  /\ dismissing = Nothing
  /\ l1 = {} /\ instant = {} /\ chain = {} /\ credited = {} /\ instantly = {}
  /\ dismissed = {}
  /\ faults = [crashes |-> 0, failures |-> 0]

-----------------------------------------------------------------------------
(* Rows and states *)

Open == {"L1Broadcast", "ChainLocked", "StBroadcast"}
Latest(l) == row[l] \in Open /\ \A k \in Locks : row[k] \in Open => k <= l

\* getActiveFunding: the latest row that is neither done nor given up.
OpenRow ==
  IF \E l \in Locks : Latest(l) THEN CHOOSE l \in Locks : Latest(l) ELSE NoRow

\* isActive of a state object: "finish" has already set its phase to done.
Active(s) == job[s].at \in Running \union {"reacquire"}

\* getActive.
GetActive == current # NoJob /\ Active(current)

\* getState, the phase the user is shown.
Shown ==
  IF current # NoJob THEN (IF Active(current) THEN "active"
                           ELSE IF job[current].at = "finish" THEN "done" ELSE job[current].at)
  ELSE IF OpenRow # NoRow THEN "resumable" ELSE "idle"

\* A slot nobody looks at any more.
Unused(s) == s # current /\ job[s].at \in Ended

Go(s, at) == job' = [job EXCEPT ![s].at = at]

\* A bug for Fail: what was built counts as a dead end too.
Fail_DeadEnd(s) == Go(s, "error")

\* fail: a funding that reached L1 is resumable, one that never did a dead end.
Fail(s) ==
  \/ job[s].lock = NoRow /\ Go(s, "error")
  \/ job[s].lock # NoRow /\ Go(s, "resumable")

\* One more call of the network that fails.
Fault ==
  /\ faults.failures < MaxFailures
  /\ faults' = [faults EXCEPT !.failures = @ + 1]

UpdateStatus(l, status) == row' = [row EXCEPT ![l] = status]

-----------------------------------------------------------------------------
(* A new funding *)

\* begin: refused only when there is an open row.
Begin(s) ==
  /\ Unused(s)
  /\ OpenRow = NoRow
  /\ job' = [job EXCEPT ![s] = [Free EXCEPT !.at = "build"]]
  /\ current' = s
  /\ UNCHANGED <<store, network, dismissing, dismissed, faults>>

\* A bug for Build: the row is left for after the broadcast.
Build_NoRow(s) ==
  /\ job[s].at = "build"
  /\ \E l \in Locks :
       /\ row[l] = "none" /\ \A k \in Locks : row[k] = "none" => l <= k
       /\ job' = [job EXCEPT ![s].at = "send", ![s].lock = l]
  /\ UNCHANGED <<store, network, current, dismissing, dismissed, faults>>

\* acquire: the lock is built, and its row inserted before the broadcast.
Build(s) ==
  /\ job[s].at = "build"
  /\ \E l \in Locks :
       /\ row[l] = "none" /\ \A k \in Locks : row[k] = "none" => l <= k
       /\ UpdateStatus(l, "L1Broadcast")
       /\ job' = [job EXCEPT ![s].at = "send", ![s].lock = l]
  /\ UNCHANGED <<identities, network, current, dismissing, dismissed, faults>>

\* Not enough coins.
BuildFails(s) ==
  /\ job[s].at = "build" /\ Fault /\ Fail(s)
  /\ UNCHANGED <<store, network, current, dismissing, dismissed>>

\* broadcastAssetLock: what reached the network and what was heard of it differ.
Send(s, reached, heard) ==
  /\ job[s].at = "send" /\ (heard => reached)
  /\ l1' = IF reached THEN l1 \union {job[s].lock} ELSE l1
  /\ IF heard THEN Go(s, "read") /\ UNCHANGED faults ELSE Fault /\ Fail(s)
  /\ UNCHANGED <<store, instant, chain, credited, instantly, current, dismissing, dismissed>>

\* acquire reads its row back.
ReadRow(s) ==
  /\ job[s].at = "read"
  /\ IF OpenRow = NoRow THEN Fail(s)
     ELSE job' = [job EXCEPT ![s].at = "prove", ![s].row = OpenRow]
  /\ UNCHANGED <<store, network, current, dismissing, dismissed, faults>>

-----------------------------------------------------------------------------
(* Proving and settling *)

\* awaitProof: whichever lock is seen first; a stale instant lock's retry takes
\* a chain lock only and goes on to mark the row again.
Prove(s, proof) ==
  /\ \/ job[s].at = "prove"
     \/ job[s].at = "reprove" /\ proof = "chain"
  /\ job[s].row \in (IF proof = "chain" THEN chain ELSE instant)
  /\ UpdateStatus(job[s].row, "ChainLocked")
  /\ job' = [job EXCEPT ![s].at = "mark", ![s].proof = proof]
  /\ UNCHANGED <<identities, network, current, dismissing, dismissed, faults>>

\* IDENTITY_LOCK_TIMEOUT_MS without either.
ProofTimeout(s) ==
  /\ job[s].at \in {"prove", "reprove"} /\ Fault /\ Fail(s)
  /\ UNCHANGED <<store, network, current, dismissing, dismissed>>

\* markBroadcastingSt.
Mark(s) ==
  /\ job[s].at = "mark"
  /\ UpdateStatus(job[s].row, "StBroadcast")
  /\ Go(s, "submit")
  /\ UNCHANGED <<identities, network, current, dismissing, dismissed, faults>>

\* Platform accepts one transition for a lock; the job awaits its result.
Accept(s) ==
  /\ job[s].at = "submit" /\ job[s].row \notin credited
  /\ credited' = credited \union {job[s].row}
  /\ instantly' = IF job[s].proof = "instant" THEN instantly \union {job[s].row} ELSE instantly
  /\ Go(s, "answer")
  /\ UNCHANGED <<store, l1, instant, chain, current, dismissing, dismissed, faults>>

\* waitForStateTransitionResult answers.
Submitted(s) ==
  /\ job[s].at = "answer"
  /\ Go(s, "record")
  /\ UNCHANGED <<store, network, current, dismissing, dismissed, faults>>

\* Platform has had a transition for this lock.  Is this the same one?  Not with
\* the other proof; surely with the same proof if the row determines the rest.
MayBeTheSame(s) == job[s].proof = "instant" <=> job[s].row \in instantly
IsTheSame(s) == MayBeTheSame(s) /\ job[s].row \in Rebuilt

\* A bug for Replayed: what is already in the chain is an error.
Replayed_IsAnError(s) ==
  /\ job[s].at = "submit" /\ job[s].row \in credited /\ MayBeTheSame(s)
  /\ Fail(s)
  /\ UNCHANGED <<store, network, current, dismissing, dismissed, faults>>

\* The same transition again is already in the chain, which is as good.
Replayed(s) ==
  /\ job[s].at = "submit" /\ job[s].row \in credited /\ MayBeTheSame(s)
  /\ Go(s, "record")
  /\ UNCHANGED <<store, network, current, dismissing, dismissed, faults>>

\* Another transition for a lock that is spent is an error like any other.
RejectedAsSpent(s) ==
  /\ job[s].at = "submit" /\ job[s].row \in credited /\ ~IsTheSame(s)
  /\ Fail(s)
  /\ UNCHANGED <<store, network, current, dismissing, dismissed, faults>>

\* broadcastWithProof: a stale instant lock sends the row back to its lock.
RejectedAsStale(s) ==
  /\ job[s].at = "submit" /\ job[s].proof = "instant" /\ job[s].row \notin credited
  /\ UpdateStatus(job[s].row, "L1Broadcast")
  /\ Go(s, "reprove")
  /\ UNCHANGED <<identities, network, current, dismissing, dismissed, faults>>

\* Any other error, of the worker too: nothing says whether it was accepted.
SubmitFails(s) ==
  /\ job[s].at \in {"submit", "answer"} /\ Fault /\ Fail(s)
  /\ UNCHANGED <<store, network, current, dismissing, dismissed>>

\* A bug for Record: the identity is left for after done.
Record_Skipped(s) ==
  /\ job[s].at = "record"
  /\ Go(s, "finish")
  /\ UNCHANGED <<store, network, current, dismissing, dismissed, faults>>

\* settleCreate's insertIdentity, if it is not there.
Record(s) ==
  /\ job[s].at = "record"
  /\ identities' = identities \union ({job[s].row} \intersect Registers)
  /\ Go(s, "finish")
  /\ UNCHANGED <<row, network, current, dismissing, dismissed, faults>>

\* done: the row is the last thing written.
Finish(s) ==
  /\ job[s].at = "finish"
  /\ UpdateStatus(job[s].row, "Done")
  /\ Go(s, "done")
  /\ UNCHANGED <<identities, network, current, dismissing, dismissed, faults>>

-----------------------------------------------------------------------------
(* Resuming and giving up *)

\* ResumeAssetLockFundingHandler up to unlockWallet.
ResumeCall(s) ==
  /\ Unused(s)
  /\ ~GetActive /\ OpenRow # NoRow
  /\ job' = [job EXCEPT ![s] = [Free EXCEPT !.at = "unlock", !.row = OpenRow]]
  /\ UNCHANGED <<store, network, current, dismissing, dismissed, faults>>

\* resume: a new state object, whatever there is by now.
Resume(s) ==
  /\ job[s].at = "unlock"
  /\ job' = [job EXCEPT ![s].at = "reacquire", ![s].lock = job[s].row]
  /\ current' = s
  /\ UNCHANGED <<store, network, dismissing, dismissed, faults>>

\* reacquire: by chain lock only, and nothing is sent again.
Reacquire(s) ==
  /\ job[s].at = "reacquire"
  /\ IF job[s].row \in chain
       THEN /\ UpdateStatus(job[s].row, "ChainLocked")
            /\ job' = [job EXCEPT ![s].at = "mark", ![s].proof = "chain"]
       ELSE Fail(s) /\ UNCHANGED row
  /\ UNCHANGED <<identities, network, current, dismissing, dismissed, faults>>

\* dismiss reads the row first.
DismissCall ==
  /\ dismissing = Nothing
  /\ dismissing' = OpenRow
  /\ UNCHANGED <<store, network, job, current, dismissed, faults>>

\* A bug for Dismiss: no look at what runs.
Dismiss_WhileActive ==
  /\ dismissing # Nothing
  /\ dismissing' = Nothing
  /\ row' = IF dismissing = NoRow THEN row ELSE [row EXCEPT ![dismissing] = "Error"]
  /\ dismissed' = dismissed \union ({dismissing} \ {NoRow})
  /\ current' = NoJob
  /\ UNCHANGED <<identities, network, job, faults>>

\* Then it looks at what runs, and gives the row up.
Dismiss ==
  /\ dismissing # Nothing
  /\ dismissing' = Nothing
  /\ IF GetActive THEN UNCHANGED <<row, dismissed, current>>
     ELSE /\ row' = IF dismissing = NoRow THEN row ELSE [row EXCEPT ![dismissing] = "Error"]
          /\ dismissed' = dismissed \union ({dismissing} \ {NoRow})
          /\ current' = NoJob
  /\ UNCHANGED <<identities, network, job, faults>>

-----------------------------------------------------------------------------
(* The network and the process *)

InstantLocked(l) ==
  /\ l \in l1 \ instant
  /\ instant' = instant \union {l}
  /\ UNCHANGED <<store, l1, chain, credited, instantly, job, current, dismissing, dismissed, faults>>

ChainLocked(l) ==
  /\ l \in l1 \ chain
  /\ chain' = chain \union {l}
  /\ UNCHANGED <<store, l1, instant, credited, instantly, job, current, dismissing, dismissed, faults>>

\* The process ends and starts again: jobs and calls are gone.
Crash ==
  /\ faults.crashes < MaxCrashes
  /\ faults' = [faults EXCEPT !.crashes = @ + 1]
  /\ job' = [s \in Slots |-> Free]
  /\ current' = NoJob
  /\ dismissing' = Nothing
  /\ UNCHANGED <<store, network, dismissed>>

-----------------------------------------------------------------------------
(* Situations an instance can leave out *)

Allowed(situation, happens) == happens => situation \notin Excluded

\* Two calls at work on the same wallet.
Working == \E s \in Slots : job[s].at \notin Ended
\* A resume that dismiss cannot see, or one that settled what it is giving up.
Unseen ==
  \/ \E s \in Slots : job[s].at \in {"unlock", "finish"}
  \/ dismissing \in Locks /\ row[dismissing] \in {"Done", "Error"}

JobStep(s) ==
  \/ Build(s) \/ Send(s, TRUE, TRUE) \/ ReadRow(s) \/ (\E proof \in {"instant", "chain"} : Prove(s, proof))
  \/ Mark(s) \/ Accept(s) \/ Submitted(s) \/ Replayed(s) \/ RejectedAsSpent(s)
  \/ Record(s) \/ Finish(s) \/ Resume(s) \/ Reacquire(s)

Next ==
  \/ \E s \in Slots :
       \/ Allowed("start beside a job", Working) /\ Begin(s)
       \/ Allowed("resume beside a job", Working) /\ ResumeCall(s)
       \/ JobStep(s) \/ BuildFails(s)
       \/ \E reached \in BOOLEAN : Send(s, reached, FALSE)
       \/ ProofTimeout(s) \/ RejectedAsStale(s) \/ SubmitFails(s)
  \/ DismissCall
  \/ Allowed("give up beside a resume", Unseen) /\ Dismiss
  \/ \E l \in Locks : InstantLocked(l) \/ ChainLocked(l)
  \/ Crash

Spec == Init /\ [][Next]_vars

\* Jobs go on, blocks are chain-locked, and the user resumes what is resumable.
FairSpec ==
  /\ Spec
  /\ \A s \in Slots : WF_vars(JobStep(s))
  /\ \A l \in Locks : WF_vars(ChainLocked(l))
  /\ WF_vars(\E s \in Slots : ~Working /\ ResumeCall(s))

-----------------------------------------------------------------------------
(* Properties *)

\* Rows have known statuses, jobs known steps and locks, and network facts are
\* about locks that were sent.
TypeOK ==
  /\ row \in [Locks -> Statuses]
  /\ identities \subseteq Registers
  /\ job \in [Slots -> Jobs]
  /\ current \in Slots \union {NoJob}
  /\ dismissing \in 0..Nothing
  /\ l1 \subseteq Locks /\ instant \subseteq l1 /\ chain \subseteq l1
  /\ credited \subseteq Locks /\ instantly \subseteq credited
  /\ dismissed \subseteq Locks

\* No coins are locked without a trace: a lock that reached the network has a
\* row that can be resumed, or was credited, or was given up by the user,
\* whenever the app died.
NoLostLock ==
  \A l \in l1 :
    \/ row[l] \in Open
    \/ l \in credited
    \/ l \in dismissed

\* A row says Done only when platform has credited the lock and the identity it
\* registers is in the wallet: what is still to be done is never forgotten.
DoneMeansDone ==
  \A l \in Locks : row[l] = "Done" => l \in credited /\ (l \in Registers => l \in identities)

\* begin's promise: a second funding is refused while one runs or is resumable.
OneFunding == \A l, k \in Locks : row[l] \in Open /\ row[k] \in Open => l = k

\* With no job at work, an open row is what the user is shown as resumable: it
\* is not hidden behind an older outcome, and nothing resumable has no row.
NothingHidden == ~Working => (Shown = "resumable" <=> OpenRow # NoRow)

\* One funding at most is open, and it shows: between jobs, after a crash too, the
\* user is offered to resume exactly the row that is open (begin, getState, fail).
FundingShown == TypeOK /\ OneFunding /\ NothingHidden

\* A row that is done or given up stays so, whatever is still under way.
Final == [][\A l \in Locks : row[l] \in {"Done", "Error"} => row'[l] = row[l]]_row

\* The answer to what funded l was lost, and no resume has to send the same
\* transition again: resumes prove by chain lock, and quote fees anew.
Stranded(l) ==
  /\ l \in credited /\ row[l] \in Open
  /\ l \in instantly \/ l \notin Rebuilt
  /\ ~\E s \in Slots : job[s].row = l /\ job[s].at \in {"answer", "record", "finish"}

\* A lock that reached the network is settled in the end, by the job that sent
\* it or by the resumes after it failed or the app died, unless it is given up,
\* or platform credited it and the answer was lost to what could not be replayed.
Settles == \A l \in Locks : l \in l1 ~> (row[l] = "Done" \/ l \in dismissed \/ Stranded(l))
=============================================================================
