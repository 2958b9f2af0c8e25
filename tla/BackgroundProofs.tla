-------------------------- MODULE BackgroundProofs --------------------------
(***************************************************************************)
(* The application's own work, proved for every value of the constants.    *)
(***************************************************************************)
EXTENDS MCBackground, Sequences, FiniteSetTheorems, TLAPS

-----------------------------------------------------------------------------
(* The job queue: fencing, for every set of jobs, commands, prerequisites,  *)
(* lease length and retry policy.  The invariant the properties need and do *)
(* not state: no command holds a fence its job has not reached yet, so the  *)
(* fence a claim draws is above every fence in use.                         *)

FenceBound ==
    \A h \in Handlers :
        Leased(h) => /\ jobs[run[h].job].state # "absent"
                     /\ run[h].fence <= jobs[run[h].job].fence

\* A job runs only after its prerequisites, and keeps that right for ever.
\* The table of dependencies has no writer yet, so only the proof, which holds
\* for every table, says something about it.
PrerequisitesFirst ==
    \A j \in Jobs :
        jobs[j].state \in {"running", "succeeded", "failed"}
            => \A d \in Deps[j] : jobs[d].state = "succeeded"

JInv ==
    /\ TypeOK
    /\ FenceBound
    /\ FencesAreDistinct
    /\ ResultFromLastClaim
    /\ FailureIsActionable
    /\ PrerequisitesFirst

Rows == [state : {"absent", "queued", "running"} \cup Terminal,
         available : Nat, attempt : Nat, fence : Nat, owner : Int, expires : Int, created : Nat]
Claims == [phase : {"verifying"}, now : Nat, job : Jobs, fence : Nat, owner : Nat, attempt : Nat]
RunStates == {Waiting, [phase |-> "enqueued"]} \cup [phase : {"claiming"}, now : Nat] \cup Claims

\* What a command in its verifying phase carries.
LEMMA LeasedType ==
    ASSUME TypeOK, NEW h \in Handlers, Leased(h)
    PROVE  run[h] \in Claims
  BY DEF TypeOK, Leased, Claims, Waiting

LEMMA ClaimingType ==
    ASSUME TypeOK, NEW h \in Handlers, run[h].phase = "claiming"
    PROVE  run[h].now \in Nat
  BY DEF TypeOK, Waiting

\* A command that stops, or moves to a phase without a lease, disturbs nothing
\* as long as the tables stay as they are.
LEMMA OnlyRunChanges ==
    ASSUME JInv, UNCHANGED <<jobs, results, failures>>, now' \in Nat, boot' \in Nat,
           run' \in [Handlers -> RunStates],
           \A h \in Handlers : run'[h].phase = "verifying" => run'[h] = run[h]
    PROVE  JInv'
  <1> USE DEF JInv
  <1>1. TypeOK'
    BY DEF TypeOK, RunStates, Claims
  <1>2. FenceBound'
    BY DEF FenceBound, Leased
  <1>3. FencesAreDistinct'
    BY DEF FencesAreDistinct, Leased
  <1>4. ResultFromLastClaim' /\ FailureIsActionable' /\ PrerequisitesFirst'
    BY DEF ResultFromLastClaim, FailureIsActionable, PrerequisitesFirst
  <1> QED
    BY <1>1, <1>2, <1>3, <1>4

LEMMA JobInitInv == Init => JInv
  BY JobQueueAssumption
     DEF Init, JInv, TypeOK, FenceBound, FencesAreDistinct, ResultFromLastClaim,
         FailureIsActionable, PrerequisitesFirst, Leased, NoRow, NoResult, NoFailure, NoOwner,
         Waiting, Terminal

LEMMA EnqueueInv ==
    ASSUME JInv, NEW h \in Handlers, NEW j \in Jobs, run_storage_check(h, j)
    PROVE  JInv'
  <1> USE DEF JInv
  <1>1. run' \in [Handlers -> RunStates] /\ \A g \in Handlers :
            run'[g].phase = "verifying" => run'[g] = run[g]
    BY DEF run_storage_check, TypeOK, RunStates, Claims
  <1>2. CASE jobs[j].state # "absent"
    <2>1. jobs' = jobs
      BY <1>2 DEF run_storage_check, insert_verify_job, TypeOK
    <2> QED
      BY <1>1, <2>1, OnlyRunChanges DEF run_storage_check, TypeOK
  <1>3. CASE jobs[j].state = "absent"
    <2>1. /\ jobs' \in [Jobs -> Rows]
          /\ jobs'[j].state = "queued" /\ jobs'[j].owner = NoOwner
          /\ \A i \in Jobs \ {j} : jobs'[i] = jobs[i]
      BY <1>3 DEF run_storage_check, insert_verify_job, TypeOK, Rows, NoRow, NoOwner
    <2>2. TypeOK'
      BY <1>1, <2>1 DEF run_storage_check, TypeOK, Rows, RunStates, Claims
    <2>3. results[j] = NoResult /\ failures[j] = NoFailure
      BY <1>3 DEF ResultFromLastClaim, FailureIsActionable
    <2>4. ResultFromLastClaim' /\ FailureIsActionable' /\ PrerequisitesFirst'
      BY <1>3, <2>1, <2>3, JobQueueAssumption
         DEF run_storage_check, ResultFromLastClaim, FailureIsActionable, PrerequisitesFirst
    <2>5. FenceBound'
      <3> SUFFICES ASSUME NEW g \in Handlers, Leased(g)'
                   PROVE  /\ jobs'[run'[g].job].state # "absent"
                          /\ run'[g].fence <= jobs'[run'[g].job].fence
        BY DEF FenceBound
      <3>1. run'[g] = run[g] /\ Leased(g)
        BY <1>1 DEF Leased
      <3>2. run[g].job \in Jobs \ {j}
        BY <1>3, <3>1, LeasedType DEF FenceBound, Claims
      <3> QED
        BY <2>1, <3>1, <3>2 DEF FenceBound
    <2>6. FencesAreDistinct'
      BY <1>1 DEF FencesAreDistinct, Leased
    <2> QED
      BY <2>2, <2>4, <2>5, <2>6
  <1> QED
    BY <1>2, <1>3

LEMMA ClaimInv ==
    ASSUME JInv, NEW h \in Handlers, NEW j \in Jobs, run[h].phase = "claiming", Claim(h, j)
    PROVE  JInv'
  <1> USE DEF JInv
  <1>1. /\ jobs[j].state \in {"queued", "running"}
        /\ \A d \in Deps[j] : jobs[d].state = "succeeded"
    BY DEF Claim, Claimable
  <1>2. /\ jobs' \in [Jobs -> Rows]
        /\ jobs'[j].state = "running" /\ jobs'[j].owner = boot
        /\ jobs'[j].fence = jobs[j].fence + 1
        /\ \A i \in Jobs \ {j} : jobs'[i] = jobs[i]
    <2>1. run[h].now \in Nat
      BY ClaimingType
    <2>2. ClaimedRow(j, run[h].now) \in Rows
      <3>1. jobs[j] \in Rows /\ boot \in Int /\ run[h].now + LeaseMs \in Int
        BY <2>1, JobQueueAssumption DEF TypeOK, Rows
      <3>2. ClaimedRow(j, run[h].now) =
               [state |-> "running", available |-> jobs[j].available,
                attempt |-> jobs[j].attempt + 1, fence |-> jobs[j].fence + 1,
                owner |-> boot, expires |-> run[h].now + LeaseMs, created |-> jobs[j].created]
        BY <3>1 DEF ClaimedRow, Rows
      <3>3. /\ jobs[j].available \in Nat /\ jobs[j].attempt + 1 \in Nat
            /\ jobs[j].fence + 1 \in Nat /\ jobs[j].created \in Nat
        BY <3>1 DEF Rows
      <3> QED
        BY <3>1, <3>2, <3>3 DEF Rows
    <2> QED
      BY <2>2 DEF Claim, ClaimedRow, TypeOK, Rows
  <1>3. /\ run'[h] \in Claims
        /\ run'[h].job = j /\ run'[h].fence = jobs[j].fence + 1
        /\ run' \in [Handlers -> RunStates]
        /\ \A g \in Handlers \ {h} : run'[g] = run[g]
    <2>1. run[h].now \in Nat
      BY ClaimingType
    <2>2. jobs[j].fence \in Nat /\ jobs[j].attempt \in Nat /\ boot \in Nat
      BY DEF TypeOK
    <2>3. run' = [run EXCEPT ![h] =
                    [phase |-> "verifying", now |-> run[h].now, job |-> j,
                     fence |-> jobs[j].fence + 1, owner |-> boot,
                     attempt |-> jobs[j].attempt + 1]]
      BY DEF Claim, ClaimedRow
    <2> QED
      BY <2>1, <2>2, <2>3 DEF TypeOK, Claims, RunStates
  <1>4. TypeOK'
    BY <1>1, <1>2, <1>3 DEF Claim, TypeOK, Rows, RunStates, Claims, NoOwner
  <1>5. FenceBound'
    <2> SUFFICES ASSUME NEW g \in Handlers, Leased(g)'
                 PROVE  /\ jobs'[run'[g].job].state # "absent"
                        /\ run'[g].fence <= jobs'[run'[g].job].fence
      BY DEF FenceBound
    <2>1. CASE g = h
      BY <1>2, <1>3, <2>1 DEF Rows
    <2>2. CASE g # h
      <3>1. run'[g] = run[g] /\ Leased(g) /\ run[g] \in Claims
        BY <1>3, <2>2, LeasedType DEF Leased
      <3>2. /\ jobs[run[g].job].state # "absent"
            /\ run[g].fence <= jobs[run[g].job].fence
        BY <3>1 DEF FenceBound
      <3> QED
        BY <1>1, <1>2, <3>1, <3>2 DEF Claims, TypeOK
    <2> QED
      BY <2>1, <2>2
  <1>6. FencesAreDistinct'
    <2> SUFFICES ASSUME NEW f \in Handlers, NEW g \in Handlers, f # g,
                        Leased(f)', Leased(g)', run'[f].job = run'[g].job
                 PROVE  run'[f].fence # run'[g].fence
      BY DEF FencesAreDistinct
    <2>1. \A e \in Handlers \ {h} : Leased(e)' =>
             run'[e] = run[e] /\ Leased(e) /\ run[e].fence \in Nat
                /\ run[e].fence <= jobs[run[e].job].fence
      BY <1>3, LeasedType DEF Leased, FenceBound, Claims
    <2>2. jobs[j].fence \in Nat
      BY DEF TypeOK
    <2>3. CASE f = h
      BY <1>3, <2>1, <2>2, <2>3
    <2>4. CASE g = h
      BY <1>3, <2>1, <2>2, <2>4
    <2>5. CASE f # h /\ g # h
      BY <2>1, <2>5 DEF FencesAreDistinct
    <2> QED
      BY <2>3, <2>4, <2>5
  <1>7. ResultFromLastClaim' /\ FailureIsActionable'
    BY <1>1, <1>2 DEF Claim, ResultFromLastClaim, FailureIsActionable
  <1>8. PrerequisitesFirst'
    BY <1>1, <1>2, JobQueueAssumption DEF PrerequisitesFirst
  <1> QED
    BY <1>4, <1>5, <1>6, <1>7, <1>8

\* One of the three ways run_once ends a lease it still holds.
LEMMA CommitInv ==
    ASSUME JInv, NEW h \in Handlers, run_once(h), ensure_lease(run[h]), Settle(run[h])
    PROVE  JInv'
  <1> USE DEF JInv
  <1> DEFINE j == run[h].job
  <1>1. run[h] \in Claims /\ j \in Jobs
    BY LeasedType DEF run_once, Leased, Claims
  <1>2. jobs[j].state = "running" /\ jobs[j].fence = run[h].fence
    BY DEF ensure_lease
  <1>3. results[j] = NoResult /\ failures[j] = NoFailure
    BY <1>1, <1>2 DEF ResultFromLastClaim, FailureIsActionable
  <1> DEFINE Ended ==
        /\ \A i \in Jobs \ {j} :
              jobs'[i] = jobs[i] /\ results'[i] = results[i] /\ failures'[i] = failures[i]
        /\ jobs'[j].fence = jobs[j].fence /\ jobs'[j].owner = NoOwner
        /\ jobs' \in [Jobs -> Rows]
        /\ \/ /\ jobs'[j].state = "succeeded" /\ failures'[j] = NoFailure
              /\ results'[j] = [owner |-> run[h].owner, fence |-> run[h].fence]
           \/ /\ jobs'[j].state = "failed" /\ results'[j] = NoResult
              /\ failures'[j] \in FailureCodes
           \/ /\ jobs'[j].state = "queued" /\ results'[j] = NoResult /\ failures'[j] = NoFailure
        /\ results' \in [Jobs -> [owner : Int, fence : Nat]]
        /\ failures' \in [Jobs -> FailureCodes \cup {NoFailure}]
  <1>4. Ended
    <2>1. ASSUME NEW st \in {"queued", "succeeded", "failed"}, NEW at \in Nat,
                 jobs' = [jobs EXCEPT ![j] = Released([@ EXCEPT !.state = st, !.available = at])]
          PROVE  /\ jobs' \in [Jobs -> Rows]
                 /\ \A i \in Jobs \ {j} : jobs'[i] = jobs[i]
                 /\ jobs'[j].fence = jobs[j].fence /\ jobs'[j].owner = NoOwner
                 /\ jobs'[j].state = st
      <3>1. jobs \in [Jobs -> Rows] /\ jobs[j] \in Rows
        BY <1>1 DEF TypeOK, Rows
      <3>2. jobs'[j] = Released([jobs[j] EXCEPT !.state = st, !.available = at])
        BY <1>1, <2>1, <3>1
      <3>3. jobs'[j] \in Rows /\ jobs'[j].fence = jobs[j].fence /\ jobs'[j].owner = NoOwner
            /\ jobs'[j].state = st
        <4>1. jobs'[j] = [state |-> st, available |-> at, attempt |-> jobs[j].attempt,
                          fence |-> jobs[j].fence, owner |-> NoOwner, expires |-> -1,
                          created |-> jobs[j].created]
          BY <3>1, <3>2 DEF Released, Rows
        <4>2. /\ jobs[j].attempt \in Nat /\ jobs[j].fence \in Nat /\ jobs[j].created \in Nat
              /\ NoOwner \in Int /\ -1 \in Int
              /\ st \in {"absent", "queued", "running"} \cup Terminal
          BY <3>1 DEF Rows, NoOwner, Terminal
        <4> QED
          BY <4>1, <4>2 DEF Rows
      <3> QED
        BY <2>1, <3>1, <3>3
    <2>2. jobs[j].available \in Nat /\ jobs[j] = [jobs[j] EXCEPT !.available = jobs[j].available]
      BY <1>1 DEF TypeOK
    <2>3. CASE complete(run[h])
      <3>1. jobs' = [jobs EXCEPT ![j] = Released([@ EXCEPT !.state = "succeeded",
                                                           !.available = jobs[j].available])]
        BY <1>1, <2>2, <2>3 DEF complete, TypeOK
      <3>2. /\ \A i \in Jobs \ {j} : jobs'[i] = jobs[i]
            /\ jobs' \in [Jobs -> Rows] /\ jobs'[j].fence = jobs[j].fence
            /\ jobs'[j].owner = NoOwner /\ jobs'[j].state = "succeeded"
        BY <2>1, <2>2, <3>1
      <3>3. /\ results'[j] = [owner |-> run[h].owner, fence |-> run[h].fence]
            /\ results' \in [Jobs -> [owner : Int, fence : Nat]]
            /\ failures' = failures
            /\ \A i \in Jobs \ {j} : results'[i] = results[i]
        BY <1>1, <1>3, <2>3 DEF complete, TypeOK, Claims
      <3> QED
        BY <1>3, <3>2, <3>3 DEF TypeOK
    <2>4. ASSUME NEW code \in FailureCodes, fail_permanently(run[h], code)
          PROVE  Ended
      <3>1. jobs' = [jobs EXCEPT ![j] = Released([@ EXCEPT !.state = "failed",
                                                           !.available = jobs[j].available])]
        BY <1>1, <2>2, <2>4 DEF fail_permanently, TypeOK
      <3>2. /\ \A i \in Jobs \ {j} : jobs'[i] = jobs[i]
            /\ jobs' \in [Jobs -> Rows] /\ jobs'[j].fence = jobs[j].fence
            /\ jobs'[j].owner = NoOwner /\ jobs'[j].state = "failed"
        BY <2>1, <2>2, <3>1
      <3>3. /\ failures'[j] = code
            /\ failures' \in [Jobs -> FailureCodes \cup {NoFailure}]
            /\ results' = results
            /\ \A i \in Jobs \ {j} : failures'[i] = failures[i]
        BY <1>1, <2>4 DEF fail_permanently, TypeOK
      <3> QED
        BY <1>3, <3>2, <3>3 DEF TypeOK
    <2>5. CASE retry(run[h])
      <3>1. CASE run[h].attempt > RetryLimit
        BY <2>4, <2>5, <3>1 DEF retry, FailureCodes
      <3>2. CASE ~(run[h].attempt > RetryLimit)
        <4>1. run[h].now + BackoffMs \in Nat
          BY <1>1, JobQueueAssumption DEF Claims
        <4>2. /\ \A i \in Jobs \ {j} : jobs'[i] = jobs[i]
              /\ jobs' \in [Jobs -> Rows] /\ jobs'[j].fence = jobs[j].fence
              /\ jobs'[j].owner = NoOwner /\ jobs'[j].state = "queued"
          BY <2>1, <2>5, <3>2, <4>1 DEF retry
        <4> QED
          BY <1>3, <2>5, <3>2, <4>2 DEF retry, TypeOK
      <3> QED
        BY <3>1, <3>2
    <2> QED
      BY <2>3, <2>4, <2>5 DEF Settle
  <1>5. run' \in [Handlers -> RunStates] /\ \A g \in Handlers :
            run'[g].phase = "verifying" => run'[g] = run[g]
    BY DEF run_once, TypeOK, RunStates, Claims, Waiting
  <1>6. TypeOK'
    BY <1>1, <1>4, <1>5 DEF run_once, TypeOK, Rows, RunStates, Claims
  <1>7. FenceBound'
    <2> SUFFICES ASSUME NEW g \in Handlers, Leased(g)'
                 PROVE  /\ jobs'[run'[g].job].state # "absent"
                        /\ run'[g].fence <= jobs'[run'[g].job].fence
      BY DEF FenceBound
    <2>1. run'[g] = run[g] /\ Leased(g) /\ run[g] \in Claims
      BY <1>5, LeasedType DEF Leased
    <2> QED
      BY <1>4, <2>1 DEF FenceBound, Claims
  <1>8. FencesAreDistinct'
    BY <1>5 DEF FencesAreDistinct, Leased
  <1>9. ResultFromLastClaim'
    BY <1>1, <1>2, <1>4 DEF ResultFromLastClaim, NoResult, NoOwner, Claims
  <1>10. FailureIsActionable'
    BY <1>1, <1>4 DEF FailureIsActionable, FailureCodes, NoFailure
  <1>11. PrerequisitesFirst'
    BY <1>1, <1>2, <1>4, JobQueueAssumption DEF PrerequisitesFirst
  <1> QED
    BY <1>6, <1>7, <1>8, <1>9, <1>10, <1>11

LEMMA JobNextInv == JInv /\ [Next]_vars => JInv'
  <1> SUFFICES ASSUME JInv, [Next]_vars PROVE JInv'
    OBVIOUS
  <1>1. CASE UNCHANGED vars
    BY <1>1, OnlyRunChanges DEF vars, JInv, TypeOK, RunStates, Claims
  <1>2. CASE Tick
    BY <1>2, OnlyRunChanges DEF Tick, JInv, TypeOK, RunStates, Claims
  <1>3. CASE Crash
    <2>1. /\ run' \in [Handlers -> RunStates]
          /\ \A h \in Handlers : run'[h].phase # "verifying"
      BY <1>3 DEF Crash, RunStates, Waiting
    <2> QED
      BY <1>3, <2>1, OnlyRunChanges DEF Crash, JInv, TypeOK
  <1>4. ASSUME NEW h \in Handlers, NEW j \in Jobs, run_storage_check(h, j) PROVE JInv'
    BY <1>4, EnqueueInv
  <1>5. ASSUME NEW h \in Handlers, read_clock(h) PROVE JInv'
    <2>1. /\ run' \in [Handlers -> RunStates]
          /\ \A g \in Handlers : run'[g].phase = "verifying" => run'[g] = run[g]
      BY <1>5 DEF read_clock, JInv, TypeOK, RunStates, Claims
    <2> QED
      BY <1>5, <2>1, OnlyRunChanges DEF read_clock, JInv, TypeOK
  <1>6. ASSUME NEW h \in Handlers, claim(h) PROVE JInv'
    <2>1. CASE \E j \in Jobs : Claim(h, j)
      BY <1>6, <2>1, ClaimInv DEF claim
    <2>2. CASE run' = [run EXCEPT ![h] = Waiting] /\ UNCHANGED <<now, boot, jobs, results, failures>>
      <3>1. /\ run' \in [Handlers -> RunStates]
            /\ \A g \in Handlers : run'[g].phase = "verifying" => run'[g] = run[g]
        BY <2>2 DEF JInv, TypeOK, RunStates, Claims, Waiting
      <3> QED
        BY <2>2, <3>1, OnlyRunChanges DEF JInv, TypeOK
    <2> QED
      BY <1>6, <2>1, <2>2 DEF claim
  <1>7. ASSUME NEW h \in Handlers, run_once(h) PROVE JInv'
    <2>1. CASE ensure_lease(run[h]) /\ Settle(run[h])
      BY <1>7, <2>1, CommitInv
    <2>2. CASE UNCHANGED <<jobs, results, failures>>
      <3>1. /\ run' \in [Handlers -> RunStates]
            /\ \A g \in Handlers : run'[g].phase = "verifying" => run'[g] = run[g]
        BY <1>7 DEF run_once, JInv, TypeOK, RunStates, Claims, Waiting
      <3>2. UNCHANGED <<jobs, results, failures, now, boot>>
        BY <1>7, <2>2 DEF run_once
      <3> QED
        BY <3>1, <3>2, OnlyRunChanges DEF JInv, TypeOK
    <2> QED
      BY <1>7, <2>1, <2>2 DEF run_once
  <1> QED
    BY <1>1, <1>2, <1>3, <1>4, <1>5, <1>6, <1>7 DEF Next

\* The inductive invariant holds in every reachable state.
LEMMA JobInvHolds == Spec => []JInv
  BY JobInitInv, JobNextInv, PTL DEF Spec

\* Whatever expires, crashes or is replayed, the tables keep their types and
\* exactly the running jobs carry a lease.
THEOREM JobTypes == Spec => []TypeOK
  BY JobInvHolds, PTL DEF JInv

\* No two commands ever hold the same fence of one job.
THEOREM Fencing == Spec => []FencesAreDistinct
  BY JobInvHolds, PTL DEF JInv

\* Every result was committed by the last claim of its job, and every
\* succeeded job has one: completed work is neither lost nor done twice.
THEOREM ResultsAreFenced == Spec => []ResultFromLastClaim
  BY JobInvHolds, PTL DEF JInv

\* A failed job always has the failure row the user interface shows.
THEOREM FailuresAreActionable == Spec => []FailureIsActionable
  BY JobInvHolds, PTL DEF JInv

\* Whatever the dependencies of a job, claim runs it only once they succeeded.
THEOREM PrerequisitesComeFirst == Spec => []PrerequisitesFirst
  BY JobInvHolds, PTL DEF JInv

\* A finished job keeps its row, its result and its failure for ever.
THEOREM FinishedJobsAreFinal == Spec => FinishedIsFinal
  <1>1. JInv /\ [Next]_vars
        => [\A j \in Jobs : jobs[j].state \in Terminal =>
              jobs'[j] = jobs[j] /\ results'[j] = results[j] /\ failures'[j] = failures[j]]_vars
    <2> SUFFICES ASSUME JInv, Next, NEW j \in Jobs, jobs[j].state \in Terminal
                 PROVE  jobs'[j] = jobs[j] /\ results'[j] = results[j] /\ failures'[j] = failures[j]
      BY DEF vars
    <2> DEFINE Kept ==
          jobs'[j] = jobs[j] /\ results'[j] = results[j] /\ failures'[j] = failures[j]
    <2>1. CASE Tick \/ Crash
      BY <2>1 DEF Tick, Crash
    <2>2. ASSUME NEW h \in Handlers, NEW i \in Jobs, run_storage_check(h, i) PROVE Kept
      BY <2>2 DEF run_storage_check, insert_verify_job, JInv, TypeOK, Terminal
    <2>3. ASSUME NEW h \in Handlers, read_clock(h) PROVE Kept
      BY <2>3 DEF read_clock
    <2>4. ASSUME NEW h \in Handlers, claim(h) PROVE Kept
      BY <2>4 DEF claim, Claim, Claimable, JInv, TypeOK, Terminal
    <2>5. ASSUME NEW h \in Handlers, run_once(h) PROVE Kept
      <3>1. CASE UNCHANGED <<jobs, results, failures>>
        BY <3>1
      <3>2. CASE ensure_lease(run[h]) /\ Settle(run[h])
        <4>1. jobs[run[h].job].state = "running" /\ j # run[h].job
          BY <3>2 DEF ensure_lease, Terminal
        <4> QED
          BY <2>5, <3>2, <4>1
             DEF Settle, complete, fail_permanently, retry, JInv, TypeOK
      <3> QED
        BY <2>5, <3>1, <3>2 DEF run_once
    <2> QED
      BY <2>1, <2>2, <2>3, <2>4, <2>5 DEF Next
  <1> QED
    BY <1>1, JobInvHolds, PTL DEF Spec, FinishedIsFinal

-----------------------------------------------------------------------------
(* The try-on scheduler                                                    *)

Passing == {"begin", "pass", "rendering", "finish", "refresh"}
SchedulerTypeOK ==
    /\ ticks \in Nat
    /\ active \in BOOLEAN /\ wake_requested \in BOOLEAN /\ local_only \in BOOLEAN
    /\ disturbed \in BOOLEAN /\ dropped \in BOOLEAN
    /\ submissions \in [Submissions -> [state : {"none", "queued", "done"}, available : Nat]]
    /\ main \in [at : {"idle", "store", "exchange"}, now : Nat]
    /\ task \in [Tasks -> [at : {"free", "swap", "exchange"} \cup Passing, now : Nat]]

\* The latch is set exactly while a task is in a pass, and no two tasks are.
LatchIsOwned ==
    /\ active <=> \E t \in Tasks : task[t].at \in Passing
    /\ \A s, t \in Tasks : task[s].at \in Passing /\ task[t].at \in Passing => s = t

\* Somebody will look for the job: the main thread is about to ask for a run, the request
\* it has made will be taken, or a task will look for all jobs, or for those as old as this.
Covered(j) ==
    \/ main.at = "store"
    \/ /\ wake_requested
       /\ main.at = "exchange" \/ \E t \in Tasks : task[t].at \in Passing \cup {"swap"}
    \/ \E t \in Tasks :
        \/ task[t].at \in {"rendering", "exchange", "refresh"}
        \/ task[t].at \in {"begin", "pass"} /\ submissions[j].available <= task[t].now

SchedulerInv ==
    /\ SchedulerTypeOK /\ LatchIsOwned
    /\ ~disturbed => ~local_only
    /\ \A j \in Submissions : submissions[j].state = "queued" =>
         /\ submissions[j].available <= ticks
         /\ ~disturbed /\ ~dropped => Covered(j)

LEMMA SchedulerInit == InitBackground => SchedulerInv
<1> SUFFICES ASSUME InitBackground PROVE SchedulerInv
  OBVIOUS
<1>1. S!Init
  BY DEF InitBackground
<1>2. local_only \in BOOLEAN /\ disturbed = local_only
  BY <1>1 DEF S!Init
<1>3. main \in [at : {"idle", "store", "exchange"}, now : Nat]
  BY <1>1, <1>2 DEF S!Init, S!MainIdle
<1>4. \A t \in Tasks : task[t] = [at |-> "free", now |-> 0]
  BY <1>1 DEF S!Init, S!Free
<1>5. task \in [Tasks -> [at : {"free", "swap", "exchange"} \cup Passing, now : Nat]]
  BY <1>1 DEF S!Init, S!Free
<1>6. SchedulerTypeOK
  BY <1>1, <1>2, <1>3, <1>5 DEF S!Init, SchedulerTypeOK
<1>7. LatchIsOwned
  BY <1>1, <1>4 DEF S!Init, LatchIsOwned, Passing
<1> QED BY <1>1, <1>2, <1>6, <1>7 DEF S!Init, SchedulerInv

LEMMA SchedulerMain ==
    ASSUME SchedulerInv,
           \/ S!Tick \/ (\E j \in Submissions : S!submit_try_on(j)) \/ S!request_run_store
           \/ S!request_run_exchange \/ S!set_local_only \/ S!set_online
    PROVE  SchedulerInv'
<1>1. CASE S!Tick
  BY <1>1 DEF S!Tick, SchedulerInv, SchedulerTypeOK, LatchIsOwned, Covered
<1>2. ASSUME NEW j \in Submissions, S!submit_try_on(j) PROVE SchedulerInv'
  BY <1>2 DEF S!submit_try_on, SchedulerInv, SchedulerTypeOK, LatchIsOwned, Covered, S!MainIdle
<1>3. CASE S!request_run_store
  BY <1>3 DEF S!request_run_store, SchedulerInv, SchedulerTypeOK, LatchIsOwned, Covered
<1>4. CASE S!request_run_exchange
  <2>1. CASE active
    BY <1>4, <2>1 DEF S!request_run_exchange, SchedulerInv, SchedulerTypeOK, LatchIsOwned, Covered,
       S!MainIdle
  <2>2. CASE ~active
    <3>1. PICK t \in Tasks :
            /\ task[t] = S!Free /\ active' = TRUE /\ main.at = "exchange" /\ main' = S!MainIdle
            /\ task' = [task EXCEPT ![t] = [at |-> "begin", now |-> main.now]]
            /\ UNCHANGED <<ticks, wake_requested, submissions, local_only, disturbed, dropped>>
      BY <1>4, <2>2 DEF S!request_run_exchange
    <3>2. /\ SchedulerTypeOK' /\ task'[t].at = "begin"
          /\ \A s \in Tasks \ {t} : task'[s] = task[s]
      BY <3>1 DEF SchedulerInv, SchedulerTypeOK, Passing, S!MainIdle
    <3>3. \A s \in Tasks : task[s].at \notin Passing
      BY <2>2 DEF SchedulerInv, LatchIsOwned
    <3>4. LatchIsOwned'
      BY <3>1, <3>2, <3>3 DEF LatchIsOwned, Passing
    <3>5. \A j \in Submissions : Covered(j) => Covered(j)'
      BY <3>1, <3>2, <3>3 DEF Covered, Passing, S!Free, S!MainIdle
    <3> QED BY <3>1, <3>2, <3>4, <3>5 DEF SchedulerInv
  <2> QED BY <2>1, <2>2
<1>5. CASE S!set_local_only
  BY <1>5 DEF S!set_local_only, SchedulerInv, SchedulerTypeOK, LatchIsOwned
<1>6. CASE S!set_online
  BY <1>6 DEF S!set_online, SchedulerInv, SchedulerTypeOK, LatchIsOwned, Covered
<1> QED BY <1>1, <1>2, <1>3, <1>4, <1>5, <1>6

\* A step of a task leaves every other task where it is.
LEMMA SchedulerTask ==
    ASSUME SchedulerInv, NEW t \in Tasks,
           \/ S!begin_pass(t) \/ S!run_once_claims(t) \/ S!run_once_returns(t)
           \/ S!run_once_ends(t) \/ S!finish_pass_store(t) \/ S!finish_pass_swap(t)
           \/ S!finish_pass_exchange(t) \/ S!refresh(t)
    PROVE  SchedulerInv'
<1>a. /\ SchedulerTypeOK /\ LatchIsOwned /\ (~disturbed => ~local_only)
      /\ task[t] \in [at : {"free", "swap", "exchange"} \cup Passing, now : Nat]
  BY DEF SchedulerInv, SchedulerTypeOK
<1>b. \A j \in Submissions : submissions[j].state = "queued" =>
         /\ submissions[j].available \in Nat /\ submissions[j].available <= ticks
         /\ ~disturbed /\ ~dropped => Covered(j)
  BY DEF SchedulerInv, SchedulerTypeOK
<1>1. CASE S!begin_pass(t)
  <2>1. /\ task[t].at = "begin" /\ task' = [task EXCEPT ![t].at = "pass"]
        /\ wake_requested' = FALSE /\ dropped' = (dropped \/ (wake_requested /\ task[t].now < ticks))
        /\ UNCHANGED <<ticks, active, submissions, main, local_only, disturbed>>
    BY <1>1 DEF S!begin_pass, S!Move
  <2>2. /\ SchedulerTypeOK' /\ task'[t].at = "pass" /\ task'[t].now = task[t].now
        /\ \A s \in Tasks \ {t} : task'[s] = task[s]
    BY <1>a, <2>1 DEF SchedulerTypeOK, Passing
  <2>3. LatchIsOwned'
    BY <1>a, <2>1, <2>2 DEF LatchIsOwned, Passing
  <2>4. \A j \in Submissions :
          submissions[j].state = "queued" /\ ~disturbed' /\ ~dropped' => Covered(j)'
    BY <1>a, <1>b, <2>1, <2>2 DEF Covered, SchedulerTypeOK
  <2> QED BY <1>a, <1>b, <2>1, <2>2, <2>3, <2>4 DEF SchedulerInv
<1>2. CASE S!run_once_claims(t)
  <2>1. /\ task[t].at = "pass" /\ task' = [task EXCEPT ![t].at = "rendering"]
        /\ \E j \in Submissions : submissions' = [submissions EXCEPT ![j].state = "done"]
        /\ UNCHANGED <<ticks, active, wake_requested, main, local_only, disturbed, dropped>>
    BY <1>2 DEF S!run_once_claims, S!Move
  <2>2. /\ SchedulerTypeOK' /\ task'[t].at = "rendering"
        /\ \A s \in Tasks \ {t} : task'[s] = task[s]
    BY <1>a, <2>1 DEF SchedulerTypeOK, Passing
  <2>3. LatchIsOwned'
    BY <1>a, <2>1, <2>2 DEF LatchIsOwned, Passing
  <2>4. \A j \in Submissions : submissions'[j].state = "queued" => submissions'[j] = submissions[j]
    BY <1>a, <2>1 DEF SchedulerTypeOK
  <2>5. \A j \in Submissions : Covered(j)'
    BY <2>2 DEF Covered
  <2> QED BY <1>a, <1>b, <2>1, <2>2, <2>3, <2>4, <2>5 DEF SchedulerInv
<1>3. CASE S!run_once_returns(t)
  <2>1. /\ task[t].at = "rendering"
        /\ \/ task' = [task EXCEPT ![t] = [at |-> "pass", now |-> ticks]] /\ disturbed' = disturbed
           \/ task' = [task EXCEPT ![t].at = "finish"] /\ disturbed' = TRUE
        /\ UNCHANGED <<ticks, active, wake_requested, submissions, main, local_only, dropped>>
    BY <1>3 DEF S!run_once_returns, S!Move
  <2>2. /\ SchedulerTypeOK' /\ task'[t].at \in {"pass", "finish"}
        /\ \A s \in Tasks \ {t} : task'[s] = task[s]
        /\ ~disturbed' => ~disturbed /\ task'[t].at = "pass" /\ task'[t].now = ticks
    <3>1. CASE /\ task' = [task EXCEPT ![t] = [at |-> "pass", now |-> ticks]]
               /\ disturbed' = disturbed
      BY <1>a, <2>1, <3>1 DEF SchedulerTypeOK, Passing
    <3>2. CASE task' = [task EXCEPT ![t].at = "finish"] /\ disturbed' = TRUE
      BY <1>a, <2>1, <3>2 DEF SchedulerTypeOK, Passing
    <3> QED BY <2>1, <3>1, <3>2
  <2>3. LatchIsOwned'
    BY <1>a, <2>1, <2>2 DEF LatchIsOwned, Passing
  <2>4. \A j \in Submissions : submissions[j].state = "queued" /\ ~disturbed' => Covered(j)'
    BY <1>b, <2>1, <2>2 DEF Covered
  <2> QED BY <1>a, <1>b, <2>1, <2>2, <2>3, <2>4 DEF SchedulerInv
<1>4. CASE S!run_once_ends(t)
  <2>1. /\ task[t].at = "pass" /\ task' = [task EXCEPT ![t].at = "finish"]
        /\ \/ /\ local_only \/ \A j \in Submissions : ~S!Due(j, task[t].now)
              /\ disturbed' = disturbed
           \/ disturbed' = TRUE
        /\ UNCHANGED <<ticks, active, wake_requested, submissions, main, local_only, dropped>>
    BY <1>4 DEF S!run_once_ends, S!Move
  <2>2. /\ SchedulerTypeOK' /\ task'[t].at = "finish"
        /\ \A s \in Tasks \ {t} : task'[s] = task[s]
        /\ ~disturbed' => ~disturbed
    BY <1>a, <2>1 DEF SchedulerTypeOK, Passing
  <2>3. LatchIsOwned'
    BY <1>a, <2>1, <2>2 DEF LatchIsOwned, Passing
  <2>4. \A j \in Submissions :
          submissions[j].state = "queued" /\ ~disturbed' /\ ~dropped => Covered(j)'
    BY <1>a, <1>b, <2>1, <2>2 DEF Covered, S!Due, Passing
  <2> QED BY <1>a, <1>b, <2>1, <2>2, <2>3, <2>4 DEF SchedulerInv
<1>5. CASE S!finish_pass_store(t)
  <2>1. /\ task[t].at = "finish" /\ task' = [task EXCEPT ![t].at = "swap"] /\ active' = FALSE
        /\ UNCHANGED <<ticks, wake_requested, submissions, main, local_only, disturbed, dropped>>
    BY <1>5 DEF S!finish_pass_store, S!Move
  <2>2. /\ SchedulerTypeOK' /\ task'[t].at = "swap"
        /\ \A s \in Tasks \ {t} : task'[s] = task[s]
    BY <1>a, <2>1 DEF SchedulerTypeOK, Passing
  <2>3. LatchIsOwned'
    BY <1>a, <2>1, <2>2 DEF LatchIsOwned, Passing
  <2>4. \A j \in Submissions : Covered(j) => Covered(j)'
    BY <2>1, <2>2 DEF Covered, Passing
  <2> QED BY <1>a, <1>b, <2>1, <2>2, <2>3, <2>4 DEF SchedulerInv
<1>6. CASE S!finish_pass_swap(t)
  <2>1. /\ task[t].at = "swap" /\ wake_requested' = FALSE
        /\ task' = [task EXCEPT ![t] = IF wake_requested THEN [task[t] EXCEPT !.at = "exchange"]
                                       ELSE S!Free]
        /\ UNCHANGED <<ticks, active, submissions, main, local_only, disturbed, dropped>>
    BY <1>6 DEF S!finish_pass_swap
  <2>2. /\ SchedulerTypeOK'
        /\ \A s \in Tasks \ {t} : task'[s] = task[s]
        /\ task'[t].at = IF wake_requested THEN "exchange" ELSE "free"
    BY <1>a, <2>1 DEF SchedulerTypeOK, Passing, S!Free
  <2>3. LatchIsOwned'
    BY <1>a, <2>1, <2>2 DEF LatchIsOwned, Passing
  <2>4. \A j \in Submissions : Covered(j) => Covered(j)'
    BY <1>a, <2>1, <2>2 DEF Covered, Passing, SchedulerTypeOK
  <2> QED BY <1>a, <1>b, <2>1, <2>2, <2>3, <2>4 DEF SchedulerInv
<1>7. CASE S!finish_pass_exchange(t)
  <2>1. /\ task[t].at = "exchange" /\ dropped' = (dropped \/ active) /\ active' = TRUE
        /\ task' = [task EXCEPT ![t] = IF active THEN S!Free ELSE [task[t] EXCEPT !.at = "refresh"]]
        /\ UNCHANGED <<ticks, wake_requested, submissions, main, local_only, disturbed>>
    BY <1>7 DEF S!finish_pass_exchange
  <2>2. /\ SchedulerTypeOK'
        /\ \A s \in Tasks \ {t} : task'[s] = task[s]
        /\ task'[t].at = IF active THEN "free" ELSE "refresh"
    BY <1>a, <2>1 DEF SchedulerTypeOK, Passing, S!Free
  <2>3. LatchIsOwned'
    BY <1>a, <2>1, <2>2 DEF LatchIsOwned, Passing
  <2>4. \A j \in Submissions : ~dropped' => Covered(j)'
    BY <1>a, <2>1, <2>2 DEF Covered, SchedulerTypeOK
  <2> QED BY <1>a, <1>b, <2>1, <2>2, <2>3, <2>4 DEF SchedulerInv
<1>8. CASE S!refresh(t)
  <2>1. /\ task[t].at = "refresh" /\ task' = [task EXCEPT ![t] = [at |-> "begin", now |-> ticks]]
        /\ UNCHANGED <<ticks, active, wake_requested, submissions, main, local_only, disturbed,
                       dropped>>
    BY <1>8 DEF S!refresh
  <2>2. /\ SchedulerTypeOK' /\ task'[t].at = "begin" /\ task'[t].now = ticks
        /\ \A s \in Tasks \ {t} : task'[s] = task[s]
    BY <1>a, <2>1 DEF SchedulerTypeOK, Passing
  <2>3. LatchIsOwned'
    BY <1>a, <2>1, <2>2 DEF LatchIsOwned, Passing
  <2>4. \A j \in Submissions : submissions[j].state = "queued" => Covered(j)'
    BY <1>b, <2>1, <2>2 DEF Covered
  <2> QED BY <1>a, <1>b, <2>1, <2>2, <2>3, <2>4 DEF SchedulerInv
<1> QED BY <1>1, <1>2, <1>3, <1>4, <1>5, <1>6, <1>7, <1>8

\* However the triggers, the passes and the latch's flags interleave (TryOnSchedulerLatch,
\* TryOnScheduler::run), nothing that is due waits while nothing runs, outside the two
\* windows and the failures, and one pass runs at a time.
THEOREM SubmissionsAreRemembered == SpecBackground => []WakesAreRetained
<1>1. InitBackground => SchedulerInv
  BY SchedulerInit
<1>2. SchedulerInv /\ [NextBackground]_<<feature, queueVars, schedulerVars, photoVars, caseVars,
                                         listVars>> => SchedulerInv'
  <2> SUFFICES ASSUME SchedulerInv,
                      [NextBackground]_<<feature, queueVars, schedulerVars, photoVars, caseVars,
                                         listVars>>
               PROVE  SchedulerInv'
    OBVIOUS
  <2>1. CASE S!Next
    BY <2>1, SchedulerMain, SchedulerTask DEF S!Next
  <2>2. CASE UNCHANGED schedulerVars
    BY <2>2 DEF schedulerVars, SchedulerInv, SchedulerTypeOK, LatchIsOwned, Covered
  <2> QED BY <2>1, <2>2 DEF NextBackground
<1>3. SchedulerInv => WakesAreRetained
  <2> SUFFICES ASSUME SchedulerInv PROVE WakesAreRetained
    OBVIOUS
  <2>1. S!OnePassAtATime
    BY DEF SchedulerInv, LatchIsOwned, S!OnePassAtATime, S!InPass, Passing
  <2>2. S!WakesAreRetained
    BY DEF SchedulerInv, Covered, S!WakesAreRetained, S!Quiet, S!Due, S!Free, S!MainIdle, Passing
  <2> QED BY <2>1, <2>2 DEF WakesAreRetained
<1> QED BY <1>1, <1>2, <1>3, PTL DEF SpecBackground

-----------------------------------------------------------------------------
(* People and garments in photos                                           *)

Ended == {p \in members : tries[p].state \in P!Findings}
Crops == [of : Nat, by : {"nobody", "work", "user"}]
Sessions == [name : {"idle", "detect", "own", "analyze"}, photo : members \cup {P!NoPhoto}]

\* A detection command works on an attempt that runs, so its answer is the first to that
\* attempt; the run counts the attempts that ended.
DetectionInv ==
    /\ members \in {Members, Single}
    /\ detection \in [state : {"none", "pending", "running", "completed"}, completed : Int]
    /\ tries \in [members -> [generation : Nat, count : Nat,
                              state : P!Findings \cup {"none", "pending", "running"}]]
    /\ reviews \in [members -> P!Findings \cup {"none", "detecting"}]
    /\ session \in Sessions
    /\ detection.completed = Cardinality(Ended)
    /\ (detection.state = "completed") = (Ended = members)
    /\ detection.state = "none" => Ended = {}
    /\ \A p \in members : (reviews[p] \in {"none", "detecting"}) <=> p \notin Ended
    /\ session.name = "detect" /\ session.photo # P!NoPhoto => tries[session.photo].state = "running"

\* A decision that is not in force has no work left, and one that is still to come has none yet.
OwnerInv ==
    /\ heads \in [members -> [decision : Nat, selects : BOOLEAN]]
    /\ work \in [members -> [P!Decisions -> {"none", "pending", "running", "stale", "terminal"}]]
    /\ observations \in [members -> SUBSET Nat]
    /\ \A p \in members : heads[p].selects => heads[p].decision \in P!Decisions
    /\ \A p \in members, d \in P!Decisions :
         /\ work[p][d] # "none" => d <= heads[p].decision
         /\ work[p][d] \in {"pending", "running"} => heads[p].decision = d /\ heads[p].selects
         /\ work[p][d] = "terminal" <=> d \in observations[p]

\* Only what was observed is reviewed.
CropInv ==
    /\ newest \in [members -> Crops]
    /\ photo_revision \in Nat
    /\ verdicts \in [members -> [0..MaxDecisions ->
         [state : {"needs_review", "confirmed", "replaced", "excluded"}, crop : Crops, revision : Nat]]]
    /\ cases \subseteq [pin : [photo : members, owner : Nat, crop : Crops, review : Nat],
                        decided : BOOLEAN]
    /\ \A p \in members, o \in 0..MaxDecisions :
         verdicts[p][o].state # "needs_review" => o \in observations[p]
    /\ \A c \in cases : c.decided =>
         /\ c.pin.crop.of = c.pin.owner
         /\ c.pin.owner \in P!Decisions /\ work[c.pin.photo][c.pin.owner] = "terminal"

PhotosInv == DetectionInv /\ OwnerInv /\ CropInv

LEMMA PhotoSizes == ASSUME NEW U PROVE P!Cardinality(U) = Cardinality(U)
  BY DEF Cardinality, P!Cardinality

LEMMA MembersAreFinite ==
    ASSUME members \in {Members, Single}
    PROVE  /\ members # {} /\ P!NoPhoto \notin members
           /\ IsFiniteSet(members) /\ IsFiniteSet(Ended)
<1>1. IsFiniteSet(members) /\ members # {} /\ P!NoPhoto \notin members
  BY ScopesAssumption
<1>2. Ended \subseteq members
  BY DEF Ended
<1> QED BY <1>1, <1>2, FS_Subset

LEMMA FindingsEnd ==
    /\ "none" \notin P!Findings /\ "pending" \notin P!Findings /\ "running" \notin P!Findings
    /\ "detecting" \notin P!Findings
    /\ P!Failures \subseteq P!Findings /\ "instances_available" \in P!Findings
  BY DEF P!Findings, P!Failures

LEMMA PhotosInit == InitBackground => PhotosInv
<1> SUFFICES ASSUME InitBackground PROVE PhotosInv
  OBVIOUS
<1>1. P!Init
  BY DEF InitBackground
<1> USE DEF P!Init
<1>2. Ended = {}
  BY <1>1, FindingsEnd DEF Ended
<1>3. members \in {Members, Single}
  BY <1>1
<1>4. DetectionInv
  <2>1. Cardinality(Ended) = 0
    BY <1>2, FS_EmptySet
  <2>2. session \in Sessions
    BY <1>1 DEF Sessions
  <2> QED BY <1>1, <1>2, <1>3, <2>1, <2>2, MembersAreFinite DEF DetectionInv
<1>5. OwnerInv
  BY <1>1 DEF OwnerInv, P!Decisions
<1>6. CropInv
  <2>1. P!NoVerdict \in [state : {"needs_review", "confirmed", "replaced", "excluded"}, crop : Crops, revision : Nat]
        /\ P!NoVerdict.state = "needs_review" /\ P!NoCrop \in Crops
    BY DEF P!NoVerdict, P!NoCrop, P!Crop, Crops
  <2> QED BY <1>1, <2>1 DEF CropInv
<1> QED BY <1>4, <1>5, <1>6 DEF PhotosInv

-----------------------------------------------------------------------------
(* Detection                                                               *)

\* A step that changes neither the run nor an attempt, and claims none.
LEMMA DetectionQuiet ==
    ASSUME DetectionInv, UNCHANGED <<members, detection, tries, reviews>>, session' \in Sessions,
           session' = session \/ session'.name # "detect" \/ session'.photo = P!NoPhoto
    PROVE  DetectionInv'
<1>1. Ended' = Ended /\ Sessions' = Sessions
  BY DEF Ended, Sessions
<1> QED BY <1>1 DEF DetectionInv

LEMMA DetectionStep == DetectionInv /\ P!Next => DetectionInv'
<1> SUFFICES ASSUME DetectionInv, P!Next PROVE DetectionInv'
  OBVIOUS
<1> USE FindingsEnd
<1>1. members' = members /\ members \in {Members, Single}
  BY DEF P!Next, DetectionInv
<1>2. /\ members # {} /\ P!NoPhoto \notin members /\ IsFiniteSet(members) /\ IsFiniteSet(Ended)
      /\ Ended \subseteq members
  BY <1>1, MembersAreFinite DEF Ended
<1>3. Sessions' = Sessions /\ \A n \in {"idle", "detect", "own", "analyze"}, q \in members \cup {P!NoPhoto} :
        [name |-> n, photo |-> q] \in Sessions
  BY <1>1 DEF Sessions
<1>4. ASSUME NEW p \in members, NEW t, tries' = [tries EXCEPT ![p] = t],
             t \in [generation : Nat, count : Nat, state : P!Findings \cup {"none", "pending", "running"}]
      PROVE  /\ tries' \in [members -> [generation : Nat, count : Nat,
                                         state : P!Findings \cup {"none", "pending", "running"}]]
             /\ tries'[p] = t
             /\ t.state \in P!Findings => Ended' = Ended \cup {p}
             /\ t.state \notin P!Findings => Ended' = Ended \ {p}
  BY <1>1, <1>4 DEF DetectionInv, Ended
<1>f. ASSUME NEW p \in members, NEW x
      PROVE  [tries EXCEPT ![p].state = x] =
               [tries EXCEPT ![p] = [generation |-> tries[p].generation, state |-> x,
                                     count |-> tries[p].count]]
  <2>1. tries[p] \in [generation : Nat, count : Nat, state : P!Findings \cup {"none", "pending", "running"}]
    BY DEF DetectionInv
  <2>2. ASSUME NEW r \in [generation : Nat, count : Nat,
                          state : P!Findings \cup {"none", "pending", "running"}]
        PROVE  [r EXCEPT !.state = x] = [generation |-> r.generation, state |-> x, count |-> r.count]
    OBVIOUS
  <2> QED BY <2>1, <2>2
<1>g. detection.completed = Cardinality(Ended) /\ detection.completed \in Int
  BY DEF DetectionInv
<1>5. CASE P!prepare_person_detection_run
  <2>1. session' = [name |-> "detect", photo |-> P!NoPhoto] /\ reviews' = reviews
    BY <1>5 DEF P!prepare_person_detection_run, P!Begin
  <2>2. session' \in Sessions /\ session'.photo = P!NoPhoto
    BY <1>3, <2>1
  <2>3. CASE detection.state = "none"
    <3>1. detection' = [state |-> "pending", completed |-> 0]
      BY <1>5, <2>3 DEF P!prepare_person_detection_run
    <3>2. tries' = [p \in members |-> [generation |-> 1, state |-> "pending", count |-> 0]]
      BY <1>5, <2>3 DEF P!prepare_person_detection_run, P!first_attempts
    <3>3. Ended' = {} /\ Ended = {}
      BY <1>1, <2>3, <3>2 DEF Ended, DetectionInv
    <3>4. Cardinality(Ended') = 0
      BY <3>3, FS_EmptySet
    <3> QED BY <1>1, <1>2, <1>3, <2>1, <2>2, <3>1, <3>2, <3>3, <3>4 DEF DetectionInv
  <2>4. CASE detection.state # "none"
    <3>1. UNCHANGED <<detection, tries>>
      BY <1>5, <2>4 DEF P!prepare_person_detection_run
    <3> QED BY <1>1, <2>1, <2>2, <3>1, DetectionQuiet
  <2> QED BY <2>3, <2>4
<1>6. ASSUME NEW p \in members, P!claim_person_detection_work(p) PROVE DetectionInv'
  <2> DEFINE n == IF tries[p].count < P!DETECTION_ATTEMPT_LIMIT THEN tries[p].count + 1 ELSE tries[p].count
             t == [generation |-> tries[p].generation, state |-> "running", count |-> n]
  <2>1. tries[p].state \in {"pending", "running"} /\ reviews' = reviews
        /\ session' = [name |-> "detect", photo |-> p]
    BY <1>6 DEF P!claim_person_detection_work, P!Begin
  <2>2. tries' = [tries EXCEPT ![p] = t]
    <3> DEFINE a == [generation |-> tries[p].generation, state |-> "running", count |-> tries[p].count]
    <3>1. [tries EXCEPT ![p].state = "running"] = [tries EXCEPT ![p] = a]
      BY <1>f
    <3>2. tries' = [[tries EXCEPT ![p] = a] EXCEPT
                      ![p].count = IF @ < P!DETECTION_ATTEMPT_LIMIT THEN @ + 1 ELSE @]
      BY <1>6, <3>1 DEF P!claim_person_detection_work
    <3>3. [a EXCEPT !.count = n] = t /\ a.count = tries[p].count
      OBVIOUS
    <3>4. [tries EXCEPT ![p] = a][p] = a
      BY DEF DetectionInv
    <3> HIDE DEF a, t
    <3> QED BY <3>2, <3>3, <3>4
  <2>3. t \in [generation : Nat, count : Nat, state : P!Findings \cup {"none", "pending", "running"}]
        /\ t.state = "running"
    BY DEF DetectionInv
  <2>4. p \notin Ended
    BY <2>1 DEF Ended
  <2> HIDE DEF t
  <2>5. Ended' = Ended /\ tries'[p].state = "running"
    <3>a. t.state \notin P!Findings
      BY <2>3
    <3>1. Ended' = Ended \ {p} /\ tries'[p] = t
      BY <1>4, <2>2, <2>3, <3>a
    <3> QED BY <2>3, <2>4, <3>1
  <2>6. detection.state # "completed" /\ detection' = [state |-> "running", completed |-> detection.completed]
    BY <1>6, <2>4 DEF P!claim_person_detection_work, DetectionInv
  <2>7. session' \in Sessions /\ session'.photo = p
    BY <1>3, <2>1
  <2>8. /\ tries' \in [members -> [generation : Nat, count : Nat,
                                    state : P!Findings \cup {"none", "pending", "running"}]]
    BY <1>4, <2>2, <2>3
  <2> QED BY <1>1, <1>3, <2>1, <2>5, <2>6, <2>7, <2>8 DEF DetectionInv
<1>7. ASSUME NEW p \in members, NEW finding \in P!Findings, P!publish_person_detection(p, finding)
      PROVE  DetectionInv'
  <2> DEFINE t == [generation |-> tries[p].generation, state |-> finding, count |-> tries[p].count]
             c == detection.completed + 1
  <2>1. /\ session.name = "detect" /\ session.photo = p
        /\ session' = [name |-> "detect", photo |-> P!NoPhoto]
    BY <1>7 DEF P!publish_person_detection, P!Begin
  <2>2. tries' = [tries EXCEPT ![p] = t]
    <3>1. tries' = [tries EXCEPT ![p].state = finding]
      BY <1>7 DEF P!publish_person_detection
    <3> QED BY <1>f, <3>1
  <2>3. t \in [generation : Nat, count : Nat, state : P!Findings \cup {"none", "pending", "running"}]
        /\ t.state = finding
    BY DEF DetectionInv
  <2>4. p \notin Ended
    BY <1>2, <2>1 DEF Ended, DetectionInv
  <2> HIDE DEF t
  <2>5. Ended' = Ended \cup {p}
    BY <1>4, <2>2, <2>3
  <2>6. /\ Cardinality(Ended') = c
        /\ (c = Cardinality(members)) <=> (Ended' = members)
    <3>1. Cardinality(Ended') = c
      BY <1>2, <1>g, <2>4, <2>5, FS_AddElement
    <3>2. Ended' \subseteq members
      BY <1>2, <2>5
    <3>3. Cardinality(Ended') = Cardinality(members) => Ended' = members
      BY <1>2, <3>2, FS_Subset
    <3> QED BY <3>1, <3>3
  <2>7. detection' = [state |-> IF c = Cardinality(members) THEN "completed" ELSE "running", completed |-> c]
    BY <1>7, PhotoSizes DEF P!publish_person_detection, P!run_with, P!counted
  <2>8. reviews' = [reviews EXCEPT ![p] = finding]
    BY <1>7 DEF P!publish_person_detection, P!published_review
  <2>9. session' \in Sessions /\ session'.photo = P!NoPhoto
    BY <1>3, <2>1
  <2>10. /\ tries' \in [members -> [generation : Nat, count : Nat,
                                    state : P!Findings \cup {"none", "pending", "running"}]]
    BY <1>4, <2>2, <2>3
  <2>11. c \in Int
    BY DEF DetectionInv
  <2> HIDE DEF c
  <2>12. /\ detection' \in [state : {"none", "pending", "running", "completed"}, completed : Int]
         /\ detection'.completed = c /\ detection'.state # "none"
         /\ (detection'.state = "completed") = (c = Cardinality(members))
    BY <2>7, <2>11
  <2>13. /\ reviews' \in [members -> P!Findings \cup {"none", "detecting"}]
         /\ \A q \in members : (reviews'[q] \in {"none", "detecting"}) <=> q \notin Ended'
    BY <2>5, <2>8 DEF DetectionInv
  <2> QED BY <1>1, <1>3, <2>6, <2>9, <2>10, <2>12, <2>13 DEF DetectionInv
<1>8. ASSUME NEW p \in members, P!retry_photo_person_detection(p) PROVE DetectionInv'
  <2> DEFINE t == [generation |-> tries[p].generation + 1, state |-> "pending", count |-> 0]
  <2>1. reviews[p] \in P!Failures /\ session.name = "idle" /\ session' = session
    BY <1>8 DEF P!retry_photo_person_detection, P!Accept, P!Idle
  <2>2. tries' = [tries EXCEPT ![p] = t] /\ reviews' = [reviews EXCEPT ![p] = "detecting"]
        /\ detection' = [state |-> "running", completed |-> detection.completed - 1]
    BY <1>8 DEF P!retry_photo_person_detection, P!next_generation, P!uncounted
  <2>3. t \in [generation : Nat, count : Nat, state : P!Findings \cup {"none", "pending", "running"}]
        /\ t.state = "pending"
    BY DEF DetectionInv
  <2>4. p \in Ended
    <3>1. reviews[p] \notin {"none", "detecting"}
      BY <2>1
    <3> QED BY <3>1 DEF DetectionInv
  <2> HIDE DEF t
  <2>5. Ended' = Ended \ {p}
    <3>1. t.state \notin P!Findings
      BY <2>3
    <3> QED BY <1>4, <2>2, <2>3, <3>1
  <2>6. Cardinality(Ended') = detection.completed - 1
    BY <1>2, <1>g, <2>4, <2>5, FS_RemoveElement
  <2>7. Ended' # members
    BY <2>5
  <2>8. /\ tries' \in [members -> [generation : Nat, count : Nat,
                                    state : P!Findings \cup {"none", "pending", "running"}]]
    BY <1>4, <2>2, <2>3
  <2>9. /\ reviews' \in [members -> P!Findings \cup {"none", "detecting"}]
        /\ \A q \in members : (reviews'[q] \in {"none", "detecting"}) <=> q \notin Ended'
    BY <2>2, <2>5 DEF DetectionInv
  <2>10. /\ detection' \in [state : {"none", "pending", "running", "completed"}, completed : Int]
         /\ detection'.completed = detection.completed - 1 /\ detection'.state = "running"
    BY <2>2 DEF DetectionInv
  <2> QED BY <1>1, <1>3, <2>1, <2>6, <2>7, <2>8, <2>9, <2>10 DEF DetectionInv
<1>9. ASSUME NEW p \in members, P!correct_photo_person_detection(p) PROVE DetectionInv'
  <2>1. /\ reviews[p] \in P!Findings /\ UNCHANGED <<detection, tries, session>>
        /\ reviews' = [reviews EXCEPT ![p] = "instances_available"]
    BY <1>9 DEF P!correct_photo_person_detection, P!drawn_review
  <2>2. Ended' = Ended
    BY <1>1, <2>1 DEF Ended
  <2>3. /\ reviews' \in [members -> P!Findings \cup {"none", "detecting"}]
        /\ \A q \in members : (reviews'[q] \in {"none", "detecting"}) <=> q \notin Ended'
    BY <2>1, <2>2 DEF DetectionInv
  <2> QED BY <1>1, <1>3, <2>1, <2>2, <2>3 DEF DetectionInv
<1>10. ASSUME UNCHANGED P!peopleVars,
              \/ session' = session
              \/ \E n \in {"idle", "own", "analyze"}, q \in members \cup {P!NoPhoto} :
                   session' = [name |-> n, photo |-> q]
       PROVE  DetectionInv'
  <2>1. UNCHANGED <<detection, tries, reviews>>
    BY <1>10 DEF P!peopleVars
  <2>2. session \in Sessions
    BY DEF DetectionInv
  <2>3. session' \in Sessions /\ (session' = session \/ session'.name # "detect")
    BY <1>3, <1>10, <2>2
  <2> QED BY <1>1, <2>1, <2>3, DetectionQuiet
<1>11. CASE \/ P!prepare_analysis_run \/ P!finish_analysis_run \/ P!Stop
            \/ \E c \in cases : P!decide_reconciliation_case(c)
  BY <1>10, <1>11 DEF P!prepare_analysis_run, P!finish_analysis_run, P!Stop,
       P!decide_reconciliation_case, P!Begin
<1>12. ASSUME NEW p \in members,
              \/ \E selects \in BOOLEAN : P!write_owner_decision(p, selects)
              \/ P!claim_owner_work(p) \/ P!publish_owner_work(p) \/ P!claim_analysis_member(p)
              \/ P!finalize_analysis_member(p)
              \/ \E version \in {1, 2} : P!open_reconciliation_case(p, version)
              \/ \E o \in 0..MaxDecisions :
                   \/ P!prompt_photo_observation(p, o)
                   \/ \E verdict \in {"confirmed", "replaced", "excluded"} :
                        P!review_photo_observation(p, o, verdict)
       PROVE  DetectionInv'
  <2>1. UNCHANGED P!peopleVars
    BY <1>12 DEF P!write_owner_decision, P!claim_owner_work, P!publish_owner_work,
         P!claim_analysis_member, P!finalize_analysis_member, P!open_reconciliation_case,
         P!prompt_photo_observation, P!review_photo_observation
  <2>2. \/ session' = session
        \/ \E n \in {"idle", "own", "analyze"}, q \in members \cup {P!NoPhoto} :
             session' = [name |-> n, photo |-> q]
    BY <1>12 DEF P!write_owner_decision, P!claim_owner_work, P!publish_owner_work,
         P!claim_analysis_member, P!finalize_analysis_member, P!open_reconciliation_case,
         P!prompt_photo_observation, P!review_photo_observation, P!Begin
  <2> QED BY <1>10, <2>1, <2>2
<1> QED BY <1>5, <1>6, <1>7, <1>8, <1>9, <1>11, <1>12 DEF P!Next

-----------------------------------------------------------------------------
(* The owner and the crops                                                 *)

WorkStates == {"none", "pending", "running", "stale", "terminal"}

\* What a step may make of the work, the decision and the observations of a photo.
OwnerSets(p, f, h, o) ==
    /\ f \in [P!Decisions -> WorkStates] /\ h \in [decision : Nat, selects : BOOLEAN]
    /\ o \in SUBSET Nat /\ observations[p] \subseteq o
    /\ work' = [work EXCEPT ![p] = f] /\ heads' = [heads EXCEPT ![p] = h]
    /\ observations' = [observations EXCEPT ![p] = o]
    /\ h.selects => h.decision \in P!Decisions
    /\ \A d \in P!Decisions :
         /\ f[d] # "none" => d <= h.decision
         /\ f[d] \in {"pending", "running"} => h.decision = d /\ h.selects
         /\ f[d] = "terminal" <=> d \in o

LEMMA OwnerStep ==
    DetectionInv /\ OwnerInv /\ P!Next =>
        /\ OwnerInv'
        /\ \A p \in members : observations[p] \subseteq observations'[p]
<1> SUFFICES ASSUME DetectionInv, OwnerInv, P!Next
             PROVE  OwnerInv' /\ \A p \in members : observations[p] \subseteq observations'[p]
  OBVIOUS
<1>1. members' = members
  BY DEF P!Next
<1>2. ASSUME UNCHANGED P!ownerVars, UNCHANGED observations
      PROVE  OwnerInv' /\ \A p \in members : observations[p] \subseteq observations'[p]
  <2>1. UNCHANGED <<heads, work>>
    BY <1>2 DEF P!ownerVars
  <2> QED BY <1>1, <1>2, <2>1 DEF OwnerInv
<1>3. ASSUME NEW p \in members, NEW f, NEW h, NEW o, OwnerSets(p, f, h, o)
      PROVE  OwnerInv' /\ \A q \in members : observations[q] \subseteq observations'[q]
  <2>1. /\ work' \in [members -> [P!Decisions -> WorkStates]] /\ work'[p] = f
        /\ \A q \in members \ {p} : work'[q] = work[q]
    BY <1>3 DEF OwnerInv, OwnerSets, WorkStates
  <2>2. /\ heads' \in [members -> [decision : Nat, selects : BOOLEAN]] /\ heads'[p] = h
        /\ \A q \in members \ {p} : heads'[q] = heads[q]
    BY <1>3 DEF OwnerInv, OwnerSets
  <2>3. /\ observations' \in [members -> SUBSET Nat] /\ observations'[p] = o
        /\ \A q \in members \ {p} : observations'[q] = observations[q]
    BY <1>3 DEF OwnerInv, OwnerSets
  <2>4. \A q \in members : heads'[q].selects => heads'[q].decision \in P!Decisions
    BY <1>3, <2>2 DEF OwnerInv, OwnerSets
  <2>5. ASSUME NEW q \in members, NEW d \in P!Decisions
        PROVE  /\ work'[q][d] # "none" => d <= heads'[q].decision
               /\ work'[q][d] \in {"pending", "running"} => heads'[q].decision = d /\ heads'[q].selects
               /\ work'[q][d] = "terminal" <=> d \in observations'[q]
    <3>1. CASE q = p
      BY <1>3, <2>1, <2>2, <2>3, <3>1 DEF OwnerSets
    <3>2. CASE q # p
      BY <2>1, <2>2, <2>3, <3>2 DEF OwnerInv
    <3> QED BY <3>1, <3>2
  <2>6. \A q \in members : observations[q] \subseteq observations'[q]
    BY <1>3, <2>3 DEF OwnerSets
  <2>7. P!Decisions' = P!Decisions
    BY DEF P!Decisions
  <2> QED BY <1>1, <2>1, <2>2, <2>3, <2>4, <2>5, <2>6, <2>7 DEF OwnerInv, WorkStates
<1>4. \A q \in members : heads = [heads EXCEPT ![q] = heads[q]] /\ work = [work EXCEPT ![q] = work[q]]
        /\ observations = [observations EXCEPT ![q] = observations[q]]
  BY DEF OwnerInv
<1>5. \A d \in P!Decisions : d \in Nat /\ d # 0
  BY DEF P!Decisions
<1>6. ASSUME NEW p \in members
      PROVE  /\ heads[p] \in [decision : Nat, selects : BOOLEAN]
             /\ work[p] \in [P!Decisions -> WorkStates] /\ observations[p] \in SUBSET Nat
  BY DEF OwnerInv, WorkStates
<1>7. ASSUME NEW p \in members, NEW selects \in BOOLEAN, P!write_owner_decision(p, selects)
      PROVE  OwnerInv' /\ \A q \in members : observations[q] \subseteq observations'[q]
  <2> DEFINE d == heads[p].decision + 1
             f == P!owner_work(p, d, selects)
             h == [decision |-> d, selects |-> selects]
  <2>1. /\ d \in P!Decisions /\ heads' = [heads EXCEPT ![p] = h]
        /\ work' = [work EXCEPT ![p] = f] /\ observations' = observations
    BY <1>7 DEF P!write_owner_decision, P!cropVars
  <2>2. /\ f \in [P!Decisions -> WorkStates]
        /\ \A e \in P!Decisions :
              f[e] = IF e = d /\ selects THEN "pending"
                     ELSE IF e = heads[p].decision /\ work[p][e] \in {"pending", "running"}
                     THEN "stale" ELSE work[p][e]
    BY <1>6, <2>1 DEF P!owner_work, P!superseded, WorkStates
  <2>3. h \in [decision : Nat, selects : BOOLEAN] /\ h.decision = d /\ h.selects = selects
    BY <1>6
  <2> HIDE DEF f, h
  <2>4. ASSUME NEW e \in P!Decisions
        PROVE  /\ f[e] # "none" => e <= h.decision
               /\ f[e] \in {"pending", "running"} => h.decision = e /\ h.selects
               /\ f[e] = "terminal" <=> e \in observations[p]
    <3>1. heads[p].decision \in Nat /\ work[p][d] = "none" /\ e \in Nat
      BY <1>5, <1>6, <2>1 DEF OwnerInv
    <3>2. CASE e = d
      BY <2>2, <2>3, <3>1, <3>2 DEF OwnerInv
    <3>3. CASE e # d
      BY <2>2, <2>3, <3>1, <3>3 DEF OwnerInv
    <3> QED BY <3>2, <3>3
  <2>5. /\ observations' = [observations EXCEPT ![p] = observations[p]]
        /\ observations[p] \in SUBSET Nat /\ observations[p] \subseteq observations[p]
        /\ h.selects => h.decision \in P!Decisions
    BY <1>4, <1>6, <2>1, <2>3
  <2>6. OwnerSets(p, f, h, observations[p])
    BY <2>1, <2>2, <2>3, <2>4, <2>5 DEF OwnerSets
  <2> QED BY <1>3, <2>6
<1>8. ASSUME NEW p \in members, P!claim_owner_work(p)
      PROVE  OwnerInv' /\ \A q \in members : observations[q] \subseteq observations'[q]
  <2> DEFINE d == heads[p].decision
             f == [work[p] EXCEPT ![d] = "running"]
  <2>1. /\ work[p][d] = "pending" /\ work' = [work EXCEPT ![p] = f]
        /\ heads' = heads /\ observations' = observations
    BY <1>8 DEF P!claim_owner_work, P!cropVars
  <2>2. f \in [P!Decisions -> WorkStates]
    BY <1>6 DEF WorkStates
  <2>3. \A e \in P!Decisions : f[e] = work[p][e] \/ (e = d /\ f[e] = "running" /\ work[p][e] = "pending")
    BY <1>6, <2>1
  <2> HIDE DEF f
  <2>4. \A e \in P!Decisions :
          /\ f[e] # "none" => e <= heads[p].decision
          /\ f[e] \in {"pending", "running"} => heads[p].decision = e /\ heads[p].selects
          /\ f[e] = "terminal" <=> e \in observations[p]
    BY <2>3 DEF OwnerInv
  <2>5. /\ observations' = [observations EXCEPT ![p] = observations[p]]
        /\ observations[p] \in SUBSET Nat /\ observations[p] \subseteq observations[p]
        /\ heads' = [heads EXCEPT ![p] = heads[p]] /\ heads[p] \in [decision : Nat, selects : BOOLEAN]
        /\ heads[p].selects => heads[p].decision \in P!Decisions
    BY <1>4, <1>6, <2>1 DEF OwnerInv
  <2>6. OwnerSets(p, f, heads[p], observations[p])
    BY <2>1, <2>2, <2>4, <2>5 DEF OwnerSets
  <2> QED BY <1>3, <2>6
<1>9. ASSUME NEW p \in members, P!publish_owner_work(p)
      PROVE  OwnerInv' /\ \A q \in members : observations[q] \subseteq observations'[q]
  <2> DEFINE d == heads[p].decision
             f == [work[p] EXCEPT ![d] = "terminal"]
             o == observations[p] \cup {d}
  <2>1. /\ work[p][d] = "running" /\ heads[p].selects /\ work' = [work EXCEPT ![p] = f]
        /\ heads' = heads /\ observations' = [observations EXCEPT ![p] = o]
    BY <1>9 DEF P!publish_owner_work, P!valid_claim, P!insert_owner_observation, P!owner_work_ends
  <2>2. d \in P!Decisions /\ d \in Nat
    BY <1>5, <2>1 DEF OwnerInv
  <2>3. f \in [P!Decisions -> WorkStates]
    BY <1>6 DEF WorkStates
  <2>4. \A e \in P!Decisions : f[e] = IF e = d THEN "terminal" ELSE work[p][e]
    BY <1>6
  <2> HIDE DEF f
  <2>5. \A e \in P!Decisions :
          /\ f[e] # "none" => e <= heads[p].decision
          /\ f[e] \in {"pending", "running"} => heads[p].decision = e /\ heads[p].selects
          /\ f[e] = "terminal" <=> e \in o
    BY <1>5, <2>2, <2>4 DEF OwnerInv
  <2>6. o \in SUBSET Nat /\ observations[p] \subseteq o
    BY <1>6, <2>2
  <2>7. /\ heads' = [heads EXCEPT ![p] = heads[p]] /\ heads[p] \in [decision : Nat, selects : BOOLEAN]
        /\ heads[p].selects => heads[p].decision \in P!Decisions
    BY <1>4, <1>6, <2>1, <2>2
  <2> HIDE DEF o
  <2>8. OwnerSets(p, f, heads[p], o)
    BY <2>1, <2>3, <2>5, <2>6, <2>7 DEF OwnerSets
  <2> QED BY <1>3, <2>8
<1>10. ASSUME NEW p \in members, P!finalize_analysis_member(p)
       PROVE  OwnerInv' /\ \A q \in members : observations[q] \subseteq observations'[q]
  <2> DEFINE o == observations[p] \cup {0}
  <2>1. /\ UNCHANGED <<work, heads>> /\ observations' = [observations EXCEPT ![p] = o]
    BY <1>10 DEF P!finalize_analysis_member, P!ownerVars
  <2>2. o \in SUBSET Nat /\ observations[p] \subseteq o
        /\ \A d \in P!Decisions : d \in o <=> d \in observations[p]
    BY <1>5, <1>6
  <2> HIDE DEF o
  <2>3. \A e \in P!Decisions :
          /\ work[p][e] # "none" => e <= heads[p].decision
          /\ work[p][e] \in {"pending", "running"} => heads[p].decision = e /\ heads[p].selects
          /\ work[p][e] = "terminal" <=> e \in o
    BY <2>2 DEF OwnerInv
  <2>4. heads[p].selects => heads[p].decision \in P!Decisions
    BY DEF OwnerInv
  <2>5. /\ heads' = [heads EXCEPT ![p] = heads[p]] /\ heads[p] \in [decision : Nat, selects : BOOLEAN]
        /\ work' = [work EXCEPT ![p] = work[p]] /\ work[p] \in [P!Decisions -> WorkStates]
    BY <1>4, <1>6, <2>1
  <2>6. OwnerSets(p, work[p], heads[p], o)
    BY <2>1, <2>2, <2>3, <2>4, <2>5 DEF OwnerSets
  <2> QED BY <1>3, <2>6
<1>11. CASE \/ P!prepare_person_detection_run \/ P!prepare_analysis_run \/ P!finish_analysis_run
            \/ P!Stop \/ \E c \in cases : P!decide_reconciliation_case(c)
  BY <1>2, <1>11 DEF P!prepare_analysis_run, P!finish_analysis_run, P!Stop,
       P!decide_reconciliation_case, P!prepare_person_detection_run, P!cropVars
<1>12. ASSUME NEW p \in members,
              \/ P!claim_person_detection_work(p)
              \/ \E finding \in P!Findings : P!publish_person_detection(p, finding)
              \/ P!retry_photo_person_detection(p) \/ P!correct_photo_person_detection(p)
              \/ P!claim_analysis_member(p)
              \/ \E version \in {1, 2} : P!open_reconciliation_case(p, version)
              \/ \E o \in 0..MaxDecisions :
                   \/ P!prompt_photo_observation(p, o)
                   \/ \E verdict \in {"confirmed", "replaced", "excluded"} :
                        P!review_photo_observation(p, o, verdict)
       PROVE  OwnerInv' /\ \A q \in members : observations[q] \subseteq observations'[q]
  <2>1. UNCHANGED P!ownerVars /\ UNCHANGED observations
    BY <1>12 DEF P!claim_person_detection_work, P!publish_person_detection,
         P!retry_photo_person_detection, P!correct_photo_person_detection,
         P!claim_analysis_member, P!open_reconciliation_case,
         P!prompt_photo_observation, P!review_photo_observation, P!cropVars
  <2> QED BY <1>2, <2>1
<1> QED BY <1>7, <1>8, <1>9, <1>10, <1>11, <1>12 DEF P!Next

Verdicts ==
    [state : {"needs_review", "confirmed", "replaced", "excluded"}, crop : Crops, revision : Nat]
Pins == [photo : members, owner : Nat, crop : Crops, review : Nat]

LEMMA CropStep == PhotosInv /\ OwnerInv' /\ P!Next => CropInv'
<1> SUFFICES ASSUME DetectionInv, OwnerInv, CropInv, OwnerInv', P!Next PROVE CropInv'
  BY DEF PhotosInv
<1>1. /\ members' = members /\ \A p \in members : observations[p] \subseteq observations'[p]
  BY OwnerStep DEF P!Next
<1>2. /\ newest \in [members -> Crops] /\ photo_revision \in Nat
      /\ verdicts \in [members -> [0..MaxDecisions -> Verdicts]]
      /\ cases \subseteq [pin : Pins, decided : BOOLEAN]
  BY DEF CropInv, Verdicts, Pins
<1>3. ASSUME NEW p \in members, NEW d \in P!Decisions, work[p][d] = "terminal"
      PROVE  work'[p][d] = "terminal"
  <2>1. d \in observations'[p]
    BY <1>1, <1>3 DEF OwnerInv
  <2>2. P!Decisions' = P!Decisions
    BY DEF P!Decisions
  <2> QED BY <1>1, <2>1, <2>2 DEF OwnerInv
<1>4. \A c \in cases : c.decided =>
        /\ c.pin.crop.of = c.pin.owner
        /\ c.pin.owner \in P!Decisions /\ work'[c.pin.photo][c.pin.owner] = "terminal"
  <2> SUFFICES ASSUME NEW c \in cases, c.decided
               PROVE  /\ c.pin.crop.of = c.pin.owner
                      /\ c.pin.owner \in P!Decisions /\ work'[c.pin.photo][c.pin.owner] = "terminal"
    OBVIOUS
  <2>1. c.pin.photo \in members
    BY <1>2 DEF Pins
  <2>2. /\ c.pin.crop.of = c.pin.owner
        /\ c.pin.owner \in P!Decisions /\ work[c.pin.photo][c.pin.owner] = "terminal"
    BY DEF CropInv
  <2> QED BY <1>3, <2>1, <2>2
<1>5. ASSUME NEW p \in members, NEW o \in 0..MaxDecisions, verdicts[p][o].state # "needs_review"
      PROVE  o \in observations'[p]
  BY <1>1, <1>5 DEF CropInv
<1>6. P!Decisions' = P!Decisions
  BY DEF P!Decisions
\* A step that touches neither verdicts nor cases.
<1>7. ASSUME newest' \in [members -> Crops], photo_revision' \in Nat, UNCHANGED <<verdicts, cases>>
      PROVE  CropInv'
  BY <1>1, <1>2, <1>4, <1>5, <1>6, <1>7 DEF CropInv, Verdicts, Pins
<1>8. ASSUME NEW q \in members, NEW x \in Crops, newest' = [newest EXCEPT ![q] = x]
      PROVE  newest' \in [members -> Crops]
  BY <1>2, <1>8
<1>9. ASSUME NEW o \in Nat, NEW by \in {"work", "user"} PROVE P!Crop(o, by) \in Crops
  BY DEF P!Crop, Crops
<1>10. ASSUME UNCHANGED <<newest, verdicts, cases>>, photo_revision' \in Nat PROVE CropInv'
  BY <1>2, <1>7, <1>10
<1>11. CASE \/ P!prepare_person_detection_run \/ P!prepare_analysis_run \/ P!finish_analysis_run \/ P!Stop
  BY <1>2, <1>10, <1>11 DEF P!prepare_person_detection_run, P!prepare_analysis_run,
       P!finish_analysis_run, P!Stop, P!cropVars
<1>12. ASSUME NEW p \in members,
              \/ P!claim_person_detection_work(p)
              \/ \E finding \in P!Findings : P!publish_person_detection(p, finding)
              \/ P!retry_photo_person_detection(p) \/ P!correct_photo_person_detection(p)
              \/ \E selects \in BOOLEAN : P!write_owner_decision(p, selects)
              \/ P!claim_owner_work(p) \/ P!claim_analysis_member(p)
       PROVE  CropInv'
  <2>1. UNCHANGED P!cropVars
    BY <1>12 DEF P!claim_person_detection_work, P!publish_person_detection,
         P!retry_photo_person_detection, P!correct_photo_person_detection,
         P!claim_analysis_member, P!write_owner_decision, P!claim_owner_work
  <2>2. photo_revision' \in {photo_revision, photo_revision + 1}
    BY <1>12 DEF P!claim_person_detection_work, P!publish_person_detection,
         P!retry_photo_person_detection, P!correct_photo_person_detection,
         P!claim_analysis_member, P!write_owner_decision, P!claim_owner_work, P!Accept
  <2> QED BY <1>2, <1>10, <2>1, <2>2 DEF P!cropVars
<1>13. ASSUME NEW p \in members, P!publish_owner_work(p) PROVE CropInv'
  <2>1. heads[p].decision \in Nat
    BY DEF OwnerInv
  <2>2. /\ newest' = [newest EXCEPT ![p] = P!Crop(heads[p].decision, "work")]
        /\ UNCHANGED <<verdicts, cases, photo_revision>>
    BY <1>13 DEF P!publish_owner_work, P!insert_owner_observation
  <2> QED BY <1>2, <1>7, <1>8, <1>9, <2>1, <2>2
<1>14. ASSUME NEW p \in members, P!finalize_analysis_member(p) PROVE CropInv'
  BY <1>2, <1>7, <1>8, <1>9, <1>14 DEF P!finalize_analysis_member
<1>15. ASSUME NEW p \in members, NEW o \in 0..MaxDecisions, P!prompt_photo_observation(p, o) PROVE CropInv'
  BY <1>2, <1>7, <1>8, <1>9, <1>15 DEF P!prompt_photo_observation, P!drawn_crop
<1>16. ASSUME NEW p \in members, NEW o \in 0..MaxDecisions,
              NEW verdict \in {"confirmed", "replaced", "excluded"}, P!review_photo_observation(p, o, verdict)
       PROVE  CropInv'
  <2> DEFINE x == P!selected_artifact(p, o, verdict)
             v == [state |-> verdict, crop |-> x, revision |-> photo_revision + 1]
             f == [verdicts[p] EXCEPT ![o] = v]
  <2>1. /\ photo_revision' = photo_revision + 1 /\ o \in observations[p] /\ cases' = cases
        /\ verdicts' = [verdicts EXCEPT ![p] = f]
        /\ newest' = [newest EXCEPT ![p] = IF verdict = "replaced" THEN x ELSE newest[p]]
    BY <1>16 DEF P!review_photo_observation, P!review_head, P!Accept
  <2>2. x \in Crops
    <3>1. P!current_artifact(p, o) \in {newest[p], verdicts[p][o].crop}
      BY DEF P!current_artifact
    <3>2. newest[p] \in Crops /\ verdicts[p][o].crop \in Crops
      BY <1>2 DEF Verdicts
    <3> QED BY <1>9, <3>1, <3>2 DEF P!selected_artifact
  <2>3. v \in Verdicts
    BY <1>2, <2>2 DEF Verdicts
  <2> HIDE DEF x, v
  <2>4. f \in [0..MaxDecisions -> Verdicts] /\ \A u \in 0..MaxDecisions \ {o} : f[u] = verdicts[p][u]
    BY <1>2, <2>3
  <2> HIDE DEF f
  <2>5. /\ verdicts' \in [members -> [0..MaxDecisions -> Verdicts]] /\ verdicts'[p] = f
        /\ \A q \in members \ {p} : verdicts'[q] = verdicts[q]
    BY <1>2, <2>1, <2>4
  <2>6. newest' \in [members -> Crops]
    <3>1. (IF verdict = "replaced" THEN x ELSE newest[p]) \in Crops
      BY <1>2, <2>2
    <3> QED BY <1>8, <2>1, <3>1
  <2>7. ASSUME NEW q \in members, NEW u \in 0..MaxDecisions, verdicts'[q][u].state # "needs_review"
        PROVE  u \in observations'[q]
    <3>1. CASE q = p /\ u = o
      BY <1>1, <2>1, <3>1
    <3>2. CASE ~(q = p /\ u = o)
      BY <1>5, <2>4, <2>5, <2>7, <3>2
    <3> QED BY <3>1, <3>2
  <2> QED BY <1>1, <1>2, <1>4, <1>6, <2>1, <2>5, <2>6, <2>7 DEF CropInv, Verdicts, Pins
<1>17. ASSUME NEW p \in members, NEW version \in {1, 2}, P!open_reconciliation_case(p, version)
       PROVE  CropInv'
  <2> DEFINE d == heads[p].decision
             pin == P!load_photo_pin(p)
             c == [pin |-> pin, decided |-> FALSE]
  <2>1. /\ heads[p].selects /\ cases' = cases \cup {c} /\ UNCHANGED <<newest, verdicts, photo_revision>>
    BY <1>17 DEF P!open_reconciliation_case
  <2>2. d \in Nat /\ d \in 0..MaxDecisions
    BY <2>1 DEF OwnerInv, P!Decisions
  <2>3. verdicts[p][d] \in Verdicts
    BY <1>2, <2>2
  <2>4. pin \in Pins
    BY <2>2, <2>3 DEF P!load_photo_pin, Pins, Verdicts
  <2>5. c \in [pin : Pins, decided : BOOLEAN] /\ c.decided = FALSE
    BY <2>4
  <2> HIDE DEF c
  <2>6. ~c.decided
    BY <2>5
  <2>7. cases' \subseteq [pin : Pins, decided : BOOLEAN]
    BY <1>2, <2>1, <2>5
  <2>8. \A e \in cases' : e.decided =>
          /\ e.pin.crop.of = e.pin.owner
          /\ e.pin.owner \in P!Decisions /\ work'[e.pin.photo][e.pin.owner] = "terminal"
    BY <1>4, <2>1, <2>6
  <2> QED BY <1>1, <1>2, <1>5, <1>6, <2>1, <2>7, <2>8 DEF CropInv, Verdicts, Pins
<1>18. ASSUME NEW c \in cases, P!decide_reconciliation_case(c) PROVE CropInv'
  <2> DEFINE pin == c.pin
             e == [c EXCEPT !.decided = TRUE]
  <2>1. c \in [pin : Pins, decided : BOOLEAN] /\ pin \in Pins
    BY <1>2
  <2>3. /\ P!derive_authority(pin) /\ UNCHANGED <<newest, verdicts, photo_revision>>
        /\ cases' = (cases \ {c}) \cup {e}
    BY <1>18 DEF P!decide_reconciliation_case
  <2>4. pin.photo \in members /\ pin.owner \in Nat /\ pin.crop \in Crops
    BY <2>1 DEF Pins
  <2>5. e \in [pin : Pins, decided : BOOLEAN] /\ e.pin = pin
    BY <2>1
  <2> HIDE DEF e, pin
  <2>6. pin.crop.of = pin.owner
    BY <2>3 DEF P!derive_authority, P!owner_hash_matches, P!Crop
  <2>7. pin.owner \in P!Decisions
    <3>1. heads[pin.photo] = [decision |-> pin.owner, selects |-> TRUE]
      BY <2>3 DEF P!derive_authority
    <3>2. heads[pin.photo].selects /\ heads[pin.photo].decision = pin.owner
      BY <3>1
    <3> QED BY <2>4, <3>2 DEF OwnerInv
  <2>8. verdicts[pin.photo][pin.owner].state # "needs_review"
    BY <2>3 DEF P!derive_authority, P!Reviewed
  <2>9. pin.owner \in 0..MaxDecisions
    BY <2>7 DEF P!Decisions
  <2>10. pin.owner \in observations'[pin.photo]
    BY <1>5, <2>4, <2>8, <2>9
  <2>11. work'[pin.photo][pin.owner] = "terminal"
    BY <1>1, <1>6, <2>4, <2>7, <2>10 DEF OwnerInv
  <2>12. cases' \subseteq [pin : Pins, decided : BOOLEAN]
    BY <1>2, <2>3, <2>5
  <2>13. \A u \in cases' : u.decided =>
          /\ u.pin.crop.of = u.pin.owner
          /\ u.pin.owner \in P!Decisions /\ work'[u.pin.photo][u.pin.owner] = "terminal"
    BY <1>4, <2>3, <2>5, <2>6, <2>7, <2>11
  <2> QED BY <1>1, <1>2, <1>5, <1>6, <2>3, <2>12, <2>13 DEF CropInv, Verdicts, Pins
<1> QED BY <1>11, <1>12, <1>13, <1>14, <1>15, <1>16, <1>17, <1>18 DEF P!Next

LEMMA PhotosSafe == PhotosInv => PeopleWorkAddsUp /\ OwnersCropIsMatched
<1> SUFFICES ASSUME DetectionInv, OwnerInv, CropInv PROVE PeopleWorkAddsUp /\ OwnersCropIsMatched
  BY DEF PhotosInv
<1>1. OwnersCropIsMatched
  BY DEF OwnersCropIsMatched, P!OwnersCropIsMatched, CropInv
<1>2. /\ detection.completed = P!Cardinality(Ended)
      /\ (detection.state = "completed") = (Ended = members)
  BY PhotoSizes DEF DetectionInv
<1>3. \A p \in members : (reviews[p] \in {"none", "detecting"}) = (p \notin Ended)
  BY DEF DetectionInv
<1>4. \A p \in members, d \in P!Decisions :
         work[p][d] \in {"pending", "running"} => heads[p] = [decision |-> d, selects |-> TRUE]
  <2> SUFFICES ASSUME NEW p \in members, NEW d \in P!Decisions, work[p][d] \in {"pending", "running"}
               PROVE  heads[p] = [decision |-> d, selects |-> TRUE]
    OBVIOUS
  <2>1. heads[p] \in [decision : Nat, selects : BOOLEAN] /\ heads[p].decision = d /\ heads[p].selects
    BY DEF OwnerInv
  <2>2. heads[p].selects = TRUE
    BY <2>1
  <2> QED BY <2>1, <2>2
<1>5. \A p \in members, d \in P!Decisions : (work[p][d] = "terminal") = (d \in observations[p])
  BY DEF OwnerInv
<1>6. PeopleWorkAddsUp
  BY <1>2, <1>3, <1>4, <1>5 DEF PeopleWorkAddsUp, P!PeopleWorkAddsUp, Ended
<1> QED BY <1>1, <1>6

LEMMA PhotosAlways == SpecBackground => []PhotosInv
<1>1. PhotosInv /\ P!Next => PhotosInv'
  BY DetectionStep, OwnerStep, CropStep DEF PhotosInv
<1>2. PhotosInv /\ UNCHANGED photoVars => PhotosInv'
  BY DEF photoVars, PhotosInv, DetectionInv, OwnerInv, CropInv, Ended, Sessions, Crops, P!Decisions
<1>3. PhotosInv /\ [NextBackground]_<<feature, queueVars, schedulerVars, photoVars, caseVars, listVars>>
        => PhotosInv'
  BY <1>1, <1>2 DEF NextBackground
<1> QED BY <1>3, PhotosInit, PTL DEF SpecBackground

(***************************************************************************)
(* For every scope of photos and any number of attempts, crashes, retries  *)
(* and corrected decisions: the counter of a detection run is the number   *)
(* of photos whose newest attempt ended, and the work on owners is that of *)
(* the decisions in force (publish_person_detection,                       *)
(* retry_photo_person_detection, write_owner_decision).                    *)
(***************************************************************************)
THEOREM DetectionsAddUp == SpecBackground => []PeopleWorkAddsUp
  BY PhotosAlways, PhotosSafe, PTL

(***************************************************************************)
(* Whatever was drawn, confirmed or corrected in between: a case is        *)
(* decided only for the crop that the program made of the person whom the  *)
(* user called the owner (derive_authority, decide_reconciliation_case).   *)
(***************************************************************************)
THEOREM CropsAreTheOwners == SpecBackground => []OwnersCropIsMatched
  BY PhotosAlways, PhotosSafe, PTL

-----------------------------------------------------------------------------
(* Rows in the order of a query.                                           *)

\* A relation that orders the members of a set.
Orders(R, U) ==
    /\ \A x, y \in U : ~ (<<x, y>> \in R /\ <<y, x>> \in R)
    /\ \A x, y \in U : x # y => <<x, y>> \in R \/ <<y, x>> \in R
    /\ \A x, y, z \in U : <<x, y>> \in R /\ <<y, z>> \in R => <<x, z>> \in R

InOrder(q, U, R) ==
    /\ q \in [1..Cardinality(U) -> U]
    /\ \A m, n \in 1..Cardinality(U) : m < n => <<q[m], q[n]>> \in R

Sorted(U, R) ==
    CHOOSE q \in [1..Cardinality(U) -> U] :
       \A m, n \in DOMAIN q : m < n => <<q[m], q[n]>> \in R

Preceding(x, U, R) == {y \in U : <<y, x>> \in R}

LEMMA PrecedingGrows ==
    ASSUME NEW U, IsFiniteSet(U), NEW R, Orders(R, U), NEW x \in U, NEW y \in U, <<x, y>> \in R
    PROVE  /\ Cardinality(Preceding(x, U, R)) \in 0..(Cardinality(U) - 1)
           /\ Cardinality(Preceding(x, U, R)) < Cardinality(Preceding(y, U, R))
<1> DEFINE X == Preceding(x, U, R)
           Y == Preceding(y, U, R)
<1>1. X \subseteq U \ {x} /\ Y \subseteq U /\ X \cup {x} \subseteq Y /\ x \notin X
  BY DEF Preceding, Orders
<1>2. IsFiniteSet(X) /\ IsFiniteSet(Y)
  BY <1>1, FS_Subset
<1>3. Cardinality(X \cup {x}) = Cardinality(X) + 1 /\ IsFiniteSet(X \cup {x})
  BY <1>1, <1>2, FS_AddElement
<1>4. Cardinality(X \cup {x}) <= Cardinality(Y)
  BY <1>1, <1>2, FS_Subset
<1>5. Cardinality(U \ {x}) = Cardinality(U) - 1 /\ IsFiniteSet(U \ {x})
  BY FS_RemoveElement
<1>6. Cardinality(X) <= Cardinality(U \ {x})
  BY <1>1, <1>5, FS_Subset
<1>7. Cardinality(X) \in Nat /\ Cardinality(Y) \in Nat /\ Cardinality(U) \in Nat
  BY <1>2, FS_CardinalityType
<1> QED BY <1>3, <1>4, <1>5, <1>6, <1>7

\* A row is preceded by fewer rows than there are.
LEMMA PrecedingBound ==
    ASSUME NEW U, IsFiniteSet(U), NEW R, Orders(R, U), NEW x \in U
    PROVE  /\ Cardinality(Preceding(x, U, R)) \in 0..(Cardinality(U) - 1)
           /\ Cardinality(U) \in Nat
<1> DEFINE X == Preceding(x, U, R)
<1>1. X \subseteq U \ {x}
  BY DEF Preceding, Orders
<1>2. Cardinality(U \ {x}) = Cardinality(U) - 1 /\ IsFiniteSet(U \ {x})
  BY FS_RemoveElement
<1>3. Cardinality(X) <= Cardinality(U \ {x}) /\ IsFiniteSet(X)
  BY <1>1, <1>2, FS_Subset
<1>4. Cardinality(X) \in Nat /\ Cardinality(U) \in Nat
  BY <1>3, FS_CardinalityType
<1> QED BY <1>2, <1>3, <1>4

\* A finite set can be put in order: the place of a row is the number of rows before it.
LEMMA SortingExists ==
    ASSUME NEW U, IsFiniteSet(U), NEW R, Orders(R, U)
    PROVE  \E q : InOrder(q, U, R)
<1> DEFINE n == Cardinality(U)
           rank == [x \in U |-> Cardinality(Preceding(x, U, R)) + 1]
<1>1. n \in Nat
  BY FS_CardinalityType
<1>2. rank \in [U -> 1..n]
  BY <1>1, PrecedingBound
<1>3. ASSUME NEW x \in U, NEW y \in U, <<x, y>> \in R PROVE rank[x] < rank[y]
  <2>1. Cardinality(Preceding(x, U, R)) < Cardinality(Preceding(y, U, R))
    BY <1>3, PrecedingGrows
  <2>2. Cardinality(Preceding(x, U, R)) \in Nat /\ Cardinality(Preceding(y, U, R)) \in Nat
    BY <1>1, PrecedingBound
  <2> QED BY <2>1, <2>2
<1> HIDE DEF rank
<1>4. \A x, y \in U : rank[x] = rank[y] => x = y
  <2> SUFFICES ASSUME NEW x \in U, NEW y \in U, rank[x] = rank[y], x # y PROVE FALSE
    OBVIOUS
  <2>1. <<x, y>> \in R \/ <<y, x>> \in R
    BY DEF Orders
  <2>2. rank[x] \in Int /\ rank[y] \in Int
    BY <1>2
  <2> QED BY <2>1, <2>2, <1>3
<1>5. rank \in Injection(U, 1..n)
  BY <1>2, <1>4 DEF Injection, IsInjective
<1>6. IsFiniteSet(1..n) /\ Cardinality(1..n) = n
  BY <1>1, FS_Interval
<1>7. rank \in Surjection(U, 1..n)
  BY <1>5, <1>6, FS_Injection
<1>8. \A k \in 1..n : \E x \in U : rank[x] = k
  BY <1>7 DEF Surjection
<1> DEFINE q == [k \in 1..n |-> CHOOSE x \in U : rank[x] = k]
<1>9. q \in [1..n -> U] /\ \A k \in 1..n : rank[q[k]] = k
  BY <1>8
<1> HIDE DEF q
<1>10. ASSUME NEW k \in 1..n, NEW m \in 1..n, k < m PROVE <<q[k], q[m]>> \in R
  <2>1. q[k] \in U /\ q[m] \in U /\ rank[q[k]] = k /\ rank[q[m]] = m
    BY <1>9
  <2>2. q[k] # q[m]
    BY <2>1, <1>10
  <2>3. <<q[m], q[k]>> \notin R
    BY <2>1, <1>10, <1>3
  <2> QED BY <2>1, <2>2, <2>3 DEF Orders
<1> QED BY <1>9, <1>10 DEF InOrder

\* It is what the query returns: every row once, in order.
LEMMA SortedRows ==
    ASSUME NEW U, IsFiniteSet(U), NEW R, Orders(R, U)
    PROVE  /\ InOrder(Sorted(U, R), U, R)
           /\ Cardinality(U) \in Nat
<1>1. \E q \in [1..Cardinality(U) -> U] :
         \A m, n \in DOMAIN q : m < n => <<q[m], q[n]>> \in R
  <2>1. PICK q : InOrder(q, U, R)
    BY SortingExists
  <2>2. /\ q \in [1..Cardinality(U) -> U] /\ DOMAIN q = 1..Cardinality(U)
        /\ \A m, n \in 1..Cardinality(U) : m < n => <<q[m], q[n]>> \in R
    BY <2>1 DEF InOrder
  <2> QED BY <2>2
<1>2. /\ Sorted(U, R) \in [1..Cardinality(U) -> U]
      /\ \A m, n \in DOMAIN Sorted(U, R) : m < n => <<Sorted(U, R)[m], Sorted(U, R)[n]>> \in R
  BY <1>1 DEF Sorted
<1> QED BY <1>2, FS_CardinalityType DEF InOrder

LEMMA EveryRowOnce ==
    ASSUME NEW U, IsFiniteSet(U), NEW R, Orders(R, U), NEW q, InOrder(q, U, R)
    PROVE  /\ \A m, n \in 1..Cardinality(U) : q[m] = q[n] => m = n
           /\ \A x \in U : \E m \in 1..Cardinality(U) : q[m] = x
           /\ \A m, n \in 1..Cardinality(U) : <<q[m], q[n]>> \in R <=> m < n
<1> DEFINE n == Cardinality(U)
<1>1. n \in Nat /\ q \in [1..n -> U]
  BY FS_CardinalityType DEF InOrder
<1>2. \A k, m \in 1..n : k < m => <<q[k], q[m]>> \in R /\ q[k] \in U /\ q[m] \in U
  BY <1>1 DEF InOrder
<1> HIDE DEF n
<1>3. \A k, m \in 1..n : q[k] = q[m] => k = m
  <2> SUFFICES ASSUME NEW k \in 1..n, NEW m \in 1..n, q[k] = q[m], k < m PROVE FALSE
    BY <1>1
  <2>1. <<q[k], q[m]>> \in R /\ <<q[m], q[k]>> \in R /\ q[k] \in U
    BY <1>2
  <2> QED BY <2>1 DEF Orders
<1>4. q \in Injection(1..n, U)
  BY <1>1, <1>3 DEF Injection, IsInjective
<1>5. IsFiniteSet(1..n) /\ Cardinality(1..n) = n
  BY <1>1, FS_Interval
<1>6. q \in Surjection(1..n, U)
  BY <1>4, <1>5, FS_Injection DEF n
<1>7. \A x \in U : \E m \in 1..n : q[m] = x
  BY <1>6 DEF Surjection
<1>8. \A k, m \in 1..n : <<q[k], q[m]>> \in R <=> k < m
  <2> SUFFICES ASSUME NEW k \in 1..n, NEW m \in 1..n, <<q[k], q[m]>> \in R, ~ (k < m)
               PROVE  FALSE
    BY <1>2
  <2>1. q[k] \in U /\ q[m] \in U
    BY <1>1
  <2>2. CASE k = m
    BY <2>1, <2>2 DEF Orders
  <2>3. CASE m < k
    BY <2>1, <2>3, <1>2 DEF Orders
  <2> QED BY <2>2, <2>3, <1>1
<1> QED BY <1>3, <1>7, <1>8 DEF n

\* There is one order.
LEMMA OneOrder ==
    ASSUME NEW U, IsFiniteSet(U), NEW R, Orders(R, U), NEW q, InOrder(q, U, R)
    PROVE  \A m \in 1..Cardinality(U) : Cardinality(Preceding(q[m], U, R)) = m - 1
<1> DEFINE n == Cardinality(U)
<1>1. n \in Nat /\ q \in [1..n -> U]
  BY FS_CardinalityType DEF InOrder
<1>2. /\ \A k, m \in 1..n : q[k] = q[m] => k = m
      /\ \A x \in U : \E m \in 1..n : q[m] = x
      /\ \A k, m \in 1..n : <<q[k], q[m]>> \in R <=> k < m
  BY EveryRowOnce
<1> HIDE DEF n
<1> SUFFICES ASSUME NEW m \in 1..n PROVE Cardinality(Preceding(q[m], U, R)) = m - 1
  BY DEF n
<1> DEFINE Y == Preceding(q[m], U, R)
           f == [k \in 1..(m - 1) |-> q[k]]
<1>3. \A k \in 1..(m - 1) : k \in 1..n /\ q[k] \in Y
  BY <1>1, <1>2 DEF Preceding
<1>4. \A y \in Y : \E k \in 1..(m - 1) : q[k] = y
  <2> SUFFICES ASSUME NEW y \in Y PROVE \E k \in 1..(m - 1) : q[k] = y
    OBVIOUS
  <2>1. y \in U /\ <<y, q[m]>> \in R
    BY DEF Preceding
  <2>2. PICK k \in 1..n : q[k] = y
    BY <1>2, <2>1
  <2>3. k < m
    BY <1>2, <2>1, <2>2
  <2> QED BY <2>2, <2>3, <1>1
<1> HIDE DEF Y
<1>5. f \in Bijection(1..(m - 1), Y)
  BY <1>1, <1>2, <1>3, <1>4 DEF Bijection, Injection, Surjection, IsInjective
<1>6. ExistsBijection(1..(m - 1), Y) /\ m - 1 \in Nat
  BY <1>1, <1>5 DEF ExistsBijection
<1>7. Cardinality(Y) = m - 1
  BY <1>6, FS_CountingElements
<1> QED BY <1>7 DEF Y

LEMMA OrderIsUnique ==
    ASSUME NEW U, IsFiniteSet(U), NEW R, Orders(R, U), NEW p, NEW q,
           InOrder(p, U, R), InOrder(q, U, R)
    PROVE  p = q
<1> DEFINE n == Cardinality(U)
<1>1. n \in Nat /\ q \in [1..n -> U] /\ p \in [1..n -> U]
  BY FS_CardinalityType DEF InOrder
<1>2. ASSUME NEW k \in 1..n PROVE p[k] = q[k]
  <2>1. PICK m \in 1..n : q[m] = p[k]
    BY <1>1, EveryRowOnce
  <2>2. Cardinality(Preceding(p[k], U, R)) = k - 1 /\ Cardinality(Preceding(q[m], U, R)) = m - 1
    BY OneOrder
  <2>3. k = m
    BY <2>1, <2>2, <1>1
  <2> QED BY <2>1, <2>3
<1> QED BY <1>1, <1>2

\* The rows after one of them are the rest of the query's rows.
LEMMA RowsAfter ==
    ASSUME NEW U, IsFiniteSet(U), NEW R, Orders(R, U), NEW q, InOrder(q, U, R),
           NEW k \in 1..Cardinality(U),
           NEW T, \A x : x \in T <=> x \in U /\ <<q[k], x>> \in R
    PROVE  /\ Cardinality(T) = Cardinality(U) - k
           /\ Sorted(T, R) \in [1..(Cardinality(U) - k) -> T]
           /\ \A m \in 1..(Cardinality(U) - k) : Sorted(T, R)[m] = q[k + m]
<1> DEFINE n == Cardinality(U)
<1>1. n \in Nat /\ q \in [1..n -> U] /\ IsFiniteSet(T) /\ T \subseteq U
  BY FS_CardinalityType, FS_Subset DEF InOrder
<1>2. /\ \A j, m \in 1..n : q[j] = q[m] => j = m
      /\ \A x \in U : \E m \in 1..n : q[m] = x
      /\ \A j, m \in 1..n : <<q[j], q[m]>> \in R <=> j < m
  BY EveryRowOnce
<1> HIDE DEF n
<1>3. k \in 1..n
  BY DEF n
<1> DEFINE f == [m \in 1..(n - k) |-> q[k + m]]
<1>4. \A m \in 1..(n - k) : k + m \in 1..n /\ q[k + m] \in T
  <2> SUFFICES ASSUME NEW m \in 1..(n - k) PROVE k + m \in 1..n /\ q[k + m] \in T
    OBVIOUS
  <2>1. k + m \in 1..n /\ k < k + m
    BY <1>1, <1>3
  <2>2. q[k + m] \in U /\ <<q[k], q[k + m]>> \in R
    BY <2>1, <1>1, <1>2, <1>3
  <2> QED BY <2>1, <2>2
<1>5. \A x \in T : \E m \in 1..(n - k) : q[k + m] = x
  <2> SUFFICES ASSUME NEW x \in T PROVE \E m \in 1..(n - k) : q[k + m] = x
    OBVIOUS
  <2>1. x \in U /\ <<q[k], x>> \in R
    OBVIOUS
  <2>2. PICK j \in 1..n : q[j] = x
    BY <1>2, <2>1
  <2>3. k < j
    BY <1>2, <1>3, <2>1, <2>2
  <2>4. j - k \in 1..(n - k) /\ k + (j - k) = j
    BY <2>3, <1>1, <1>3
  <2> QED BY <2>2, <2>4
<1>6. f \in [1..(n - k) -> T]
  BY <1>4
<1>7. f \in Bijection(1..(n - k), T)
  <2>1. \A x, y \in 1..(n - k) : f[x] = f[y] => x = y
    BY <1>1, <1>2, <1>3, <1>4
  <2>2. \A x \in T : \E m \in 1..(n - k) : f[m] = x
    BY <1>5
  <2> QED BY <1>6, <2>1, <2>2 DEF Bijection, Injection, Surjection, IsInjective
<1>8. Cardinality(T) = n - k
  <2>1. ExistsBijection(1..(n - k), T)
    BY <1>7 DEF ExistsBijection
  <2>2. n - k \in Nat
    BY <1>1, <1>3
  <2> QED BY <2>1, <2>2, FS_CountingElements
<1>9. Orders(R, T)
  BY <1>1 DEF Orders
<1>10. \A j, m \in 1..(n - k) : j < m => <<f[j], f[m]>> \in R
  BY <1>1, <1>2, <1>3, <1>4
<1>11. InOrder(f, T, R)
  BY <1>6, <1>8, <1>10 DEF InOrder
<1>12. InOrder(Sorted(T, R), T, R)
  BY <1>1, <1>9, SortedRows
<1>13. Sorted(T, R) = f
  BY <1>1, <1>9, <1>11, <1>12, OrderIsUnique
<1>14. \A m \in 1..(n - k) : f[m] = q[k + m]
  OBVIOUS
<1> HIDE DEF f
<1> QED BY <1>6, <1>8, <1>13, <1>14 DEF n

-----------------------------------------------------------------------------
(* The list of a photo's cases.                                            *)

Matching(filter) == {k \in DOMAIN offered : L!matches_filter(k, filter)}

\* The pages so far are the first rows of what the list would show now.
ShownSoFar ==
    /\ Len(listing.shown) \in 1..Cardinality(Matching(listing.filter))
    /\ listing.shown = [m \in 1..Len(listing.shown) |->
                          Sorted(Matching(listing.filter), L!newer_cases)[m]]

Listings ==
    [state : {"none", "more", "done", "corrupt"}, filter : {"all"} \cup Filters,
     shown : Seq(Nat), at : {<<>>} \cup Nat \X Nat \X Nat]

ListingInv ==
    /\ revision \in [catalog : Nat, receipt : Nat, photo : Nat, owner : Nat, reconciliation : Nat]
    /\ Len(offered) \in Nat /\ DOMAIN offered = 1..Len(offered)
    /\ \A k \in DOMAIN offered : offered[k].created \in Nat
    /\ listing \in Listings
    /\ listing.state = "more" =>
         /\ listing.at \in Nat \X Nat \X Nat
         /\ listing.at[1] <= revision.photo /\ listing.at[2] <= revision.owner
         /\ listing.at[3] <= revision.reconciliation
         /\ listing.at = L!make_reconciliation_cursor => ShownSoFar

LEMMA CaseSizes == ASSUME NEW U PROVE L!Cardinality(U) = Cardinality(U)
  BY DEF Cardinality, L!Cardinality

LEMMA CasesAreSorted == ASSUME NEW U, NEW R PROVE L!Ordered(U, R) = Sorted(U, R)
  BY CaseSizes DEF L!Ordered, Sorted

LEMMA CasesHaveAnOrder ==
    ASSUME ListingInv, NEW M \in SUBSET DOMAIN offered
    PROVE  IsFiniteSet(M) /\ Cardinality(M) \in Nat /\ Orders(L!newer_cases, M)
<1>1. IsFiniteSet(DOMAIN offered) /\ DOMAIN offered \subseteq Nat
  BY FS_Interval DEF ListingInv
<1>2. IsFiniteSet(M) /\ Cardinality(M) \in Nat
  BY <1>1, FS_Subset, FS_CardinalityType
<1>3. \A x, y \in M : <<x, y>> \in L!newer_cases <=>
         \/ offered[x].created > offered[y].created
         \/ offered[x].created = offered[y].created /\ x > y
  BY DEF L!newer_cases
<1>4. \A x \in M : offered[x].created \in Nat /\ x \in Nat
  BY <1>1 DEF ListingInv
<1>5. Orders(L!newer_cases, M)
  BY <1>3, <1>4 DEF Orders
<1> QED BY <1>2, <1>5

\* A page is the first rows, and there is another if there are more.
LEMMA FirstRows ==
    ASSUME NEW V, NEW n \in Nat, NEW q \in [1..n -> V], NEW p \in Nat \ {0}
    PROVE  /\ Len(q) = n
           /\ L!First(q, p) = [m \in 1..(IF p < n THEN p ELSE n) |-> q[m]]
<1>1. Len(q) = n /\ q \in Seq(V)
  OBVIOUS
<1>2. L!Min2(p, n) = IF p < n THEN p ELSE n
  BY DEF L!Min2
<1>3. L!Min2(p, n) \in 0..n
  BY <1>2
<1>4. SubSeq(q, 1, L!Min2(p, n)) = [m \in 1..L!Min2(p, n) |-> q[m]]
  BY <1>1, <1>3
<1> QED BY <1>1, <1>2, <1>4 DEF L!First

LEMMA FirstPage ==
    ASSUME ListingInv, NEW filter \in Filters, L!list_reconciliation_cases(filter)
    PROVE  /\ ListingInv'
           /\ listing'.state = "done" => listing'.shown = L!newest_first(listing'.filter)
<1> DEFINE M == Matching(filter)
           q == Sorted(M, L!newer_cases)
           n == Cardinality(M)
<1>1. M \in SUBSET DOMAIN offered
  BY DEF Matching
<1>2. IsFiniteSet(M) /\ n \in Nat /\ Orders(L!newer_cases, M)
  BY <1>1, CasesHaveAnOrder
<1>3. q \in [1..n -> M] /\ L!newest_first(filter) = q
  BY <1>1, <1>2, SortedRows, CasesAreSorted DEF InOrder, L!newest_first, Matching
<1>4. PageSize \in Nat \ {0}
  BY MatchingAssumption
<1>5. UNCHANGED <<catalog, receipts, review, owner, revision, offered, opening>>
  BY DEF L!list_reconciliation_cases
<1>6. M \subseteq Nat
  BY <1>1 DEF ListingInv
<1> HIDE DEF M, q, n
<1> DEFINE k == IF PageSize < n THEN PageSize ELSE n
           page == [m \in 1..k |-> q[m]]
<1>7. L!Page(q).cases = page /\ L!Page(q).more = (n > PageSize)
  <2>1. Len(q) = n /\ L!First(q, PageSize) = page
    <3> HIDE DEF k, page
    <3>1. q \in [1..n -> M] /\ n \in Nat
      BY <1>2, <1>3
    <3>2. /\ Len(q) = n
          /\ L!First(q, PageSize) = [m \in 1..(IF PageSize < n THEN PageSize ELSE n) |-> q[m]]
      BY <3>1, <1>4, FirstRows
    <3> QED BY <3>2 DEF page, k
  <2> HIDE DEF q, n, page
  <2> QED BY <2>1 DEF L!Page
<1>8. /\ L!list_response_is_valid =>
            listing' = [state |-> IF n > PageSize THEN "more" ELSE "done", filter |-> filter,
                        shown |-> page, at |-> L!make_reconciliation_cursor]
      /\ ~L!list_response_is_valid => listing' = [L!NoListing EXCEPT !.state = "corrupt"]
  BY <1>3, <1>7 DEF L!list_reconciliation_cases
<1>9. k \in 0..n /\ (n > PageSize => k \in 1..n) /\ (~(n > PageSize) => k = n)
  BY <1>2, <1>4
<1> HIDE DEF k
<1>10. page \in Seq(Nat) /\ Len(page) = k
  <2>1. \A m \in 1..k : m \in 1..n
    BY <1>2, <1>9
  <2>2. \A m \in 1..k : q[m] \in Nat
    BY <2>1, <1>3, <1>6
  <2>3. page \in [1..k -> Nat] /\ k \in Nat
    BY <2>2, <1>2, <1>9
  <2> HIDE DEF page
  <2> QED BY <2>3
<1>11. /\ L!make_reconciliation_cursor \in Nat \X Nat \X Nat
       /\ L!make_reconciliation_cursor[1] = revision.photo
       /\ L!make_reconciliation_cursor[2] = revision.owner
       /\ L!make_reconciliation_cursor[3] = revision.reconciliation
       /\ revision.photo \in Nat /\ revision.owner \in Nat /\ revision.reconciliation \in Nat
  BY DEF L!make_reconciliation_cursor, ListingInv
<1>12. listing' \in Listings
  <2> HIDE DEF page
  <2>1. CASE ~L!list_response_is_valid
    <3>1. listing' = [state |-> "corrupt", filter |-> "all", shown |-> <<>>, at |-> <<>>]
      BY <1>8, <2>1 DEF L!NoListing
    <3> QED BY <3>1 DEF Listings
  <2>2. CASE L!list_response_is_valid
    BY <1>8, <1>10, <1>11, <2>2 DEF Listings
  <2> QED BY <2>1, <2>2
<1>13. CASE ~L!list_response_is_valid
  <2>1. listing'.state = "corrupt"
    BY <1>8, <1>13 DEF L!NoListing
  <2> QED BY <2>1, <1>5, <1>12 DEF ListingInv
<1>14. CASE L!list_response_is_valid
  <2>1. /\ listing'.shown = page /\ listing'.filter = filter
        /\ listing'.at = L!make_reconciliation_cursor
        /\ listing'.state = IF n > PageSize THEN "more" ELSE "done"
    BY <1>8, <1>14
  <2>2. Matching(filter)' = M /\ (L!newer_cases)' = L!newer_cases
    BY <1>5 DEF M, Matching, L!newer_cases, L!matches_filter, L!load_case_v2, L!load_case,
         L!load_candidates, L!classify_authority, L!owner_is_current, L!crop_is_current,
         L!owner_evidence_matches
  <2>3. listing'.state = "more" => ShownSoFar'
    <3> SUFFICES ASSUME n > PageSize PROVE ShownSoFar'
      BY <2>1
    <3>1. Len(listing'.shown) = k /\ k \in 1..n
      BY <2>1, <1>9, <1>10
    <3>2. Matching(listing.filter)' = M
      BY <2>1, <2>2 DEF Matching
    <3>3. Cardinality(Matching(listing.filter)') = n
      BY <3>2 DEF n
    <3>4. Sorted(Matching(listing.filter), L!newer_cases)' = q
      BY <3>2, <2>2 DEF q
    <3> QED BY <3>1, <3>3, <3>4, <2>1 DEF ShownSoFar
  <2>4. listing'.state = "done" => listing'.shown = q
    BY <2>1, <1>2, <1>3, <1>9
  <2> QED BY <2>1, <2>3, <2>4, <1>3, <1>5, <1>11, <1>12 DEF ListingInv
<1> QED BY <1>13, <1>14

LEMMA SamePage ==
    ASSUME UNCHANGED <<review, owner, offered>>
    PROVE  /\ \A f : Matching(f)' = Matching(f)
           /\ (L!newer_cases)' = L!newer_cases
  BY DEF Matching, L!newer_cases, L!matches_filter, L!load_case_v2, L!load_case,
         L!load_candidates, L!classify_authority, L!owner_is_current, L!crop_is_current,
         L!owner_evidence_matches

LEMMA SameRows ==
    ASSUME UNCHANGED <<review, owner, offered>>, listing'.filter = listing.filter
    PROVE  Matching(listing.filter)' = Matching(listing.filter)
  BY DEF Matching, L!newer_cases, L!matches_filter, L!load_case_v2, L!load_case,
         L!load_candidates, L!classify_authority, L!owner_is_current, L!crop_is_current,
         L!owner_evidence_matches

LEMMA NextPage ==
    ASSUME ListingInv, L!list_next_page
    PROVE  /\ ListingInv'
           /\ listing'.state = "done" => listing'.shown = L!newest_first(listing'.filter)
<1> DEFINE filter == listing.filter
           shown_ == listing.shown
           M == Matching(filter)
           q == Sorted(M, L!newer_cases)
           n == Cardinality(M)
           j == Len(shown_)
           T == {x \in M : <<q[j], x>> \in L!newer_cases}
           rest == [m \in 1..(n - j) |-> q[j + m]]
<1>1. /\ listing.state = "more"
      /\ UNCHANGED <<catalog, receipts, review, owner, revision, offered, opening>>
  BY DEF L!list_next_page
<1>2. /\ listing \in Listings /\ listing.at \in Nat \X Nat \X Nat
      /\ listing.at = L!make_reconciliation_cursor => ShownSoFar
  BY <1>1 DEF ListingInv
<1>3. CASE ~L!parse_reconciliation_cursor
  <2>1. listing' = [state |-> "none", filter |-> "all", shown |-> <<>>, at |-> <<>>]
    BY <1>3 DEF L!list_next_page, L!NoListing
  <2>2. listing' \in Listings /\ listing'.state = "none"
    BY <2>1 DEF Listings
  <2> QED BY <1>1, <2>2 DEF ListingInv
<1>4. CASE L!parse_reconciliation_cursor
  <2>1. listing.at = L!make_reconciliation_cursor /\ ShownSoFar
    BY <1>2, <1>4 DEF L!parse_reconciliation_cursor
  <2>2. j \in 1..n /\ shown_ = [m \in 1..j |-> q[m]]
    BY <2>1 DEF ShownSoFar
  <2>3. M \in SUBSET DOMAIN offered
    BY DEF Matching
  <2>4. IsFiniteSet(M) /\ n \in Nat /\ Orders(L!newer_cases, M)
    BY <2>3, CasesHaveAnOrder
  <2>5. InOrder(q, M, L!newer_cases) /\ q \in [1..n -> M] /\ L!newest_first(filter) = q
    BY <2>3, <2>4, SortedRows, CasesAreSorted DEF InOrder, L!newest_first, Matching
  <2>6. PageSize \in Nat \ {0}
    BY MatchingAssumption
  <2>7. M \subseteq Nat
    BY <2>3 DEF ListingInv
  <2>8. shown_[j] = q[j] /\ q[j] \in M
    <3> HIDE DEF q, n, j, M, shown_
    <3>1. j \in 1..j /\ j \in 1..n
      BY <2>2, <2>4
    <3>2. shown_[j] = q[j]
      BY <3>1, <2>2
    <3> QED BY <3>1, <3>2, <2>5
  <2>9. {k \in DOMAIN offered : L!AfterCursor(k) /\ L!matches_filter(k, filter)} = T
    <3>1. \A x \in M : L!AfterCursor(x) <=> <<q[j], x>> \in L!newer_cases
      <4> SUFFICES ASSUME NEW x \in M PROVE L!AfterCursor(x) <=> <<q[j], x>> \in L!newer_cases
        OBVIOUS
      <4>1. q[j] \in DOMAIN offered /\ x \in DOMAIN offered /\ q[j] \in Nat /\ x \in Nat
        BY <2>3, <2>7, <2>8
      <4>2. offered[q[j]].created \in Nat /\ offered[x].created \in Nat
        BY <4>1 DEF ListingInv
      <4>3. L!AfterCursor(x) <=> \/ offered[x].created < offered[q[j]].created
                                 \/ offered[x].created = offered[q[j]].created /\ x < q[j]
        BY <2>8 DEF L!AfterCursor
      <4>4. <<q[j], x>> \in L!newer_cases
              <=> \/ offered[q[j]].created > offered[x].created
                  \/ offered[q[j]].created = offered[x].created /\ q[j] > x
        BY <4>1 DEF L!newer_cases
      <4> QED BY <4>1, <4>2, <4>3, <4>4
    <3>2. \A x : x \in M <=> x \in DOMAIN offered /\ L!matches_filter(x, filter)
      BY DEF Matching
    <3> HIDE DEF M, q, j
    <3> QED BY <3>1, <3>2
  <2>10. Sorted(T, L!newer_cases) = rest
    <3> HIDE DEF q, j, M
    <3>1. j \in 1..Cardinality(M)
      BY <2>2
    <3>3. \A x : x \in T <=> x \in M /\ <<q[j], x>> \in L!newer_cases
      OBVIOUS
    <3> HIDE DEF T
    <3>2. /\ Sorted(T, L!newer_cases) \in [1..(Cardinality(M) - j) -> T]
          /\ \A m \in 1..(Cardinality(M) - j) : Sorted(T, L!newer_cases)[m] = q[j + m]
      BY <3>1, <3>3, <2>4, <2>5, RowsAfter
    <3> QED BY <3>2
  <2>11. L!remaining(filter) = rest
    BY <2>9, <2>10, CasesAreSorted DEF L!remaining
  <2> HIDE DEF M, q, n, j, T
  <2> DEFINE k == IF PageSize < n - j THEN PageSize ELSE n - j
             page == [m \in 1..k |-> rest[m]]
  <2>12. n - j \in Nat /\ rest \in [1..(n - j) -> M]
    <3>1. n - j \in Nat /\ \A m \in 1..(n - j) : j + m \in 1..n
      BY <2>2, <2>4
    <3> QED BY <3>1, <2>5
  <2>13. L!Page(rest).cases = page /\ L!Page(rest).more = (n - j > PageSize)
    <3> HIDE DEF k, page, rest
    <3>1. PICK d \in Nat : d = n - j
      BY <2>12
    <3>2. rest \in [1..d -> M]
      BY <2>12, <3>1
    <3>3. /\ Len(rest) = d
          /\ L!First(rest, PageSize)
               = [m \in 1..(IF PageSize < d THEN PageSize ELSE d) |-> rest[m]]
      BY <2>6, <3>2, FirstRows
    <3>4. Len(rest) = n - j /\ L!First(rest, PageSize) = page
      BY <3>1, <3>3 DEF page, k
    <3> QED BY <3>4 DEF L!Page
  <2>14. /\ k \in 0..(n - j) /\ j + k \in 1..n /\ k \in Nat /\ j \in Nat
         /\ ~(n - j > PageSize) => j + k = n
    BY <2>2, <2>4, <2>6, <2>12
  <2> HIDE DEF k
  <2> DEFINE all == [m \in 1..(j + k) |-> q[m]]
  <2>15. shown_ \o page = all
    <3>1. \A m \in 1..j : m \in 1..n
      BY <2>2, <2>4
    <3>2. \A m \in 1..k : m \in 1..(n - j) /\ j + m \in 1..n
      BY <2>14, <2>2, <2>4
    <3>3. shown_ \in [1..j -> M]
      BY <3>1, <2>2, <2>5
    <3>4. page = [m \in 1..k |-> q[j + m]] /\ page \in [1..k -> M]
      BY <3>2, <2>5
    <3>5. shown_ \in Seq(M) /\ page \in Seq(M) /\ Len(shown_) = j /\ Len(page) = k
      <4> HIDE DEF page, shown_
      <4>1. shown_ \in Seq(M) /\ Len(shown_) = j
        BY <3>3, <2>14
      <4>2. page \in [1..k -> M]
        BY <3>4
      <4>3. page \in Seq(M) /\ Len(page) = k
        BY <4>2, <2>14
      <4> QED BY <4>1, <4>3
    <3> DEFINE s == shown_ \o page
    <3>6. s \in Seq(M) /\ Len(s) = j + k
      <4> HIDE DEF page, shown_
      <4> QED BY <3>5, <2>14
    <3>7. ASSUME NEW m \in 1..(j + k) PROVE s[m] = q[m]
      <4>1. CASE m <= j
        <5>1. s[m] = shown_[m]
          <6> HIDE DEF page, shown_
          <6> QED BY <4>1, <3>5, <2>14
        <5> QED BY <5>1, <4>1, <2>2, <2>14
      <4>2. CASE m > j
        <5>1. m - j \in 1..k /\ j + (m - j) = m
          BY <4>2, <2>14
        <5>2. s[m] = page[m - j]
          <6> HIDE DEF page, shown_
          <6>1. m \in 1..(Len(shown_) + Len(page)) /\ m > Len(shown_)
            BY <4>2, <3>5, <2>14
          <6>2. (shown_ \o page)[m] = page[m - Len(shown_)]
            BY <6>1, <3>5
          <6> QED BY <6>2, <3>5
        <5>3. page[m - j] = q[j + (m - j)]
          <6> HIDE DEF page
          <6> QED BY <3>4, <5>1
        <5> QED BY <5>1, <5>2, <5>3
      <4> HIDE DEF s
      <4>3. m \in Nat
        BY <2>14
      <4> QED BY <4>1, <4>2, <4>3, <2>14
    <3>8. DOMAIN s = 1..(j + k) /\ s = [m \in DOMAIN s |-> s[m]]
      <4> HIDE DEF s
      <4> QED BY <3>6, <2>14
    <3> HIDE DEF s
    <3>9. s = all
      BY <3>7, <3>8
    <3> QED BY <3>9 DEF s
  <2>16. all \in [1..(j + k) -> Nat] /\ j + k \in Nat
    <3>1. \A m \in 1..(j + k) : m \in 1..n
      BY <2>14, <2>4
    <3>2. \A m \in 1..(j + k) : q[m] \in Nat
      BY <3>1, <2>5, <2>7
    <3> QED BY <3>2, <2>14
  <2>17. all \in Seq(Nat) /\ Len(all) = j + k
    <3> HIDE DEF all
    <3> QED BY <2>16
  <2>18. listing' = [listing EXCEPT !.state = IF n - j > PageSize THEN "more" ELSE "done",
                       !.shown = shown_ \o page]
    BY <1>4, <2>11, <2>13 DEF L!list_next_page
  <2>19. /\ listing'.shown = all /\ listing'.filter = filter /\ listing'.at = listing.at
         /\ listing'.state = IF n - j > PageSize THEN "more" ELSE "done"
         /\ listing' \in Listings
    <3> HIDE DEF all, page
    <3> QED BY <1>2, <2>15, <2>17, <2>18 DEF Listings
  <2>20. Matching(listing.filter)' = M /\ (L!newer_cases)' = L!newer_cases
    BY <1>1, <2>19, SamePage, SameRows DEF M
  <2>21. ShownSoFar'
    <3>1. Len(listing'.shown) = j + k /\ j + k \in 1..n
      BY <2>14, <2>17, <2>19
    <3>2. Matching(listing.filter)' = M
      BY <2>20
    <3>3. Cardinality(Matching(listing.filter)') = n
      BY <3>2 DEF n
    <3>4. Sorted(Matching(listing.filter), L!newer_cases)' = q
      BY <3>2, <2>20 DEF q
    <3> QED BY <3>1, <3>3, <3>4, <2>19 DEF ShownSoFar
  <2>22. listing'.state = "done" => listing'.shown = q
    BY <2>19, <2>14, <2>5
  <2>23. /\ listing'.at[1] <= revision'.photo /\ listing'.at[2] <= revision'.owner
         /\ listing'.at[3] <= revision'.reconciliation
    BY <1>1, <2>19 DEF ListingInv
  <2>24. /\ revision' \in [catalog : Nat, receipt : Nat, photo : Nat, owner : Nat, reconciliation : Nat]
         /\ Len(offered') \in Nat /\ DOMAIN offered' = 1..Len(offered')
         /\ \A k_ \in DOMAIN offered' : offered'[k_].created \in Nat
    BY <1>1 DEF ListingInv
  <2>25. ListingInv'
    BY <1>2, <2>19, <2>21, <2>23, <2>24 DEF ListingInv
  <2> QED BY <2>5, <2>19, <2>22, <2>25
<1> QED BY <1>3, <1>4

\* What else happens moves the revisions on, or leaves what the list shows alone.
LEMMA OtherRows ==
    ASSUME ListingInv, UNCHANGED listing,
           revision' \in [catalog : Nat, receipt : Nat, photo : Nat, owner : Nat, reconciliation : Nat],
           Len(offered') \in Nat, DOMAIN offered' = 1..Len(offered'),
           \A k \in DOMAIN offered' : offered'[k].created \in Nat,
           revision'.photo >= revision.photo, revision'.owner >= revision.owner,
           revision'.reconciliation >= revision.reconciliation,
           \/ UNCHANGED <<review, owner, offered>>
           \/ revision'.photo > revision.photo
           \/ revision'.owner > revision.owner
           \/ revision'.reconciliation > revision.reconciliation
    PROVE  ListingInv'
<1> SUFFICES ASSUME listing.state = "more"
             PROVE  /\ listing'.at \in Nat \X Nat \X Nat
                    /\ listing'.at[1] <= revision'.photo /\ listing'.at[2] <= revision'.owner
                    /\ listing'.at[3] <= revision'.reconciliation
                    /\ listing'.at = L!make_reconciliation_cursor' => ShownSoFar'
  BY DEF ListingInv
<1>1. /\ listing.at \in Nat \X Nat \X Nat
      /\ listing.at[1] <= revision.photo /\ listing.at[2] <= revision.owner
      /\ listing.at[3] <= revision.reconciliation
      /\ listing.at = L!make_reconciliation_cursor => ShownSoFar
      /\ revision.photo \in Nat /\ revision.owner \in Nat /\ revision.reconciliation \in Nat
      /\ revision'.photo \in Nat /\ revision'.owner \in Nat /\ revision'.reconciliation \in Nat
  BY DEF ListingInv
<1>2. /\ listing.at[1] \in Nat /\ listing.at[2] \in Nat /\ listing.at[3] \in Nat
      /\ listing.at = <<listing.at[1], listing.at[2], listing.at[3]>>
  <2>1. \A at \in Nat \X Nat \X Nat :
           at[1] \in Nat /\ at[2] \in Nat /\ at[3] \in Nat /\ at = <<at[1], at[2], at[3]>>
    OBVIOUS
  <2> QED BY <1>1, <2>1
<1>3. /\ listing.at[1] <= revision'.photo /\ listing.at[2] <= revision'.owner
      /\ listing.at[3] <= revision'.reconciliation
  <2>1. \A a, b, c \in Nat : a <= b /\ c >= b => a <= c
    OBVIOUS
  <2> QED BY <1>1, <1>2, <2>1
<1>4. ASSUME listing'.at = L!make_reconciliation_cursor' PROVE ShownSoFar'
  <2>1. /\ listing.at[1] = revision'.photo /\ listing.at[2] = revision'.owner
        /\ listing.at[3] = revision'.reconciliation
    BY <1>2, <1>4 DEF L!make_reconciliation_cursor
  <2>2. /\ revision'.photo = revision.photo /\ revision'.owner = revision.owner
        /\ revision'.reconciliation = revision.reconciliation
    BY <1>1, <1>2, <2>1
  <2>3. UNCHANGED <<review, owner, offered>>
    BY <1>1, <2>2
  <2>4. ShownSoFar
    BY <1>1, <1>2, <2>1, <2>2 DEF L!make_reconciliation_cursor
  <2>5. /\ Matching(listing.filter)' = Matching(listing.filter)
        /\ (L!newer_cases)' = L!newer_cases
    BY <2>3, SamePage DEF Matching
  <2> QED BY <2>4, <2>5 DEF ShownSoFar
<1> QED BY <1>1, <1>3, <1>4

LEMMA ListingStart == ASSUME L!Init PROVE ListingInv
<1>1. /\ revision = [catalog |-> 0, receipt |-> 0, photo |-> 1, owner |-> 1, reconciliation |-> 0]
      /\ offered = <<>>
      /\ listing = [state |-> "none", filter |-> "all", shown |-> <<>>, at |-> <<>>]
  BY DEF L!Init, L!NoListing
<1>2. listing \in Listings /\ listing.state = "none"
  BY <1>1 DEF Listings
<1>3. revision \in [catalog : Nat, receipt : Nat, photo : Nat, owner : Nat, reconciliation : Nat]
  BY <1>1
<1>4. Len(offered) = 0 /\ DOMAIN offered = 1..0
  BY <1>1
<1> QED BY <1>2, <1>3, <1>4 DEF ListingInv

LEMMA ListingStep == ASSUME ListingInv, L!Next PROVE ListingInv'
<1> DEFINE Rev == [catalog : Nat, receipt : Nat, photo : Nat, owner : Nat, reconciliation : Nat]
<1>1. /\ revision \in Rev
      /\ Len(offered) \in Nat /\ DOMAIN offered = 1..Len(offered)
      /\ \A k \in DOMAIN offered : offered[k].created \in Nat
  BY DEF ListingInv
<1>2. /\ revision.photo \in Nat /\ revision.owner \in Nat /\ revision.reconciliation \in Nat
      /\ revision.catalog \in Nat /\ revision.receipt \in Nat
  BY <1>1
<1>3. /\ L!Accept("catalog") \/ L!Accept("receipt") =>
           /\ revision' \in Rev /\ revision'.photo = revision.photo
           /\ revision'.owner = revision.owner /\ revision'.reconciliation = revision.reconciliation
      /\ L!Accept("photo") =>
           /\ revision' \in Rev /\ revision'.photo = revision.photo + 1
           /\ revision'.owner = revision.owner /\ revision'.reconciliation = revision.reconciliation
      /\ L!Accept("owner") =>
           /\ revision' \in Rev /\ revision'.photo = revision.photo
           /\ revision'.owner = revision.owner + 1 /\ revision'.reconciliation = revision.reconciliation
      /\ L!Accept("reconciliation") =>
           /\ revision' \in Rev /\ revision'.photo = revision.photo
           /\ revision'.owner = revision.owner /\ revision'.reconciliation = revision.reconciliation + 1
  <2>1. ASSUME NEW name \in {"catalog", "receipt", "photo", "owner", "reconciliation"}, L!Accept(name)
        PROVE  revision' = [revision EXCEPT ![name] = @ + 1]
    BY <2>1 DEF L!Accept
  <2>2. ASSUME L!Accept("catalog")
        PROVE  /\ revision' \in Rev
               /\ revision'.photo = revision.photo
               /\ revision'.owner = revision.owner
               /\ revision'.reconciliation = revision.reconciliation
    <3>1. revision' = [revision EXCEPT !["catalog"] = @ + 1]
      BY <2>1, <2>2
    <3> QED BY <1>1, <1>2, <3>1
  <2>3. ASSUME L!Accept("receipt")
        PROVE  /\ revision' \in Rev
               /\ revision'.photo = revision.photo
               /\ revision'.owner = revision.owner
               /\ revision'.reconciliation = revision.reconciliation
    <3>1. revision' = [revision EXCEPT !["receipt"] = @ + 1]
      BY <2>1, <2>3
    <3> QED BY <1>1, <1>2, <3>1
  <2>4. ASSUME L!Accept("photo")
        PROVE  /\ revision' \in Rev
               /\ revision'.photo = revision.photo + 1
               /\ revision'.owner = revision.owner
               /\ revision'.reconciliation = revision.reconciliation
    <3>1. revision' = [revision EXCEPT !["photo"] = @ + 1]
      BY <2>1, <2>4
    <3> QED BY <1>1, <1>2, <3>1
  <2>5. ASSUME L!Accept("owner")
        PROVE  /\ revision' \in Rev
               /\ revision'.photo = revision.photo
               /\ revision'.owner = revision.owner + 1
               /\ revision'.reconciliation = revision.reconciliation
    <3>1. revision' = [revision EXCEPT !["owner"] = @ + 1]
      BY <2>1, <2>5
    <3> QED BY <1>1, <1>2, <3>1
  <2>6. ASSUME L!Accept("reconciliation")
        PROVE  /\ revision' \in Rev
               /\ revision'.photo = revision.photo
               /\ revision'.owner = revision.owner
               /\ revision'.reconciliation = revision.reconciliation + 1
    <3>1. revision' = [revision EXCEPT !["reconciliation"] = @ + 1]
      BY <2>1, <2>6
    <3> QED BY <1>1, <1>2, <3>1
  <2> QED BY <2>2, <2>3, <2>4, <2>5, <2>6
<1>4. ASSUME UNCHANGED <<review, owner, offered, listing>>,
             revision' = revision \/ L!Accept("catalog") \/ L!Accept("receipt")
      PROVE  ListingInv'
  <2>1. /\ revision' \in Rev /\ revision'.photo = revision.photo
        /\ revision'.owner = revision.owner /\ revision'.reconciliation = revision.reconciliation
    BY <1>1, <1>3, <1>4
  <2> QED BY <1>1, <1>2, <1>4, <2>1, OtherRows
<1>5. CASE \E i \in {} : L!merge_item(i) \/ \E image \in Images : L!save_item(i, image)
  BY <1>5
<1>6. ASSUME NEW l, NEW action, NEW reading, L!review_receipt(l, action, reading) PROVE ListingInv'
  BY <1>4, <1>6 DEF L!review_receipt
<1>7. ASSUME NEW state, L!review_photo_observation(state) PROVE ListingInv'
  <2>1. L!Accept("photo") /\ UNCHANGED <<offered, listing>>
    BY <1>7 DEF L!review_photo_observation
  <2>2. /\ revision' \in Rev /\ revision'.photo = revision.photo + 1
        /\ revision'.owner = revision.owner /\ revision'.reconciliation = revision.reconciliation
    BY <1>3, <2>1
  <2>3. revision'.photo > revision.photo /\ revision'.photo >= revision.photo
    BY <1>2, <2>2
  <2> QED BY <1>1, <1>2, <2>1, <2>2, <2>3, OtherRows
<1>8. CASE L!correct_photo_owner
  <2>1. L!Accept("owner") /\ UNCHANGED <<offered, listing>>
    BY <1>8 DEF L!correct_photo_owner
  <2>2. /\ revision' \in Rev /\ revision'.photo = revision.photo
        /\ revision'.owner = revision.owner + 1 /\ revision'.reconciliation = revision.reconciliation
    BY <1>3, <2>1
  <2>3. revision'.owner > revision.owner /\ revision'.owner >= revision.owner
    BY <1>2, <2>2
  <2> QED BY <1>1, <1>2, <2>1, <2>2, <2>3, OtherRows
<1>9. ASSUME NEW t, NEW version, L!load_proposal(t, version) PROVE ListingInv'
  BY <1>4, <1>9 DEF L!load_proposal
<1>10. ASSUME NEW t, L!open_refused(t) PROVE ListingInv'
  BY <1>4, <1>10 DEF L!open_refused
<1>11. ASSUME NEW t, NEW created \in 1..2, L!open_reconciliation_case(t, created) PROVE ListingInv'
  <2>1. /\ L!Accept("reconciliation") /\ UNCHANGED listing
        /\ \/ offered' = offered
           \/ offered' = Append(offered, L!proposed_case(opening[t].snapshot, created))
    BY <1>11 DEF L!open_reconciliation_case
  <2>2. /\ revision' \in Rev /\ revision'.photo = revision.photo
        /\ revision'.owner = revision.owner
        /\ revision'.reconciliation = revision.reconciliation + 1
    BY <1>3, <2>1
  <2>3. revision'.reconciliation > revision.reconciliation
        /\ revision'.reconciliation >= revision.reconciliation
    BY <1>2, <2>2
  <2>4. /\ Len(offered') \in Nat /\ DOMAIN offered' = 1..Len(offered')
        /\ \A k \in DOMAIN offered' : offered'[k].created \in Nat
    <3>1. CASE offered' = offered
      BY <1>1, <3>1
    <3>2. CASE offered' = Append(offered, L!proposed_case(opening[t].snapshot, created))
      <4> DEFINE c == L!proposed_case(opening[t].snapshot, created)
      <4>1. c.created \in Nat
        BY <1>11 DEF L!proposed_case
      <4> HIDE DEF c
      <4>2. /\ Len(offered') = Len(offered) + 1 /\ DOMAIN offered' = 1..(Len(offered) + 1)
            /\ \A k \in 1..Len(offered) : offered'[k] = offered[k]
            /\ offered'[Len(offered) + 1] = c
        BY <3>2, <1>1 DEF c
      <4>3. \A k \in 1..(Len(offered) + 1) : k \in 1..Len(offered) \/ k = Len(offered) + 1
        BY <1>1
      <4> QED BY <1>1, <4>1, <4>2, <4>3
    <3> QED BY <2>1, <3>1, <3>2
  <2>5. UNCHANGED listing /\ revision'.photo >= revision.photo /\ revision'.owner >= revision.owner
    BY <1>2, <2>1, <2>2
  <2> QED BY <2>2, <2>3, <2>4, <2>5, OtherRows
<1>12. ASSUME NEW k \in DOMAIN offered, NEW outcome, NEW selected,
              L!decide_reconciliation_case(k, outcome, selected)
       PROVE  ListingInv'
  <2>1. /\ L!Accept("reconciliation") /\ UNCHANGED listing
        /\ offered' = [offered EXCEPT ![k].head = [outcome |-> outcome, selected |-> selected],
                         ![k].case_revision = @ + 1]
    BY <1>12 DEF L!decide_reconciliation_case, L!insert_reconciliation_decision
  <2>2. /\ revision' \in Rev /\ revision'.photo = revision.photo
        /\ revision'.owner = revision.owner
        /\ revision'.reconciliation = revision.reconciliation + 1
    BY <1>3, <2>1
  <2>3. revision'.reconciliation > revision.reconciliation
        /\ revision'.reconciliation >= revision.reconciliation
    BY <1>2, <2>2
  <2>4. /\ Len(offered') \in Nat /\ DOMAIN offered' = 1..Len(offered')
        /\ \A m \in DOMAIN offered' : offered'[m].created \in Nat
    <3>1. DOMAIN offered' = DOMAIN offered /\ \A m \in DOMAIN offered : offered'[m].created = offered[m].created
      BY <2>1
    <3>2. Len(offered') = Len(offered)
      BY <2>1, <3>1, <1>1
    <3> QED BY <1>1, <3>1, <3>2
  <2> QED BY <1>2, <2>1, <2>2, <2>3, <2>4, OtherRows
<1>13. CASE \E filter \in Filters : L!list_reconciliation_cases(filter)
  BY <1>13, FirstPage
<1>14. CASE L!list_next_page
  BY <1>14, NextPage
<1> QED BY <1>5, <1>6, <1>7, <1>8, <1>9, <1>10, <1>11, <1>12, <1>13, <1>14 DEF L!Next

\* Only the list's own commands show anything.
LEMMA PagesAreListed ==
    ASSUME ListingInv, L!Next
    PROVE  listing' # listing /\ listing'.state = "done"
             => listing'.shown = L!newest_first(listing'.filter)
<1>1. ASSUME L!Next, listing' # listing
      PROVE  (\E filter \in Filters : L!list_reconciliation_cases(filter)) \/ L!list_next_page
  BY <1>1 DEF L!Next, L!merge_item, L!save_item, L!review_receipt, L!review_photo_observation,
       L!correct_photo_owner, L!load_proposal, L!open_reconciliation_case, L!open_refused,
       L!decide_reconciliation_case
<1> QED BY <1>1, FirstPage, NextPage

-----------------------------------------------------------------------------
(* What a case offers.                                                     *)

CatalogRows == [active : BOOLEAN, updated : Nat, image : Images \cup {F!NoImage}]
ReceiptRows ==
    [action : {"none", "confirm", "correct", "reject"}, extracted : Readings, corrected : Readings]

\* A snapshot holds rows of the tables, each once.
SoundSnapshot(s) ==
    /\ Len(s.catalog) \in Nat
    /\ s.catalog \in [1..Len(s.catalog) -> [item : Items, row : CatalogRows]]
    /\ \A k, m \in 1..Len(s.catalog) : s.catalog[k].item = s.catalog[m].item => k = m
    /\ Len(s.receipts) \in Nat
    /\ s.receipts \in [1..Len(s.receipts) -> [line : Lines, row : ReceiptRows]]
    /\ \A k, m \in 1..Len(s.receipts) : s.receipts[k].line = s.receipts[m].line => k = m

OffersInv ==
    /\ catalog \in [Items -> CatalogRows]
    /\ receipts \in [Lines -> ReceiptRows]
    /\ revision \in [catalog : Nat, receipt : Nat, photo : Nat, owner : Nat, reconciliation : Nat]
    /\ Len(offered) \in Nat /\ DOMAIN offered = 1..Len(offered)
    /\ DOMAIN opening = Callers
    /\ \A t \in Callers : opening[t] # F!NoSnapshot => SoundSnapshot(opening[t].snapshot)

LEMMA OfferSizes == ASSUME NEW U PROVE F!Cardinality(U) = Cardinality(U)
  BY DEF Cardinality, F!Cardinality

LEMMA OffersAreSorted == ASSUME NEW U, NEW R PROVE F!Ordered(U, R) = Sorted(U, R)
  BY OfferSizes DEF F!Ordered, Sorted

LEMMA FirstOffers ==
    ASSUME NEW V, NEW n \in Nat, NEW q \in [1..n -> V], NEW p \in Nat \ {0}
    PROVE  \E m \in 0..n :
              /\ m = IF p < n THEN p ELSE n
              /\ F!First(q, p) = [k \in 1..m |-> q[k]]
              /\ F!First(q, p) \in [1..m -> V]
              /\ Len(F!First(q, p)) = m
<1> DEFINE m == IF p < n THEN p ELSE n
<1>1. Len(q) = n /\ q \in Seq(V)
  OBVIOUS
<1>2. F!Min2(p, n) = m /\ m \in 0..n
  BY DEF F!Min2
<1>3. SubSeq(q, 1, m) = [k \in 1..m |-> q[k]]
  BY <1>1, <1>2
<1>4. F!First(q, p) = [k \in 1..m |-> q[k]]
  BY <1>1, <1>2, <1>3 DEF F!First
<1> HIDE DEF m
<1>5. \A k \in 1..m : k \in 1..n
  BY <1>2
<1>6. F!First(q, p) \in [1..m -> V] /\ m \in Nat
  BY <1>2, <1>4, <1>5
<1>7. Len(F!First(q, p)) = m
  BY <1>6
<1> QED BY <1>2, <1>4, <1>6, <1>7 DEF m

\* Images that are measured are measured within the limits.
LEMMA ImagesAreMeasured ==
    ASSUME NEW image \in Images \cup {F!NoImage}, F!measured(image)
    PROVE  /\ image.hash \in Nat /\ image.hash <= 64
           /\ image.color \in Nat /\ image.color <= 765
  BY MatchingAssumption DEF F!NoImage, F!measured

LEMMA ItemsHaveAnOrder ==
    ASSUME OffersInv, NEW U \in SUBSET Items
    PROVE  IsFiniteSet(U) /\ Orders(F!newer_items, U)
<1>1. IsFiniteSet(U)
  BY MatchingAssumption, FS_Subset
<1>2. \A i \in U : i \in Nat /\ catalog[i].updated \in Nat
  BY MatchingAssumption DEF OffersInv, CatalogRows
<1>3. \A i, j \in U : <<i, j>> \in F!newer_items <=>
         \/ catalog[i].updated > catalog[j].updated
         \/ catalog[i].updated = catalog[j].updated /\ i < j
  BY DEF F!newer_items
<1> QED BY <1>1, <1>2, <1>3 DEF Orders

LEMMA LinesHaveAnOrder ==
    ASSUME OffersInv, NEW U \in SUBSET Lines
    PROVE  IsFiniteSet(U) /\ Orders(F!likelier_lines, U)
<1>1. IsFiniteSet(U)
  BY MatchingAssumption, FS_Subset
<1>2. \A l \in U : l \in Nat /\ F!authoritative(l).date \in Nat
  BY MatchingAssumption DEF OffersInv, ReceiptRows, F!authoritative
<1>3. \A l, m \in U : <<l, m>> \in F!likelier_lines <=>
         \/ ~F!returned(l) /\ F!returned(m)
         \/ /\ F!returned(l) = F!returned(m)
            /\ \/ F!authoritative(l).date > F!authoritative(m).date
               \/ F!authoritative(l).date = F!authoritative(m).date /\ l < m
  BY DEF F!likelier_lines, F!likelier
<1>4. \A l \in U : F!returned(l) \in BOOLEAN
  BY DEF F!returned
<1>5. \A x, y \in U : ~ (<<x, y>> \in F!likelier_lines /\ <<y, x>> \in F!likelier_lines)
  <2> SUFFICES ASSUME NEW x \in U, NEW y \in U,
                      <<x, y>> \in F!likelier_lines, <<y, x>> \in F!likelier_lines
               PROVE  FALSE
    OBVIOUS
  <2> DEFINE d(l) == F!authoritative(l).date
  <2>1. x \in Nat /\ y \in Nat /\ d(x) \in Nat /\ d(y) \in Nat
    BY <1>2
  <2>2. d(x) > d(y) \/ (d(x) = d(y) /\ x < y)
    BY <1>3, <1>4
  <2>3. d(y) > d(x) \/ (d(x) = d(y) /\ y < x)
    BY <1>3, <1>4
  <2> HIDE DEF d
  <2> QED BY <2>1, <2>2, <2>3
<1>6. \A x, y \in U : x # y => <<x, y>> \in F!likelier_lines \/ <<y, x>> \in F!likelier_lines
  BY <1>2, <1>3, <1>4
<1>7. \A x, y, z \in U : <<x, y>> \in F!likelier_lines /\ <<y, z>> \in F!likelier_lines
                           => <<x, z>> \in F!likelier_lines
  <2> SUFFICES ASSUME NEW x \in U, NEW y \in U, NEW z \in U,
                      <<x, y>> \in F!likelier_lines, <<y, z>> \in F!likelier_lines
               PROVE  <<x, z>> \in F!likelier_lines
    OBVIOUS
  <2> DEFINE d(l) == F!authoritative(l).date
  <2>1. /\ x \in Nat /\ y \in Nat /\ z \in Nat /\ d(x) \in Nat /\ d(y) \in Nat /\ d(z) \in Nat
        /\ F!returned(x) \in BOOLEAN /\ F!returned(y) \in BOOLEAN /\ F!returned(z) \in BOOLEAN
    BY <1>2, <1>4
  <2>2. /\ \/ ~F!returned(x) /\ F!returned(y)
           \/ F!returned(x) = F!returned(y) /\ (d(x) > d(y) \/ (d(x) = d(y) /\ x < y))
        /\ \/ ~F!returned(y) /\ F!returned(z)
           \/ F!returned(y) = F!returned(z) /\ (d(y) > d(z) \/ (d(y) = d(z) /\ y < z))
    BY <1>3
  <2> HIDE DEF d
  <2>3. \/ ~F!returned(x) /\ F!returned(z)
        \/ F!returned(x) = F!returned(z) /\ (d(x) > d(z) \/ (d(x) = d(z) /\ x < z))
    BY <2>1, <2>2
  <2> QED BY <2>3, <1>3 DEF d
<1> QED BY <1>1, <1>5, <1>6, <1>7 DEF Orders

\* The pools: rows of the wardrobe and reviewed lines, each once.
LEMMA PoolOfItems ==
    ASSUME OffersInv
    PROVE  LET q == F!load_catalog_snapshots IN
           /\ Len(q) \in Nat /\ q \in [1..Len(q) -> {i \in Items : catalog[i].active}]
           /\ \A k, m \in 1..Len(q) : q[k] = q[m] => k = m
<1> DEFINE U == {i \in Items : catalog[i].active}
           n == Cardinality(U)
           all == Sorted(U, F!newer_items)
<1>1. IsFiniteSet(U) /\ Orders(F!newer_items, U)
  BY ItemsHaveAnOrder
<1> HIDE DEF U
<1>2. n \in Nat /\ InOrder(all, U, F!newer_items)
  BY <1>1, SortedRows
<1>3. all \in [1..n -> U] /\ \A k, m \in 1..n : all[k] = all[m] => k = m
  BY <1>1, <1>2, EveryRowOnce DEF InOrder
<1>4. F!load_catalog_snapshots = F!First(all, PoolSize) /\ PoolSize \in Nat \ {0}
  BY OffersAreSorted, MatchingAssumption DEF F!load_catalog_snapshots, U
<1> HIDE DEF n, all
<1>5. PICK m \in 0..n : /\ F!First(all, PoolSize) = [k \in 1..m |-> all[k]]
                        /\ F!First(all, PoolSize) \in [1..m -> U]
                        /\ Len(F!First(all, PoolSize)) = m
  BY <1>2, <1>3, <1>4, FirstOffers
<1>6. \A k \in 1..m : k \in 1..n
  BY <1>2
<1> QED BY <1>2, <1>3, <1>4, <1>5, <1>6 DEF U

LEMMA PoolOfLines ==
    ASSUME OffersInv
    PROVE  LET q == F!load_receipt_snapshots IN
           /\ Len(q) \in Nat
           /\ q \in [1..Len(q) -> {l \in Lines : receipts[l].action \in {"confirm", "correct"}}]
           /\ \A k, m \in 1..Len(q) : q[k] = q[m] => k = m
<1> DEFINE U == {l \in Lines : receipts[l].action \in {"confirm", "correct"}}
           n == Cardinality(U)
           all == Sorted(U, F!likelier_lines)
<1>1. IsFiniteSet(U) /\ Orders(F!likelier_lines, U)
  BY LinesHaveAnOrder
<1> HIDE DEF U
<1>2. n \in Nat /\ InOrder(all, U, F!likelier_lines)
  BY <1>1, SortedRows
<1>3. all \in [1..n -> U] /\ \A k, m \in 1..n : all[k] = all[m] => k = m
  BY <1>1, <1>2, EveryRowOnce DEF InOrder
<1>4. F!load_receipt_snapshots = F!First(all, PoolSize) /\ PoolSize \in Nat \ {0}
  BY OffersAreSorted, MatchingAssumption DEF F!load_receipt_snapshots, U
<1> HIDE DEF n, all
<1>5. PICK m \in 0..n : /\ F!First(all, PoolSize) = [k \in 1..m |-> all[k]]
                        /\ F!First(all, PoolSize) \in [1..m -> U]
                        /\ Len(F!First(all, PoolSize)) = m
  BY <1>2, <1>3, <1>4, FirstOffers
<1>6. \A k \in 1..m : k \in 1..n
  BY <1>2
<1> QED BY <1>2, <1>3, <1>4, <1>5, <1>6 DEF U

LEMMA SnapshotsAreSound == ASSUME OffersInv PROVE SoundSnapshot(F!load_proposal_snapshot)
<1> DEFINE s == F!load_proposal_snapshot
           items == F!load_catalog_snapshots
           lines == F!load_receipt_snapshots
<1>1. /\ Len(items) \in Nat /\ items \in [1..Len(items) -> Items]
      /\ \A k, m \in 1..Len(items) : items[k] = items[m] => k = m
  BY PoolOfItems
<1>2. /\ Len(lines) \in Nat /\ lines \in [1..Len(lines) -> Lines]
      /\ \A k, m \in 1..Len(lines) : lines[k] = lines[m] => k = m
  BY PoolOfLines
<1>3. /\ s.catalog = [k \in DOMAIN items |-> [item |-> items[k], row |-> catalog[items[k]]]]
      /\ s.receipts = [k \in DOMAIN lines |-> [line |-> lines[k], row |-> receipts[lines[k]]]]
  BY DEF F!load_proposal_snapshot
<1>4. catalog \in [Items -> CatalogRows] /\ receipts \in [Lines -> ReceiptRows]
  BY DEF OffersInv
<1> HIDE DEF s, items, lines
<1>5. /\ s.catalog \in [1..Len(items) -> [item : Items, row : CatalogRows]]
      /\ \A k, m \in 1..Len(items) : s.catalog[k].item = s.catalog[m].item => k = m
  BY <1>1, <1>3, <1>4
<1>6. Len(s.catalog) = Len(items)
  BY <1>1, <1>5
<1>7. /\ s.receipts \in [1..Len(lines) -> [line : Lines, row : ReceiptRows]]
      /\ \A k, m \in 1..Len(lines) : s.receipts[k].line = s.receipts[m].line => k = m
  BY <1>2, <1>3, <1>4
<1>8. Len(s.receipts) = Len(lines)
  BY <1>2, <1>7
<1>9. SoundSnapshot(s)
  BY <1>1, <1>2, <1>5, <1>6, <1>7, <1>8 DEF SoundSnapshot
<1> QED BY <1>9 DEF s

Rank(s) == Sorted(1..Len(s.catalog), F!closer_items(s.catalog))

\* The items of a snapshot in the order of their images.
LEMMA ItemsAreRanked ==
    ASSUME NEW s, SoundSnapshot(s)
    PROVE  LET n == Len(s.catalog) IN
           /\ n \in Nat
           /\ Rank(s) \in [1..n -> 1..n]
           /\ \A k, m \in 1..n : Rank(s)[k] = Rank(s)[m] => k = m
           /\ \A k \in 1..n : \E m \in 1..n : Rank(s)[m] = k
           /\ \A k, m \in 1..n : k < m => <<Rank(s)[k], Rank(s)[m]>> \in F!closer_items(s.catalog)
           /\ F!ranked_items(s.catalog) = [k \in 1..n |-> s.catalog[Rank(s)[k]]]
<1> DEFINE n == Len(s.catalog)
           R == F!closer_items(s.catalog)
           im(k) == s.catalog[k].row.image
<1>1. n \in Nat /\ DOMAIN s.catalog = 1..n
      /\ s.catalog \in [1..n -> [item : Items, row : CatalogRows]]
  BY DEF SoundSnapshot
<1>2. \A k \in 1..n : im(k) \in Images \cup {F!NoImage}
  BY <1>1 DEF CatalogRows
<1>3. \A k \in 1..n : F!measured(im(k)) => im(k).hash \in Nat /\ im(k).color \in Nat
  <2> SUFFICES ASSUME NEW k \in 1..n, F!measured(im(k))
               PROVE  im(k).hash \in Nat /\ im(k).color \in Nat
    OBVIOUS
  <2>1. im(k) \in Images \cup {F!NoImage}
    BY <1>2
  <2> HIDE DEF im
  <2>2. im(k).hash \in Nat /\ im(k).color \in Nat
    BY <2>1, ImagesAreMeasured
  <2> QED BY <2>2 DEF im
<1>4. \A k, m \in 1..n : <<k, m>> \in R
        <=> F!more_like(im(k), im(m)) \/ (~F!more_like(im(m), im(k)) /\ k < m)
  BY <1>1 DEF F!closer_items
<1>5. \A k, m \in 1..n : F!more_like(im(k), im(m)) <=>
        \/ F!measured(im(k)) /\ ~F!measured(im(m))
        \/ /\ F!measured(im(k)) /\ F!measured(im(m))
           /\ \/ im(k).hash < im(m).hash
              \/ im(k).hash = im(m).hash /\ im(k).color < im(m).color
  BY DEF F!more_like, F!closer
<1>6. \A k \in 1..n : F!measured(im(k)) \in BOOLEAN
  BY DEF F!measured
<1> HIDE DEF n, R, im
<1>7. Orders(R, 1..n)
  <2>1. ASSUME NEW x \in 1..n, NEW y \in 1..n, F!more_like(im(x), im(y))
        PROVE  ~F!more_like(im(y), im(x))
    BY <1>3, <1>5, <2>1
  <2>2. ASSUME NEW x \in 1..n, NEW y \in 1..n, NEW z \in 1..n,
               F!more_like(im(x), im(z))
        PROVE  F!more_like(im(x), im(y)) \/ F!more_like(im(y), im(z))
    <3>1. CASE F!measured(im(y))
      BY <1>3, <1>5, <2>2, <3>1
    <3>2. CASE ~F!measured(im(y))
      BY <1>3, <1>5, <2>2, <3>2
    <3> QED BY <3>1, <3>2
  <2>3. ASSUME NEW x \in 1..n, NEW y \in 1..n, <<x, y>> \in R, <<y, x>> \in R PROVE FALSE
    <3>1. F!more_like(im(x), im(y)) \/ (~F!more_like(im(y), im(x)) /\ x < y)
      BY <1>4, <2>3
    <3>2. F!more_like(im(y), im(x)) \/ (~F!more_like(im(x), im(y)) /\ y < x)
      BY <1>4, <2>3
    <3>3. ~ (x < y /\ y < x)
      BY <1>1
    <3>4. ~ (F!more_like(im(x), im(y)) /\ F!more_like(im(y), im(x)))
      BY <2>1
    <3> QED BY <3>1, <3>2, <3>3, <3>4
  <2>4. ASSUME NEW x \in 1..n, NEW y \in 1..n, x # y PROVE <<x, y>> \in R \/ <<y, x>> \in R
    <3>1. x < y \/ y < x
      BY <1>1, <2>4
    <3> QED BY <1>4, <3>1
  <2>5. ASSUME NEW x \in 1..n, NEW y \in 1..n, NEW z \in 1..n, <<x, y>> \in R, <<y, z>> \in R
        PROVE  <<x, z>> \in R
    <3>1. ~F!more_like(im(y), im(x)) /\ ~F!more_like(im(z), im(y))
      BY <1>4, <2>1, <2>5
    <3>2. ~F!more_like(im(z), im(x))
      BY <3>1, <2>2
    <3>3. CASE F!more_like(im(x), im(y))
      <4>1. F!more_like(im(x), im(z)) \/ F!more_like(im(z), im(y))
        BY <2>2, <3>3
      <4> QED BY <1>4, <3>1, <4>1
    <3>4. CASE F!more_like(im(y), im(z))
      <4>1. F!more_like(im(y), im(x)) \/ F!more_like(im(x), im(z))
        BY <2>2, <3>4
      <4> QED BY <1>4, <3>1, <4>1
    <3>5. CASE ~F!more_like(im(x), im(y)) /\ ~F!more_like(im(y), im(z))
      <4>1. x < y /\ y < z
        BY <1>4, <2>5, <3>5
      <4>2. x < z
        BY <4>1, <1>1
      <4> QED BY <1>4, <3>2, <4>2
    <3> QED BY <3>3, <3>4, <3>5
  <2> QED BY <2>3, <2>4, <2>5 DEF Orders
<1>8. IsFiniteSet(1..n) /\ Cardinality(1..n) = n
  BY <1>1, FS_Interval
<1>9. Rank(s) = Sorted(1..n, R)
  BY DEF Rank, n, R
<1>10. InOrder(Rank(s), 1..n, R)
  BY <1>7, <1>8, <1>9, SortedRows
<1>11. /\ \A k, m \in 1..n : Rank(s)[k] = Rank(s)[m] => k = m
       /\ \A x \in 1..n : \E m \in 1..n : Rank(s)[m] = x
  <2>1. /\ \A k, m \in 1..Cardinality(1..n) : Rank(s)[k] = Rank(s)[m] => k = m
        /\ \A x \in 1..n : \E m \in 1..Cardinality(1..n) : Rank(s)[m] = x
    <3> DEFINE U == 1..n
    <3> HIDE DEF U
    <3>1. IsFiniteSet(U) /\ Orders(R, U) /\ InOrder(Rank(s), U, R)
      BY <1>7, <1>8, <1>10 DEF U
    <3>2. /\ \A k, m \in 1..Cardinality(U) : Rank(s)[k] = Rank(s)[m] => k = m
          /\ \A x \in U : \E m \in 1..Cardinality(U) : Rank(s)[m] = x
      BY <3>1, EveryRowOnce
    <3> QED BY <3>2 DEF U
  <2> QED BY <2>1, <1>8
<1>12. /\ Rank(s) \in [1..n -> 1..n]
       /\ \A k, m \in 1..n : k < m => <<Rank(s)[k], Rank(s)[m]>> \in R
  BY <1>8, <1>10 DEF InOrder
<1>13. F!Ordered(DOMAIN s.catalog, F!closer_items(s.catalog)) = Rank(s)
  BY <1>1, <1>9, OffersAreSorted DEF R
<1>14. F!ranked_items(s.catalog) = [k \in 1..n |-> s.catalog[Rank(s)[k]]]
  BY <1>12, <1>13 DEF F!ranked_items
<1> QED BY <1>1, <1>11, <1>12, <1>14 DEF n, R

\* Two lists and the explicit no match make one.
Joins(h, f, g, z, a, b) ==
    /\ DOMAIN h = 1..(a + b + 1) /\ Len(h) = a + b + 1
    /\ \A k \in 1..a : h[k] = f[k]
    /\ \A k \in 1..b : h[a + k] = g[k]
    /\ h[a + b + 1] = z

LEMMA Joined ==
    ASSUME NEW V, NEW a \in Nat, NEW b \in Nat, NEW f \in [1..a -> V], NEW g \in [1..b -> V],
           NEW z \in V
    PROVE  Joins(f \o g \o <<z>>, f, g, z, a, b)
<1>1. f \in Seq(V) /\ g \in Seq(V) /\ Len(f) = a /\ Len(g) = b
  OBVIOUS
<1> DEFINE d == f \o g
<1>2. /\ d \in Seq(V) /\ Len(d) = a + b
      /\ \A k \in 1..a : d[k] = f[k]
      /\ \A k \in 1..b : d[a + k] = g[k]
  BY <1>1
<1> HIDE DEF d
<1> DEFINE c == d \o <<z>>
<1>3. /\ c \in Seq(V) /\ Len(c) = a + b + 1
      /\ \A k \in 1..(a + b) : c[k] = d[k]
      /\ c[a + b + 1] = z
  BY <1>2
<1>4. \A k \in 1..a : k \in 1..(a + b)
  OBVIOUS
<1>5. \A k \in 1..b : a + k \in 1..(a + b)
  OBVIOUS
<1> HIDE DEF c
<1>6. c \in [1..(a + b + 1) -> V]
  BY <1>3
<1>7. /\ \A k \in 1..a : c[k] = f[k]
      /\ \A k \in 1..b : c[a + k] = g[k]
  BY <1>2, <1>3, <1>4, <1>5
<1>8. c = f \o g \o <<z>>
  BY DEF c, d
<1>9. Joins(c, f, g, z, a, b)
  BY <1>3, <1>6, <1>7 DEF Joins
<1> QED BY <1>8, <1>9

\* What is offered: the first items, the first lines, and that nothing matches.
LEMMA CandidatesAre ==
    ASSUME NEW s, SoundSnapshot(s)
    PROVE  \E a \in 0..Len(s.catalog), b \in 0..Len(s.receipts) :
             LET c == F!build_candidates(s) IN
             /\ a = IF Shown < Len(s.catalog) THEN Shown ELSE Len(s.catalog)
             /\ b <= Shown
             /\ Len(c) = a + b + 1 /\ DOMAIN c = 1..(a + b + 1)
             /\ \A k \in 1..a : c[k] = F!build_wardrobe_candidate(s.catalog[Rank(s)[k]])
             /\ \A k \in 1..b : c[a + k] = F!build_receipt_candidate(s.receipts[k])
             /\ c[a + b + 1] = F!NoMatch
<1> DEFINE n == Len(s.catalog)
           m == Len(s.receipts)
           ranked == F!ranked_items(s.catalog)
           items == F!First(ranked, Shown)
           lines == F!First(s.receipts, Shown)
           Rows1 == [item : Items, row : CatalogRows]
           Rows2 == [line : Lines, row : ReceiptRows]
<1>1. /\ n \in Nat /\ ranked = [k \in 1..n |-> s.catalog[Rank(s)[k]]]
      /\ Rank(s) \in [1..n -> 1..n]
  BY ItemsAreRanked
<1>2. s.catalog \in [1..n -> Rows1] /\ m \in Nat /\ s.receipts \in [1..m -> Rows2]
      /\ Shown \in Nat \ {0}
  BY MatchingAssumption DEF SoundSnapshot
<1> HIDE DEF ranked, n, m, Rows1, Rows2
<1>3. n \in Nat /\ ranked \in [1..n -> Rows1] /\ Shown \in Nat \ {0}
  BY <1>1, <1>2
<1>4. PICK a \in 0..n : /\ a = IF Shown < n THEN Shown ELSE n
                        /\ items = [k \in 1..a |-> ranked[k]]
                        /\ items \in [1..a -> Rows1]
  <2>1. \E k \in 0..n : /\ k = IF Shown < n THEN Shown ELSE n
                        /\ F!First(ranked, Shown) = [j \in 1..k |-> ranked[j]]
                        /\ F!First(ranked, Shown) \in [1..k -> Rows1]
                        /\ Len(F!First(ranked, Shown)) = k
    BY <1>3, FirstOffers
  <2> QED BY <2>1
<1>5. PICK b \in 0..m : /\ b = IF Shown < m THEN Shown ELSE m
                        /\ lines = [k \in 1..b |-> s.receipts[k]]
                        /\ lines \in [1..b -> Rows2]
  BY <1>2, FirstOffers
<1> HIDE DEF items, lines
<1>6. a \in Nat /\ b \in Nat /\ b <= Shown /\ \A k \in 1..a : k \in 1..n
  BY <1>1, <1>2, <1>4, <1>5
<1> DEFINE f == [k \in DOMAIN items |-> F!build_wardrobe_candidate(items[k])]
           g == [k \in DOMAIN lines |-> F!build_receipt_candidate(lines[k])]
           V == {f[k] : k \in 1..a} \cup {g[k] : k \in 1..b} \cup {F!NoMatch}
<1>7. f \in [1..a -> V] /\ g \in [1..b -> V] /\ F!NoMatch \in V
  BY <1>4, <1>5
<1>8. /\ \A k \in 1..a : f[k] = F!build_wardrobe_candidate(s.catalog[Rank(s)[k]])
      /\ \A k \in 1..b : g[k] = F!build_receipt_candidate(s.receipts[k])
  BY <1>1, <1>4, <1>5, <1>6
<1>9. F!build_candidates(s) = f \o g \o <<F!NoMatch>>
  BY DEF F!build_candidates, items, lines, ranked
<1> HIDE DEF f, g, V
<1> DEFINE c == F!build_candidates(s)
<1>10. Joins(c, f, g, F!NoMatch, a, b)
  <2>1. Joins(f \o g \o <<F!NoMatch>>, f, g, F!NoMatch, a, b)
    <3>1. PICK i \in Nat, j \in Nat : i = a /\ j = b
      BY <1>6
    <3>2. f \in [1..i -> V] /\ g \in [1..j -> V]
      BY <1>7, <3>1
    <3>3. Joins(f \o g \o <<F!NoMatch>>, f, g, F!NoMatch, i, j)
      BY <1>7, <3>2, Joined
    <3> QED BY <3>1, <3>3
  <2> QED BY <1>9, <2>1
<1> HIDE DEF c
<1>11. /\ Len(c) = a + b + 1 /\ DOMAIN c = 1..(a + b + 1)
       /\ \A k \in 1..a : c[k] = F!build_wardrobe_candidate(s.catalog[Rank(s)[k]])
       /\ \A k \in 1..b : c[a + k] = F!build_receipt_candidate(s.receipts[k])
       /\ c[a + b + 1] = F!NoMatch
  BY <1>8, <1>10 DEF Joins
<1> QED BY <1>4, <1>5, <1>6, <1>11 DEF c, n, m

\* What a proposal says of an item and of a line keeps the contract of its answer.
LEMMA ItemsAreValid ==
    ASSUME NEW r \in [item : Items, row : CatalogRows]
    PROVE  LET c == F!build_wardrobe_candidate(r) IN
           c.kind = "wardrobe_item" /\ c.id = r.item /\ F!valid_candidate(c)
<1> DEFINE im == r.row.image
           E == IF F!measured(im) THEN F!measured_visual_evidence(im)
                ELSE F!catalog_status_evidence(im)
           c == F!build_wardrobe_candidate(r)
<1>1. im \in Images \cup {F!NoImage}
  BY DEF CatalogRows
<1>2. c = [kind |-> "wardrobe_item", id |-> r.item, relation |-> "same_physical_item",
           evidence |-> E]
  BY DEF F!build_wardrobe_candidate, F!measured
<1> HIDE DEF im, c
<1>3. \A e \in E : /\ F!valid_evidence(e)
                   /\ e.feature \in {"hash_distance", "color_distance", "catalog_image_status"}
  <2>1. CASE F!measured(im)
    <3> DEFINE h == [feature |-> "hash_distance", polarity |-> F!Graded(im.hash, 8, 23),
                     code |-> "measured", measured |-> im.hash]
               d == [feature |-> "color_distance", polarity |-> F!Graded(im.color, 48, 191),
                     code |-> "measured", measured |-> im.color]
    <3>1. E = {h, d}
      BY <2>1 DEF F!measured_visual_evidence, F!Evidence
    <3>2. im.hash <= 64 /\ im.color <= 765
      BY <1>1, <2>1, ImagesAreMeasured
    <3>3. F!valid_evidence(h) /\ h.feature = "hash_distance"
      BY <3>2 DEF F!valid_evidence
    <3>4. F!valid_evidence(d) /\ d.feature = "color_distance"
      BY <3>2 DEF F!valid_evidence
    <3> HIDE DEF h, d, E
    <3> QED BY <3>1, <3>3, <3>4
  <2>2. CASE ~F!measured(im)
    BY <2>2 DEF F!catalog_status_evidence, F!Evidence, F!valid_evidence
  <2> QED BY <2>1, <2>2
<1> HIDE DEF E
<1> QED BY <1>2, <1>3 DEF F!valid_candidate, c

LEMMA LinesAreValid ==
    ASSUME NEW r \in [line : Lines, row : ReceiptRows]
    PROVE  LET c == F!build_receipt_candidate(r) IN
           /\ c.kind = "receipt_line" /\ c.id = r.line /\ F!valid_candidate(c)
           /\ F!receipt_event_evidence(IF r.row.action = "correct" THEN r.row.corrected
                                       ELSE r.row.extracted) \in c.evidence
<1> DEFINE reading == IF r.row.action = "correct" THEN r.row.corrected ELSE r.row.extracted
           e1 == F!receipt_review_evidence(r.row)
           e2 == F!receipt_event_evidence(reading)
           e3 == F!purchase_chronology_evidence(reading)
           e4 == F!extracted_provenance_evidence(r.row)
           c == F!build_receipt_candidate(r)
<1>1. reading \in Readings
  BY DEF ReceiptRows
<1>2. reading.date \in 0..2
  <2> HIDE DEF reading
  <2> QED BY <1>1, MatchingAssumption
<1>3. c = [kind |-> "receipt_line", id |-> r.line, relation |-> "same_product_variant",
           evidence |-> {e1, e2, e3, e4}]
  BY DEF F!build_receipt_candidate
<1> HIDE DEF reading, c
<1>4. F!valid_evidence(e1) /\ e1.feature = "receipt_review_state"
  BY DEF F!receipt_review_evidence, F!Evidence, F!valid_evidence
<1>5. F!valid_evidence(e2) /\ e2.feature = "receipt_event_kind"
  BY DEF F!receipt_event_evidence, F!Evidence, F!valid_evidence
<1>6. F!valid_evidence(e3) /\ e3.feature = "purchase_chronology"
  BY <1>2 DEF F!purchase_chronology_evidence, F!Evidence, F!valid_evidence
<1>7. F!valid_evidence(e4) /\ e4.feature = "extracted_receipt_provenance"
  BY DEF F!extracted_provenance_evidence, F!Evidence, F!valid_evidence
<1> HIDE DEF e1, e2, e3, e4
<1>8. \A e \in {e1, e2, e3, e4} :
         /\ F!valid_evidence(e)
         /\ e.feature \notin {"hash_distance", "color_distance", "catalog_image_status"}
  BY <1>4, <1>5, <1>6, <1>7
<1>9. c.kind = "receipt_line" /\ c.id = r.line /\ c.evidence = {e1, e2, e3, e4}
  BY <1>3
<1>10. F!valid_candidate(c)
  BY <1>8, <1>9 DEF F!valid_candidate
<1> QED BY <1>9, <1>10 DEF c, e2, reading

\* Each candidate by its place.
LEMMA Places ==
    ASSUME NEW a \in Nat, NEW b \in Nat, NEW k \in 1..(a + b + 1)
    PROVE  k \in 1..a \/ (\E j \in 1..b : k = a + j) \/ k = a + b + 1
<1>1. CASE k <= a
  BY <1>1
<1>2. CASE k > a /\ k <= a + b
  <2>1. k - a \in 1..b /\ k = a + (k - a)
    BY <1>2
  <2> QED BY <2>1
<1> QED BY <1>1, <1>2

LEMMA ProposalsAreValid ==
    ASSUME NEW s, SoundSnapshot(s) PROVE F!valid_case(F!proposed_case(s, 1))
<1> DEFINE c == F!build_candidates(s)
           q == F!proposed_case(s, 1)
<1>1. PICK a \in 0..Len(s.catalog), b \in 0..Len(s.receipts) :
         /\ a = IF Shown < Len(s.catalog) THEN Shown ELSE Len(s.catalog)
         /\ b <= Shown
         /\ Len(c) = a + b + 1 /\ DOMAIN c = 1..(a + b + 1)
         /\ \A k \in 1..a : c[k] = F!build_wardrobe_candidate(s.catalog[Rank(s)[k]])
         /\ \A k \in 1..b : c[a + k] = F!build_receipt_candidate(s.receipts[k])
         /\ c[a + b + 1] = F!NoMatch
  BY CandidatesAre
<1>2. q.candidates = c /\ q.case_revision = 1
  BY DEF F!proposed_case
<1> HIDE DEF c, q
<1>3. /\ Len(s.catalog) \in Nat /\ Len(s.receipts) \in Nat
      /\ s.catalog \in [1..Len(s.catalog) -> [item : Items, row : CatalogRows]]
      /\ \A k, m \in 1..Len(s.catalog) : s.catalog[k].item = s.catalog[m].item => k = m
      /\ s.receipts \in [1..Len(s.receipts) -> [line : Lines, row : ReceiptRows]]
      /\ \A k, m \in 1..Len(s.receipts) : s.receipts[k].line = s.receipts[m].line => k = m
  BY DEF SoundSnapshot
<1>4. /\ Rank(s) \in [1..Len(s.catalog) -> 1..Len(s.catalog)]
      /\ \A k, m \in 1..Len(s.catalog) : Rank(s)[k] = Rank(s)[m] => k = m
  BY ItemsAreRanked
<1>5. a \in Nat /\ b \in Nat /\ Shown \in Nat /\ a <= Shown
  BY <1>1, <1>3, MatchingAssumption
<1>6. /\ \A k \in 1..a : k \in 1..Len(s.catalog)
      /\ \A k \in 1..b : k \in 1..Len(s.receipts)
  BY <1>1, <1>3
<1>7. \A k \in 1..a : /\ c[k].kind = "wardrobe_item" /\ c[k].id = s.catalog[Rank(s)[k]].item
                      /\ F!valid_candidate(c[k])
  <2> SUFFICES ASSUME NEW k \in 1..a
               PROVE  /\ c[k].kind = "wardrobe_item" /\ c[k].id = s.catalog[Rank(s)[k]].item
                      /\ F!valid_candidate(c[k])
    OBVIOUS
  <2>1. s.catalog[Rank(s)[k]] \in [item : Items, row : CatalogRows]
    BY <1>3, <1>4, <1>6
  <2>2. c[k] = F!build_wardrobe_candidate(s.catalog[Rank(s)[k]])
    BY <1>1
  <2> QED BY <2>1, <2>2, ItemsAreValid
<1>8. \A k \in 1..b : /\ c[a + k].kind = "receipt_line" /\ c[a + k].id = s.receipts[k].line
                      /\ F!valid_candidate(c[a + k])
  <2> SUFFICES ASSUME NEW k \in 1..b
               PROVE  /\ c[a + k].kind = "receipt_line" /\ c[a + k].id = s.receipts[k].line
                      /\ F!valid_candidate(c[a + k])
    OBVIOUS
  <2>1. s.receipts[k] \in [line : Lines, row : ReceiptRows]
    BY <1>3, <1>6
  <2>2. c[a + k] = F!build_receipt_candidate(s.receipts[k])
    BY <1>1
  <2> QED BY <2>1, <2>2, LinesAreValid
<1>9. c[a + b + 1].kind = "no_match" /\ F!valid_candidate(c[a + b + 1])
  BY <1>1 DEF F!NoMatch, F!valid_candidate
<1>10. \A k \in 1..(a + b + 1) : k \in 1..a \/ (\E j \in 1..b : k = a + j) \/ k = a + b + 1
  BY <1>5, Places
<1>11. \A k \in 1..(a + b + 1) : F!valid_candidate(c[k])
  BY <1>7, <1>8, <1>9, <1>10
<1>12. \A k \in 1..(a + b + 1) : (c[k].kind = "no_match") = (k = a + b + 1)
  <2> SUFFICES ASSUME NEW k \in 1..(a + b + 1)
               PROVE  (c[k].kind = "no_match") <=> (k = a + b + 1)
    OBVIOUS
  <2>1. CASE k \in 1..a
    BY <2>1, <1>7, <1>5
  <2>2. ASSUME NEW j \in 1..b, k = a + j
        PROVE  (c[k].kind = "no_match") <=> (k = a + b + 1)
    <3>1. c[k].kind = "receipt_line"
      BY <1>8, <2>2
    <3>2. k # a + b + 1
      BY <1>5, <2>2
    <3> QED BY <3>1, <3>2
  <2>3. CASE k = a + b + 1
    BY <2>3, <1>9
  <2> QED BY <2>1, <2>2, <2>3, <1>10
<1>13. \A k, m \in 1..(a + b + 1) : k # m => c[k].kind # c[m].kind \/ c[k].id # c[m].id
  <2> SUFFICES ASSUME NEW k \in 1..(a + b + 1), NEW m \in 1..(a + b + 1),
                      c[k].kind = c[m].kind, c[k].id = c[m].id
               PROVE  k = m
    OBVIOUS
  <2>1. CASE k \in 1..a
    <3>1. m \in 1..a
      <4>1. c[m].kind = "wardrobe_item"
        BY <2>1, <1>7
      <4>2. m # a + b + 1 /\ ~ \E j \in 1..b : m = a + j
        BY <4>1, <1>8, <1>9
      <4> QED BY <4>2, <1>10
    <3>2. s.catalog[Rank(s)[k]].item = s.catalog[Rank(s)[m]].item
      BY <2>1, <3>1, <1>7
    <3>3. Rank(s)[k] = Rank(s)[m]
      BY <2>1, <3>1, <3>2, <1>3, <1>4, <1>6
    <3> QED BY <2>1, <3>1, <3>3, <1>4, <1>6
  <2>2. CASE \E j \in 1..b : k = a + j
    <3>1. PICK j \in 1..b : k = a + j
      BY <2>2
    <3>2. PICK i \in 1..b : m = a + i
      <4>1. c[m].kind = "receipt_line"
        BY <3>1, <1>8
      <4>2. m \notin 1..a /\ m # a + b + 1
        BY <4>1, <1>7, <1>9
      <4> QED BY <4>2, <1>10
    <3>3. s.receipts[j].line = s.receipts[i].line
      BY <3>1, <3>2, <1>8
    <3>4. i = j
      BY <3>3, <1>3, <1>6
    <3> QED BY <3>1, <3>2, <3>4
  <2>3. CASE k = a + b + 1
    BY <2>3, <1>9, <1>12
  <2> QED BY <2>1, <2>2, <2>3, <1>10
<1>14. Len(c) \in 1..(2 * Shown + 1)
  BY <1>1, <1>5
<1>15. F!valid_case(q)
  <2>1. \A k \in DOMAIN q.candidates :
           /\ F!valid_candidate(q.candidates[k])
           /\ (q.candidates[k].kind = "no_match") = (k = Len(q.candidates))
    BY <1>1, <1>2, <1>11, <1>12
  <2>2. \A k \in DOMAIN q.candidates : \A m \in DOMAIN q.candidates \ {k} :
           <<q.candidates[k].kind, q.candidates[k].id>> # <<q.candidates[m].kind, q.candidates[m].id>>
    BY <1>1, <1>2, <1>13
  <2>3. Len(q.candidates) \in 1..(2 * Shown + 1) /\ ~(q.case_revision > 1)
    BY <1>2, <1>14
  <2> QED BY <2>1, <2>2, <2>3 DEF F!valid_case
<1> QED BY <1>15 DEF q

\* A case that is written now offers rows as they are, and of the items the closest.
LEMMA NewCasesAreSound ==
    ASSUME OffersInv, NEW t \in Callers, NEW created,
           F!open_reconciliation_case(t, created)
    PROVE  F!SoundCase
<1> DEFINE s == opening[t].snapshot
           c == F!build_candidates(s)
           q == F!proposed_case(s, created)
           items == F!load_catalog_snapshots
           lines == F!load_receipt_snapshots
           im(k) == s.catalog[k].row.image
<1>1. \A u \in Callers : opening[u] # F!NoSnapshot =>
         F!valid_case(F!proposed_case(opening[u].snapshot, 1))
  BY ProposalsAreValid DEF OffersInv
<1>2. /\ SoundSnapshot(s) /\ F!load_proposal_snapshot = s
      /\ offered' = IF F!find_existing_case(s.pin) # {} THEN offered ELSE Append(offered, q)
  BY DEF F!open_reconciliation_case, F!open_succeeds, F!snapshot_is_current, OffersInv
<1>3. CASE offered' = offered
  BY <1>1, <1>3 DEF F!SoundCase, OffersInv
<1>4. CASE offered' # offered
  <2>1. F!find_existing_case(s.pin) = {} /\ offered' = Append(offered, q)
    BY <1>2, <1>4
  <2>2. offered'[Len(offered')] = q /\ q.pin = s.pin /\ q.candidates = c
    <3>1. q.pin = s.pin /\ q.candidates = c
      BY DEF F!proposed_case
    <3> HIDE DEF q
    <3>2. offered'[Len(offered')] = q
      BY <2>1 DEF OffersInv
    <3> QED BY <3>1, <3>2
  <2>3. \A k \in DOMAIN offered : offered[k].pin # s.pin
    BY <2>1 DEF F!find_existing_case
  <2>4. /\ Len(items) \in Nat /\ items \in [1..Len(items) -> {i \in Items : catalog[i].active}]
        /\ Len(lines) \in Nat
        /\ lines \in [1..Len(lines) -> {l \in Lines : receipts[l].action \in {"confirm", "correct"}}]
    BY PoolOfItems, PoolOfLines
  <2>5. /\ s.catalog = [k \in DOMAIN items |-> [item |-> items[k], row |-> catalog[items[k]]]]
        /\ s.receipts = [k \in DOMAIN lines |-> [line |-> lines[k], row |-> receipts[lines[k]]]]
    BY <1>2 DEF F!load_proposal_snapshot
  <2> HIDE DEF s, c, q, items, lines
  <2> DEFINE n == Len(items)
             p == Len(lines)
  <2>6. Len(s.catalog) = n /\ Len(s.receipts) = p
    <3>1. s.catalog \in [1..n -> {s.catalog[k] : k \in 1..n}]
      BY <2>4, <2>5
    <3>2. s.receipts \in [1..p -> {s.receipts[k] : k \in 1..p}]
      BY <2>4, <2>5
    <3> QED BY <2>4, <3>1, <3>2
  <2>7. PICK a \in 0..n, b \in 0..p :
           /\ Len(c) = a + b + 1 /\ DOMAIN c = 1..(a + b + 1)
           /\ \A k \in 1..a : c[k] = F!build_wardrobe_candidate(s.catalog[Rank(s)[k]])
           /\ \A k \in 1..b : c[a + k] = F!build_receipt_candidate(s.receipts[k])
           /\ c[a + b + 1] = F!NoMatch
    <3>1. \E a \in 0..Len(s.catalog), b \in 0..Len(s.receipts) :
             LET d == F!build_candidates(s) IN
             /\ a = IF Shown < Len(s.catalog) THEN Shown ELSE Len(s.catalog)
             /\ b <= Shown
             /\ Len(d) = a + b + 1 /\ DOMAIN d = 1..(a + b + 1)
             /\ \A k \in 1..a : d[k] = F!build_wardrobe_candidate(s.catalog[Rank(s)[k]])
             /\ \A k \in 1..b : d[a + k] = F!build_receipt_candidate(s.receipts[k])
             /\ d[a + b + 1] = F!NoMatch
      BY <1>2, CandidatesAre
    <3>2. F!build_candidates(s) = c
      BY DEF c
    <3> HIDE DEF n, p
    <3> QED BY <3>1, <3>2, <2>6
  <2>8. /\ Rank(s) \in [1..n -> 1..n]
        /\ \A k \in 1..n : \E m \in 1..n : Rank(s)[m] = k
        /\ \A k, m \in 1..n : k < m => <<Rank(s)[k], Rank(s)[m]>> \in F!closer_items(s.catalog)
    BY <1>2, <2>6, ItemsAreRanked
  <2>9. a \in Nat /\ b \in Nat /\ (\A k \in 1..a : k \in 1..n) /\ (\A k \in 1..b : k \in 1..p)
    BY <2>4
  <2>10. \A k \in 1..n : /\ items[k] \in Items /\ catalog[items[k]].active
                         /\ s.catalog[k].item = items[k] /\ im(k) = catalog[items[k]].image
                         /\ s.catalog[k] \in [item : Items, row : CatalogRows]
    BY <2>4, <2>5 DEF OffersInv
  <2>11. \A k \in 1..p : /\ lines[k] \in Lines /\ receipts[lines[k]].action \in {"confirm", "correct"}
                         /\ s.receipts[k] = [line |-> lines[k], row |-> receipts[lines[k]]]
                         /\ s.receipts[k] \in [line : Lines, row : ReceiptRows]
    BY <2>4, <2>5 DEF OffersInv
  <2>12. \A k \in 1..a : c[k].kind = "wardrobe_item" /\ c[k].id = items[Rank(s)[k]]
    <3> SUFFICES ASSUME NEW k \in 1..a
                 PROVE  c[k].kind = "wardrobe_item" /\ c[k].id = items[Rank(s)[k]]
      OBVIOUS
    <3>1. Rank(s)[k] \in 1..n
      BY <2>8, <2>9
    <3>2. c[k] = F!build_wardrobe_candidate(s.catalog[Rank(s)[k]])
      BY <2>7
    <3> HIDE DEF n
    <3> QED BY <3>1, <3>2, <2>10, ItemsAreValid
  <2>13. \A k \in 1..b :
            /\ c[a + k].kind = "receipt_line" /\ c[a + k].id = lines[k]
            /\ F!receipt_event_evidence(F!authoritative(lines[k])) \in c[a + k].evidence
    <3> SUFFICES ASSUME NEW k \in 1..b
                 PROVE  /\ c[a + k].kind = "receipt_line" /\ c[a + k].id = lines[k]
                        /\ F!receipt_event_evidence(F!authoritative(lines[k])) \in c[a + k].evidence
      OBVIOUS
    <3> DEFINE r == s.receipts[k]
    <3>1. k \in 1..p /\ c[a + k] = F!build_receipt_candidate(r)
      BY <2>7, <2>9
    <3>2. /\ r \in [line : Lines, row : ReceiptRows] /\ r.line = lines[k]
          /\ r.row = receipts[lines[k]]
      <4>1. /\ s.receipts[k] = [line |-> lines[k], row |-> receipts[lines[k]]]
            /\ s.receipts[k] \in [line : Lines, row : ReceiptRows]
        BY <3>1, <2>11
      <4> QED BY <4>1
    <3>3. F!authoritative(lines[k])
            = IF r.row.action = "correct" THEN r.row.corrected ELSE r.row.extracted
      BY <3>2 DEF F!authoritative
    <3> HIDE DEF r
    <3> QED BY <3>1, <3>2, <3>3, LinesAreValid
  <2>14. c[a + b + 1].kind = "no_match"
    BY <2>7 DEF F!NoMatch
  <2>15. \A k \in 1..(a + b + 1) : k \in 1..a \/ (\E j \in 1..b : k = a + j) \/ k = a + b + 1
    BY <2>9, Places
  <2> DEFINE shown_ == {i \in Items : \E x \in F!Range(c) : x.kind = "wardrobe_item" /\ x.id = i}
  <2>16. F!Range(c) = {c[k] : k \in 1..(a + b + 1)}
    BY <2>7 DEF F!Range
  <2>17. \A i \in shown_ : \E k \in 1..a : i = items[Rank(s)[k]]
    <3> SUFFICES ASSUME NEW i \in shown_ PROVE \E k \in 1..a : i = items[Rank(s)[k]]
      OBVIOUS
    <3>1. PICK k \in 1..(a + b + 1) : c[k].kind = "wardrobe_item" /\ c[k].id = i
      BY <2>16
    <3>2. k # a + b + 1 /\ ~ \E j \in 1..b : k = a + j
      BY <3>1, <2>13, <2>14
    <3>3. k \in 1..a
      BY <3>2, <2>15
    <3> QED BY <3>1, <3>3, <2>12
  <2>18. \A k \in 1..a : items[Rank(s)[k]] \in shown_
    <3> SUFFICES ASSUME NEW k \in 1..a PROVE items[Rank(s)[k]] \in shown_
      OBVIOUS
    <3>1. items[Rank(s)[k]] \in Items
      BY <2>8, <2>9, <2>10
    <3>2. k \in 1..(a + b + 1)
      BY <2>9
    <3> QED BY <3>1, <3>2, <2>12, <2>16
  <2> HIDE DEF shown_
  <2>19. \A i \in shown_ : catalog[i].active
    <3> SUFFICES ASSUME NEW i \in shown_ PROVE catalog[i].active
      OBVIOUS
    <3>1. PICK k \in 1..a : i = items[Rank(s)[k]]
      BY <2>17
    <3>2. Rank(s)[k] \in 1..n
      BY <2>8, <2>9
    <3> HIDE DEF n
    <3> QED BY <3>1, <3>2, <2>10
  <2>20. ASSUME NEW i \in shown_, NEW j \in F!Range(items) \ shown_,
                catalog[j].image.status = "measured"
         PROVE  /\ catalog[i].image.status = "measured"
                /\ catalog[i].image.hash <= catalog[j].image.hash
    <3>1. PICK k \in 1..a : i = items[Rank(s)[k]]
      BY <2>17
    <3>2. PICK z \in 1..n : j = items[z]
      BY <2>4 DEF F!Range
    <3>3. PICK m \in 1..n : Rank(s)[m] = z
      BY <2>8
    <3>4. k < m /\ k \in 1..n
      <4>1. m \notin 1..a
        BY <2>18, <3>2, <3>3
      <4> QED BY <4>1, <2>9, <2>4
    <3> DEFINE x == Rank(s)[k]
    <3>5. x \in 1..n /\ <<x, z>> \in F!closer_items(s.catalog)
      BY <2>8, <3>3, <3>4
    <3> HIDE DEF x
    <3>6. F!more_like(im(x), im(z)) \/ ~F!more_like(im(z), im(x))
      BY <3>5 DEF F!closer_items
    <3>7. im(x) = catalog[i].image /\ im(z) = catalog[j].image
      BY <2>10, <3>1, <3>2, <3>5 DEF x
    <3>8. F!measured(im(z))
      BY <2>20, <3>7 DEF F!measured
    <3>9. F!measured(im(x))
      BY <3>6, <3>8 DEF F!more_like
    <3>10. F!closer(im(x), im(z)) \/ ~F!closer(im(z), im(x))
      BY <3>6, <3>8, <3>9 DEF F!more_like
    <3>11. im(x) \in Images \cup {F!NoImage} /\ im(z) \in Images \cup {F!NoImage}
      BY <2>10, <3>5 DEF CatalogRows
    <3> HIDE DEF im
    <3>12. /\ im(x).hash \in Nat /\ im(z).hash \in Nat
      BY <3>8, <3>9, <3>11, ImagesAreMeasured
    <3>13. im(x).hash <= im(z).hash
      BY <3>10, <3>12 DEF F!closer
    <3> QED BY <3>7, <3>9, <3>13 DEF F!measured
  <2>21. ASSUME NEW x \in F!Range(c), x.kind = "receipt_line"
         PROVE  /\ receipts[x.id].action \in {"confirm", "correct"}
                /\ F!receipt_event_evidence(F!authoritative(x.id)) \in x.evidence
    <3>1. PICK k \in 1..(a + b + 1) : x = c[k]
      BY <2>16
    <3>2. PICK j \in 1..b : k = a + j
      BY <2>12, <2>14, <2>15, <2>21, <3>1
    <3> QED BY <2>9, <2>11, <2>13, <3>1, <3>2
  <2> QED BY <1>1, <2>2, <2>3, <2>19, <2>20, <2>21 DEF F!SoundCase, shown_, items
<1> QED BY <1>3, <1>4

LEMMA OffersStart == ASSUME F!Init PROVE OffersInv
<1>1. /\ catalog = [i \in Items |-> [active |-> FALSE, updated |-> 0, image |-> F!NoImage]]
      /\ receipts \in [Lines -> {[action |-> "none", extracted |-> r, corrected |-> r] : r \in Readings}]
      /\ revision = [catalog |-> 0, receipt |-> 0, photo |-> 1, owner |-> 1, reconciliation |-> 0]
      /\ offered = <<>> /\ opening = [t \in Callers |-> F!NoSnapshot]
  BY DEF F!Init
<1>2. catalog \in [Items -> CatalogRows]
  BY <1>1 DEF CatalogRows
<1>3. receipts \in [Lines -> ReceiptRows]
  BY <1>1 DEF ReceiptRows
<1>4. Len(offered) = 0 /\ DOMAIN offered = 1..0
  BY <1>1
<1> QED BY <1>1, <1>2, <1>3, <1>4 DEF OffersInv

LEMMA Accepted ==
    ASSUME NEW name \in {"catalog", "receipt", "photo", "owner", "reconciliation"},
           revision \in [catalog : Nat, receipt : Nat, photo : Nat, owner : Nat, reconciliation : Nat],
           F!Accept(name)
    PROVE  revision' \in [catalog : Nat, receipt : Nat, photo : Nat, owner : Nat, reconciliation : Nat]
<1>1. revision' = [revision EXCEPT ![name] = @ + 1]
  BY DEF F!Accept
<1>2. revision[name] \in Nat
  OBVIOUS
<1> QED BY <1>1, <1>2

LEMMA OffersStep == ASSUME OffersInv, F!Next PROVE OffersInv' /\ F!SoundCase
<1> DEFINE Rev == [catalog : Nat, receipt : Nat, photo : Nat, owner : Nat, reconciliation : Nat]
<1>1. /\ catalog \in [Items -> CatalogRows] /\ receipts \in [Lines -> ReceiptRows]
      /\ revision \in Rev
      /\ Len(offered) \in Nat /\ DOMAIN offered = 1..Len(offered)
      /\ DOMAIN opening = Callers
      /\ \A t \in Callers : opening[t] # F!NoSnapshot => SoundSnapshot(opening[t].snapshot)
  BY DEF OffersInv
<1>2. \A t \in Callers : opening[t] # F!NoSnapshot =>
         F!valid_case(F!proposed_case(opening[t].snapshot, 1))
  BY <1>1, ProposalsAreValid
<1>3. ASSUME Len(offered') = Len(offered) PROVE F!SoundCase
  BY <1>1, <1>2, <1>3 DEF F!SoundCase
<1>4. ASSUME NEW i \in Items, F!merge_item(i) PROVE OffersInv' /\ F!SoundCase
  <2>1. /\ F!Accept("catalog") /\ catalog' = [catalog EXCEPT ![i].active = FALSE]
        /\ UNCHANGED <<receipts, offered, opening>>
    BY <1>4 DEF F!merge_item
  <2>2. catalog' \in [Items -> CatalogRows]
    BY <1>1, <2>1 DEF CatalogRows
  <2>3. revision' \in Rev
    BY <1>1, <2>1, Accepted
  <2> QED BY <1>1, <1>3, <2>1, <2>2, <2>3 DEF OffersInv
<1>5. ASSUME NEW i \in Items, NEW image \in Images, F!save_item(i, image)
      PROVE  OffersInv' /\ F!SoundCase
  <2> DEFINE row == [active |-> TRUE, updated |-> revision'.catalog, image |-> image]
  <2>1. /\ F!Accept("catalog") /\ catalog' = [catalog EXCEPT ![i] = row]
        /\ UNCHANGED <<receipts, offered, opening>>
    BY <1>5 DEF F!save_item
  <2>2. revision' \in Rev
    BY <1>1, <2>1, Accepted
  <2>3. row \in CatalogRows
    BY <2>2 DEF CatalogRows
  <2> HIDE DEF row
  <2>4. catalog' \in [Items -> CatalogRows]
    BY <1>1, <2>1, <2>3
  <2> QED BY <1>1, <1>3, <2>1, <2>2, <2>4 DEF OffersInv
<1>6. ASSUME NEW l \in Lines, NEW action \in {"confirm", "correct", "reject"},
             NEW reading \in Readings, F!review_receipt(l, action, reading)
      PROVE  OffersInv' /\ F!SoundCase
  <2>1. /\ F!Accept("receipt") /\ UNCHANGED <<catalog, offered, opening>>
        /\ receipts' = [receipts EXCEPT ![l].action = action,
                          ![l].corrected = IF action = "correct" THEN reading ELSE @]
    BY <1>6 DEF F!review_receipt
  <2>2. receipts' \in [Lines -> ReceiptRows]
    BY <1>1, <2>1 DEF ReceiptRows
  <2>3. revision' \in Rev
    BY <1>1, <2>1, Accepted
  <2> QED BY <1>1, <1>3, <2>1, <2>2, <2>3 DEF OffersInv
<1>7. ASSUME NEW state, F!review_photo_observation(state) PROVE OffersInv' /\ F!SoundCase
  <2>1. F!Accept("photo") /\ UNCHANGED <<catalog, receipts, offered, opening>>
    BY <1>7 DEF F!review_photo_observation
  <2>2. revision' \in Rev
    BY <1>1, <2>1, Accepted
  <2> QED BY <1>1, <1>3, <2>1, <2>2 DEF OffersInv
<1>8. CASE F!correct_photo_owner
  <2>1. F!Accept("owner") /\ UNCHANGED <<catalog, receipts, offered, opening>>
    BY <1>8 DEF F!correct_photo_owner
  <2>2. revision' \in Rev
    BY <1>1, <2>1, Accepted
  <2> QED BY <1>1, <1>3, <2>1, <2>2 DEF OffersInv
<1>9. ASSUME NEW t \in Callers, NEW version \in {1, 2}, F!load_proposal(t, version)
      PROVE  OffersInv' /\ F!SoundCase
  <2> DEFINE s == F!load_proposal_snapshot
  <2>1. /\ opening' = [opening EXCEPT ![t] = [version |-> version, snapshot |-> s]]
        /\ UNCHANGED <<catalog, receipts, revision, offered>>
    BY <1>9 DEF F!load_proposal
  <2>2. SoundSnapshot(s)
    BY SnapshotsAreSound
  <2> HIDE DEF s
  <2>3. \A u \in Callers : opening'[u] # F!NoSnapshot => SoundSnapshot(opening'[u].snapshot)
    BY <1>1, <2>1, <2>2
  <2>4. DOMAIN opening' = Callers
    BY <1>1, <2>1
  <2>5. OffersInv'
    BY <1>1, <2>1, <2>3, <2>4 DEF OffersInv, SoundSnapshot, CatalogRows
  <2> QED BY <1>3, <2>1, <2>5
<1>10. ASSUME NEW t \in Callers, opening' = [opening EXCEPT ![t] = F!NoSnapshot]
       PROVE  /\ DOMAIN opening' = Callers
              /\ \A u \in Callers : opening'[u] # F!NoSnapshot => SoundSnapshot(opening'[u].snapshot)
  BY <1>1, <1>10
<1>11. ASSUME NEW t \in Callers, F!open_refused(t) PROVE OffersInv' /\ F!SoundCase
  <2>1. /\ opening' = [opening EXCEPT ![t] = F!NoSnapshot]
        /\ UNCHANGED <<catalog, receipts, revision, offered>>
    BY <1>11 DEF F!open_refused
  <2>2. /\ DOMAIN opening' = Callers
        /\ \A u \in Callers : opening'[u] # F!NoSnapshot => SoundSnapshot(opening'[u].snapshot)
    BY <1>10, <2>1
  <2> QED BY <1>1, <1>3, <2>1, <2>2 DEF OffersInv, SoundSnapshot, CatalogRows
<1>12. ASSUME NEW t \in Callers, NEW created, F!open_reconciliation_case(t, created)
       PROVE  OffersInv' /\ F!SoundCase
  <2>1. /\ F!Accept("reconciliation") /\ opening' = [opening EXCEPT ![t] = F!NoSnapshot]
        /\ UNCHANGED <<catalog, receipts>>
        /\ \/ offered' = offered
           \/ offered' = Append(offered, F!proposed_case(opening[t].snapshot, created))
    BY <1>12 DEF F!open_reconciliation_case
  <2>2. /\ DOMAIN opening' = Callers
        /\ \A u \in Callers : opening'[u] # F!NoSnapshot => SoundSnapshot(opening'[u].snapshot)
    BY <1>10, <2>1
  <2>3. revision' \in Rev
    BY <1>1, <2>1, Accepted
  <2>4. Len(offered') \in Nat /\ DOMAIN offered' = 1..Len(offered')
    <3> DEFINE c == F!proposed_case(opening[t].snapshot, created)
    <3> HIDE DEF c
    <3>1. offered' = offered \/ offered' = Append(offered, c)
      BY <2>1 DEF c
    <3> QED BY <1>1, <3>1
  <2>5. F!SoundCase
    BY <1>12, NewCasesAreSound
  <2> QED BY <1>1, <2>1, <2>2, <2>3, <2>4, <2>5 DEF OffersInv
<1>13. ASSUME NEW k \in DOMAIN offered, NEW outcome, NEW selected,
              F!decide_reconciliation_case(k, outcome, selected)
       PROVE  OffersInv' /\ F!SoundCase
  <2>1. /\ F!Accept("reconciliation") /\ UNCHANGED <<catalog, receipts, opening>>
        /\ offered' = [offered EXCEPT ![k].head = [outcome |-> outcome, selected |-> selected],
                         ![k].case_revision = @ + 1]
    BY <1>13 DEF F!decide_reconciliation_case, F!insert_reconciliation_decision
  <2>2. Len(offered') = Len(offered) /\ DOMAIN offered' = DOMAIN offered
    BY <1>1, <2>1
  <2>3. revision' \in Rev
    BY <1>1, <2>1, Accepted
  <2> QED BY <1>1, <1>3, <2>1, <2>2, <2>3 DEF OffersInv, SoundSnapshot, CatalogRows
<1>14. CASE \E filter \in {} : F!list_reconciliation_cases(filter)
  BY <1>14
<1>15. CASE F!list_next_page
  <2>1. UNCHANGED <<catalog, receipts, revision, offered, opening>>
    BY <1>15 DEF F!list_next_page
  <2> QED BY <1>1, <1>3, <2>1 DEF OffersInv, SoundSnapshot, CatalogRows
<1> QED BY <1>4, <1>5, <1>6, <1>7, <1>8, <1>9, <1>11, <1>12, <1>13, <1>14, <1>15 DEF F!Next

-----------------------------------------------------------------------------
(* The other lists.                                                        *)

ByKey == A!Lists[list].by = "key"
Key == A!Lists[list].key
Pinned == A!Lists[list].pins
Fresh == cursor.pins = A!pinned

\* A row comes after a place in the list.
After(r, key, row) ==
    IF Key = "newest" THEN sort[r] < key
    ELSE sort[r] > key \/ (sort[r] = key /\ r > row)

\* What the keys of a list can be.
KeysInv ==
    /\ list \in DOMAIN A!Lists
    /\ sort \in [A!Rows -> Nat] /\ counters \in [A!Counters -> Nat] /\ writes \in Nat
    /\ \A r \in A!Rows : sort[r] <= MaxRows + writes
    /\ Key = "fixed" => \A r \in A!Rows : sort[r] \in {0, r}
    /\ Key = "newest" => \A r, u \in A!Listed : sort[r] = sort[u] => r = u

\* The pages so far are the first rows of the list, and there are more.
FirstPages ==
    /\ Len(shown) \in 1..Cardinality(A!Listed)
    /\ shown = [m \in 1..Len(shown) |-> Sorted(A!Listed, A!earlier)[m]]
    /\ cursor.offset = Len(shown) /\ cursor.row = shown[Len(shown)]
    /\ cursor.key = sort[cursor.row]

\* No row of the pages so far comes again, and the steady rows are shown or come.
Resumed ==
    /\ Len(shown) \in Nat /\ shown \in [1..Len(shown) -> A!Rows]
    /\ \A m, n \in 1..Len(shown) : shown[m] = shown[n] => m = n
    /\ cursor.key \in Nat /\ cursor.row \in A!Rows
    /\ \A m \in 1..Len(shown) : sort[shown[m]] = 0 \/ ~After(shown[m], cursor.key, cursor.row)
    /\ \A r \in steady : \/ \E m \in 1..Len(shown) : shown[m] = r
                         \/ After(r, cursor.key, cursor.row)
    /\ Key = "fixed" => cursor.key = cursor.row /\ \A m \in 1..Len(shown) : shown[m] <= cursor.row
    /\ Key = "newest" => cursor.key <= MaxRows + writes
    /\ list = "owner_reviews" => \A m \in 1..Len(shown) : sort[shown[m]] # 0

ListsInv ==
    /\ KeysInv
    /\ cursor.at \in {"start", "page", "end", "expired"}
    /\ unseen \in BOOLEAN /\ steady \subseteq A!Listed
    /\ cursor.at = "start" => shown = <<>>
    /\ cursor.at = "page" =>
         /\ cursor.pins \in [Pinned -> Nat]
         /\ \A c \in Pinned : cursor.pins[c] <= counters[c]
         /\ Fresh /\ ~unseen => FirstPages
         /\ Fresh /\ ByKey => Resumed
    /\ A!PagesAddUp

\* The lists as the interface knows them.
LEMMA TheLists ==
    ASSUME list \in DOMAIN A!Lists
    PROVE  /\ Pinned \subseteq A!Counters
           /\ Key \in {"fixed", "edited", "oldest", "newest", "updated"}
           /\ A!Lists[list].by \in {"key", "offset"}
           /\ list \in {"detecting", "owner_reviews"} <=> Key = "updated"
           /\ ByKey => Key \in {"fixed", "newest", "updated"}
<1>1. list \in {"catalog", "inbox", "receipts", "purchase_units", "outfits", "portraits", "roots",
                "observations", "owner_reviews", "detecting", "intelligence", "plan"}
  BY DEF A!Lists
<1> QED BY <1>1 DEF A!Lists, Pinned, Key, ByKey, A!OffsetList, A!KeyList, A!Counters,
       A!list_catalog, A!list_inbox, A!list_receipts, A!list_receipt_purchase_units,
       A!list_outfits, A!list_try_on_portrait_candidates, A!list_imported_photo_roots,
       A!list_photo_observations, A!list_photo_owner_reviews, A!list_receipt_intelligence,
       A!list_deletion_plan_items

\* A write moves a counter that the list's cursor names, or is one of those it is known to
\* miss.
LEMMA WritesAreNoticed ==
    ASSUME list \in DOMAIN A!Lists, NEW w \in A!Writers, list \in A!Writes[w].changes
    PROVE  A!Writes[w].moves \cap Pinned # {} \/ <<w, list>> \in A!Missed
<1>1. list \in {"catalog", "inbox", "receipts", "purchase_units", "outfits", "portraits", "roots",
                "observations", "owner_reviews", "detecting", "intelligence", "plan"}
  BY DEF A!Lists
<1>2. w \in {"decide", "promote", "imported", "cut_off", "found_less", "mail", "analysis", "review",
             "outfit", "photo", "photo_review", "people", "owner_work", "correction",
             "intelligence", "deletion"}
  BY DEF A!Writers, A!Writes
<1>3. /\ list = "catalog" => Pinned = {"catalog", "evidence"}
      /\ list = "inbox" => Pinned = {"catalog", "evidence"}
      /\ list = "receipts" => Pinned = {"receipt", "evidence"}
      /\ list = "purchase_units" => Pinned = {"receipt", "evidence", "catalog"}
      /\ list = "outfits" => Pinned = {"outfit"}
      /\ list = "portraits" => Pinned = {"photo"}
      /\ list = "roots" => Pinned = {"evidence"}
      /\ list = "observations" => Pinned = {"photo", "evidence"}
      /\ list = "owner_reviews" => Pinned = {"photo", "owner"}
      /\ list = "detecting" => Pinned = {"photo", "owner"}
      /\ list = "intelligence" => Pinned = {}
      /\ list = "plan" => Pinned = A!Counters
  <2>1. list = "catalog" => Pinned = {"catalog", "evidence"}
    BY DEF A!Lists, Pinned, A!OffsetList, A!KeyList, A!list_catalog
  <2>2. list = "inbox" => Pinned = {"catalog", "evidence"}
    BY DEF A!Lists, Pinned, A!OffsetList, A!KeyList, A!list_inbox
  <2>3. list = "receipts" => Pinned = {"receipt", "evidence"}
    BY DEF A!Lists, Pinned, A!OffsetList, A!KeyList, A!list_receipts
  <2>4. list = "purchase_units" => Pinned = {"receipt", "evidence", "catalog"}
    BY DEF A!Lists, Pinned, A!OffsetList, A!KeyList, A!list_receipt_purchase_units
  <2>5. list = "outfits" => Pinned = {"outfit"}
    BY DEF A!Lists, Pinned, A!OffsetList, A!KeyList, A!list_outfits
  <2>6. list = "portraits" => Pinned = {"photo"}
    BY DEF A!Lists, Pinned, A!OffsetList, A!KeyList, A!list_try_on_portrait_candidates
  <2>7. list = "roots" => Pinned = {"evidence"}
    BY DEF A!Lists, Pinned, A!OffsetList, A!KeyList, A!list_imported_photo_roots
  <2>8. list = "observations" => Pinned = {"photo", "evidence"}
    BY DEF A!Lists, Pinned, A!OffsetList, A!KeyList, A!list_photo_observations
  <2>9. list = "owner_reviews" => Pinned = {"photo", "owner"}
    BY DEF A!Lists, Pinned, A!OffsetList, A!KeyList, A!list_photo_owner_reviews
  <2>10. list = "detecting" => Pinned = {"photo", "owner"}
    BY DEF A!Lists, Pinned, A!OffsetList, A!KeyList, A!list_photo_owner_reviews
  <2>11. list = "intelligence" => Pinned = {}
    BY DEF A!Lists, Pinned, A!OffsetList, A!KeyList, A!list_receipt_intelligence
  <2>12. list = "plan" => Pinned = A!Counters
    BY DEF A!Lists, Pinned, A!OffsetList, A!KeyList, A!list_deletion_plan_items
  <2> QED BY <2>1, <2>2, <2>3, <2>4, <2>5, <2>6, <2>7, <2>8, <2>9, <2>10, <2>11, <2>12
<1>4. CASE w \in {"decide", "promote", "imported", "cut_off"}
  BY <1>1, <1>3, <1>4 DEF A!Writes, A!Write, A!decide, A!promote, A!import_local_sources,
       A!import_cut_off, A!Missed
<1>5. CASE w \in {"found_less", "mail", "analysis", "review"}
  BY <1>1, <1>3, <1>5 DEF A!Writes, A!Write, A!refresh_finds_less, A!commit_batch,
       A!commit_receipt_analysis, A!review_receipt, A!Missed
<1>6. CASE w \in {"outfit", "photo", "photo_review", "people"}
  BY <1>1, <1>3, <1>6 DEF A!Writes, A!Write, A!create_manual_outfit, A!finalize_analysis_member,
       A!review_photo_observation, A!publish_person_detection, A!Missed
<1>7. CASE w \in {"owner_work", "correction", "intelligence"}
  BY <1>1, <1>3, <1>7 DEF A!Writes, A!Write, A!publish_owner_work, A!correct_person_detection,
       A!reserve_receipt_intelligence, A!Missed
<1>8. CASE w = "deletion"
  BY <1>1, <1>3, <1>8 DEF A!Writes, A!Write, A!execute_deletion, A!Missed, A!Counters
<1> QED BY <1>2, <1>4, <1>5, <1>6, <1>7, <1>8

LEMMA RowsHaveAnOrder ==
    ASSUME KeysInv, NEW U \in SUBSET A!Listed
    PROVE  /\ IsFiniteSet(U) /\ Cardinality(U) \in Nat /\ Orders(A!earlier, U)
           /\ A!Ordered(U) = Sorted(U, A!earlier)
<1>1. A!Listed \subseteq A!Rows /\ A!Rows = 1..MaxRows /\ MaxRows \in Nat
  BY ListsAssumption DEF A!Listed, A!Rows
<1>2. IsFiniteSet(U) /\ Cardinality(U) \in Nat
  <2>1. IsFiniteSet(1..MaxRows)
    BY <1>1, FS_Interval
  <2>2. U \subseteq 1..MaxRows
    BY <1>1
  <2>3. IsFiniteSet(U)
    BY <2>1, <2>2, FS_Subset
  <2> QED BY <2>3, FS_CardinalityType
<1>3. \A x, y \in U : <<x, y>> \in A!earlier <=>
         IF Key = "newest" THEN sort[x] > sort[y]
         ELSE sort[x] < sort[y] \/ (sort[x] = sort[y] /\ x < y)
  BY <1>1 DEF A!earlier, Key
<1>4. \A x \in U : sort[x] \in Nat /\ x \in Nat
  BY <1>1 DEF KeysInv
<1>5. Key = "newest" => \A x, y \in U : sort[x] = sort[y] => x = y
  BY DEF KeysInv
<1>6. Orders(A!earlier, U)
  <2>1. CASE Key = "newest"
    BY <1>3, <1>4, <1>5, <2>1 DEF Orders
  <2>2. CASE Key # "newest"
    BY <1>3, <1>4, <2>2 DEF Orders
  <2> QED BY <2>1, <2>2
<1>7. A!Cardinality(U) = Cardinality(U)
  BY DEF Cardinality, A!Cardinality
<1>8. A!Ordered(U) = Sorted(U, A!earlier)
  BY <1>7 DEF A!Ordered, Sorted
<1> QED BY <1>2, <1>6, <1>8

\* How often a row is among others that are all different.
OnceIn(s, n, r) ==
    /\ Cardinality({i \in DOMAIN s : s[i] = r}) <= 1
    /\ Cardinality({i \in DOMAIN s : s[i] = r}) = 1 <=> \E m \in 1..n : s[m] = r

LEMMA RowsOnce ==
    ASSUME NEW n \in Nat, NEW s, DOMAIN s = 1..n,
           \A k, m \in 1..n : s[k] = s[m] => k = m, NEW r
    PROVE  OnceIn(s, n, r)
<1> DEFINE T == {i \in DOMAIN s : s[i] = r}
<1>1. CASE \E m \in 1..n : s[m] = r
  <2>1. PICK m \in 1..n : s[m] = r
    BY <1>1
  <2>2. T = {m}
    BY <2>1
  <2> HIDE DEF T
  <2>3. Cardinality(T) = 1
    BY <2>2, FS_Singleton
  <2> QED BY <1>1, <2>3 DEF T, OnceIn
<1>2. CASE ~ \E m \in 1..n : s[m] = r
  <2>1. T = {}
    BY <1>2
  <2> HIDE DEF T
  <2>2. Cardinality(T) = 0
    BY <2>1, FS_EmptySet
  <2> QED BY <1>2, <2>2 DEF T, OnceIn
<1> QED BY <1>1, <1>2

\* The first rows of some, as many as a page takes.
LEMMA FirstPart ==
    ASSUME NEW V, NEW d \in Nat, NEW rest \in [1..d -> V], NEW limit \in Nat \ {0}
    PROVE  LET page == IF Len(rest) > limit THEN SubSeq(rest, 1, limit) ELSE rest IN
           \E k \in 0..d : /\ k = IF d > limit THEN limit ELSE d
                           /\ page = [m \in 1..k |-> rest[m]]
                           /\ page \in [1..k -> V] /\ Len(page) = k
                           /\ Len(rest) = d
<1>1. Len(rest) = d /\ rest \in Seq(V) /\ rest = [m \in 1..d |-> rest[m]]
  OBVIOUS
<1>2. CASE d > limit
  <2>1. SubSeq(rest, 1, limit) = [m \in 1..limit |-> rest[m]] /\ limit \in 0..d
    BY <1>1, <1>2
  <2>2. \A m \in 1..limit : m \in 1..d
    BY <1>2
  <2>3. [m \in 1..limit |-> rest[m]] \in [1..limit -> V] /\ limit \in Nat
    BY <2>2
  <2>4. Len([m \in 1..limit |-> rest[m]]) = limit
    BY <2>3
  <2> QED BY <1>1, <1>2, <2>1, <2>3, <2>4
<1>3. CASE ~(d > limit)
  <2>1. d \in 0..d
    OBVIOUS
  <2> QED BY <1>1, <1>3, <2>1
<1> QED BY <1>2, <1>3

\* Some rows, and then more.
Continues(h, f, g, a, b) ==
    /\ DOMAIN h = 1..(a + b) /\ Len(h) = a + b
    /\ \A k \in 1..a : h[k] = f[k]
    /\ \A k \in 1..b : h[a + k] = g[k]

LEMMA Continued ==
    ASSUME NEW V, NEW a \in Nat, NEW b \in Nat, NEW f \in [1..a -> V], NEW g \in [1..b -> V]
    PROVE  Continues(f \o g, f, g, a, b) /\ f \o g \in [1..(a + b) -> V]
<1>1. f \in Seq(V) /\ g \in Seq(V) /\ Len(f) = a /\ Len(g) = b
  OBVIOUS
<1> DEFINE d == f \o g
<1>2. /\ d \in Seq(V) /\ Len(d) = a + b
      /\ \A k \in 1..a : d[k] = f[k]
      /\ \A k \in 1..b : d[a + k] = g[k]
  BY <1>1
<1> HIDE DEF d
<1>3. DOMAIN d = 1..(a + b) /\ d \in [1..(a + b) -> V]
  BY <1>2
<1> QED BY <1>2, <1>3 DEF Continues, d

\* The key that a write leaves behind.
LEMMA NewKeys ==
    ASSUME KeysInv, NEW w, NEW r \in A!Rows, NEW k \in A!new_keys(w, r)
    PROVE  /\ k \in Nat /\ k <= MaxRows + writes + 1
           /\ Key = "fixed" => k \in {0, r}
           /\ Key = "newest" => k \in {0, sort[r], MaxRows + writes + 1}
           /\ A!Adds(w) => sort[r] = 0
           /\ A!Removes(w) => k = 0
<1> DEFINE key == A!Lists[list].key
           by_key ==
             CASE key = "fixed" -> {r}
               [] key = "edited" -> 1 .. MaxRows
               [] key \in {"oldest", "newest"} -> {IF sort[r] = 0 THEN A!Newest ELSE sort[r]}
               [] key = "updated" -> {A!Newest}
<1>1. /\ MaxRows \in Nat /\ writes \in Nat /\ r \in 1..MaxRows
      /\ sort[r] \in Nat /\ sort[r] <= MaxRows + writes
      /\ key = Key /\ key \in {"fixed", "edited", "oldest", "newest", "updated"}
      /\ A!Newest = MaxRows + writes + 1
  BY ListsAssumption, TheLists DEF KeysInv, A!Rows, A!Newest, Key
<1>2. /\ A!Adds(w) => sort[r] = 0
      /\ A!Removes(w) => k = 0
      /\ k = 0 \/ k \in by_key
  BY DEF A!new_keys
<1>3. k \in by_key => /\ k \in Nat /\ k <= MaxRows + writes + 1
                      /\ key = "fixed" => k = r
                      /\ key = "newest" => k \in {sort[r], MaxRows + writes + 1}
  <2>1. CASE key = "fixed"
    BY <1>1, <2>1
  <2>2. CASE key = "edited"
    BY <1>1, <2>2
  <2>3. CASE key \in {"oldest", "newest"}
    BY <1>1, <2>3
  <2>4. CASE key = "updated"
    BY <1>1, <2>4
  <2> HIDE DEF by_key, key
  <2> QED BY <1>1, <2>1, <2>2, <2>3, <2>4
<1> HIDE DEF by_key, key
<1> QED BY <1>1, <1>2, <1>3

\* A write that leaves the counters of the list's cursor alone leaves the rows as they are or
\* is one the list is known to miss; what it does then keeps the place of every row shown.
LEMMA KeysStep ==
    ASSUME KeysInv, NEW w \in A!Writers, A!write(w) PROVE KeysInv'
<1>1. PICK r \in A!Rows : \E k \in A!new_keys(w, r) : sort' = [sort EXCEPT ![r] = k]
  BY DEF A!write
<1>2. PICK k \in A!new_keys(w, r) : sort' = [sort EXCEPT ![r] = k]
  BY <1>1
<1>3. /\ writes' = writes + 1 /\ list' = list
      /\ counters' = [c \in A!Counters |->
                        counters[c] + (IF c \in A!Writes[w].moves THEN 1 ELSE 0)]
  BY DEF A!write
<1>4. /\ k \in Nat /\ k <= MaxRows + writes + 1
      /\ Key = "fixed" => k \in {0, r}
      /\ Key = "newest" => k \in {0, sort[r], MaxRows + writes + 1}
  BY NewKeys
<1>5. /\ list \in DOMAIN A!Lists /\ Key' = Key /\ MaxRows \in Nat /\ writes \in Nat
      /\ sort \in [A!Rows -> Nat] /\ counters \in [A!Counters -> Nat]
      /\ \A u \in A!Rows : sort[u] <= MaxRows + writes
  BY <1>3, ListsAssumption DEF KeysInv, Key
<1>6. sort' \in [A!Rows -> Nat] /\ sort'[r] = k /\ \A u \in A!Rows \ {r} : sort'[u] = sort[u]
  BY <1>2, <1>4, <1>5
<1>7. counters' \in [A!Counters -> Nat] /\ writes' \in Nat
  BY <1>3, <1>5
<1>8. \A u \in A!Rows : sort'[u] <= MaxRows + writes'
  <2> SUFFICES ASSUME NEW u \in A!Rows PROVE sort'[u] <= MaxRows + writes'
    OBVIOUS
  <2>1. sort[u] \in Nat /\ sort[u] <= MaxRows + writes
    BY <1>5
  <2> QED BY <1>3, <1>4, <1>5, <1>6, <2>1
<1>9. Key = "fixed" => \A u \in A!Rows : sort'[u] \in {0, u}
  BY <1>4, <1>6 DEF KeysInv
<1>10. ASSUME Key = "newest" PROVE \A u, v \in A!Listed' : sort'[u] = sort'[v] => u = v
  <2>1. A!Listed' = {u \in A!Rows : sort'[u] # 0} /\ A!Listed = {u \in A!Rows : sort[u] # 0}
    BY DEF A!Listed, A!Rows
  <2>2. \A u, v \in A!Listed : sort[u] = sort[v] => u = v
    BY <1>10 DEF KeysInv
  <2>3. \A u \in A!Rows : sort[u] \in Nat /\ sort[u] < MaxRows + writes + 1
    BY <1>5
  <2>4. ASSUME NEW u \in A!Rows, u # r, sort'[u] # 0, sort'[u] = sort'[r] PROVE FALSE
    <3>1. sort[u] = k /\ k # 0
      BY <1>6, <2>4
    <3>2. k = sort[r]
      BY <1>4, <1>10, <2>3, <3>1
    <3> QED BY <2>1, <2>2, <2>4, <3>1, <3>2
  <2>5. ASSUME NEW u \in A!Rows, NEW v \in A!Rows, sort'[u] # 0, sort'[u] = sort'[v], u # r, v # r
        PROVE  u = v
    BY <1>6, <2>1, <2>2, <2>5
  <2> QED BY <2>1, <2>4, <2>5
<1> QED BY <1>3, <1>5, <1>6, <1>7, <1>8, <1>9, <1>10 DEF KeysInv

LEMMA WriteStep ==
    ASSUME ListsInv, cursor.at = "page", NEW w \in A!Writers, A!write(w)
    PROVE  ListsInv'
<1>1. PICK r \in A!Rows : \E k \in A!new_keys(w, r) :
         /\ sort' = [sort EXCEPT ![r] = k]
         /\ steady' = IF k = sort[r] THEN steady ELSE steady \ {r}
         /\ unseen' = (unseen \/ (k # sort[r] /\ <<w, list>> \in A!Missed))
  BY DEF A!write
<1>2. PICK k \in A!new_keys(w, r) :
         /\ sort' = [sort EXCEPT ![r] = k]
         /\ steady' = IF k = sort[r] THEN steady ELSE steady \ {r}
         /\ unseen' = (unseen \/ (k # sort[r] /\ <<w, list>> \in A!Missed))
  BY <1>1
<1>3. /\ writes' = writes + 1 /\ list \in A!Writes[w].changes
      /\ UNCHANGED <<list, cursor, shown>>
      /\ counters' = [c \in A!Counters |->
                        counters[c] + (IF c \in A!Writes[w].moves THEN 1 ELSE 0)]
  BY DEF A!write
<1>4. KeysInv /\ KeysInv' /\ unseen \in BOOLEAN /\ steady \subseteq A!Listed
  BY KeysStep DEF ListsInv
<1>5. /\ Key = "fixed" => k \in {0, r}
      /\ Key = "newest" => k \in {0, sort[r], MaxRows + writes + 1}
      /\ A!Adds(w) => sort[r] = 0
      /\ A!Removes(w) => k = 0
  BY <1>4, NewKeys
<1>6. /\ sort \in [A!Rows -> Nat] /\ counters \in [A!Counters -> Nat]
      /\ MaxRows \in Nat /\ writes \in Nat /\ list \in DOMAIN A!Lists
      /\ Key = "fixed" => \A u \in A!Rows : sort'[u] \in {0, u}
  BY <1>3, <1>4, ListsAssumption DEF KeysInv, Key, A!Rows
<1>7. /\ sort'[r] = k /\ \A u \in A!Rows \ {r} : sort'[u] = sort[u]
      /\ k = sort[r] => sort' = sort
  BY <1>2, <1>6
<1>8. Key' = Key /\ Pinned' = Pinned /\ ByKey' = ByKey
  BY <1>3 DEF Key, Pinned, ByKey
<1>9. /\ Pinned \subseteq A!Counters
      /\ list \in {"detecting", "owner_reviews"} <=> Key = "updated"
      /\ ByKey => Key \in {"fixed", "newest", "updated"}
  BY <1>6, TheLists
<1>10. /\ cursor.pins \in [Pinned -> Nat]
       /\ \A c \in Pinned : cursor.pins[c] <= counters[c]
       /\ Fresh /\ ~unseen => FirstPages
       /\ Fresh /\ ByKey => Resumed
  BY DEF ListsInv
<1>11. \A c \in Pinned : /\ counters[c] \in Nat /\ cursor.pins[c] \in Nat
                         /\ counters'[c] = counters[c]
                              + (IF c \in A!Writes[w].moves THEN 1 ELSE 0)
  BY <1>3, <1>6, <1>9, <1>10
<1>12. \A c \in Pinned : cursor.pins[c] <= counters'[c]
  BY <1>10, <1>11
<1>13. ASSUME Fresh' PROVE Fresh /\ <<w, list>> \in A!Missed
  <2>1. cursor.pins = [c \in Pinned |-> counters'[c]]
    BY <1>3, <1>8, <1>13 DEF Fresh, A!pinned, Pinned
  <2>2. \A c \in Pinned : cursor.pins[c] = counters'[c]
    BY <2>1
  <2>3. \A c \in Pinned : c \notin A!Writes[w].moves /\ counters[c] = cursor.pins[c]
    BY <1>10, <1>11, <2>2
  <2>4. A!pinned = [c \in Pinned |-> counters[c]]
    BY DEF A!pinned, Pinned
  <2>5. cursor.pins = A!pinned
    BY <1>10, <2>3, <2>4
  <2>6. <<w, list>> \in A!Missed
    BY <1>3, <1>6, <2>3, WritesAreNoticed
  <2> QED BY <2>5, <2>6 DEF Fresh
<1>14. ASSUME Fresh', ~unseen' PROVE FirstPages'
  <2>1. ~unseen /\ k = sort[r] /\ Fresh
    BY <1>2, <1>4, <1>13, <1>14
  <2>2. sort' = sort /\ UNCHANGED <<list, cursor, shown>> /\ FirstPages
    BY <1>3, <1>7, <1>10, <2>1
  <2>3. A!Listed' = A!Listed /\ A!earlier' = A!earlier
    BY <2>2 DEF A!Listed, A!earlier, A!Rows
  <2> QED BY <2>2, <2>3 DEF FirstPages
<1>15. ASSUME Fresh', ByKey PROVE Resumed'
  <2>1. Resumed /\ <<w, list>> \in A!Missed
    BY <1>10, <1>13, <1>15
  <2>2. Key = "updated" => w = "people"
    BY <1>9, <2>1 DEF A!Missed
  <2>3. /\ list = "owner_reviews" /\ w = "people" => sort[r] = 0
        /\ list = "detecting" /\ w = "people" => k = 0
    BY <1>5 DEF A!Adds, A!Removes
  <2> DEFINE key == cursor.key
             row == cursor.row
  <2>4. /\ Len(shown) \in Nat /\ shown \in [1..Len(shown) -> A!Rows]
        /\ key \in Nat /\ row \in A!Rows /\ row \in Nat
        /\ \A m \in 1..Len(shown) : sort[shown[m]] = 0 \/ ~After(shown[m], key, row)
        /\ \A u \in steady : (\E m \in 1..Len(shown) : shown[m] = u) \/ After(u, key, row)
        /\ Key = "fixed" => key = row /\ \A m \in 1..Len(shown) : shown[m] <= row
        /\ Key = "newest" => key <= MaxRows + writes
        /\ list = "owner_reviews" => \A m \in 1..Len(shown) : sort[shown[m]] # 0
    BY <2>1 DEF Resumed, A!Rows
  <2> HIDE DEF key, row
  <2>5. key' = key /\ row' = row
    BY <1>3 DEF key, row
  <2>6. \A u : After(u, key, row)' <=> IF Key = "newest" THEN sort'[u] < key
                                       ELSE sort'[u] > key \/ (sort'[u] = key /\ u > row)
    BY <1>8, <2>5 DEF After
  <2>7. \A u : sort'[u] = sort[u] => (After(u, key, row)' <=> After(u, key, row))
    BY <2>6 DEF After
  <2>8. ASSUME NEW x, NEW m \in 1..Len(shown), shown[m] = x
        PROVE  sort'[x] = 0 \/ ~After(x, key, row)'
    <3>1. x \in A!Rows /\ x \in Nat
      BY <2>4, <2>8 DEF A!Rows
    <3>2. CASE sort'[x] = sort[x]
      <4>1. After(x, key, row)' <=> After(x, key, row)
        BY <2>7, <3>2
      <4>2. sort[x] = 0 \/ ~After(x, key, row)
        BY <2>4, <2>8
      <4> QED BY <3>2, <4>1, <4>2
    <3>3. CASE sort'[x] # sort[x]
      <4>1. x = r
        BY <1>7, <3>1, <3>3
      <4>2. CASE Key = "fixed"
        <5>1. sort'[r] \in {0, r} /\ r <= row /\ key = row
          BY <1>6, <2>4, <2>8, <4>1, <4>2
        <5>2. ASSUME sort'[r] = r PROVE ~After(r, key, row)'
          <6>1. After(r, key, row)' <=> r > key \/ (r = key /\ r > row)
            BY <2>6, <4>2, <5>2
          <6> QED BY <2>4, <3>1, <4>1, <5>1, <6>1
        <5> QED BY <4>1, <5>1, <5>2
      <4>3. CASE Key = "newest"
        <5>1. k = 0 \/ k = MaxRows + writes + 1
          BY <1>5, <1>7, <3>3, <4>1, <4>3
        <5>2. After(r, key, row)' <=> k < key
          BY <1>7, <2>6, <4>3
        <5>3. key <= MaxRows + writes
          BY <2>4, <4>3
        <5> QED BY <1>6, <1>7, <2>4, <4>1, <5>1, <5>2, <5>3
      <4>4. CASE Key = "updated"
        <5>1. list = "owner_reviews" => FALSE
          BY <2>2, <2>3, <2>4, <2>8, <4>1, <4>4
        <5>2. list = "detecting"
          BY <1>9, <4>4, <5>1
        <5> QED BY <1>7, <2>2, <2>3, <4>1, <4>4, <5>2
      <4> QED BY <1>9, <1>15, <4>2, <4>3, <4>4
    <3> QED BY <3>2, <3>3
  <2>9. \A m \in 1..Len(shown) : sort'[shown'[m]] = 0 \/ ~After(shown[m], key, row)'
    BY <1>3, <2>8
  <2>10. ASSUME NEW u \in steady'
         PROVE  (\E m \in 1..Len(shown) : shown[m] = u) \/ After(u, key, row)'
    <3>1. u \in steady /\ sort'[u] = sort[u]
      BY <1>2, <1>4, <1>7, <2>10 DEF A!Listed
    <3> QED BY <2>4, <2>7, <3>1
  <2>11. list = "owner_reviews" => \A m \in 1..Len(shown) : sort'[shown[m]] # 0
    BY <1>7, <1>9, <2>2, <2>3, <2>4
  <2>12. Key = "newest" => key <= MaxRows + writes'
    BY <1>3, <1>6, <2>4
  <2>13. \A m, n \in 1..Len(shown) : shown[m] = shown[n] => m = n
    BY <2>1 DEF Resumed
  <2>14. A!Rows' = A!Rows
    BY DEF A!Rows
  <2> QED BY <1>3, <1>8, <2>4, <2>5, <2>9, <2>10, <2>11, <2>12, <2>13, <2>14 DEF Resumed, key, row
<1>16. steady' \subseteq A!Listed' /\ unseen' \in BOOLEAN
  BY <1>2, <1>4, <1>7 DEF A!Listed, A!Rows
<1>17. A!PagesAddUp'
  BY <1>3 DEF A!PagesAddUp
<1>18. cursor'.at = "page"
  BY <1>3
<1> QED BY <1>3, <1>4, <1>8, <1>10, <1>12, <1>14, <1>15, <1>16, <1>17, <1>18 DEF ListsInv

\* What a page says of the cursor and of the rows shown.
LEMMA APage ==
    ASSUME A!read_page, KeysInv
    PROVE  /\ UNCHANGED <<list, sort, counters, writes>>
           /\ cursor.at \in {"start", "page"} /\ (cursor.at = "page" => Fresh)
           /\ IF cursor.at = "start" THEN steady' = A!Listed /\ unseen' = FALSE
              ELSE UNCHANGED <<steady, unseen>>
           /\ A!Listed' = A!Listed /\ A!earlier' = A!earlier /\ A!Rows' = A!Rows
           /\ Key' = Key /\ Pinned' = Pinned /\ ByKey' = ByKey /\ KeysInv' /\ A!pinned' = A!pinned
<1>1. /\ UNCHANGED <<list, sort, counters, writes>>
      /\ cursor.at \in {"start", "page"} /\ (cursor.at = "page" => Fresh)
      /\ IF cursor.at = "start" THEN steady' = A!Listed /\ unseen' = FALSE
         ELSE UNCHANGED <<steady, unseen>>
  BY DEF A!read_page, A!usable, Fresh
<1>2. A!Listed' = A!Listed /\ A!earlier' = A!earlier /\ A!Rows' = A!Rows
  BY <1>1 DEF A!Listed, A!earlier, A!Rows
<1>3. Key' = Key /\ Pinned' = Pinned /\ ByKey' = ByKey /\ A!pinned' = A!pinned
  BY <1>1 DEF Key, Pinned, ByKey, A!pinned
<1>4. KeysInv'
  BY <1>1, <1>2, <1>3 DEF KeysInv
<1> QED BY <1>1, <1>2, <1>3, <1>4

\* The page is the first part of the rows that remain: k of them, after the j before.
PageIs(j, k, d, U) ==
    /\ shown' \in [1..(j + k) -> U] /\ Len(shown') = j + k
    /\ \A m \in 1..j : shown'[m] = shown[m]
    /\ \A m \in 1..k : shown'[j + m] = A!remaining[m]
    /\ \/ k = d /\ cursor' = [at |-> "end"]
       \/ /\ 0 < k /\ k < d
          /\ cursor' = [at |-> "page", pins |-> A!pinned, offset |-> j + k,
                        row |-> A!remaining[k], key |-> sort[A!remaining[k]]]

LEMMA APart ==
    ASSUME A!read_page, NEW U, NEW d \in Nat, A!remaining \in [1..d -> U],
           NEW j \in Nat, shown \in [1..j -> U], Len(shown) = j
    PROVE  \E k \in 0..d : PageIs(j, k, d, U)
<1> DEFINE rest == A!remaining
<1>1. PICK limit \in 1..MaxPage :
         LET page == IF Len(rest) > limit THEN SubSeq(rest, 1, limit) ELSE rest IN
         /\ shown' = shown \o page
         /\ cursor' = A!next_cursor(page, Len(rest) > limit)
  BY DEF A!read_page
<1> DEFINE page == IF Len(rest) > limit THEN SubSeq(rest, 1, limit) ELSE rest
<1>2. shown' = shown \o page /\ cursor' = A!next_cursor(page, Len(rest) > limit)
  BY <1>1
<1>3. limit \in Nat \ {0}
  BY ListsAssumption
<1> HIDE DEF rest
<1>4. PICK k \in 0..d : /\ k = IF d > limit THEN limit ELSE d
                        /\ page = [m \in 1..k |-> rest[m]]
                        /\ page \in [1..k -> U] /\ Len(page) = k
                        /\ Len(rest) = d
  <2>1. rest \in [1..d -> U]
    BY DEF rest
  <2> QED BY <1>3, <2>1, FirstPart
<1> HIDE DEF page
<1>5. k \in Nat
  OBVIOUS
<1>6. Continues(shown \o page, shown, page, j, k) /\ shown \o page \in [1..(j + k) -> U]
  BY <1>4, <1>5, Continued
<1>7. /\ shown' \in [1..(j + k) -> U] /\ Len(shown') = j + k
      /\ \A m \in 1..j : shown'[m] = shown[m]
      /\ \A m \in 1..k : shown'[j + m] = rest[m]
  <2>1. \A m \in 1..k : page[m] = rest[m]
    BY <1>4
  <2> QED BY <1>2, <1>6, <2>1 DEF Continues
<1>8. CASE d > limit
  <2>1. 0 < k /\ k < d /\ k = limit /\ Len(rest) > limit
    BY <1>3, <1>4, <1>8
  <2>2. page[k] = rest[k] /\ Len(page) = k
    BY <1>4, <1>5, <2>1
  <2>3. cursor' = [at |-> "page", pins |-> A!pinned, offset |-> j + k,
                   row |-> rest[k], key |-> sort[rest[k]]]
    BY <1>2, <2>1, <2>2 DEF A!next_cursor
  <2> QED BY <1>7, <2>1, <2>3 DEF rest, PageIs
<1>9. CASE ~(d > limit)
  <2>1. k = d /\ ~(Len(rest) > limit)
    BY <1>4, <1>9
  <2>2. cursor' = [at |-> "end"]
    BY <1>2, <2>1 DEF A!next_cursor, A!LastPage
  <2> QED BY <1>7, <2>1, <2>2 DEF rest, PageIs
<1> QED BY <1>8, <1>9

\* Pages of a list that stays as it is are its first rows.
LEMMA ReadsOn ==
    ASSUME KeysInv, A!read_page, NEW j \in 0..Cardinality(A!Listed),
           shown = [m \in 1..j |-> Sorted(A!Listed, A!earlier)[m]],
           A!remaining = [m \in 1..(Cardinality(A!Listed) - j) |->
                            Sorted(A!Listed, A!earlier)[j + m]]
    PROVE  /\ cursor'.at = "page" => FirstPages'
           /\ cursor'.at = "end" =>
                /\ shown' \in [1..Cardinality(A!Listed) -> A!Listed]
                /\ \A m \in 1..Cardinality(A!Listed) : shown'[m] = Sorted(A!Listed, A!earlier)[m]
<1> DEFINE U == A!Listed
           q == Sorted(U, A!earlier)
           n == Cardinality(U)
           d == n - j
<1>1. IsFiniteSet(U) /\ n \in Nat /\ Orders(A!earlier, U)
  BY RowsHaveAnOrder
<1>2. q \in [1..n -> U]
  BY <1>1, SortedRows DEF InOrder
<1>3. A!Listed' = U /\ A!earlier' = A!earlier /\ sort' = sort
  BY APage
<1> HIDE DEF q, n
<1>4. j \in Nat /\ j \in 0..n /\ d \in Nat
  BY <1>1 DEF n
<1>5. /\ shown = [m \in 1..j |-> q[m]] /\ A!remaining = [m \in 1..d |-> q[j + m]]
  BY DEF q, n
<1> HIDE DEF U, d
<1>6. /\ \A m \in 1..j : m \in 1..n
      /\ \A m \in 1..d : j + m \in 1..n
  BY <1>1, <1>4 DEF d
<1>7. /\ shown \in [1..j -> U] /\ A!remaining \in [1..d -> U]
      /\ \A m \in 1..j : shown[m] = q[m]
      /\ \A m \in 1..d : A!remaining[m] = q[j + m]
  BY <1>2, <1>5, <1>6
<1>8. Len(shown) = j
  BY <1>4, <1>7
<1>9. PICK k \in 0..d : PageIs(j, k, d, U)
  <2>1. PICK i \in Nat, e \in Nat : i = j /\ e = d
    BY <1>4
  <2>2. \E k \in 0..e : PageIs(i, k, e, U)
    BY <1>7, <1>8, <2>1, APart
  <2> QED BY <2>1, <2>2
<1>10. /\ shown' \in [1..(j + k) -> U] /\ Len(shown') = j + k
       /\ \A m \in 1..j : shown'[m] = shown[m]
       /\ \A m \in 1..k : shown'[j + m] = A!remaining[m]
       /\ \/ k = d /\ cursor' = [at |-> "end"]
          \/ /\ 0 < k /\ k < d
             /\ cursor' = [at |-> "page", pins |-> A!pinned, offset |-> j + k,
                           row |-> A!remaining[k], key |-> sort[A!remaining[k]]]
  BY <1>9 DEF PageIs
<1>11. k \in Nat /\ j + k \in 0..n /\ (\A m \in 1..k : m \in 1..d)
  BY <1>1, <1>4 DEF d
<1>12. \A m \in 1..(j + k) : shown'[m] = q[m]
  <2> SUFFICES ASSUME NEW m \in 1..(j + k) PROVE shown'[m] = q[m]
    OBVIOUS
  <2>1. CASE m <= j
    <3>1. m \in 1..j
      BY <1>4, <1>11, <2>1
    <3> QED BY <3>1, <1>7, <1>10
  <2>2. CASE m > j
    <3>1. m - j \in 1..k /\ j + (m - j) = m
      BY <1>4, <1>11, <2>2
    <3>2. shown'[j + (m - j)] = q[j + (m - j)]
      BY <3>1, <1>7, <1>10, <1>11
    <3> QED BY <3>1, <3>2
  <2> QED BY <2>1, <2>2, <1>4, <1>11
<1>13. CASE k = d /\ cursor' = [at |-> "end"]
  <2>1. j + k = n
    BY <1>1, <1>4, <1>13 DEF d
  <2>2. cursor'.at # "page"
    BY <1>13
  <2>3. shown' \in [1..n -> U] /\ \A m \in 1..n : shown'[m] = q[m]
    BY <2>1, <1>10, <1>12
  <2> QED BY <2>2, <2>3 DEF q, n, U
<1>14. CASE /\ 0 < k /\ k < d
            /\ cursor' = [at |-> "page", pins |-> A!pinned, offset |-> j + k,
                           row |-> A!remaining[k], key |-> sort[A!remaining[k]]]
  <2>1. j + k \in 1..n
    BY <1>4, <1>11, <1>14
  <2>2. shown' = [m \in 1..(j + k) |-> q[m]]
    BY <1>10, <1>12
  <2>3. shown'[j + k] = A!remaining[k] /\ cursor'.row = shown'[Len(shown')]
    BY <1>10, <1>11, <1>14
  <2>4. cursor'.key = sort'[cursor'.row] /\ cursor'.offset = Len(shown') /\ cursor'.at # "end"
    BY <1>3, <1>10, <1>14
  <2>5. Sorted(A!Listed, A!earlier)' = q /\ Cardinality(A!Listed)' = n
    BY <1>3 DEF q, n
  <2>6. FirstPages'
    BY <1>10, <2>1, <2>2, <2>3, <2>4, <2>5 DEF FirstPages
  <2> QED BY <2>4, <2>6
<1> QED BY <1>10, <1>13, <1>14

\* What is known of the rows shown when T is what remains.
Resumes(T, j) ==
    /\ T \in SUBSET A!Listed
    /\ A!remaining = Sorted(T, A!earlier)
    /\ j \in Nat /\ shown \in [1..j -> A!Rows] /\ Len(shown) = j
    /\ \A m, n \in 1..j : shown[m] = shown[n] => m = n
    /\ \A m \in 1..j : shown[m] \notin T
    /\ \A m \in 1..j : \A x \in T : sort[shown[m]] = 0 \/ ~After(shown[m], sort[x], x)
    /\ \A r \in steady' : (\E m \in 1..j : shown[m] = r) \/ r \in T
    /\ Key = "fixed" => \A m \in 1..j : \A x \in T : shown[m] <= x
    /\ list = "owner_reviews" => \A m \in 1..j : sort[shown[m]] # 0

\* A page shows no row again, and passes over no steady one.
LEMMA ResumesOn ==
    ASSUME KeysInv, A!read_page, NEW T, NEW j, Resumes(T, j)
    PROVE  /\ cursor'.at = "page" => Resumed'
           /\ cursor'.at = "end" =>
                \E n \in Nat :
                   /\ shown' \in [1..n -> A!Rows]
                   /\ \A m, i \in 1..n : shown'[m] = shown'[i] => m = i
                   /\ \A r \in steady' : \E m \in 1..n : shown'[m] = r
<1> DEFINE d == Cardinality(T)
           g == Sorted(T, A!earlier)
           U == A!Rows
<1>1. /\ T \in SUBSET A!Listed /\ j \in Nat
      /\ shown \in [1..j -> U] /\ Len(shown) = j /\ A!remaining = g
      /\ \A m, n \in 1..j : shown[m] = shown[n] => m = n
      /\ \A m \in 1..j : shown[m] \notin T
      /\ \A m \in 1..j : \A x \in T : sort[shown[m]] = 0 \/ ~After(shown[m], sort[x], x)
      /\ \A r \in steady' : (\E m \in 1..j : shown[m] = r) \/ r \in T
      /\ Key = "fixed" => \A m \in 1..j : \A x \in T : shown[m] <= x
      /\ list = "owner_reviews" => \A m \in 1..j : sort[shown[m]] # 0
  BY DEF Resumes
<1>2. IsFiniteSet(T) /\ d \in Nat /\ Orders(A!earlier, T)
  BY <1>1, RowsHaveAnOrder
<1>3. g \in [1..d -> T] /\ InOrder(g, T, A!earlier)
  BY <1>2, SortedRows DEF InOrder
<1>4. /\ \A m, n \in 1..d : g[m] = g[n] => m = n
      /\ \A x \in T : \E m \in 1..d : g[m] = x
      /\ \A m, n \in 1..d : <<g[m], g[n]>> \in A!earlier <=> m < n
  BY <1>2, <1>3, EveryRowOnce
<1>5. T \subseteq U /\ \A x \in T : sort[x] # 0 /\ sort[x] \in Nat /\ x \in Nat
  BY <1>1 DEF A!Listed, A!Rows, KeysInv
<1>6. UNCHANGED <<list, sort, writes>> /\ Key' = Key /\ A!Rows' = U
  BY APage
<1>7. MaxRows \in Nat /\ writes \in Nat /\ \A x \in U : sort[x] <= MaxRows + writes
  BY ListsAssumption DEF KeysInv
<1>8. Key = "fixed" => \A x \in T : sort[x] = x
  BY <1>5 DEF KeysInv
<1>9. \A x, y \in U : <<y, x>> \in A!earlier <=> After(x, sort[y], y)
  BY DEF A!earlier, After, Key, KeysInv, A!Rows
<1> HIDE DEF d, g, U
<1>10. g \in [1..d -> U] /\ \A m \in 1..d : g[m] \in T
  BY <1>3, <1>5
<1>11. PICK k \in 0..d : PageIs(j, k, d, U)
  <2>1. PICK i \in Nat, e \in Nat : i = j /\ e = d
    BY <1>1, <1>2
  <2>2. A!remaining \in [1..e -> U] /\ shown \in [1..i -> U] /\ Len(shown) = i
    BY <1>1, <1>10, <2>1
  <2>3. \E k \in 0..e : PageIs(i, k, e, U)
    BY <2>2, APart
  <2> QED BY <2>1, <2>3
<1>12. /\ shown' \in [1..(j + k) -> U] /\ Len(shown') = j + k
       /\ \A m \in 1..j : shown'[m] = shown[m]
       /\ \A m \in 1..k : shown'[j + m] = g[m]
       /\ \/ k = d /\ cursor' = [at |-> "end"]
          \/ /\ 0 < k /\ k < d
             /\ cursor' = [at |-> "page", pins |-> A!pinned, offset |-> j + k,
                           row |-> g[k], key |-> sort[g[k]]]
  BY <1>1, <1>11 DEF PageIs
<1>13. k \in Nat /\ j + k \in Nat /\ \A m \in 1..k : m \in 1..d
  BY <1>1, <1>2
<1>14. \A m \in 1..(j + k) : m \in 1..j \/ \E i \in 1..k : m = j + i
  <2> SUFFICES ASSUME NEW m \in 1..(j + k), ~(m \in 1..j) PROVE \E i \in 1..k : m = j + i
    OBVIOUS
  <2>1. m - j \in 1..k /\ m = j + (m - j)
    BY <1>1, <1>13
  <2> QED BY <2>1
<1>15. \A m \in 1..j : m \in 1..(j + k)
  BY <1>1, <1>13
<1>16. \A i \in 1..k : j + i \in 1..(j + k)
  BY <1>1, <1>13
<1>17. ASSUME NEW m \in 1..(j + k), NEW n \in 1..(j + k), shown'[m] = shown'[n] PROVE m = n
  <2>1. CASE m \in 1..j /\ n \in 1..j
    BY <1>1, <1>12, <1>17, <2>1
  <2>2. ASSUME NEW i \in 1..k, m = j + i PROVE m = n
    <3>1. shown'[m] = g[i] /\ g[i] \in T
      BY <1>10, <1>12, <1>13, <2>2
    <3>2. n \notin 1..j
      BY <1>1, <1>12, <1>17, <3>1
    <3>3. PICK h \in 1..k : n = j + h
      BY <1>14, <3>2
    <3>4. g[i] = g[h]
      BY <1>12, <1>17, <3>1, <3>3
    <3> QED BY <1>4, <1>13, <2>2, <3>3, <3>4
  <2>3. ASSUME NEW i \in 1..k, n = j + i PROVE m = n
    <3>1. shown'[n] = g[i] /\ g[i] \in T
      BY <1>10, <1>12, <1>13, <2>3
    <3>2. m \notin 1..j
      BY <1>1, <1>12, <1>17, <3>1
    <3>3. PICK h \in 1..k : m = j + h
      BY <1>14, <3>2
    <3> QED BY <2>2, <3>3
  <2> QED BY <1>14, <2>1, <2>2, <2>3
<1>18. ASSUME k = d, NEW r \in steady' PROVE \E m \in 1..(j + k) : shown'[m] = r
  <2>1. CASE \E m \in 1..j : shown[m] = r
    BY <1>12, <1>15, <2>1
  <2>2. CASE r \in T
    <3>1. PICK i \in 1..k : g[i] = r
      BY <1>4, <1>18, <2>2
    <3> QED BY <1>12, <1>16, <3>1
  <2> QED BY <1>1, <2>1, <2>2
<1>19. CASE k = d /\ cursor' = [at |-> "end"]
  <2>1. cursor'.at # "page"
    BY <1>19
  <2> QED BY <2>1, <1>12, <1>13, <1>17, <1>18, <1>19 DEF U
<1>20. CASE /\ 0 < k /\ k < d
            /\ cursor' = [at |-> "page", pins |-> A!pinned, offset |-> j + k,
                          row |-> g[k], key |-> sort[g[k]]]
  <2> DEFINE c == g[k]
  <2>1. k \in 1..k /\ k \in 1..d /\ c \in T /\ c \in U /\ sort[c] \in Nat
    BY <1>2, <1>5, <1>10, <1>13, <1>20
  <2>2. cursor'.row = c /\ cursor'.key = sort[c] /\ cursor'.at # "end"
    BY <1>20
  <2> HIDE DEF c
  <2>3. \A x : After(x, cursor.key, cursor.row)' <=> After(x, sort[c], c)
    BY <1>6, <2>2 DEF After
  <2>4. ASSUME NEW m \in 1..(j + k), NEW x, shown'[m] = x
        PROVE  /\ sort[x] = 0 \/ ~After(x, sort[c], c)
               /\ Key = "fixed" => x <= c
               /\ list = "owner_reviews" => sort[x] # 0
    <3>1. CASE m \in 1..j
      BY <1>1, <1>12, <2>1, <2>4, <3>1
    <3>2. ASSUME NEW i \in 1..k, m = j + i
          PROVE  /\ sort[x] = 0 \/ ~After(x, sort[c], c)
                 /\ Key = "fixed" => x <= c
                 /\ list = "owner_reviews" => sort[x] # 0
      <4>1. x = g[i] /\ i \in 1..d /\ x \in T /\ x \in U
        BY <1>5, <1>10, <1>12, <1>13, <2>4, <3>2
      <4>2. ~(k < i)
        BY <1>13
      <4>3. <<c, x>> \notin A!earlier
        BY <1>4, <2>1, <4>1, <4>2 DEF c
      <4>4. ~After(x, sort[c], c)
        BY <1>9, <2>1, <4>1, <4>3
      <4>5. Key = "fixed" => x <= c
        BY <1>5, <1>8, <2>1, <4>1, <4>4 DEF After
      <4> QED BY <1>5, <4>1, <4>4, <4>5
    <3> QED BY <1>14, <3>1, <3>2
  <2>5. ASSUME NEW r \in steady'
        PROVE  (\E m \in 1..(j + k) : shown'[m] = r) \/ After(r, sort[c], c)
    <3>1. CASE \E m \in 1..j : shown[m] = r
      BY <1>12, <1>15, <3>1
    <3>2. CASE r \in T
      <4>1. PICK i \in 1..d : g[i] = r
        BY <1>4, <3>2
      <4>2. CASE i \in 1..k
        BY <1>12, <1>16, <4>1, <4>2
      <4>3. CASE i \notin 1..k
        <5>1. k < i
          BY <1>2, <1>13, <4>3
        <5>2. <<c, r>> \in A!earlier
          BY <1>4, <2>1, <4>1, <5>1 DEF c
        <5> QED BY <1>5, <1>9, <2>1, <3>2, <5>2
      <4> QED BY <4>2, <4>3
    <3> QED BY <1>1, <3>1, <3>2
  <2>6. \A m \in 1..(j + k) : sort'[shown'[m]] = 0 \/ ~After(shown[m], cursor.key, cursor.row)'
    BY <1>6, <2>3, <2>4
  <2>7. \A r \in steady' : \/ \E m \in 1..(j + k) : shown'[m] = r
                           \/ After(r, cursor.key, cursor.row)'
    BY <2>3, <2>5
  <2>8. Key = "fixed" => cursor'.key = cursor'.row /\ \A m \in 1..(j + k) : shown'[m] <= cursor'.row
    BY <1>8, <2>1, <2>2, <2>4
  <2>9. Key = "newest" => cursor'.key <= MaxRows + writes'
    BY <1>6, <1>7, <2>1, <2>2
  <2>10. list = "owner_reviews" => \A m \in 1..(j + k) : sort'[shown'[m]] # 0
    BY <1>6, <2>4
  <2>11. cursor'.key \in Nat /\ cursor'.row \in U
    BY <2>1, <2>2
  <2>12. Resumed'
    BY <1>6, <1>12, <1>13, <1>17, <2>6, <2>7, <2>8, <2>9, <2>10, <2>11 DEF Resumed
  <2> QED BY <2>2, <2>12
<1> QED BY <1>12, <1>19, <1>20

\* None has been shown again.
LEMMA NoRowTwice ==
    ASSUME NEW n, n \in Nat, DOMAIN shown' = 1..n,
           \A m, i \in 1..n : shown'[m] = shown'[i] => m = i
    PROVE  /\ \A r : A!Times(r)' <= 1
           /\ \A r : A!Times(r)' = 1 <=> \E m \in 1..n : shown'[m] = r
<1>1. PICK s : s = shown'
  OBVIOUS
<1>2. DOMAIN s = 1..n /\ \A k, m \in 1..n : s[k] = s[m] => k = m
  BY <1>1
<1>3. ASSUME NEW r PROVE OnceIn(s, n, r)
  BY <1>2, RowsOnce
<1>4. ASSUME NEW r
      PROVE  A!Times(r)' <= 1 /\ (A!Times(r)' = 1 <=> \E m \in 1..n : shown'[m] = r)
  <2>1. A!Times(r)' = Cardinality({i \in DOMAIN s : s[i] = r})
    BY <1>1 DEF A!Times, Cardinality, A!Cardinality
  <2>2. /\ A!Times(r)' <= 1
        /\ A!Times(r)' = 1 <=> \E m \in 1..n : s[m] = r
    <3>1. PICK c : c = Cardinality({i \in DOMAIN s : s[i] = r})
      OBVIOUS
    <3>2. c <= 1 /\ (c = 1 <=> \E m \in 1..n : s[m] = r)
      BY <1>3, <3>1 DEF OnceIn
    <3> QED BY <2>1, <3>1, <3>2
  <2> QED BY <1>1, <2>2
<1> QED BY <1>4

\* What a list read to its end without being refused has shown.
LEMMA AllRows ==
    ASSUME KeysInv, A!Listed' = A!Listed, shown' \in [1..Cardinality(A!Listed) -> A!Listed],
           \A m \in 1..Cardinality(A!Listed) : shown'[m] = Sorted(A!Listed, A!earlier)[m]
    PROVE  /\ \A r : A!Times(r)' <= 1
           /\ \A r : A!Times(r)' = 1 <=> r \in A!Listed
<1> DEFINE U == A!Listed
           n == Cardinality(U)
           q == Sorted(U, A!earlier)
<1>1. IsFiniteSet(U) /\ n \in Nat /\ Orders(A!earlier, U)
  BY RowsHaveAnOrder
<1>2. q \in [1..n -> U] /\ InOrder(q, U, A!earlier)
  BY <1>1, SortedRows DEF InOrder
<1>3. /\ \A m, k \in 1..n : q[m] = q[k] => m = k
      /\ \A x \in U : \E m \in 1..n : q[m] = x
  BY <1>1, <1>2, EveryRowOnce
<1> HIDE DEF n, q, U
<1>4. DOMAIN shown' = 1..n /\ \A m \in 1..n : shown'[m] = q[m]
  BY DEF n, q, U
<1>5. \A m, k \in 1..n : shown'[m] = shown'[k] => m = k
  BY <1>3, <1>4
<1>6. PICK i \in Nat : i = n
  BY <1>1
<1>7. /\ \A r : A!Times(r)' <= 1
      /\ \A r : A!Times(r)' = 1 <=> \E m \in 1..i : shown'[m] = r
  BY <1>4, <1>5, <1>6, NoRowTwice
<1>8. \A r : (\E m \in 1..n : shown'[m] = r) <=> r \in U
  BY <1>2, <1>3, <1>4
<1> QED BY <1>6, <1>7, <1>8 DEF U

\* The rows that remain of a list that stays as it is.
LEMMA RemainsOfFirst ==
    ASSUME KeysInv, cursor.at = "page", FirstPages, A!Lists[list].by \in {"key", "offset"}
    PROVE  A!remaining = [m \in 1..(Cardinality(A!Listed) - Len(shown)) |->
                            Sorted(A!Listed, A!earlier)[Len(shown) + m]]
<1> DEFINE U == A!Listed
           n == Cardinality(U)
           q == Sorted(U, A!earlier)
           j == Len(shown)
           T == {r \in U : A!AfterCursor(r)}
<1>1. IsFiniteSet(U) /\ n \in Nat /\ Orders(A!earlier, U) /\ A!Ordered(U) = q
  BY RowsHaveAnOrder
<1>2. q \in [1..n -> U] /\ InOrder(q, U, A!earlier)
  BY <1>1, SortedRows DEF InOrder
<1>3. /\ j \in 1..n /\ shown = [m \in 1..j |-> q[m]]
      /\ cursor.offset = j /\ cursor.row = shown[j] /\ cursor.key = sort[cursor.row]
  BY DEF FirstPages
<1>4. A!Cardinality(U) = n
  BY DEF Cardinality, A!Cardinality
<1>5. A!remaining = IF A!Lists[list].by = "offset" THEN SubSeq(q, j + 1, n) ELSE A!Ordered(T)
  BY <1>1, <1>3, <1>4 DEF A!remaining
<1>6. cursor.row = q[j]
  <2> HIDE DEF q, j, n
  <2>1. j \in 1..j
    BY <1>1, <1>3
  <2> QED BY <1>3, <2>1
<1>7. \A x : x \in T <=> x \in U /\ <<q[j], x>> \in A!earlier
  <2>1. q[j] \in U /\ q[j] \in A!Rows
    BY <1>2, <1>3 DEF A!Listed
  <2>2. \A x \in U : A!AfterCursor(x) <=> <<q[j], x>> \in A!earlier
    <3> HIDE DEF q, j
    <3>1. \A x \in U : x \in A!Rows /\ sort[x] \in Nat /\ sort[q[j]] \in Nat
                       /\ x \in Nat /\ q[j] \in Nat
      BY <2>1 DEF A!Listed, A!Rows, KeysInv
    <3> QED BY <1>3, <1>6, <2>1, <3>1 DEF A!AfterCursor, A!earlier
  <2> HIDE DEF q, j, U
  <2> QED BY <2>2
<1> HIDE DEF q, j, n, U
<1>8. CASE A!Lists[list].by = "offset"
  <2>1. SubSeq(q, j + 1, n) = [m \in 1..(n - j) |-> q[j + m]]
    <3>1. q \in Seq(U) /\ Len(q) = n
      BY <1>1, <1>2
    <3>2. j \in Nat /\ j + 1 \in 1..(n + 1) /\ 1 + n - (j + 1) = n - j
      BY <1>1, <1>3
    <3>3. SubSeq(q, j + 1, n) = [m \in 1..(1 + n - (j + 1)) |-> q[m + (j + 1) - 1]]
      BY <1>1, <3>1, <3>2
    <3>4. \A m \in 1..(n - j) : m + (j + 1) - 1 = j + m
      BY <3>2
    <3>5. 1..(1 + n - (j + 1)) = 1..(n - j)
      BY <3>2
    <3> QED BY <3>3, <3>4, <3>5
  <2> QED BY <1>5, <1>8, <2>1 DEF q, j, n, U
<1>9. CASE A!Lists[list].by = "key"
  <2>1. T \in SUBSET A!Listed
    BY DEF U
  <2>2. A!Ordered(T) = Sorted(T, A!earlier)
    BY <2>1, RowsHaveAnOrder
  <2> HIDE DEF T
  <2>3. j \in 1..Cardinality(U)
    BY <1>3 DEF n
  <2>4. /\ Sorted(T, A!earlier) \in [1..(Cardinality(U) - j) -> T]
        /\ \A m \in 1..(Cardinality(U) - j) : Sorted(T, A!earlier)[m] = q[j + m]
    BY <1>1, <1>2, <1>7, <2>3, RowsAfter
  <2>5. Sorted(T, A!earlier) = [m \in 1..(n - j) |-> q[j + m]]
    BY <2>4 DEF n
  <2> QED BY <1>5, <1>9, <2>2, <2>5 DEF q, j, n, U
<1> QED BY <1>8, <1>9

\* A page of a list that no unnoticed write has changed is what comes next of the list.
LEMMA ReadsInOrder ==
    ASSUME ListsInv, A!read_page, ~unseen'
    PROVE  /\ cursor'.at = "page" => FirstPages'
           /\ cursor'.at = "end" =>
                /\ shown' \in [1..Cardinality(A!Listed) -> A!Listed]
                /\ \A m \in 1..Cardinality(A!Listed) : shown'[m] = Sorted(A!Listed, A!earlier)[m]
<1> DEFINE U == A!Listed
           q == Sorted(U, A!earlier)
           n == Cardinality(U)
<1>1. KeysInv
  BY DEF ListsInv
<1>2. IsFiniteSet(U) /\ n \in Nat /\ Orders(A!earlier, U) /\ A!Ordered(U) = q
  BY <1>1, RowsHaveAnOrder
<1>3. q \in [1..n -> U]
  BY <1>2, SortedRows DEF InOrder
<1>4. /\ cursor.at \in {"start", "page"} /\ (cursor.at = "page" => Fresh)
      /\ IF cursor.at = "start" THEN unseen' = FALSE ELSE unseen' = unseen
  BY <1>1, APage
<1>5. CASE cursor.at = "start"
  <2>1. shown = <<>> /\ A!remaining = q
    BY <1>2, <1>5 DEF ListsInv, A!remaining
  <2>2. PICK j \in Nat : j = 0
    OBVIOUS
  <2> HIDE DEF q, n
  <2>3. j \in 0..n /\ shown = [m \in 1..j |-> q[m]]
    <3>1. 1..j = {}
      BY <2>2
    <3> QED BY <1>2, <2>1, <2>2, <3>1
  <2>4. A!remaining = [m \in 1..(n - j) |-> q[j + m]]
    <3>1. n - j = n /\ \A m \in 1..n : j + m = m
      BY <1>2, <2>2
    <3>2. [m \in 1..(n - j) |-> q[j + m]] = [m \in 1..n |-> q[m]]
      BY <3>1
    <3> QED BY <1>3, <2>1, <3>2
  <2> QED BY <1>1, <2>3, <2>4, ReadsOn DEF q, n
<1>6. CASE cursor.at = "page"
  <2>1. FirstPages
    BY <1>4, <1>6 DEF ListsInv
  <2>2. A!Lists[list].by \in {"key", "offset"}
    BY <1>1, TheLists DEF KeysInv
  <2>3. A!remaining = [m \in 1..(Cardinality(A!Listed) - Len(shown)) |->
                         Sorted(A!Listed, A!earlier)[Len(shown) + m]]
    BY <1>1, <1>6, <2>1, <2>2, RemainsOfFirst
  <2> HIDE DEF n
  <2>4. PICK j : j = Len(shown)
    OBVIOUS
  <2>5. j \in 0..Cardinality(A!Listed)
    <3>1. j \in 1..n
      BY <2>1, <2>4 DEF FirstPages, n
    <3>2. j \in 0..n
      BY <1>2, <3>1
    <3> QED BY <3>2 DEF n
  <2>6. shown = [m \in 1..j |-> Sorted(A!Listed, A!earlier)[m]]
    BY <2>1, <2>4 DEF FirstPages
  <2> QED BY <1>1, <2>3, <2>4, <2>5, <2>6, ReadsOn
<1> QED BY <1>4, <1>5, <1>6

\* What remains of a list that goes on by key.
LEMMA RemainsByKey ==
    ASSUME ListsInv, A!read_page, ByKey PROVE \E T, j : Resumes(T, j)
<1>1. KeysInv /\ unseen \in BOOLEAN /\ steady \subseteq A!Listed
  BY DEF ListsInv
<1>2. /\ cursor.at \in {"start", "page"} /\ (cursor.at = "page" => Fresh)
      /\ IF cursor.at = "start" THEN steady' = A!Listed ELSE steady' = steady
  BY <1>1, APage
<1>3. CASE cursor.at = "start"
  <2>1. shown = <<>> /\ A!remaining = Sorted(A!Listed, A!earlier) /\ steady' = A!Listed
    BY <1>1, <1>2, <1>3, RowsHaveAnOrder DEF ListsInv, A!remaining
  <2>2. PICK j \in Nat : j = 0
    OBVIOUS
  <2>3. 1..j = {} /\ Len(shown) = j /\ shown \in [1..j -> A!Rows]
    <3>1. 1..j = {} /\ Len(<<>>) = j
      BY <2>2
    <3>2. shown \in [{} -> A!Rows]
      BY <2>1
    <3> QED BY <2>1, <3>1, <3>2
  <2>4. Resumes(A!Listed, j)
    BY <2>1, <2>2, <2>3 DEF Resumes
  <2> QED BY <2>4
<1>4. CASE cursor.at = "page"
  <2> DEFINE T == {r \in A!Listed : A!AfterCursor(r)}
             key == cursor.key
             row == cursor.row
  <2>1. Resumed /\ steady' = steady
    BY <1>2, <1>4 DEF ListsInv
  <2>2. PICK j \in Nat : j = Len(shown)
    BY <2>1 DEF Resumed
  <2>3. /\ shown \in [1..j -> A!Rows]
        /\ \A m, n \in 1..j : shown[m] = shown[n] => m = n
        /\ key \in Nat /\ row \in A!Rows /\ row \in Nat
        /\ \A m \in 1..j : sort[shown[m]] = 0 \/ ~After(shown[m], key, row)
        /\ \A r \in steady : (\E m \in 1..j : shown[m] = r) \/ After(r, key, row)
        /\ Key = "fixed" => key = row /\ \A m \in 1..j : shown[m] <= row
        /\ list = "owner_reviews" => \A m \in 1..j : sort[shown[m]] # 0
    BY <2>1, <2>2 DEF Resumed, A!Rows
  <2>4. \A x : x \in T <=> x \in A!Listed /\ After(x, key, row)
    BY DEF A!AfterCursor, After, Key
  <2>5. A!remaining = Sorted(T, A!earlier)
    <3>1. T \in SUBSET A!Listed
      OBVIOUS
    <3>2. A!remaining = A!Ordered(T)
      BY <1>4 DEF A!remaining, ByKey
    <3> QED BY <1>1, <3>1, <3>2, RowsHaveAnOrder
  <2> HIDE DEF T, key, row
  <2>6. T \in SUBSET A!Listed /\ A!Listed \subseteq A!Rows
    BY <2>4 DEF A!Listed, A!Rows
  <2>7. \A x \in A!Rows : sort[x] \in Nat /\ x \in Nat /\ (sort[x] # 0 <=> x \in A!Listed)
    BY <1>1 DEF KeysInv, A!Rows, A!Listed
  <2>8. \A m \in 1..j : shown[m] \in A!Rows /\ shown[m] \notin T
    BY <2>3, <2>4, <2>7
  <2>9. ASSUME NEW m \in 1..j, NEW x \in T
        PROVE  sort[shown[m]] = 0 \/ ~After(shown[m], sort[x], x)
    <3>1. PICK y : y = shown[m]
      OBVIOUS
    <3>2. /\ y \in A!Rows /\ sort[y] \in Nat /\ y \in Nat
          /\ x \in A!Rows /\ sort[x] \in Nat /\ x \in Nat
      BY <2>6, <2>7, <2>8, <3>1
    <3>3. sort[y] = 0 \/ ~After(y, key, row)
      BY <2>3, <3>1
    <3>4. After(x, key, row)
      BY <2>4
    <3>5. sort[y] = 0 \/ ~After(y, sort[x], x)
      BY <2>3, <3>2, <3>3, <3>4 DEF After
    <3> QED BY <3>1, <3>5
  <2>10. \A r \in steady' : (\E m \in 1..j : shown[m] = r) \/ r \in T
    BY <1>1, <2>1, <2>3, <2>4
  <2>11. ASSUME Key = "fixed", NEW m \in 1..j, NEW x \in T PROVE shown[m] <= x
    <3>1. sort[x] = x /\ x \in Nat /\ key = row /\ shown[m] <= row /\ shown[m] \in Nat
      BY <1>1, <2>3, <2>6, <2>7, <2>8, <2>11 DEF KeysInv
    <3>2. sort[x] > key \/ (sort[x] = key /\ x > row)
      BY <2>4, <2>11 DEF After
    <3> QED BY <2>3, <3>1, <3>2
  <2>12. Resumes(T, j)
    BY <2>2, <2>3, <2>5, <2>6, <2>8, <2>9, <2>10, <2>11 DEF Resumes
  <2> QED BY <2>12
<1> QED BY <1>2, <1>3, <1>4

LEMMA ReadStep ==
    ASSUME ListsInv, A!read_page PROVE ListsInv'
<1>1. KeysInv /\ unseen \in BOOLEAN /\ steady \subseteq A!Listed
  BY DEF ListsInv
<1>2. /\ UNCHANGED <<list, sort, counters, writes>>
      /\ IF cursor.at = "start" THEN steady' = A!Listed /\ unseen' = FALSE
         ELSE UNCHANGED <<steady, unseen>>
      /\ A!Listed' = A!Listed /\ A!Rows' = A!Rows
      /\ Pinned' = Pinned /\ ByKey' = ByKey /\ KeysInv' /\ A!pinned' = A!pinned
  BY <1>1, APage
<1>3. unseen' \in BOOLEAN /\ steady' \subseteq A!Listed'
  BY <1>1, <1>2
<1>4. /\ cursor'.at \in {"page", "end"}
      /\ cursor'.at = "page" => cursor'.pins = A!pinned
  BY DEF A!read_page, A!next_cursor, A!LastPage
<1>5. Pinned \subseteq A!Counters
  BY <1>1, TheLists DEF KeysInv
<1>6. cursor'.at = "page" => /\ cursor'.pins \in [Pinned -> Nat] /\ Fresh'
                             /\ \A c \in Pinned : cursor'.pins[c] <= counters[c]
  <2>1. A!pinned = [c \in Pinned |-> counters[c]]
    BY DEF A!pinned, Pinned
  <2>2. \A c \in Pinned : counters[c] \in Nat /\ counters[c] <= counters[c]
    BY <1>1, <1>5 DEF KeysInv
  <2> QED BY <1>2, <1>4, <2>1, <2>2 DEF Fresh
<1>7. cursor'.at = "page" /\ ~unseen' => FirstPages'
  BY ReadsInOrder
<1>8. ByKey => /\ cursor'.at = "page" => Resumed'
               /\ cursor'.at = "end" =>
                    /\ \A r : A!Times(r)' <= 1
                    /\ \A r \in steady' : A!Times(r)' = 1
  <2> SUFFICES ASSUME ByKey
               PROVE  /\ cursor'.at = "page" => Resumed'
                      /\ cursor'.at = "end" =>
                           /\ \A r : A!Times(r)' <= 1
                           /\ \A r \in steady' : A!Times(r)' = 1
    OBVIOUS
  <2>1. PICK T, j : Resumes(T, j)
    BY RemainsByKey
  <2>2. /\ cursor'.at = "page" => Resumed'
        /\ cursor'.at = "end" =>
             \E n \in Nat :
                /\ shown' \in [1..n -> A!Rows]
                /\ \A m, i \in 1..n : shown'[m] = shown'[i] => m = i
                /\ \A r \in steady' : \E m \in 1..n : shown'[m] = r
    BY <1>1, <2>1, ResumesOn
  <2>3. ASSUME cursor'.at = "end"
        PROVE  /\ \A r : A!Times(r)' <= 1
               /\ \A r \in steady' : A!Times(r)' = 1
    <3>1. PICK n \in Nat :
             /\ shown' \in [1..n -> A!Rows]
             /\ \A m, i \in 1..n : shown'[m] = shown'[i] => m = i
             /\ \A r \in steady' : \E m \in 1..n : shown'[m] = r
      BY <2>2, <2>3
    <3>2. /\ \A r : A!Times(r)' <= 1
          /\ \A r : A!Times(r)' = 1 <=> \E m \in 1..n : shown'[m] = r
      <4>1. DOMAIN shown' = 1..n
        BY <3>1
      <4> QED BY <3>1, <4>1, NoRowTwice
    <3> QED BY <3>1, <3>2
  <2> QED BY <2>2, <2>3
<1>9. cursor'.at = "end" /\ ~unseen' => /\ \A r : A!Times(r)' <= 1
                                        /\ \A r : A!Times(r)' = 1 <=> r \in A!Listed
  BY <1>1, <1>2, ReadsInOrder, AllRows
<1>10. A!PagesAddUp'
  <2> SUFFICES ASSUME cursor'.at = "end"
               PROVE  /\ ByKey \/ ~unseen' =>
                           /\ \A r \in steady' : A!Times(r)' = 1
                           /\ \A r \in A!Rows : A!Times(r)' <= 1
                      /\ ~unseen' => {r \in A!Rows : A!Times(r)' = 1} = A!Listed
    BY <1>2 DEF A!PagesAddUp, ByKey, A!Rows
  <2>1. A!Listed \subseteq A!Rows
    BY DEF A!Listed, A!Rows
  <2>2. CASE unseen'
    BY <1>8, <2>2
  <2>3. CASE ~unseen'
    BY <1>2, <1>3, <1>9, <2>1, <2>3
  <2> QED BY <2>2, <2>3
<1>11. cursor'.at # "start"
  BY <1>4
<1> QED BY <1>2, <1>3, <1>4, <1>6, <1>7, <1>8, <1>10, <1>11 DEF ListsInv

LEMMA ListsStart ==
    ASSUME A!Init PROVE ListsInv
<1>1. /\ list \in DOMAIN A!Lists /\ cursor = [at |-> "start"] /\ shown = <<>>
      /\ writes = 0 /\ steady = {} /\ unseen = FALSE
      /\ counters = [c \in A!Counters |-> 0]
  BY DEF A!Init, A!NoCursor
<1>2. PICK first : sort = [r \in A!Rows |-> IF r \in first THEN r ELSE 0]
  BY DEF A!Init, A!Rows
<1>3. \A r \in A!Rows : r \in Nat /\ r <= MaxRows /\ MaxRows \in Nat
  BY ListsAssumption DEF A!Rows
<1>4. \A r \in A!Rows : sort[r] \in {0, r}
  BY <1>2
<1>5. sort \in [A!Rows -> Nat] /\ \A r \in A!Rows : sort[r] <= MaxRows + writes
  <2>1. \A r \in A!Rows : sort[r] \in Nat /\ sort[r] <= MaxRows + writes
    BY <1>1, <1>3, <1>4
  <2> QED BY <1>2, <2>1
<1>6. \A r, u \in A!Listed : sort[r] = sort[u] => r = u
  BY <1>4 DEF A!Listed, A!Rows
<1>7. counters \in [A!Counters -> Nat] /\ writes \in Nat
  BY <1>1
<1>8. KeysInv
  BY <1>1, <1>4, <1>5, <1>6, <1>7 DEF KeysInv
<1>9. A!PagesAddUp
  BY <1>1 DEF A!PagesAddUp
<1> QED BY <1>1, <1>8, <1>9 DEF ListsInv

LEMMA ListsStep ==
    ASSUME ListsInv, [A!Next]_(A!vars) PROVE ListsInv'
<1>1. ASSUME cursor.at = "page", NEW w \in A!Writers, A!write(w) PROVE ListsInv'
  BY <1>1, WriteStep
<1>2. CASE A!read_page
  BY <1>2, ReadStep
<1>3. CASE A!refuse_page
  <2>1. cursor' = [at |-> "expired"] /\ UNCHANGED <<list, sort, counters, shown, writes, steady, unseen>>
    BY <1>3 DEF A!refuse_page, A!Expired
  <2>2. KeysInv' /\ unseen' \in BOOLEAN /\ steady' \subseteq A!Listed'
    BY <2>1 DEF ListsInv, KeysInv, A!Listed, A!Rows, Key
  <2>3. A!PagesAddUp'
    BY <2>1 DEF A!PagesAddUp
  <2> QED BY <2>1, <2>2, <2>3 DEF ListsInv
<1>4. CASE UNCHANGED A!vars
  <2>1. UNCHANGED <<list, sort, counters, cursor, shown, writes, steady, unseen>>
    BY <1>4 DEF A!vars
  <2>2. KeysInv' /\ A!Listed' = A!Listed /\ A!earlier' = A!earlier /\ Key' = Key
    BY <2>1 DEF ListsInv, KeysInv, A!Listed, A!Rows, Key, A!earlier
  <2>3. A!PagesAddUp'
    BY <2>1 DEF ListsInv, A!PagesAddUp, A!Times, A!Rows, A!Listed
  <2>4. FirstPages' <=> FirstPages
    BY <2>1, <2>2 DEF FirstPages
  <2>5. Resumed' <=> Resumed
    BY <2>1, <2>2 DEF Resumed, After, A!Rows
  <2>6. Pinned' = Pinned /\ ByKey' = ByKey /\ Fresh' = Fresh
    BY <2>1 DEF Pinned, ByKey, Fresh, A!pinned
  <2> QED BY <2>1, <2>2, <2>3, <2>4, <2>5, <2>6 DEF ListsInv
<1> QED BY <1>1, <1>2, <1>3, <1>4 DEF A!Next

-----------------------------------------------------------------------------
(* The cases and the lists together.                                       *)

CasesInv ==
    /\ feature = "offers" => OffersInv /\ listing = L!NoListing
    /\ feature = "listing" => ListingInv

backgroundVars == <<feature, queueVars, schedulerVars, photoVars, caseVars, listVars>>

\* Where cases are offered, no list of them is read.
LEMMA OffersListNothing == ASSUME F!Next, listing = L!NoListing PROVE listing' = listing
<1>1. listing.state = "none"
  BY DEF L!NoListing
<1>2. ~F!list_next_page
  BY <1>1 DEF F!list_next_page
<1> QED BY <1>2 DEF F!Next, F!merge_item, F!save_item, F!review_receipt,
       F!review_photo_observation, F!correct_photo_owner, F!load_proposal,
       F!open_reconciliation_case, F!open_refused, F!decide_reconciliation_case

\* A step of the cases is one of the feature that the behaviour is about.
LEMMA CasesMove ==
    ASSUME [NextBackground]_backgroundVars
    PROVE  /\ feature' = feature
           /\ \/ feature = "offers" /\ F!Next
              \/ feature = "listing" /\ L!Next
              \/ UNCHANGED caseVars
  BY DEF NextBackground, backgroundVars

LEMMA CasesStep ==
    ASSUME CasesInv, [NextBackground]_backgroundVars
    PROVE  /\ CasesInv'
           /\ [feature = "offers" => F!SoundCase]_caseVars
           /\ [listing' # listing /\ listing'.state = "done" =>
                 listing'.shown = L!newest_first(listing'.filter)]_(L!vars)
<1>1. CASE feature = "offers" /\ F!Next
  <2>1. OffersInv' /\ F!SoundCase /\ listing' = listing
    BY <1>1, OffersStep, OffersListNothing DEF CasesInv
  <2> QED BY <1>1, <2>1, CasesMove DEF CasesInv
<1>2. CASE feature = "listing" /\ L!Next
  <2>1. ListingInv'
    BY <1>2, ListingStep DEF CasesInv
  <2>2. listing' # listing /\ listing'.state = "done" =>
          listing'.shown = L!newest_first(listing'.filter)
    BY <1>2, PagesAreListed DEF CasesInv
  <2> QED BY <1>2, <2>1, <2>2, CasesMove DEF CasesInv
<1>3. CASE UNCHANGED caseVars
  <2>1. UNCHANGED <<catalog, receipts, review, owner, revision, offered, opening, listing>>
    BY <1>3 DEF caseVars
  <2>2. OffersInv => OffersInv'
    BY <2>1 DEF OffersInv, SoundSnapshot, CatalogRows, ReceiptRows
  <2>3. ListingInv => ListingInv'
    <3> SUFFICES ASSUME ListingInv PROVE ListingInv'
      OBVIOUS
    <3>1. /\ revision.photo \in Nat /\ revision.owner \in Nat /\ revision.reconciliation \in Nat
          /\ revision \in [catalog : Nat, receipt : Nat, photo : Nat, owner : Nat,
                           reconciliation : Nat]
          /\ Len(offered) \in Nat /\ DOMAIN offered = 1..Len(offered)
          /\ \A k \in DOMAIN offered : offered[k].created \in Nat
      BY DEF ListingInv
    <3> QED BY <2>1, <3>1, OtherRows
  <2> QED BY <1>3, <2>1, <2>2, <2>3, CasesMove DEF CasesInv
<1> QED BY <1>1, <1>2, <1>3, CasesMove

LEMMA CasesStart == ASSUME InitBackground PROVE CasesInv
<1>1. feature = "offers" => F!Init
  BY DEF InitBackground
<1>2. feature = "listing" => L!Init
  BY DEF InitBackground
<1>3. F!Init => listing = L!NoListing
  BY DEF F!Init, F!NoListing, L!NoListing
<1> QED BY <1>1, <1>2, <1>3, OffersStart, ListingStart DEF CasesInv

LEMMA BackgroundMoves == SpecBackground => InitBackground /\ [][NextBackground]_backgroundVars
  BY DEF SpecBackground, backgroundVars

LEMMA CasesAlways == SpecBackground => []CasesInv
<1>1. CasesInv /\ [NextBackground]_backgroundVars => CasesInv'
  BY CasesStep
<1> QED BY <1>1, CasesStart, BackgroundMoves, PTL

LEMMA ListsAlways == SpecBackground => []A!PagesAddUp
<1>1. InitBackground => ListsInv
  BY ListsStart DEF InitBackground
<1>2. ListsInv /\ [NextBackground]_backgroundVars => ListsInv'
  <2> SUFFICES ASSUME ListsInv, [NextBackground]_backgroundVars PROVE ListsInv'
    OBVIOUS
  <2>1. A!Next \/ UNCHANGED listVars
    BY DEF NextBackground, backgroundVars
  <2> QED BY <2>1, ListsStep DEF listVars, A!vars
<1>3. ListsInv => A!PagesAddUp
  BY DEF ListsInv
<1> QED BY <1>1, <1>2, <1>3, BackgroundMoves, PTL

(***************************************************************************)
(* For every wardrobe, every set of receipt lines and any number of        *)
(* callers whose snapshots are taken, go stale and are used: what a case   *)
(* offers passes the contract of its answer, is in the tables when it is   *)
(* written, leaves out no item that looks more alike, and no two cases     *)
(* pin the same revisions (build_reconciliation_proposal,                  *)
(* open_reconciliation_case).                                              *)
(***************************************************************************)
THEOREM CasesStaySound == SpecBackground => CasesAreSound
<1>1. CasesInv /\ [NextBackground]_backgroundVars => [feature = "offers" => F!SoundCase]_caseVars
  BY CasesStep
<1> QED BY <1>1, CasesAlways, BackgroundMoves, PTL DEF CasesAreSound

(***************************************************************************)
(* Any page size, any number of rows and any writes between two pages: a   *)
(* list of cases that reaches its end has shown every case of its filter   *)
(* once and newest first, and each of the other lists shows what it holds, *)
(* every row once, except in the ways its cursor is known to miss          *)
(* (parse_reconciliation_cursor, and the cursors of catalog_repository.rs, *)
(* receipt_repository.rs, photo_repository.rs, person_repository.rs).      *)
(***************************************************************************)
THEOREM ListsAddUp == SpecBackground => ListingAddsUp
<1>1. CasesInv /\ [NextBackground]_backgroundVars =>
        [listing' # listing /\ listing'.state = "done" =>
           listing'.shown = L!newest_first(listing'.filter)]_(L!vars)
  BY CasesStep
<1>2. A!PagesAddUp => (feature = "lists" => A!PagesAddUp)
  OBVIOUS
<1> QED BY <1>1, <1>2, CasesAlways, ListsAlways, BackgroundMoves, PTL
        DEF ListingAddsUp, L!ListingAddsUp
=============================================================================
