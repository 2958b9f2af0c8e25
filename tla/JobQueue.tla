------------------------------ MODULE JobQueue ------------------------------
(***************************************************************************)
(* The durable job queue (database.rs), the worker that drains it          *)
(* (worker.rs) and the command that feeds and runs it                      *)
(* (handle_run_storage_check).  A command enqueues its own job, then runs  *)
(* one job, which may be another request's.  Every database call is one    *)
(* immediate SQLite transaction, so one step; verifying the blob is slow   *)
(* and happens between two of them.                                        *)
(*                                                                         *)
(* The queue's leases and fences are a contract for any number of workers  *)
(* (test expired_lease_is_reclaimed_with_a_new_fence), so the model has a  *)
(* set of Handlers.  Today's shell runs its synchronous commands one at a  *)
(* time: it is the instance with one handler, where the work another       *)
(* worker takes over is that of a process that died.                       *)
(*                                                                         *)
(* run_once reads the clock once and uses that reading for the claim and   *)
(* for everything it writes afterwards, however long the blob took.        *)
(***************************************************************************)
EXTENDS Integers, FiniteSets

CONSTANTS
    Jobs,        \* jobs, one per storage check request
    Handlers,    \* command threads
    Deps,        \* job_dependencies: the prerequisites of each job
    LeaseMs,     \* lease length
    BackoffMs,   \* backoff_ms
    RetryLimit,  \* retry_limit
    MaxTime,     \* bound on the clock
    MaxBoots     \* bound on the number of processes

ASSUME JobQueueAssumption ==
    /\ IsFiniteSet(Jobs)
    /\ Deps \in [Jobs -> SUBSET Jobs]
    /\ LeaseMs \in Nat \ {0} /\ BackoffMs \in Nat /\ RetryLimit \in Nat
    /\ MaxTime \in Nat /\ MaxBoots \in Nat

VARIABLES
    now,       \* the system clock
    boot,      \* the running process; lease_owner is derived from its pid
    jobs,      \* the jobs table
    results,   \* job_results: the winning owner and fence
    failures,  \* job_failures: the failure code
    run        \* what each command thread is doing

vars == <<now, boot, jobs, results, failures, run>>

NoOwner == -1
NoRow == [state |-> "absent", available |-> 0, attempt |-> 0, fence |-> 0,
          owner |-> NoOwner, expires |-> -1, created |-> 0]
NoResult == [owner |-> NoOwner, fence |-> 0]
NoFailure == "none"
Waiting == [phase |-> "idle"]

Terminal == {"succeeded", "failed"}
FailureCodes == {"blob_missing", "blob_integrity_failed", "blob_unavailable", "verify_blob_failed"}

Init ==
    /\ now = 0
    /\ boot = 1
    /\ jobs = [j \in Jobs |-> NoRow]
    /\ results = [j \in Jobs |-> NoResult]
    /\ failures = [j \in Jobs |-> NoFailure]
    /\ run = [h \in Handlers |-> Waiting]

Tick ==
    /\ now < MaxTime
    /\ now' = now + 1
    /\ UNCHANGED <<boot, jobs, results, failures, run>>

-----------------------------------------------------------------------------

\* insert_verify_job: INSERT OR IGNORE, so a replay finds the row it made.
insert_verify_job(j) ==
    jobs' = [jobs EXCEPT ![j] =
                IF @.state = "absent"
                THEN [NoRow EXCEPT !.state = "queued", !.available = now, !.created = now]
                ELSE @]

\* run_storage_check: the receipt, the check and the job in one transaction.
\* A request delivered again replays its receipt and enqueues nothing.
run_storage_check(h, j) ==
    /\ run[h] = Waiting
    /\ insert_verify_job(j)
    /\ run' = [run EXCEPT ![h] = [phase |-> "enqueued"]]
    /\ UNCHANGED <<now, boot, results, failures>>

\* The handler reads the clock for run_once.
read_clock(h) ==
    /\ run[h].phase = "enqueued"
    /\ run' = [run EXCEPT ![h] = [phase |-> "claiming", now |-> now]]
    /\ UNCHANGED <<now, boot, jobs, results, failures>>

Claimable(j, at) ==
    /\ \/ jobs[j].state = "queued" /\ jobs[j].available <= at
       \/ jobs[j].state = "running" /\ jobs[j].expires <= at
    /\ \A d \in Deps[j] : jobs[d].state = "succeeded"

\* ORDER BY COALESCE(lease_expires_at_ms, available_at_ms), created_at_ms; the
\* ids are hashes, so the last tie is broken either way.
DueAt(j) == IF jobs[j].state = "running" THEN jobs[j].expires ELSE jobs[j].available
ClaimsBefore(i, j) ==
    \/ DueAt(i) < DueAt(j)
    \/ DueAt(i) = DueAt(j) /\ jobs[i].created < jobs[j].created

ClaimedRow(j, at) ==
    [state |-> "running", attempt |-> jobs[j].attempt + 1, fence |-> jobs[j].fence + 1,
     owner |-> boot, expires |-> at + LeaseMs,
     available |-> jobs[j].available, created |-> jobs[j].created]

Claim(h, j) ==
    LET row == ClaimedRow(j, run[h].now) IN
    /\ Claimable(j, run[h].now)
    /\ \A i \in Jobs : Claimable(i, run[h].now) => ~ClaimsBefore(i, j)
    /\ jobs' = [jobs EXCEPT ![j] = row]
    /\ run' = [run EXCEPT ![h] = [phase |-> "verifying", now |-> run[h].now, job |-> j,
                                  fence |-> row.fence, owner |-> row.owner,
                                  attempt |-> row.attempt]]
    /\ UNCHANGED <<now, boot, results, failures>>

\* claim: take the first job that is due and whose prerequisites succeeded, or
\* find nothing and end the command.
claim(h) ==
    /\ run[h].phase = "claiming"
    /\ \/ \E j \in Jobs : Claim(h, j)
       \/ /\ \A j \in Jobs : ~Claimable(j, run[h].now)
          /\ run' = [run EXCEPT ![h] = Waiting]
          /\ UNCHANGED <<now, boot, jobs, results, failures>>

\* Mutant: the fence is not compared.
ensure_lease_unfenced(leased) ==
    LET row == jobs[leased.job] IN
    /\ row.state = "running" /\ row.owner = leased.owner
    /\ row.expires > leased.now

ensure_lease(leased) ==
    LET row == jobs[leased.job] IN
    /\ row.state = "running" /\ row.owner = leased.owner
    /\ row.fence = leased.fence
    /\ row.expires > leased.now

Released(row) == [row EXCEPT !.owner = NoOwner, !.expires = -1]

\* complete: INSERT OR IGNORE of the result and the terminal state.
complete(leased) ==
    /\ results' = [results EXCEPT ![leased.job] =
                      IF @ = NoResult THEN [owner |-> leased.owner, fence |-> leased.fence]
                                      ELSE @]
    /\ jobs' = [jobs EXCEPT ![leased.job] = Released([@ EXCEPT !.state = "succeeded"])]
    /\ UNCHANGED failures

fail_permanently(leased, code) ==
    /\ failures' = [failures EXCEPT ![leased.job] = code]
    /\ jobs' = [jobs EXCEPT ![leased.job] = Released([@ EXCEPT !.state = "failed"])]
    /\ UNCHANGED results

\* retry, then the permanent failure when the policy is used up.
retry(leased) ==
    IF leased.attempt > RetryLimit
    THEN fail_permanently(leased, "blob_unavailable")
    ELSE /\ jobs' = [jobs EXCEPT ![leased.job] =
                        Released([@ EXCEPT !.state = "queued",
                                           !.available = leased.now + BackoffMs])]
         /\ UNCHANGED <<results, failures>>

\* What run_once does with the answer of blobs.verify.
Settle(leased) ==
    \/ complete(leased)
    \/ \E code \in FailureCodes \ {"blob_unavailable"} : fail_permanently(leased, code)
    \/ retry(leased)

\* The rest of run_once, once blobs.verify has returned.  A lease that was lost,
\* or a transaction that fails, changes nothing and ends the command with an error.
run_once(h) ==
    /\ run[h].phase = "verifying"
    /\ \/ ensure_lease(run[h]) /\ Settle(run[h])
       \/ UNCHANGED <<jobs, results, failures>>
    /\ run' = [run EXCEPT ![h] = Waiting]
    /\ UNCHANGED <<now, boot>>

\* The process dies with every command in it; the tables survive.
Crash ==
    /\ boot < MaxBoots
    /\ boot' = boot + 1
    /\ run' = [h \in Handlers |-> Waiting]
    /\ UNCHANGED <<now, jobs, results, failures>>

Next ==
    \/ Tick \/ Crash
    \/ \E h \in Handlers :
        \/ \E j \in Jobs : run_storage_check(h, j)
        \/ read_clock(h) \/ claim(h) \/ run_once(h)

Spec == Init /\ [][Next]_vars

-----------------------------------------------------------------------------
\* Every variable has its type, and each row satisfies the CHECK of the table:
\* exactly the running jobs carry a lease.
TypeOK ==
    /\ now \in Nat /\ boot \in Nat
    /\ jobs \in [Jobs -> [state : {"absent", "queued", "running"} \cup Terminal,
                          available : Nat, attempt : Nat, fence : Nat,
                          owner : Int, expires : Int, created : Nat]]
    /\ \A j \in Jobs : jobs[j].state = "running" <=> jobs[j].owner # NoOwner
    /\ results \in [Jobs -> [owner : Int, fence : Nat]]
    /\ failures \in [Jobs -> FailureCodes \cup {NoFailure}]
    /\ run \in [Handlers ->
                  {Waiting, [phase |-> "enqueued"]}
                  \cup [phase : {"claiming"}, now : Nat]
                  \cup [phase : {"verifying"}, now : Nat, job : Jobs, fence : Nat,
                        owner : Nat, attempt : Nat]]

Leased(h) == run[h].phase = "verifying"

\* Two commands never hold the same claim of the same job: a lease taken over
\* after it expired is told apart from the old one by its fence.
FencesAreDistinct ==
    \A g, h \in Handlers :
        g # h /\ Leased(g) /\ Leased(h) /\ run[g].job = run[h].job
            => run[g].fence # run[h].fence

\* A result is committed exactly for the succeeded jobs, by the claim whose
\* fence the job still carries: a worker that lost its lease commits nothing.
ResultFromLastClaim ==
    \A j \in Jobs :
        /\ results[j] # NoResult <=> jobs[j].state = "succeeded"
        /\ results[j] # NoResult => results[j].fence = jobs[j].fence

\* A failed job always carries the failure the user is shown (P01-JOB-002),
\* and no other job does.
FailureIsActionable ==
    \A j \in Jobs : jobs[j].state = "failed" <=> failures[j] # NoFailure

\* A finished job is never reopened: no replayed request, late worker or
\* restart changes its row, its result or its failure.
FinishedIsFinal ==
    [][\A j \in Jobs : jobs[j].state \in Terminal =>
        jobs'[j] = jobs[j] /\ results'[j] = results[j] /\ failures'[j] = failures[j]]_vars

\* P01-JOB-002 speaks of a job that "exhausts its retry policy": the number of
\* attempts a job may use, retry_limit + 1, is the max_attempts shown to the user.
AttemptsWithinPolicy == \A j \in Jobs : jobs[j].attempt <= RetryLimit + 1
=============================================================================
