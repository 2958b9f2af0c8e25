--------------------------- MODULE TryOnScheduler ---------------------------
(***************************************************************************)
(* The scheduler of the try-on renderer (src-tauri/src/lib.rs): the latch  *)
(* of two atomic flags, the command that submits a job and triggers a run, *)
(* the tasks that run, and the cancellation when the mode turns local-only.*)
(* Each atomic operation on a flag is one step.                            *)
(*                                                                         *)
(* Commands are synchronous and run one at a time on the main thread; a    *)
(* task runs on the asynchronous runtime.  A task carries the clock        *)
(* reading of its trigger and claims only jobs that were available by      *)
(* then.  What run_once does to a job is TryOnQueue's; here a claimed job  *)
(* is done.                                                                *)
(***************************************************************************)
EXTENDS Naturals

CONSTANTS
    Jobs,     \* submissions
    Tasks,    \* slots for spawned tasks
    MaxTime,  \* bound on the clock
    Faults    \* whether run_once may fail and the mode may change

VARIABLES
    now,             \* the system clock
    active,          \* TryOnSchedulerLatch.active
    wake_requested,  \* TryOnSchedulerLatch.wake_requested
    jobs,            \* the state of each job and its available_at_ms
    main,            \* what the main thread is doing
    task,            \* where each task is, and its now_ms
    local_only,      \* the outbound authority's mode
    disturbed,       \* history: a run failed, or the mode was local-only
    dropped          \* history: a task took a request that it would not serve

vars == <<now, active, wake_requested, jobs, main, task, local_only, disturbed, dropped>>

Free == [at |-> "free", now |-> 0]
MainIdle == [at |-> "idle", now |-> 0]

\* setup: the state is built, then the Startup trigger runs.
Init ==
    /\ now = 0
    /\ active = FALSE /\ wake_requested = FALSE
    /\ jobs = [j \in Jobs |-> [state |-> "none", available |-> 0]]
    /\ local_only \in (IF Faults THEN BOOLEAN ELSE {FALSE})
    /\ main = IF local_only THEN MainIdle ELSE [at |-> "store", now |-> 0]
    /\ task = [t \in Tasks |-> Free]
    /\ disturbed = local_only /\ dropped = FALSE

Tick ==
    /\ now < MaxTime
    /\ now' = now + 1
    /\ UNCHANGED <<active, wake_requested, jobs, main, task, local_only, disturbed, dropped>>

-----------------------------------------------------------------------------
\* The main thread

\* handle_submit_try_on: under an outbound lease, commit the job, then trigger.
submit_try_on(j) ==
    /\ main = MainIdle /\ ~local_only
    /\ jobs[j].state = "none"
    /\ jobs' = [jobs EXCEPT ![j] = [state |-> "queued", available |-> now]]
    /\ main' = [at |-> "store", now |-> now]
    /\ UNCHANGED <<now, active, wake_requested, task, local_only, disturbed, dropped>>

\* request_run, its store.
request_run_store ==
    /\ main.at = "store"
    /\ wake_requested' = TRUE
    /\ main' = [main EXCEPT !.at = "exchange"]
    /\ UNCHANGED <<now, active, jobs, task, local_only, disturbed, dropped>>

\* request_run, its compare_exchange; the winner spawns a task.
request_run_exchange ==
    /\ main.at = "exchange"
    /\ \/ active /\ UNCHANGED <<active, task>>
       \/ /\ ~active
          /\ active' = TRUE
          /\ \E t \in Tasks :
              /\ task[t] = Free
              /\ task' = [task EXCEPT ![t] = [at |-> "begin", now |-> main.now]]
    /\ main' = MainIdle
    /\ UNCHANGED <<now, wake_requested, jobs, local_only, disturbed, dropped>>

Leased == \E t \in Tasks : task[t].at = "rendering"

\* handle_set_local_only: begin_transition waits for the leases; then
\* cancel_queued and publish.
set_local_only ==
    /\ Faults
    /\ main = MainIdle /\ ~local_only /\ ~Leased
    /\ wake_requested' = FALSE
    /\ local_only' = TRUE
    /\ disturbed' = TRUE
    /\ UNCHANGED <<now, active, jobs, main, task, dropped>>

\* Back online: the handler triggers nothing.
set_online ==
    /\ Faults
    /\ main = MainIdle /\ local_only
    /\ local_only' = FALSE
    /\ UNCHANGED <<now, active, wake_requested, jobs, main, task, disturbed, dropped>>

-----------------------------------------------------------------------------
\* TryOnScheduler::run

Move(t, at) == task' = [task EXCEPT ![t].at = at]

\* A request made after the task read its clock is taken over, though the job
\* behind it is not due by that clock.
begin_pass(t) ==
    /\ task[t].at = "begin"
    /\ wake_requested' = FALSE
    /\ Move(t, "pass")
    /\ dropped' = (dropped \/ (wake_requested /\ task[t].now < now))
    /\ UNCHANGED <<now, active, jobs, main, local_only, disturbed>>

Due(j, at) == jobs[j].state = "queued" /\ jobs[j].available <= at

\* AuthorizedTryOnRenderer::run_once takes its lease and claims a due job.
run_once_claims(t) ==
    /\ task[t].at = "pass" /\ ~local_only
    /\ \E j \in Jobs :
        /\ Due(j, task[t].now)
        /\ jobs' = [jobs EXCEPT ![j].state = "done"]
    /\ Move(t, "rendering")
    /\ UNCHANGED <<now, active, wake_requested, main, local_only, disturbed, dropped>>

\* Ok(true): read the clock and look for the next job; or an error.
run_once_returns(t) ==
    /\ task[t].at = "rendering"
    /\ \/ /\ task' = [task EXCEPT ![t] = [at |-> "pass", now |-> now]]
          /\ UNCHANGED disturbed
       \/ /\ Faults
          /\ Move(t, "finish")
          /\ disturbed' = TRUE
    /\ UNCHANGED <<now, active, wake_requested, jobs, main, local_only, dropped>>

\* Ok(false), or an error before the claim: the pass is over.  The lease is
\* refused in the local-only mode and while the mode is changing, and the
\* claim's transaction may fail.
run_once_ends(t) ==
    /\ task[t].at = "pass"
    /\ \/ /\ local_only \/ \A j \in Jobs : ~Due(j, task[t].now)
          /\ UNCHANGED disturbed
       \/ Faults /\ disturbed' = TRUE
    /\ Move(t, "finish")
    /\ UNCHANGED <<now, active, wake_requested, jobs, main, local_only, dropped>>

\* finish_pass: store, swap, compare_exchange.
finish_pass_store(t) ==
    /\ task[t].at = "finish"
    /\ active' = FALSE
    /\ Move(t, "swap")
    /\ UNCHANGED <<now, wake_requested, jobs, main, local_only, disturbed, dropped>>

\* Mutant: the pass ends without looking at the request that came meanwhile.
finish_pass_swap_ignored(t) ==
    /\ task[t].at = "swap"
    /\ wake_requested' = FALSE
    /\ task' = [task EXCEPT ![t] = Free]
    /\ UNCHANGED <<now, active, jobs, main, local_only, disturbed, dropped>>

finish_pass_swap(t) ==
    /\ task[t].at = "swap"
    /\ wake_requested' = FALSE
    /\ task' = [task EXCEPT ![t] = IF wake_requested THEN [@ EXCEPT !.at = "exchange"] ELSE Free]
    /\ UNCHANGED <<now, active, jobs, main, local_only, disturbed, dropped>>

\* If another task has taken the latch meanwhile, the request is left to that
\* task, which may have ended its pass.
finish_pass_exchange(t) ==
    /\ task[t].at = "exchange"
    /\ dropped' = (dropped \/ active)
    /\ active' = TRUE
    /\ task' = [task EXCEPT ![t] = IF active THEN Free ELSE [@ EXCEPT !.at = "refresh"]]
    /\ UNCHANGED <<now, wake_requested, jobs, main, local_only, disturbed>>

\* The clock is read again before the next pass.
refresh(t) ==
    /\ task[t].at = "refresh"
    /\ task' = [task EXCEPT ![t] = [at |-> "begin", now |-> now]]
    /\ UNCHANGED <<now, active, wake_requested, jobs, main, local_only, disturbed, dropped>>

Next ==
    \/ Tick
    \/ \E j \in Jobs : submit_try_on(j)
    \/ request_run_store \/ request_run_exchange \/ set_local_only \/ set_online
    \/ \E t \in Tasks :
        \/ begin_pass(t)
        \/ run_once_claims(t) \/ run_once_returns(t) \/ run_once_ends(t)
        \/ finish_pass_store(t) \/ finish_pass_swap(t) \/ finish_pass_exchange(t) \/ refresh(t)

Spec == Init /\ [][Next]_vars

-----------------------------------------------------------------------------
InPass(t) == task[t].at \in {"begin", "pass", "rendering", "finish", "refresh"}

\* Every variable has its type, and the latch is set only while a task owns it.
TypeOK ==
    /\ now \in 0..MaxTime
    /\ active \in BOOLEAN /\ wake_requested \in BOOLEAN
    /\ jobs \in [Jobs -> [state : {"none", "queued", "done"}, available : 0..MaxTime]]
    /\ main.at \in {"idle", "store", "exchange"}
    /\ \A t \in Tasks : task[t].at \in {"free", "begin", "pass", "rendering", "finish",
                                        "swap", "exchange", "refresh"}
    /\ active => \E t \in Tasks : InPass(t)
    /\ local_only \in BOOLEAN /\ disturbed \in BOOLEAN /\ dropped \in BOOLEAN

\* The latch admits one task at a time: two passes never render side by side,
\* which is what lets the renderer's job be its own.
OnePassAtATime == \A s, t \in Tasks : InPass(s) /\ InPass(t) => s = t

Quiet == main = MainIdle /\ \A t \in Tasks : task[t] = Free

\* No submission is forgotten: when nothing runs, nothing that is due waits,
\* unless a run failed, the mode was local-only, or a task took a request over
\* in one of the two windows that begin_pass and finish_pass leave open.
WakesAreRetained ==
    Quiet /\ ~disturbed /\ ~dropped => \A j \in Jobs : ~Due(j, now)

\* The latch "coalesces wakes and retains in-flight wake", says its test: with
\* no failure and no change of the mode, nothing that is due waits while
\* nothing runs.
NoForgottenJob == Quiet /\ ~disturbed => \A j \in Jobs : ~Due(j, now)
=============================================================================
