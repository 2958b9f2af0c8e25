---------------------------- MODULE Maintenance ----------------------------
(***************************************************************************)
(* MaintenanceCoordinator (maintenance.rs): the process-global publication *)
(* barrier.  Commands hold a shared permit while they publish; restore,    *)
(* upgrade recovery, deletion and blob collection hold the exclusive one.  *)
(*                                                                         *)
(* Every section under the coordinator's mutex is one step.  A call that   *)
(* waits on the condition variable `changed` parks its thread; notify_all  *)
(* makes every parked thread runnable; a runnable thread takes the mutex   *)
(* again and re-tests its loop condition.  The standard library allows     *)
(* spurious wake-ups, so a parked thread may become runnable at any time.  *)
(***************************************************************************)
EXTENDS Naturals, FiniteSets

CONSTANT Threads
ASSUME ThreadsAssumption == IsFiniteSet(Threads)

VARIABLES
    readers,          \* CoordinatorState.readers
    writer_active,    \* CoordinatorState.writer_active
    writers_waiting,  \* CoordinatorState.writers_waiting
    pc                \* where each thread is

vars == <<readers, writer_active, writers_waiting, pc>>

Locations == {"out", "shared", "exclusive",
              "shared_parked", "shared_runnable",
              "exclusive_parked", "exclusive_runnable"}

At(loc) == {t \in Threads : pc[t] = loc}

Init ==
    /\ readers = 0
    /\ writer_active = FALSE
    /\ writers_waiting = 0
    /\ pc = [t \in Threads |-> "out"]

SharedBlocked == writer_active \/ writers_waiting # 0
\* Mutant: acquire_exclusive forgets the readers.
ExclusiveBlockedIgnoringReaders == writer_active
ExclusiveBlocked == writer_active \/ readers # 0

\* One evaluation of the loop in acquire_shared: park, or take the permit.
SharedLoop(t) ==
    \/ /\ SharedBlocked
       /\ pc' = [pc EXCEPT ![t] = "shared_parked"]
       /\ UNCHANGED <<readers, writer_active, writers_waiting>>
    \/ /\ ~SharedBlocked
       /\ readers' = readers + 1
       /\ pc' = [pc EXCEPT ![t] = "shared"]
       /\ UNCHANGED <<writer_active, writers_waiting>>

\* One evaluation of the loop in acquire_exclusive, with `waiting` the value
\* of writers_waiting (the caller itself included) when it is evaluated.
ExclusiveLoop(t, waiting) ==
    \/ /\ ExclusiveBlocked
       /\ writers_waiting' = waiting
       /\ pc' = [pc EXCEPT ![t] = "exclusive_parked"]
       /\ UNCHANGED <<readers, writer_active>>
    \/ /\ ~ExclusiveBlocked
       /\ writers_waiting' = waiting - 1
       /\ writer_active' = TRUE
       /\ pc' = [pc EXCEPT ![t] = "exclusive"]
       /\ UNCHANGED readers

\* changed.notify_all(), together with the location the caller moves to.
Wake(loc) ==
    CASE loc = "shared_parked"    -> "shared_runnable"
      [] loc = "exclusive_parked" -> "exclusive_runnable"
      [] OTHER                    -> loc

NotifyAll(t) == pc' = [u \in Threads |-> IF u = t THEN "out" ELSE Wake(pc[u])]

acquire_shared(t) == pc[t] = "out" /\ SharedLoop(t)
resume_shared(t) == pc[t] = "shared_runnable" /\ SharedLoop(t)

acquire_exclusive(t) == pc[t] = "out" /\ ExclusiveLoop(t, writers_waiting + 1)
resume_exclusive(t) == pc[t] = "exclusive_runnable" /\ ExclusiveLoop(t, writers_waiting)

\* Mutant: the notification is sent one reader too early.
drop_shared_early_notify(t) ==
    /\ pc[t] = "shared"
    /\ readers' = readers - 1
    /\ IF readers' = 1 THEN NotifyAll(t) ELSE pc' = [pc EXCEPT ![t] = "out"]
    /\ UNCHANGED <<writer_active, writers_waiting>>

\* Drop for SharedMaintenancePermit: only the last reader notifies.
drop_shared(t) ==
    /\ pc[t] = "shared"
    /\ readers' = readers - 1
    /\ IF readers' = 0 THEN NotifyAll(t) ELSE pc' = [pc EXCEPT ![t] = "out"]
    /\ UNCHANGED <<writer_active, writers_waiting>>

\* Drop for ExclusiveMaintenancePermit.
drop_exclusive(t) ==
    /\ pc[t] = "exclusive"
    /\ writer_active' = FALSE
    /\ NotifyAll(t)
    /\ UNCHANGED <<readers, writers_waiting>>

SpuriousWakeup(t) ==
    /\ pc[t] \in {"shared_parked", "exclusive_parked"}
    /\ pc' = [pc EXCEPT ![t] = Wake(@)]
    /\ UNCHANGED <<readers, writer_active, writers_waiting>>

Next ==
    \E t \in Threads :
        \/ acquire_shared(t) \/ resume_shared(t) \/ drop_shared(t)
        \/ acquire_exclusive(t) \/ resume_exclusive(t) \/ drop_exclusive(t)
        \/ SpuriousWakeup(t)

\* Every permit holder eventually drops its permit (commands are finite) and
\* the operating system eventually runs a runnable thread.  No fairness is
\* assumed of new calls or of spurious wake-ups.
Fairness ==
    \A t \in Threads :
        /\ WF_vars(resume_shared(t)) /\ WF_vars(resume_exclusive(t))
        /\ WF_vars(drop_shared(t)) /\ WF_vars(drop_exclusive(t))

Spec == Init /\ [][Next]_vars
FairSpec == Spec /\ Fairness

-----------------------------------------------------------------------------
\* Every variable has its type.
TypeOK ==
    /\ readers \in Nat
    /\ writer_active \in BOOLEAN
    /\ writers_waiting \in Nat
    /\ pc \in [Threads -> Locations]

\* The barrier (acquire_shared, acquire_exclusive): a thread that holds the
\* exclusive permit is the only thread that holds any permit.
Exclusion ==
    \A t \in At("exclusive") : At("shared") = {} /\ At("exclusive") = {t}

\* The counters are the census of the threads: a counter that drifts would
\* open the barrier early or close it for ever.
Census ==
    /\ readers = Cardinality(At("shared"))
    /\ writers_waiting =
         Cardinality(At("exclusive_parked") \cup At("exclusive_runnable"))
    /\ writer_active <=> At("exclusive") # {}

\* drop for SharedMaintenancePermit notifies only when the last reader goes:
\* even so, no thread stays parked once the condition it waits for is gone.
NoLostWakeup ==
    /\ At("shared_parked") # {} => SharedBlocked
    /\ At("exclusive_parked") # {} => ExclusiveBlocked

\* No shared permit is handed out while a maintenance operation is queued.
WriterPreference ==
    [][writers_waiting # 0 => readers' <= readers]_vars

\* A queued maintenance operation is not starved by a stream of commands:
\* some maintenance operation gets the exclusive permit.
MaintenanceProgress == (writers_waiting # 0) ~> writer_active

\* A waiting command runs once maintenance operations stop arriving.
CommandProgress ==
    \A t \in Threads :
        <>[](pc[t] \in {"shared_parked", "shared_runnable"})
            => []<>(writers_waiting # 0 \/ writer_active)

\* The coordinator implements the abstract barrier.
Barrier == INSTANCE PublicationBarrier WITH
    shared <- At("shared"),
    exclusive <- At("exclusive"),
    asking <- At("exclusive_parked") \cup At("exclusive_runnable")
ImplementsBarrier == Barrier!Spec
=============================================================================
