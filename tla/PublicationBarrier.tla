------------------------- MODULE PublicationBarrier -------------------------
(***************************************************************************)
(* What the maintenance coordinator promises its callers, with no queue,   *)
(* counter or condition variable: threads hold a shared or an exclusive    *)
(* permit, an exclusive permit excludes every other one, and no shared     *)
(* permit is handed out while somebody is asking for an exclusive one.     *)
(***************************************************************************)
CONSTANT Threads

VARIABLES
    shared,     \* threads that hold a SharedMaintenancePermit
    exclusive,  \* threads that hold an ExclusiveMaintenancePermit
    asking      \* threads inside acquire_exclusive

vars == <<shared, exclusive, asking>>

Init ==
    /\ shared = {}
    /\ exclusive = {}
    /\ asking = {}

Outside(t) == t \notin shared \cup exclusive \cup asking

EnterShared(t) ==
    /\ Outside(t)
    /\ exclusive = {} /\ asking = {}
    /\ shared' = shared \cup {t}
    /\ UNCHANGED <<exclusive, asking>>

Ask(t) ==
    /\ Outside(t)
    /\ asking' = asking \cup {t}
    /\ UNCHANGED <<shared, exclusive>>

EnterExclusive(t) ==
    /\ t \notin shared \cup exclusive
    /\ shared = {} /\ exclusive = {}
    /\ exclusive' = {t}
    /\ asking' = asking \ {t}
    /\ UNCHANGED shared

Leave(t) ==
    /\ t \in shared \cup exclusive
    /\ shared' = shared \ {t}
    /\ exclusive' = exclusive \ {t}
    /\ UNCHANGED asking

Next == \E t \in Threads : EnterShared(t) \/ Ask(t) \/ EnterExclusive(t) \/ Leave(t)

Spec == Init /\ [][Next]_vars
=============================================================================
