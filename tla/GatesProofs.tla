---------------------------- MODULE GatesProofs ----------------------------
(***************************************************************************)
(* The gates a command passes, proved for every finite set of threads and  *)
(* of workers, and what a command is answered.                             *)
(***************************************************************************)
EXTENDS MCGates, FiniteSetTheorems, SequenceTheorems, TLAPS

-----------------------------------------------------------------------------
(* The maintenance barrier.  Exclusion, Census and NoLostWakeup form one    *)
(* inductive invariant: the guards test the counters, so exclusion needs    *)
(* the census, and the census in turn needs to know what a notification may *)
(* change.                                                                  *)

Asking == At("exclusive_parked") \cup At("exclusive_runnable")

IInv == TypeOK /\ Census /\ Exclusion /\ NoLostWakeup

\* The counts of a finite set of threads that the coordinator's arithmetic
\* relies on: one thread joins, one thread leaves, nobody is left.
LEMMA ThreadCounting ==
    ASSUME NEW X \in SUBSET Threads, NEW t \in Threads
    PROVE  /\ Cardinality(X) \in Nat
           /\ Cardinality(X) = 0 <=> X = {}
           /\ t \notin X => Cardinality(X \cup {t}) = Cardinality(X) + 1
           /\ t \in X => Cardinality(X \ {t}) = Cardinality(X) - 1
  <1>1. IsFiniteSet(X)
    BY ThreadsAssumption, FS_Subset
  <1> QED
    BY <1>1, FS_CardinalityType, FS_EmptySet, FS_AddElement, FS_RemoveElement

\* Waking the parked threads (notify_all) moves no thread into or out of a
\* permit, and no thread out of the queue of acquire_exclusive.
LEMMA NotifyKeepsCensus ==
    ASSUME TypeOK, NEW t \in Threads, NotifyAll(t)
    PROVE  /\ pc' \in [Threads -> Locations]
           /\ At("shared")' = At("shared") \ {t}
           /\ At("exclusive")' = At("exclusive") \ {t}
           /\ Asking' = Asking \ {t}
           /\ At("shared_parked")' = {}
           /\ At("exclusive_parked")' = {}
  BY DEF TypeOK, NotifyAll, At, Asking, Wake, Locations

LEMMA InitInv == Init => IInv
  <1> SUFFICES ASSUME Init PROVE IInv
    OBVIOUS
  <1>1. /\ At("shared") = {} /\ At("exclusive") = {}
        /\ At("shared_parked") = {} /\ At("exclusive_parked") = {}
        /\ At("exclusive_parked") \cup At("exclusive_runnable") = {}
    BY DEF Init, At
  <1>2. Cardinality({}) = 0
    BY FS_EmptySet
  <1> QED
    BY <1>1, <1>2 DEF Init, IInv, TypeOK, Census, Exclusion, NoLostWakeup, Locations

LEMMA SharedLoopInv ==
    ASSUME IInv, NEW t \in Threads, pc[t] \in {"out", "shared_runnable"}, SharedLoop(t)
    PROVE  IInv'
  <1> USE DEF IInv
  <1>0. /\ t \notin At("shared") /\ t \notin At("exclusive") 
        /\ t \notin At("exclusive_parked") /\ t \notin At("exclusive_runnable")
    BY DEF At
  <1>1. CASE /\ SharedBlocked
             /\ pc' = [pc EXCEPT ![t] = "shared_parked"]
             /\ UNCHANGED <<readers, writer_active, writers_waiting>>
    <2>1. /\ pc' \in [Threads -> Locations]
          /\ At("shared")' = At("shared") /\ At("exclusive")' = At("exclusive")
          /\ At("exclusive_parked")' = At("exclusive_parked")
          /\ At("exclusive_runnable")' = At("exclusive_runnable")
      BY <1>0, <1>1 DEF At, TypeOK, Locations
    <2> QED
      BY <1>1, <2>1 DEF TypeOK, Census, Exclusion, NoLostWakeup, SharedBlocked, ExclusiveBlocked
  <1>2. CASE /\ ~SharedBlocked
             /\ readers' = readers + 1
             /\ pc' = [pc EXCEPT ![t] = "shared"]
             /\ UNCHANGED <<writer_active, writers_waiting>>
    <2>1. /\ pc' \in [Threads -> Locations]
          /\ At("shared")' = At("shared") \cup {t} /\ At("exclusive")' = At("exclusive")
          /\ At("exclusive_parked")' = At("exclusive_parked")
          /\ At("exclusive_runnable")' = At("exclusive_runnable")
          /\ At("shared_parked")' = At("shared_parked") \ {t}
      BY <1>0, <1>2 DEF At, TypeOK, Locations
    <2>2. Cardinality(At("shared") \cup {t}) = Cardinality(At("shared")) + 1
      BY <1>0, ThreadCounting DEF At
    <2>3. TypeOK'
      BY <1>2, <2>1 DEF TypeOK
    <2>4. readers' = Cardinality(At("shared"))'
      BY <1>2, <2>1, <2>2 DEF Census
    <2>5. Census'
      BY <1>2, <2>1, <2>4 DEF Census
    <2>6. At("exclusive") = {} /\ Exclusion'
      BY <1>2, <2>1 DEF Census, Exclusion, SharedBlocked
    <2>7. NoLostWakeup'
      BY <1>2, <2>1 DEF NoLostWakeup, SharedBlocked, ExclusiveBlocked, TypeOK
    <2> QED
      BY <2>3, <2>5, <2>6, <2>7
  <1> QED
    BY <1>1, <1>2 DEF SharedLoop

\* Both calls of the loop in acquire_exclusive: the first evaluation counts the
\* caller in, later ones find it counted.
LEMMA ExclusiveLoopInv ==
    ASSUME IInv, NEW t \in Threads, NEW waiting,
           \/ pc[t] = "out" /\ waiting = writers_waiting + 1
           \/ pc[t] = "exclusive_runnable" /\ waiting = writers_waiting,
           ExclusiveLoop(t, waiting)
    PROVE  IInv'
  <1> USE DEF IInv
  <1>0. /\ t \notin At("shared") /\ t \notin At("exclusive")
        /\ waiting \in Nat /\ waiting = Cardinality(Asking \cup {t})
    <2>1. CASE pc[t] = "out" /\ waiting = writers_waiting + 1
      BY <2>1, ThreadCounting DEF At, Asking, Census, TypeOK
    <2>2. CASE pc[t] = "exclusive_runnable" /\ waiting = writers_waiting
      <3>1. Asking \cup {t} = Asking
        BY <2>2 DEF At, Asking
      <3> QED
        BY <2>2, <3>1 DEF At, Asking, Census, TypeOK
    <2> QED
      BY <2>1, <2>2
  <1>1. CASE /\ ExclusiveBlocked
             /\ writers_waiting' = waiting
             /\ pc' = [pc EXCEPT ![t] = "exclusive_parked"]
             /\ UNCHANGED <<readers, writer_active>>
    <2>1. /\ pc' \in [Threads -> Locations]
          /\ At("shared")' = At("shared") /\ At("exclusive")' = At("exclusive")
          /\ Asking' = Asking \cup {t}
          /\ At("shared_parked")' = At("shared_parked") \ {t}
      <3>1. /\ At("exclusive_parked")' = At("exclusive_parked") \cup {t}
            /\ At("exclusive_runnable")' = At("exclusive_runnable") \ {t}
        BY <1>1 DEF At, TypeOK, Locations
      <3> QED
        BY <1>0, <1>1, <3>1 DEF At, TypeOK, Locations, Asking
    <2>2. waiting # 0
      <3>1. Asking \cup {t} \in SUBSET Threads /\ Asking \cup {t} # {}
        BY DEF At, Asking
      <3> QED
        BY <1>0, <3>1, ThreadCounting
    <2> QED
      BY <1>0, <1>1, <2>1, <2>2
         DEF TypeOK, Census, Exclusion, NoLostWakeup, SharedBlocked, ExclusiveBlocked, Asking
  <1>2. CASE /\ ~ExclusiveBlocked
             /\ writers_waiting' = waiting - 1
             /\ writer_active' = TRUE
             /\ pc' = [pc EXCEPT ![t] = "exclusive"]
             /\ UNCHANGED readers
    <2>1. /\ pc' \in [Threads -> Locations]
          /\ At("shared")' = At("shared") /\ At("exclusive")' = At("exclusive") \cup {t}
          /\ Asking' = (Asking \cup {t}) \ {t}
      <3>1. /\ At("exclusive_parked")' = At("exclusive_parked") \ {t}
            /\ At("exclusive_runnable")' = At("exclusive_runnable") \ {t}
        BY <1>2 DEF At, TypeOK, Locations
      <3> QED
        BY <1>0, <1>2, <3>1 DEF At, TypeOK, Locations, Asking
    <2>2. Cardinality(Asking') = waiting - 1 /\ waiting - 1 \in Nat
      BY <1>0, <2>1, ThreadCounting DEF At, Asking
    <2>3. At("shared") = {} /\ At("exclusive") = {}
      BY <1>2, ThreadCounting DEF ExclusiveBlocked, Census, At
    <2>4. TypeOK' /\ Census'
      BY <1>2, <2>1, <2>2 DEF TypeOK, Census, Asking
    <2>5. Exclusion' /\ NoLostWakeup'
      BY <1>2, <2>1, <2>3 DEF Exclusion, NoLostWakeup, SharedBlocked, ExclusiveBlocked
    <2> QED
      BY <2>4, <2>5
  <1> QED
    BY <1>1, <1>2 DEF ExclusiveLoop

LEMMA DropSharedInv ==
    ASSUME IInv, NEW t \in Threads, drop_shared(t)
    PROVE  IInv'
  <1> USE DEF IInv
  <1>1. /\ t \in At("shared") /\ t \notin At("exclusive") /\ t \notin Asking
        /\ t \notin At("exclusive_parked")
    BY DEF drop_shared, At, Asking
  <1>2. /\ Cardinality(At("shared") \ {t}) = readers - 1
        /\ readers - 1 \in Nat
    BY <1>1, ThreadCounting DEF At, Census
  <1>3. At("exclusive") = {} /\ writer_active = FALSE
    BY <1>1 DEF Exclusion, Census, TypeOK
  <1>4. /\ pc' \in [Threads -> Locations]
        /\ At("shared")' = At("shared") \ {t}
        /\ At("exclusive")' = At("exclusive")
        /\ Asking' = Asking
        /\ \/ At("shared_parked")' = {} /\ At("exclusive_parked")' = {}
           \/ /\ readers' # 0
              /\ At("shared_parked")' = At("shared_parked") \ {t}
              /\ At("exclusive_parked")' = At("exclusive_parked")
    <2>1. CASE readers' = 0
      <3>1. NotifyAll(t)
        BY <2>1 DEF drop_shared
      <3> HIDE DEF IInv
      <3>2. /\ pc' \in [Threads -> Locations]
            /\ At("shared")' = At("shared") \ {t}
            /\ At("exclusive")' = At("exclusive") \ {t}
            /\ Asking' = Asking \ {t}
            /\ At("shared_parked")' = {} /\ At("exclusive_parked")' = {}
        BY <3>1, NotifyKeepsCensus DEF IInv
      <3> QED
        BY <1>1, <3>2
    <2>2. CASE readers' # 0
      <3>1. pc' = [pc EXCEPT ![t] = "out"]
        BY <2>2 DEF drop_shared
      <3> QED
        BY <1>1, <2>2, <3>1 DEF At, TypeOK, Locations, Asking
    <2> QED
      BY <2>1, <2>2
  <1>5. TypeOK' /\ Census'
    BY <1>2, <1>4 DEF drop_shared, TypeOK, Census, Asking
  <1>6. Exclusion' /\ NoLostWakeup'
    BY <1>3, <1>4 DEF drop_shared, Exclusion, NoLostWakeup, SharedBlocked, ExclusiveBlocked
  <1> QED
    BY <1>5, <1>6

LEMMA DropExclusiveInv ==
    ASSUME IInv, NEW t \in Threads, drop_exclusive(t)
    PROVE  IInv'
  <1> USE DEF IInv
  <1>1. t \in At("exclusive") /\ At("exclusive") = {t} /\ t \notin At("shared") /\ t \notin Asking
    BY DEF drop_exclusive, At, Asking, Exclusion
  <1>2. /\ pc' \in [Threads -> Locations]
        /\ At("shared")' = At("shared") /\ At("exclusive")' = {} /\ Asking' = Asking
        /\ At("shared_parked")' = {} /\ At("exclusive_parked")' = {}
    BY <1>1, NotifyKeepsCensus DEF drop_exclusive
  <1> QED
    BY <1>2 DEF drop_exclusive, TypeOK, Census, Exclusion, NoLostWakeup, Asking

LEMMA SpuriousInv ==
    ASSUME IInv, NEW t \in Threads, SpuriousWakeup(t)
    PROVE  IInv'
  <1> USE DEF IInv
  <1>1. /\ pc' \in [Threads -> Locations]
        /\ At("shared")' = At("shared") /\ At("exclusive")' = At("exclusive")
        /\ Asking' = Asking
        /\ At("shared_parked")' \subseteq At("shared_parked")
        /\ At("exclusive_parked")' \subseteq At("exclusive_parked")
    BY DEF SpuriousWakeup, TypeOK, At, Asking, Wake, Locations
  <1> QED
    BY <1>1 DEF SpuriousWakeup, TypeOK, Census, Exclusion, NoLostWakeup, Asking,
                SharedBlocked, ExclusiveBlocked

LEMMA NextInv == IInv /\ [Next]_vars => IInv'
  <1> SUFFICES ASSUME IInv, [Next]_vars PROVE IInv'
    OBVIOUS
  <1>1. CASE UNCHANGED vars
    BY <1>1 DEF vars, IInv, TypeOK, Census, Exclusion, NoLostWakeup, At,
                SharedBlocked, ExclusiveBlocked
  <1>2. ASSUME NEW t \in Threads, acquire_shared(t) \/ resume_shared(t) PROVE IInv'
    BY <1>2, SharedLoopInv DEF acquire_shared, resume_shared
  <1>3. ASSUME NEW t \in Threads, acquire_exclusive(t) PROVE IInv'
    BY <1>3, ExclusiveLoopInv DEF acquire_exclusive
  <1>4. ASSUME NEW t \in Threads, resume_exclusive(t) PROVE IInv'
    BY <1>4, ExclusiveLoopInv DEF resume_exclusive
  <1>5. ASSUME NEW t \in Threads, drop_shared(t) PROVE IInv'
    BY <1>5, DropSharedInv
  <1>6. ASSUME NEW t \in Threads, drop_exclusive(t) PROVE IInv'
    BY <1>6, DropExclusiveInv
  <1>7. ASSUME NEW t \in Threads, SpuriousWakeup(t) PROVE IInv'
    BY <1>7, SpuriousInv
  <1> QED
    BY <1>1, <1>2, <1>3, <1>4, <1>5, <1>6, <1>7 DEF Next

\* The inductive invariant holds in every reachable state.
LEMMA InvHolds == Spec => []IInv
  BY InitInv, NextInv, PTL DEF Spec

\* For every finite set of threads: the exclusive permit excludes every other
\* permit (acquire_shared, acquire_exclusive and the two Drop handlers).
THEOREM MutualExclusion == Spec => []Exclusion
  BY InvHolds, PTL DEF IInv

\* The coordinator's counters count the threads they stand for, for ever.
THEOREM CountersAreExact == Spec => [](TypeOK /\ Census)
  BY InvHolds, PTL DEF IInv

\* Notifying only when the last reader leaves loses no wake-up.
THEOREM WakeupsAreKept == Spec => []NoLostWakeup
  BY InvHolds, PTL DEF IInv

\* A queued maintenance operation keeps new commands out (the loop condition
\* of acquire_shared), whatever the other threads do.
THEOREM WritersGoFirst == Spec => WriterPreference
  <1>1. IInv /\ [Next]_vars => [writers_waiting # 0 => readers' <= readers]_vars
    BY DEF IInv, TypeOK, Next, vars, acquire_shared, resume_shared, SharedLoop, SharedBlocked,
           acquire_exclusive, resume_exclusive, ExclusiveLoop, drop_shared, drop_exclusive,
           SpuriousWakeup
  <1> QED
    BY <1>1, InvHolds, PTL DEF Spec, WriterPreference

\* A step of the coordinator is a step of the abstract barrier, or invisible.
LEMMA StepSimulation == IInv /\ [Next]_vars => [Barrier!Next]_(Barrier!vars)
  <1> SUFFICES ASSUME IInv, [Next]_vars PROVE Barrier!Next \/ UNCHANGED Barrier!vars
    OBVIOUS
  <1> USE DEF IInv, Barrier!vars, Barrier!Next
  <1>1. CASE UNCHANGED vars
    BY <1>1 DEF vars, At
  <1>2. ASSUME NEW t \in Threads, acquire_shared(t) \/ resume_shared(t)
        PROVE  Barrier!EnterShared(t) \/ UNCHANGED Barrier!vars
    <2>1. CASE SharedBlocked
      BY <1>2, <2>1 DEF acquire_shared, resume_shared, SharedLoop, At, TypeOK
    <2>2. CASE ~SharedBlocked
      <3>1. At("exclusive") = {} /\ At("exclusive_parked") \cup At("exclusive_runnable") = {}
        BY <2>2, ThreadCounting DEF SharedBlocked, Census, At
      <3>2. /\ pc[t] \in {"out", "shared_runnable"}
            /\ pc' = [pc EXCEPT ![t] = "shared"]
        BY <1>2, <2>2 DEF acquire_shared, resume_shared, SharedLoop
      <3> QED
        BY <3>1, <3>2 DEF Barrier!EnterShared, Barrier!Outside, At, TypeOK
    <2> QED
      BY <2>1, <2>2
  <1>3. ASSUME NEW t \in Threads, acquire_exclusive(t) \/ resume_exclusive(t)
        PROVE  Barrier!Ask(t) \/ Barrier!EnterExclusive(t) \/ UNCHANGED Barrier!vars
    <2>1. CASE ExclusiveBlocked
      <3>1. /\ pc[t] \in {"out", "exclusive_runnable"}
            /\ pc' = [pc EXCEPT ![t] = "exclusive_parked"]
        BY <1>3, <2>1 DEF acquire_exclusive, resume_exclusive, ExclusiveLoop
      <3>2. CASE pc[t] = "out"
        BY <3>1, <3>2 DEF Barrier!Ask, Barrier!Outside, At, TypeOK
      <3>3. CASE pc[t] = "exclusive_runnable"
        BY <3>1, <3>3 DEF At, TypeOK
      <3> QED
        BY <3>1, <3>2, <3>3
    <2>2. CASE ~ExclusiveBlocked
      <3>1. At("exclusive") = {} /\ At("shared") = {}
        BY <2>2, <1>3, ThreadCounting DEF ExclusiveBlocked, Census, At
      <3>2. /\ pc[t] \in {"out", "exclusive_runnable"}
            /\ pc' = [pc EXCEPT ![t] = "exclusive"]
        BY <1>3, <2>2 DEF acquire_exclusive, resume_exclusive, ExclusiveLoop
      <3> QED
        BY <3>1, <3>2 DEF Barrier!EnterExclusive, At, TypeOK
    <2> QED
      BY <2>1, <2>2
  <1>4. ASSUME NEW t \in Threads, drop_shared(t) \/ drop_exclusive(t)
        PROVE  Barrier!Leave(t)
    <2>1. /\ t \in At("shared") \cup At("exclusive") /\ t \notin Asking
          /\ \/ NotifyAll(t) \/ pc' = [pc EXCEPT ![t] = "out"]
      BY <1>4 DEF drop_shared, drop_exclusive, At, Asking
    <2>2. /\ At("shared")' = At("shared") \ {t}
          /\ At("exclusive")' = At("exclusive") \ {t}
          /\ Asking' = Asking \ {t}
      BY <2>1, NotifyKeepsCensus DEF At, Asking, TypeOK
    <2> QED
      BY <2>1, <2>2 DEF Barrier!Leave, Asking
  <1>5. ASSUME NEW t \in Threads, SpuriousWakeup(t)
        PROVE  UNCHANGED Barrier!vars
    BY <1>5 DEF SpuriousWakeup, Wake, At, TypeOK
  <1> QED
    BY <1>1, <1>2, <1>3, <1>4, <1>5 DEF Next

\* The counters and the condition variable implement the abstract barrier.
THEOREM CoordinatorImplementsBarrier == Spec => ImplementsBarrier
  <1>1. Init => Barrier!Init
    BY DEF Init, Barrier!Init, At
  <1> QED
    BY <1>1, StepSimulation, InvHolds, PTL DEF Spec, Barrier!Spec, ImplementsBarrier

-----------------------------------------------------------------------------
(* The outbound authority.  NoOutboundWhenLocalOnly is not inductive:       *)
(* publishing a local-only mode keeps it only because nobody holds a lease  *)
(* when a transition is held, which in turn rests on the counter and on     *)
(* acquire's refusal.                                                       *)

Holders == {w \in Workers : lease[w] # "none"}

AInv ==
    /\ AuthorityTypeOK
    /\ NoOutboundWhenLocalOnly
    /\ LeasesCounted
    /\ TransitionIsExclusive
    /\ transitioning <=> transition # "none"

\* The counts the lease counter relies on.
LEMMA LeaseCounting ==
    ASSUME NEW X \in SUBSET Workers, NEW w \in Workers
    PROVE  /\ Cardinality(X) \in Nat
           /\ Cardinality(X) = 0 <=> X = {}
           /\ w \notin X => Cardinality(X \cup {w}) = Cardinality(X) + 1
           /\ w \in X => Cardinality(X \ {w}) = Cardinality(X) - 1
  <1>1. IsFiniteSet(X)
    BY WorkersAssumption, FS_Subset
  <1> QED
    BY <1>1, FS_CardinalityType, FS_EmptySet, FS_AddElement, FS_RemoveElement

LEMMA AuthorityInitInv == AuthorityInit => AInv
  <1> SUFFICES ASSUME NEW s \in PersistedSnapshots \cup {FailClosedSnapshot(0)}, new(s)
               PROVE  AInv
    BY DEF AuthorityInit
  <1>1. s \in Snapshots
    <2>1. PersistedSnapshots \subseteq Snapshots
      BY DEF PersistedSnapshots, Snapshots, Healths
    <2>2. FailClosedSnapshot(0) \in Snapshots
      BY RevisionsAssumption DEF FailClosedSnapshot, Snapshots, Healths
    <2> QED
      BY <2>1, <2>2
  <1>2. {w \in Workers : lease[w] # "none"} = {}
    BY DEF new
  <1>3. Cardinality({}) = 0
    BY FS_EmptySet
  <1>4. LeasesCounted
    BY <1>2, <1>3 DEF new, LeasesCounted
  <1> QED
    BY <1>1, <1>4 DEF new, AInv, AuthorityTypeOK, NoOutboundWhenLocalOnly, TransitionIsExclusive,
                      Leases

LEMMA TakeLeaseInv ==
    ASSUME AInv, NEW w \in Workers, NEW kind \in {"outbound", "cleanup"},
           lease[w] = "none", ~transitioning,
           kind = "outbound" => ~snapshot.local_only,
           TakeLease(w, kind)
    PROVE  AInv'
  <1> USE DEF AInv
  <1>1. Holders' = Holders \cup {w} /\ w \notin Holders
    BY DEF TakeLease, Holders, AuthorityTypeOK
  <1>2. Cardinality(Holders \cup {w}) = Cardinality(Holders) + 1
    BY <1>1, LeaseCounting DEF Holders
  <1>3. LeasesCounted'
    BY <1>1, <1>2 DEF TakeLease, LeasesCounted, Holders
  <1>4. AuthorityTypeOK'
    BY DEF TakeLease, AuthorityTypeOK, Leases
  <1>5. NoOutboundWhenLocalOnly'
    BY DEF TakeLease, NoOutboundWhenLocalOnly, AuthorityTypeOK
  <1>6. TransitionIsExclusive' /\ (transitioning <=> transition # "none")'
    BY DEF TakeLease, TransitionIsExclusive
  <1> QED
    BY <1>3, <1>4, <1>5, <1>6

LEMMA DropLeaseInv ==
    ASSUME AInv, NEW w \in Workers, drop_lease(w)
    PROVE  AInv'
  <1> USE DEF AInv
  <1>1. Holders' = Holders \ {w} /\ w \in Holders
    BY DEF drop_lease, Holders, AuthorityTypeOK
  <1>2. /\ Cardinality(Holders \ {w}) = Cardinality(Holders) - 1
        /\ Cardinality(Holders \ {w}) \in Nat
    BY <1>1, LeaseCounting DEF Holders
  <1>3. LeasesCounted' /\ active_leases - 1 \in Nat
    BY <1>1, <1>2 DEF drop_lease, LeasesCounted, Holders
  <1>4. AuthorityTypeOK'
    BY <1>3 DEF drop_lease, AuthorityTypeOK, Leases
  <1>5. NoOutboundWhenLocalOnly'
    BY DEF drop_lease, NoOutboundWhenLocalOnly, AuthorityTypeOK
  <1>6. TransitionIsExclusive' /\ (transitioning <=> transition # "none")'
    BY DEF drop_lease, TransitionIsExclusive, AuthorityTypeOK
  <1> QED
    BY <1>3, <1>4, <1>5, <1>6

LEMMA DrainInv ==
    ASSUME AInv, DrainLoop, transitioning', UNCHANGED <<snapshot, active_leases, lease>>
    PROVE  AInv'
  <1> USE DEF AInv
  <1>1. active_leases = 0 => Holders = {}
    <2>1. Holders \in SUBSET Workers /\ active_leases = Cardinality(Holders)
      BY DEF LeasesCounted, Holders
    <2>2. CASE Workers = {}
      BY <2>2 DEF Holders
    <2>3. CASE Workers # {}
      BY <2>1, <2>3, LeaseCounting
    <2> QED
      BY <2>2, <2>3
  <1>2. TransitionIsExclusive'
    BY <1>1 DEF DrainLoop, TransitionIsExclusive, Holders
  <1>3. AuthorityTypeOK'
    BY DEF DrainLoop, AuthorityTypeOK
  <1>4. NoOutboundWhenLocalOnly' /\ LeasesCounted'
    BY DEF NoOutboundWhenLocalOnly, LeasesCounted
  <1>5. (transitioning <=> transition # "none")'
    BY DEF DrainLoop
  <1> QED
    BY <1>2, <1>3, <1>4, <1>5

LEMMA EndTransitionInv ==
    ASSUME AInv, NEW s \in Snapshots, EndTransition(s)
    PROVE  AInv'
  <1> USE DEF AInv
  <1>1. \A w \in Workers : lease'[w] = "none"
    BY DEF EndTransition, TransitionIsExclusive
  <1> QED
    BY <1>1 DEF EndTransition, AuthorityTypeOK, NoOutboundWhenLocalOnly, LeasesCounted,
                TransitionIsExclusive

LEMMA AuthorityNextInv == AInv /\ [AuthorityNext]_authorityVars => AInv'
  <1> SUFFICES ASSUME AInv, [AuthorityNext]_authorityVars PROVE AInv'
    OBVIOUS
  <1>1. CASE UNCHANGED authorityVars
    BY <1>1 DEF authorityVars, AInv, AuthorityTypeOK, NoOutboundWhenLocalOnly, LeasesCounted,
                TransitionIsExclusive
  <1>2. ASSUME NEW w \in Workers, acquire(w) PROVE AInv'
    BY <1>2, TakeLeaseInv DEF acquire
  <1>3. ASSUME NEW w \in Workers, acquire_local_cleanup(w) PROVE AInv'
    BY <1>3, TakeLeaseInv DEF acquire_local_cleanup
  <1>4. ASSUME NEW w \in Workers, drop_lease(w) PROVE AInv'
    BY <1>4, DropLeaseInv
  <1>5. CASE begin_transition
    BY <1>5, DrainInv DEF begin_transition
  <1>6. CASE resume_transition
    <2>1. transitioning'
      BY <1>6 DEF resume_transition, AInv, AuthorityTypeOK
    <2> QED
      BY <1>6, <2>1, DrainInv DEF resume_transition
  <1>7. CASE SpuriousDrainWakeup
    BY <1>7 DEF SpuriousDrainWakeup, AInv, AuthorityTypeOK, NoOutboundWhenLocalOnly, LeasesCounted,
                TransitionIsExclusive
  <1>8. CASE PublishAny
    <2>1. PersistedSnapshots \subseteq Snapshots
      BY DEF PersistedSnapshots, Snapshots, Healths
    <2> QED
      BY <1>8, <2>1, EndTransitionInv DEF PublishAny, publish
  <1>9. CASE fail_closed
    <2>1. FailClosedSnapshot(prior.revision) \in Snapshots
      BY DEF AInv, AuthorityTypeOK, FailClosedSnapshot, Snapshots, Healths
    <2> QED
      BY <1>9, <2>1, EndTransitionInv DEF fail_closed
  <1>10. CASE drop_transition
    BY <1>10, EndTransitionInv DEF drop_transition, AInv, AuthorityTypeOK
  <1> QED
    BY <1>1, <1>2, <1>3, <1>4, <1>5, <1>6, <1>7, <1>8, <1>9, <1>10 DEF AuthorityNext

\* The inductive invariant holds in every reachable state.
LEMMA AuthorityInvHolds == AuthoritySpec => []AInv
  BY AuthorityInitInv, AuthorityNextInv, PTL DEF AuthoritySpec

\* For every finite set of workers and every sequence of mode changes: no
\* outbound lease is alive while the authority says local-only.
THEOREM LocalOnlyMeansNoOutbound == AuthoritySpec => []NoOutboundWhenLocalOnly
  BY AuthorityInvHolds, PTL DEF AInv

\* The lease counter is exact, and a held transition has drained every lease.
THEOREM TransitionsDrainLeases == AuthoritySpec => [](LeasesCounted /\ TransitionIsExclusive)
  BY AuthorityInvHolds, PTL DEF AInv

\* No step changes the published mode while some worker holds a lease.
THEOREM ModeIsStableUnderLease == AuthoritySpec => ModeStableUnderLease
  <1>1. AInv /\ [AuthorityNext]_authorityVars
        => [(\E w \in Workers : lease[w] # "none") => snapshot' = snapshot]_authorityVars
    BY DEF AInv, TransitionIsExclusive, AuthorityNext, authorityVars, acquire,
           acquire_local_cleanup, TakeLease, drop_lease, begin_transition, resume_transition,
           SpuriousDrainWakeup, PublishAny, publish, fail_closed, drop_transition, EndTransition
  <1> QED
    BY <1>1, AuthorityInvHolds, PTL DEF AuthoritySpec, ModeStableUnderLease

-----------------------------------------------------------------------------
(* The application service.  A revision that a wish was made from and that  *)
(* its work moves is past what the wish expects once it was granted; what a *)
(* receipt stores answers the wish and the request it was stored for.       *)

Advised == {"over", "again", "refresh"}

\* What the rest relies on of a command's entry.
Sound(c) ==
    /\ c.checks \subseteq c.needs /\ c.needs \subseteq S!RevisionState
    /\ c.writes \in BOOLEAN /\ (~c.writes => c.checks = {})
    /\ c.conflict \in Advised /\ c.errors \subseteq Advised
    /\ c.before \subseteq Advised /\ c.during \subseteq Advised

LEMMA AdviceIsAdvice ==
    /\ \A f : S!Advice(f) \in Advised
    /\ \A s : S!Advices(s) \subseteq Advised
<1>1. \A f : S!Advice(f) \in Advised
  BY DEF S!Advice, Advised
<1> QED BY <1>1 DEF S!Advices

LEMMA CommandsAreSound ==
    ASSUME NEW e, NEW n \in SUBSET S!RevisionState, NEW m, NEW k \in SUBSET n, NEW s
    PROVE  /\ Sound(S!Command(e, n, m, k))
           /\ Sound(S!Reads(e))
           /\ Sound([S!Command(e, n, m, k) EXCEPT !.before = S!Advices(s)])
           /\ Sound([S!Command(e, n, m, k) EXCEPT !.during = S!Advices(s)])
<1> DEFINE conflict == S!Advice(e.conflict)
           errors == {S!Advice(e[kind]) : kind \in DOMAIN e \ {"conflict"}}
           advices == S!Advices(s)
<1>1. conflict \in Advised /\ errors \subseteq Advised /\ advices \subseteq Advised
  BY AdviceIsAdvice
<1> DEFINE full == [conflict |-> conflict, errors |-> errors, needs |-> n, moves |-> m,
                    checks |-> k, writes |-> TRUE, before |-> {}, during |-> {}]
           bare == [conflict |-> conflict, errors |-> errors, needs |-> {}, moves |-> {},
                    checks |-> {}, writes |-> TRUE, before |-> {}, during |-> {}]
<1>2. S!Command(e, n, m, k) = full /\ S!Command(e, {}, {}, {}) = bare
  BY DEF S!Command
<1> HIDE DEF conflict, errors, advices
<1>3. Sound(full)
  BY <1>1 DEF Sound
<1>4. Sound([bare EXCEPT !.writes = FALSE])
  BY <1>1 DEF Sound
<1>5. Sound([full EXCEPT !.before = advices])
  BY <1>1 DEF Sound
<1>6. Sound([full EXCEPT !.during = advices])
  BY <1>1 DEF Sound
<1> HIDE DEF full, bare
<1>7. S!Reads(e) = [bare EXCEPT !.writes = FALSE]
  BY <1>2 DEF S!Reads
<1> QED BY <1>2, <1>3, <1>4, <1>5, <1>6, <1>7 DEF advices

LEMMA EveryCommandIsSound == \A c \in S!Commands : Sound(c)
<1>1. Sound(S!create_manual_outfit_v1)
  BY CommandsAreSound DEF S!create_manual_outfit_v1, S!RevisionState
<1>2. Sound(S!list_outfits_v1)
  BY CommandsAreSound DEF S!list_outfits_v1, S!RevisionState
<1>3. Sound(S!get_outfit_collage_v1)
  BY CommandsAreSound DEF S!get_outfit_collage_v1, S!RevisionState
<1>4. Sound(S!get_gmail_connector_v1)
  BY CommandsAreSound DEF S!get_gmail_connector_v1, S!RevisionState
<1>5. Sound(S!get_gmail_connector_v2)
  BY CommandsAreSound DEF S!get_gmail_connector_v2, S!RevisionState
<1>6. Sound(S!save_gmail_settings_v1)
  BY CommandsAreSound DEF S!save_gmail_settings_v1, S!RevisionState
<1>7. Sound(S!save_gmail_settings_v2)
  BY CommandsAreSound DEF S!save_gmail_settings_v2, S!RevisionState
<1>8. Sound(S!connect_gmail_v1)
  BY CommandsAreSound DEF S!connect_gmail_v1, S!RevisionState
<1>9. Sound(S!sync_gmail_v1)
  BY CommandsAreSound DEF S!sync_gmail_v1, S!RevisionState
<1>10. Sound(S!disconnect_gmail_v1)
  BY CommandsAreSound DEF S!disconnect_gmail_v1, S!RevisionState
<1>11. Sound(S!get_photokit_connector_v1)
  BY CommandsAreSound DEF S!get_photokit_connector_v1, S!RevisionState
<1>12. Sound(S!begin_photokit_setup_v1)
  BY CommandsAreSound DEF S!begin_photokit_setup_v1, S!RevisionState
<1>13. Sound(S!configure_photokit_scope_v1)
  BY CommandsAreSound DEF S!configure_photokit_scope_v1, S!RevisionState
<1>14. Sound(S!sync_photokit_v1)
  BY CommandsAreSound DEF S!sync_photokit_v1, S!RevisionState
<1>15. Sound(S!disable_photokit_v1)
  BY CommandsAreSound DEF S!disable_photokit_v1, S!RevisionState
<1>16. Sound(S!import_local_sources_v1)
  BY CommandsAreSound DEF S!import_local_sources_v1, S!RevisionState
<1>17. Sound(S!refresh_import_roots_v1)
  BY CommandsAreSound DEF S!refresh_import_roots_v1, S!RevisionState
<1>18. Sound(S!validate_mutation)
  BY CommandsAreSound DEF S!validate_mutation, S!RevisionState
<1>19. Sound(S!preview_deletion_v1)
  BY CommandsAreSound DEF S!preview_deletion_v1, S!RevisionState
<1>20. Sound(S!list_deletion_plan_items_v1)
  BY CommandsAreSound DEF S!list_deletion_plan_items_v1, S!RevisionState
<1>21. Sound(S!execute_deletion_v1)
  BY CommandsAreSound DEF S!execute_deletion_v1, S!RevisionState
<1>22. Sound(S!list_imported_photo_roots_v1)
  BY CommandsAreSound DEF S!list_imported_photo_roots_v1, S!RevisionState
<1>23. Sound(S!list_photo_observations_v1)
  BY CommandsAreSound DEF S!list_photo_observations_v1, S!RevisionState
<1>24. Sound(S!read_photo_artifact_v1)
  BY CommandsAreSound DEF S!read_photo_artifact_v1, S!RevisionState
<1>25. Sound(S!list_photo_owner_reviews_v1)
  BY CommandsAreSound DEF S!list_photo_owner_reviews_v1, S!RevisionState
<1>26. Sound(S!read_photo_owner_preview_v1)
  BY CommandsAreSound DEF S!read_photo_owner_preview_v1, S!RevisionState
<1>27. Sound(S!create_photo_scope_v1)
  BY CommandsAreSound DEF S!create_photo_scope_v1, S!RevisionState
<1>28. Sound(S!analyze_photo_scope_v1)
  BY CommandsAreSound DEF S!analyze_photo_scope_v1, S!RevisionState
<1>29. Sound(S!detect_photo_scope_people_v1)
  BY CommandsAreSound DEF S!detect_photo_scope_people_v1, S!RevisionState
<1>30. Sound(S!prompt_photo_observation_v1)
  BY CommandsAreSound DEF S!prompt_photo_observation_v1, S!RevisionState
<1>31. Sound(S!review_photo_observation_v1)
  BY CommandsAreSound DEF S!review_photo_observation_v1, S!RevisionState
<1>32. Sound(S!decide_photo_owner_v1)
  BY CommandsAreSound DEF S!decide_photo_owner_v1, S!RevisionState
<1>33. Sound(S!correct_photo_owner_v1)
  BY CommandsAreSound DEF S!correct_photo_owner_v1, S!RevisionState
<1>34. Sound(S!correct_photo_person_detection_v1)
  BY CommandsAreSound DEF S!correct_photo_person_detection_v1, S!RevisionState
<1>35. Sound(S!retry_photo_person_detection_v1)
  BY CommandsAreSound DEF S!retry_photo_person_detection_v1, S!RevisionState
<1>36. Sound(S!open_reconciliation_case_v1)
  BY CommandsAreSound DEF S!open_reconciliation_case_v1, S!RevisionState
<1>37. Sound(S!open_reconciliation_case_v2)
  BY CommandsAreSound DEF S!open_reconciliation_case_v2, S!RevisionState
<1>38. Sound(S!decide_reconciliation_case_v1)
  BY CommandsAreSound DEF S!decide_reconciliation_case_v1, S!RevisionState
<1>39. Sound(S!decide_reconciliation_case_v2)
  BY CommandsAreSound DEF S!decide_reconciliation_case_v2, S!RevisionState
<1>40. Sound(S!list_reconciliation_cases_v2)
  BY CommandsAreSound DEF S!list_reconciliation_cases_v2, S!RevisionState
<1>41. Sound(S!list_receipts_v1)
  BY CommandsAreSound DEF S!list_receipts_v1, S!RevisionState
<1>42. Sound(S!analyze_receipt_v1)
  BY CommandsAreSound DEF S!analyze_receipt_v1, S!RevisionState
<1>43. Sound(S!review_receipt_v1)
  BY CommandsAreSound DEF S!review_receipt_v1, S!RevisionState
<1>44. Sound(S!list_receipt_purchase_units_v1)
  BY CommandsAreSound DEF S!list_receipt_purchase_units_v1, S!RevisionState
<1>45. Sound(S!promote_receipt_purchase_unit_v1)
  BY CommandsAreSound DEF S!promote_receipt_purchase_unit_v1, S!RevisionState
<1>46. Sound(S!list_receipt_image_candidates_v1)
  BY CommandsAreSound DEF S!list_receipt_image_candidates_v1, S!RevisionState
<1>47. Sound(S!get_foundation_snapshot_v1)
  BY CommandsAreSound DEF S!get_foundation_snapshot_v1, S!RevisionState
<1>48. Sound(S!run_storage_check_v1)
  BY CommandsAreSound DEF S!run_storage_check_v1, S!RevisionState
<1> QED
  BY <1>1, <1>2, <1>3, <1>4, <1>5, <1>6, <1>7, <1>8, <1>9, <1>10, <1>11, <1>12, <1>13,
     <1>14, <1>15, <1>16, <1>17, <1>18, <1>19, <1>20, <1>21, <1>22, <1>23, <1>24, <1>25,
     <1>26, <1>27, <1>28, <1>29, <1>30, <1>31, <1>32, <1>33, <1>34, <1>35, <1>36, <1>37,
     <1>38, <1>39, <1>40, <1>41, <1>42, <1>43, <1>44, <1>45, <1>46, <1>47, <1>48
  DEF S!Commands

\* A wish, and how it stands to what was done.
WishFits(w) ==
    wish[w] # S!NoWish =>
      /\ wish[w] = [command |-> wish[w].command, expected |-> wish[w].expected, told |-> wish[w].told]
      /\ wish[w].command \in S!Commands
      /\ wish[w].expected \in [wish[w].command.needs -> Nat]
      /\ \A r \in wish[w].command.needs : wish[w].expected[r] <= revisions[r]
      /\ granted[w] > 0 =>
           \A r \in wish[w].command.needs \cap wish[w].command.moves :
             wish[w].expected[r] < revisions[r]
      /\ S!OnceOnly(wish[w].command) => granted[w] <= 1
      /\ wish[w].told = "done" /\ wish[w].command.writes => granted[w] >= 1

\* The revisions that an answer to a request for c, made from e, must show.
Shows(c, e, shown) ==
    \A r \in c.checks : shown[r] = e[r] + IF r \in c.moves THEN 1 ELSE 0

\* What is stored under an id.
ReceiptFits(id) ==
    receipts[id] # S!NoReceipt =>
      /\ receipts[id].id = id
      /\ receipts[id].envelope.wish \in S!Wishes /\ wish[receipts[id].envelope.wish] # S!NoWish
      /\ receipts[id].failure \subseteq Advised
      /\ receipts[id].failure = {} =>
           /\ granted[receipts[id].envelope.wish] >= 1
           /\ Shows(wish[receipts[id].envelope.wish].command, receipts[id].envelope.expected,
                    receipts[id].revisions)

\* The command under way.
CallFits ==
    call # S!NoCall =>
      /\ call = [wish |-> call.wish, id |-> call.id, at |-> call.at, answer |-> call.answer]
      /\ call.wish \in S!Wishes /\ call.id \in S!Ids /\ wish[call.wish] # S!NoWish
      /\ call.at = "answer" =>
           /\ S!AnswerIsRight
           /\ S!TheCommand.writes => granted[call.wish] >= 1

ServiceInv ==
    /\ revisions \in [S!RevisionState -> Nat] /\ granted \in [S!Wishes -> Nat]
    /\ wish = [w \in S!Wishes |-> wish[w]] /\ receipts = [id \in S!Ids |-> receipts[id]]
    /\ \A w \in S!Wishes : WishFits(w)
    /\ \A w \in S!Wishes : wish[w] = S!NoWish => granted[w] = 0
    /\ \A id \in S!Ids : ReceiptFits(id)
    /\ CallFits

LEMMA RecordsAreNot ==
    ASSUME NEW a, NEW b, NEW c, NEW d
    PROVE  /\ [command |-> a, expected |-> b, told |-> c] # S!NoWish
           /\ [wish |-> a, id |-> b, at |-> c, answer |-> d] # S!NoCall
           /\ [envelope |-> a, id |-> b, revisions |-> c, failure |-> d] # S!NoReceipt
<1>1. /\ "command" \in DOMAIN [command |-> a, expected |-> b, told |-> c]
      /\ "command" \notin DOMAIN S!NoWish
  BY DEF S!NoWish
<1>2. /\ "wish" \in DOMAIN [wish |-> a, id |-> b, at |-> c, answer |-> d]
      /\ "wish" \notin DOMAIN S!NoCall
  BY DEF S!NoCall
<1>3. /\ "envelope" \in DOMAIN [envelope |-> a, id |-> b, revisions |-> c, failure |-> d]
      /\ "envelope" \notin DOMAIN S!NoReceipt
  BY DEF S!NoReceipt
<1> QED BY <1>1, <1>2, <1>3

\* What the others do leaves a wish as it is.
LEMMA WishIsKept ==
    ASSUME NEW w \in S!Wishes, WishFits(w), wish'[w] = wish[w], granted'[w] = granted[w],
           revisions \in [S!RevisionState -> Nat], revisions' \in [S!RevisionState -> Nat],
           \A r \in S!RevisionState : revisions[r] <= revisions'[r]
    PROVE  WishFits(w)'
<1> SUFFICES ASSUME wish[w] # S!NoWish PROVE WishFits(w)'
  BY DEF WishFits
<1>1. wish[w].command.needs \subseteq S!RevisionState
  BY EveryCommandIsSound DEF WishFits, Sound
<1>2. \A r \in wish[w].command.needs :
        /\ wish[w].expected[r] \in Nat /\ revisions[r] \in Nat /\ revisions'[r] \in Nat
        /\ revisions[r] <= revisions'[r]
  BY <1>1 DEF WishFits
<1>3. \A r \in wish[w].command.needs : wish[w].expected[r] <= revisions'[r]
  BY <1>2 DEF WishFits
<1>4. granted[w] > 0 => \A r \in wish[w].command.needs \cap wish[w].command.moves :
                          wish[w].expected[r] < revisions'[r]
  BY <1>2 DEF WishFits
<1> QED BY <1>3, <1>4 DEF WishFits

\* The wishes stay, with their commands, and what was granted stays granted.
Persists ==
    /\ \A w \in S!Wishes : wish[w] # S!NoWish =>
         wish'[w] # S!NoWish /\ wish'[w].command = wish[w].command
    /\ \A w \in S!Wishes : granted[w] \in Nat /\ granted'[w] \in Nat /\ granted[w] <= granted'[w]

LEMMA ReceiptIsKept ==
    ASSUME NEW id \in S!Ids, ReceiptFits(id), receipts'[id] = receipts[id], Persists
    PROVE  ReceiptFits(id)'
  BY DEF ReceiptFits, Persists, Shows

LEMMA Told ==
    ASSUME ServiceInv, call # S!NoCall, NEW what, S!tells(what)
    PROVE  /\ wish' = [w \in S!Wishes |-> wish'[w]]
           /\ call.wish \in S!Wishes /\ call' = S!NoCall
           /\ wish'[call.wish] = [command |-> wish[call.wish].command,
                                  expected |-> wish[call.wish].expected, told |-> what]
           /\ \A w \in S!Wishes \ {call.wish} : wish'[w] = wish[w]
           /\ \A w \in S!Wishes : wish[w] # S!NoWish =>
                wish'[w] # S!NoWish /\ wish'[w].command = wish[w].command
<1>1. call.wish \in S!Wishes /\ wish[call.wish] # S!NoWish
  BY DEF ServiceInv, CallFits
<1>2. wish[call.wish] = [command |-> wish[call.wish].command,
                         expected |-> wish[call.wish].expected, told |-> wish[call.wish].told]
  BY <1>1 DEF ServiceInv, WishFits
<1> DEFINE k == call.wish
           x == [command |-> wish[k].command, expected |-> wish[k].expected, told |-> what]
<1>3. [wish[k] EXCEPT !.told = what] = x
  BY <1>2
<1>4. wish' = [wish EXCEPT ![k] = [wish[k] EXCEPT !.told = what]]
  BY DEF S!tells
<1> HIDE DEF x
<1>5. wish' = [w \in S!Wishes |-> IF w = k THEN x ELSE wish[w]]
  BY <1>3, <1>4 DEF ServiceInv
<1>6. x # S!NoWish /\ x.command = wish[k].command
  BY RecordsAreNot DEF x
<1> HIDE DEF k
<1>7. wish' = [w \in S!Wishes |-> wish'[w]]
  BY <1>5
<1>8. wish'[k] = x /\ \A w \in S!Wishes \ {k} : wish'[w] = wish[w]
  BY <1>1, <1>5 DEF k
<1> QED BY <1>1, <1>6, <1>7, <1>8 DEF x, k, S!tells

LEMMA ToldFits ==
    ASSUME ServiceInv, call # S!NoCall, NEW what, S!tells(what), UNCHANGED granted,
           revisions' \in [S!RevisionState -> Nat],
           \A r \in S!RevisionState : revisions[r] <= revisions'[r],
           what # "done" \/ (S!TheCommand.writes => granted[call.wish] >= 1)
    PROVE  Persists /\ \A w \in S!Wishes : WishFits(w)'
<1>1. /\ revisions \in [S!RevisionState -> Nat] /\ granted \in [S!Wishes -> Nat]
      /\ \A w \in S!Wishes : WishFits(w)
  BY DEF ServiceInv
<1>2. Persists
  <2>1. \A w \in S!Wishes : granted[w] \in Nat /\ granted'[w] = granted[w]
    BY <1>1
  <2>2. \A w \in S!Wishes : wish[w] # S!NoWish =>
          wish'[w] # S!NoWish /\ wish'[w].command = wish[w].command
    BY Told
  <2> QED BY <2>1, <2>2 DEF Persists
<1>3. ASSUME NEW w \in S!Wishes, w # call.wish PROVE WishFits(w)'
  BY <1>1, <1>3, Told, WishIsKept
<1>4. ASSUME NEW k \in S!Wishes, k = call.wish PROVE WishFits(k)'
  <2>1. wish[k] # S!NoWish
    BY <1>4 DEF ServiceInv, CallFits
  <2>2. wish'[k] = [command |-> wish[k].command, expected |-> wish[k].expected, told |-> what]
    BY <1>4, Told
  <2>3. /\ wish'[k] = [command |-> wish'[k].command, expected |-> wish'[k].expected,
                       told |-> wish'[k].told]
        /\ wish'[k].command = wish[k].command /\ wish'[k].expected = wish[k].expected
        /\ wish'[k].told = what
    BY <2>2
  <2>4. WishFits(k)
    BY <1>1
  <2>5. what = "done" /\ wish[k].command.writes => granted[k] >= 1
    BY <1>4 DEF S!TheCommand
  <2>6. \A r \in wish[k].command.needs :
          /\ wish[k].expected[r] \in Nat /\ revisions[r] \in Nat /\ revisions'[r] \in Nat
          /\ revisions[r] <= revisions'[r]
    BY <1>1, <2>1, <2>4, EveryCommandIsSound DEF WishFits, Sound
  <2>7. /\ \A r \in wish[k].command.needs : wish[k].expected[r] <= revisions'[r]
        /\ granted[k] > 0 => \A r \in wish[k].command.needs \cap wish[k].command.moves :
                               wish[k].expected[r] < revisions'[r]
    BY <2>1, <2>4, <2>6 DEF WishFits
  <2> QED BY <2>1, <2>3, <2>4, <2>5, <2>7 DEF WishFits
<1> QED BY <1>2, <1>3, <1>4

LEMMA TellingKeeps ==
    ASSUME ServiceInv, call # S!NoCall, NEW what, S!tells(what),
           UNCHANGED <<revisions, receipts, granted>>,
           what # "done" \/ (S!TheCommand.writes => granted[call.wish] >= 1)
    PROVE  ServiceInv'
<1>1. /\ revisions \in [S!RevisionState -> Nat] /\ granted \in [S!Wishes -> Nat]
      /\ \A id \in S!Ids : ReceiptFits(id)
  BY DEF ServiceInv
<1>2. \A r \in S!RevisionState : revisions[r] <= revisions'[r]
  BY <1>1
<1>3. Persists /\ \A w \in S!Wishes : WishFits(w)'
  BY <1>1, <1>2, ToldFits
<1>4. \A id \in S!Ids : ReceiptFits(id)'
  BY <1>1, <1>3, ReceiptIsKept
<1>5. CallFits' /\ wish' = [w \in S!Wishes |-> wish'[w]]
  BY Told DEF CallFits
<1>6. receipts' = [id \in S!Ids |-> receipts'[id]]
  BY DEF ServiceInv
<1>7. \A w \in S!Wishes : wish'[w] = S!NoWish => granted'[w] = 0
  BY <1>3 DEF ServiceInv, Persists
<1> QED BY <1>1, <1>3, <1>4, <1>5, <1>6, <1>7 DEF ServiceInv

LEMMA CallOnly ==
    ASSUME ServiceInv, UNCHANGED <<revisions, receipts, wish, granted>>, CallFits'
    PROVE  ServiceInv'
  BY DEF ServiceInv, WishFits, ReceiptFits, Shows

LEMMA ServiceInitially == S!Init => ServiceInv
  BY DEF S!Init, ServiceInv, WishFits, ReceiptFits, CallFits

LEMMA Step_wishes == ServiceInv /\ (\E w \in S!Wishes : S!wishes(w)) => ServiceInv'
<1> SUFFICES ASSUME ServiceInv, NEW w \in S!Wishes, S!wishes(w) PROVE ServiceInv'
  OBVIOUS
<1>1. PICK c \in S!Commands :
        wish' = [wish EXCEPT ![w] = [command |-> c, expected |-> S!Seen(c), told |-> "nothing"]]
  BY DEF S!wishes
<1>2. wish[w] = S!NoWish /\ UNCHANGED <<revisions, receipts, call, granted>>
  BY DEF S!wishes
<1> DEFINE x == [command |-> c, expected |-> S!Seen(c), told |-> "nothing"]
<1>3. /\ x # S!NoWish /\ x.command = c /\ x.expected = S!Seen(c) /\ x.told = "nothing"
      /\ x = [command |-> x.command, expected |-> x.expected, told |-> x.told]
  BY RecordsAreNot
<1> HIDE DEF x
<1>4. /\ wish' = [v \in S!Wishes |-> wish'[v]] /\ wish'[w] = x
      /\ \A v \in S!Wishes \ {w} : wish'[v] = wish[v]
  BY <1>1 DEF ServiceInv, x
<1>5. revisions \in [S!RevisionState -> Nat] /\ granted \in [S!Wishes -> Nat] /\ granted[w] = 0
  BY <1>2 DEF ServiceInv
<1>6. S!Seen(c) \in [c.needs -> Nat] /\ \A r \in c.needs : S!Seen(c)[r] = revisions[r]
  BY <1>5, EveryCommandIsSound DEF S!Seen, Sound
<1>7. WishFits(w)'
  <2>1. /\ wish'[w] = [command |-> wish'[w].command, expected |-> wish'[w].expected,
                       told |-> wish'[w].told]
        /\ wish'[w].command = c /\ wish'[w].expected = S!Seen(c) /\ wish'[w].told = "nothing"
    BY <1>3, <1>4
  <2>2. \A r \in c.needs : S!Seen(c)[r] <= revisions'[r]
    BY <1>2, <1>5, <1>6, EveryCommandIsSound DEF Sound
  <2> QED BY <1>2, <1>5, <1>6, <2>1, <2>2 DEF WishFits
<1>8. \A v \in S!Wishes : WishFits(v)'
  <2>1. \A r \in S!RevisionState : revisions[r] <= revisions'[r]
    BY <1>2, <1>5
  <2> QED BY <1>2, <1>4, <1>5, <1>7, <2>1, WishIsKept DEF ServiceInv
<1>9. Persists
  BY <1>2, <1>4, <1>5 DEF Persists
<1>10. \A id \in S!Ids : ReceiptFits(id)'
  BY <1>2, <1>9, ReceiptIsKept DEF ServiceInv
<1>11. CallFits'
  <2>1. call # S!NoCall => call.wish \in S!Wishes /\ call.wish # w
    BY <1>2 DEF ServiceInv, CallFits
  <2>2. call # S!NoCall => wish'[call.wish] = wish[call.wish]
    BY <1>4, <2>1
  <2> QED
    BY <1>2, <2>2
    DEF ServiceInv, CallFits, S!AnswerIsRight, S!validate_response_header, S!TheCommand, S!Expected
<1>12. \A v \in S!Wishes : wish'[v] = S!NoWish => granted'[v] = 0
  BY <1>2, <1>3, <1>4 DEF ServiceInv
<1> QED BY <1>2, <1>4, <1>8, <1>10, <1>11, <1>12 DEF ServiceInv

LEMMA Step_looks_again == ServiceInv /\ (\E w \in S!Wishes : S!looks_again(w)) => ServiceInv'
<1> SUFFICES ASSUME ServiceInv, NEW w \in S!Wishes, S!looks_again(w) PROVE ServiceInv'
  OBVIOUS
<1>1. wish[w] # S!NoWish /\ call = S!NoCall /\ UNCHANGED <<revisions, receipts, call, granted>>
  BY DEF S!looks_again
<1> DEFINE c == wish[w].command
           e == IF granted[w] > 0 THEN wish[w].expected ELSE S!Seen(c)
           x == [command |-> c, expected |-> e,
                 told |-> IF granted[w] > 0 THEN "done" ELSE "nothing"]
<1>2. WishFits(w) /\ revisions \in [S!RevisionState -> Nat] /\ granted \in [S!Wishes -> Nat]
  BY DEF ServiceInv
<1>3. wish' = [wish EXCEPT ![w] = x]
  <2>1. CASE granted[w] > 0
    <3>1. [wish[w] EXCEPT !.told = "done"] = x
      BY <1>1, <1>2, <2>1 DEF WishFits
    <3> QED BY <2>1, <3>1 DEF S!looks_again
  <2>2. CASE ~(granted[w] > 0)
    BY <2>2 DEF S!looks_again
  <2> QED BY <2>1, <2>2
<1>4. /\ x # S!NoWish /\ x.command = c /\ x.expected = e
      /\ x.told = IF granted[w] > 0 THEN "done" ELSE "nothing"
      /\ x = [command |-> x.command, expected |-> x.expected, told |-> x.told]
  <2> HIDE DEF c, e
  <2> QED BY RecordsAreNot
<1> HIDE DEF x
<1>5. /\ wish' = [v \in S!Wishes |-> wish'[v]] /\ wish'[w] = x
      /\ \A v \in S!Wishes \ {w} : wish'[v] = wish[v]
  BY <1>3 DEF ServiceInv
<1>6. c \in S!Commands /\ c.needs \subseteq S!RevisionState
  BY <1>1, <1>2, EveryCommandIsSound DEF WishFits, Sound
<1>7. /\ e \in [c.needs -> Nat] /\ \A r \in c.needs : e[r] <= revisions[r]
      /\ granted[w] > 0 => \A r \in c.needs \cap c.moves : e[r] < revisions[r]
  <2>1. CASE granted[w] > 0
    BY <1>1, <1>2, <2>1 DEF WishFits
  <2>2. CASE ~(granted[w] > 0)
    <3>1. S!Seen(c) \in [c.needs -> Nat] /\ \A r \in c.needs : S!Seen(c)[r] = revisions[r]
      BY <1>2, <1>6 DEF S!Seen
    <3>2. e = S!Seen(c)
      BY <2>2
    <3>3. \A r \in c.needs : revisions[r] \in Nat
      BY <1>2, <1>6
    <3> HIDE DEF e
    <3> QED BY <2>2, <3>1, <3>2, <3>3
  <2> QED BY <2>1, <2>2
<1>8. S!OnceOnly(c) => granted[w] <= 1
  BY <1>1, <1>2 DEF WishFits
<1> HIDE DEF c, e
<1>9. WishFits(w)'
  <2>1. /\ wish'[w] = [command |-> wish'[w].command, expected |-> wish'[w].expected,
                       told |-> wish'[w].told]
        /\ wish'[w].command = c /\ wish'[w].expected = e
        /\ wish'[w].told = "done" => granted[w] > 0
    BY <1>4, <1>5
  <2>2. granted[w] \in Nat
    BY <1>2
  <2> QED BY <1>1, <1>6, <1>7, <1>8, <2>1, <2>2 DEF WishFits
<1>10. \A v \in S!Wishes : WishFits(v)'
  <2>1. \A r \in S!RevisionState : revisions[r] <= revisions'[r]
    BY <1>1, <1>2
  <2> QED BY <1>1, <1>2, <1>5, <1>9, <2>1, WishIsKept DEF ServiceInv
<1>11. Persists
  BY <1>1, <1>2, <1>4, <1>5 DEF Persists, c
<1>12. \A id \in S!Ids : ReceiptFits(id)'
  BY <1>1, <1>11, ReceiptIsKept DEF ServiceInv
<1>13. \A v \in S!Wishes : wish'[v] = S!NoWish => granted'[v] = 0
  BY <1>1, <1>4, <1>5 DEF ServiceInv
<1> QED BY <1>1, <1>2, <1>5, <1>10, <1>12, <1>13 DEF ServiceInv, CallFits

LEMMA Step_sends ==
    ServiceInv /\ (\E w \in S!Wishes, id \in S!Ids : S!sends(w, id)) => ServiceInv'
<1> SUFFICES ASSUME ServiceInv, NEW w \in S!Wishes, NEW id \in S!Ids, S!sends(w, id)
             PROVE  ServiceInv'
  OBVIOUS
<1>1. CallFits'
  BY DEF S!sends, CallFits
<1> QED BY <1>1, CallOnly DEF S!sends

\* The command under way, and what is known of it.
LEMMA Underway ==
    ASSUME ServiceInv, call # S!NoCall
    PROVE  /\ S!TheCommand \in S!Commands /\ Sound(S!TheCommand)
           /\ call.wish \in S!Wishes /\ call.id \in S!Ids /\ wish[call.wish] # S!NoWish
           /\ S!TheCommand = wish[call.wish].command /\ S!Expected = wish[call.wish].expected
           /\ S!Expected \in [S!TheCommand.needs -> Nat]
           /\ ReceiptFits(call.id) /\ WishFits(call.wish)
           /\ call = [wish |-> call.wish, id |-> call.id, at |-> call.at, answer |-> call.answer]
<1>1. call.wish \in S!Wishes /\ call.id \in S!Ids /\ wish[call.wish] # S!NoWish
  BY DEF ServiceInv, CallFits
<1>2. WishFits(call.wish) /\ ReceiptFits(call.id)
  BY <1>1 DEF ServiceInv
<1>3. wish[call.wish].command \in S!Commands
  BY <1>1, <1>2 DEF WishFits
<1>4. wish[call.wish].expected \in [wish[call.wish].command.needs -> Nat]
  BY <1>1, <1>2 DEF WishFits
<1>5. call = [wish |-> call.wish, id |-> call.id, at |-> call.at, answer |-> call.answer]
  BY DEF ServiceInv, CallFits
<1> QED BY <1>1, <1>2, <1>3, <1>4, <1>5, EveryCommandIsSound DEF S!TheCommand, S!Expected

LEMMA CallsAreAt == ASSUME NEW place, S!At(place), place # "no call" PROVE call # S!NoCall
<1>1. S!NoCall.at = "no call"
  BY DEF S!NoCall
<1> QED BY <1>1 DEF S!At

LEMMA Refused ==
    ASSUME ServiceInv, call # S!NoCall, NEW advice \in Advised, S!refuse(advice)
    PROVE  ServiceInv'
<1>1. advice # "done"
  BY DEF Advised
<1> QED BY <1>1, TellingKeeps DEF S!refuse

\* The port has its answer, and the answer is right.
LEMMA Answered ==
    ASSUME ServiceInv, call # S!NoCall, NEW given,
           call' = [call EXCEPT !.at = "answer", !.answer = given],
           UNCHANGED wish,
           given.id = call.id, Shows(S!TheCommand, S!Expected, given.revisions),
           S!TheCommand.writes => granted'[call.wish] >= 1
    PROVE  CallFits'
<1>1. PICK k, i : k = call.wish /\ i = call.id
  OBVIOUS
<1>2. call = [wish |-> k, id |-> i, at |-> call.at, answer |-> call.answer]
  BY <1>1, Underway
<1> DEFINE y == [call EXCEPT !.at = "answer"]
           u == [wish |-> k, id |-> i, at |-> "answer", answer |-> given]
<1>3. call' = u
  <2>1. y = [wish |-> k, id |-> i, at |-> "answer", answer |-> call.answer]
    BY <1>2
  <2>2. call' = [y EXCEPT !.answer = given]
    OBVIOUS
  <2> HIDE DEF y
  <2>3. [y EXCEPT !.answer = given] = u
    BY <2>1
  <2> QED BY <2>2, <2>3
<1>4. k \in S!Wishes /\ i \in S!Ids /\ wish[k] # S!NoWish
  BY <1>1, Underway
<1>5. /\ Shows(wish[k].command, wish[k].expected, given.revisions) /\ given.id = i
      /\ wish[k].command.writes => granted'[k] >= 1
  BY <1>1 DEF S!TheCommand, S!Expected
<1>6. call'.wish = k /\ call'.id = i /\ call'.at = "answer" /\ call'.answer = given
  <2>1. u.wish = k /\ u.id = i /\ u.at = "answer" /\ u.answer = given
    OBVIOUS
  <2> HIDE DEF u
  <2> QED BY <1>3, <2>1, Zenon
<1>7. S!AnswerIsRight'
  BY <1>5, <1>6 DEF S!AnswerIsRight, S!validate_response_header, S!TheCommand, S!Expected, Shows
<1>8. S!TheCommand' = wish[k].command
  BY <1>6 DEF S!TheCommand
<1> QED BY <1>3, <1>4, <1>5, <1>6, <1>7, <1>8 DEF CallFits

LEMMA Step_validate == ServiceInv /\ S!validate => ServiceInv'
<1> SUFFICES ASSUME ServiceInv, S!validate PROVE ServiceInv'
  OBVIOUS
<1>1. call # S!NoCall
  BY CallsAreAt DEF S!validate
<1>2. CASE S!refuse(S!Advice(S!invalid_request))
  BY <1>1, <1>2, Refused, AdviceIsAdvice
<1>3. CASE \E advice \in S!TheCommand.before : S!refuse(advice)
  BY <1>1, <1>3, Refused, Underway DEF Sound
<1>4. CASE S!To("port")
  <2>1. call' = [wish |-> call.wish, id |-> call.id, at |-> "port", answer |-> call.answer]
    BY <1>1, <1>4, Underway DEF S!To
  <2>2. CallFits'
    BY <1>1, <1>4, <2>1, Underway DEF CallFits, S!To
  <2> QED BY <1>4, <2>2, CallOnly DEF S!To
<1> QED BY <1>2, <1>3, <1>4 DEF S!validate

LEMMA Step_replay == ServiceInv /\ S!replay => ServiceInv'
<1> SUFFICES ASSUME ServiceInv, S!replay PROVE ServiceInv'
  OBVIOUS
<1>1. call # S!NoCall /\ receipts[call.id] # S!NoReceipt
  BY CallsAreAt DEF S!replay
<1> DEFINE stored == receipts[call.id]
<1>2. CASE S!refuse(S!TheCommand.conflict)
  BY <1>1, <1>2, Refused, Underway DEF Sound
<1>3. CASE \E advice \in stored.failure : S!refuse(advice)
  BY <1>1, <1>3, Refused, Underway DEF ReceiptFits
<1>4. CASE /\ stored.envelope = S!Envelope /\ stored.failure = {}
           /\ call' = [call EXCEPT !.at = "answer", !.answer = stored]
           /\ UNCHANGED <<revisions, receipts, wish, granted>>
  <2>1. stored.envelope.wish = call.wish /\ stored.envelope.expected = S!Expected
    BY <1>4 DEF S!Envelope
  <2>2. /\ stored.id = call.id /\ granted[stored.envelope.wish] >= 1
        /\ Shows(wish[stored.envelope.wish].command, stored.envelope.expected, stored.revisions)
    BY <1>1, <1>4, Underway DEF ReceiptFits
  <2>3. /\ stored.id = call.id /\ granted[call.wish] >= 1
        /\ Shows(S!TheCommand, S!Expected, stored.revisions)
    BY <2>1, <2>2 DEF S!TheCommand
  <2>4. CallFits'
    <3> HIDE DEF stored
    <3> QED BY <1>1, <1>4, <2>3, Answered
  <2> QED BY <1>4, <2>4, CallOnly
<1> QED BY <1>2, <1>3, <1>4 DEF S!replay

LEMMA Step_refusals == ServiceInv /\ (S!revision_changed \/ S!port_fails) => ServiceInv'
<1> SUFFICES ASSUME ServiceInv, S!revision_changed \/ S!port_fails PROVE ServiceInv'
  OBVIOUS
<1>1. call # S!NoCall
  BY CallsAreAt DEF S!revision_changed, S!Fresh, S!port_fails
<1>2. CASE S!revision_changed
  BY <1>1, <1>2, Refused, Underway DEF Sound, S!revision_changed
<1>3. CASE S!port_fails
  BY <1>1, <1>3, Refused, Underway DEF Sound, S!port_fails
<1> QED BY <1>2, <1>3

LEMMA Step_reads == ServiceInv /\ S!reads => ServiceInv'
<1> SUFFICES ASSUME ServiceInv, S!reads PROVE ServiceInv'
  OBVIOUS
<1>1. call # S!NoCall /\ ~S!TheCommand.writes /\ UNCHANGED <<revisions, receipts, wish, granted>>
  BY CallsAreAt DEF S!reads
<1> DEFINE given == [envelope |-> S!Envelope, id |-> call.id, revisions |-> revisions, failure |-> {}]
<1>2. call' = [call EXCEPT !.at = "answer", !.answer = given]
  BY DEF S!reads
<1>3. given.id = call.id /\ Shows(S!TheCommand, S!Expected, given.revisions)
  BY <1>1, Underway DEF Sound, Shows
<1> HIDE DEF given
<1>4. CallFits'
  BY <1>1, <1>2, <1>3, Answered
<1> QED BY <1>1, <1>4, CallOnly

LEMMA Step_answer == ServiceInv /\ S!answer => ServiceInv'
<1> SUFFICES ASSUME ServiceInv, S!answer PROVE ServiceInv'
  OBVIOUS
<1>1. call # S!NoCall /\ call.at = "answer"
  BY CallsAreAt DEF S!answer, S!At
<1>2. S!AnswerIsRight /\ (S!TheCommand.writes => granted[call.wish] >= 1)
  BY <1>1 DEF ServiceInv, CallFits
<1> QED BY <1>1, <1>2, TellingKeeps DEF S!answer

LEMMA Step_ServiceCrash == ServiceInv /\ S!Crash => ServiceInv'
<1> SUFFICES ASSUME ServiceInv, S!Crash PROVE ServiceInv'
  OBVIOUS
<1>1. CallFits'
  BY DEF S!Crash, CallFits
<1> QED BY <1>1, CallOnly DEF S!Crash

\* What is stored: the other receipts are as they were.
LEMMA Stored ==
    ASSUME ServiceInv, call # S!NoCall, NEW given, S!Stores(given)
    PROVE  /\ receipts' = [id \in S!Ids |-> receipts'[id]]
           /\ call.id \in S!Ids /\ receipts'[call.id] = given
           /\ \A id \in S!Ids \ {call.id} : receipts'[id] = receipts[id]
<1>1. call.id \in S!Ids /\ receipts = [id \in S!Ids |-> receipts[id]]
  BY Underway DEF ServiceInv
<1>2. receipts' = [receipts EXCEPT ![call.id] = given]
  BY DEF S!Stores
<1> QED BY <1>1, <1>2

LEMMA Step_record_failure == ServiceInv /\ S!record_failure => ServiceInv'
<1> SUFFICES ASSUME ServiceInv, S!record_failure PROVE ServiceInv'
  OBVIOUS
<1>1. call # S!NoCall
  BY CallsAreAt DEF S!record_failure, S!Fresh
<1>2. PICK advice \in S!TheCommand.during :
        /\ S!Stores([envelope |-> S!Envelope, id |-> call.id, revisions |-> revisions,
                     failure |-> {advice}])
        /\ S!tells(advice)
  BY DEF S!record_failure
<1>3. advice \in Advised /\ advice # "done"
  BY <1>1, Underway DEF Sound, Advised
<1>4. UNCHANGED granted /\ revisions' = [revisions EXCEPT !["evidence"] = @ + 1]
  BY DEF S!record_failure
<1>5. /\ revisions \in [S!RevisionState -> Nat] /\ granted \in [S!Wishes -> Nat]
      /\ \A id \in S!Ids : ReceiptFits(id)
  BY DEF ServiceInv
<1>6. /\ revisions' \in [S!RevisionState -> Nat]
      /\ \A r \in S!RevisionState : revisions[r] <= revisions'[r]
  <2>1. "evidence" \in S!RevisionState
    BY DEF S!RevisionState
  <2> QED BY <1>4, <1>5, <2>1
<1>7. Persists /\ \A w \in S!Wishes : WishFits(w)'
  BY <1>1, <1>2, <1>3, <1>4, <1>6, ToldFits
<1> DEFINE given == [envelope |-> S!Envelope, id |-> call.id, revisions |-> revisions,
                     failure |-> {advice}]
<1>8. /\ given.id = call.id /\ given.envelope.wish = call.wish /\ given.failure = {advice}
  BY DEF S!Envelope
<1>9. S!Stores(given)
  BY <1>2
<1> HIDE DEF given
<1>10. \A id \in S!Ids : ReceiptFits(id)'
  <2>1. ASSUME NEW id \in S!Ids, id # call.id PROVE ReceiptFits(id)'
    BY <1>1, <1>5, <1>7, <1>9, <2>1, Stored, ReceiptIsKept
  <2>2. ASSUME NEW id \in S!Ids, id = call.id PROVE ReceiptFits(id)'
    <3>1. receipts'[id] = given
      BY <1>1, <1>9, <2>2, Stored
    <3>2. call.wish \in S!Wishes /\ wish'[call.wish] # S!NoWish
      BY <1>1, <1>7, Underway DEF Persists
    <3> QED BY <1>3, <1>8, <2>2, <3>1, <3>2 DEF ReceiptFits
  <2> QED BY <2>1, <2>2
<1>11. CallFits' /\ wish' = [w \in S!Wishes |-> wish'[w]]
  BY <1>1, <1>2, Told DEF CallFits
<1>12. receipts' = [id \in S!Ids |-> receipts'[id]]
  BY <1>1, <1>9, Stored
<1>13. \A w \in S!Wishes : wish'[w] = S!NoWish => granted'[w] = 0
  BY <1>4, <1>7 DEF ServiceInv, Persists
<1> QED BY <1>4, <1>5, <1>6, <1>7, <1>10, <1>11, <1>12, <1>13 DEF ServiceInv

LEMMA Step_perform == ServiceInv /\ S!perform => ServiceInv'
<1> SUFFICES ASSUME ServiceInv, S!perform PROVE ServiceInv'
  OBVIOUS
<1>1. call # S!NoCall /\ S!Current /\ UNCHANGED wish
  BY CallsAreAt DEF S!perform, S!Fresh
<1> DEFINE c == S!TheCommand
           e == S!Expected
           given == [envelope |-> S!Envelope, id |-> call.id, revisions |-> revisions',
                     failure |-> {}]
<1>2. /\ revisions' = [r \in S!RevisionState |-> revisions[r] + IF r \in c.moves THEN 1 ELSE 0]
      /\ S!Stores(given) /\ call' = [call EXCEPT !.at = "answer", !.answer = given]
      /\ granted' = [granted EXCEPT ![call.wish] = @ + 1]
  BY DEF S!perform
<1>3. PICK k : k = call.wish
  OBVIOUS
<1>4. /\ k \in S!Wishes /\ wish[k] # S!NoWish /\ WishFits(k) /\ Sound(c)
      /\ c = wish[k].command /\ e = wish[k].expected /\ e \in [c.needs -> Nat]
  BY <1>1, <1>3, Underway
<1>5. /\ revisions \in [S!RevisionState -> Nat] /\ granted \in [S!Wishes -> Nat]
      /\ \A id \in S!Ids : ReceiptFits(id)
      /\ \A w \in S!Wishes : WishFits(w)
  BY DEF ServiceInv
<1>6. \A r \in c.needs : e[r] = revisions[r]
  BY <1>1 DEF S!Current
<1>7. /\ given.id = call.id /\ given.envelope.wish = k /\ given.failure = {}
      /\ given.envelope.expected = e /\ given.revisions = revisions'
  BY <1>3 DEF S!Envelope
<1> HIDE DEF c, e, given
<1>8. /\ revisions' \in [S!RevisionState -> Nat]
      /\ \A r \in S!RevisionState : /\ revisions[r] <= revisions'[r]
                                    /\ r \in c.moves => revisions[r] < revisions'[r]
  BY <1>2, <1>5
<1>9. /\ granted' \in [S!Wishes -> Nat] /\ granted'[k] = granted[k] + 1
      /\ \A w \in S!Wishes \ {k} : granted'[w] = granted[w]
  BY <1>2, <1>3, <1>4, <1>5
<1>10. WishFits(k)'
  <2>1. \A r \in c.needs : revisions[r] \in Nat /\ revisions'[r] \in Nat /\ e[r] <= revisions'[r]
    BY <1>4, <1>5, <1>6, <1>8 DEF Sound
  <2>2. \A r \in c.needs \cap c.moves : e[r] < revisions'[r]
    BY <1>4, <1>6, <1>8 DEF Sound
  <2>3. ASSUME S!OnceOnly(c) PROVE granted[k] = 0
    <3>1. PICK r \in c.needs : r \in c.moves
      BY <2>3 DEF S!OnceOnly
    <3>2. ~(granted[k] > 0)
      <4> SUFFICES ASSUME granted[k] > 0 PROVE FALSE
        OBVIOUS
      <4>1. e[r] < revisions[r]
        BY <1>4, <3>1 DEF WishFits
      <4> QED BY <1>6, <2>1, <3>1, <4>1
    <3> QED BY <1>4, <1>5, <3>2
  <2>4. S!OnceOnly(c) => granted'[k] <= 1
    BY <1>9, <2>3
  <2>5. granted'[k] >= 1
    BY <1>4, <1>5, <1>9
  <2>6. c = wish'[k].command /\ e = wish'[k].expected /\ wish'[k] = wish[k]
    BY <1>1, <1>4
  <2> QED BY <1>4, <2>1, <2>2, <2>4, <2>5, <2>6 DEF WishFits
<1>11. \A w \in S!Wishes : WishFits(w)'
  BY <1>1, <1>5, <1>8, <1>9, <1>10, WishIsKept
<1>12. Persists
  <2>1. \A w \in S!Wishes : granted[w] \in Nat /\ granted'[w] \in Nat /\ granted[w] <= granted'[w]
    BY <1>4, <1>5, <1>9
  <2> QED BY <1>1, <2>1 DEF Persists
<1>13. Shows(c, e, revisions')
  <2>1. \A r \in c.checks : r \in c.needs /\ r \in S!RevisionState
    BY <1>4 DEF Sound
  <2> QED BY <1>2, <1>6, <2>1 DEF Shows
<1>14. \A id \in S!Ids : ReceiptFits(id)'
  <2>1. ASSUME NEW id \in S!Ids, id # call.id PROVE ReceiptFits(id)'
    BY <1>1, <1>2, <1>5, <1>12, <2>1, Stored, ReceiptIsKept
  <2>2. ASSUME NEW id \in S!Ids, id = call.id PROVE ReceiptFits(id)'
    <3>1. receipts'[id] = given
      BY <1>1, <1>2, <2>2, Stored
    <3>2. wish'[k] = wish[k] /\ granted'[k] >= 1
      BY <1>1, <1>4, <1>5, <1>9
    <3> QED BY <1>4, <1>7, <1>13, <2>2, <3>1, <3>2 DEF ReceiptFits, Shows
  <2> QED BY <2>1, <2>2
<1>15. CallFits'
  <2>1. Shows(S!TheCommand, S!Expected, given.revisions)
    BY <1>7, <1>13 DEF c, e
  <2>2. granted'[call.wish] >= 1
    BY <1>3, <1>4, <1>5, <1>9
  <2> QED BY <1>1, <1>2, <1>7, <2>1, <2>2, Answered
<1>16. receipts' = [id \in S!Ids |-> receipts'[id]]
  BY <1>1, <1>2, Stored
<1>17. \A w \in S!Wishes : wish'[w] = S!NoWish => granted'[w] = 0
  BY <1>1, <1>4, <1>9 DEF ServiceInv
<1>18. wish' = [w \in S!Wishes |-> wish'[w]]
  BY <1>1 DEF ServiceInv
<1> QED BY <1>8, <1>9, <1>11, <1>14, <1>15, <1>16, <1>17, <1>18 DEF ServiceInv

LEMMA ServiceKept ==
    ASSUME ServiceInv, UNCHANGED serviceVars
    PROVE  ServiceInv'
<1>1. UNCHANGED <<revisions, receipts, wish, call, granted>>
  BY DEF serviceVars
<1>2. CallFits'
  BY <1>1
  DEF ServiceInv, CallFits, S!AnswerIsRight, S!validate_response_header, S!TheCommand, S!Expected
<1> QED BY <1>1, <1>2, CallOnly

LEMMA ServiceSteps == ServiceInv /\ S!Next => ServiceInv'
  BY Step_wishes, Step_looks_again, Step_sends, Step_validate, Step_replay, Step_refusals,
     Step_perform, Step_record_failure, Step_reads, Step_answer, Step_ServiceCrash
  DEF S!Next

\* However often a wish is tried, under whatever ids and whatever answers were lost: it is
\* granted once, the user is told so only if it was, and no answer to what was done fails
\* the checks (service.rs, command_receipts).
THEOREM WishesStayGrantedOnce == SpecGates => []S!WishesAreGrantedOnce
<1>1. InitGates => ServiceInv
  BY ServiceInitially DEF InitGates
<1>2. ServiceInv /\ [NextGates]_allVars => ServiceInv'
  <2>1. NextGates => S!Next \/ UNCHANGED serviceVars
    BY DEF NextGates
  <2>2. UNCHANGED allVars => UNCHANGED serviceVars
    BY DEF allVars
  <2> QED BY <2>1, <2>2, ServiceSteps, ServiceKept
<1>3. ServiceInv => S!WishesAreGrantedOnce
  <2> SUFFICES ASSUME ServiceInv PROVE S!WishesAreGrantedOnce
    OBVIOUS
  <2>1. S!At("answer") => S!AnswerIsRight
    BY CallsAreAt DEF ServiceInv, CallFits, S!At
  <2> QED BY <2>1 DEF ServiceInv, WishFits, S!WishesAreGrantedOnce
<1> QED BY <1>1, <1>2, <1>3, PTL DEF SpecGates

-----------------------------------------------------------------------------
(* A recommendation.  Each call in the transcript has an id of its own, and  *)
(* its one result follows it or waits to be sent.                           *)

TranscriptEntry == [is : {"reasoning", "call", "output"}, call : SUBSET Nat]
CallsOf(s) == {i \in DOMAIN s : s[i].is = "call"}
OutputsOf(s) == {i \in DOMAIN s : s[i].is = "output"}

\* t is sent or to be sent, o holds the results that wait, and the calls have ids of ids.
Transcribed(t, o, ids) ==
    /\ t \in Seq(TranscriptEntry) /\ o \in Seq(TranscriptEntry)
    /\ \A i \in CallsOf(t) : \E id \in ids : t[i].call = {id}
    /\ \A i, j \in CallsOf(t) : t[i].call = t[j].call => i = j
    /\ \A j \in OutputsOf(t) : \E i \in CallsOf(t) : i < j /\ t[i].call = t[j].call
    /\ \A i, j \in OutputsOf(t) : t[i].call = t[j].call => i = j
    /\ \A n \in DOMAIN o : o[n].is = "output" /\ \E i \in CallsOf(t) : t[i].call = o[n].call
    /\ \A n, m \in DOMAIN o : o[n].call = o[m].call => n = m
    /\ \A n \in DOMAIN o, j \in OutputsOf(t) : o[n].call # t[j].call
    /\ \A i \in CallsOf(t) : \/ \E j \in OutputsOf(t) : t[j].call = t[i].call
                             \/ \E n \in DOMAIN o : o[n].call = t[i].call

LEMMA Appended ==
    ASSUME NEW t \in Seq(TranscriptEntry), NEW e \in TranscriptEntry
    PROVE  /\ Append(t, e) \in Seq(TranscriptEntry)
           /\ DOMAIN Append(t, e) = DOMAIN t \cup {Len(t) + 1}
           /\ Len(t) + 1 \notin DOMAIN t
           /\ \A i \in DOMAIN t : Append(t, e)[i] = t[i] /\ i < Len(t) + 1
           /\ Append(t, e)[Len(t) + 1] = e
           /\ CallsOf(Append(t, e)) = CallsOf(t) \cup (IF e.is = "call" THEN {Len(t) + 1} ELSE {})
           /\ OutputsOf(Append(t, e)) =
                OutputsOf(t) \cup (IF e.is = "output" THEN {Len(t) + 1} ELSE {})
<1>1. /\ Append(t, e) \in Seq(TranscriptEntry)
      /\ DOMAIN Append(t, e) = DOMAIN t \cup {Len(t) + 1}
      /\ Len(t) + 1 \notin DOMAIN t
      /\ \A i \in DOMAIN t : Append(t, e)[i] = t[i] /\ i < Len(t) + 1
      /\ Append(t, e)[Len(t) + 1] = e
  <2>1. /\ Len(t) \in Nat /\ DOMAIN t = 1 .. Len(t)
        /\ DOMAIN Append(t, e) = 1 .. Len(t) + 1
    BY AppendProperties
  <2> QED BY <2>1, AppendProperties
<1> DEFINE s == Append(t, e)
           l == Len(t) + 1
<1> HIDE DEF s, l
<1>2. /\ DOMAIN s = DOMAIN t \cup {l} /\ \A i \in DOMAIN t : s[i] = t[i] /\ s[l] = e
      /\ s[l] = e
  BY <1>1 DEF s, l
<1>3. /\ CallsOf(s) = CallsOf(t) \cup (IF e.is = "call" THEN {l} ELSE {})
      /\ OutputsOf(s) = OutputsOf(t) \cup (IF e.is = "output" THEN {l} ELSE {})
  BY <1>2 DEF CallsOf, OutputsOf
<1> QED BY <1>1, <1>3 DEF s, l

LEMMA ReasoningTranscribed ==
    ASSUME NEW t, NEW o, NEW ids, Transcribed(t, o, ids), NEW e \in TranscriptEntry,
           e.is = "reasoning"
    PROVE  /\ Transcribed(Append(t, e), o, ids)
           /\ CallsOf(Append(t, e)) = CallsOf(t)
<1> DEFINE s == Append(t, e)
<1>1. t \in Seq(TranscriptEntry) /\ o \in Seq(TranscriptEntry)
  BY DEF Transcribed
<1>2. /\ s \in Seq(TranscriptEntry) /\ CallsOf(s) = CallsOf(t) /\ OutputsOf(s) = OutputsOf(t)
      /\ \A i \in DOMAIN t : s[i] = t[i]
  <2>1. /\ s \in Seq(TranscriptEntry) /\ \A i \in DOMAIN t : s[i] = t[i]
        /\ CallsOf(s) = CallsOf(t) \cup (IF e.is = "call" THEN {Len(t) + 1} ELSE {})
        /\ OutputsOf(s) = OutputsOf(t) \cup (IF e.is = "output" THEN {Len(t) + 1} ELSE {})
    <3>1. s \in Seq(TranscriptEntry)
      BY <1>1, Appended
    <3>2. \A i \in DOMAIN t : s[i] = t[i]
      BY <1>1, Appended
    <3>3. CallsOf(s) = CallsOf(t) \cup (IF e.is = "call" THEN {Len(t) + 1} ELSE {})
      BY <1>1, Appended
    <3>4. OutputsOf(s) = OutputsOf(t) \cup (IF e.is = "output" THEN {Len(t) + 1} ELSE {})
      BY <1>1, Appended
    <3> QED BY <3>1, <3>2, <3>3, <3>4
  <2> HIDE DEF s
  <2> QED BY <2>1
<1>3. /\ \A i \in CallsOf(t) : s[i] = t[i]
      /\ \A i \in OutputsOf(t) : s[i] = t[i]
  BY <1>2 DEF CallsOf, OutputsOf
<1> HIDE DEF s
<1>4. Transcribed(s, o, ids)
  <2>1. /\ \A i \in CallsOf(s) : \E id \in ids : s[i].call = {id}
        /\ \A i, j \in CallsOf(s) : s[i].call = s[j].call => i = j
    BY <1>2, <1>3 DEF Transcribed
  <2>2. \A j \in OutputsOf(s) : \E i \in CallsOf(s) : i < j /\ s[i].call = s[j].call
    BY <1>2, <1>3 DEF Transcribed
  <2>3. \A i, j \in OutputsOf(s) : s[i].call = s[j].call => i = j
    BY <1>2, <1>3 DEF Transcribed
  <2>4. /\ \A n \in DOMAIN o : o[n].is = "output" /\ \E i \in CallsOf(s) : s[i].call = o[n].call
        /\ \A n, m \in DOMAIN o : o[n].call = o[m].call => n = m
    BY <1>2, <1>3 DEF Transcribed
  <2>5. \A n \in DOMAIN o, j \in OutputsOf(s) : o[n].call # s[j].call
    BY <1>2, <1>3 DEF Transcribed
  <2>6. \A i \in CallsOf(s) : \/ \E j \in OutputsOf(s) : s[j].call = s[i].call
                              \/ \E n \in DOMAIN o : o[n].call = s[i].call
    BY <1>2, <1>3 DEF Transcribed
  <2> QED BY <1>1, <1>2, <2>1, <2>2, <2>3, <2>4, <2>5, <2>6 DEF Transcribed
<1> QED BY <1>2, <1>4 DEF s

LEMMA CallTranscribed ==
    ASSUME NEW t, NEW o, NEW ids \in SUBSET Nat, Transcribed(t, o, ids),
           NEW id \in Nat, id \notin ids
    PROVE  /\ Transcribed(Append(t, [is |-> "call", call |-> {id}]),
                          Append(o, [is |-> "output", call |-> {id}]), ids \cup {id})
           /\ CallsOf(Append(t, [is |-> "call", call |-> {id}])) = CallsOf(t) \cup {Len(t) + 1}
           /\ Len(t) + 1 \notin CallsOf(t)
<1> DEFINE c == [is |-> "call", call |-> {id}]
           r == [is |-> "output", call |-> {id}]
           s == Append(t, c)
           q == Append(o, r)
           l == Len(t) + 1
           k == Len(o) + 1
<1>1. t \in Seq(TranscriptEntry) /\ o \in Seq(TranscriptEntry)
  BY DEF Transcribed
<1>2. /\ c \in TranscriptEntry /\ c.is = "call" /\ c.call = {id}
      /\ r \in TranscriptEntry /\ r.is = "output" /\ r.call = {id}
  BY DEF TranscriptEntry
<1> HIDE DEF c, r
<1>3. /\ s \in Seq(TranscriptEntry) /\ CallsOf(s) = CallsOf(t) \cup {l}
      /\ OutputsOf(s) = OutputsOf(t) /\ l \notin DOMAIN t /\ s[l] = c
      /\ \A i \in DOMAIN t : s[i] = t[i] /\ i < l
  <2>1. c.is # "output"
    BY <1>2
  <2>2. /\ s \in Seq(TranscriptEntry) /\ l \notin DOMAIN t /\ s[l] = c
        /\ \A i \in DOMAIN t : s[i] = t[i] /\ i < l
        /\ CallsOf(s) = CallsOf(t) \cup (IF c.is = "call" THEN {l} ELSE {})
        /\ OutputsOf(s) = OutputsOf(t) \cup (IF c.is = "output" THEN {l} ELSE {})
    BY <1>1, <1>2, Appended
  <2> HIDE DEF s, l
  <2> QED BY <1>2, <2>1, <2>2
<1>4. /\ q \in Seq(TranscriptEntry) /\ DOMAIN q = DOMAIN o \cup {k} /\ k \notin DOMAIN o
      /\ q[k] = r /\ \A n \in DOMAIN o : q[n] = o[n]
  BY <1>1, <1>2, Appended
<1> HIDE DEF s, q, l, k
<1>5. /\ \A i \in CallsOf(t) : i \in DOMAIN t /\ s[i] = t[i] /\ i < l
      /\ \A i \in OutputsOf(t) : i \in DOMAIN t /\ s[i] = t[i]
      /\ l \notin CallsOf(t)
  BY <1>3 DEF CallsOf, OutputsOf
<1>6. /\ \A i \in CallsOf(t) : t[i].call # {id}
      /\ \A j \in OutputsOf(t) : t[j].call # {id}
      /\ \A n \in DOMAIN o : o[n].call # {id}
  <2>1. \A x \in ids : {x} # {id}
    OBVIOUS
  <2>2. \A i \in CallsOf(t) : t[i].call # {id}
    <3> SUFFICES ASSUME NEW i \in CallsOf(t) PROVE t[i].call # {id}
      OBVIOUS
    <3>1. PICK x \in ids : t[i].call = {x}
      BY DEF Transcribed
    <3> QED BY <2>1, <3>1
  <2>3. \A j \in OutputsOf(t) : \E i \in CallsOf(t) : t[i].call = t[j].call
    BY DEF Transcribed
  <2>4. \A n \in DOMAIN o : \E i \in CallsOf(t) : t[i].call = o[n].call
    BY DEF Transcribed
  <2> QED BY <2>2, <2>3, <2>4
<1>7. \A i \in CallsOf(s) : \E x \in ids \cup {id} : s[i].call = {x}
  <2>1. \A i \in CallsOf(t) : \E x \in ids : s[i].call = {x}
    BY <1>5 DEF Transcribed
  <2> QED BY <1>2, <1>3, <2>1
<1>8. \A i, j \in CallsOf(s) : s[i].call = s[j].call => i = j
  <2>1. \A i, j \in CallsOf(t) : s[i].call = s[j].call => i = j
    BY <1>5 DEF Transcribed
  <2>2. \A i \in CallsOf(t) : s[i].call # s[l].call
    BY <1>2, <1>3, <1>5, <1>6
  <2> QED BY <1>3, <2>1, <2>2
<1>9. \A j \in OutputsOf(s) : \E i \in CallsOf(s) : i < j /\ s[i].call = s[j].call
  <2>1. \A j \in OutputsOf(t) : \E i \in CallsOf(t) : i < j /\ t[i].call = t[j].call
    BY DEF Transcribed
  <2> QED BY <1>3, <1>5, <2>1
<1>10. \A i, j \in OutputsOf(s) : s[i].call = s[j].call => i = j
  <2>1. \A i, j \in OutputsOf(t) : t[i].call = t[j].call => i = j
    BY DEF Transcribed
  <2> QED BY <1>3, <1>5, <2>1
<1>11. \A n \in DOMAIN q : q[n].is = "output" /\ \E i \in CallsOf(s) : s[i].call = q[n].call
  <2>1. ASSUME NEW n \in DOMAIN o
        PROVE  q[n].is = "output" /\ \E i \in CallsOf(s) : s[i].call = q[n].call
    BY <1>3, <1>4, <1>5 DEF Transcribed
  <2>2. q[k].is = "output" /\ s[l].call = q[k].call
    BY <1>2, <1>3, <1>4
  <2> QED BY <1>3, <1>4, <2>1, <2>2
<1>12. \A n, m \in DOMAIN q : q[n].call = q[m].call => n = m
  BY <1>2, <1>4, <1>6 DEF Transcribed
<1>13. \A n \in DOMAIN q, j \in OutputsOf(s) : q[n].call # s[j].call
  BY <1>2, <1>3, <1>4, <1>5, <1>6 DEF Transcribed
<1>14. \A i \in CallsOf(s) : \/ \E j \in OutputsOf(s) : s[j].call = s[i].call
                             \/ \E n \in DOMAIN q : q[n].call = s[i].call
  <2>1. ASSUME NEW i \in CallsOf(t)
        PROVE  \/ \E j \in OutputsOf(s) : s[j].call = s[i].call
               \/ \E n \in DOMAIN q : q[n].call = s[i].call
    <3>1. CASE \E j \in OutputsOf(t) : t[j].call = t[i].call
      BY <1>3, <1>5, <3>1
    <3>2. CASE \E n \in DOMAIN o : o[n].call = t[i].call
      BY <1>4, <1>5, <3>2
    <3> QED BY <3>1, <3>2 DEF Transcribed
  <2>2. q[k].call = s[l].call /\ k \in DOMAIN q
    BY <1>2, <1>3, <1>4
  <2> QED BY <1>3, <2>1, <2>2
<1>15. Transcribed(s, q, ids \cup {id})
  BY <1>3, <1>4, <1>7, <1>8, <1>9, <1>10, <1>11, <1>12, <1>13, <1>14 DEF Transcribed
<1> QED BY <1>3, <1>5, <1>15 DEF s, q, l, c, r

LEMMA ResultsTranscribed ==
    ASSUME NEW t, NEW o, NEW ids, Transcribed(t, o, ids)
    PROVE  Transcribed(t \o o, <<>>, ids) /\ CallsOf(t \o o) = CallsOf(t)
<1> DEFINE s == t \o o
           l == Len(t)
<1>1. t \in Seq(TranscriptEntry) /\ o \in Seq(TranscriptEntry) /\ l \in Nat
  BY DEF Transcribed
<1>2. /\ DOMAIN t = 1 .. l /\ DOMAIN o = 1 .. Len(o) /\ DOMAIN s = 1 .. l + Len(o)
      /\ Len(o) \in Nat /\ s \in Seq(TranscriptEntry)
      /\ \A i \in DOMAIN t : s[i] = t[i]
      /\ \A i \in 1 .. l + Len(o) : i > l => s[i] = o[i - l]
  BY <1>1, ConcatProperties
<1> HIDE DEF s, l
<1>3. \A n \in DOMAIN o : l + n \in DOMAIN s /\ s[l + n] = o[n] /\ l + n \notin DOMAIN t
  BY <1>1, <1>2
<1>4. \A i \in DOMAIN s : i \in DOMAIN t \/ \E n \in DOMAIN o : i = l + n
  <2> SUFFICES ASSUME NEW i \in DOMAIN s, i \notin DOMAIN t PROVE i - l \in DOMAIN o /\ i = l + (i - l)
    OBVIOUS
  <2> QED BY <1>1, <1>2
<1>5. DOMAIN t \subseteq DOMAIN s
  BY <1>1, <1>2
<1>6. CallsOf(s) = CallsOf(t)
  BY <1>2, <1>3, <1>4, <1>5 DEF CallsOf, Transcribed
<1>7. OutputsOf(s) = OutputsOf(t) \cup {l + n : n \in DOMAIN o}
  BY <1>2, <1>3, <1>4, <1>5 DEF OutputsOf, Transcribed
<1>8. /\ \A i \in CallsOf(t) : s[i] = t[i] /\ i \in 1 .. l
      /\ \A i \in OutputsOf(t) : s[i] = t[i] /\ i \in 1 .. l
  BY <1>2 DEF CallsOf, OutputsOf
<1>9. \A j \in OutputsOf(s) : \E i \in CallsOf(s) : i < j /\ s[i].call = s[j].call
  <2>1. ASSUME NEW j \in OutputsOf(t) PROVE \E i \in CallsOf(s) : i < j /\ s[i].call = s[j].call
    BY <1>6, <1>8 DEF Transcribed
  <2>2. ASSUME NEW n \in DOMAIN o
        PROVE  \E i \in CallsOf(s) : i < l + n /\ s[i].call = s[l + n].call
    <3>1. PICK i \in CallsOf(t) : t[i].call = o[n].call
      BY DEF Transcribed
    <3>2. i < l + n
      BY <1>1, <1>2, <1>8
    <3> QED BY <1>3, <1>6, <1>8, <3>1, <3>2
  <2> QED BY <1>7, <2>1, <2>2
<1>10. \A i, j \in OutputsOf(s) : s[i].call = s[j].call => i = j
  <2>1. \A i, j \in OutputsOf(t) : s[i].call = s[j].call => i = j
    BY <1>8 DEF Transcribed
  <2>2. \A i \in OutputsOf(t), n \in DOMAIN o : s[i].call # s[l + n].call
    BY <1>3, <1>8 DEF Transcribed
  <2>3. \A n, m \in DOMAIN o : s[l + n].call = s[l + m].call => l + n = l + m
    BY <1>3 DEF Transcribed
  <2> QED BY <1>7, <2>1, <2>2, <2>3
<1>11. \A i \in CallsOf(s) : \E j \in OutputsOf(s) : s[j].call = s[i].call
  <2> SUFFICES ASSUME NEW i \in CallsOf(t) PROVE \E j \in OutputsOf(s) : s[j].call = s[i].call
    BY <1>6
  <2>1. CASE \E j \in OutputsOf(t) : t[j].call = t[i].call
    BY <1>7, <1>8, <2>1
  <2>2. CASE \E n \in DOMAIN o : o[n].call = t[i].call
    BY <1>3, <1>7, <1>8, <2>2
  <2> QED BY <2>1, <2>2 DEF Transcribed
<1>12. <<>> \in Seq(TranscriptEntry) /\ DOMAIN <<>> = {}
  OBVIOUS
<1>13. /\ \A i \in CallsOf(s) : \E id \in ids : s[i].call = {id}
       /\ \A i, j \in CallsOf(s) : s[i].call = s[j].call => i = j
  BY <1>6, <1>8 DEF Transcribed
<1>14. Transcribed(s, <<>>, ids)
  BY <1>2, <1>9, <1>10, <1>11, <1>12, <1>13 DEF Transcribed
<1> QED BY <1>6, <1>14 DEF s

LEMMA TranscriptCounts ==
    ASSUME NEW t \in Seq(TranscriptEntry)
    PROVE  /\ IsFiniteSet(CallsOf(t)) /\ Cardinality(CallsOf(t)) \in Nat
           /\ Len(t) + 1 \notin CallsOf(t)
           /\ Cardinality(CallsOf(t) \cup {Len(t) + 1}) = Cardinality(CallsOf(t)) + 1
<1>1. IsFiniteSet(CallsOf(t))
  <2>1. IsFiniteSet(1 .. Len(t))
    BY FS_Interval
  <2>2. CallsOf(t) \subseteq 1 .. Len(t)
    BY DEF CallsOf
  <2> QED BY <2>1, <2>2, FS_Subset
<1>2. Len(t) + 1 \notin CallsOf(t)
  BY DEF CallsOf
<1> QED BY <1>1, <1>2, FS_CardinalityType, FS_AddElement

LEMMA TranscriptIsPaired ==
    ASSUME NEW t, NEW ids, Transcribed(t, <<>>, ids)
    PROVE  /\ \A i \in CallsOf(t) :
                Cardinality({j \in OutputsOf(t) : j > i /\ t[i].call = t[j].call}) = 1
           /\ Cardinality(CallsOf(t)) = Cardinality(OutputsOf(t))
<1>1. \A i \in CallsOf(t) : \E j \in OutputsOf(t) : t[j].call = t[i].call
  <2>1. DOMAIN <<>> = {}
    OBVIOUS
  <2> QED BY <2>1 DEF Transcribed
<1>2. t \in Seq(TranscriptEntry) /\ CallsOf(t) \subseteq Nat /\ OutputsOf(t) \subseteq Nat
  <2>1. t \in Seq(TranscriptEntry)
    BY DEF Transcribed
  <2> QED BY <2>1 DEF CallsOf, OutputsOf
<1>3. \A i \in CallsOf(t), j \in OutputsOf(t) : t[j].call = t[i].call => j > i
  <2> SUFFICES ASSUME NEW i \in CallsOf(t), NEW j \in OutputsOf(t), t[j].call = t[i].call
               PROVE  j > i
    OBVIOUS
  <2>1. PICK k \in CallsOf(t) : k < j /\ t[k].call = t[j].call
    BY DEF Transcribed
  <2>2. k = i
    BY <2>1 DEF Transcribed
  <2> QED BY <1>2, <2>1, <2>2
<1>4. ASSUME NEW i \in CallsOf(t)
      PROVE  Cardinality({j \in OutputsOf(t) : j > i /\ t[i].call = t[j].call}) = 1
  <2>1. PICK k \in OutputsOf(t) : t[k].call = t[i].call
    BY <1>1
  <2>2. \A j \in OutputsOf(t) : t[i].call = t[j].call => j = k
    BY <2>1 DEF Transcribed
  <2>3. {j \in OutputsOf(t) : j > i /\ t[i].call = t[j].call} = {k}
    BY <1>3, <2>1, <2>2
  <2> QED BY <2>3, FS_Singleton
<1>5. Cardinality(CallsOf(t)) = Cardinality(OutputsOf(t))
  <2> DEFINE f == [i \in CallsOf(t) |-> CHOOSE j \in OutputsOf(t) : t[j].call = t[i].call]
  <2>1. \A i \in CallsOf(t) : f[i] \in OutputsOf(t) /\ t[f[i]].call = t[i].call
    BY <1>1
  <2>2. f \in [CallsOf(t) -> OutputsOf(t)]
    BY <2>1
  <2> HIDE DEF f
  <2>3. \A i, j \in CallsOf(t) : f[i] = f[j] => i = j
    <3> SUFFICES ASSUME NEW i \in CallsOf(t), NEW j \in CallsOf(t), f[i] = f[j] PROVE i = j
      OBVIOUS
    <3>1. t[i].call = t[j].call
      BY <2>1
    <3> QED BY <3>1 DEF Transcribed
  <2>4. \A j \in OutputsOf(t) : \E i \in CallsOf(t) : f[i] = j
    <3> SUFFICES ASSUME NEW j \in OutputsOf(t) PROVE \E i \in CallsOf(t) : f[i] = j
      OBVIOUS
    <3>1. PICK i \in CallsOf(t) : t[i].call = t[j].call
      BY DEF Transcribed
    <3>2. f[i] \in OutputsOf(t) /\ t[f[i]].call = t[j].call
      BY <2>1, <3>1
    <3>3. f[i] = j
      BY <3>2 DEF Transcribed
    <3> QED BY <3>3
  <2>5. ExistsBijection(CallsOf(t), OutputsOf(t))
    BY <2>2, <2>3, <2>4 DEF ExistsBijection, Bijection, Injection, IsInjective, Surjection
  <2> QED BY <1>2, <2>5, TranscriptCounts, FS_Bijection
<1> QED BY <1>4, <1>5

-----------------------------------------------------------------------------

RunFields == {"at", "turn", "transcript", "outputs", "read", "message", "usage", "seen",
              "searched", "response_id", "provider_id"}

\* The locals of recommend: what was sent and what waits, and what was counted.
RunFits ==
    /\ DOMAIN run = RunFields /\ DOMAIN run.usage = {"tokens", "cached", "tool_calls"}
    /\ run.at \in {"begin", "turn", "sent", "output", "end"}
    /\ run.turn \in Nat /\ run.usage.tokens \in Nat /\ run.seen \in SUBSET Nat
    /\ Transcribed(run.transcript, run.outputs, run.seen)
    /\ run.at \in {"begin", "turn", "sent"} => run.outputs = <<>>
    /\ run.usage.tool_calls = Cardinality(CallsOf(run.transcript))

\* What was heard is what was counted.
CountsFit ==
    /\ heard = [tokens |-> heard.tokens, responses |-> heard.responses]
    /\ heard.tokens \in Nat /\ heard.responses \in Nat
    /\ run.at # "end" => heard.tokens = run.usage.tokens
    /\ run.at = "begin" => run.turn = 0 /\ heard.responses = 0
    /\ run.at \in {"turn", "sent"} => run.turn = heard.responses + 1
    /\ run.at = "output" => run.turn = heard.responses

AuditFits ==
    \A a \in answer.audit :
      /\ a.tokens = heard.tokens /\ a.calls = heard.responses
      /\ a.tool_calls = Cardinality(CallsOf(run.transcript))

WireFits ==
    /\ run.at \in {"begin", "turn"} => wire # "out"
    /\ run.at = "sent" => wire = "out"
    /\ run.at = "output" => wire # "out"
    /\ run.at = "end" => (answer.code = "outcome_unknown" <=> wire = "out")

AgentInv ==
    /\ RunFits /\ CountsFit /\ WireFits
    /\ run.at # "end" => answer.audit = {} /\ answer.items = {}
    /\ AuditFits
    /\ told \cup answer.items \subseteq A!eligible_items

LEMMA AuditSays ==
    ASSUME NEW usage, NEW p, NEW r, NEW calls
    PROVE  \A a \in A!audit(usage, p, r, calls) :
             /\ a.tokens = usage.tokens /\ a.calls = calls /\ a.tool_calls = usage.tool_calls
  BY DEF A!audit

\* An end, with an audit that says what was heard and done.
LEMMA Ends ==
    ASSUME AgentInv, run.at # "end", NEW code, NEW retryable, NEW audits, NEW items,
           A!ends(code, retryable, audits, items),
           heard' = [tokens |-> heard'.tokens, responses |-> heard'.responses],
           heard'.tokens \in Nat, heard'.responses \in Nat,
           \A a \in audits : /\ a.tokens = heard'.tokens /\ a.calls = heard'.responses
                             /\ a.tool_calls = run.usage.tool_calls,
           items \subseteq A!eligible_items, UNCHANGED <<told, approved>>,
           code = "outcome_unknown" <=> wire' = "out"
    PROVE  AgentInv'
<1>1. run' = [run EXCEPT !.at = "end"]
  BY DEF A!ends
<1>2. DOMAIN run = RunFields
  BY DEF AgentInv, RunFits
<1>3. /\ DOMAIN run' = RunFields /\ run'.at = "end" /\ run'.turn = run.turn
      /\ run'.usage = run.usage /\ run'.seen = run.seen /\ run'.transcript = run.transcript
      /\ run'.outputs = run.outputs
  BY <1>1, <1>2 DEF RunFields
<1>4. answer'.code = code /\ answer'.audit = audits /\ answer'.items = items
  BY DEF A!ends
<1>5. RunFits'
  BY <1>3 DEF AgentInv, RunFits
<1>6. AuditFits'
  BY <1>3, <1>4 DEF AgentInv, RunFits, AuditFits
<1>7. told' \cup answer'.items \subseteq A!eligible_items'
  BY <1>4 DEF AgentInv, A!eligible_items
<1> QED BY <1>3, <1>4, <1>5, <1>6, <1>7 DEF AgentInv, CountsFit, WireFits

\* An end in an error, which has no items.
LEMMA Failures ==
    ASSUME AgentInv, run.at # "end", NEW code, NEW retryable, NEW audits,
           A!failure(code, retryable, audits), UNCHANGED <<heard, told, approved>>,
           \A a \in audits : /\ a.tokens = heard.tokens /\ a.calls = heard.responses
                             /\ a.tool_calls = run.usage.tool_calls,
           code = "outcome_unknown" <=> wire' = "out"
    PROVE  AgentInv'
<1>1. /\ heard' = [tokens |-> heard'.tokens, responses |-> heard'.responses]
      /\ heard'.tokens \in Nat /\ heard'.responses \in Nat
  BY DEF AgentInv, CountsFit
<1>2. A!ends(code, retryable, audits, {})
  BY DEF A!failure
<1> QED BY <1>1, <1>2, Ends

\* An error in an output.
LEMMA OutputFails ==
    ASSUME AgentInv, run.at = "output", NEW code, A!fails(code), code # "outcome_unknown",
           UNCHANGED <<heard, told, approved, wire>>
    PROVE  AgentInv'
<1>1. \A a \in A!SoFar(run.turn) : /\ a.tokens = run.usage.tokens /\ a.calls = run.turn
                                   /\ a.tool_calls = run.usage.tool_calls
  BY AuditSays DEF A!SoFar
<1>2. run.turn = heard.responses /\ heard.tokens = run.usage.tokens /\ wire # "out"
  BY DEF AgentInv, CountsFit, WireFits
<1>3. A!failure(code, FALSE, A!SoFar(run.turn))
  BY DEF A!fails
<1> QED BY <1>1, <1>2, <1>3, Failures

\* An error of the transport.
LEMMA SendFails ==
    ASSUME AgentInv, run.at \in {"turn", "sent"}, NEW e, NEW id, A!send_fails(e, id),
           UNCHANGED <<heard, told, approved>>,
           A!map_http_error(e).code = "outcome_unknown" <=> wire' = "out"
    PROVE  AgentInv'
<1> DEFINE audits == A!audit(run.usage, id, run.response_id, run.turn - 1)
           outcome == A!map_http_error(e)
<1>1. \A a \in audits : /\ a.tokens = run.usage.tokens /\ a.calls = run.turn - 1
                        /\ a.tool_calls = run.usage.tool_calls
  BY AuditSays
<1>2. /\ run.turn = heard.responses + 1 /\ heard.tokens = run.usage.tokens
      /\ heard.responses \in Nat
  BY DEF AgentInv, CountsFit
<1>3. A!failure(outcome.code, outcome.retryable, audits)
  BY DEF A!send_fails
<1>4. run.at # "end"
  OBVIOUS
<1> HIDE DEF audits, outcome
<1>5. \A a \in audits : /\ a.tokens = heard.tokens /\ a.calls = heard.responses
                        /\ a.tool_calls = run.usage.tool_calls
  BY <1>1, <1>2
<1>6. outcome.code = "outcome_unknown" <=> wire' = "out"
  BY DEF outcome
<1> QED BY <1>3, <1>4, <1>5, <1>6, Failures

LEMMA AgentInitially == A!Init => AgentInv
<1> SUFFICES ASSUME A!Init PROVE AgentInv
  OBVIOUS
<1>1. /\ run = [at |-> "begin", turn |-> 0, transcript |-> <<>>, outputs |-> <<>>, read |-> 0,
              message |-> {}, usage |-> A!NoUsage, seen |-> {}, searched |-> FALSE,
              response_id |-> "plain", provider_id |-> "plain"]
      /\ answer = A!Unanswered /\ heard = [tokens |-> 0, responses |-> 0]
      /\ told = {} /\ wire = "idle"
  BY DEF A!Init
<1>2. <<>> \in Seq(TranscriptEntry) /\ DOMAIN <<>> = {}
  OBVIOUS
<1>3. CallsOf(<<>>) = {} /\ OutputsOf(<<>>) = {}
  BY <1>2 DEF CallsOf, OutputsOf
<1>4. Transcribed(<<>>, <<>>, {})
  BY <1>2, <1>3 DEF Transcribed
<1>5. Cardinality({}) = 0
  BY FS_EmptySet
<1>6. RunFits
  BY <1>1, <1>3, <1>4, <1>5 DEF RunFits, RunFields, A!NoUsage
<1>7. CountsFit /\ WireFits /\ run.at = "begin"
  BY <1>1 DEF CountsFit, WireFits, A!NoUsage
<1>8. answer.audit = {} /\ answer.items = {}
  BY <1>1 DEF A!Unanswered
<1> QED BY <1>1, <1>6, <1>7, <1>8 DEF AgentInv, AuditFits

LEMMA Step_recommend == AgentInv /\ A!recommend => AgentInv'
<1> SUFFICES ASSUME AgentInv, A!recommend PROVE AgentInv'
  OBVIOUS
<1>1. run.at = "begin" /\ UNCHANGED <<approved, heard, told, wire>> /\ wire # "out"
  BY DEF A!recommend, A!At, AgentInv, WireFits
<1>2. CASE \E code \in {"tool_protocol", "stale"} : A!failure(code, FALSE, {})
  <2>1. PICK code \in {"tool_protocol", "stale"} : A!failure(code, FALSE, {})
    BY <1>2
  <2>2. code # "outcome_unknown" /\ run.at # "end" /\ wire' # "out"
    BY <1>1
  <2> DEFINE audits == {}
  <2>3. /\ A!failure(code, FALSE, audits)
        /\ \A a \in audits : /\ a.tokens = heard.tokens /\ a.calls = heard.responses
                             /\ a.tool_calls = run.usage.tool_calls
    BY <2>1
  <2>4. code = "outcome_unknown" <=> wire' = "out"
    BY <2>2
  <2> HIDE DEF audits
  <2> QED BY <1>1, <2>2, <2>3, <2>4, Failures
<1>3. CASE run' = [run EXCEPT !.at = "turn", !.turn = 1] /\ UNCHANGED answer
  <2>1. DOMAIN run = RunFields
    BY DEF AgentInv, RunFits
  <2>2. /\ DOMAIN run' = RunFields /\ run'.at = "turn" /\ run'.turn = 1
        /\ run'.usage = run.usage /\ run'.seen = run.seen /\ run'.transcript = run.transcript
        /\ run'.outputs = run.outputs
    BY <1>3, <2>1 DEF RunFields
  <2>3. RunFits'
    BY <1>1, <2>2 DEF AgentInv, RunFits
  <2>4. CountsFit' /\ WireFits'
    BY <1>1, <2>2 DEF AgentInv, CountsFit, WireFits
  <2>5. answer.audit = {} /\ answer.items = {}
    BY <1>1 DEF AgentInv
  <2> QED BY <1>1, <1>3, <2>3, <2>4, <2>5 DEF AgentInv, AuditFits, A!eligible_items
<1> QED BY <1>2, <1>3 DEF A!recommend

LEMMA Step_build_responses_request == AgentInv /\ A!build_responses_request => AgentInv'
<1> SUFFICES ASSUME AgentInv, A!build_responses_request PROVE AgentInv'
  OBVIOUS
<1>1. run.at = "turn" /\ UNCHANGED <<approved, heard, told>> /\ wire # "out"
  BY DEF A!build_responses_request, A!At, AgentInv, WireFits
<1>2. CASE A!failure("tool_limit", FALSE, A!SoFar(run.turn - 1)) /\ UNCHANGED wire
  <2>1. \A a \in A!SoFar(run.turn - 1) :
          /\ a.tokens = run.usage.tokens /\ a.calls = run.turn - 1
          /\ a.tool_calls = run.usage.tool_calls
    BY AuditSays DEF A!SoFar
  <2>2. /\ run.turn = heard.responses + 1 /\ heard.tokens = run.usage.tokens
        /\ heard.responses \in Nat
    BY <1>1 DEF AgentInv, CountsFit
  <2>3. run.turn - 1 = heard.responses
    BY <2>2
  <2>4. run.at # "end" /\ wire' # "out" /\ "tool_limit" # "outcome_unknown"
    BY <1>1, <1>2
  <2>5. \A a \in A!SoFar(run.turn - 1) :
          /\ a.tokens = heard.tokens /\ a.calls = heard.responses
          /\ a.tool_calls = run.usage.tool_calls
    BY <2>1, <2>2, <2>3
  <2> QED BY <1>1, <1>2, <2>4, <2>5, Failures
<1>3. CASE \E e \in A!Refusals : A!send_fails(e, run.provider_id) /\ UNCHANGED wire
  <2>1. PICK e \in A!Refusals : A!send_fails(e, run.provider_id) /\ UNCHANGED wire
    BY <1>3
  <2>2. A!map_http_error(e).code # "outcome_unknown"
    BY DEF A!Refusals, A!validate_api_key, A!Error, A!map_http_error, A!outcome_is_unknown
  <2> QED BY <1>1, <2>1, <2>2, SendFails
<1>4. CASE run' = [run EXCEPT !.at = "sent"] /\ wire' = "out" /\ UNCHANGED answer
  <2>1. DOMAIN run = RunFields
    BY DEF AgentInv, RunFits
  <2>2. /\ DOMAIN run' = RunFields /\ run'.at = "sent" /\ run'.turn = run.turn
        /\ run'.usage = run.usage /\ run'.seen = run.seen /\ run'.transcript = run.transcript
        /\ run'.outputs = run.outputs
    BY <1>4, <2>1 DEF RunFields
  <2>3. RunFits'
    BY <1>1, <2>2 DEF AgentInv, RunFits
  <2>4. CountsFit' /\ WireFits'
    BY <1>1, <1>4, <2>2 DEF AgentInv, CountsFit, WireFits
  <2>5. answer.audit = {} /\ answer.items = {}
    BY <1>1 DEF AgentInv
  <2> QED BY <1>1, <1>4, <2>3, <2>4, <2>5 DEF AgentInv, AuditFits, A!eligible_items
<1> QED BY <1>2, <1>3, <1>4 DEF A!build_responses_request

LEMMA Step_send == AgentInv /\ A!send => AgentInv'
<1> SUFFICES ASSUME AgentInv, A!send PROVE AgentInv'
  OBVIOUS
<1>1. run.at = "sent" /\ UNCHANGED <<approved, heard, told>>
  BY DEF A!send, A!At
<1>2. PICK timeout \in BOOLEAN, connect \in BOOLEAN :
        /\ A!send_fails(A!map_send_error(timeout, connect), run.provider_id)
        /\ wire' = IF connect THEN "idle" ELSE "out"
  BY DEF A!send
<1>3. A!map_http_error(A!map_send_error(timeout, connect)).code = "outcome_unknown" <=> ~connect
  <2>1. CASE timeout
    BY <2>1 DEF A!map_send_error, A!map_http_error, A!outcome_is_unknown
  <2>2. CASE ~timeout /\ connect
    BY <2>2 DEF A!map_send_error, A!Error, A!map_http_error, A!outcome_is_unknown
  <2>3. CASE ~timeout /\ ~connect
    BY <2>3 DEF A!map_send_error, A!Lost, A!map_http_error, A!outcome_is_unknown
  <2> QED BY <2>1, <2>2, <2>3
<1>4. A!map_http_error(A!map_send_error(timeout, connect)).code = "outcome_unknown"
        <=> wire' = "out"
  BY <1>2, <1>3
<1> QED BY <1>1, <1>2, <1>4, SendFails

LEMMA Step_rejects == AgentInv /\ A!rejects => AgentInv'
<1> SUFFICES ASSUME AgentInv, A!rejects PROVE AgentInv'
  OBVIOUS
<1>1. run.at = "sent" /\ UNCHANGED <<approved, heard, told>> /\ wire' = "answered"
  BY DEF A!rejects, A!At
<1>2. CASE \E e \in A!HeadErrors \cup A!read_bounded_body : A!send_fails(e, run.provider_id)
  <2>1. PICK e \in A!HeadErrors \cup A!read_bounded_body : A!send_fails(e, run.provider_id)
    BY <1>2
  <2>2. A!map_http_error(e).code # "outcome_unknown"
    BY DEF A!HeadErrors, A!validate_response_headers, A!retained_header,
           A!validate_json_content_type, A!read_bounded_body, A!Error, A!map_http_error,
           A!outcome_is_unknown
  <2> QED BY <1>1, <2>1, <2>2, SendFails
<1>3. CASE \E status \in {302, 400, 401, 403, 429, 500}, id \in {"none", "plain", "odd"} :
             A!send_fails(A!classify_status(status),
                          IF id = "none" THEN run.provider_id ELSE id)
  <2>1. PICK status \in {302, 400, 401, 403, 429, 500}, id \in {"none", "plain", "odd"} :
             A!send_fails(A!classify_status(status),
                          IF id = "none" THEN run.provider_id ELSE id)
    BY <1>3
  <2>2. \E is \in {"authentication", "permission", "rate_limited", "request_rejected",
                   "provider_failure", "unexpected"} : A!classify_status(status) = A!Error(is)
    BY DEF A!classify_status
  <2>3. A!map_http_error(A!classify_status(status)).code # "outcome_unknown"
    BY <2>2 DEF A!Error, A!map_http_error, A!outcome_is_unknown
  <2> QED BY <1>1, <2>1, <2>3, SendFails
<1> QED BY <1>2, <1>3 DEF A!rejects

LEMMA Step_body_lost == AgentInv /\ A!body_lost => AgentInv'
<1> SUFFICES ASSUME AgentInv, A!body_lost PROVE AgentInv'
  OBVIOUS
<1>1. run.at = "sent" /\ UNCHANGED <<approved, heard, told, wire>> /\ wire = "out"
  BY DEF A!body_lost, A!At, AgentInv, WireFits
<1>2. PICK timeout \in BOOLEAN : A!send_fails(A!map_body_error(timeout), run.provider_id)
  BY DEF A!body_lost
<1>3. A!map_http_error(A!map_body_error(timeout)).code = "outcome_unknown"
  BY DEF A!map_body_error, A!Lost, A!map_http_error, A!outcome_is_unknown
<1> QED BY <1>1, <1>2, <1>3, SendFails

LEMMA Step_respond == AgentInv /\ A!respond => AgentInv'
<1> SUFFICES ASSUME AgentInv, A!respond PROVE AgentInv'
  OBVIOUS
<1>1. /\ run.at = "sent" /\ UNCHANGED <<approved, told>> /\ wire' = "answered"
      /\ run.turn = heard.responses + 1 /\ heard.tokens = run.usage.tokens
      /\ heard.responses \in Nat /\ heard.tokens \in Nat
  BY DEF A!respond, A!At, AgentInv, CountsFit
<1>2. ASSUME NEW provider_id, A!parse_response_envelope(provider_id)
      PROVE  AgentInv'
  <2> DEFINE audits == A!audit(run.usage, provider_id, run.response_id, run.turn - 1)
  <2>1. A!failure("tool_protocol", FALSE, audits) /\ UNCHANGED heard
    BY <1>2 DEF A!parse_response_envelope
  <2>2. \A a \in audits : /\ a.tokens = run.usage.tokens /\ a.calls = run.turn - 1
                          /\ a.tool_calls = run.usage.tool_calls
    BY AuditSays
  <2> HIDE DEF audits
  <2>3. run.turn - 1 = heard.responses
    BY <1>1
  <2>4. \A a \in audits : /\ a.tokens = heard.tokens /\ a.calls = heard.responses
                          /\ a.tool_calls = run.usage.tool_calls
    BY <1>1, <2>2, <2>3
  <2>5. "tool_protocol" = "outcome_unknown" <=> wire' = "out"
    BY <1>1
  <2>6. run.at # "end"
    BY <1>1
  <2> QED BY <1>1, <2>1, <2>4, <2>5, <2>6, Failures
<1>3. ASSUME NEW provider_id, NEW response_id, NEW tokens \in 0..1, NEW cached \in BOOLEAN,
             NEW completed \in BOOLEAN,
             A!understood(provider_id, response_id, tokens, cached, completed)
      PROVE  AgentInv'
  <2> DEFINE usage == A!add(run.usage, tokens, cached)
  <2>1. /\ DOMAIN usage = {"tokens", "cached", "tool_calls"}
        /\ usage.tokens = run.usage.tokens + tokens /\ usage.tool_calls = run.usage.tool_calls
    <3>1. DOMAIN run.usage = {"tokens", "cached", "tool_calls"}
      BY DEF AgentInv, RunFits
    <3> QED BY <3>1 DEF A!add
  <2>2. /\ heard' = [tokens |-> heard.tokens + tokens, responses |-> heard.responses + 1]
    BY <1>3 DEF A!understood, A!hears
  <2>3. /\ heard' = [tokens |-> heard'.tokens, responses |-> heard'.responses]
        /\ heard'.tokens = usage.tokens /\ heard'.responses = run.turn
        /\ heard'.tokens \in Nat /\ heard'.responses \in Nat
    BY <1>1, <2>1, <2>2
  <2> DEFINE audits == A!audit(usage, provider_id, response_id, run.turn)
  <2>4. \A a \in audits : /\ a.tokens = usage.tokens /\ a.calls = run.turn
                          /\ a.tool_calls = usage.tool_calls
    BY AuditSays
  <2>5. \/ A!failure("tool_protocol", FALSE, {})
        \/ A!failure("tool_protocol", FALSE, audits)
        \/ A!failure("incomplete", FALSE, audits)
        \/ /\ run' = [run EXCEPT !.at = "output", !.usage = usage, !.read = 0,
                        !.provider_id = provider_id, !.response_id = response_id]
           /\ UNCHANGED answer
    BY <1>3 DEF A!understood
  <2> HIDE DEF usage, audits
  <2>6. ASSUME NEW code, code # "outcome_unknown", NEW given, given \in SUBSET audits,
               A!failure(code, FALSE, given)
        PROVE  AgentInv'
    <3> DEFINE items == {}
    <3>1. A!ends(code, FALSE, given, items) /\ run.at # "end"
      BY <1>1, <2>6 DEF A!failure
    <3>2. \A a \in given : /\ a.tokens = heard'.tokens /\ a.calls = heard'.responses
                           /\ a.tool_calls = run.usage.tool_calls
      BY <2>1, <2>3, <2>4, <2>6
    <3>3. code = "outcome_unknown" <=> wire' = "out"
      BY <1>1, <2>6
    <3>4. items \subseteq A!eligible_items
      OBVIOUS
    <3> HIDE DEF items
    <3> QED BY <1>1, <2>3, <3>1, <3>2, <3>3, <3>4, Ends
  <2>7. CASE \/ A!failure("tool_protocol", FALSE, {})
             \/ A!failure("tool_protocol", FALSE, audits)
             \/ A!failure("incomplete", FALSE, audits)
    <3>1. {} \in SUBSET audits /\ audits \in SUBSET audits
      OBVIOUS
    <3>2. "tool_protocol" # "outcome_unknown" /\ "incomplete" # "outcome_unknown"
      OBVIOUS
    <3> QED BY <2>6, <2>7, <3>1, <3>2
  <2>8. CASE /\ run' = [run EXCEPT !.at = "output", !.usage = usage, !.read = 0,
                          !.provider_id = provider_id, !.response_id = response_id]
             /\ UNCHANGED answer
    <3>1. DOMAIN run = RunFields
      BY DEF AgentInv, RunFits
    <3>2. /\ DOMAIN run' = RunFields /\ run'.at = "output" /\ run'.turn = run.turn
          /\ run'.usage = usage /\ run'.seen = run.seen /\ run'.transcript = run.transcript
          /\ run'.outputs = run.outputs
      BY <2>8, <3>1 DEF RunFields
    <3>3. RunFits'
      BY <1>1, <2>1, <2>3, <3>2 DEF AgentInv, RunFits
    <3>4. CountsFit' /\ WireFits'
      BY <1>1, <2>3, <3>2 DEF AgentInv, CountsFit, WireFits
    <3>5. answer.audit = {} /\ answer.items = {}
      BY <1>1 DEF AgentInv
    <3> QED BY <1>1, <2>8, <3>3, <3>4, <3>5 DEF AgentInv, AuditFits, A!eligible_items
  <2> QED BY <2>5, <2>7, <2>8
<1>4. PICK header \in {"none", "plain", "odd"} :
        \/ A!parse_response_envelope(IF header = "none" THEN run.provider_id ELSE header)
        \/ \E response_id \in A!safe_identifier, tokens \in 0..1, cached, completed \in BOOLEAN :
             A!understood(IF header = "none" THEN run.provider_id ELSE header,
                          response_id, tokens, cached, completed)
  BY DEF A!respond
<1> QED BY <1>2, <1>3, <1>4

LEMMA Step_validate_reasoning_item == AgentInv /\ A!validate_reasoning_item => AgentInv'
<1> SUFFICES ASSUME AgentInv, A!validate_reasoning_item PROVE AgentInv'
  OBVIOUS
<1>1. run.at = "output" /\ UNCHANGED <<approved, heard, told, wire>>
  BY DEF A!validate_reasoning_item, A!Reading, A!At
<1> DEFINE e == [is |-> "reasoning", call |-> {}]
<1>2. CASE A!fails("tool_protocol")
  BY <1>1, <1>2, OutputFails
<1>3. CASE /\ run' = [run EXCEPT !.read = @ + 1, !.transcript = Append(@, e)]
           /\ UNCHANGED answer
  <2>1. DOMAIN run = RunFields
    BY DEF AgentInv, RunFits
  <2>2. /\ DOMAIN run' = RunFields /\ run'.at = "output" /\ run'.turn = run.turn
        /\ run'.usage = run.usage /\ run'.seen = run.seen
        /\ run'.transcript = Append(run.transcript, e) /\ run'.outputs = run.outputs
    BY <1>1, <1>3, <2>1 DEF RunFields
  <2>3. e \in TranscriptEntry /\ e.is = "reasoning"
    BY DEF TranscriptEntry
  <2>4. Transcribed(run.transcript, run.outputs, run.seen)
    BY DEF AgentInv, RunFits
  <2> HIDE DEF e
  <2>5. /\ Transcribed(run'.transcript, run.outputs, run.seen)
        /\ CallsOf(run'.transcript) = CallsOf(run.transcript)
    BY <2>2, <2>3, <2>4, ReasoningTranscribed
  <2>6. RunFits'
    BY <1>1, <2>2, <2>5 DEF AgentInv, RunFits
  <2>7. CountsFit' /\ WireFits'
    BY <1>1, <2>2 DEF AgentInv, CountsFit, WireFits
  <2>8. answer.audit = {} /\ answer.items = {}
    BY <1>1 DEF AgentInv
  <2> QED BY <1>1, <1>3, <2>6, <2>7, <2>8 DEF AgentInv, AuditFits, A!eligible_items
<1> QED BY <1>2, <1>3 DEF A!validate_reasoning_item

LEMMA Step_function_call ==
    ASSUME AgentInv, NEW id \in Nat, A!function_call(id) PROVE AgentInv'
<1>1. run.at = "output" /\ UNCHANGED <<approved, heard, wire>>
  BY DEF A!function_call, A!Reading, A!At
<1>2. CASE \E code \in {"tool_protocol", "tool_limit"} : A!fails(code) /\ UNCHANGED told
  <2>1. PICK code \in {"tool_protocol", "tool_limit"} : A!fails(code) /\ UNCHANGED told
    BY <1>2
  <2>2. code # "outcome_unknown"
    OBVIOUS
  <2> QED BY <1>1, <2>1, <2>2, OutputFails
<1> DEFINE c == [is |-> "call", call |-> {id}]
           r == [is |-> "output", call |-> {id}]
<1>3. ASSUME id \notin run.seen,
             NEW tool \in A!Tools, NEW matching,
             run' = [run EXCEPT !.read = @ + 1, !.transcript = Append(@, c),
                                !.outputs = Append(@, r), !.seen = @ \cup {id},
                                !.usage.tool_calls = @ + 1,
                                !.searched = @ \/ tool = "search_confirmed_wardrobe"],
             told' = told \cup A!execute_tool(tool, matching), UNCHANGED answer
      PROVE  AgentInv'
  <2>1. DOMAIN run = RunFields /\ DOMAIN run.usage = {"tokens", "cached", "tool_calls"}
    BY DEF AgentInv, RunFits
  <2>2. /\ DOMAIN run' = RunFields /\ run'.at = "output" /\ run'.turn = run.turn
        /\ run'.usage = [run.usage EXCEPT !.tool_calls = @ + 1]
        /\ run'.seen = run.seen \cup {id}
        /\ run'.transcript = Append(run.transcript, c)
        /\ run'.outputs = Append(run.outputs, r)
    BY <1>1, <1>3, <2>1 DEF RunFields
  <2>3. /\ DOMAIN run'.usage = {"tokens", "cached", "tool_calls"}
        /\ run'.usage.tokens = run.usage.tokens
        /\ run'.usage.tool_calls = run.usage.tool_calls + 1
    BY <2>1, <2>2
  <2>4. /\ Transcribed(run.transcript, run.outputs, run.seen) /\ run.seen \in SUBSET Nat
        /\ run.usage.tool_calls = Cardinality(CallsOf(run.transcript))
    BY DEF AgentInv, RunFits
  <2>5. /\ Transcribed(run'.transcript, run'.outputs, run'.seen)
        /\ CallsOf(run'.transcript) = CallsOf(run.transcript) \cup {Len(run.transcript) + 1}
    <3>1. /\ Transcribed(Append(run.transcript, c), Append(run.outputs, r), run.seen \cup {id})
          /\ CallsOf(Append(run.transcript, c)) =
               CallsOf(run.transcript) \cup {Len(run.transcript) + 1}
      <4> DEFINE t == run.transcript
                 o == run.outputs
                 ids == run.seen
      <4>1. Transcribed(t, o, ids) /\ ids \in SUBSET Nat /\ id \notin ids
        BY <1>3, <2>4
      <4> HIDE DEF t, o, ids
      <4>2. /\ Transcribed(Append(t, c), Append(o, r), ids \cup {id})
            /\ CallsOf(Append(t, c)) = CallsOf(t) \cup {Len(t) + 1}
        BY <4>1, CallTranscribed
      <4> QED BY <4>2 DEF t, o, ids
    <3> QED BY <2>2, <3>1
  <2>6. run.transcript \in Seq(TranscriptEntry)
    BY <2>4 DEF Transcribed
  <2>7. run'.usage.tool_calls = Cardinality(CallsOf(run'.transcript))
    BY <2>3, <2>4, <2>5, <2>6, TranscriptCounts
  <2>8. run'.seen \in SUBSET Nat
    BY <2>2, <2>4
  <2> HIDE DEF c, r
  <2>9. RunFits'
    BY <1>1, <2>2, <2>3, <2>5, <2>7, <2>8 DEF AgentInv, RunFits
  <2>10. CountsFit' /\ WireFits'
    BY <1>1, <2>2, <2>3 DEF AgentInv, CountsFit, WireFits
  <2>11. answer.audit = {} /\ answer.items = {}
    BY <1>1 DEF AgentInv
  <2>12. A!execute_tool(tool, matching) \subseteq A!eligible_items
    BY DEF A!execute_tool, A!Tools, A!search_wardrobe, A!list_saved_outfits
  <2>13. told' \subseteq A!eligible_items'
    BY <1>1, <1>3, <2>12 DEF AgentInv, A!eligible_items
  <2> QED BY <1>1, <1>3, <2>9, <2>10, <2>11, <2>13 DEF AgentInv, AuditFits
<1>4. \/ \E code \in {"tool_protocol", "tool_limit"} : A!fails(code) /\ UNCHANGED told
      \/ /\ id \notin run.seen
         /\ \E tool \in A!Tools : \E matching :
              /\ run' = [run EXCEPT !.read = @ + 1, !.transcript = Append(@, c),
                                    !.outputs = Append(@, r), !.seen = @ \cup {id},
                                    !.usage.tool_calls = @ + 1,
                                    !.searched = @ \/ tool = "search_confirmed_wardrobe"]
              /\ told' = told \cup A!execute_tool(tool, matching) /\ UNCHANGED answer
  BY DEF A!function_call, A!parse_function_call
<1> QED BY <1>2, <1>3, <1>4

LEMMA Step_parse_terminal_message == AgentInv /\ A!parse_terminal_message => AgentInv'
<1> SUFFICES ASSUME AgentInv, A!parse_terminal_message PROVE AgentInv'
  OBVIOUS
<1>1. run.at = "output" /\ UNCHANGED <<approved, heard, told, wire>>
  BY DEF A!parse_terminal_message, A!Reading, A!At
<1>2. CASE \E code \in {"tool_protocol", "malformed_output"} : A!fails(code)
  <2>1. PICK code \in {"tool_protocol", "malformed_output"} : A!fails(code)
    BY <1>2
  <2>2. code # "outcome_unknown"
    OBVIOUS
  <2> QED BY <1>1, <2>1, <2>2, OutputFails
<1>3. CASE /\ \E message : run' = [run EXCEPT !.read = @ + 1, !.message = message]
           /\ UNCHANGED answer
  <2>1. DOMAIN run = RunFields
    BY DEF AgentInv, RunFits
  <2>2. /\ DOMAIN run' = RunFields /\ run'.at = "output" /\ run'.turn = run.turn
        /\ run'.usage = run.usage /\ run'.seen = run.seen
        /\ run'.transcript = run.transcript /\ run'.outputs = run.outputs
    BY <1>1, <1>3, <2>1 DEF RunFields
  <2>3. RunFits'
    BY <1>1, <2>2 DEF AgentInv, RunFits
  <2>4. CountsFit' /\ WireFits'
    BY <1>1, <2>2 DEF AgentInv, CountsFit, WireFits
  <2>5. answer.audit = {} /\ answer.items = {}
    BY <1>1 DEF AgentInv
  <2> QED BY <1>1, <1>3, <2>3, <2>4, <2>5 DEF AgentInv, AuditFits, A!eligible_items
<1> QED BY <1>2, <1>3 DEF A!parse_terminal_message

LEMMA Step_finish == AgentInv /\ A!finish => AgentInv'
<1> SUFFICES ASSUME AgentInv, A!finish PROVE AgentInv'
  OBVIOUS
<1>1. run.at = "output" /\ UNCHANGED <<approved, heard, told, wire>> /\ wire # "out"
  BY DEF A!finish, A!At, AgentInv, WireFits
<1>2. CASE \E code \in {"tool_protocol", "tool_limit"} : A!fails(code)
  <2>1. PICK code \in {"tool_protocol", "tool_limit"} : A!fails(code)
    BY <1>2
  <2>2. code # "outcome_unknown"
    OBVIOUS
  <2> QED BY <1>1, <2>1, <2>2, OutputFails
<1>3. CASE A!continues /\ UNCHANGED answer
  <2>1. DOMAIN run = RunFields
    BY DEF AgentInv, RunFits
  <2>2. /\ DOMAIN run' = RunFields /\ run'.at = "turn" /\ run'.turn = run.turn + 1
        /\ run'.usage = run.usage /\ run'.seen = run.seen
        /\ run'.transcript = run.transcript \o run.outputs /\ run'.outputs = <<>>
    BY <1>1, <1>3, <2>1 DEF RunFields, A!continues
  <2>3. Transcribed(run.transcript, run.outputs, run.seen)
    BY DEF AgentInv, RunFits
  <2>4. /\ Transcribed(run'.transcript, run'.outputs, run'.seen)
        /\ CallsOf(run'.transcript) = CallsOf(run.transcript)
    BY <2>2, <2>3, ResultsTranscribed
  <2>5. run.turn \in Nat /\ run.turn + 1 \in Nat
    BY DEF AgentInv, RunFits
  <2>6. RunFits'
    BY <1>1, <2>2, <2>4, <2>5 DEF AgentInv, RunFits
  <2>7. CountsFit' /\ WireFits'
    BY <1>1, <2>2 DEF AgentInv, CountsFit, WireFits
  <2>8. answer.audit = {} /\ answer.items = {}
    BY <1>1 DEF AgentInv
  <2> QED BY <1>1, <1>3, <2>6, <2>7, <2>8 DEF AgentInv, AuditFits, A!eligible_items
<1>4. ASSUME NEW message, A!concludes(message) PROVE AgentInv'
  <2>1. /\ heard' = [tokens |-> heard'.tokens, responses |-> heard'.responses]
        /\ heard'.tokens \in Nat /\ heard'.responses \in Nat /\ run.at # "end"
    BY <1>1 DEF AgentInv, CountsFit
  <2> DEFINE audits == A!SoFar(run.turn)
  <2>2. \A a \in audits : /\ a.tokens = run.usage.tokens /\ a.calls = run.turn
                          /\ a.tool_calls = run.usage.tool_calls
    BY AuditSays DEF A!SoFar
  <2>3. heard'.tokens = run.usage.tokens /\ heard'.responses = run.turn
    BY <1>1 DEF AgentInv, CountsFit
  <2> HIDE DEF audits
  <2>4. ASSUME NEW code, code # "outcome_unknown", NEW given, given \in SUBSET audits,
               NEW items, items \subseteq A!eligible_items, A!ends(code, FALSE, given, items)
        PROVE  AgentInv'
    <3>1. \A a \in given : /\ a.tokens = heard'.tokens /\ a.calls = heard'.responses
                           /\ a.tool_calls = run.usage.tool_calls
      BY <2>2, <2>3, <2>4
    <3>2. code = "outcome_unknown" <=> wire' = "out"
      BY <1>1, <2>4
    <3> QED BY <1>1, <2>1, <2>4, <3>1, <3>2, Ends
  <2> DEFINE nothing == {}
  <2>5. /\ nothing \in SUBSET audits /\ audits \in SUBSET audits
        /\ nothing \subseteq A!eligible_items
    OBVIOUS
  <2>6. \/ A!failure("tool_protocol", FALSE, {})
        \/ A!ends("refused", FALSE, audits, {})
        \/ A!failure("tool_protocol", FALSE, audits)
        \/ \E verdict \in A!validate_outfit_proposal(message.items) :
             IF verdict = "valid" THEN A!ends("completed", FALSE, audits, message.items)
             ELSE A!failure(A!map_validation_error(verdict), FALSE, audits)
    BY <1>4 DEF A!concludes, audits
  <2>7. CASE \/ A!failure("tool_protocol", FALSE, {})
             \/ A!ends("refused", FALSE, audits, {})
             \/ A!failure("tool_protocol", FALSE, audits)
    <3>1. \/ A!ends("tool_protocol", FALSE, nothing, nothing)
          \/ A!ends("refused", FALSE, audits, nothing)
          \/ A!ends("tool_protocol", FALSE, audits, nothing)
      BY <2>7 DEF A!failure
    <3> HIDE DEF nothing
    <3>2. "tool_protocol" # "outcome_unknown" /\ "refused" # "outcome_unknown"
      OBVIOUS
    <3> QED BY <2>4, <2>5, <3>1, <3>2
  <2>8. ASSUME NEW verdict \in A!validate_outfit_proposal(message.items),
               IF verdict = "valid" THEN A!ends("completed", FALSE, audits, message.items)
               ELSE A!failure(A!map_validation_error(verdict), FALSE, audits)
        PROVE  AgentInv'
    <3>1. CASE verdict = "valid"
      <4>1. message.items \subseteq approved.active /\ message.items \cap approved.excluded = {}
        BY <3>1 DEF A!validate_outfit_proposal
      <4>2. message.items \subseteq A!eligible_items
        BY <4>1 DEF A!eligible_items
      <4>3. A!ends("completed", FALSE, audits, message.items) /\ "completed" # "outcome_unknown"
        BY <2>8, <3>1
      <4> QED BY <2>4, <2>5, <4>2, <4>3
    <3>2. CASE verdict # "valid"
      <4>1. A!map_validation_error(verdict) # "outcome_unknown"
        BY <3>2 DEF A!validate_outfit_proposal, A!map_validation_error
      <4>2. A!ends(A!map_validation_error(verdict), FALSE, audits, nothing)
        BY <2>8, <3>2 DEF A!failure
      <4> HIDE DEF nothing
      <4> QED BY <2>4, <2>5, <4>1, <4>2
    <3> QED BY <3>1, <3>2
  <2> QED BY <2>6, <2>7, <2>8
<1> QED BY <1>2, <1>3, <1>4 DEF A!finish

LEMMA AgentKept ==
    ASSUME AgentInv, UNCHANGED agentVars
    PROVE  AgentInv'
<1>1. UNCHANGED <<approved, run, answer, heard, told, wire>>
  BY DEF agentVars
<1> QED BY <1>1
      DEF AgentInv, RunFits, CountsFit, AuditFits, WireFits, A!eligible_items

LEMMA AgentSteps == AgentInv /\ A!Next => AgentInv'
<1> SUFFICES ASSUME AgentInv, A!Next PROVE AgentInv'
  OBVIOUS
<1>1. ASSUME NEW id \in {1, 2}, A!function_call(id) PROVE AgentInv'
  <2>1. id \in Nat
    OBVIOUS
  <2> QED BY <1>1, <2>1, Step_function_call
<1> QED BY <1>1, Step_recommend, Step_build_responses_request, Step_send, Step_rejects,
           Step_body_lost, Step_respond, Step_validate_reasoning_item,
           Step_parse_terminal_message, Step_finish
    DEF A!Next

LEMMA AgentIsHonest == AgentInv => A!AnswerIsHonest
<1> SUFFICES ASSUME AgentInv PROVE A!AnswerIsHonest
  OBVIOUS
<1> DEFINE t == run.transcript
<1>1. /\ CallsOf(t) = {i \in DOMAIN run.transcript : run.transcript[i].is = "call"}
      /\ OutputsOf(t) = {i \in DOMAIN run.transcript : run.transcript[i].is = "output"}
  BY DEF CallsOf, OutputsOf
<1> HIDE DEF t
<1>5. \A X : A!Cardinality(X) = Cardinality(X)
  BY DEF A!Cardinality, Cardinality
<1>2. A!CallsArePaired
  <2>1. SUFFICES ASSUME run.at = "sent" PROVE A!CallsArePaired
    BY DEF A!CallsArePaired, A!At
  <2>2. Transcribed(t, <<>>, run.seen)
    BY <2>1 DEF AgentInv, RunFits, t
  <2>3. /\ \A i, j \in CallsOf(t) : t[i].call = t[j].call => i = j
        /\ \A i \in CallsOf(t) :
             Cardinality({j \in OutputsOf(t) : j > i /\ t[i].call = t[j].call}) = 1
        /\ Cardinality(CallsOf(t)) = Cardinality(OutputsOf(t))
    <3>1. \A i, j \in CallsOf(t) : t[i].call = t[j].call => i = j
      BY <2>2 DEF Transcribed
    <3>2. /\ \A i \in CallsOf(t) :
               Cardinality({j \in OutputsOf(t) : j > i /\ t[i].call = t[j].call}) = 1
          /\ Cardinality(CallsOf(t)) = Cardinality(OutputsOf(t))
      BY <2>2, TranscriptIsPaired
    <3> QED BY <3>1, <3>2
  <2> DEFINE calls == {i \in DOMAIN run.transcript : run.transcript[i].is = "call"}
             outputs == {i \in DOMAIN run.transcript : run.transcript[i].is = "output"}
  <2>4. calls = CallsOf(t) /\ outputs = OutputsOf(t) /\ t = run.transcript
    BY <1>1 DEF t
  <2> HIDE DEF calls, outputs
  <2>5. \A i, j \in calls : run.transcript[i].call = run.transcript[j].call => i = j
    BY <2>3, <2>4
  <2>6. \A i \in calls : A!Cardinality({j \in outputs :
            j > i /\ run.transcript[i].call = run.transcript[j].call}) = 1
    BY <1>5, <2>3, <2>4
  <2>7. A!Cardinality(calls) = A!Cardinality(outputs)
    BY <1>5, <2>3, <2>4
  <2> QED BY <2>5, <2>6, <2>7 DEF A!CallsArePaired, calls, outputs
<1>3. A!AuditAddsUp
  BY <1>1, <1>5 DEF A!AuditAddsUp, AgentInv, AuditFits, t
<1>4. A!ApprovedItemsOnly /\ A!UnknownIsAdmitted
  BY DEF A!ApprovedItemsOnly, A!UnknownIsAdmitted, A!At, AgentInv, WireFits
<1> QED BY <1>2, <1>3, <1>4 DEF A!AnswerIsHonest

\* Over all the turns of a recommendation: every call the provider makes is answered once in
\* what is sent next, the audit adds up to what was heard and done, only approved items are
\* told or taken, and a request whose fate is unknown is reported as such
\* (outfit_recommendation_provider.rs, recommend).
THEOREM RecommendationsAreHonest == SpecGates => []A!AnswerIsHonest
<1>1. InitGates => AgentInv
  BY AgentInitially DEF InitGates
<1>2. AgentInv /\ [NextGates]_allVars => AgentInv'
  <2>1. NextGates => A!Next \/ UNCHANGED agentVars
    BY DEF NextGates
  <2>2. UNCHANGED allVars => UNCHANGED agentVars
    BY DEF allVars
  <2> QED BY <2>1, <2>2, AgentSteps, AgentKept
<1> QED BY <1>1, <1>2, AgentIsHonest, PTL DEF SpecGates

-----------------------------------------------------------------------------
(* An answer of Photos.  What the caller took of its request, what waits in *)
(* the channel, what the worker holds and what is queued are one sequence:  *)
(* the frames of the request in their order, and then its end.              *)

Data == {"item", "chunk"}
Datum(kind) == IF kind = "stream" THEN "chunk" ELSE "item"
Event == [request : Nat, what : Data \cup {"completed", "failed", "finished", "error"},
          index : Nat]

\* Frame by frame: what s says of request r is its items in their order, and a completion
\* comes after all of them.
InTurn(s, i, r, kind) ==
    /\ s[i].what \in Data => /\ s[i].what = Datum(kind) /\ s[i].request = r
                              /\ s[i].index + 1 = i /\ i <= B!count(kind)
    /\ s[i].what = "completed" => i = B!count(kind) + 1
    /\ s[i].what \in Data \cup {"completed"} => \A j \in DOMAIN s : j < i => s[j].what \in Data

Continues(s, r, kind) ==
    /\ s \in Seq(Event)
    /\ \A i \in DOMAIN s : InTurn(s, i, r, kind)

AllData(s) == \A i \in DOMAIN s : s[i].what \in Data

\* The worker has not failed yet: it may take another request.
Alive ==
    \/ worker.at \in {"idle", "pumping", "sending"}
    \/ worker.at = "finishing" /\ worker.event = "finished"

Heard == caller.at = "receiving" /\ worker.at \in {"pumping", "sending"}
           /\ worker.request = caller.request

Coming ==
    IF ~Heard THEN <<>>
    ELSE IF worker.at = "sending" THEN <<worker.event>> \o frames
    ELSE frames

Whole == (caller.got \o channel) \o Coming

RequestsFit ==
    /\ requests \in Nat /\ operation.request \in 0..requests
    /\ worker.at \in {"idle", "pumping", "sending", "finishing", "dropping", "quiescing", "ended"}
    /\ worker.at \in {"pumping", "sending", "finishing"} => worker.request = operation.request
    /\ worker.at \in {"pumping", "sending"} => worker.kind = operation.kind
    /\ worker.at = "finishing" => worker.event \in {"finished", "error"}
    /\ inbox # <<>> =>
         /\ inbox = <<[request |-> requests, kind |-> caller.kind]>>
         /\ worker.at # "ended" =>
              /\ caller.at = "receiving" /\ caller.got = <<>> /\ caller.terminal = "none"
              /\ channel = <<>> /\ operation.request < requests

CallerFits ==
    /\ caller.at \in {"idle", "receiving"}
    /\ caller.at = "receiving" =>
         /\ DOMAIN caller = {"at", "request", "kind", "got", "terminal"}
         /\ caller.request = requests /\ caller.kind \in B!Kinds
         /\ caller.got \in Seq(Event) /\ channel \in Seq(Event) /\ AllData(caller.got)
         /\ caller.terminal = "complete" => Len(caller.got) = B!count(caller.kind)
         /\ Continues(Whole, caller.request, caller.kind)
         /\ Heard => worker.kind = caller.kind

OpFields == {"request", "kind", "terminal", "cancelled", "accepted", "cancellation", "listed"}

NoneLeft == callback.at = "idle" /\ dispatched = {}
MainIsOff ==
    \/ main.at = "idle"
    \/ main.at = "register" /\ main.request \in Nat /\ main.request < operation.request
Started == /\ operation.kind \in B!Kinds /\ ~operation.terminal
Fresh == Started /\ ~operation.cancelled /\ operation.cancellation = "none" /\ operation.accepted = 0

Waits ==
    /\ Fresh /\ callback.at = "idle" /\ dispatched = {"execute"} /\ MainIsOff

Emits ==
    /\ Fresh /\ NoneLeft /\ main.at = "emitting" /\ operation.kind # "stream"
    /\ DOMAIN main = {"at", "left"}
    /\ main.left \in 0..B!count(operation.kind)

Installs ==
    /\ Fresh /\ NoneLeft /\ operation.kind = "stream" /\ main.at = "install"

Asks ==
    /\ Started /\ ~operation.cancelled /\ operation.accepted = 0 /\ NoneLeft
    /\ operation.kind = "stream" /\ main.at = "request" /\ operation.cancellation = "installed"

Registered ==
    \/ main.at = "register" /\ main.request = operation.request
       /\ operation.cancellation \in {"installed", "pending"}
    \/ main.at = "idle" /\ operation.cancellation = "registered"

Transfers ==
    /\ Started /\ ~operation.cancelled /\ operation.kind = "stream" /\ dispatched = {}
    /\ callback.at \in {"returned", "enqueue", "waiting", "completing"}
    /\ operation.cancellation \in {"installed", "registered"} /\ Registered
    /\ operation.accepted \in Nat /\ photos \in Nat /\ operation.accepted + photos = 2
    /\ callback.at \in {"enqueue", "waiting"} => operation.accepted > 0
    /\ callback.at = "completing" => photos = 0

Fails ==
    /\ Started /\ operation.cancelled /\ operation.kind = "stream" /\ callback.at = "idle"
    /\ \/ /\ main.at = "register" /\ main.request = operation.request
          /\ operation.cancellation = "pending" /\ dispatched = {}
       \/ /\ main.at = "idle" /\ operation.cancellation = "registered"
          /\ dispatched = {"cancel_request"}

Unanswering == Fresh /\ NoneLeft /\ main.at = "idle" /\ operation.kind = "authorize"

Over == operation.terminal /\ NoneLeft /\ main.at \in {"idle", "register"}
          /\ (main.at = "register" => main.request \in 0..operation.request)

\* How many frames of data the operation has queued.
Queued ==
    CASE main.at = "emitting" -> B!count(operation.kind) - main.left
      [] main.at # "emitting" /\ callback.at \in {"enqueue", "waiting"} -> operation.accepted - 1
      [] main.at # "emitting" /\ callback.at \notin {"enqueue", "waiting"} -> operation.accepted

Counted == Waits \/ Emits \/ Installs \/ Asks \/ Transfers

OperationFits ==
    Alive =>
      /\ lifecycle = "open" /\ frames \in Seq(Event)
      /\ operation.request \in Nat
      /\ worker.at \in {"idle", "finishing"} => operation.terminal /\ frames = <<>>
      /\ worker.at = "sending" => worker.event \in Event
      /\ worker.at = "sending" /\ worker.event.what \in B!Terminals
           => operation.terminal /\ frames = <<>>
      /\ \A i \in DOMAIN frames : frames[i].what \in B!Terminals
                                    => operation.terminal /\ i = Len(frames)
      /\ Over \/ Waits \/ Emits \/ Installs \/ Asks \/ Transfers \/ Fails \/ Unanswering
      /\ Heard /\ ~operation.terminal => AllData(Whole)
      /\ Heard /\ Counted => Len(Whole) = Queued

\* A callback is at a place.
Placed == "at" \in DOMAIN callback

BridgeInv ==
    /\ DOMAIN operation = OpFields
    /\ RequestsFit /\ CallerFits /\ OperationFits /\ B!AnswersAreWhole

-----------------------------------------------------------------------------

LEMMA Counts == \A kind : B!count(kind) \in 1..2
  BY DEF B!count

\* What f has to be to come next after s.
IsNext(f, s, r, kind) ==
    /\ f.what \in Data
         => /\ AllData(s) /\ f.what = Datum(kind) /\ f.request = r
            /\ f.index = Len(s) /\ Len(s) < B!count(kind)
    /\ f.what = "completed" => AllData(s) /\ Len(s) = B!count(kind)

LEMMA ContinuesAppend ==
    ASSUME NEW s, NEW f \in Event, NEW r, NEW kind, Continues(s, r, kind), IsNext(f, s, r, kind)
    PROVE  /\ Continues(Append(s, f), r, kind)
           /\ Len(Append(s, f)) = Len(s) + 1
           /\ AllData(s) /\ f.what \in Data => AllData(Append(s, f))
<1> DEFINE t == Append(s, f)
           l == Len(s)
<1>1. s \in Seq(Event) /\ l \in Nat /\ DOMAIN s = 1..l
  BY DEF Continues
<1>2. /\ t \in Seq(Event) /\ Len(t) = l + 1 /\ DOMAIN t = 1..(l + 1)
      /\ \A i \in 1..l : t[i] = s[i]
      /\ t[l + 1] = f
  BY <1>1, AppendProperties
<1>3. B!count(kind) \in Nat
  BY Counts
<1>4. /\ f.what \in Data => /\ AllData(s) /\ f.what = Datum(kind) /\ f.request = r
                            /\ f.index = l /\ l < B!count(kind)
      /\ f.what = "completed" => AllData(s) /\ l = B!count(kind)
  BY DEF IsNext
<1> HIDE DEF t, l
<1>5. ASSUME NEW i \in 1..l PROVE InTurn(t, i, r, kind)
  <2>1. InTurn(s, i, r, kind)
    BY <1>1 DEF Continues
  <2>2. t[i] = s[i] /\ \A j \in DOMAIN t : j < i => j \in DOMAIN s /\ t[j] = s[j]
    BY <1>1, <1>2
  <2> QED BY <2>1, <2>2 DEF InTurn
<1>6. InTurn(t, l + 1, r, kind)
  <2>1. AllData(s) => \A j \in DOMAIN t : j < l + 1 => t[j].what \in Data
    <3> SUFFICES ASSUME AllData(s), NEW j \in DOMAIN t, j < l + 1 PROVE t[j].what \in Data
      OBVIOUS
    <3>1. j \in 1..l
      BY <1>1, <1>2
    <3> QED BY <1>1, <1>2, <3>1 DEF AllData
  <2>2. f.what = "completed" => f.what \notin Data
    BY DEF Data
  <2>3. f.what \in Data => /\ f.what = Datum(kind) /\ f.request = r
                           /\ f.index + 1 = l + 1 /\ l + 1 <= B!count(kind)
    BY <1>1, <1>3, <1>4
  <2>4. f.what = "completed" => l + 1 = B!count(kind) + 1
    BY <1>4
  <2>5. f.what \in Data \cup {"completed"} => AllData(s)
    BY <1>4
  <2> QED BY <1>2, <2>1, <2>3, <2>4, <2>5 DEF InTurn
<1>7. Continues(t, r, kind)
  BY <1>1, <1>2, <1>5, <1>6 DEF Continues
<1>8. AllData(s) /\ f.what \in Data => AllData(t)
  BY <1>1, <1>2 DEF AllData
<1> QED BY <1>2, <1>7, <1>8 DEF t, l

LEMMA ContinuesPrefix ==
    ASSUME NEW s \in Seq(Event), NEW t \in Seq(Event), NEW r, NEW kind,
           Continues(s \o t, r, kind)
    PROVE  Continues(s, r, kind) /\ (AllData(s \o t) => AllData(s))
<1> DEFINE u == s \o t
<1>1. /\ Len(s) \in Nat /\ Len(t) \in Nat /\ DOMAIN s = 1..Len(s)
      /\ u \in Seq(Event) /\ DOMAIN u = 1..(Len(s) + Len(t))
      /\ \A i \in 1..Len(s) : u[i] = s[i]
  BY ConcatProperties
<1>2. Continues(u, r, kind)
  OBVIOUS
<1> HIDE DEF u
<1>3. ASSUME NEW i \in DOMAIN s PROVE InTurn(s, i, r, kind) /\ u[i] = s[i] /\ i \in DOMAIN u
  <2>1. i \in DOMAIN u /\ u[i] = s[i]
    BY <1>1
  <2>2. InTurn(u, i, r, kind)
    BY <1>2, <2>1 DEF Continues
  <2>3. \A j \in DOMAIN s : j \in DOMAIN u /\ u[j] = s[j]
    BY <1>1
  <2> QED BY <2>1, <2>2, <2>3 DEF InTurn
<1> QED BY <1>3 DEF Continues, AllData, u

LEMMA ContinuesDrop ==
    ASSUME NEW s \in Seq(Event), NEW t \in Seq(Event), NEW e \in Event, e.what \notin Data,
           NEW r, NEW kind, Continues((s \o <<e>>) \o t, r, kind), AllData(s)
    PROVE  Continues(s \o t, r, kind)
<1> DEFINE u == (s \o <<e>>) \o t
           v == s \o t
           l == Len(s)
<1>1. /\ l \in Nat /\ DOMAIN s = 1..l /\ Len(t) \in Nat
  OBVIOUS
<1>2. /\ s \o <<e>> \in Seq(Event) /\ Len(s \o <<e>>) = l + 1
      /\ \A i \in 1..l : (s \o <<e>>)[i] = s[i]
      /\ (s \o <<e>>)[l + 1] = e
  OBVIOUS
<1>3. /\ DOMAIN u = 1..(l + 1 + Len(t))
      /\ \A i \in 1..l : u[i] = s[i]
      /\ u[l + 1] = e
      /\ \A i \in 1..Len(t) : u[l + 1 + i] = t[i]
  BY <1>1, <1>2, ConcatProperties
<1>4. /\ v \in Seq(Event) /\ DOMAIN v = 1..(l + Len(t))
      /\ \A i \in 1..l : v[i] = s[i]
      /\ \A i \in 1..Len(t) : v[l + i] = t[i]
  BY <1>1, ConcatProperties
<1>5. Continues(u, r, kind)
  OBVIOUS
<1> HIDE DEF u, v, l
<1>6. ASSUME NEW i \in DOMAIN v, i <= l PROVE InTurn(v, i, r, kind)
  <2>1. i \in DOMAIN u /\ u[i] = v[i] /\ i \in 1..l
    BY <1>1, <1>3, <1>4, <1>6
  <2>2. InTurn(u, i, r, kind)
    BY <1>5, <2>1 DEF Continues
  <2>3. \A j \in DOMAIN v : j < i => j \in DOMAIN u /\ u[j] = v[j]
    BY <1>1, <1>3, <1>4, <2>1
  <2> QED BY <2>1, <2>2, <2>3 DEF InTurn
<1>7. ASSUME NEW i \in DOMAIN v, i > l PROVE InTurn(v, i, r, kind)
  <2>1. i + 1 \in DOMAIN u /\ i - l \in 1..Len(t) /\ l + 1 \in DOMAIN u /\ l + 1 < i + 1
    BY <1>1, <1>3, <1>4, <1>7
  <2>2. u[i + 1] = v[i]
    <3>1. i + 1 = l + 1 + (i - l) /\ i = l + (i - l)
      BY <1>1, <2>1, <1>4
    <3> QED BY <1>3, <1>4, <2>1, <3>1
  <2>3. InTurn(u, i + 1, r, kind)
    BY <1>5, <2>1 DEF Continues
  <2>4. u[l + 1].what \notin Data
    BY <1>3
  <2>5. u[i + 1].what \notin Data \cup {"completed"}
    BY <2>1, <2>3, <2>4 DEF InTurn
  <2> QED BY <2>2, <2>5 DEF InTurn
<1>8. ASSUME NEW i \in DOMAIN v PROVE i <= l \/ i > l
  BY <1>1, <1>4
<1>9. Continues(v, r, kind)
  BY <1>4, <1>6, <1>7, <1>8 DEF Continues
<1> QED BY <1>9 DEF v

\* What a completion that is next after the data taken says: it is all there.
LEMMA ContinuesWhole ==
    ASSUME NEW s \in Seq(Event), NEW t \in Seq(Event), NEW r, NEW kind,
           Continues(s \o t, r, kind), AllData(s)
    PROVE  /\ \A i \in 1..Len(s) : s[i].request = r /\ s[i].index = i - 1
           /\ t # <<>> /\ Head(t).what = "completed" => Len(s) = B!count(kind)
<1> DEFINE u == s \o t
<1>1. /\ Len(s) \in Nat /\ Len(t) \in Nat /\ DOMAIN s = 1..Len(s)
      /\ u \in Seq(Event) /\ DOMAIN u = 1..(Len(s) + Len(t))
      /\ \A i \in 1..Len(s) : u[i] = s[i]
      /\ t # <<>> => Len(t) > 0 /\ u[Len(s) + 1] = t[1]
  BY ConcatProperties
<1>2. Continues(u, r, kind) /\ B!count(kind) \in Nat
  BY Counts
<1> HIDE DEF u
<1>3. ASSUME NEW i \in 1..Len(s) PROVE s[i].request = r /\ s[i].index = i - 1
  <2>1. i \in DOMAIN u /\ u[i] = s[i] /\ s[i].what \in Data /\ s[i] \in Event
    BY <1>1 DEF AllData
  <2>2. InTurn(u, i, r, kind)
    BY <1>2, <2>1 DEF Continues
  <2>3. s[i].request = r /\ s[i].index + 1 = i
    BY <2>1, <2>2 DEF InTurn
  <2>4. s[i].index \in Nat
    BY <2>1 DEF Event
  <2> QED BY <2>3, <2>4
<1>4. ASSUME t # <<>>, Head(t).what = "completed" PROVE Len(s) = B!count(kind)
  <2>1. Len(s) + 1 \in DOMAIN u /\ u[Len(s) + 1].what = "completed"
    BY <1>1, <1>4
  <2>2. InTurn(u, Len(s) + 1, r, kind)
    BY <1>2, <2>1 DEF Continues
  <2>3. Len(s) + 1 = B!count(kind) + 1
    BY <2>1, <2>2 DEF InTurn
  <2> QED BY <1>1, <1>2, <2>3
<1> QED BY <1>3, <1>4

-----------------------------------------------------------------------------

LEMMA WholeSaid ==
    ASSUME BridgeInv, Alive, Heard
    PROVE  /\ caller.at = "receiving" /\ caller.request = operation.request
           /\ caller.kind = operation.kind
           /\ caller.got \o channel \in Seq(Event) /\ Coming \in Seq(Event)
           /\ Whole \in Seq(Event) /\ Len(Whole) \in Nat
           /\ Continues(Whole, caller.request, caller.kind)
<1>1. /\ caller.at = "receiving" /\ caller.request = operation.request
      /\ caller.kind = operation.kind
  BY DEF BridgeInv, Heard, RequestsFit, CallerFits
<1>2. /\ caller.got \in Seq(Event) /\ channel \in Seq(Event)
      /\ Continues(Whole, caller.request, caller.kind)
  BY <1>1 DEF BridgeInv, CallerFits
<1>3. frames \in Seq(Event) /\ (worker.at = "sending" => worker.event \in Event)
  BY DEF BridgeInv, OperationFits
<1>4. Coming \in Seq(Event)
  BY <1>3 DEF Coming
<1>5. caller.got \o channel \in Seq(Event)
  BY <1>2
<1>6. Whole \in Seq(Event)
  BY <1>4, <1>5 DEF Whole
<1> QED BY <1>1, <1>2, <1>4, <1>5, <1>6

\* A step of Photos' side that queues nothing.
LEMMA CallerUnmoved ==
    ASSUME CallerFits, UNCHANGED B!rust, Heard => UNCHANGED frames
    PROVE  CallerFits' /\ Whole' = Whole /\ (Heard' <=> Heard)
<1>1. UNCHANGED <<caller, inbox, worker, channel, requests>>
  BY DEF B!rust
<1>2. Heard' <=> Heard
  BY <1>1 DEF Heard
<1>3. Coming' = Coming
  <2>1. CASE Heard
    <3>1. Heard' /\ UNCHANGED frames
      BY <1>2, <2>1
    <3> QED BY <1>1, <2>1, <3>1 DEF Coming
  <2>2. CASE ~Heard
    <3>1. ~Heard'
      BY <1>2, <2>2
    <3> QED BY <2>2, <3>1 DEF Coming
  <2> QED BY <2>1, <2>2
<1>4. Whole' = Whole
  BY <1>1, <1>3 DEF Whole
<1> QED BY <1>1, <1>2, <1>4 DEF CallerFits

\* A step of Photos' side that queues the next frame.
LEMMA CallerHearsMore ==
    ASSUME BridgeInv, Alive, Heard, UNCHANGED B!rust, NEW f \in Event,
           frames' = Append(frames, f), IsNext(f, Whole, caller.request, caller.kind)
    PROVE  /\ CallerFits' /\ Heard' /\ Len(Whole') = Len(Whole) + 1
           /\ AllData(Whole) /\ f.what \in Data => AllData(Whole')
<1>1. UNCHANGED <<caller, inbox, worker, channel, requests>>
  BY DEF B!rust
<1>2. Heard'
  BY <1>1 DEF Heard
<1>3. frames \in Seq(Event) /\ (worker.at = "sending" => worker.event \in Event)
  BY DEF BridgeInv, OperationFits
<1>4. Coming' = Append(Coming, f)
  <2>1. CASE worker.at = "sending"
    <3>1. Coming = <<worker.event>> \o frames
      BY <2>1 DEF Coming
    <3>2. Coming' = <<worker.event>> \o Append(frames, f)
      BY <1>1, <1>2, <2>1 DEF Coming
    <3>3. <<worker.event>> \in Seq(Event) /\ <<f>> \in Seq(Event)
      BY <1>3, <2>1
    <3>4. Append(frames, f) = frames \o <<f>>
      BY <1>3, AppendIsConcat
    <3>5. <<worker.event>> \o frames \in Seq(Event)
      BY <1>3, <3>3
    <3>6. Append(<<worker.event>> \o frames, f) = (<<worker.event>> \o frames) \o <<f>>
      BY <3>5, AppendIsConcat
    <3>7. (<<worker.event>> \o frames) \o <<f>> = <<worker.event>> \o (frames \o <<f>>)
      BY <1>3, <3>3, ConcatAssociative
    <3> QED BY <3>1, <3>2, <3>4, <3>6, <3>7
  <2>2. CASE worker.at # "sending"
    BY <1>1, <1>2, <2>2 DEF Coming
  <2> QED BY <2>1, <2>2
<1> DEFINE w == Whole
           b == caller.got \o channel
           c == Coming
<1>5. /\ caller.at = "receiving" /\ b \in Seq(Event) /\ c \in Seq(Event) /\ w \in Seq(Event)
      /\ Continues(w, caller.request, caller.kind) /\ w = b \o c
  BY WholeSaid DEF Whole
<1>6. Whole' = b \o Append(c, f)
  BY <1>1, <1>4 DEF Whole
<1> HIDE DEF b, c
<1>7. b \o Append(c, f) = Append(w, f)
  <2>1. Append(c, f) = c \o <<f>> /\ Append(w, f) = w \o <<f>> /\ <<f>> \in Seq(Event)
    BY <1>5, AppendIsConcat
  <2>2. (b \o c) \o <<f>> = b \o (c \o <<f>>)
    BY <1>5, <2>1, ConcatAssociative
  <2> QED BY <1>5, <2>1, <2>2
<1> HIDE DEF w
<1>8. /\ Continues(Whole', caller.request, caller.kind)
      /\ Len(Whole') = Len(w) + 1
      /\ AllData(w) /\ f.what \in Data => AllData(Whole')
  <2>1. IsNext(f, w, caller.request, caller.kind)
    BY DEF w
  <2>2. /\ Continues(Append(w, f), caller.request, caller.kind)
        /\ Len(Append(w, f)) = Len(w) + 1
        /\ AllData(w) /\ f.what \in Data => AllData(Append(w, f))
    BY <1>5, <2>1, ContinuesAppend
  <2> QED BY <1>6, <1>7, <2>2
<1>9. CallerFits'
  BY <1>1, <1>2, <1>5, <1>8 DEF BridgeInv, CallerFits
<1> QED BY <1>2, <1>8, <1>9 DEF w

\* What stays of an operation.
Remains ==
    /\ DOMAIN operation' = OpFields
    /\ operation'.request = operation.request /\ operation'.kind = operation.kind

LEMMA RequestsKept ==
    ASSUME RequestsFit, UNCHANGED B!rust, Remains
    PROVE  RequestsFit'
  BY DEF RequestsFit, B!rust, Remains

LEMMA AnswersKept ==
    ASSUME B!AnswersAreWhole, UNCHANGED caller
    PROVE  B!AnswersAreWhole'
  BY DEF B!AnswersAreWhole

\* Once the worker has failed nothing of Photos' side is heard.
LEMMA UnheardStep ==
    ASSUME BridgeInv, ~Alive, UNCHANGED B!rust, Remains
    PROVE  BridgeInv'
<1>1. UNCHANGED <<caller, inbox, worker, channel, requests>>
  BY DEF B!rust
<1>2. ~Alive' /\ ~Heard
  BY <1>1 DEF Alive, Heard
<1>3. CallerFits'
  BY <1>2, CallerUnmoved DEF BridgeInv
<1>4. OperationFits'
  BY <1>2 DEF OperationFits
<1> QED BY <1>1, <1>3, <1>4, RequestsKept, AnswersKept DEF BridgeInv, Remains

Phases == Over \/ Waits \/ Emits \/ Installs \/ Asks \/ Transfers \/ Fails \/ Unanswering

\* A step that queues nothing and does not end the operation.
LEMMA QuietStep ==
    ASSUME BridgeInv, Alive, UNCHANGED B!rust, Remains, UNCHANGED <<lifecycle, frames>>,
           operation'.terminal = operation.terminal, Phases',
           Counted' => Counted /\ Queued' = Queued
    PROVE  BridgeInv'
<1>1. UNCHANGED <<caller, inbox, worker, channel, requests>>
  BY DEF B!rust
<1>2. CallerFits' /\ Whole' = Whole /\ (Heard' <=> Heard)
  BY CallerUnmoved DEF BridgeInv
<1>3. OperationFits'
  <2>1. /\ lifecycle = "open" /\ frames \in Seq(Event)
        /\ operation.request \in Nat
        /\ worker.at \in {"idle", "finishing"} => operation.terminal /\ frames = <<>>
        /\ worker.at = "sending" => worker.event \in Event
        /\ worker.at = "sending" /\ worker.event.what \in B!Terminals
             => operation.terminal /\ frames = <<>>
        /\ \A i \in DOMAIN frames : frames[i].what \in B!Terminals
                                      => operation.terminal /\ i = Len(frames)
    BY DEF BridgeInv, OperationFits
  <2>2. /\ Heard /\ ~operation.terminal => AllData(Whole)
        /\ Heard /\ Counted => Len(Whole) = Queued
    BY DEF BridgeInv, OperationFits
  <2>3. /\ Heard' /\ ~operation'.terminal => AllData(Whole')
        /\ Heard' /\ Counted' => Len(Whole') = Queued'
    BY <1>2, <2>2
  <2> QED BY <1>1, <2>1, <2>3 DEF OperationFits, Remains, Phases, B!Terminals
<1> QED BY <1>1, <1>2, <1>3, RequestsKept, AnswersKept DEF BridgeInv, Remains

\* A step that queues a frame: data, or the end of the operation.
LEMMA QueueingStep ==
    ASSUME BridgeInv, Alive, UNCHANGED B!rust, Remains, UNCHANGED lifecycle, NEW f \in Event,
           frames' = Append(frames, f), ~operation.terminal,
           \/ /\ f.what \in Data /\ f.what = Datum(operation.kind)
              /\ f.request = operation.request /\ f.index = Queued
              /\ Queued < B!count(operation.kind)
              /\ Counted /\ Counted' /\ Queued' = Queued + 1 /\ ~operation'.terminal
           \/ /\ f.what \in B!Terminals /\ operation'.terminal /\ Over'
              /\ f.what = "completed" => Counted /\ Queued = B!count(operation.kind)
    PROVE  BridgeInv'
<1>1. UNCHANGED <<caller, inbox, worker, channel, requests>>
  BY DEF B!rust
<1>2. /\ lifecycle = "open" /\ frames \in Seq(Event)
      /\ operation.request \in Nat
      /\ worker.at \notin {"idle", "finishing"}
      /\ worker.at = "sending" => worker.event \in Event /\ worker.event.what \notin B!Terminals
      /\ \A i \in DOMAIN frames : frames[i].what \notin B!Terminals
      /\ Heard => AllData(Whole)
      /\ Heard /\ Counted => Len(Whole) = Queued
  BY DEF BridgeInv, OperationFits
<1>3. /\ frames' \in Seq(Event) /\ DOMAIN frames' = DOMAIN frames \cup {Len(frames')}
      /\ \A i \in DOMAIN frames : frames'[i] = frames[i]
      /\ frames'[Len(frames')] = f
  <2>1. /\ Append(frames, f) \in Seq(Event) /\ Len(Append(frames, f)) = Len(frames) + 1
        /\ Len(frames) \in Nat /\ DOMAIN frames = 1..Len(frames)
        /\ DOMAIN Append(frames, f) = 1..(Len(frames) + 1)
        /\ \A i \in 1..Len(frames) : Append(frames, f)[i] = frames[i]
        /\ Append(frames, f)[Len(frames) + 1] = f
    BY <1>2, AppendProperties
  <2> QED BY <2>1
<1>4. \A i \in DOMAIN frames' : frames'[i].what \in B!Terminals
                                  => operation'.terminal /\ i = Len(frames')
  <2>1. f.what \in Data => f.what \notin B!Terminals
    BY DEF Data, B!Terminals
  <2> QED BY <1>2, <1>3, <2>1
<1>5. ASSUME Heard
      PROVE  /\ CallerFits' /\ Heard'
             /\ ~operation'.terminal => AllData(Whole')
             /\ Counted' => Len(Whole') = Queued'
  <2>1. IsNext(f, Whole, caller.request, caller.kind)
    <3>1. caller.request = operation.request /\ caller.kind = operation.kind
      BY <1>5, WholeSaid
    <3>2. f.what \in B!Terminals => f.what \notin Data
      BY DEF Data, B!Terminals
    <3>3. f.what \in Data => f.what # "completed"
      BY DEF Data
    <3> QED BY <1>2, <1>5, <3>1, <3>2, <3>3 DEF IsNext
  <2>2. /\ CallerFits' /\ Heard' /\ Len(Whole') = Len(Whole) + 1
        /\ AllData(Whole) /\ f.what \in Data => AllData(Whole')
    BY <1>5, <2>1, CallerHearsMore
  <2>3. operation'.terminal => ~Counted'
    BY DEF Counted, Waits, Emits, Installs, Asks, Transfers, Fresh, Started
  <2> QED BY <1>2, <1>5, <2>2, <2>3
<1>6. ~Heard => CallerFits' /\ ~Heard'
  BY CallerUnmoved DEF BridgeInv
<1>7. Phases'
  BY DEF Phases, Counted
<1>8. OperationFits'
  BY <1>1, <1>2, <1>3, <1>4, <1>5, <1>6, <1>7 DEF OperationFits, Remains, Phases, B!Terminals
<1> QED BY <1>1, <1>5, <1>6, <1>8, RequestsKept, AnswersKept DEF BridgeInv, Remains

-----------------------------------------------------------------------------
(* The side of Photos: the main thread and the callbacks.                   *)

LEMMA Finishes ==
    ASSUME BridgeInv, Alive, ~operation.terminal, UNCHANGED B!rust, UNCHANGED lifecycle,
           NEW what \in B!Terminals, NEW n \in Nat, B!finish(operation, what, n),
           what = "completed" => Counted /\ Queued = B!count(operation.kind),
           NoneLeft', main'.at \in {"idle", "register"},
           main'.at = "register" => main'.request \in 0..operation.request
    PROVE  BridgeInv'
<1>1. DOMAIN operation = OpFields /\ lifecycle = "open" /\ operation.request \in Nat
  BY DEF BridgeInv, OperationFits
<1>2. /\ operation' = [operation EXCEPT !.terminal = TRUE, !.listed = FALSE]
      /\ frames' = Append(frames, B!Frame(operation.request, what, n))
  BY <1>1 DEF B!finish
<1>3. Remains /\ operation'.terminal
  BY <1>1, <1>2 DEF Remains, OpFields
<1> DEFINE f == B!Frame(operation.request, what, n)
<1>4. f \in Event /\ f.what = what
  BY <1>1 DEF B!Frame, Event, B!Terminals
<1>5. Over'
  BY <1>3 DEF Over, Remains
<1> HIDE DEF f
<1>6. frames' = Append(frames, f)
  BY <1>2 DEF f
<1> QED BY <1>3, <1>4, <1>5, <1>6, QueueingStep

\* Which of the steps of an operation a place is in.
LEMMA PhaseOf ==
    ASSUME BridgeInv, Alive
    PROVE  /\ Phases /\ lifecycle = "open" /\ DOMAIN operation = OpFields
           /\ "execute" \in dispatched => Waits
           /\ "cancel_request" \in dispatched => Fails /\ main.at = "idle"
           /\ main.at = "emitting" => Emits
           /\ main.at = "install" => Installs
           /\ main.at = "request" => Asks
           /\ main.at = "register" => Over \/ Waits \/ Transfers \/ Fails
           /\ callback.at # "idle" => Transfers
<1>1. Phases /\ lifecycle = "open" /\ DOMAIN operation = OpFields
  BY DEF BridgeInv, OperationFits, Phases
<1> QED
  BY <1>1 DEF Phases, Over, Waits, Emits, Installs, Asks, Transfers, Fails, Unanswering, NoneLeft,
              MainIsOff, Registered

LEMMA Step_execute == ASSUME BridgeInv, Alive, B!execute PROVE BridgeInv'
<1>1. /\ Waits /\ main.at = "idle" /\ UNCHANGED <<B!rust, lifecycle, frames, operation, callback>>
      /\ dispatched' = dispatched \ {"execute"}
      /\ DOMAIN operation = OpFields
  BY PhaseOf DEF B!execute
<1>2. main' = [at |-> IF operation.kind = "stream" THEN "install" ELSE "emitting",
               left |-> B!count(operation.kind)]
  BY <1>1 DEF B!execute, B!isStopped, Waits, Fresh, Started
<1>3. Installs' \/ Emits'
  <2>1. NoneLeft' /\ Fresh'
    BY <1>1 DEF Waits, NoneLeft, Fresh, Started
  <2>2. CASE operation.kind = "stream"
    BY <1>1, <1>2, <2>1, <2>2 DEF Installs
  <2>3. CASE operation.kind # "stream"
    <3>1. /\ main'.at = "emitting" /\ main'.left = B!count(operation'.kind)
          /\ DOMAIN main' = {"at", "left"}
      BY <1>1, <1>2, <2>3
    <3>2. B!count(operation'.kind) \in 0..B!count(operation'.kind)
      BY Counts
    <3>3. main'.left \in 0..B!count(operation'.kind)
      BY <3>1, <3>2
    <3> QED BY <1>1, <2>1, <2>3, <3>1, <3>3 DEF Emits
  <2> QED BY <2>2, <2>3
<1>4. Queued = 0 /\ Queued' = 0
  <2>1. operation.accepted = 0 /\ callback.at = "idle"
    BY <1>1 DEF Waits, Fresh
  <2>2. B!count(operation.kind) - B!count(operation.kind) = 0
    BY Counts
  <2>3. Queued = 0
    BY <1>1, <2>1 DEF Queued
  <2>4. CASE operation.kind = "stream"
    BY <1>1, <1>2, <2>1, <2>4 DEF Queued
  <2>5. CASE operation.kind # "stream"
    <3>1. main'.at = "emitting" /\ main'.left = B!count(operation.kind)
      BY <1>2, <2>5
    <3> QED BY <1>1, <2>2, <2>3, <3>1 DEF Queued
  <2> QED BY <2>3, <2>4, <2>5
<1> QED BY <1>1, <1>3, <1>4, QuietStep DEF Remains, Phases, Counted

LEMMA Step_execute_fails == ASSUME BridgeInv, Alive, B!execute_fails PROVE BridgeInv'
<1>1. /\ Emits \/ Installs
      /\ UNCHANGED <<B!rust, lifecycle>> /\ main' = [at |-> "idle"]
      /\ DOMAIN operation = OpFields
  BY PhaseOf DEF B!execute_fails, B!Idle
<1>2. /\ ~operation.terminal /\ ~operation.cancelled /\ operation.cancellation = "none"
      /\ callback.at = "idle" /\ dispatched = {}
  BY <1>1 DEF Emits, Installs, Fresh, Started, NoneLeft
<1>3. CASE B!stopAfterCancellation /\ callback' = B!Stopped
  <2>1. B!finish(operation, "failed", 0) /\ UNCHANGED dispatched
    BY <1>2, <1>3 DEF B!stopAfterCancellation, B!isStopped
  <2>2. UNCHANGED callback
    BY <1>2, <1>3 DEF B!Stopped, B!Broadcast
  <2>3. NoneLeft' /\ main'.at = "idle"
    BY <1>1, <1>2, <2>1, <2>2 DEF NoneLeft
  <2>4. "failed" \in B!Terminals /\ 0 \in Nat
    BY DEF B!Terminals
  <2> QED BY <1>1, <1>2, <2>1, <2>3, <2>4, Finishes
<1>4. CASE operation.kind = "authorize" /\ UNCHANGED <<operation, frames, dispatched, callback>>
  <2>1. Unanswering'
    BY <1>1, <1>2, <1>4 DEF Emits, Installs, Fresh, Started, NoneLeft, Unanswering
  <2>2. ~Counted'
    BY <2>1 DEF Unanswering, NoneLeft, Counted, Waits, Emits, Installs, Asks, Transfers
  <2> QED BY <1>1, <1>4, <2>1, <2>2, QuietStep DEF Remains, Phases
<1> QED BY <1>3, <1>4 DEF B!execute_fails

LEMMA Step_emit == ASSUME BridgeInv, Alive, B!emit PROVE BridgeInv'
<1>1. /\ Emits /\ UNCHANGED <<B!rust, lifecycle, dispatched>> /\ lifecycle = "open"
      /\ main.at = "emitting" /\ DOMAIN operation = OpFields /\ operation.request \in Nat
  <2>1. operation.request \in Nat
    BY DEF BridgeInv, OperationFits
  <2> QED BY <2>1, PhaseOf DEF B!emit
<1>2. /\ ~operation.terminal /\ ~operation.cancelled /\ callback.at = "idle" /\ dispatched = {}
      /\ main.left \in 0..B!count(operation.kind)
      /\ Queued = B!count(operation.kind) - main.left
  BY <1>1 DEF Emits, Fresh, Started, NoneLeft, Queued
<1>3. UNCHANGED callback
  BY <1>2 DEF B!emit, B!Stopped, B!Broadcast
<1>4. B!count(operation.kind) \in Nat
  BY Counts
<1>5. CASE main.left > 0
  <2> DEFINE f == B!Frame(operation.request, "item", B!count(operation.kind) - main.left)
  <2>1. /\ frames' = Append(frames, f) /\ main' = [main EXCEPT !.left = @ - 1]
        /\ UNCHANGED operation
    BY <1>1, <1>2, <1>5 DEF B!emit, B!isStopped, B!emitControl
  <2>2. /\ f \in Event /\ f.what \in Data /\ f.request = operation.request
        /\ f.index = B!count(operation.kind) - main.left /\ f.what = Datum(operation.kind)
    BY <1>1, <1>2, <1>4 DEF B!Frame, Event, Data, Datum, Emits
  <2> HIDE DEF f
  <2>3. f.index = Queued /\ Queued < B!count(operation.kind)
    BY <1>2, <1>4, <1>5, <2>2
  <2>4. Counted /\ Remains
    BY <1>1, <2>1 DEF Counted, Remains
  <2>5. main'.at = "emitting" /\ main'.left = main.left - 1 /\ DOMAIN main' = {"at", "left"}
    BY <1>1, <1>2, <2>1 DEF Emits
  <2>6. Emits'
    BY <1>1, <1>2, <1>3, <1>4, <1>5, <2>1, <2>5 DEF Emits, Fresh, Started, NoneLeft
  <2>7. Queued' = Queued + 1
    <3>1. Queued' = B!count(operation.kind) - main'.left
      BY <2>1, <2>5 DEF Queued
    <3> QED BY <1>2, <1>4, <2>5, <3>1
  <2> QED BY <1>1, <1>2, <2>1, <2>2, <2>3, <2>4, <2>6, <2>7, QueueingStep DEF Counted
<1>6. CASE ~(main.left > 0)
  <2>1. B!finish(operation, "completed", B!count(operation.kind)) /\ main' = [at |-> "idle"]
    BY <1>1, <1>2, <1>6 DEF B!emit, B!isStopped, B!Idle
  <2>2. Counted /\ Queued = B!count(operation.kind)
    BY <1>1, <1>2, <1>4, <1>6 DEF Counted
  <2>3. NoneLeft' /\ main'.at = "idle" /\ "completed" \in B!Terminals
    BY <1>1, <1>2, <1>3, <2>1 DEF NoneLeft, B!Terminals
  <2> QED BY <1>1, <1>2, <1>4, <2>1, <2>2, <2>3, Finishes
<1> QED BY <1>5, <1>6

LEMMA Step_install_cancellation ==
    ASSUME BridgeInv, Alive, B!install_cancellation PROVE BridgeInv'
<1>1. /\ Installs /\ UNCHANGED <<B!rust, lifecycle, frames, dispatched, callback>>
      /\ DOMAIN operation = OpFields /\ main.at = "install"
  BY PhaseOf DEF B!install_cancellation
<1>2. /\ operation' = [operation EXCEPT !.cancellation = "installed"]
      /\ main' = [at |-> "request"]
  BY <1>1 DEF B!install_cancellation, B!isStopped, Installs, Fresh, Started
<1>3. /\ Remains /\ operation'.terminal = operation.terminal
      /\ operation'.cancelled = operation.cancelled /\ operation'.accepted = operation.accepted
      /\ operation'.cancellation = "installed"
  BY <1>1, <1>2 DEF Remains, OpFields
<1>4. Asks'
  BY <1>1, <1>2, <1>3 DEF Installs, Asks, Fresh, Started, NoneLeft, Remains
<1>5. Queued' = Queued
  BY <1>1, <1>2, <1>3 DEF Queued
<1> QED BY <1>1, <1>3, <1>4, <1>5, QuietStep DEF Phases, Counted

LEMMA Step_request_data == ASSUME BridgeInv, Alive, B!request_data PROVE BridgeInv'
<1>1. /\ Asks /\ UNCHANGED <<B!rust, lifecycle, frames, operation, dispatched>>
      /\ DOMAIN operation = OpFields /\ main.at = "request" /\ photos' = 2
      /\ callback' = [at |-> "returned", request |-> operation.request]
      /\ main' = [at |-> "register", request |-> operation.request]
  BY PhaseOf DEF B!request_data
<1>2. Transfers'
  BY <1>1 DEF Asks, Transfers, Started, NoneLeft, Registered
<1>3. Queued' = Queued
  BY <1>1 DEF Queued, Asks, NoneLeft
<1> QED BY <1>1, <1>2, <1>3, QuietStep DEF Phases, Counted, Remains

LEMMA Step_request_throws == ASSUME BridgeInv, Alive, B!request_throws PROVE BridgeInv'
<1>1. /\ Asks /\ UNCHANGED <<B!rust, lifecycle, dispatched>> /\ main' = [at |-> "idle"]
      /\ B!finish(operation, "failed", 0) /\ callback' = B!Stopped
  BY PhaseOf DEF B!request_throws, B!Idle
<1>2. ~operation.terminal /\ callback.at = "idle" /\ dispatched = {}
  BY <1>1 DEF Asks, Started, NoneLeft
<1>3. NoneLeft' /\ main'.at = "idle" /\ "failed" \in B!Terminals /\ 0 \in Nat
  BY <1>1, <1>2 DEF NoneLeft, B!Stopped, B!Broadcast, B!Terminals
<1> QED BY <1>1, <1>2, <1>3, Finishes

LEMMA Step_register == ASSUME BridgeInv, Alive, B!register PROVE BridgeInv'
<1>1. /\ Over \/ Waits \/ Transfers \/ Fails
      /\ UNCHANGED <<B!rust, lifecycle, dispatched>> /\ main' = [at |-> "idle"]
      /\ DOMAIN operation = OpFields /\ main.at = "register" /\ lifecycle = "open"
      /\ callback' = B!Stopped
  BY PhaseOf DEF B!register, B!Idle
<1>2. IF operation.request = main.request /\ operation.cancellation = "pending"
      THEN B!finish(operation, "failed", 0)
      ELSE /\ operation' = IF operation.request = main.request
                           THEN [operation EXCEPT !.cancellation = "registered"] ELSE operation
           /\ UNCHANGED <<frames, photos>>
  BY DEF B!register
<1>3. CASE Over
  <2>1. /\ Remains /\ operation'.terminal /\ UNCHANGED frames
    BY <1>1, <1>2, <1>3 DEF Over, B!finish, Remains, OpFields
  <2>2. callback.at = "idle" /\ UNCHANGED callback
    BY <1>1, <1>3 DEF Over, NoneLeft, B!Stopped, B!Broadcast
  <2>3. Over'
    BY <1>1, <1>3, <2>1, <2>2 DEF Over, NoneLeft
  <2>4. ~Counted' /\ operation'.terminal = operation.terminal
    BY <1>3, <2>3, <2>1
    DEF Over, BridgeInv, Counted, Waits, Emits, Installs, Asks, Transfers, NoneLeft, Fresh, Started
  <2> QED BY <1>1, <2>1, <2>3, <2>4, QuietStep DEF Phases
<1>4. CASE Waits
  <2>1. operation.request # main.request
    <3>1. main.request \in Nat /\ main.request < operation.request /\ operation.request \in Nat
      BY <1>1, <1>4 DEF Waits, MainIsOff, BridgeInv, OperationFits
    <3> QED BY <3>1
  <2>2. UNCHANGED <<operation, frames>>
    BY <1>2, <2>1
  <2>3. UNCHANGED callback
    BY <1>1, <1>4 DEF Waits, B!Stopped, B!Broadcast
  <2>4. Waits' /\ Remains
    BY <1>1, <1>4, <2>2, <2>3 DEF Waits, Fresh, Started, MainIsOff, Remains
  <2>5. Queued' = Queued
    BY <1>1, <2>2, <2>3 DEF Queued
  <2> QED BY <1>1, <1>4, <2>2, <2>4, <2>5, QuietStep DEF Phases, Counted
<1>5. CASE Transfers
  <2>1. /\ main.request = operation.request /\ operation.cancellation # "pending"
        /\ ~operation.terminal /\ ~operation.cancelled
    BY <1>1, <1>5 DEF Transfers, Registered, Started
  <2>2. /\ operation' = [operation EXCEPT !.cancellation = "registered"]
        /\ UNCHANGED <<frames, photos>>
    BY <1>2, <2>1
  <2>3. /\ Remains /\ operation'.terminal = operation.terminal
        /\ operation'.cancelled = operation.cancelled
        /\ operation'.accepted = operation.accepted
        /\ operation'.cancellation = "registered"
    BY <1>1, <2>2 DEF Remains, OpFields
  <2>4. UNCHANGED callback
    BY <1>1, <2>1, <2>3 DEF B!Stopped
  <2>5. Transfers'
    BY <1>1, <1>5, <2>2, <2>3, <2>4 DEF Transfers, Started, Registered, Remains
  <2>6. Queued' = Queued
    BY <1>1, <2>3, <2>4 DEF Queued
  <2> QED BY <1>1, <1>5, <2>2, <2>3, <2>5, <2>6, QuietStep DEF Phases, Counted
<1>6. CASE Fails
  <2>1. /\ main.request = operation.request /\ operation.cancellation = "pending"
        /\ ~operation.terminal /\ callback.at = "idle" /\ dispatched = {}
    BY <1>1, <1>6 DEF Fails, Started
  <2>2. B!finish(operation, "failed", 0)
    BY <1>2, <2>1
  <2>3. NoneLeft' /\ main'.at = "idle" /\ "failed" \in B!Terminals /\ 0 \in Nat
    BY <1>1, <2>1 DEF NoneLeft, B!Stopped, B!Broadcast, B!Terminals
  <2> QED BY <1>1, <2>1, <2>2, <2>3, Finishes
<1> QED BY <1>1, <1>3, <1>4, <1>5, <1>6

LEMMA Step_cancel_request == ASSUME BridgeInv, Alive, B!cancel_request PROVE BridgeInv'
<1>1. /\ Fails /\ main.at = "idle" /\ UNCHANGED <<B!rust, lifecycle, main>>
      /\ dispatched' = dispatched \ {"cancel_request"}
      /\ B!finish(operation, "failed", 0) /\ callback' = B!Stopped
  BY PhaseOf DEF B!cancel_request
<1>2. ~operation.terminal /\ callback.at = "idle" /\ dispatched = {"cancel_request"}
  BY <1>1 DEF Fails, Started
<1>3. NoneLeft' /\ main'.at = "idle" /\ "failed" \in B!Terminals /\ 0 \in Nat
  BY <1>1, <1>2 DEF NoneLeft, B!Stopped, B!Broadcast, B!Terminals
<1> QED BY <1>1, <1>2, <1>3, Finishes

LEMMA Step_acceptCallbackBytes ==
    ASSUME BridgeInv, Placed, Alive, B!acceptCallbackBytes PROVE BridgeInv'
<1>1. /\ Transfers /\ UNCHANGED <<B!rust, lifecycle, frames, main, dispatched>>
      /\ callback.at = "returned" /\ photos > 0 /\ photos' = photos - 1
      /\ DOMAIN operation = OpFields
  BY PhaseOf DEF B!acceptCallbackBytes
<1>2. ~operation.terminal /\ ~operation.cancelled
  BY <1>1 DEF Transfers, Started
<1>3. /\ operation' = [operation EXCEPT !.accepted = @ + 1]
      /\ callback' = [callback EXCEPT !.at = "enqueue"]
  BY <1>2 DEF B!acceptCallbackBytes, B!isStopped
<1>4. /\ Remains /\ operation'.terminal = operation.terminal
      /\ operation'.cancelled = operation.cancelled
      /\ operation'.accepted = operation.accepted + 1
      /\ operation'.cancellation = operation.cancellation
  BY <1>1, <1>3 DEF Remains, OpFields
<1>5. callback'.at = "enqueue"
  BY <1>3 DEF Placed
<1>6. main.at \in {"register", "idle"}
  BY <1>1 DEF Transfers, Registered
<1>7. operation.accepted \in Nat /\ photos \in Nat /\ operation.accepted + photos = 2
  BY <1>1 DEF Transfers
<1>8. operation'.accepted \in Nat /\ photos' \in Nat /\ operation'.accepted + photos' = 2
      /\ operation'.accepted > 0
  BY <1>1, <1>4, <1>7
<1>9. Transfers'
  BY <1>1, <1>4, <1>5, <1>8 DEF Transfers, Started, Registered, Remains
<1>10. Queued' = Queued
  <2>1. Queued = operation.accepted /\ Queued' = operation'.accepted - 1
    BY <1>1, <1>5, <1>6 DEF Queued
  <2> QED BY <1>4, <1>7, <2>1
<1> QED BY <1>1, <1>4, <1>9, <1>10, QuietStep DEF Phases, Counted

LEMMA Step_enqueueBinary == ASSUME BridgeInv, Placed, Alive, B!enqueueBinary PROVE BridgeInv'
<1>1. /\ Transfers /\ UNCHANGED <<B!rust, lifecycle, operation, main, dispatched, photos>>
      /\ callback.at = "enqueue" /\ lifecycle = "open" /\ DOMAIN operation = OpFields
  BY PhaseOf DEF B!enqueueBinary
<1>2. /\ ~operation.terminal /\ ~operation.cancelled
      /\ main.at \in {"register", "idle"} /\ operation.kind = "stream"
      /\ operation.accepted \in Nat /\ photos \in Nat /\ operation.accepted + photos = 2
      /\ operation.accepted > 0
  BY <1>1 DEF Transfers, Started, Registered
<1>3. Queued = operation.accepted - 1
  BY <1>1, <1>2 DEF Queued
<1>4. Remains
  BY <1>1 DEF Remains
<1> DEFINE f == B!Frame(operation.request, "chunk", operation.accepted - 1)
<1>5. \/ callback' = [callback EXCEPT !.at = "waiting"] /\ UNCHANGED frames
      \/ frames' = Append(frames, f) /\ callback' = [callback EXCEPT !.at = "returned"]
  BY <1>1, <1>2 DEF B!enqueueBinary, B!gives_up, B!isStopped
<1>6. CASE callback' = [callback EXCEPT !.at = "waiting"] /\ UNCHANGED frames
  <2>1. callback'.at = "waiting"
    BY <1>6 DEF Placed
  <2>2. Transfers'
    BY <1>1, <1>2, <2>1 DEF Transfers, Started, Registered
  <2>3. Queued' = Queued
    BY <1>1, <1>2, <1>3, <2>1 DEF Queued
  <2> QED BY <1>1, <1>4, <1>6, <2>2, <2>3, QuietStep DEF Phases, Counted
<1>7. CASE frames' = Append(frames, f) /\ callback' = [callback EXCEPT !.at = "returned"]
  <2>1. callback'.at = "returned"
    BY <1>7 DEF Placed
  <2>2. Transfers'
    BY <1>1, <1>2, <2>1 DEF Transfers, Started, Registered
  <2>3. operation.request \in Nat
    BY DEF BridgeInv, OperationFits
  <2>4. /\ f \in Event /\ f.what \in Data /\ f.request = operation.request
        /\ f.index = operation.accepted - 1 /\ f.what = Datum(operation.kind)
    BY <1>2, <2>3 DEF B!Frame, Event, Data, Datum
  <2>5. B!count(operation.kind) = 2
    BY <1>2 DEF B!count
  <2>6. Queued' = Queued + 1
    <3>1. Queued' = operation.accepted
      BY <1>1, <1>2, <2>1 DEF Queued
    <3> QED BY <1>2, <1>3, <3>1
  <2> HIDE DEF f
  <2>7. f.index = Queued /\ Queued < B!count(operation.kind)
    BY <1>2, <1>3, <2>4, <2>5
  <2>8. ~operation'.terminal
    BY <1>1, <1>2
  <2> QED BY <1>1, <1>2, <1>4, <1>7, <2>2, <2>4, <2>6, <2>7, <2>8, QueueingStep DEF Counted
<1> QED BY <1>5, <1>6, <1>7

LEMMA Step_completionHandler ==
    ASSUME BridgeInv, Placed, Alive, B!completionHandler PROVE BridgeInv'
<1>1. /\ Transfers
      /\ UNCHANGED <<B!rust, lifecycle, frames, operation, main, dispatched, photos>>
      /\ callback.at = "returned" /\ photos = 0 /\ DOMAIN operation = OpFields
  BY PhaseOf DEF B!completionHandler
<1>2. ~operation.terminal /\ ~operation.cancelled
  BY <1>1 DEF Transfers, Started
<1>3. callback' = [callback EXCEPT !.at = "completing"]
  BY <1>2 DEF B!completionHandler, B!isStopped
<1>4. callback'.at = "completing"
  BY <1>3 DEF Placed
<1>5. Transfers' /\ Remains
  BY <1>1, <1>4 DEF Transfers, Started, Registered, Remains
<1>6. Queued' = Queued
  BY <1>1, <1>4 DEF Queued
<1> QED BY <1>1, <1>5, <1>6, QuietStep DEF Phases, Counted

LEMMA Step_complete == ASSUME BridgeInv, Alive, B!complete PROVE BridgeInv'
<1>1. /\ Transfers /\ UNCHANGED <<B!rust, lifecycle, main, dispatched>>
      /\ callback.at = "completing" /\ callback' = [at |-> "idle"]
      /\ B!finish(operation, "completed", operation.accepted)
  BY PhaseOf DEF B!complete, B!Idle
<1>2. /\ ~operation.terminal /\ main.at \in {"register", "idle"} /\ operation.kind = "stream"
      /\ operation.accepted = 2 /\ dispatched = {}
      /\ main.at = "register" => main.request = operation.request
  BY <1>1 DEF Transfers, Started, Registered
<1>3. Counted /\ Queued = B!count(operation.kind)
  BY <1>1, <1>2 DEF Counted, Queued, B!count
<1>4. NoneLeft' /\ main'.at \in {"idle", "register"} /\ "completed" \in B!Terminals
  BY <1>1, <1>2 DEF NoneLeft, B!Terminals
<1>5. operation.accepted \in Nat
  BY <1>2
<1>6. main'.at = "register" => main'.request \in 0..operation.request
  <2>1. operation.request \in Nat
    BY DEF BridgeInv, OperationFits
  <2> QED BY <1>1, <1>2, <2>1
<1> QED BY <1>1, <1>2, <1>3, <1>4, <1>5, <1>6, Finishes

LEMMA Step_transfer_fails == ASSUME BridgeInv, Alive, B!transfer_fails PROVE BridgeInv'
<1>1. /\ Transfers /\ UNCHANGED <<B!rust, lifecycle, main>>
      /\ B!stopAfterCancellation /\ callback' = [at |-> "idle"] /\ DOMAIN operation = OpFields
  BY PhaseOf DEF B!transfer_fails, B!Idle
<1>2. ~operation.terminal /\ ~operation.cancelled /\ dispatched = {} /\ UNCHANGED frames
  BY <1>1 DEF Transfers, Started, B!stopAfterCancellation, B!isStopped
<1>3. CASE operation.cancellation = "installed"
  <2>1. /\ operation' = [[operation EXCEPT !.cancelled = TRUE] EXCEPT !.cancellation = "pending"]
        /\ UNCHANGED dispatched
    BY <1>1, <1>2, <1>3 DEF B!stopAfterCancellation, B!isStopped
  <2>2. /\ Remains /\ operation'.terminal = operation.terminal
        /\ operation'.cancelled /\ operation'.cancellation = "pending"
    BY <1>1, <2>1 DEF Remains, OpFields
  <2>3. Fails'
    BY <1>1, <1>2, <1>3, <2>1, <2>2 DEF Transfers, Started, Registered, Fails, Remains
  <2>4. ~Counted'
    BY <2>2, <2>3
    DEF Fails, Counted, Waits, Emits, Installs, Asks, Transfers, Fresh
  <2> QED BY <1>1, <1>2, <2>2, <2>3, <2>4, QuietStep DEF Phases
<1>4. CASE operation.cancellation = "registered"
  <2>1. /\ operation' = [operation EXCEPT !.cancelled = TRUE]
        /\ dispatched' = {"cancel_request"}
    BY <1>1, <1>2, <1>4 DEF B!stopAfterCancellation, B!isStopped
  <2>2. /\ Remains /\ operation'.terminal = operation.terminal
        /\ operation'.cancelled /\ operation'.cancellation = "registered"
    BY <1>1, <1>4, <2>1 DEF Remains, OpFields
  <2>3. Fails'
    BY <1>1, <1>2, <1>4, <2>1, <2>2 DEF Transfers, Started, Registered, Fails, Remains
  <2>4. ~Counted'
    BY <2>2, <2>3
    DEF Fails, Counted, Waits, Emits, Installs, Asks, Transfers, Fresh
  <2> QED BY <1>1, <1>2, <2>2, <2>3, <2>4, QuietStep DEF Phases
<1> QED BY <1>1, <1>3, <1>4 DEF Transfers

-----------------------------------------------------------------------------
(* The side of the caller and the worker.                                   *)

LEMMA EmptyContinues ==
    ASSUME NEW r, NEW kind
    PROVE  /\ Continues(<<>>, r, kind) /\ AllData(<<>>)
           /\ (<<>> \o <<>>) \o <<>> = <<>> /\ <<>> \in Seq(Event) /\ Len(<<>>) = 0
<1>1. <<>> \in Seq(Event) /\ DOMAIN <<>> = {} /\ (<<>> \o <<>>) \o <<>> = <<>> /\ Len(<<>>) = 0
  OBVIOUS
<1> QED BY <1>1 DEF Continues, AllData

\* A step that leaves Photos' side alone.
LEMMA PhotosKept ==
    ASSUME BridgeInv, Alive, UNCHANGED B!swift,
           worker'.at \in {"idle", "finishing"} => operation.terminal /\ frames = <<>>,
           worker'.at = "sending" => worker'.event \in Event,
           worker'.at = "sending" /\ worker'.event.what \in B!Terminals
             => operation.terminal /\ frames = <<>>,
           Heard' /\ ~operation.terminal => AllData(Whole'),
           Heard' /\ Counted => Len(Whole') = Queued
    PROVE  OperationFits'
<1>1. UNCHANGED <<lifecycle, frames, operation, main, dispatched, photos, callback>>
  BY DEF B!swift
<1>2. /\ lifecycle = "open" /\ frames \in Seq(Event)
      /\ operation.request \in Nat
      /\ \A i \in DOMAIN frames : frames[i].what \in B!Terminals
                                    => operation.terminal /\ i = Len(frames)
      /\ Phases
  BY DEF BridgeInv, OperationFits, Phases
<1>3. Phases' /\ (Counted' <=> Counted) /\ Queued' = Queued
  <2>1. (Over' <=> Over) /\ (Waits' <=> Waits) /\ (Emits' <=> Emits)
    BY <1>1 DEF Over, Waits, Emits, Fresh, Started, NoneLeft, MainIsOff
  <2>2. (Installs' <=> Installs) /\ (Asks' <=> Asks) /\ (Unanswering' <=> Unanswering)
    BY <1>1 DEF Installs, Asks, Fresh, Started, NoneLeft, Unanswering
  <2>3. (Transfers' <=> Transfers) /\ (Fails' <=> Fails)
    BY <1>1 DEF Transfers, Fails, Started, Registered
  <2>4. Queued' = Queued
    BY <1>1 DEF Queued
  <2> QED BY <1>2, <2>1, <2>2, <2>3, <2>4 DEF Phases, Counted
<1> QED BY <1>1, <1>2, <1>3 DEF OperationFits, Phases, B!Terminals

\* The worker fails, or has failed: what the caller heard so far is what it hears.
LEMMA WorkerFails ==
    ASSUME BridgeInv, ~Alive', ~Heard', Remains, UNCHANGED <<caller, channel, requests>>,
           RequestsFit'
    PROVE  BridgeInv'
<1>1. OperationFits'
  BY DEF OperationFits
<1>2. CallerFits'
  <2>1. CASE caller.at # "receiving"
    BY <2>1 DEF BridgeInv, CallerFits
  <2>2. CASE caller.at = "receiving"
    <3>1. /\ caller.got \in Seq(Event) /\ channel \in Seq(Event)
          /\ Continues(Whole, caller.request, caller.kind)
      BY <2>2 DEF BridgeInv, CallerFits
    <3> DEFINE b == caller.got \o channel
    <3>2. b \in Seq(Event)
      BY <3>1
    <3>3. Whole' = b \o <<>> /\ b \o <<>> = b
      BY <3>2 DEF Whole, Coming
    <3>4. Continues(b, caller.request, caller.kind)
      <4>1. CASE Heard
        <5>1. Coming \in Seq(Event)
          BY <4>1, WholeSaid DEF Heard, Alive
        <5>2. Whole = b \o Coming
          BY DEF Whole
        <5> HIDE DEF b
        <5> QED BY <3>1, <3>2, <5>1, <5>2, ContinuesPrefix
      <4>2. CASE ~Heard
        <5>1. Whole = b \o <<>>
          BY <4>2 DEF Whole, Coming
        <5> QED BY <3>1, <3>3, <5>1
      <4> QED BY <4>1, <4>2
    <3> HIDE DEF b
    <3>5. Continues(Whole', caller.request, caller.kind)
      BY <3>3, <3>4
    <3> QED BY <2>2, <3>5 DEF BridgeInv, CallerFits
  <2> QED BY <2>1, <2>2
<1> QED BY <1>1, <1>2, AnswersKept DEF BridgeInv, Remains

LEMMA Step_start == ASSUME BridgeInv, NEW kind \in B!Kinds, B!start(kind) PROVE BridgeInv'
<1>1. /\ caller.at = "idle" /\ worker.at # "ended" /\ requests' = requests + 1
      /\ caller' = [at |-> "receiving", request |-> requests', kind |-> kind, got |-> <<>>,
                    terminal |-> "none"]
      /\ inbox' = Append(inbox, [request |-> requests', kind |-> kind])
      /\ channel' = <<>> /\ UNCHANGED <<worker, B!swift>>
  BY DEF B!start
<1>2. UNCHANGED <<worker, lifecycle, frames, operation, main, dispatched, photos, callback>>
  BY <1>1 DEF B!swift
<1>3. /\ requests \in Nat /\ operation.request \in 0..requests /\ inbox = <<>>
      /\ worker.at \in {"pumping", "sending"} => worker.request = operation.request
  BY <1>1 DEF BridgeInv, RequestsFit
<1>4. inbox' = <<[request |-> requests', kind |-> kind]>>
  BY <1>1, <1>3
<1>5. /\ requests' \in Nat /\ operation.request \in 0..requests' /\ operation.request < requests'
  BY <1>1, <1>3
<1>6. RequestsFit'
  BY <1>1, <1>2, <1>4, <1>5 DEF BridgeInv, RequestsFit
<1>7. ~Heard'
  BY <1>1, <1>2, <1>3, <1>5 DEF Heard
<1>8. Whole' = (<<>> \o <<>>) \o <<>>
  BY <1>1, <1>7 DEF Whole, Coming
<1>9. CallerFits'
  <2>1. Continues(Whole', requests', kind) /\ <<>> \in Seq(Event) /\ AllData(<<>>)
    BY <1>8, EmptyContinues
  <2> QED BY <1>1, <1>7, <2>1 DEF CallerFits
<1>10. OperationFits'
  <2>1. CASE Alive
    <3>1. /\ worker'.at \in {"idle", "finishing"} => operation.terminal /\ frames = <<>>
          /\ worker'.at = "sending" => worker'.event \in Event
          /\ worker'.at = "sending" /\ worker'.event.what \in B!Terminals
               => operation.terminal /\ frames = <<>>
      BY <1>2, <2>1 DEF BridgeInv, OperationFits
    <3> QED BY <1>1, <1>7, <2>1, <3>1, PhotosKept
  <2>2. CASE ~Alive
    BY <1>2, <2>2 DEF OperationFits, Alive
  <2> QED BY <2>1, <2>2
<1>11. B!AnswersAreWhole'
  BY <1>1 DEF B!AnswersAreWhole
<1> QED BY <1>2, <1>6, <1>9, <1>10, <1>11 DEF BridgeInv

LEMMA Step_take_request == ASSUME BridgeInv, B!take_request PROVE BridgeInv'
<1>1. /\ worker.at = "idle" /\ inbox # <<>>
      /\ worker' = [at |-> "pumping", request |-> Head(inbox).request, kind |-> Head(inbox).kind,
                    next |-> 0]
      /\ inbox' = Tail(inbox)
      /\ operation' = [request |-> Head(inbox).request, kind |-> Head(inbox).kind,
                       terminal |-> FALSE, cancelled |-> FALSE, accepted |-> 0,
                       cancellation |-> "none", listed |-> TRUE]
      /\ dispatched' = dispatched \cup {"execute"}
      /\ UNCHANGED <<caller, channel, requests, lifecycle, frames, main, photos, callback>>
  BY DEF B!take_request
<1>2. /\ inbox = <<[request |-> requests, kind |-> caller.kind]>>
      /\ caller.at = "receiving" /\ caller.got = <<>> /\ caller.terminal = "none"
      /\ channel = <<>> /\ operation.request < requests
      /\ requests \in Nat /\ operation.request \in 0..requests
  BY <1>1 DEF BridgeInv, RequestsFit
<1>3. /\ Head(inbox).request = requests /\ Head(inbox).kind = caller.kind /\ Tail(inbox) = <<>>
  BY <1>2
<1>4. caller.kind \in B!Kinds /\ caller.request = requests
  BY <1>2 DEF BridgeInv, CallerFits
<1>5. Alive /\ operation.terminal /\ frames = <<>> /\ lifecycle = "open" /\ Phases
  BY <1>1 DEF Alive, BridgeInv, OperationFits, Phases
<1>6. Over
  BY <1>5 DEF Phases, Waits, Emits, Installs, Asks, Transfers, Fails, Unanswering, Fresh, Started
<1>7. /\ callback.at = "idle" /\ dispatched = {} /\ main.at \in {"idle", "register"}
      /\ main.at = "register" => main.request \in 0..operation.request
  BY <1>6 DEF Over, NoneLeft
<1>8. /\ worker'.at = "pumping" /\ worker'.request = requests /\ worker'.kind = caller.kind
      /\ operation'.request = requests /\ operation'.kind = caller.kind /\ ~operation'.terminal
      /\ ~operation'.cancelled /\ operation'.accepted = 0 /\ operation'.cancellation = "none"
      /\ DOMAIN operation' = OpFields /\ inbox' = <<>> /\ dispatched' = {"execute"}
  BY <1>1, <1>3, <1>7 DEF OpFields
<1>9. Waits'
  <2>1. main.at = "register" => main.request \in Nat /\ main.request < requests
    BY <1>2, <1>7
  <2> QED BY <1>1, <1>4, <1>7, <1>8, <2>1 DEF Waits, Fresh, Started, MainIsOff
<1>10. Queued' = 0
  BY <1>1, <1>7, <1>8 DEF Queued
<1>11. Heard' /\ Whole' = (<<>> \o <<>>) \o <<>>
  <2>1. Heard'
    BY <1>1, <1>2, <1>4, <1>8 DEF Heard
  <2> QED BY <1>1, <1>2, <1>5, <1>8, <2>1 DEF Whole, Coming
<1>12. Continues(Whole', requests, caller.kind) /\ AllData(Whole') /\ Len(Whole') = 0
  BY <1>11, EmptyContinues
<1>13. RequestsFit'
  BY <1>1, <1>2, <1>8 DEF RequestsFit
<1>14. CallerFits'
  BY <1>1, <1>2, <1>4, <1>8, <1>12 DEF BridgeInv, CallerFits
<1>15. OperationFits'
  BY <1>1, <1>2, <1>5, <1>8, <1>9, <1>10, <1>12 DEF OperationFits
<1>16. B!AnswersAreWhole'
  BY <1>1, AnswersKept DEF BridgeInv
<1> QED BY <1>8, <1>13, <1>14, <1>15, <1>16 DEF BridgeInv

\* Who waits for room looks again.
LEMMA LooksAgain ==
    ASSUME NEW c, "at" \in DOMAIN c
    PROVE  /\ B!Broadcast(c).at = IF c.at = "waiting" THEN "enqueue" ELSE c.at
           /\ "at" \in DOMAIN B!Broadcast(c)
  BY DEF B!Broadcast

LEMMA Step_next == ASSUME BridgeInv, Placed, B!next PROVE BridgeInv'
<1>1. /\ worker.at = "pumping" /\ frames # <<>> /\ frames' = Tail(frames)
      /\ callback' = B!Broadcast(callback)
      /\ UNCHANGED <<caller, inbox, channel, requests, lifecycle, operation, main, dispatched,
                     photos>>
  BY DEF B!next
<1>2. Alive
  BY <1>1 DEF Alive
<1>3. /\ frames \in Seq(Event) /\ lifecycle = "open" /\ operation.request \in Nat /\ Phases
      /\ \A i \in DOMAIN frames : frames[i].what \in B!Terminals
                                    => operation.terminal /\ i = Len(frames)
      /\ Heard /\ ~operation.terminal => AllData(Whole)
      /\ Heard /\ Counted => Len(Whole) = Queued
  BY <1>2 DEF BridgeInv, OperationFits, Phases
<1>4. /\ Head(frames) \in Event /\ Tail(frames) \in Seq(Event) /\ Head(frames) = frames[1]
      /\ Len(frames) \in Nat /\ Len(frames) > 0 /\ Len(Tail(frames)) = Len(frames) - 1
      /\ \A i \in 1..Len(Tail(frames)) : Tail(frames)[i] = frames[i + 1]
      /\ frames = <<Head(frames)>> \o Tail(frames)
  BY <1>1, <1>3, HeadTailProperties
<1>5. Remains /\ worker.request = operation.request /\ worker.kind = operation.kind
  BY <1>1 DEF BridgeInv, RequestsFit, Remains
<1>6. CASE ~B!decodes(B!pulled)
  <2>1. worker' = [at |-> "finishing", request |-> worker.request, event |-> "error"]
    BY <1>6 DEF B!next
  <2>2. ~Alive' /\ ~Heard'
    BY <2>1 DEF Alive, Heard
  <2>3. RequestsFit'
    BY <1>1, <1>5, <2>1 DEF BridgeInv, RequestsFit
  <2> QED BY <1>1, <1>5, <2>2, <2>3, WorkerFails
<1>7. CASE B!decodes(B!pulled)
  <2>1. /\ worker'.at = "sending" /\ worker'.request = worker.request
        /\ worker'.kind = worker.kind /\ worker'.event = Head(frames)
    BY <1>7 DEF B!next, B!pulled
  <2>2. (Heard' <=> Heard) /\ Whole' = Whole
    <3>1. Heard' <=> Heard
      BY <1>1, <2>1 DEF Heard
    <3>2. Coming' = Coming
      BY <1>1, <1>4, <2>1, <3>1 DEF Coming
    <3> QED BY <1>1, <3>1, <3>2 DEF Whole
  <2>3. RequestsFit'
    BY <1>1, <1>5, <2>1 DEF BridgeInv, RequestsFit
  <2>4. CallerFits'
    BY <1>1, <2>1, <2>2 DEF BridgeInv, CallerFits, Heard
  <2>5. worker'.event.what \in B!Terminals => operation.terminal /\ frames' = <<>>
    <3> SUFFICES ASSUME frames[1].what \in B!Terminals PROVE operation.terminal /\ frames' = <<>>
      BY <1>4, <2>1
    <3>1. 1 \in DOMAIN frames
      BY <1>3, <1>4
    <3>2. operation.terminal /\ Len(frames) = 1
      BY <1>3, <3>1
    <3>3. Tail(frames) = <<>>
      BY <1>4, <3>2
    <3> QED BY <1>1, <3>2, <3>3
  <2>6. \A i \in DOMAIN frames' : frames'[i].what \in B!Terminals
                                    => operation.terminal /\ i = Len(frames')
    <3> DEFINE t == Tail(frames)
               n == Len(frames)
    <3>1. /\ DOMAIN t = 1..(n - 1) /\ Len(t) = n - 1 /\ n \in Nat /\ DOMAIN frames = 1..n
          /\ frames' = t /\ \A i \in 1..(n - 1) : t[i] = frames[i + 1]
      BY <1>1, <1>3, <1>4
    <3>2. \A i \in DOMAIN frames : frames[i].what \in B!Terminals => operation.terminal /\ i = n
      BY <1>3
    <3> HIDE DEF t, n
    <3>3. ASSUME NEW i \in 1..(n - 1), t[i].what \in B!Terminals
          PROVE  operation.terminal /\ i = n - 1
      <4>1. i + 1 \in DOMAIN frames /\ frames[i + 1].what \in B!Terminals
        BY <3>1, <3>3
      <4>2. operation.terminal /\ i + 1 = n
        BY <3>2, <4>1
      <4> QED BY <3>1, <4>2
    <3> QED BY <3>1, <3>3
  <2>7. callback'.at = IF callback.at = "waiting" THEN "enqueue" ELSE callback.at
    BY <1>1, LooksAgain DEF Placed
  <2>8. Phases' /\ (Counted' => Counted /\ Queued' = Queued)
    <3>1. (Over' <=> Over) /\ (Waits' <=> Waits) /\ (Emits' <=> Emits)
      BY <1>1, <2>7 DEF Over, Waits, Emits, Fresh, Started, NoneLeft, MainIsOff
    <3>2. (Installs' <=> Installs) /\ (Asks' <=> Asks) /\ (Unanswering' <=> Unanswering)
      BY <1>1, <2>7 DEF Installs, Asks, Fresh, Started, NoneLeft, Unanswering
    <3>3. (Transfers' <=> Transfers) /\ (Fails' <=> Fails)
      BY <1>1, <2>7 DEF Transfers, Fails, Started, Registered
    <3>4. Queued' = Queued
      BY <1>1, <2>7 DEF Queued
    <3> QED BY <1>3, <3>1, <3>2, <3>3, <3>4 DEF Phases, Counted
  <2>9. OperationFits'
    <3>1. /\ Heard' /\ ~operation'.terminal => AllData(Whole')
          /\ Heard' /\ Counted' => Len(Whole') = Queued'
      BY <1>1, <1>3, <2>2, <2>8
    <3> QED BY <1>1, <1>3, <1>4, <2>1, <2>5, <2>6, <2>8, <3>1
        DEF OperationFits, Phases, B!Terminals
  <2> QED BY <1>1, <1>5, <2>3, <2>4, <2>9, AnswersKept DEF BridgeInv, Remains
<1> QED BY <1>6, <1>7

LEMMA Step_send_event == ASSUME BridgeInv, B!send_event PROVE BridgeInv'
<1>1. /\ worker.at = "sending" /\ caller.at = "receiving" /\ caller.request = worker.request
      /\ channel' = Append(channel, worker.event)
      /\ worker' = IF worker.event.what \in B!Terminals
                   THEN [at |-> "finishing", request |-> worker.request, event |-> "finished"]
                   ELSE [at |-> "pumping", request |-> worker.request, kind |-> worker.kind,
                         next |-> worker.next]
      /\ UNCHANGED <<caller, inbox, requests, B!swift>>
  BY DEF B!send_event, B!listening
<1>2. UNCHANGED <<lifecycle, frames, operation, main, dispatched, photos, callback>>
  BY <1>1 DEF B!swift
<1>3. Alive /\ Heard
  BY <1>1 DEF Alive, Heard
<1>4. /\ frames \in Seq(Event) /\ worker.event \in Event
      /\ worker.event.what \in B!Terminals => operation.terminal /\ frames = <<>>
      /\ ~operation.terminal => AllData(Whole)
      /\ Counted => Len(Whole) = Queued
  BY <1>1, <1>3 DEF BridgeInv, OperationFits
<1>5. /\ caller.got \in Seq(Event) /\ channel \in Seq(Event) /\ caller.request = requests
      /\ Continues(Whole, caller.request, caller.kind)
  BY <1>1 DEF BridgeInv, CallerFits
<1>6. /\ worker.request = operation.request /\ worker.kind = operation.kind
      /\ requests \in Nat /\ operation.request \in 0..requests
      /\ inbox = <<>>
  BY <1>1, <1>5 DEF BridgeInv, RequestsFit
<1>7. Coming' = frames
  <2>1. CASE worker.event.what \in B!Terminals
    <3>1. ~Heard'
      BY <1>1, <2>1 DEF Heard
    <3> QED BY <1>4, <2>1, <3>1 DEF Coming
  <2>2. CASE worker.event.what \notin B!Terminals
    <3>1. Heard' /\ worker'.at = "pumping"
      BY <1>1, <2>2 DEF Heard
    <3> QED BY <1>2, <3>1 DEF Coming
  <2> QED BY <2>1, <2>2
<1>8. Whole' = Whole
  <2> DEFINE g == caller.got
             c == channel
             e == worker.event
             q == frames
  <2>1. Whole = (g \o c) \o (<<e>> \o q)
    BY <1>1, <1>3 DEF Whole, Coming
  <2>2. Whole' = (g \o Append(c, e)) \o q
    BY <1>1, <1>7 DEF Whole
  <2>3. g \in Seq(Event) /\ c \in Seq(Event) /\ <<e>> \in Seq(Event) /\ q \in Seq(Event)
        /\ e \in Event
    BY <1>4, <1>5
  <2> HIDE DEF g, c, e, q
  <2>4. Append(c, e) = c \o <<e>>
    BY <2>3, AppendIsConcat
  <2>5. g \o (c \o <<e>>) = (g \o c) \o <<e>> /\ g \o c \in Seq(Event)
    BY <2>3, ConcatAssociative
  <2>6. ((g \o c) \o <<e>>) \o q = (g \o c) \o (<<e>> \o q)
    BY <2>3, <2>5, ConcatAssociative
  <2> QED BY <2>1, <2>2, <2>4, <2>5, <2>6
<1>9. /\ worker'.request = worker.request
      /\ worker'.at \in {"pumping", "finishing"}
      /\ worker'.at = "pumping" => worker'.kind = worker.kind
      /\ worker'.at = "finishing" => /\ worker.event.what \in B!Terminals
                                     /\ worker'.event = "finished"
  BY <1>1
<1>10. RequestsFit'
  BY <1>1, <1>2, <1>6, <1>9 DEF RequestsFit
<1>11. CallerFits'
  <2>1. channel' \in Seq(Event)
    BY <1>1, <1>4, <1>5
  <2>2. Heard' => worker'.kind = caller.kind
    BY <1>1, <1>3, <1>9 DEF BridgeInv, CallerFits, Heard
  <2> QED BY <1>1, <1>5, <1>8, <2>1, <2>2 DEF BridgeInv, CallerFits
<1>12. OperationFits'
  BY <1>1, <1>3, <1>4, <1>8, <1>9, PhotosKept
<1> QED BY <1>1, <1>2, <1>10, <1>11, <1>12, AnswersKept DEF BridgeInv

LEMMA Step_cancel == ASSUME BridgeInv, B!cancel PROVE BridgeInv'
<1>1. /\ worker.at \in {"sending", "pumping"}
      /\ worker' = [at |-> "finishing", request |-> worker.request, event |-> "error"]
      /\ B!stopAfterCancellation
      /\ UNCHANGED <<caller, inbox, channel, requests>>
  BY DEF B!cancel
<1>2. Remains
  <2>1. DOMAIN operation = OpFields
    BY DEF BridgeInv
  <2>2. operation.cancellation \in {"none", "installed", "registered"} \/ UNCHANGED operation
    <3>1. Alive
      BY <1>1 DEF Alive
    <3>2. Phases
      BY <3>1, PhaseOf
    <3>3. ~B!isStopped => operation.cancellation \in {"none", "installed", "registered"}
      BY <3>2 DEF Phases, Over, Waits, Emits, Installs, Asks, Transfers, Fails, Unanswering, Fresh,
                  B!isStopped
    <3> QED BY <1>1, <3>3 DEF B!stopAfterCancellation
  <2>3. CASE UNCHANGED operation
    BY <2>1, <2>3 DEF Remains
  <2>4. CASE ~B!isStopped /\ operation.cancellation = "none"
    <3>1. operation' = [[operation EXCEPT !.terminal = TRUE] EXCEPT !.listed = FALSE]
      BY <1>1, <2>4 DEF B!stopAfterCancellation, B!finish
    <3> QED BY <2>1, <3>1 DEF Remains, OpFields
  <2>5. CASE ~B!isStopped /\ operation.cancellation = "installed"
    <3>1. operation' = [[operation EXCEPT !.cancelled = TRUE] EXCEPT !.cancellation = "pending"]
      BY <1>1, <2>5 DEF B!stopAfterCancellation
    <3> QED BY <2>1, <3>1 DEF Remains, OpFields
  <2>6. CASE ~B!isStopped /\ operation.cancellation = "registered"
    <3>1. operation' = [operation EXCEPT !.cancelled = TRUE]
      BY <1>1, <2>6 DEF B!stopAfterCancellation
    <3> QED BY <2>1, <3>1 DEF Remains, OpFields
  <2>7. B!isStopped => UNCHANGED operation
    BY <1>1 DEF B!stopAfterCancellation
  <2> QED BY <2>2, <2>3, <2>4, <2>5, <2>6, <2>7
<1>3. ~Alive' /\ ~Heard'
  BY <1>1 DEF Alive, Heard
<1>4. RequestsFit'
  BY <1>1, <1>2 DEF BridgeInv, RequestsFit, Remains
<1> QED BY <1>1, <1>2, <1>3, <1>4, WorkerFails

LEMMA Step_finish_request == ASSUME BridgeInv, B!finish_request PROVE BridgeInv'
<1>1. /\ worker.at = "finishing"
      /\ channel' = IF B!listening THEN Append(channel, B!Frame(worker.request, worker.event, 0))
                    ELSE channel
      /\ worker' = IF B!listening /\ worker.event = "finished" THEN [at |-> "idle"]
                   ELSE [at |-> "dropping"]
      /\ UNCHANGED <<caller, inbox, requests, B!swift>>
  BY DEF B!finish_request, B!Idle
<1>2. UNCHANGED <<lifecycle, frames, operation, main, dispatched, photos, callback>>
  BY <1>1 DEF B!swift
<1>3. ~Heard /\ ~Heard' /\ worker'.at \in {"idle", "dropping"}
  BY <1>1 DEF Heard
<1>4. /\ worker.request = operation.request /\ worker.event \in {"finished", "error"}
      /\ requests \in Nat /\ operation.request \in 0..requests
  BY <1>1 DEF BridgeInv, RequestsFit
<1> DEFINE f == B!Frame(worker.request, worker.event, 0)
<1>5. f \in Event /\ f.what \notin Data /\ f.what # "completed"
  BY <1>4 DEF B!Frame, Event, Data
<1>6. Coming = <<>> /\ Coming' = <<>>
  BY <1>3 DEF Coming
<1> HIDE DEF f
<1>7. CallerFits'
  <2>1. CASE caller.at # "receiving"
    BY <1>1, <2>1 DEF BridgeInv, CallerFits
  <2>2. CASE caller.at = "receiving"
    <3>1. /\ caller.got \in Seq(Event) /\ channel \in Seq(Event)
          /\ Continues(Whole, caller.request, caller.kind)
      BY <2>2 DEF BridgeInv, CallerFits
    <3> DEFINE g == caller.got
               c == channel
    <3>2. /\ g \o c \in Seq(Event) /\ Whole = (g \o c) \o <<>> /\ (g \o c) \o <<>> = g \o c
      BY <1>6, <3>1 DEF Whole
    <3>3. Whole' = (g \o channel') \o <<>>
      BY <1>1, <1>6 DEF Whole
    <3>4. channel' = c \/ channel' = Append(c, f)
      BY <1>1 DEF f
    <3>5. channel' \in Seq(Event) /\ Continues(Whole', caller.request, caller.kind)
      <4>1. CASE channel' = c
        BY <3>1, <3>2, <3>3, <4>1
      <4>2. CASE channel' = Append(c, f)
        <5>1. Continues(Append(g \o c, f), caller.request, caller.kind)
          <6>1. IsNext(f, g \o c, caller.request, caller.kind)
            BY <1>5 DEF IsNext
          <6>2. Continues(g \o c, caller.request, caller.kind)
            BY <3>1, <3>2
          <6> HIDE DEF g, c
          <6> QED BY <1>5, <6>1, <6>2, ContinuesAppend
        <5>2. Append(g \o c, f) = g \o Append(c, f)
          <6>1. g \in Seq(Event) /\ c \in Seq(Event) /\ <<f>> \in Seq(Event)
            BY <1>5, <3>1
          <6> HIDE DEF g, c
          <6>2. Append(g \o c, f) = (g \o c) \o <<f>> /\ Append(c, f) = c \o <<f>>
            BY <1>5, <3>2, <6>1, AppendIsConcat
          <6>3. (g \o c) \o <<f>> = g \o (c \o <<f>>)
            BY <6>1, ConcatAssociative
          <6> QED BY <6>2, <6>3
        <5>3. g \o Append(c, f) \in Seq(Event) /\ Append(c, f) \in Seq(Event)
          BY <1>5, <3>1
        <5>4. Whole' = g \o Append(c, f)
          BY <3>3, <4>2, <5>3
        <5> QED BY <4>2, <5>1, <5>2, <5>3, <5>4
      <4> QED BY <3>4, <4>1, <4>2
    <3> HIDE DEF g, c
    <3> QED BY <1>1, <1>3, <2>2, <3>5 DEF BridgeInv, CallerFits
  <2> QED BY <2>1, <2>2
<1>8. RequestsFit'
  <2>1. inbox # <<>> => ~B!listening
    <3> SUFFICES ASSUME inbox # <<>>, B!listening PROVE FALSE
      OBVIOUS
    <3>1. operation.request < requests
      BY <1>1 DEF BridgeInv, RequestsFit
    <3>2. caller.request = requests /\ caller.request = worker.request
      BY DEF B!listening, BridgeInv, CallerFits
    <3> QED BY <1>4, <3>1, <3>2
  <2> QED BY <1>1, <1>2, <1>3, <2>1 DEF BridgeInv, RequestsFit
<1>9. OperationFits'
  <2>1. CASE worker'.at = "idle"
    <3>1. Alive
      BY <1>1, <2>1 DEF Alive
    <3>2. operation.terminal /\ frames = <<>>
      BY <1>1, <3>1 DEF BridgeInv, OperationFits
    <3> QED BY <1>1, <1>3, <2>1, <3>1, <3>2, PhotosKept
  <2>2. CASE worker'.at = "dropping"
    BY <2>2 DEF OperationFits, Alive
  <2> QED BY <1>3, <2>1, <2>2
<1> QED BY <1>1, <1>2, <1>7, <1>8, <1>9, AnswersKept DEF BridgeInv

LEMMA Step_shutdown == ASSUME BridgeInv, B!shutdown PROVE BridgeInv'
<1>1. /\ caller.at = "idle" /\ worker' = [at |-> "dropping"] /\ inbox = <<>>
      /\ UNCHANGED <<caller, inbox, channel, requests, operation>>
  BY DEF B!shutdown, B!swift
<1>2. ~Alive' /\ ~Heard' /\ Remains
  BY <1>1 DEF Alive, Heard, BridgeInv, Remains
<1>3. RequestsFit'
  BY <1>1 DEF BridgeInv, RequestsFit
<1> QED BY <1>1, <1>2, <1>3, WorkerFails

LEMMA Step_quiesce == ASSUME BridgeInv, B!quiesce PROVE BridgeInv'
<1>1. /\ worker.at = "dropping" /\ worker' = [at |-> "quiescing"]
      /\ UNCHANGED <<caller, inbox, channel, requests>>
  BY DEF B!quiesce
<1>2. Remains
  <2>1. DOMAIN operation = OpFields
    BY DEF BridgeInv
  <2> DEFINE terminal == operation.cancellation = "none"
             cancellation == IF operation.cancellation = "installed" THEN "pending"
                             ELSE operation.cancellation
  <2>2. CASE B!isStopped
    BY <2>1, <2>2 DEF B!quiesce, Remains
  <2>3. CASE ~B!isStopped
    <3>1. operation' = [operation EXCEPT !.cancelled = TRUE, !.terminal = terminal,
                          !.listed = operation.cancellation # "none",
                          !.cancellation = cancellation]
      BY <2>3 DEF B!quiesce
    <3> HIDE DEF terminal, cancellation
    <3> QED BY <2>1, <3>1 DEF Remains, OpFields
  <2> QED BY <2>2, <2>3
<1>3. ~Alive' /\ ~Heard'
  BY <1>1 DEF Alive, Heard
<1>4. RequestsFit'
  BY <1>1, <1>2 DEF BridgeInv, RequestsFit, Remains
<1> QED BY <1>1, <1>2, <1>3, <1>4, WorkerFails

LEMMA Step_destroy == ASSUME BridgeInv, B!destroy PROVE BridgeInv'
<1>1. /\ worker.at = "quiescing" /\ worker' = [at |-> "ended"]
      /\ UNCHANGED <<caller, inbox, channel, requests, operation>>
  BY DEF B!destroy
<1>2. ~Alive' /\ ~Heard' /\ Remains
  BY <1>1 DEF Alive, Heard, BridgeInv, Remains
<1>3. RequestsFit'
  BY <1>1 DEF BridgeInv, RequestsFit
<1> QED BY <1>1, <1>2, <1>3, WorkerFails

\* The caller returns: with what it has if that is all there is.
LEMMA Returns ==
    ASSUME BridgeInv, caller.at = "receiving", NEW result, B!Return(result),
           result = "complete" => caller.terminal = "complete",
           UNCHANGED <<inbox, worker, requests, B!swift>>,
           inbox = <<>> \/ worker.at = "ended"
    PROVE  BridgeInv'
<1>1. /\ caller' = [at |-> "idle", request |-> caller.request, kind |-> caller.kind,
                    got |-> caller.got, answer |-> result]
      /\ UNCHANGED <<lifecycle, frames, operation, main, dispatched, photos, callback>>
  BY DEF B!Return, B!swift
<1>2. ~Heard' /\ caller'.at = "idle" /\ caller'.kind = caller.kind
  BY <1>1 DEF Heard
<1>3. CallerFits'
  BY <1>2 DEF CallerFits
<1>4. RequestsFit'
  BY <1>1, <1>2 DEF BridgeInv, RequestsFit
<1>5. OperationFits'
  <2>1. CASE Alive
    <3>1. /\ worker'.at \in {"idle", "finishing"} => operation.terminal /\ frames = <<>>
          /\ worker'.at = "sending" => worker'.event \in Event
          /\ worker'.at = "sending" /\ worker'.event.what \in B!Terminals
               => operation.terminal /\ frames = <<>>
      BY <2>1 DEF BridgeInv, OperationFits
    <3> QED BY <1>2, <2>1, <3>1, PhotosKept
  <2>2. CASE ~Alive
    BY <2>2 DEF OperationFits, Alive
  <2> QED BY <2>1, <2>2
<1>6. B!AnswersAreWhole'
  <2>1. SUFFICES ASSUME result = "complete"
                 PROVE  /\ Len(caller.got) = B!count(caller.kind)
                        /\ \A i \in 1..B!count(caller.kind) :
                             caller.got[i].request = caller.request /\ caller.got[i].index = i - 1
    BY <1>1 DEF B!AnswersAreWhole
  <2>2. /\ caller.got \in Seq(Event) /\ channel \in Seq(Event) /\ AllData(caller.got)
        /\ Len(caller.got) = B!count(caller.kind)
        /\ Continues(Whole, caller.request, caller.kind)
    BY <2>1 DEF BridgeInv, CallerFits
  <2>3. PICK t \in Seq(Event) : Whole = caller.got \o t
    <3>1. Coming \in Seq(Event)
      <4>1. CASE Heard
        BY <4>1, WholeSaid DEF Heard, Alive
      <4>2. CASE ~Heard
        BY <4>2 DEF Coming
      <4> QED BY <4>1, <4>2
    <3>2. channel \o Coming \in Seq(Event)
      BY <2>2, <3>1
    <3>3. (caller.got \o channel) \o Coming = caller.got \o (channel \o Coming)
      <4> DEFINE b == caller.got
                 c == channel
                 d == Coming
      <4>1. b \in Seq(Event) /\ c \in Seq(Event) /\ d \in Seq(Event)
        BY <2>2, <3>1
      <4> HIDE DEF b, c, d
      <4>2. (b \o c) \o d = b \o (c \o d)
        BY <4>1, ConcatAssociative
      <4> QED BY <4>2 DEF b, c, d
    <3> QED BY <3>2, <3>3 DEF Whole
  <2> DEFINE g == caller.got
  <2>4. g \in Seq(Event) /\ Continues(g \o t, caller.request, caller.kind) /\ AllData(g)
    BY <2>2, <2>3
  <2> HIDE DEF g
  <2>5. \A i \in 1..Len(g) : g[i].request = caller.request /\ g[i].index = i - 1
    BY <2>4, ContinuesWhole
  <2> QED BY <2>2, <2>5 DEF g
<1> QED BY <1>1, <1>3, <1>4, <1>5, <1>6 DEF BridgeInv

LEMMA NothingIsAsked ==
    ASSUME BridgeInv, channel # <<>> \/ worker.at = "ended" PROVE inbox = <<>> \/ worker.at = "ended"
  BY DEF BridgeInv, RequestsFit

LEMMA Step_sink_rejects == ASSUME BridgeInv, B!sink_rejects PROVE BridgeInv'
  BY Returns, NothingIsAsked DEF B!sink_rejects

LEMMA Step_hung_up == ASSUME BridgeInv, B!hung_up PROVE BridgeInv'
  BY Returns, NothingIsAsked DEF B!hung_up

\* What is next for the caller.
LEMMA HeadOfWhole ==
    ASSUME BridgeInv, caller.at = "receiving", channel # <<>>
    PROVE  /\ Head(channel) \in Event /\ Tail(channel) \in Seq(Event) /\ Coming \in Seq(Event)
           /\ caller.got \in Seq(Event) /\ AllData(caller.got)
           /\ channel = <<Head(channel)>> \o Tail(channel)
           /\ Whole = (caller.got \o <<Head(channel)>>) \o (Tail(channel) \o Coming)
           /\ Whole = caller.got \o (<<Head(channel)>> \o (Tail(channel) \o Coming))
           /\ Continues(Whole, caller.request, caller.kind)
<1> DEFINE g == caller.got
           e == Head(channel)
           t == Tail(channel)
           c == Coming
<1>1. /\ g \in Seq(Event) /\ channel \in Seq(Event) /\ AllData(g)
      /\ Continues(Whole, caller.request, caller.kind)
  BY DEF BridgeInv, CallerFits
<1>2. e \in Event /\ t \in Seq(Event) /\ channel = <<e>> \o t
  BY <1>1, HeadTailProperties
<1>3. c \in Seq(Event)
  <2>1. CASE Heard
    BY <2>1, WholeSaid DEF Heard, Alive
  <2>2. CASE ~Heard
    BY <2>2 DEF Coming
  <2> QED BY <2>1, <2>2
<1>4. Whole = (g \o (<<e>> \o t)) \o c
  BY <1>2 DEF Whole
<1>5. <<e>> \in Seq(Event)
  BY <1>2
<1> HIDE DEF g, e, t, c
<1>6. g \o (<<e>> \o t) = (g \o <<e>>) \o t /\ g \o <<e>> \in Seq(Event) /\ t \o c \in Seq(Event)
  <2>1. g \o <<e>> \in Seq(Event) /\ t \o c \in Seq(Event)
    BY <1>1, <1>2, <1>3, <1>5, ConcatProperties
  <2> DEFINE x == <<e>>
  <2>2. x \in Seq(Event)
    BY <1>5
  <2> HIDE DEF x
  <2>3. (g \o x) \o t = g \o (x \o t)
    BY <1>1, <1>2, <2>2, ConcatAssociative
  <2> QED BY <2>1, <2>3 DEF x
<1>7. ((g \o <<e>>) \o t) \o c = (g \o <<e>>) \o (t \o c)
  BY <1>2, <1>3, <1>6, ConcatAssociative
<1>8. (g \o <<e>>) \o (t \o c) = g \o (<<e>> \o (t \o c))
  BY <1>1, <1>5, <1>6, ConcatAssociative
<1> QED BY <1>1, <1>2, <1>3, <1>4, <1>6, <1>7, <1>8 DEF g, e, t, c

\* An event that the closure takes.
LEMMA Takes ==
    ASSUME BridgeInv, caller.at = "receiving", channel # <<>>, channel' = Tail(channel),
           Head(channel).what \in Data, caller' = [caller EXCEPT !.got = Append(@, Head(channel))],
           UNCHANGED <<inbox, worker, requests, B!swift>>
    PROVE  BridgeInv'
<1>1. UNCHANGED <<lifecycle, frames, operation, main, dispatched, photos, callback>>
  BY DEF B!swift
<1> DEFINE g == caller.got
           e == Head(channel)
           t == Tail(channel)
           c == Coming
<1>2. /\ e \in Event /\ t \in Seq(Event) /\ c \in Seq(Event) /\ g \in Seq(Event) /\ AllData(g)
      /\ Whole = (g \o <<e>>) \o (t \o c)
      /\ Continues(Whole, caller.request, caller.kind)
  BY HeadOfWhole
<1>3. DOMAIN caller = {"at", "request", "kind", "got", "terminal"}
  BY DEF BridgeInv, CallerFits
<1>4. /\ DOMAIN caller' = DOMAIN caller /\ caller'.at = "receiving"
      /\ caller'.request = caller.request /\ caller'.kind = caller.kind
      /\ caller'.got = Append(g, e) /\ caller'.terminal = caller.terminal
  BY <1>3
<1>5. (Heard' <=> Heard) /\ Coming' = c
  <2>1. Heard' <=> Heard
    BY <1>1, <1>4 DEF Heard
  <2> QED BY <1>1, <2>1 DEF Coming
<1>6. Whole' = (Append(g, e) \o t) \o c
  BY <1>4, <1>5 DEF Whole
<1>7. e.what \in Data
  OBVIOUS
<1> HIDE DEF g, e, t, c
<1>8. Whole' = Whole
  <2>1. Append(g, e) = g \o <<e>> /\ Append(g, e) \in Seq(Event)
    BY <1>2, AppendIsConcat, AppendProperties
  <2>2. (Append(g, e) \o t) \o c = Append(g, e) \o (t \o c)
    BY <1>2, <2>1, ConcatAssociative
  <2> QED BY <1>2, <1>6, <2>1, <2>2
<1>9. Append(g, e) \in Seq(Event) /\ AllData(Append(g, e))
  <2>1. /\ Append(g, e) \in Seq(Event) /\ Len(g) \in Nat /\ DOMAIN g = 1..Len(g)
        /\ DOMAIN Append(g, e) = 1..(Len(g) + 1)
        /\ \A i \in 1..Len(g) : Append(g, e)[i] = g[i]
        /\ Append(g, e)[Len(g) + 1] = e
    BY <1>2, AppendProperties
  <2> QED BY <1>2, <1>7, <2>1 DEF AllData
<1>10. caller.terminal # "complete"
  <2> SUFFICES ASSUME Len(g) = B!count(caller.kind) PROVE FALSE
    BY DEF BridgeInv, CallerFits, g
  <2>1. (g \o <<e>>) \o (t \o c) = Whole /\ g \o <<e>> \in Seq(Event) /\ t \o c \in Seq(Event)
    BY <1>2
  <2>2. Continues(g \o <<e>>, caller.request, caller.kind)
    BY <1>2, <2>1, ContinuesPrefix
  <2>3. /\ Len(g) \in Nat /\ DOMAIN (g \o <<e>>) = 1..(Len(g) + 1)
        /\ (g \o <<e>>)[Len(g) + 1] = e
    BY <1>2
  <2>4. InTurn(g \o <<e>>, Len(g) + 1, caller.request, caller.kind)
    BY <2>2, <2>3 DEF Continues
  <2>5. Len(g) + 1 <= B!count(caller.kind) /\ B!count(caller.kind) \in Nat
    BY <1>7, <2>3, <2>4, Counts DEF InTurn
  <2> QED BY <2>3, <2>5
<1>11. RequestsFit'
  <2>1. inbox = <<>> \/ worker.at = "ended"
    BY NothingIsAsked
  <2> QED BY <1>1, <1>4, <2>1 DEF BridgeInv, RequestsFit
<1>12. CallerFits'
  <2>1. channel' \in Seq(Event)
    BY <1>2 DEF t
  <2> QED BY <1>2, <1>3, <1>4, <1>5, <1>8, <1>9, <1>10, <2>1 DEF BridgeInv, CallerFits
<1>13. OperationFits'
  <2>1. CASE Alive
    <3>1. /\ worker'.at \in {"idle", "finishing"} => operation.terminal /\ frames = <<>>
          /\ worker'.at = "sending" => worker'.event \in Event
          /\ worker'.at = "sending" /\ worker'.event.what \in B!Terminals
               => operation.terminal /\ frames = <<>>
          /\ Heard /\ ~operation.terminal => AllData(Whole)
          /\ Heard /\ Counted => Len(Whole) = Queued
      BY <2>1 DEF BridgeInv, OperationFits
    <3> QED BY <1>5, <1>8, <2>1, <3>1, PhotosKept
  <2>2. CASE ~Alive
    BY <2>2 DEF OperationFits, Alive
  <2> QED BY <2>1, <2>2
<1>14. B!AnswersAreWhole'
  BY <1>4 DEF B!AnswersAreWhole
<1> QED BY <1>1, <1>11, <1>12, <1>13, <1>14 DEF BridgeInv

\* An event by which the closure knows how the operation has ended.
LEMMA Concludes ==
    ASSUME BridgeInv, caller.at = "receiving", channel # <<>>, channel' = Tail(channel),
           NEW end, caller' = [caller EXCEPT !.terminal = end],
           Head(channel).what \notin Data, end = "complete" => Head(channel).what = "completed",
           UNCHANGED <<inbox, worker, requests, B!swift>>
    PROVE  BridgeInv'
<1>1. UNCHANGED <<lifecycle, frames, operation, main, dispatched, photos, callback>>
  BY DEF B!swift
<1> DEFINE g == caller.got
           e == Head(channel)
           t == Tail(channel)
           c == Coming
<1>2. /\ e \in Event /\ t \in Seq(Event) /\ c \in Seq(Event) /\ g \in Seq(Event) /\ AllData(g)
      /\ Whole = (g \o <<e>>) \o (t \o c)
      /\ Whole = g \o (<<e>> \o (t \o c))
      /\ Continues(Whole, caller.request, caller.kind)
  BY HeadOfWhole
<1>3. DOMAIN caller = {"at", "request", "kind", "got", "terminal"}
  BY DEF BridgeInv, CallerFits
<1>4. /\ DOMAIN caller' = DOMAIN caller /\ caller'.at = "receiving"
      /\ caller'.request = caller.request /\ caller'.kind = caller.kind
      /\ caller'.got = g /\ caller'.terminal = end
  BY <1>3
<1>5. (Heard' <=> Heard) /\ Coming' = c
  <2>1. Heard' <=> Heard
    BY <1>1, <1>4 DEF Heard
  <2> QED BY <1>1, <2>1 DEF Coming
<1>6. Whole' = (g \o t) \o c
  BY <1>4, <1>5 DEF Whole
<1>7. e.what \notin Data /\ (end = "complete" => e.what = "completed")
  OBVIOUS
<1> HIDE DEF g, e, t, c
<1>8. Continues(Whole', caller.request, caller.kind)
  <2>1. t \o c \in Seq(Event) /\ (g \o t) \o c = g \o (t \o c)
    BY <1>2, ConcatAssociative, ConcatProperties
  <2> QED BY <1>2, <1>6, <1>7, <2>1, ContinuesDrop
<1>9. end = "complete" => Len(g) = B!count(caller.kind)
  <2>1. /\ <<e>> \o (t \o c) \in Seq(Event) /\ <<e>> \o (t \o c) # <<>>
        /\ Head(<<e>> \o (t \o c)) = e
    BY <1>2
  <2> DEFINE u == <<e>> \o (t \o c)
  <2>2. u \in Seq(Event) /\ u # <<>> /\ Head(u) = e /\ Whole = g \o u
    BY <1>2, <2>1
  <2>3. Continues(g \o u, caller.request, caller.kind)
    BY <1>2, <2>2
  <2> HIDE DEF u
  <2>4. u # <<>> /\ Head(u).what = "completed" => Len(g) = B!count(caller.kind)
    BY <1>2, <2>2, <2>3, ContinuesWhole
  <2> QED BY <1>7, <2>2, <2>4
<1>10. RequestsFit'
  <2>1. inbox = <<>> \/ worker.at = "ended"
    BY NothingIsAsked
  <2> QED BY <1>1, <1>4, <2>1 DEF BridgeInv, RequestsFit
<1>11. CallerFits'
  <2>1. channel' \in Seq(Event)
    BY <1>2 DEF t
  <2> QED BY <1>2, <1>3, <1>4, <1>5, <1>8, <1>9, <2>1 DEF BridgeInv, CallerFits
<1>12. OperationFits'
  <2>1. CASE Alive
    <3>1. /\ worker'.at \in {"idle", "finishing"} => operation.terminal /\ frames = <<>>
          /\ worker'.at = "sending" => worker'.event \in Event
          /\ worker'.at = "sending" /\ worker'.event.what \in B!Terminals
               => operation.terminal /\ frames = <<>>
          /\ Heard /\ ~operation.terminal => AllData(Whole)
      BY <2>1 DEF BridgeInv, OperationFits
    <3>2. ~AllData(Whole)
      <4> DEFINE w == (g \o <<e>>) \o (t \o c)
      <4>1. Len(g) \in Nat /\ Len(g) + 1 \in DOMAIN w /\ w[Len(g) + 1] = e /\ Whole = w
        BY <1>2
      <4> HIDE DEF w
      <4> QED BY <1>7, <4>1 DEF AllData
    <3>3. Heard => operation.terminal
      BY <3>1, <3>2
    <3>4. operation.terminal => ~Counted
      BY DEF Counted, Waits, Emits, Installs, Asks, Transfers, Fresh, Started
    <3> QED BY <1>5, <2>1, <3>1, <3>3, <3>4, PhotosKept
  <2>2. CASE ~Alive
    BY <2>2 DEF OperationFits, Alive
  <2> QED BY <2>1, <2>2
<1>13. B!AnswersAreWhole'
  BY <1>4 DEF B!AnswersAreWhole
<1> QED BY <1>1, <1>10, <1>11, <1>12, <1>13 DEF BridgeInv

LEMMA Step_receive_all == ASSUME BridgeInv, B!receive_all PROVE BridgeInv'
<1> DEFINE e == Head(channel)
<1>1. /\ caller.at = "receiving" /\ channel # <<>> /\ channel' = Tail(channel)
      /\ UNCHANGED <<inbox, worker, requests, B!swift>>
      /\ caller.kind \in B!Kinds
  BY DEF B!receive_all, BridgeInv, CallerFits
<1>2. inbox = <<>> \/ worker.at = "ended"
  BY <1>1, NothingIsAsked
<1>3. e \in Event /\ (e.what \in Data => e.what = Datum(caller.kind))
  <2> DEFINE g == caller.got
             z == Tail(channel) \o Coming
             s == <<e>> \o z
             n == Len(g) + 1
  <2>1. /\ e \in Event /\ g \in Seq(Event) /\ s \in Seq(Event) /\ n \in DOMAIN (g \o s)
        /\ (g \o s)[n] = e /\ Continues(g \o s, caller.request, caller.kind)
    <3>1. /\ e \in Event /\ g \in Seq(Event) /\ z \in Seq(Event)
          /\ Continues(g \o s, caller.request, caller.kind)
      <4>1. /\ Head(channel) \in Event /\ Tail(channel) \in Seq(Event)
            /\ Coming \in Seq(Event) /\ caller.got \in Seq(Event)
            /\ Whole = g \o s /\ Continues(Whole, caller.request, caller.kind)
        BY <1>1, HeadOfWhole
      <4> HIDE DEF s
      <4>2. z \in Seq(Event)
        BY <4>1
      <4>3. Continues(g \o s, caller.request, caller.kind)
        BY <4>1
      <4> QED BY <4>1, <4>2, <4>3
    <3> HIDE DEF g, z, e
    <3>2. s \in Seq(Event) /\ Len(s) > 0 /\ s[1] = e
      BY <3>1
    <3> HIDE DEF s
    <3>3. n \in DOMAIN (g \o s) /\ (g \o s)[n] = e
      BY <3>1, <3>2
    <3> QED BY <3>1, <3>2, <3>3
  <2> HIDE DEF g, s, n, e
  <2>2. InTurn(g \o s, n, caller.request, caller.kind)
    BY <2>1 DEF Continues
  <2> QED BY <2>1, <2>2 DEF InTurn
<1> DEFINE closure == B!consume(e)
<1>4. \/ e.what = "finished" /\ B!Return(caller.terminal)
      \/ e.what = "error" /\ B!Return("error")
      \/ /\ e.what \notin {"finished", "error"}
         /\ \/ closure = "take" /\ caller' = [caller EXCEPT !.got = Append(@, e)]
            \/ closure \in {"invalid", "unavailable"} /\ B!Return(closure)
            \/ /\ closure \notin {"take", "invalid", "unavailable"}
               /\ caller' = [caller EXCEPT !.terminal = closure]
  <2>1. e.what \in Data \cup {"completed", "failed", "finished", "error"}
    BY <1>3 DEF Event
  <2> HIDE DEF closure, e
  <2>2. closure = B!consume(Head(channel)) /\ e = Head(channel)
    BY DEF closure, e
  <2> QED BY <2>1, <2>2 DEF B!receive_all
<1>5. /\ closure = "take" => e.what \in Data
      /\ closure = "complete" => e.what = "completed"
      /\ e.what \in Data => closure \in {"take", "invalid"}
  <2>1. e.what = "item" => caller.kind # "stream"
    BY <1>3 DEF Datum, Data
  <2>2. e.what = "chunk" => caller.kind = "stream"
    BY <1>3 DEF Datum, Data
  <2> HIDE DEF e
  <2>3. CASE caller.kind = "authorize"
    BY <2>1, <2>2, <2>3 DEF B!consume, B!authorization, Data
  <2>4. CASE caller.kind = "list"
    BY <2>1, <2>2, <2>4 DEF B!consume, B!list_regular_albums, Data
  <2>5. CASE caller.kind = "enumerate"
    BY <2>1, <2>2, <2>5 DEF B!consume, B!enumerate_regular_album, Data
  <2>6. CASE caller.kind = "stream"
    BY <2>1, <2>2, <2>6 DEF B!consume, B!transfer_resource, Data
  <2> QED BY <1>1, <2>3, <2>4, <2>5, <2>6 DEF B!Kinds
<1>6. CASE e.what = "finished" /\ B!Return(caller.terminal)
  BY <1>1, <1>2, <1>6, Returns
<1>7. CASE e.what = "error" /\ B!Return("error")
  <2>1. "error" # "complete"
    OBVIOUS
  <2> QED BY <1>1, <1>2, <1>7, <2>1, Returns
<1> HIDE DEF closure
<1>8. CASE closure = "take" /\ caller' = [caller EXCEPT !.got = Append(@, e)]
  BY <1>1, <1>5, <1>8, Takes
<1>9. CASE closure \in {"invalid", "unavailable"} /\ B!Return(closure)
  <2>1. closure # "complete"
    BY <1>9
  <2> QED BY <1>1, <1>2, <1>9, <2>1, Returns
<1>10. CASE /\ closure \notin {"take", "invalid", "unavailable"}
            /\ caller' = [caller EXCEPT !.terminal = closure]
  <2>1. Head(channel).what \notin Data /\ (closure = "complete" => Head(channel).what = "completed")
    BY <1>5, <1>10
  <2> QED BY <1>1, <1>10, <2>1, Concludes
<1> QED BY <1>4, <1>6, <1>7, <1>8, <1>9, <1>10

-----------------------------------------------------------------------------

\* An operation that was not stopped has a request of Photos or none, and no cancellation
\* that is pending.
Stoppable == B!isStopped \/ operation.cancellation \in {"none", "installed", "registered"}

ShapeInv == DOMAIN operation = OpFields /\ Placed /\ Stoppable

LEMMA Stops ==
    ASSUME ShapeInv, B!stopAfterCancellation
    PROVE  Remains /\ Stoppable'
<1>0. DOMAIN operation = OpFields /\ Stoppable
  BY DEF ShapeInv
<1>1. CASE B!isStopped
  BY <1>0, <1>1 DEF B!stopAfterCancellation, Remains, Stoppable, B!isStopped
<1>2. CASE ~B!isStopped /\ operation.cancellation = "none"
  <2>1. operation' = [[operation EXCEPT !.terminal = TRUE] EXCEPT !.listed = FALSE]
    BY <1>2 DEF B!stopAfterCancellation, B!finish
  <2> QED BY <1>0, <2>1 DEF Remains, OpFields, Stoppable, B!isStopped
<1>3. CASE ~B!isStopped /\ operation.cancellation = "installed"
  <2>1. operation' = [[operation EXCEPT !.cancelled = TRUE] EXCEPT !.cancellation = "pending"]
    BY <1>3 DEF B!stopAfterCancellation
  <2> QED BY <1>0, <2>1 DEF Remains, OpFields, Stoppable, B!isStopped
<1>4. CASE ~B!isStopped /\ operation.cancellation = "registered"
  <2>1. operation' = [operation EXCEPT !.cancelled = TRUE]
    BY <1>4 DEF B!stopAfterCancellation
  <2> QED BY <1>0, <2>1 DEF Remains, OpFields, Stoppable, B!isStopped
<1> QED BY <1>0, <1>1, <1>2, <1>3, <1>4 DEF Stoppable

LEMMA Ended ==
    ASSUME ShapeInv, NEW what, NEW n, B!finish(operation, what, n)
    PROVE  Remains /\ Stoppable'
<1>1. operation' = [[operation EXCEPT !.terminal = TRUE] EXCEPT !.listed = FALSE]
  BY DEF B!finish
<1> QED BY <1>1 DEF ShapeInv, Remains, OpFields, Stoppable, B!isStopped

LEMMA Same ==
    ASSUME ShapeInv, UNCHANGED operation
    PROVE  Remains /\ Stoppable'
  BY DEF ShapeInv, Remains, Stoppable, B!isStopped

LEMMA LetGo ==
    ASSUME ShapeInv, callback' = B!Stopped \/ callback' = B!Broadcast(callback)
    PROVE  Placed'
<1>1. callback' = callback \/ callback' = B!Broadcast(callback)
  BY DEF B!Stopped
<1> QED BY <1>1, LooksAgain DEF ShapeInv, Placed

LEMMA MainShapes ==
    ASSUME ShapeInv,
           \/ B!execute \/ B!execute_fails \/ B!emit \/ B!install_cancellation \/ B!request_data
           \/ B!request_throws \/ B!register \/ B!cancel_request
    PROVE  ShapeInv' /\ Remains /\ UNCHANGED B!rust
<1>1. CASE B!execute
  BY <1>1, Same DEF B!execute, ShapeInv, Placed, Remains
<1>2. CASE B!execute_fails
  <2>1. CASE B!stopAfterCancellation /\ callback' = B!Stopped
    BY <1>2, <2>1, Stops, LetGo DEF B!execute_fails, ShapeInv, Remains
  <2>2. CASE UNCHANGED <<operation, frames, dispatched, callback>>
    BY <1>2, <2>2, Same DEF B!execute_fails, ShapeInv, Placed, Remains
  <2> QED BY <1>2, <2>1, <2>2 DEF B!execute_fails
<1>3. CASE B!emit
  <2>1. UNCHANGED operation \/ B!finish(operation, "completed", B!count(operation.kind))
    BY <1>3 DEF B!emit
  <2>2. Remains /\ Stoppable'
    BY <2>1, Same, Ended
  <2> QED BY <1>3, <2>2, LetGo DEF B!emit, ShapeInv, Remains
<1>4. CASE B!install_cancellation
  <2>1. UNCHANGED operation \/ operation' = [operation EXCEPT !.cancellation = "installed"]
    BY <1>4 DEF B!install_cancellation
  <2>2. CASE UNCHANGED operation
    BY <1>4, <2>2, Same DEF B!install_cancellation, ShapeInv, Placed, Remains
  <2>3. CASE operation' = [operation EXCEPT !.cancellation = "installed"]
    <3>1. Remains /\ Stoppable'
      BY <2>3 DEF ShapeInv, Remains, OpFields, Stoppable, B!isStopped
    <3> QED BY <1>4, <3>1 DEF B!install_cancellation, ShapeInv, Placed, Remains
  <2> QED BY <2>1, <2>2, <2>3
<1>5. CASE B!request_data
  <2>1. "at" \in DOMAIN callback'
    BY <1>5 DEF B!request_data
  <2> QED BY <1>5, <2>1, Same DEF B!request_data, ShapeInv, Placed, Remains
<1>6. CASE B!request_throws
  BY <1>6, Ended, LetGo DEF B!request_throws, ShapeInv, Remains
<1>7. CASE B!register
  <2>1. \/ B!finish(operation, "failed", 0) \/ UNCHANGED operation
        \/ operation' = [operation EXCEPT !.cancellation = "registered"]
    BY <1>7 DEF B!register
  <2>2. ASSUME operation' = [operation EXCEPT !.cancellation = "registered"]
        PROVE  Remains /\ Stoppable'
    BY <2>2 DEF ShapeInv, Remains, OpFields, Stoppable, B!isStopped
  <2>3. Remains /\ Stoppable'
    BY <2>1, <2>2, Same, Ended
  <2> QED BY <1>7, <2>3, LetGo DEF B!register, ShapeInv, Remains
<1>8. CASE B!cancel_request
  BY <1>8, Ended, LetGo DEF B!cancel_request, ShapeInv, Remains
<1> QED BY <1>1, <1>2, <1>3, <1>4, <1>5, <1>6, <1>7, <1>8

LEMMA CallbackShapes ==
    ASSUME ShapeInv,
           \/ B!acceptCallbackBytes \/ B!enqueueBinary \/ B!completionHandler \/ B!complete
           \/ B!transfer_fails
    PROVE  ShapeInv' /\ Remains /\ UNCHANGED B!rust
<1>1. CASE B!acceptCallbackBytes
  <2>1. \/ UNCHANGED <<operation, callback>>
        \/ /\ operation' = [operation EXCEPT !.accepted = @ + 1]
           /\ callback' = [callback EXCEPT !.at = "enqueue"]
    BY <1>1 DEF B!acceptCallbackBytes
  <2>2. CASE UNCHANGED <<operation, callback>>
    BY <1>1, <2>2, Same DEF B!acceptCallbackBytes, ShapeInv, Placed, Remains
  <2>3. CASE /\ operation' = [operation EXCEPT !.accepted = @ + 1]
             /\ callback' = [callback EXCEPT !.at = "enqueue"]
    <3>1. Remains /\ Stoppable'
      BY <2>3 DEF ShapeInv, Remains, OpFields, Stoppable, B!isStopped
    <3>2. Placed'
      BY <2>3 DEF ShapeInv, Placed
    <3> QED BY <1>1, <3>1, <3>2 DEF B!acceptCallbackBytes, ShapeInv, Remains
  <2> QED BY <2>1, <2>2, <2>3
<1>2. CASE B!enqueueBinary
  <2>1. Placed'
    BY <1>2 DEF B!enqueueBinary, ShapeInv, Placed
  <2> QED BY <1>2, <2>1, Same DEF B!enqueueBinary, ShapeInv, Remains
<1>3. CASE B!completionHandler
  <2>1. Placed'
    BY <1>3 DEF B!completionHandler, ShapeInv, Placed, B!Idle
  <2> QED BY <1>3, <2>1, Same DEF B!completionHandler, ShapeInv, Remains
<1>4. CASE B!complete
  <2>1. Placed'
    BY <1>4 DEF B!complete, Placed, B!Idle
  <2> QED BY <1>4, <2>1, Ended DEF B!complete, ShapeInv, Remains
<1>5. CASE B!transfer_fails
  <2>1. Placed'
    BY <1>5 DEF B!transfer_fails, Placed, B!Idle
  <2> QED BY <1>5, <2>1, Stops DEF B!transfer_fails, ShapeInv, Remains
<1> QED BY <1>1, <1>2, <1>3, <1>4, <1>5

LEMMA RustShapes ==
    ASSUME ShapeInv,
           \/ \E kind \in B!Kinds : B!start(kind)
           \/ B!shutdown \/ B!receive_all \/ B!sink_rejects \/ B!hung_up \/ B!take_request
           \/ B!next \/ B!send_event \/ B!cancel \/ B!finish_request \/ B!quiesce \/ B!destroy
    PROVE  ShapeInv'
<1>1. CASE UNCHANGED <<operation, callback>>
  BY <1>1, Same DEF ShapeInv, Placed, Remains
<1>2. CASE B!take_request
  <2>1. /\ operation' = [request |-> Head(inbox).request, kind |-> Head(inbox).kind,
                         terminal |-> FALSE, cancelled |-> FALSE, accepted |-> 0,
                         cancellation |-> "none", listed |-> TRUE]
        /\ UNCHANGED callback
    BY <1>2 DEF B!take_request
  <2>2. DOMAIN operation' = OpFields /\ operation'.cancellation = "none"
    BY <2>1 DEF OpFields
  <2> QED BY <2>1, <2>2 DEF ShapeInv, Stoppable, Placed
<1>3. CASE B!next
  BY <1>3, Same, LetGo DEF B!next, ShapeInv, Remains
<1>4. CASE B!cancel
  BY <1>4, Stops, LetGo DEF B!cancel, ShapeInv, Remains
<1>5. CASE B!quiesce
  <2>1. callback' = B!Broadcast(callback)
    BY <1>5 DEF B!quiesce
  <2> DEFINE terminal == operation.cancellation = "none"
             cancellation == IF operation.cancellation = "installed" THEN "pending"
                             ELSE operation.cancellation
  <2>2. CASE B!isStopped
    BY <1>5, <2>1, <2>2, Same, LetGo DEF B!quiesce, ShapeInv, Remains
  <2>3. CASE ~B!isStopped
    <3>1. operation' = [operation EXCEPT !.cancelled = TRUE, !.terminal = terminal,
                          !.listed = operation.cancellation # "none",
                          !.cancellation = cancellation]
      BY <1>5, <2>3 DEF B!quiesce
    <3> HIDE DEF terminal, cancellation
    <3>2. DOMAIN operation' = OpFields /\ operation'.cancelled
      BY <3>1 DEF ShapeInv, OpFields
    <3> QED BY <2>1, <3>2, LetGo DEF ShapeInv, Stoppable, B!isStopped
  <2> QED BY <2>2, <2>3
<1>6. CASE ~(B!take_request \/ B!next \/ B!cancel \/ B!quiesce)
  BY <1>1, <1>6
  DEF B!start, B!shutdown, B!receive_all, B!sink_rejects, B!hung_up, B!send_event,
      B!finish_request, B!destroy, B!swift
<1> QED BY <1>2, <1>3, <1>4, <1>5, <1>6

LEMMA BridgeSteps ==
    ASSUME BridgeInv, ShapeInv, B!Next
    PROVE  BridgeInv' /\ ShapeInv'
<1>1. CASE \/ B!execute \/ B!execute_fails \/ B!emit \/ B!install_cancellation \/ B!request_data
           \/ B!request_throws \/ B!register \/ B!cancel_request
  <2>1. ShapeInv' /\ Remains /\ UNCHANGED B!rust
    BY <1>1, MainShapes
  <2>2. CASE ~Alive
    BY <2>1, <2>2, UnheardStep
  <2>3. CASE Alive
    BY <1>1, <2>1, <2>3, Step_execute, Step_execute_fails, Step_emit, Step_install_cancellation,
       Step_request_data, Step_request_throws, Step_register, Step_cancel_request
  <2> QED BY <2>2, <2>3
<1>2. CASE \/ B!acceptCallbackBytes \/ B!enqueueBinary \/ B!completionHandler \/ B!complete
           \/ B!transfer_fails
  <2>1. ShapeInv' /\ Remains /\ UNCHANGED B!rust
    BY <1>2, CallbackShapes
  <2>2. CASE ~Alive
    BY <2>1, <2>2, UnheardStep
  <2>3. CASE Alive
    BY <1>2, <2>1, <2>3, Step_acceptCallbackBytes, Step_enqueueBinary, Step_completionHandler,
       Step_complete, Step_transfer_fails
    DEF ShapeInv
  <2> QED BY <2>2, <2>3
<1>3. CASE \/ \E kind \in B!Kinds : B!start(kind)
           \/ B!shutdown \/ B!receive_all \/ B!sink_rejects \/ B!hung_up \/ B!take_request
           \/ B!next \/ B!send_event \/ B!cancel \/ B!finish_request \/ B!quiesce \/ B!destroy
  <2>1. ShapeInv'
    BY <1>3, RustShapes
  <2>2. BridgeInv'
    BY <1>3, Step_start, Step_shutdown, Step_receive_all, Step_sink_rejects, Step_hung_up,
       Step_take_request, Step_next, Step_send_event, Step_cancel, Step_finish_request,
       Step_quiesce, Step_destroy
    DEF ShapeInv
  <2> QED BY <2>1, <2>2
<1> QED BY <1>1, <1>2, <1>3 DEF B!Next, B!Caller, B!Worker, B!Main, B!Callback

LEMMA BridgeKept ==
    ASSUME BridgeInv, ShapeInv, UNCHANGED bridgeVars
    PROVE  BridgeInv' /\ ShapeInv'
<1>1. UNCHANGED B!rust /\ UNCHANGED B!swift
  BY DEF bridgeVars, B!rust, B!swift
<1>2. UNCHANGED <<caller, inbox, worker, channel, requests>>
      /\ UNCHANGED <<lifecycle, frames, operation, main, dispatched, photos, callback>>
  BY <1>1 DEF B!rust, B!swift
<1>3. Remains /\ ShapeInv'
  BY <1>2, Same DEF ShapeInv, Placed, Remains
<1>4. CASE ~Alive
  BY <1>1, <1>3, <1>4, UnheardStep
<1>5. CASE Alive
  <2>1. CallerFits' /\ Whole' = Whole /\ (Heard' <=> Heard)
    BY <1>1, <1>2, CallerUnmoved DEF BridgeInv
  <2>2. OperationFits'
    <3>1. /\ worker.at \in {"idle", "finishing"} => operation.terminal /\ frames = <<>>
          /\ worker.at = "sending" => worker.event \in Event
          /\ worker.at = "sending" /\ worker.event.what \in B!Terminals
               => operation.terminal /\ frames = <<>>
          /\ Heard /\ ~operation.terminal => AllData(Whole)
          /\ Heard /\ Counted => Len(Whole) = Queued
      BY <1>5 DEF BridgeInv, OperationFits
    <3> QED BY <1>1, <1>2, <1>5, <2>1, <3>1, PhotosKept
  <2> QED BY <1>1, <1>2, <1>3, <2>1, <2>2, RequestsKept, AnswersKept DEF BridgeInv, ShapeInv
<1> QED BY <1>3, <1>4, <1>5

LEMMA BridgeInitially == B!Init => BridgeInv /\ ShapeInv
<1> SUFFICES ASSUME B!Init PROVE BridgeInv /\ ShapeInv
  OBVIOUS
<1>1. /\ caller.at = "idle" /\ inbox = <<>> /\ worker.at = "idle" /\ requests = 0
      /\ lifecycle = "open" /\ frames = <<>> /\ dispatched = {} /\ callback.at = "idle"
      /\ main.at = "idle" /\ operation.request = 0 /\ operation.terminal
      /\ DOMAIN operation = OpFields /\ operation.cancellation = "none"
      /\ DOMAIN callback = {"at"} /\ DOMAIN caller = {"at"}
  BY DEF B!Init, B!Idle, B!NoOperation, OpFields
<1>2. RequestsFit
  BY <1>1 DEF RequestsFit
<1>3. CallerFits
  BY <1>1 DEF CallerFits
<1>4. OperationFits
  <2>1. Over /\ ~Counted
    BY <1>1 DEF Over, NoneLeft, Counted, Waits, Emits, Installs, Asks, Transfers, Fresh, Started
  <2>2. <<>> \in Seq(Event) /\ DOMAIN <<>> = {} /\ 0 \in Nat
    OBVIOUS
  <2> QED BY <1>1, <2>1, <2>2 DEF OperationFits
<1>5. B!AnswersAreWhole
  BY <1>1 DEF B!AnswersAreWhole
<1>6. ShapeInv
  BY <1>1 DEF ShapeInv, Placed, Stoppable
<1> QED BY <1>1, <1>2, <1>3, <1>4, <1>5, <1>6 DEF BridgeInv

\* What Photos is said to have given is all there, of the request asked for and in its
\* order: whatever was cancelled, cut off or overtaken on the way, a caller that is told
\* complete (receive_all) has every album, asset or chunk (photokit_native.rs, BridgeState.swift).
THEOREM PhotosAnswersStayWhole == SpecGates => []B!AnswersAreWhole
<1>1. InitGates => BridgeInv /\ ShapeInv
  BY BridgeInitially DEF InitGates
<1>2. BridgeInv /\ ShapeInv /\ [NextGates]_allVars => BridgeInv' /\ ShapeInv'
  <2>1. NextGates => B!Next \/ UNCHANGED bridgeVars
    BY DEF NextGates
  <2>2. UNCHANGED allVars => UNCHANGED bridgeVars
    BY DEF allVars
  <2> QED BY <2>1, <2>2, BridgeSteps, BridgeKept
<1>3. BridgeInv => B!AnswersAreWhole
  BY DEF BridgeInv
<1> QED BY <1>1, <1>2, <1>3, PTL DEF SpecGates

\* Together: what a command, a caller of Photos and the window are told is what happened
\* (service.rs, photokit_native.rs, outfit_recommendation_provider.rs).
THEOREM AnswersStayWhole == SpecGates => []AnswersAreWhole
<1>1. SpecGates => []B!AnswersAreWhole /\ []S!WishesAreGrantedOnce /\ []A!AnswerIsHonest
  BY PhotosAnswersStayWhole, WishesStayGrantedOnce, RecommendationsAreHonest
<1>2. B!AnswersAreWhole /\ S!WishesAreGrantedOnce /\ A!AnswerIsHonest => AnswersAreWhole
  BY DEF AnswersAreWhole
<1> QED BY <1>1, <1>2, PTL
=============================================================================
