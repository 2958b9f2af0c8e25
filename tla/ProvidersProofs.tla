--------------------------- MODULE ProvidersProofs ---------------------------
(***************************************************************************)
(* Proofs about the features of MCProviders, for every number of requests, *)
(* approvals, calls, orders, quantities, reviews and starts.  A step of    *)
(* the composition is a step of one feature and leaves the state of the    *)
(* others alone, so each feature has an inductive invariant of its own.    *)
(***************************************************************************)
EXTENDS MCProviders, Sequences, FiniteSetTheorems, TLAPS

-----------------------------------------------------------------------------
(* The try-on queue, proved for every set of approvals and every number of *)
(* edits and restarts.  The properties are not inductive: they need to     *)
(* know what the rows of a job say about its transmission (RowInv) and     *)
(* what the renderer may assume of the job it holds (RendererInv).         *)

Open == {"prepared", "dispatched", "materializing"}

RowInv(a) ==
    /\ approvals[a].status # "consumed" => jobs[a] = NoJob
    /\ jobs[a].state \in {"none", "queued"} => sent[a] = 0
    /\ jobs[a].state = "running" => attempts[a].state \in Open
                                   /\ attempts[a].fence = jobs[a].fence
    /\ jobs[a].state = "running" /\ attempts[a].state = "prepared" => sent[a] = 0
    /\ jobs[a].state # "failed" => jobs[a].failure = "none"
    /\ sent[a] <= 1
    /\ sent[a] > 0 => attempts[a].audit
    /\ jobs[a].failure \in UnsentFailures => sent[a] = 0
    /\ jobs[a].state = "succeeded" <=> a \in outputs
    /\ a \in outputs => a \in blobs

\* What each step of run_once knows of the job it holds.
StepInv(step, a) ==
    /\ step = "claimed" => attempts[a].state = "prepared"
    /\ step \in {"authorized", "marked", "not_sent", "sent"} => attempts[a].state = "dispatched"
    /\ step \in {"marked", "not_sent"} => attempts[a].audit
    /\ step \in {"authorized", "marked", "not_sent"} => sent[a] = 0
    /\ step = "failing" => attempts[a].state \in {"prepared", "dispatched"}
    /\ step \in {"materializing", "promoted"} => attempts[a].state = "materializing"
    /\ step = "promoted" => a \in blobs

RendererInv ==
    renderer # Resting =>
        /\ jobs[renderer.job].state = "running"
        /\ jobs[renderer.job].fence = renderer.fence
        /\ StepInv(renderer.step, renderer.job)
        /\ renderer.step = "failing" /\ renderer.code \in UnsentFailures
             => sent[renderer.job] = 0

TInv ==
    /\ TypeOK
    /\ \A a \in Approvals : RowInv(a)
    /\ RendererInv

JobRows == [state : {"none", "queued", "running"} \cup Terminal,
            fence : Nat, failure : FailureCodes \cup {"none"}]
AttemptRows == [state : {"none"} \cup Open \cup Terminal, fence : Nat, audit : BOOLEAN]
Working == [step : {"claimed", "authorized", "marked", "sent", "materializing", "promoted"},
            job : Approvals, fence : Nat]
Reporting == [step : {"failing", "not_sent"}, job : Approvals, fence : Nat, code : FailureCodes]

\* The types of the tables and of the renderer, by name.
LEMMA Types ==
    ASSUME TypeOK
    PROVE  /\ jobs \in [Approvals -> JobRows]
           /\ attempts \in [Approvals -> AttemptRows]
           /\ sent \in [Approvals -> Nat]
           /\ renderer = Resting \/ renderer \in Working \/ renderer \in Reporting
  BY DEF TypeOK, JobRows, AttemptRows, Open, Working, Reporting

\* A renderer that is not resting holds a job.
LEMMA Held ==
    ASSUME TypeOK, renderer # Resting
    PROVE  renderer.job \in Approvals /\ renderer.fence \in Nat
  BY Types DEF Working, Reporting

\* A row of the invariant depends on nothing but the rows of its approval.
LEMMA SameRow ==
    ASSUME NEW a, RowInv(a), jobs'[a] = jobs[a], attempts'[a] = attempts[a],
           sent'[a] = sent[a], a \in outputs' <=> a \in outputs,
           a \in blobs => a \in blobs',
           approvals'[a].status = approvals[a].status
    PROVE  RowInv(a)'
  BY DEF RowInv

\* An action that changes no table and leaves the renderer alone.
LEMMA OnlyCommands ==
    ASSUME TInv, UNCHANGED <<jobs, attempts, blobs, outputs, renderer, sent>>, TypeOK',
           \A a \in Approvals : approvals'[a].status # approvals[a].status => RowInv(a)'
    PROVE  TInv'
  <1>1. \A a \in Approvals : RowInv(a)'
    BY SameRow DEF TInv
  <1>2. RendererInv'
    BY DEF TInv, RendererInv, StepInv
  <1> QED
    BY <1>1, <1>2 DEF TInv

\* An action of the renderer on the job it holds: what is left to show is
\* about that job alone.
LEMMA OnlyHeldJob ==
    ASSUME TInv, NEW a \in Approvals, TypeOK', RowInv(a)', RendererInv',
           UNCHANGED approvals,
           \A b \in Approvals \ {a} :
               /\ jobs'[b] = jobs[b] /\ attempts'[b] = attempts[b] /\ sent'[b] = sent[b]
               /\ b \in outputs' <=> b \in outputs
               /\ b \in blobs => b \in blobs'
    PROVE  TInv'
  <1>1. ASSUME NEW b \in Approvals \ {a} PROVE RowInv(b)'
    BY <1>1, SameRow DEF TInv
  <1> QED
    BY <1>1 DEF TInv

LEMMA TryOnInit == Init => TInv
  <1> SUFFICES ASSUME Init PROVE TInv
    OBVIOUS
  <1> USE DEF Init, NoApproval, NoJob, NoAttempt
  <1>1. TypeOK
    BY DEF TypeOK, Resting, Terminal
  <1>2. \A a \in Approvals : RowInv(a)
    <2> SUFFICES ASSUME NEW a \in Approvals PROVE RowInv(a)
      OBVIOUS
    <2>1. /\ jobs[a].state = "none" /\ jobs[a].failure = "none" /\ jobs[a] = NoJob
          /\ sent[a] = 0 /\ outputs = {}
      OBVIOUS
    <2> QED
      BY <2>1 DEF RowInv, UnsentFailures, AssetFailures
  <1> QED
    BY <1>1, <1>2 DEF TInv, RendererInv

LEMMA CommandsInv ==
    ASSUME TInv, NEW a \in Approvals,
           preview_try_on(a) \/ Expire(a) \/ EditOutfit \/ DeleteCredential
    PROVE  TInv'
  <1>1. CASE preview_try_on(a)
    <2>1. TypeOK'
      BY <1>1 DEF preview_try_on, TInv, TypeOK
    <2>2. RowInv(a) => RowInv(a)'
      BY <1>1 DEF preview_try_on, RowInv, TInv, TypeOK, NoApproval
    <2> QED
      BY <1>1, <2>1, <2>2, OnlyCommands DEF preview_try_on, TInv, TypeOK
  <1>2. CASE Expire(a)
    <2>1. TypeOK'
      BY <1>2 DEF Expire, TInv, TypeOK
    <2>2. RowInv(a) => RowInv(a)'
      BY <1>2 DEF Expire, RowInv, TInv, TypeOK
    <2> QED
      BY <1>2, <2>1, <2>2, OnlyCommands DEF Expire, TInv, TypeOK
  <1>3. CASE EditOutfit
    BY <1>3, OnlyCommands DEF EditOutfit, tables, TInv, TypeOK
  <1>4. CASE DeleteCredential
    BY <1>4, OnlyCommands DEF DeleteCredential, tables, TInv, TypeOK
  <1> QED
    BY <1>1, <1>2, <1>3, <1>4

LEMMA SubmitInv ==
    ASSUME TInv, NEW a \in Approvals, submit_try_on(a)
    PROVE  TInv'
  <1>1. jobs[a] = NoJob /\ sent[a] = 0 /\ a \notin outputs /\ RowInv(a)
    BY DEF submit_try_on, TInv, RowInv, NoJob
  <1>2. TypeOK'
    BY DEF submit_try_on, TInv, TypeOK
  <1>3. RowInv(a)'
    BY <1>1, Types DEF submit_try_on, TInv, RowInv, UnsentFailures, AssetFailures, TypeOK
  <1>4. \A b \in Approvals \ {a} : RowInv(b)'
    BY SameRow DEF submit_try_on, TInv, TypeOK
  <1>5. RendererInv'
    <2>1. renderer # Resting => renderer.job \in Approvals /\ renderer.job # a
      BY <1>1, Held DEF TInv, RendererInv, NoJob
    <2> QED
      BY <2>1 DEF submit_try_on, TInv, RendererInv, StepInv
  <1> QED
    BY <1>2, <1>3, <1>4, <1>5 DEF TInv

LEMMA ClaimInv ==
    ASSUME TInv, NEW a \in Approvals, claim_try_on_job(a) \/ claim_unusable_job(a)
    PROVE  TInv'
  <1>1. /\ RowInv(a) /\ sent[a] = 0 /\ a \notin outputs
        /\ jobs[a].fence + 1 \in Nat /\ renderer = Resting
        /\ approvals[a].status = "consumed"
    BY Types DEF claim_try_on_job, claim_unusable_job, TInv, RowInv, JobRows, NoJob
  <1>2. CASE claim_try_on_job(a)
    <2>1. TypeOK'
      BY <1>1, <1>2 DEF claim_try_on_job, TInv, TypeOK
    <2>2. RowInv(a)'
      BY <1>1, <1>2, Types
         DEF claim_try_on_job, TInv, RowInv, Open, UnsentFailures, AssetFailures
    <2>3. RendererInv'
      BY <1>1, <1>2, Types DEF claim_try_on_job, TInv, RendererInv, StepInv
    <2> QED
      BY <1>2, <2>1, <2>2, <2>3, OnlyHeldJob, Types DEF claim_try_on_job, TInv
  <1>3. CASE claim_unusable_job(a)
    <2>1. PICK code \in AssetFailures :
            jobs' = [jobs EXCEPT ![a] = [state |-> "failed", fence |-> jobs[a].fence + 1,
                                         failure |-> code]]
      BY <1>3 DEF claim_unusable_job
    <2>2. TypeOK'
      BY <1>1, <1>3, <2>1
         DEF claim_unusable_job, TInv, TypeOK, Terminal, FailureCodes, UnsentFailures
    <2>3. RowInv(a)'
      BY <1>1, <1>3, <2>1, Types DEF claim_unusable_job, TInv, RowInv
    <2>4. RendererInv'
      BY <1>1, <1>3 DEF claim_unusable_job, RendererInv, Resting
    <2> QED
      BY <1>3, <2>1, <2>2, <2>3, <2>4, OnlyHeldJob, Types DEF claim_unusable_job, TInv
  <1> QED
    BY <1>2, <1>3

\* The steps that change no table: a failure found, the request sent.
LEMMA QuietStepsInv ==
    ASSUME TInv, \/ credential_unavailable \/ generate_not_sent
                 \/ generate_fails \/ run_once_fails
    PROVE  TInv'
  <1>1. UNCHANGED <<approvals, jobs, attempts, blobs, outputs, sent>>
    BY DEF credential_unavailable, generate_not_sent, generate_fails, run_once_fails, tables
  <1>2. \A a \in Approvals : RowInv(a)'
    BY <1>1, SameRow DEF TInv
  <1>3. renderer # Resting /\ renderer.job \in Approvals /\ renderer.fence \in Nat
    BY Held DEF credential_unavailable, generate_not_sent, generate_fails, run_once_fails,
                TInv, Resting
  <1>4. RowInv(renderer.job) /\ jobs[renderer.job].state = "running"
    BY <1>3 DEF TInv, RendererInv
  <1>5. CASE run_once_fails
    BY <1>1, <1>2, <1>5 DEF run_once_fails, TInv, TypeOK, RendererInv
  <1>6. CASE credential_unavailable
    <2>1. sent[renderer.job] = 0
      BY <1>3, <1>4, <1>6 DEF credential_unavailable, TInv, RendererInv, StepInv, RowInv
    <2>2. renderer' = [step |-> "failing", job |-> renderer.job, fence |-> renderer.fence,
                       code |-> "credential_unavailable"]
      BY <1>6 DEF credential_unavailable, Failing
    <2>3. TypeOK'
      BY <1>1, <1>3, <1>6, <2>2
         DEF credential_unavailable, TInv, TypeOK, FailureCodes, UnsentFailures
    <2>4. attempts[renderer.job].state \in {"prepared", "dispatched"}
      BY <1>3, <1>6 DEF credential_unavailable, TInv, RendererInv, StepInv
    <2>5. RendererInv'
      BY <1>1, <1>3, <2>1, <2>2, <2>4 DEF TInv, RendererInv, StepInv
    <2> QED
      BY <1>2, <2>3, <2>5 DEF TInv
  <1>7. CASE generate_not_sent
    <2>1. PICK code \in TransportFailures :
            renderer' = [step |-> "not_sent", job |-> renderer.job, fence |-> renderer.fence,
                         code |-> code]
      BY <1>7 DEF generate_not_sent
    <2>2. TypeOK'
      BY <1>1, <1>3, <1>7, <2>1
         DEF generate_not_sent, TInv, TypeOK, FailureCodes, SentFailures
    <2>3. RendererInv'
      BY <1>1, <1>3, <1>7, <2>1 DEF generate_not_sent, TInv, RendererInv, StepInv
    <2> QED
      BY <1>2, <2>2, <2>3 DEF TInv
  <1>8. CASE generate_fails
    <2>1. PICK code \in SentFailures :
            renderer' = [step |-> "failing", job |-> renderer.job, fence |-> renderer.fence,
                         code |-> code]
      BY <1>8 DEF generate_fails, Failing
    <2>2. TypeOK'
      BY <1>1, <1>3, <1>8, <2>1 DEF generate_fails, TInv, TypeOK, FailureCodes
    <2>3. code \notin UnsentFailures
      BY <2>1 DEF SentFailures, TransportFailures, UnsentFailures, AssetFailures
    <2>4. RendererInv'
      BY <1>1, <1>3, <1>8, <2>1, <2>3 DEF generate_fails, TInv, RendererInv, StepInv
    <2> QED
      BY <1>2, <2>2, <2>4 DEF TInv
  <1> QED
    BY <1>5, <1>6, <1>7, <1>8

\* The steps that write the attempt and keep the job running.
LEMMA AttemptStepsInv ==
    ASSUME TInv, \/ authorize_try_on_transport \/ mark_try_on_transport_started
                 \/ clear_try_on_transport_started \/ begin_try_on_output
    PROVE  TInv'
  <1> DEFINE a == renderer.job
  <1>1. renderer # Resting /\ a \in Approvals /\ renderer.fence \in Nat
    BY Held DEF authorize_try_on_transport, mark_try_on_transport_started,
                clear_try_on_transport_started, begin_try_on_output, TInv, Resting
  <1>2. /\ RowInv(a) /\ jobs[a].state = "running" /\ jobs[a].fence = renderer.fence
        /\ attempts[a] \in AttemptRows /\ sent[a] \in Nat
    BY <1>1, Types DEF TInv, RendererInv
  <1>3. CASE authorize_try_on_transport
    <2>1. /\ attempts' = [attempts EXCEPT ![a].state = "dispatched"]
          /\ renderer' = [step |-> "authorized", job |-> a, fence |-> renderer.fence]
          /\ attempts[a].state = "prepared" /\ sent[a] = 0
      BY <1>2, <1>3 DEF authorize_try_on_transport, GoTo, RowInv
    <2>2. TypeOK'
      <3>1. attempts' \in [Approvals -> AttemptRows]
        <4>1. [attempts[a] EXCEPT !.state = "dispatched"] \in AttemptRows
          BY <1>2 DEF AttemptRows, Open
        <4> QED
          BY <1>1, <2>1, <4>1, Types DEF TInv
      <3> QED
        BY <1>1, <1>3, <2>1, <3>1 DEF authorize_try_on_transport, TInv, TypeOK, AttemptRows, Open
    <2>3. attempts'[a].state = "dispatched" /\ attempts'[a].fence = attempts[a].fence
      BY <1>1, <1>2, <2>1, Types DEF TInv, AttemptRows
    <2>4. RowInv(a)'
      BY <1>2, <1>3, <2>1, <2>3 DEF authorize_try_on_transport, RowInv, Open
    <2>5. RendererInv'
      BY <1>2, <1>3, <2>1, <2>3 DEF authorize_try_on_transport, RendererInv, StepInv
    <2> QED
      BY <1>1, <1>3, <2>1, <2>2, <2>4, <2>5, OnlyHeldJob, Types
         DEF authorize_try_on_transport, TInv
  <1>4. CASE mark_try_on_transport_started
    <2>1. /\ attempts' = [attempts EXCEPT ![a].audit = TRUE]
          /\ renderer' = [step |-> "marked", job |-> a, fence |-> renderer.fence]
          /\ attempts[a].state = "dispatched" /\ sent[a] = 0
      BY <1>1, <1>4 DEF mark_try_on_transport_started, GoTo, TInv, RendererInv, StepInv
    <2>2. TypeOK'
      <3>1. attempts' \in [Approvals -> AttemptRows]
        <4>1. [attempts[a] EXCEPT !.audit = TRUE] \in AttemptRows
          BY <1>2 DEF AttemptRows, Open
        <4> QED
          BY <1>1, <2>1, <4>1, Types DEF TInv
      <3> QED
        BY <1>1, <1>4, <2>1, <3>1 DEF mark_try_on_transport_started, TInv, TypeOK, AttemptRows, Open
    <2>3. /\ attempts'[a].state = "dispatched" /\ attempts'[a].audit
          /\ attempts'[a].fence = attempts[a].fence
      BY <1>1, <1>2, <2>1, Types DEF TInv, AttemptRows
    <2>4. RowInv(a)'
      BY <1>2, <1>4, <2>1, <2>3 DEF mark_try_on_transport_started, RowInv, Open
    <2>5. RendererInv'
      BY <1>2, <1>4, <2>1, <2>3 DEF mark_try_on_transport_started, RendererInv, StepInv
    <2> QED
      BY <1>1, <1>4, <2>1, <2>2, <2>4, <2>5, OnlyHeldJob, Types
         DEF mark_try_on_transport_started, TInv
  <1>5. CASE clear_try_on_transport_started
    <2>1. /\ attempts' = [attempts EXCEPT ![a].audit = FALSE]
          /\ renderer' = [step |-> "failing", job |-> a, fence |-> renderer.fence,
                          code |-> renderer.code]
          /\ attempts[a].state = "dispatched" /\ sent[a] = 0
          /\ renderer.code \in FailureCodes
      BY <1>1, <1>5, Types
         DEF clear_try_on_transport_started, Failing, TInv, RendererInv, StepInv,
             Working, Reporting
    <2>2. TypeOK'
      <3>1. attempts' \in [Approvals -> AttemptRows]
        <4>1. [attempts[a] EXCEPT !.audit = FALSE] \in AttemptRows
          BY <1>2 DEF AttemptRows, Open
        <4> QED
          BY <1>1, <2>1, <4>1, Types DEF TInv
      <3> QED
        BY <1>1, <1>5, <2>1, <3>1 DEF clear_try_on_transport_started, TInv, TypeOK, AttemptRows, Open
    <2>3. attempts'[a].state = "dispatched" /\ attempts'[a].fence = attempts[a].fence
      BY <1>1, <1>2, <2>1, Types DEF TInv, AttemptRows
    <2>4. RowInv(a)'
      BY <1>2, <1>5, <2>1, <2>3 DEF clear_try_on_transport_started, RowInv, Open
    <2>5. RendererInv'
      BY <1>2, <1>5, <2>1, <2>3 DEF clear_try_on_transport_started, RendererInv, StepInv
    <2> QED
      BY <1>1, <1>5, <2>1, <2>2, <2>4, <2>5, OnlyHeldJob, Types
         DEF clear_try_on_transport_started, TInv
  <1>6. CASE begin_try_on_output
    <2>1. /\ attempts' = [attempts EXCEPT ![a].state = "materializing", ![a].audit = TRUE]
          /\ renderer' = [step |-> "materializing", job |-> a, fence |-> renderer.fence]
      BY <1>6 DEF begin_try_on_output, GoTo
    <2>2. TypeOK'
      <3>1. attempts' \in [Approvals -> AttemptRows]
        <4>1. [attempts[a] EXCEPT !.state = "materializing", !.audit = TRUE] \in AttemptRows
          BY <1>2 DEF AttemptRows, Open
        <4> QED
          BY <1>1, <2>1, <4>1, Types DEF TInv
      <3> QED
        BY <1>1, <1>6, <2>1, <3>1 DEF begin_try_on_output, TInv, TypeOK, AttemptRows, Open
    <2>3. /\ attempts'[a].state = "materializing" /\ attempts'[a].audit
          /\ attempts'[a].fence = attempts[a].fence
      BY <1>1, <1>2, <2>1, Types DEF TInv, AttemptRows
    <2>4. RowInv(a)'
      BY <1>2, <1>6, <2>1, <2>3 DEF begin_try_on_output, RowInv, Open
    <2>5. RendererInv'
      BY <1>2, <1>6, <2>1, <2>3 DEF begin_try_on_output, RendererInv, StepInv
    <2> QED
      BY <1>1, <1>6, <2>1, <2>2, <2>4, <2>5, OnlyHeldJob, Types
         DEF begin_try_on_output, TInv
  <1> QED
    BY <1>3, <1>4, <1>5, <1>6

\* The request leaves the machine, and its output reaches the blob store.
LEMMA EffectsInv ==
    ASSUME TInv, generate \/ put_output
    PROVE  TInv'
  <1> DEFINE a == renderer.job
  <1>1. renderer # Resting /\ a \in Approvals /\ renderer.fence \in Nat
    BY Held DEF generate, put_output, TInv, Resting
  <1>2. /\ RowInv(a) /\ jobs[a].state = "running" /\ jobs[a].fence = renderer.fence
        /\ sent[a] \in Nat
    BY <1>1, Types DEF TInv, RendererInv
  <1>3. CASE generate
    <2>1. /\ sent' = [sent EXCEPT ![a] = @ + 1] /\ UNCHANGED tables
          /\ renderer' = [step |-> "sent", job |-> a, fence |-> renderer.fence]
          /\ attempts[a].state = "dispatched" /\ attempts[a].audit /\ sent[a] = 0
      BY <1>1, <1>3 DEF generate, GoTo, TInv, RendererInv, StepInv
    <2>2. TypeOK'
      BY <1>1, <1>3, <2>1 DEF generate, tables, TInv, TypeOK
    <2>3. sent'[a] = 1
      BY <1>1, <2>1, Types DEF TInv
    <2>4. RowInv(a)'
      <3>1. jobs[a].failure = "none"
        BY <1>2 DEF RowInv
      <3> QED
        BY <1>2, <2>1, <2>3, <3>1 DEF RowInv, tables, UnsentFailures, AssetFailures
    <2>5. RendererInv'
      BY <1>2, <2>1 DEF RendererInv, StepInv, tables
    <2> QED
      BY <1>1, <2>1, <2>2, <2>4, <2>5, OnlyHeldJob, Types DEF tables, TInv
  <1>4. CASE put_output
    <2>1. /\ blobs' = blobs \cup {a} /\ UNCHANGED <<approvals, jobs, attempts, outputs, sent>>
          /\ renderer' = [step |-> "promoted", job |-> a, fence |-> renderer.fence]
          /\ attempts[a].state = "materializing"
      BY <1>1, <1>4 DEF put_output, GoTo, TInv, RendererInv, StepInv
    <2>2. TypeOK'
      BY <1>1, <1>4, <2>1 DEF put_output, TInv, TypeOK
    <2>3. RowInv(a)'
      BY <1>2, <2>1 DEF RowInv
    <2>4. RendererInv'
      BY <1>2, <2>1 DEF RendererInv, StepInv
    <2> QED
      BY <1>1, <2>1, <2>2, <2>3, <2>4, OnlyHeldJob DEF TInv
  <1> QED
    BY <1>3, <1>4

\* The two ways a job ends.
LEMMA OutcomesInv ==
    ASSUME TInv, fail_try_on_job \/ finalize_try_on_output
    PROVE  TInv'
  <1>0. renderer # Resting
    BY DEF fail_try_on_job, finalize_try_on_output, Resting
  <1>1. PICK a \in Approvals : a = renderer.job /\ renderer # Resting /\ renderer.fence \in Nat
    BY <1>0, Held DEF TInv
  <1>2. /\ RowInv(a) /\ jobs[a].state = "running" /\ attempts[a] \in AttemptRows
        /\ approvals[a].status = "consumed" /\ a \notin outputs
    BY <1>1, Types DEF TInv, RendererInv, RowInv, NoJob
  <1>3. CASE fail_try_on_job
    <2>1. /\ attempts' = [attempts EXCEPT ![a].state = "failed"]
          /\ jobs' = [jobs EXCEPT ![a] = [state |-> "failed", fence |-> renderer.fence,
                                          failure |-> renderer.code]]
          /\ renderer' = Resting
          /\ UNCHANGED <<approvals, blobs, outputs, sent>>
      BY <1>1, <1>3 DEF fail_try_on_job, fail_job
    <2>2. /\ renderer.code \in FailureCodes
          /\ renderer.code \in UnsentFailures => sent[a] = 0
      BY <1>1, <1>3, Types DEF fail_try_on_job, TInv, RendererInv, Working, Reporting
    <2>3. TypeOK'
      <3>1. attempts' \in [Approvals -> AttemptRows]
        <4>1. [attempts[a] EXCEPT !.state = "failed"] \in AttemptRows
          BY <1>2 DEF AttemptRows, Terminal
        <4> QED
          BY <1>1, <2>1, <4>1, Types DEF TInv
      <3>2. jobs' \in [Approvals -> JobRows]
        BY <1>1, <2>1, <2>2, Types DEF TInv, JobRows, Terminal
      <3> QED
        BY <1>3, <2>1, <3>1, <3>2
           DEF fail_try_on_job, TInv, TypeOK, JobRows, AttemptRows, Open
    <2>4. /\ jobs'[a].state = "failed" /\ jobs'[a].failure = renderer.code
          /\ attempts[a].audit => attempts'[a].audit
      BY <1>1, <1>2, <2>1, Types DEF TInv, AttemptRows
    <2>5. RowInv(a)'
      BY <1>2, <2>1, <2>2, <2>4 DEF RowInv
    <2>6. RendererInv'
      BY <2>1 DEF RendererInv, Resting
    <2> QED
      BY <1>1, <2>1, <2>3, <2>5, <2>6, OnlyHeldJob, Types DEF TInv
  <1>4. CASE finalize_try_on_output
    <2>1. /\ attempts' = [attempts EXCEPT ![a].state = "succeeded"]
          /\ jobs' = [jobs EXCEPT ![a] = [state |-> "succeeded", fence |-> renderer.fence,
                                          failure |-> "none"]]
          /\ outputs' = outputs \cup {a}
          /\ renderer' = Resting
          /\ UNCHANGED <<approvals, blobs, sent>>
      BY <1>1, <1>4 DEF finalize_try_on_output, finalize_promoted_output
    <2>2. a \in blobs
      BY <1>1, <1>4 DEF finalize_try_on_output, TInv, RendererInv, StepInv
    <2>3. TypeOK'
      <3>1. attempts' \in [Approvals -> AttemptRows]
        <4>1. [attempts[a] EXCEPT !.state = "succeeded"] \in AttemptRows
          BY <1>2 DEF AttemptRows, Terminal
        <4> QED
          BY <1>1, <2>1, <4>1, Types DEF TInv
      <3>2. jobs' \in [Approvals -> JobRows]
        BY <1>1, <2>1, Types DEF TInv, JobRows, Terminal
      <3> QED
        BY <1>1, <1>4, <2>1, <3>1, <3>2
           DEF finalize_try_on_output, TInv, TypeOK, JobRows, AttemptRows, Open
    <2>4. /\ jobs'[a].state = "succeeded" /\ jobs'[a].failure = "none"
          /\ attempts[a].audit => attempts'[a].audit
      BY <1>1, <1>2, <2>1, Types DEF TInv, AttemptRows
    <2>5. RowInv(a)'
      BY <1>2, <2>1, <2>2, <2>4 DEF RowInv, UnsentFailures, AssetFailures
    <2>6. RendererInv'
      BY <2>1 DEF RendererInv, Resting
    <2> QED
      BY <1>1, <2>1, <2>3, <2>5, <2>6, OnlyHeldJob, Types DEF TInv
  <1> QED
    BY <1>3, <1>4

\* What recovery makes of a running job.
LEMMA RecoveredRow ==
    ASSUME TInv, NEW a \in Approvals, NEW promoted \in SUBSET blobs, jobs[a].state = "running"
    PROVE  LET r == Recovered(a, promoted) IN
           /\ r \in JobRows
           /\ r.state \in {"queued"} \cup Terminal
           /\ r.state = "queued" => sent[a] = 0
           /\ r.state = "succeeded" => a \in blobs
           /\ r.state # "failed" => r.failure = "none"
           /\ r.failure \notin UnsentFailures
  <1>1. attempts[a].state \in Open /\ jobs[a].fence \in Nat
        /\ (attempts[a].state = "prepared" => sent[a] = 0)
    BY Types DEF TInv, RowInv, JobRows
  <1>2. CASE attempts[a].state = "prepared"
    <2>1. Recovered(a, promoted) =
            [state |-> "queued", fence |-> jobs[a].fence, failure |-> "none"]
      BY <1>2 DEF Recovered
    <2> QED
      BY <1>1, <1>2, <2>1 DEF JobRows, UnsentFailures, AssetFailures
  <1>3. CASE attempts[a].state = "dispatched"
    <2>1. Recovered(a, promoted) =
            [state |-> "failed", fence |-> jobs[a].fence, failure |-> "outcome_unknown"]
      BY <1>3 DEF Recovered
    <2> QED
      BY <1>1, <2>1
         DEF JobRows, Terminal, FailureCodes, SentFailures, UnsentFailures, AssetFailures
  <1>4. CASE attempts[a].state = "materializing" /\ a \in promoted
    <2>1. Recovered(a, promoted) =
            [state |-> "succeeded", fence |-> jobs[a].fence, failure |-> "none"]
      BY <1>4 DEF Recovered
    <2> QED
      BY <1>1, <1>4, <2>1 DEF JobRows, Terminal, UnsentFailures, AssetFailures
  <1>5. CASE attempts[a].state = "materializing" /\ a \notin promoted
    <2>1. Recovered(a, promoted) =
            [state |-> "failed", fence |-> jobs[a].fence,
             failure |-> "output_materialization_interrupted"]
      BY <1>5 DEF Recovered
    <2> QED
      BY <1>1, <2>1 DEF JobRows, Terminal, FailureCodes, UnsentFailures, AssetFailures
  <1> QED
    BY <1>1, <1>2, <1>3, <1>4, <1>5 DEF Open

LEMMA RestartInv ==
    ASSUME TInv, Restart
    PROVE  TInv'
  <1>1. PICK promoted \in SUBSET blobs :
        /\ jobs' = [a \in Approvals |-> IF a \in Running THEN Recovered(a, promoted)
                                        ELSE jobs[a]]
        /\ attempts' = [a \in Approvals |->
             IF a \in Running /\ Recovered(a, promoted).state # "queued"
             THEN [attempts[a] EXCEPT !.state = Recovered(a, promoted).state]
             ELSE attempts[a]]
        /\ outputs' = outputs \cup {a \in Running : Recovered(a, promoted).state = "succeeded"}
    BY DEF Restart
  <1>2. renderer' = Resting /\ UNCHANGED <<approvals, blobs, sent>>
    BY DEF Restart
  <1>3. ASSUME NEW a \in Approvals
        PROVE  /\ jobs'[a] \in JobRows /\ attempts'[a] \in AttemptRows
               /\ RowInv(a)'
    <2>1. jobs[a] \in JobRows /\ attempts[a] \in AttemptRows /\ RowInv(a)
      BY Types DEF TInv
    <2>2. CASE jobs[a].state = "running"
      <3> DEFINE r == Recovered(a, promoted)
      <3>1. /\ r \in JobRows /\ r.state \in {"queued"} \cup Terminal
            /\ r.state = "queued" => sent[a] = 0
            /\ r.state = "succeeded" => a \in blobs
            /\ r.state # "failed" => r.failure = "none"
            /\ r.failure \notin UnsentFailures
        BY <2>2, RecoveredRow
      <3>2. a \in Running /\ jobs'[a] = r
        BY <1>1, <2>2 DEF Running
      <3>3. a \in outputs' <=> r.state = "succeeded"
        BY <1>1, <2>1, <2>2, <3>2 DEF RowInv
      <3>4. /\ attempts'[a] \in AttemptRows
            /\ attempts[a].audit => attempts'[a].audit
        <4>1. CASE r.state = "queued"
          BY <1>1, <2>1, <4>1
        <4>2. CASE r.state # "queued"
          <5>1. attempts'[a] = [attempts[a] EXCEPT !.state = r.state]
            BY <1>1, <3>2, <4>2
          <5> QED
            BY <2>1, <3>1, <4>2, <5>1 DEF AttemptRows
        <4> QED
          BY <4>1, <4>2
      <3>5. approvals[a].status = "consumed"
        BY <2>1, <2>2 DEF RowInv, NoJob
      <3>6. r.state # "running" /\ r.state # "none"
        BY <3>1 DEF Terminal
      <3> HIDE DEF r
      <3>7. RowInv(a)'
        BY <1>2, <2>1, <3>1, <3>2, <3>3, <3>4, <3>5, <3>6 DEF RowInv
      <3> QED
        BY <3>1, <3>2, <3>4, <3>7
    <2>3. CASE jobs[a].state # "running"
      <3>1. a \notin Running
        BY <2>3 DEF Running
      <3>2. jobs'[a] = jobs[a] /\ attempts'[a] = attempts[a] /\ (a \in outputs' <=> a \in outputs)
        BY <1>1, <3>1
      <3> QED
        BY <1>2, <2>1, <3>2, SameRow
    <2> QED
      BY <2>2, <2>3
  <1>4. jobs' \in [Approvals -> JobRows] /\ attempts' \in [Approvals -> AttemptRows]
    BY <1>1, <1>3
  <1>5. outputs' \subseteq Approvals /\ boots' \in Nat
    BY <1>1 DEF Restart, TInv, TypeOK, Running
  <1>6. TypeOK'
    BY <1>2, <1>4, <1>5 DEF Restart, TInv, TypeOK, JobRows, AttemptRows, Open
  <1> QED
    BY <1>2, <1>3, <1>6 DEF TInv, RendererInv, Resting

LEMMA TryOnNext == TInv /\ [Next]_vars => TInv'
  <1> SUFFICES ASSUME TInv, [Next]_vars PROVE TInv'
    OBVIOUS
  <1>1. CASE UNCHANGED vars
    BY <1>1 DEF vars, tables, TInv, TypeOK, RowInv, RendererInv, StepInv
  <1>2. CASE \E a \in Approvals :
               \/ preview_try_on(a) \/ Expire(a) \/ submit_try_on(a)
               \/ claim_try_on_job(a) \/ claim_unusable_job(a)
    BY <1>2, CommandsInv, SubmitInv, ClaimInv
  <1>3. CASE EditOutfit
    BY <1>3, OnlyCommands DEF EditOutfit, tables, TInv, TypeOK
  <1>4. CASE DeleteCredential
    BY <1>4, OnlyCommands DEF DeleteCredential, tables, TInv, TypeOK
  <1>5. CASE \/ credential_unavailable \/ generate_not_sent
             \/ generate_fails \/ run_once_fails
    BY <1>5, QuietStepsInv
  <1>6. CASE \/ authorize_try_on_transport \/ mark_try_on_transport_started
             \/ clear_try_on_transport_started \/ begin_try_on_output
    BY <1>6, AttemptStepsInv
  <1>7. CASE generate \/ put_output
    BY <1>7, EffectsInv
  <1>8. CASE fail_try_on_job \/ finalize_try_on_output
    BY <1>8, OutcomesInv
  <1>9. CASE Restart
    BY <1>9, RestartInv
  <1> QED
    BY <1>1, <1>2, <1>3, <1>4, <1>5, <1>6, <1>7, <1>8, <1>9 DEF Next, NothingToDo

LEMMA TryOnInvariant == Spec => []TInv
  BY TryOnInit, TryOnNext, PTL DEF Spec

-----------------------------------------------------------------------------
\* The photographs of one approval are transmitted at most once: no crash,
\* recovery, failed transaction or replayed command sends them again.
THEOREM SentAtMostOnce == Spec => []AtMostOneSend
  <1>1. TInv => AtMostOneSend
    BY DEF TInv, RowInv, AtMostOneSend
  <1> QED
    BY <1>1, TryOnInvariant, PTL

\* The attempt row of a transmission that happened always says so.
THEOREM AuditIsTruthful == Spec => []AuditCoversSend
  <1>1. TInv => AuditCoversSend
    BY DEF TInv, RowInv, AuditCoversSend
  <1> QED
    BY <1>1, TryOnInvariant, PTL

\* No job that was sent ends with a failure that says nothing was sent.
THEOREM FailuresAreHonest == Spec => []FailureIsHonest
  <1>1. TInv => FailureIsHonest
    BY DEF TInv, RowInv, FailureIsHonest
  <1> QED
    BY <1>1, TryOnInvariant, PTL

\* Exactly the succeeded jobs have an output, and its image is in the store.
THEOREM SuccessIsMaterialized == Spec => []SuccessHasOutput
  <1>1. TInv => SuccessHasOutput
    BY DEF TInv, TypeOK, RowInv, SuccessHasOutput
  <1> QED
    BY <1>1, TryOnInvariant, PTL

\* The outcome of a finished job never changes again.
THEOREM OutcomesAreFinal == Spec => OutcomeIsFinal
  <1>1. TInv /\ [Next]_vars
        => [\A a \in Approvals : jobs[a].state \in Terminal => jobs'[a] = jobs[a]]_vars
    <2> SUFFICES ASSUME TInv, Next, NEW a \in Approvals, jobs[a].state \in Terminal
                 PROVE  jobs'[a] = jobs[a]
      BY DEF vars
    <2>1. jobs \in [Approvals -> JobRows]
      BY Types DEF TInv
    <2>2. renderer # Resting => renderer.job # a
      BY DEF TInv, RendererInv, Terminal
    <2>3. CASE \E b \in Approvals :
                 \/ preview_try_on(b) \/ Expire(b) \/ submit_try_on(b)
                 \/ claim_try_on_job(b) \/ claim_unusable_job(b)
      <3>1. PICK b \in Approvals :
                 \/ preview_try_on(b) \/ Expire(b) \/ submit_try_on(b)
                 \/ claim_try_on_job(b) \/ claim_unusable_job(b)
        BY <2>3
      <3>2. submit_try_on(b) => jobs[b] = NoJob
        BY DEF submit_try_on, TInv, RowInv
      <3>3. jobs'[a] = jobs[a] \/ b # a
        BY <3>1, <3>2 DEF preview_try_on, Expire, submit_try_on, claim_try_on_job,
                          claim_unusable_job, NoJob, Terminal
      <3> QED
        BY <2>1, <3>1, <3>3 DEF preview_try_on, Expire, submit_try_on, claim_try_on_job,
                                claim_unusable_job
    <2>4. CASE fail_try_on_job \/ finalize_try_on_output
      <3>1. renderer # Resting
        BY <2>4 DEF fail_try_on_job, finalize_try_on_output, Resting
      <3> QED
        BY <2>1, <2>2, <2>4, <3>1 DEF fail_try_on_job, fail_job, finalize_try_on_output,
                                finalize_promoted_output
    <2>5. CASE Restart
      BY <2>5 DEF Restart, Running, Terminal
    <2>6. CASE UNCHANGED jobs
      BY <2>6
    <2> QED
      BY <2>3, <2>4, <2>5, <2>6 DEF Next, EditOutfit, DeleteCredential,
           authorize_try_on_transport, credential_unavailable, mark_try_on_transport_started,
           generate, generate_not_sent, generate_fails, clear_try_on_transport_started,
           begin_try_on_output, put_output, run_once_fails, NothingToDo, tables, vars
  <1> QED
    BY <1>1, TryOnInvariant, PTL DEF Spec, OutcomeIsFinal

-----------------------------------------------------------------------------
(* The image of a receipt line                                             *)

\* What the tables and calls of the images hold.
ImageTypeOK ==
    /\ image_attempts \in Seq(Downloads)
    /\ outcomes \in [Downloads -> {"none", "ambiguous", "failed", "succeeded"}]
    /\ image_calls \in [Downloads -> {"idle", "downloading", "staged", "intended", "promoted"}]
    /\ images \subseteq Downloads

\* Why only the newest attempt can have an image: each attempt is made once, by the time
\* another follows it has been given up, and a request that made none has nothing.
ImageInv ==
    /\ ImageTypeOK
    /\ \A j, k \in DOMAIN image_attempts : image_attempts[j] = image_attempts[k] => j = k
    /\ \A k \in DOMAIN image_attempts :
         k # Len(image_attempts) => outcomes[image_attempts[k]] = "ambiguous"
    /\ \A r \in Downloads : (\A k \in DOMAIN image_attempts : image_attempts[k] # r)
         => outcomes[r] = "none" /\ image_calls[r] = "idle"
    /\ \A r \in Downloads : image_calls[r] = "promoted" => blob
    /\ \A r \in Downloads : (outcomes[r] = "succeeded") = (r \in images)
    /\ images # {} => blob

LEMMA ImageStep == NextProviders => D!Next \/ UNCHANGED imageVars
  BY DEF NextProviders, wardrobeVars, imageVars

LEMMA ImageInit == InitProviders => ImageInv
  BY DEF InitProviders, D!Init, ImageInv, ImageTypeOK

LEMMA ImageSafe == ImageInv => NewestImageOnly
<1> SUFFICES ASSUME ImageInv PROVE D!NewestImageOnly
  BY DEF NewestImageOnly
<1>1. ASSUME NEW r \in images PROVE r = D!Latest /\ blob
  <2>1. outcomes[r] = "succeeded" /\ r \in Downloads
    BY DEF ImageInv, ImageTypeOK
  <2>2. PICK k \in DOMAIN image_attempts : image_attempts[k] = r
    BY <2>1 DEF ImageInv
  <2>3. k = Len(image_attempts)
    BY <2>1, <2>2 DEF ImageInv
  <2> QED BY <2>2, <2>3 DEF ImageInv, D!Latest
<1> QED BY <1>1 DEF D!NewestImageOnly, ImageInv

\* One step per action.  Settling what has expired makes attempts ambiguous, and only
\* attempts that had no outcome.
LEMMA ImageNext == ImageInv /\ D!Next => ImageInv'
<1> SUFFICES ASSUME ImageInv, D!Next PROVE ImageInv'
  OBVIOUS
<1> USE DEF ImageInv, ImageTypeOK, D!rows, D!Goto, D!Terminal
<1>1. CASE D!recover_expired_image_attempts
  BY <1>1 DEF D!recover_expired_image_attempts, D!Settle, D!recovered, D!Unsettled, D!Made
<1>2. CASE D!Restart
  BY <1>2 DEF D!Restart, D!Settle, D!recovered, D!Unsettled, D!Made
<1>3. ASSUME NEW r \in Downloads, D!Expire(r) PROVE ImageInv'
  BY <1>3 DEF D!Expire
<1>4. ASSUME NEW r \in Downloads, D!prepare_image_attempt(r) PROVE ImageInv'
  <2> DEFINE n == Len(image_attempts)
  <2>1. /\ image_attempts' = Append(image_attempts, r)
        /\ outcomes' = D!recovered
        /\ image_calls' = [image_calls EXCEPT ![r] = "downloading"]
        /\ UNCHANGED <<images, blob>>
        /\ \A k \in DOMAIN image_attempts : image_attempts[k] # r
        /\ n # 0 => D!recovered[image_attempts[n]] = "ambiguous"
    BY <1>4 DEF D!prepare_image_attempt, D!Settle, D!Made, D!Latest
  <2>2. /\ DOMAIN image_attempts = 1..n /\ n \in Nat
        /\ DOMAIN image_attempts' = 1..(n + 1) /\ Len(image_attempts') = n + 1
        /\ \A k \in 1..n : image_attempts'[k] = image_attempts[k] /\ image_attempts[k] \in Downloads
        /\ image_attempts'[n + 1] = r
        /\ image_attempts' \in Seq(Downloads)
    <3> HIDE DEF ImageInv, ImageTypeOK
    <3>1. image_attempts \in Seq(Downloads)
      BY DEF ImageInv, ImageTypeOK
    <3> QED BY <2>1, <3>1
  <2>3. /\ outcomes' \in [Downloads -> {"none", "ambiguous", "failed", "succeeded"}]
        /\ \A q \in Downloads : outcomes[q] # "none" => outcomes'[q] = outcomes[q]
        /\ \A q \in Downloads : outcomes[q] = "none" => outcomes'[q] \in {"none", "ambiguous"}
        /\ \A q \in Downloads : (\A k \in DOMAIN image_attempts : image_attempts[k] # q)
             => outcomes'[q] = "none"
    BY <2>1 DEF D!recovered, D!Unsettled, D!Made
  <2>4. ImageTypeOK'
    BY <2>1, <2>2, <2>3
  <2>5. \A j, k \in DOMAIN image_attempts' : image_attempts'[j] = image_attempts'[k] => j = k
    BY <2>1, <2>2
  <2>6. \A k \in DOMAIN image_attempts' :
          k # Len(image_attempts') => outcomes'[image_attempts'[k]] = "ambiguous"
    <3> SUFFICES ASSUME NEW k \in 1..n PROVE outcomes'[image_attempts[k]] = "ambiguous"
      BY <2>2
    <3>1. CASE k = n
      BY <3>1, <2>1, <2>2
    <3>2. CASE k # n
      BY <3>2, <2>2, <2>3
    <3> QED BY <3>1, <3>2
  <2>7. \A q \in Downloads : (\A k \in DOMAIN image_attempts' : image_attempts'[k] # q)
          => outcomes'[q] = "none" /\ image_calls'[q] = "idle"
    BY <2>1, <2>2, <2>3
  <2>8. \A q \in Downloads : image_calls'[q] = "promoted" => blob'
    BY <2>1
  <2>9. \A q \in Downloads : (outcomes'[q] = "succeeded") = (q \in images')
    BY <2>1, <2>3
  <2> QED BY <2>1, <2>4, <2>5, <2>6, <2>7, <2>8, <2>9
<1>5. ASSUME NEW r \in Downloads, D!download_fails(r) PROVE ImageInv'
  BY <1>5 DEF D!download_fails
<1>6. ASSUME NEW r \in Downloads, D!stage_image_download(r) PROVE ImageInv'
  BY <1>6 DEF D!stage_image_download
<1>7. ASSUME NEW r \in Downloads, D!persist_image_materialization_intent(r) PROVE ImageInv'
  BY <1>7 DEF D!persist_image_materialization_intent
<1>8. ASSUME NEW r \in Downloads, D!promote_staged_image(r) PROVE ImageInv'
  BY <1>8 DEF D!promote_staged_image
<1>9. ASSUME NEW r \in Downloads, D!commit_successful_image_attempt(r) PROVE ImageInv'
  BY <1>9 DEF D!commit_successful_image_attempt, D!commits
<1>10. ASSUME NEW r \in Downloads, D!finalize_fails(r) PROVE ImageInv'
  BY <1>10 DEF D!finalize_fails
<1> QED
  BY <1>1, <1>2, <1>3, <1>4, <1>5, <1>6, <1>7, <1>8, <1>9, <1>10 DEF D!Next

\* The image of a receipt line is that of the newest approval, however many approvals
\* there are, in whatever order their downloads end (commit_successful_image_attempt,
\* recover_expired_image_attempts).
THEOREM ImagesAreNewest == SpecProviders => []NewestImageOnly
<1>1. ImageInv /\ [NextProviders]_allVars => ImageInv'
  <2> SUFFICES ASSUME ImageInv, [NextProviders]_allVars PROVE ImageInv'
    OBVIOUS
  <2>1. CASE UNCHANGED imageVars
    BY <2>1 DEF imageVars, ImageInv, ImageTypeOK
  <2>2. CASE D!Next
    BY <2>2, ImageNext
  <2> QED BY <2>1, <2>2, ImageStep DEF allVars, wardrobeVars
<1> QED BY ImageInit, ImageSafe, <1>1, PTL DEF SpecProviders
-----------------------------------------------------------------------------
(* The units of a purchase                                                 *)

Reviews == [revision : Nat, order : P!Orders,
            action : {"none", "confirm", "correct", "reject", "defer"}, quantity : Nat]
PurchaseRows == [unit : P!Units, authority : Reviews]

\* What is made of a message stays on record, as a promotion or as its deletion, under the
\* review it was made by, and what is on record is a unit of what that review says.
PurchaseInv ==
    /\ made \in Seq(PurchaseRows)
    /\ \A k \in DOMAIN made : made[k] \in PurchaseRows
    /\ authority \in Reviews
    /\ \A k \in DOMAIN made :
         /\ made[k] \in promotions \cup deletions
         /\ made[k].unit.ordinal < made[k].authority.quantity
    /\ \A j, k \in DOMAIN made :
         /\ made[j].authority = made[k].authority
         /\ j # k => made[j].unit # made[k].unit
    /\ \A k \in DOMAIN made : made[k].unit.order = made[k].authority.order

LEMMA PurchaseStep == NextProviders => P!Next \/ UNCHANGED purchaseVars
  BY DEF NextProviders, wardrobeVars, purchaseVars

LEMMA PurchaseInit == InitProviders => PurchaseInv
  BY DEF InitProviders, P!Init, P!NoAuthority, P!Orders, P!Local, PurchaseInv, Reviews

\* The units made of one review differ in their ordinals, of which there are as many as
\* the review's quantity.
LEMMA PurchaseSafe == PurchaseInv => PurchasedOnce
<1> SUFFICES ASSUME PurchaseInv, made # <<>>
             PROVE  Len(made) <= made[1].authority.quantity
  BY DEF PurchasedOnce, P!PurchasedOnce, PurchaseInv
<1> DEFINE n == Len(made)
           q == made[1].authority.quantity
           f == [k \in 1..n |-> made[k].unit.ordinal]
<1>1. n \in Nat /\ 1 \in 1..n /\ DOMAIN made = 1..n
  BY DEF PurchaseInv
<1>2. q \in Nat
  BY <1>1 DEF PurchaseInv, PurchaseRows, Reviews
<1>3. \A k \in 1..n : made[k].unit \in P!Units /\ made[k].authority = made[1].authority
  BY <1>1 DEF PurchaseInv, PurchaseRows
<1>4. \A k \in 1..n : f[k] \in 0..(q - 1)
  <2> SUFFICES ASSUME NEW k \in 1..n PROVE made[k].unit.ordinal \in 0..(q - 1)
    OBVIOUS
  <2>1. made[k].unit.ordinal < q
    BY <1>1, <1>3 DEF PurchaseInv
  <2>2. made[k].unit.ordinal \in Int /\ 0 <= made[k].unit.ordinal
    BY <1>3 DEF P!Units
  <2> QED BY <1>2, <2>1, <2>2
<1>5. \A j, k \in 1..n : f[j] = f[k] => j = k
  <2> SUFFICES ASSUME NEW j \in 1..n, NEW k \in 1..n, f[j] = f[k], j # k PROVE FALSE
    OBVIOUS
  <2>1. made[j].unit.ordinal = made[k].unit.ordinal
    OBVIOUS
  <2>2. made[j].unit.order = made[k].unit.order
    BY <1>1, <1>3 DEF PurchaseInv
  <2>3. made[j].unit = made[k].unit
    BY <1>3, <2>1, <2>2 DEF P!Units
  <2> QED BY <1>1, <2>3 DEF PurchaseInv
<1>6. f \in Injection(1..n, 0..(q - 1))
  <2> DEFINE g == f
  <2>1. g \in [1..n -> 0..(q - 1)] /\ \A j, k \in 1..n : g[j] = g[k] => j = k
    BY <1>4, <1>5
  <2> HIDE DEF g
  <2>2. g \in Injection(1..n, 0..(q - 1))
    BY <2>1 DEF Injection, IsInjective
  <2> QED BY <2>2 DEF g
<1> HIDE DEF f, n, q
<1>7. Cardinality(1..n) <= Cardinality(0..(q - 1))
  <2>1. IsFiniteSet(0..(q - 1))
    BY <1>2, FS_Interval
  <2> QED BY <1>6, <2>1, FS_Injection
<1>8. Cardinality(1..n) = n /\ Cardinality(0..(q - 1)) = q
  BY <1>1, <1>2, FS_Interval
<1> QED BY <1>1, <1>2, <1>7, <1>8 DEF n, q

LEMMA PurchaseNext == PurchaseInv /\ P!Next => PurchaseInv'
<1> SUFFICES ASSUME PurchaseInv, P!Next PROVE PurchaseInv'
  OBVIOUS
<1>1. ASSUME NEW quantity \in P!Quantities, P!commit_receipt_analysis(quantity)
      PROVE PurchaseInv'
  BY <1>1 DEF P!commit_receipt_analysis, PurchaseInv
<1>2. ASSUME NEW quantity \in P!Quantities, NEW o \in Remote,
             P!publish_receipt_intelligence_order(o, quantity)
      PROVE PurchaseInv'
  BY <1>2 DEF P!publish_receipt_intelligence_order, PurchaseInv
<1>3. ASSUME NEW quantity \in P!Quantities, NEW o \in P!Orders,
             NEW action \in {"confirm", "correct", "reject", "defer"},
             P!review_receipt(o, action, quantity)
      PROVE PurchaseInv'
  BY <1>3 DEF P!review_receipt, P!Quantities, PurchaseInv, Reviews
<1>4. ASSUME NEW u \in P!Units, P!promote_receipt_purchase_unit(u) PROVE PurchaseInv'
  <2> DEFINE row == [unit |-> u, authority |-> authority]
             n == Len(made)
  <2>1. /\ made' = Append(made, row) /\ promotions' = promotions \cup {row}
        /\ UNCHANGED <<authority, deletions>>
        /\ u.order = authority.order /\ u.ordinal < authority.quantity
        /\ \A x \in promotions \cup deletions : x.authority = authority /\ x.unit # u
    BY <1>4 DEF P!promote_receipt_purchase_unit, P!Eligible, P!Recorded,
                P!source_has_prior_authority_state
  <2>2. made \in Seq(PurchaseRows) /\ row \in PurchaseRows
    BY DEF PurchaseInv, PurchaseRows
  <2>3. /\ made' \in Seq(PurchaseRows)
        /\ n \in Nat /\ DOMAIN made = 1..n /\ DOMAIN made' = 1..(n + 1)
        /\ \A k \in 1..n : made'[k] = made[k]
        /\ made'[n + 1] = row
    <3> HIDE DEF row
    <3> QED BY <2>1, <2>2
  <2>4. \A k \in 1..n : made[k].authority = authority /\ made[k].unit # u
    BY <2>1, <2>3 DEF PurchaseInv
  <2>5. \A k \in 1..(n + 1) :
          /\ made'[k] \in PurchaseRows
          /\ made'[k] \in promotions' \cup deletions'
          /\ made'[k].unit.ordinal < made'[k].authority.quantity
          /\ made'[k].unit.order = made'[k].authority.order
    BY <2>1, <2>2, <2>3 DEF PurchaseInv
  <2>6. \A j, k \in 1..(n + 1) :
          /\ made'[j].authority = made'[k].authority
          /\ j # k => made'[j].unit # made'[k].unit
    BY <2>3, <2>4 DEF PurchaseInv
  <2>7. authority' \in Reviews
    BY <2>1 DEF PurchaseInv
  <2> QED BY <2>3, <2>5, <2>6, <2>7 DEF PurchaseInv
<1>5. ASSUME NEW u \in P!Units, P!ensure_purchase_unit_deletion_authority(u)
      PROVE PurchaseInv'
  BY <1>5 DEF P!ensure_purchase_unit_deletion_authority, PurchaseInv
<1> QED BY <1>1, <1>2, <1>3, <1>4, <1>5 DEF P!Next

\* A purchase enters the wardrobe once, for every number of analyses, reviews, units and
\* deletions (project_purchase_units, promote_receipt_purchase_unit_impl).
THEOREM PurchasesAreMadeOnce == SpecProviders => []PurchasedOnce
<1>1. PurchaseInv /\ [NextProviders]_allVars => PurchaseInv'
  <2> SUFFICES ASSUME PurchaseInv, [NextProviders]_allVars PROVE PurchaseInv'
    OBVIOUS
  <2>1. CASE UNCHANGED purchaseVars
    BY <2>1 DEF purchaseVars, PurchaseInv
  <2>2. CASE P!Next
    BY <2>2, PurchaseNext
  <2> QED BY <2>1, <2>2, PurchaseStep DEF allVars, wardrobeVars
<1> QED BY PurchaseInit, PurchaseSafe, <1>1, PTL DEF SpecProviders
-----------------------------------------------------------------------------
(* Recommendations                                                         *)

Permits == [revision : Nat, fresh : BOOLEAN, consumed : SUBSET Suggestions]
SuggestionRows ==
    [state : {"none", "reserved"} \cup O!Terminal, approval : SUBSET Approvals,
     revision : Nat, started : BOOLEAN]
SuggestionCalls ==
    [at : {"idle", "reserved", "keyed", "authorized", "answered"}, outcome : O!Outcomes \cup {"none"}]

SuggestionTypeOK ==
    /\ permissions \in [Approvals -> Permits]
    /\ suggestions \in [Suggestions -> SuggestionRows]
    /\ suggestion_calls \in [Suggestions -> SuggestionCalls]
    /\ catalog_revision \in Nat
    /\ answers \subseteq Suggestions /\ suggestions_sent \subseteq Suggestions

\* The records that the actions make are records of these kinds.
LEMMA PermitRecords ==
    /\ O!NoApproval \in Permits
    /\ \A n \in Nat : [revision |-> n, fresh |-> TRUE, consumed |-> {}] \in Permits
    /\ \A p \in Permits : [p EXCEPT !.fresh = FALSE] \in Permits
    /\ \A p \in Permits, q \in Suggestions : [p EXCEPT !.consumed = {q}] \in Permits
  BY DEF Permits, O!NoApproval

LEMMA SuggestionRecords ==
    /\ O!NoAttempt \in SuggestionRows
    /\ \A a \in Approvals, n \in Nat :
         [state |-> "reserved", approval |-> {a}, revision |-> n, started |-> FALSE]
           \in SuggestionRows
    /\ \A x \in SuggestionRows : [x EXCEPT !.started = TRUE] \in SuggestionRows
    /\ \A x \in SuggestionRows, t \in O!Terminal : [x EXCEPT !.state = t] \in SuggestionRows
  BY DEF SuggestionRows, O!NoAttempt

LEMMA SuggestionCallRecords ==
    /\ O!Idle \in SuggestionCalls
    /\ \A x \in SuggestionCalls, p \in {"reserved", "keyed", "authorized"} :
         [x EXCEPT !.at = p] \in SuggestionCalls
    /\ \A o \in O!Outcomes : [at |-> "answered", outcome |-> o] \in SuggestionCalls
  BY DEF SuggestionCalls, O!Idle

\* An approval knows the request that consumed it, a call that may send has its start on
\* record, and so has one that has sent.
SuggestionInv ==
    /\ SuggestionTypeOK
    /\ \A q \in Suggestions, a \in Approvals :
         suggestions[q].approval = {a} => permissions[a].consumed = {q}
    /\ \A q \in Suggestions :
         /\ suggestions[q].state # "none" => \E a \in Approvals : suggestions[q].approval = {a}
         /\ suggestions[q].started => suggestions[q].state # "none"
         /\ suggestion_calls[q].at = "authorized" => suggestions[q].started
         /\ suggestion_calls[q].at = "answered" => suggestion_calls[q].outcome \in O!Outcomes
    /\ \A q \in suggestions_sent : suggestions[q].started
    /\ O!ShownIsCurrent

LEMMA SuggestionStep == NextProviders => O!Next \/ UNCHANGED suggestionVars
  BY DEF NextProviders, providerVars, suggestionVars

LEMMA SuggestionInit == InitProviders => SuggestionInv
<1> SUFFICES ASSUME O!Init PROVE SuggestionInv
  BY DEF InitProviders
<1>1. SuggestionTypeOK
  BY PermitRecords, SuggestionRecords, SuggestionCallRecords DEF O!Init, SuggestionTypeOK
<1> QED BY <1>1 DEF O!Init, O!NoAttempt, O!Idle, O!ShownIsCurrent, SuggestionInv

LEMMA SuggestionSafe == SuggestionInv => O!SentOnceOnRecord /\ O!ShownIsCurrent
<1> SUFFICES ASSUME SuggestionInv, NEW p \in suggestions_sent, NEW q \in suggestions_sent,
                    suggestions[p].approval = suggestions[q].approval
             PROVE  p = q
  BY DEF SuggestionInv, O!SentOnceOnRecord
<1>1. PICK a \in Approvals : suggestions[p].approval = {a}
  BY DEF SuggestionInv, SuggestionTypeOK
<1>2. permissions[a].consumed = {p} /\ permissions[a].consumed = {q}
  BY <1>1 DEF SuggestionInv, SuggestionTypeOK
<1> QED BY <1>2

LEMMA SuggestionNext == SuggestionInv /\ O!Next => SuggestionInv'
<1> SUFFICES ASSUME SuggestionInv, O!Next PROVE SuggestionInv'
  OBVIOUS
<1> USE DEF SuggestionInv, SuggestionTypeOK, O!ShownIsCurrent, O!tables, O!Goto
<1>1. ASSUME NEW a \in Approvals, O!preview_outfit_recommendation(a) PROVE SuggestionInv'
  <2>1. SuggestionTypeOK'
    BY <1>1, PermitRecords, SuggestionRecords, SuggestionCallRecords
    DEF O!preview_outfit_recommendation
  <2>2. (\A p \in Suggestions, b \in Approvals :
          suggestions[p].approval = {b} => permissions[b].consumed = {p})'
    BY <1>1 DEF O!preview_outfit_recommendation, O!NoApproval, Permits, SuggestionRows
  <2>3. (\A p \in Suggestions :
           /\ suggestion_calls[p].at = "authorized" => suggestions[p].started
           /\ suggestion_calls[p].at = "answered" => suggestion_calls[p].outcome \in O!Outcomes)'
    BY <1>1 DEF O!preview_outfit_recommendation, O!NoApproval, SuggestionRows, SuggestionCalls
  <2>4. (\A p \in suggestions_sent : suggestions[p].started)' /\ O!ShownIsCurrent'
    BY <1>1 DEF O!preview_outfit_recommendation, O!NoApproval, SuggestionRows
  <2>5. (\A p \in Suggestions :
           /\ suggestions[p].state # "none" => \E b \in Approvals : suggestions[p].approval = {b}
           /\ suggestions[p].started => suggestions[p].state # "none")'
    BY <1>1 DEF O!preview_outfit_recommendation, O!NoApproval, SuggestionRows
  <2> QED BY <2>1, <2>2, <2>3, <2>4, <2>5
<1>2. ASSUME NEW a \in Approvals, O!Expire(a) PROVE SuggestionInv'
  <2>1. SuggestionTypeOK'
    BY <1>2, PermitRecords, SuggestionRecords, SuggestionCallRecords
    DEF O!Expire
  <2>2. (\A p \in Suggestions, b \in Approvals :
          suggestions[p].approval = {b} => permissions[b].consumed = {p})'
    BY <1>2 DEF O!Expire, Permits, SuggestionRows
  <2>3. (\A p \in Suggestions :
           /\ suggestion_calls[p].at = "authorized" => suggestions[p].started
           /\ suggestion_calls[p].at = "answered" => suggestion_calls[p].outcome \in O!Outcomes)'
    BY <1>2 DEF O!Expire, SuggestionRows, SuggestionCalls
  <2>4. (\A p \in suggestions_sent : suggestions[p].started)' /\ O!ShownIsCurrent'
    BY <1>2 DEF O!Expire, SuggestionRows
  <2>5. (\A p \in Suggestions :
           /\ suggestions[p].state # "none" => \E b \in Approvals : suggestions[p].approval = {b}
           /\ suggestions[p].started => suggestions[p].state # "none")'
    BY <1>2 DEF O!Expire, SuggestionRows
  <2> QED BY <2>1, <2>2, <2>3, <2>4, <2>5
<1>3. ASSUME NEW a \in Approvals, NEW q \in Suggestions, O!reserve_outfit_recommendation(q, a)
      PROVE SuggestionInv'
  <2>1. SuggestionTypeOK'
    BY <1>3, PermitRecords, SuggestionRecords, SuggestionCallRecords
    DEF O!reserve_outfit_recommendation
  <2>2. ASSUME NEW p \in Suggestions, NEW b \in Approvals, suggestions'[p].approval = {b}
        PROVE  permissions'[b].consumed = {p}
    <3>1. CASE p = q
      <4>1. b = a
        BY <1>3, <2>2, <3>1 DEF O!reserve_outfit_recommendation
      <4> QED BY <1>3, <3>1, <4>1 DEF O!reserve_outfit_recommendation, Permits
    <3>2. CASE p # q
      <4>1. permissions[b].consumed = {p}
        BY <1>3, <2>2, <3>2 DEF O!reserve_outfit_recommendation
      <4>2. b # a
        BY <1>3, <4>1 DEF O!reserve_outfit_recommendation, O!usable
      <4> QED BY <1>3, <4>1, <4>2 DEF O!reserve_outfit_recommendation
    <3> QED BY <3>1, <3>2
  <2>3. (\A p \in Suggestions :
           /\ suggestion_calls[p].at = "authorized" => suggestions[p].started
           /\ suggestion_calls[p].at = "answered" => suggestion_calls[p].outcome \in O!Outcomes)'
    BY <1>3 DEF O!reserve_outfit_recommendation, O!usable, O!NoAttempt, O!Idle, SuggestionRows, SuggestionCalls
  <2>4. (\A p \in suggestions_sent : suggestions[p].started)' /\ O!ShownIsCurrent'
    BY <1>3 DEF O!reserve_outfit_recommendation, O!usable, O!NoAttempt, O!Idle, SuggestionRows
  <2>5. (\A p \in Suggestions :
           /\ suggestions[p].state # "none" => \E b \in Approvals : suggestions[p].approval = {b}
           /\ suggestions[p].started => suggestions[p].state # "none")'
    BY <1>3 DEF O!reserve_outfit_recommendation, O!usable, O!NoAttempt, O!Idle, SuggestionRows
  <2> QED BY <2>1, <2>2, <2>3, <2>4, <2>5
<1>4. CASE O!Edit
  BY <1>4 DEF O!Edit
<1>5. CASE O!DeleteCredential
  BY <1>5 DEF O!DeleteCredential
<1>6. CASE O!Restart
  <2>1. SuggestionTypeOK'
    BY <1>6, PermitRecords, SuggestionRecords, SuggestionCallRecords
    DEF O!Restart, O!Terminal, O!Outcomes
  <2>2. (\A p \in Suggestions, b \in Approvals :
          suggestions[p].approval = {b} => permissions[b].consumed = {p})'
    BY <1>6 DEF O!Restart, O!Idle, Permits, SuggestionRows
  <2>3. (\A p \in Suggestions :
           /\ suggestion_calls[p].at = "authorized" => suggestions[p].started
           /\ suggestion_calls[p].at = "answered" => suggestion_calls[p].outcome \in O!Outcomes)'
    BY <1>6 DEF O!Restart, O!Idle, SuggestionRows, SuggestionCalls
  <2>4. (\A p \in suggestions_sent : suggestions[p].started)' /\ O!ShownIsCurrent'
    BY <1>6 DEF O!Restart, O!Idle, SuggestionRows
  <2>5. (\A p \in Suggestions :
           /\ suggestions[p].state # "none" => \E b \in Approvals : suggestions[p].approval = {b}
           /\ suggestions[p].started => suggestions[p].state # "none")'
    BY <1>6 DEF O!Restart, O!Idle, SuggestionRows, O!Terminal
  <2> QED BY <2>1, <2>2, <2>3, <2>4, <2>5
<1>7. ASSUME NEW q \in Suggestions, O!replay_attempt(q) PROVE SuggestionInv'
  BY <1>7 DEF O!replay_attempt
<1>8. ASSUME NEW q \in Suggestions, O!get_credential(q) PROVE SuggestionInv'
  <2>1. SuggestionTypeOK'
    BY <1>8, PermitRecords, SuggestionRecords, SuggestionCallRecords
    DEF O!get_credential
  <2>2. (\A p \in Suggestions, b \in Approvals :
          suggestions[p].approval = {b} => permissions[b].consumed = {p})'
    BY <1>8 DEF O!get_credential, Permits, SuggestionRows
  <2>3. (\A p \in Suggestions :
           /\ suggestion_calls[p].at = "authorized" => suggestions[p].started
           /\ suggestion_calls[p].at = "answered" => suggestion_calls[p].outcome \in O!Outcomes)'
    BY <1>8 DEF O!get_credential, SuggestionRows, SuggestionCalls
  <2>4. (\A p \in suggestions_sent : suggestions[p].started)' /\ O!ShownIsCurrent'
    BY <1>8 DEF O!get_credential, SuggestionRows
  <2>5. (\A p \in Suggestions :
           /\ suggestions[p].state # "none" => \E b \in Approvals : suggestions[p].approval = {b}
           /\ suggestions[p].started => suggestions[p].state # "none")'
    BY <1>8 DEF O!get_credential, SuggestionRows
  <2> QED BY <2>1, <2>2, <2>3, <2>4, <2>5
<1>9. ASSUME NEW q \in Suggestions, O!authorize_outfit_recommendation_transport_start(q)
      PROVE SuggestionInv'
  <2>1. SuggestionTypeOK'
    BY <1>9, PermitRecords, SuggestionRecords, SuggestionCallRecords
    DEF O!authorize_outfit_recommendation_transport_start
  <2>2. (\A p \in Suggestions, b \in Approvals :
          suggestions[p].approval = {b} => permissions[b].consumed = {p})'
    BY <1>9 DEF O!authorize_outfit_recommendation_transport_start, Permits, SuggestionRows
  <2>3. (\A p \in Suggestions :
           /\ suggestion_calls[p].at = "authorized" => suggestions[p].started
           /\ suggestion_calls[p].at = "answered" => suggestion_calls[p].outcome \in O!Outcomes)'
    BY <1>9 DEF O!authorize_outfit_recommendation_transport_start, SuggestionRows, SuggestionCalls
  <2>4. (\A p \in suggestions_sent : suggestions[p].started)' /\ O!ShownIsCurrent'
    BY <1>9 DEF O!authorize_outfit_recommendation_transport_start, SuggestionRows
  <2>5. (\A p \in Suggestions :
           /\ suggestions[p].state # "none" => \E b \in Approvals : suggestions[p].approval = {b}
           /\ suggestions[p].started => suggestions[p].state # "none")'
    BY <1>9 DEF O!authorize_outfit_recommendation_transport_start, SuggestionRows
  <2> QED BY <2>1, <2>2, <2>3, <2>4, <2>5
<1>10. ASSUME NEW q \in Suggestions, O!credential_unavailable(q) PROVE SuggestionInv'
  <2>1. SuggestionTypeOK'
    BY <1>10, PermitRecords, SuggestionRecords, SuggestionCallRecords
    DEF O!credential_unavailable, O!Outcomes
  <2>2. (\A p \in Suggestions, b \in Approvals :
          suggestions[p].approval = {b} => permissions[b].consumed = {p})'
    BY <1>10 DEF O!credential_unavailable, Permits, SuggestionRows
  <2>3. (\A p \in Suggestions :
           /\ suggestion_calls[p].at = "authorized" => suggestions[p].started
           /\ suggestion_calls[p].at = "answered" => suggestion_calls[p].outcome \in O!Outcomes)'
    BY <1>10 DEF O!credential_unavailable, O!Outcomes, SuggestionRows, SuggestionCalls
  <2>4. (\A p \in suggestions_sent : suggestions[p].started)' /\ O!ShownIsCurrent'
    BY <1>10 DEF O!credential_unavailable, SuggestionRows
  <2>5. (\A p \in Suggestions :
           /\ suggestions[p].state # "none" => \E b \in Approvals : suggestions[p].approval = {b}
           /\ suggestions[p].started => suggestions[p].state # "none")'
    BY <1>10 DEF O!credential_unavailable, SuggestionRows
  <2> QED BY <2>1, <2>2, <2>3, <2>4, <2>5
<1>11. ASSUME NEW q \in Suggestions, O!recommend(q) PROVE SuggestionInv'
  <2>1. SuggestionTypeOK'
    BY <1>11, PermitRecords, SuggestionRecords, SuggestionCallRecords
    DEF O!recommend
  <2>2. (\A p \in Suggestions, b \in Approvals :
          suggestions[p].approval = {b} => permissions[b].consumed = {p})'
    BY <1>11 DEF O!recommend, Permits, SuggestionRows
  <2>3. (\A p \in Suggestions :
           /\ suggestion_calls[p].at = "authorized" => suggestions[p].started
           /\ suggestion_calls[p].at = "answered" => suggestion_calls[p].outcome \in O!Outcomes)'
    BY <1>11 DEF O!recommend, SuggestionRows, SuggestionCalls
  <2>4. (\A p \in suggestions_sent : suggestions[p].started)' /\ O!ShownIsCurrent'
    BY <1>11 DEF O!recommend, SuggestionRows
  <2>5. (\A p \in Suggestions :
           /\ suggestions[p].state # "none" => \E b \in Approvals : suggestions[p].approval = {b}
           /\ suggestions[p].started => suggestions[p].state # "none")'
    BY <1>11 DEF O!recommend, SuggestionRows
  <2> QED BY <2>1, <2>2, <2>3, <2>4, <2>5
<1>12. ASSUME NEW q \in Suggestions, O!recommend_fails(q) PROVE SuggestionInv'
  <2>1. SuggestionTypeOK'
    BY <1>12, PermitRecords, SuggestionRecords, SuggestionCallRecords
    DEF O!recommend_fails
  <2>2. (\A p \in Suggestions, b \in Approvals :
          suggestions[p].approval = {b} => permissions[b].consumed = {p})'
    BY <1>12 DEF O!recommend_fails, O!Idle, Permits, SuggestionRows
  <2>3. (\A p \in Suggestions :
           /\ suggestion_calls[p].at = "authorized" => suggestions[p].started
           /\ suggestion_calls[p].at = "answered" => suggestion_calls[p].outcome \in O!Outcomes)'
    BY <1>12 DEF O!recommend_fails, O!Idle, SuggestionRows, SuggestionCalls
  <2>4. (\A p \in suggestions_sent : suggestions[p].started)' /\ O!ShownIsCurrent'
    BY <1>12 DEF O!recommend_fails, O!Idle, SuggestionRows
  <2>5. (\A p \in Suggestions :
           /\ suggestions[p].state # "none" => \E b \in Approvals : suggestions[p].approval = {b}
           /\ suggestions[p].started => suggestions[p].state # "none")'
    BY <1>12 DEF O!recommend_fails, O!Idle, SuggestionRows
  <2> QED BY <2>1, <2>2, <2>3, <2>4, <2>5
<1>13. ASSUME NEW q \in Suggestions, O!finalize_outfit_recommendation(q) PROVE SuggestionInv'
  <2>0. O!finalized_state(q) \in O!Terminal
    BY <1>13 DEF O!finalize_outfit_recommendation, O!finalized_state, O!Terminal
  <2>1. SuggestionTypeOK'
    BY <1>13, <2>0, PermitRecords, SuggestionRecords, SuggestionCallRecords
    DEF O!finalize_outfit_recommendation
  <2>2. (\A p \in Suggestions, b \in Approvals :
          suggestions[p].approval = {b} => permissions[b].consumed = {p})'
    BY <1>13 DEF O!finalize_outfit_recommendation, O!finalized_state, O!Idle, Permits, SuggestionRows
  <2>3. (\A p \in Suggestions :
           /\ suggestion_calls[p].at = "authorized" => suggestions[p].started
           /\ suggestion_calls[p].at = "answered" => suggestion_calls[p].outcome \in O!Outcomes)'
    BY <1>13 DEF O!finalize_outfit_recommendation, O!finalized_state, O!Idle, SuggestionRows, SuggestionCalls
  <2>4. (\A p \in suggestions_sent : suggestions[p].started)' /\ O!ShownIsCurrent'
    BY <1>13 DEF O!finalize_outfit_recommendation, O!finalized_state, O!Idle, SuggestionRows
  <2>5. (\A p \in Suggestions :
           /\ suggestions[p].state # "none" => \E b \in Approvals : suggestions[p].approval = {b}
           /\ suggestions[p].started => suggestions[p].state # "none")'
    BY <1>13, <2>0 DEF O!finalize_outfit_recommendation, O!Terminal, O!Outcomes, SuggestionRows
  <2> QED BY <2>1, <2>2, <2>3, <2>4, <2>5
<1> QED
  BY <1>1, <1>2, <1>3, <1>4, <1>5, <1>6, <1>7, <1>8, <1>9, <1>10, <1>11, <1>12, <1>13
  DEF O!Next
-----------------------------------------------------------------------------
(* Receipt intelligence                                                    *)

ReceiptStates == {"none", "not_sent", "dispatched"} \cup R!Terminal
ReceiptFailures == {"none", "approval_expired", "credential_unavailable", "after_dispatch"}
ReceiptRows == [state : ReceiptStates, failure : ReceiptFailures, dispatched : BOOLEAN]
ReceiptPlaces == {"admitted", "reserved", "located", "keyed", "dispatched", "answered"}
ReceiptCalls ==
    [at : ReceiptPlaces, request : ReceiptRequests, outcome : R!Outcomes \cup {"none"},
     fresh : BOOLEAN]

ReceiptConsents == [source : Nat, fresh : BOOLEAN]

ReceiptTypeOK ==
    /\ consents \in [ReceiptRequests -> ReceiptConsents] /\ source \in Nat
    /\ receipt_attempts \in [ReceiptRequests -> ReceiptRows]
    /\ receipt_calls \in [Calls -> ReceiptCalls \cup {R!Resting}]
    /\ receipts_sent \in [ReceiptRequests -> {0, 1}]

\* The call c is under way for the request r, and it is the one that sends.
Serves(c, r) == receipt_calls[c] # R!Resting /\ receipt_calls[c].request = r
Sends(c, r) == Serves(c, r) /\ receipt_calls[c].at = "dispatched"
Answers(c, r) == Serves(c, r) /\ receipt_calls[c].at = "answered"

\* Nothing is sent before the dispatch is on record, the dispatch is given to one call, and
\* a dispatched attempt has that call; a request without overlapping calls has one call.
ReceiptInv ==
    /\ ReceiptTypeOK
    /\ \A r \in ReceiptRequests :
         /\ receipt_attempts[r].state \in {"none", "not_sent"} => ~receipt_attempts[r].dispatched
         /\ ~receipt_attempts[r].dispatched => receipts_sent[r] = 0
         /\ receipt_attempts[r].failure # "none" => receipt_attempts[r].state = "failed"
    /\ \A r \in ReceiptRequests, c \in Calls :
         Sends(c, r) => receipt_attempts[r].dispatched /\ receipts_sent[r] = 0
    /\ \A r \in ReceiptRequests, c, d \in Calls : Sends(c, r) /\ Sends(d, r) => c = d
    /\ \A r \in ReceiptRequests : receipt_attempts[r].state = "dispatched" =>
         \E c \in Calls : Sends(c, r) \/ Answers(c, r)
    /\ \A r \in ReceiptRequests \ overlapped, c, d \in Calls :
         Serves(c, r) /\ Serves(d, r) => c = d
    /\ \A r \in ReceiptRequests \ overlapped, c \in Calls :
         Sends(c, r) => receipt_attempts[r].state = "dispatched"
    /\ R!FailureIsHonest

LEMMA ReceiptStep == NextProviders => R!Next \/ UNCHANGED receiptVars
  BY DEF NextProviders, providerVars, receiptVars

\* The records that the actions make are records of these kinds.
LEMMA ReceiptRecords ==
    /\ R!NoAttempt \in ReceiptRows
    /\ \A x \in ReceiptRows, t \in ReceiptStates :
         /\ [x EXCEPT !.state = t] \in ReceiptRows
         /\ [x EXCEPT !.state = t].state = t
         /\ [x EXCEPT !.state = t].failure = x.failure
         /\ [x EXCEPT !.state = t].dispatched = x.dispatched
    /\ \A x \in ReceiptCalls, p \in ReceiptPlaces : [x EXCEPT !.at = p] \in ReceiptCalls
    /\ \A r \in ReceiptRequests, b \in BOOLEAN :
         [at |-> "admitted", request |-> r, outcome |-> "none", fresh |-> b] \in ReceiptCalls
    /\ R!NoConsent \in ReceiptConsents
    /\ \A n \in Nat : [source |-> n, fresh |-> TRUE] \in ReceiptConsents
    /\ \A x \in ReceiptConsents : [x EXCEPT !.fresh = FALSE] \in ReceiptConsents /\ x.fresh \in BOOLEAN
    /\ R!Resting.at = "idle" /\ "idle" \notin ReceiptPlaces
  BY DEF ReceiptRows, ReceiptCalls, ReceiptStates, ReceiptFailures, ReceiptPlaces, R!Terminal,
         R!NoAttempt, R!Resting, R!NoConsent, ReceiptConsents

LEMMA ReceiptInit == InitProviders => ReceiptInv
<1> SUFFICES ASSUME R!Init PROVE ReceiptInv
  BY DEF InitProviders
<1>1. ReceiptTypeOK
  BY ReceiptRecords DEF R!Init, ReceiptTypeOK
<1>2. \A c \in Calls, r \in ReceiptRequests : ~Serves(c, r)
  BY DEF R!Init, Serves
<1> QED BY <1>1, <1>2 DEF R!Init, R!NoAttempt, R!FailureIsHonest, Sends, Answers, ReceiptInv

\* A call goes on to another place, or returns; an attempt changes its state, or fails.
LEMMA CallMoves ==
    ASSUME ReceiptTypeOK, NEW c \in Calls, NEW p \in ReceiptPlaces, receipt_calls[c] # R!Resting,
           receipt_calls' = [receipt_calls EXCEPT ![c].at = p]
    PROVE  /\ receipt_calls' \in [Calls -> ReceiptCalls \cup {R!Resting}]
           /\ \A d \in Calls, r \in ReceiptRequests :
                /\ Serves(d, r)' <=> Serves(d, r)
                /\ Sends(d, r)' <=> IF d = c THEN Serves(c, r) /\ p = "dispatched" ELSE Sends(d, r)
                /\ Answers(d, r)' <=> IF d = c THEN Serves(c, r) /\ p = "answered" ELSE Answers(d, r)
<1>1. receipt_calls[c] \in ReceiptCalls
  BY DEF ReceiptTypeOK
<1> DEFINE x == [receipt_calls[c] EXCEPT !.at = p]
<1>2. /\ x \in ReceiptCalls /\ x # R!Resting
      /\ x.at = p /\ x.request = receipt_calls[c].request
  <2>1. x \in ReceiptCalls
    BY <1>1, ReceiptRecords
  <2>2. x.at = p /\ x.request = receipt_calls[c].request
    BY <1>1 DEF ReceiptCalls
  <2>3. x # R!Resting
    BY <2>2, ReceiptRecords
  <2> QED BY <2>1, <2>2, <2>3
<1>3. receipt_calls' = [receipt_calls EXCEPT ![c] = x]
  BY DEF ReceiptTypeOK
<1> HIDE DEF x
<1>4. receipt_calls'[c] = x /\ \A d \in Calls : d # c => receipt_calls'[d] = receipt_calls[d]
  BY <1>3 DEF ReceiptTypeOK
<1>5. receipt_calls' \in [Calls -> ReceiptCalls \cup {R!Resting}]
  BY <1>2, <1>3 DEF ReceiptTypeOK
<1> QED BY <1>2, <1>4, <1>5 DEF Serves, Sends, Answers

LEMMA CallReturns ==
    ASSUME ReceiptTypeOK, NEW c \in Calls,
           receipt_calls' = [receipt_calls EXCEPT ![c] = R!Resting]
    PROVE  /\ receipt_calls' \in [Calls -> ReceiptCalls \cup {R!Resting}]
           /\ \A d \in Calls, r \in ReceiptRequests :
                /\ Serves(d, r)' <=> d # c /\ Serves(d, r)
                /\ Sends(d, r)' <=> d # c /\ Sends(d, r)
                /\ Answers(d, r)' <=> d # c /\ Answers(d, r)
<1>1. receipt_calls'[c] = R!Resting /\ \A d \in Calls : d # c => receipt_calls'[d] = receipt_calls[d]
  BY DEF ReceiptTypeOK
<1>2. receipt_calls' \in [Calls -> ReceiptCalls \cup {R!Resting}]
  BY DEF ReceiptTypeOK
<1> QED BY <1>1, <1>2 DEF Serves, Sends, Answers

LEMMA AttemptMoves ==
    ASSUME ReceiptTypeOK, NEW r \in ReceiptRequests, NEW t \in ReceiptStates,
           receipt_attempts' = [receipt_attempts EXCEPT ![r].state = t]
    PROVE  /\ receipt_attempts' \in [ReceiptRequests -> ReceiptRows]
           /\ \A q \in ReceiptRequests :
                /\ receipt_attempts'[q].state = IF q = r THEN t ELSE receipt_attempts[q].state
                /\ receipt_attempts'[q].failure = receipt_attempts[q].failure
                /\ receipt_attempts'[q].dispatched = receipt_attempts[q].dispatched
<1> DEFINE x == [receipt_attempts[r] EXCEPT !.state = t]
<1>1. receipt_attempts' = [receipt_attempts EXCEPT ![r] = x]
  BY DEF ReceiptTypeOK
<1>2. /\ x \in ReceiptRows /\ x.state = t /\ x.failure = receipt_attempts[r].failure
      /\ x.dispatched = receipt_attempts[r].dispatched
  BY ReceiptRecords DEF ReceiptTypeOK
<1> HIDE DEF x
<1> QED BY <1>1, <1>2 DEF ReceiptTypeOK

LEMMA AttemptFails ==
    ASSUME ReceiptTypeOK, NEW r \in ReceiptRequests, NEW code \in ReceiptFailures,
           R!fail_receipt_intelligence(r, code)
    PROVE  /\ receipt_attempts' \in [ReceiptRequests -> ReceiptRows]
           /\ \A q \in ReceiptRequests :
                /\ receipt_attempts'[q].dispatched = receipt_attempts[q].dispatched
                /\ IF q = r /\ receipt_attempts[r].state \in {"not_sent", "dispatched"}
                   THEN receipt_attempts'[q].state = "failed" /\ receipt_attempts'[q].failure = code
                   ELSE receipt_attempts'[q] = receipt_attempts[q]
<1>1. CASE receipt_attempts[r].state \notin {"not_sent", "dispatched"}
  BY <1>1 DEF ReceiptTypeOK, R!fail_receipt_intelligence
<1>2. CASE receipt_attempts[r].state \in {"not_sent", "dispatched"}
  <2> DEFINE y == receipt_attempts[r]
             x == [y EXCEPT !.state = "failed", !.failure = code]
  <2>1. receipt_attempts' = [receipt_attempts EXCEPT ![r] = x]
    BY <1>2 DEF ReceiptTypeOK, R!fail_receipt_intelligence
  <2>2. y \in ReceiptRows
    BY DEF ReceiptTypeOK
  <2> HIDE DEF y
  <2>3. x \in ReceiptRows /\ x.state = "failed" /\ x.failure = code /\ x.dispatched = y.dispatched
    BY <2>2 DEF ReceiptRows, ReceiptStates, R!Terminal
  <2> HIDE DEF x
  <2>4. \A q \in ReceiptRequests :
          receipt_attempts'[q] = IF q = r THEN x ELSE receipt_attempts[q]
    BY <2>1 DEF ReceiptTypeOK
  <2> QED BY <1>2, <2>1, <2>3, <2>4 DEF ReceiptTypeOK, y
<1> QED BY <1>1, <1>2

LEMMA ReceiptNext == ReceiptInv /\ R!Next => ReceiptInv'
<1> SUFFICES ASSUME ReceiptInv, R!Next PROVE ReceiptInv'
  OBVIOUS
<1> DEFINE same == UNCHANGED <<receipts_sent, overlapped>>
           asked == \A d \in Calls : receipt_calls[d] # R!Resting => R!Request(d) \in ReceiptRequests
<1>1. \A c \in Calls, r \in ReceiptRequests :
        /\ Sends(c, r) \/ Answers(c, r) => Serves(c, r)
        /\ ~(Sends(c, r) /\ Answers(c, r))
        /\ Serves(c, r) => r = R!Request(c)
  BY DEF Serves, Sends, Answers, R!Request
<1>2. ReceiptTypeOK /\ asked
  <2>1. \A x \in ReceiptCalls : x.request \in ReceiptRequests
    BY DEF ReceiptCalls
  <2> QED BY <2>1 DEF ReceiptInv, ReceiptTypeOK, R!Request
<1>3. /\ \A r \in ReceiptRequests : r \notin overlapped /\
            receipt_attempts[r].failure \in {"approval_expired", "credential_unavailable"}
            => receipts_sent[r] = 0
      /\ \A r \in ReceiptRequests : receipt_attempts[r].state \in {"none", "not_sent"}
            => receipts_sent[r] = 0
  BY DEF ReceiptInv, R!FailureIsHonest
\* Steps that only a window, the main thread or a start takes.
<1>4. ASSUME (consents \in [ReceiptRequests -> ReceiptConsents])', (source \in Nat)',
             UNCHANGED <<receipt_attempts, receipt_calls, receipts_sent, overlapped>>
      PROVE  ReceiptInv'
  BY <1>4 DEF ReceiptInv, ReceiptTypeOK, R!FailureIsHonest, Serves, Sends, Answers
<1>5. ASSUME NEW r \in ReceiptRequests, R!preview(r) \/ R!Expire(r) PROVE ReceiptInv'
  BY <1>2, <1>4, <1>5, ReceiptRecords DEF R!preview, R!Expire, ReceiptTypeOK
<1>6. CASE R!ChangeSource \/ R!DeleteCredential
  BY <1>2, <1>4, <1>6 DEF R!ChangeSource, R!DeleteCredential, ReceiptTypeOK
<1>7. CASE R!Restart
  <2>1. \A c \in Calls, r \in ReceiptRequests : ~Serves(c, r)' /\ ~Sends(c, r)' /\ ~Answers(c, r)'
    BY <1>7 DEF R!Restart, Serves, Sends, Answers
  <2>2. receipt_calls' \in [Calls -> ReceiptCalls \cup {R!Resting}]
    BY <1>7 DEF R!Restart
  <2>3. \A r \in ReceiptRequests :
          receipt_attempts'[r] = [receipt_attempts[r] EXCEPT !.state = R!recovered_state(r)]
    BY <1>7 DEF R!Restart
  <2>4. \A r \in ReceiptRequests : R!recovered_state(r) \in ReceiptStates
    <3>1. \A x \in ReceiptRows : x.state \in ReceiptStates
      BY DEF ReceiptRows
    <3> QED BY <1>2, <3>1 DEF ReceiptTypeOK, R!recovered_state, ReceiptStates, R!Terminal
  <2>5. \A r \in ReceiptRequests :
          /\ receipt_attempts'[r] \in ReceiptRows
          /\ receipt_attempts'[r].state = R!recovered_state(r)
          /\ receipt_attempts'[r].failure = receipt_attempts[r].failure
          /\ receipt_attempts'[r].dispatched = receipt_attempts[r].dispatched
    <3> TAKE r \in ReceiptRequests
    <3> DEFINE t == R!recovered_state(r)  x == receipt_attempts[r]
    <3>1. t \in ReceiptStates /\ x \in ReceiptRows /\ receipt_attempts'[r] = [x EXCEPT !.state = t]
      BY <1>2, <2>3, <2>4 DEF ReceiptTypeOK
    <3> HIDE DEF t, x
    <3>2. /\ receipt_attempts'[r] \in ReceiptRows /\ receipt_attempts'[r].state = t
          /\ receipt_attempts'[r].failure = x.failure
          /\ receipt_attempts'[r].dispatched = x.dispatched
      BY <3>1, ReceiptRecords
    <3> QED BY <3>2 DEF t, x
  <2>6. receipt_attempts' \in [ReceiptRequests -> ReceiptRows]
    BY <1>7, <2>5 DEF R!Restart
  <2>7. same /\ UNCHANGED <<consents, source>>
    BY <1>7 DEF R!Restart
  <2> QED BY <1>3, <2>1, <2>2, <2>5, <2>6, <2>7
          DEF ReceiptInv, ReceiptTypeOK, R!FailureIsHonest, R!recovered_state
<1>8. ASSUME NEW r \in ReceiptRequests, NEW c \in Calls, R!terminal_replay(c, r) PROVE ReceiptInv'
  <2> DEFINE x == [at |-> "admitted", request |-> r, outcome |-> "none", fresh |-> consents[r].fresh]
  <2>1. /\ receipt_calls' = [receipt_calls EXCEPT ![c] = x]
        /\ receipt_calls[c] = R!Resting
        /\ UNCHANGED <<receipt_attempts, receipts_sent>>
    BY <1>8 DEF R!terminal_replay, R!tables
  <2>2. \A d \in Calls : (receipt_calls[d] # R!Resting /\ receipt_calls[d].request = r) <=> Serves(d, r)
    BY DEF Serves
  <2>3. /\ overlapped \subseteq overlapped'
        /\ \A q \in overlapped' : q \in overlapped \/ q = r
        /\ \A d \in Calls : Serves(d, r) => r \in overlapped'
    BY <1>8, <2>2 DEF R!terminal_replay
  <2>4. x \in ReceiptCalls
    <3>1. consents[r].fresh \in BOOLEAN
      BY <1>2, ReceiptRecords DEF ReceiptTypeOK
    <3> QED BY <3>1, ReceiptRecords
  <2>5. x.at = "admitted" /\ x.request = r /\ x # R!Resting
    BY DEF R!Resting
  <2> HIDE DEF x
  <2>6. receipt_calls' \in [Calls -> ReceiptCalls \cup {R!Resting}]
    BY <1>2, <2>1, <2>4 DEF ReceiptTypeOK
  <2>7. receipt_calls'[c] = x /\ \A d \in Calls : d # c => receipt_calls'[d] = receipt_calls[d]
    BY <1>2, <2>1 DEF ReceiptTypeOK
  <2>8. \A d \in Calls, q \in ReceiptRequests :
          /\ Serves(d, q)' <=> IF d = c THEN q = r ELSE Serves(d, q)
          /\ Sends(d, q)' <=> d # c /\ Sends(d, q)
          /\ Answers(d, q)' <=> d # c /\ Answers(d, q)
          /\ ~Serves(c, q) /\ ~Sends(c, q) /\ ~Answers(c, q)
    BY <2>1, <2>5, <2>7 DEF Serves, Sends, Answers
  <2>9. ReceiptTypeOK'
    BY <1>8, <1>2, <2>1, <2>6 DEF ReceiptTypeOK, R!terminal_replay, R!tables
  <2>10. R!FailureIsHonest'
    BY <1>3, <2>1, <2>3 DEF R!FailureIsHonest
  <2> QED BY <1>1, <2>1, <2>3, <2>8, <2>9, <2>10 DEF ReceiptInv
<1>9. ASSUME NEW c \in Calls, R!reserve_receipt_intelligence(c) PROVE ReceiptInv'
  <2>1. /\ receipt_calls' \in [Calls -> ReceiptCalls \cup {R!Resting}]
        /\ \A d \in Calls, r \in ReceiptRequests :
             /\ Serves(d, r)' <=> Serves(d, r)
             /\ Sends(d, r)' <=> d # c /\ Sends(d, r)
             /\ Answers(d, r)' <=> d # c /\ Answers(d, r)
             /\ ~Sends(c, r) /\ ~Answers(c, r)
    <3>1. /\ receipt_calls' = [receipt_calls EXCEPT ![c].at = "reserved"]
          /\ receipt_calls[c].at = "admitted" /\ receipt_calls[c] # R!Resting
      BY <1>9 DEF R!reserve_receipt_intelligence, R!Goto
    <3>2. "reserved" \in ReceiptPlaces /\ "reserved" \notin {"dispatched", "answered"}
      BY DEF ReceiptPlaces
    <3>3. \A r \in ReceiptRequests : ~Sends(c, r) /\ ~Answers(c, r)
      BY <3>1 DEF Sends, Answers
    <3> QED BY <1>2, <3>1, <3>2, <3>3, CallMoves
  <2>2. /\ receipt_attempts' \in [ReceiptRequests -> ReceiptRows]
        /\ \A r \in ReceiptRequests :
             /\ receipt_attempts'[r].state =
                  IF r = R!Request(c) THEN "not_sent" ELSE receipt_attempts[r].state
             /\ receipt_attempts'[r].failure = receipt_attempts[r].failure
             /\ receipt_attempts'[r].dispatched = receipt_attempts[r].dispatched
        /\ receipt_attempts[R!Request(c)].state = "none"
        /\ receipt_attempts[R!Request(c)].failure = "none"
    <3> DEFINE r0 == R!Request(c)
    <3>1. /\ receipt_attempts' = [receipt_attempts EXCEPT ![r0].state = "not_sent"]
          /\ receipt_attempts[r0] = R!NoAttempt
      BY <1>9 DEF R!reserve_receipt_intelligence, R!Attempt
    <3>2. r0 \in ReceiptRequests
      BY <1>9, <1>2 DEF R!reserve_receipt_intelligence
    <3>3. "not_sent" \in ReceiptStates
      BY DEF ReceiptStates
    <3>4. receipt_attempts[r0].state = "none" /\ receipt_attempts[r0].failure = "none"
      BY <3>1 DEF R!NoAttempt
    <3> HIDE DEF r0
    <3>5. /\ receipt_attempts' \in [ReceiptRequests -> ReceiptRows]
          /\ \A r \in ReceiptRequests :
               /\ receipt_attempts'[r].state = IF r = r0 THEN "not_sent" ELSE receipt_attempts[r].state
               /\ receipt_attempts'[r].failure = receipt_attempts[r].failure
               /\ receipt_attempts'[r].dispatched = receipt_attempts[r].dispatched
      BY <1>2, <3>1, <3>2, <3>3, AttemptMoves
    <3> QED BY <3>4, <3>5 DEF r0
  <2>3. same /\ UNCHANGED <<consents, source>>
    BY <1>9 DEF R!reserve_receipt_intelligence
  <2>4. ReceiptTypeOK'
    BY <1>2, <2>1, <2>2, <2>3 DEF ReceiptTypeOK
  <2> QED BY <1>1, <1>2, <1>3, <2>1, <2>2, <2>3, <2>4 DEF ReceiptInv, R!FailureIsHonest
<1>10. ASSUME NEW c \in Calls, R!replay_reservation(c) PROVE ReceiptInv'
  <2>1. /\ receipt_calls' \in [Calls -> ReceiptCalls \cup {R!Resting}]
        /\ \A d \in Calls, r \in ReceiptRequests :
             /\ Serves(d, r)' <=> Serves(d, r)
             /\ Sends(d, r)' <=> d # c /\ Sends(d, r)
             /\ Answers(d, r)' <=> d # c /\ Answers(d, r)
             /\ ~Sends(c, r) /\ ~Answers(c, r)
    <3>1. /\ receipt_calls' = [receipt_calls EXCEPT ![c].at = "reserved"]
          /\ receipt_calls[c].at = "admitted" /\ receipt_calls[c] # R!Resting
      BY <1>10 DEF R!replay_reservation, R!Goto
    <3>2. "reserved" \in ReceiptPlaces /\ "reserved" \notin {"dispatched", "answered"}
      BY DEF ReceiptPlaces
    <3>3. \A r \in ReceiptRequests : ~Sends(c, r) /\ ~Answers(c, r)
      BY <3>1 DEF Sends, Answers
    <3> QED BY <1>2, <3>1, <3>2, <3>3, CallMoves
  <2>2. UNCHANGED receipt_attempts
    BY <1>10 DEF R!replay_reservation, R!tables
  <2>3. same /\ UNCHANGED <<consents, source>>
    BY <1>10 DEF R!replay_reservation, R!tables
  <2>4. ReceiptTypeOK'
    BY <1>2, <2>1, <2>2, <2>3 DEF ReceiptTypeOK
  <2> QED BY <1>1, <1>2, <1>3, <2>1, <2>2, <2>3, <2>4 DEF ReceiptInv, R!FailureIsHonest
<1>11. ASSUME NEW c \in Calls, R!refused_or_replayed(c) PROVE ReceiptInv'
  <2>1. /\ receipt_calls' \in [Calls -> ReceiptCalls \cup {R!Resting}]
        /\ \A d \in Calls, r \in ReceiptRequests :
             /\ Serves(d, r)' <=> d # c /\ Serves(d, r)
             /\ Sends(d, r)' <=> d # c /\ Sends(d, r)
             /\ Answers(d, r)' <=> d # c /\ Answers(d, r)
             /\ ~Sends(c, r) /\ ~Answers(c, r)
    BY <1>11, <1>2, CallReturns DEF R!refused_or_replayed, R!Return, Sends, Answers
  <2>2. UNCHANGED receipt_attempts
    BY <1>11 DEF R!refused_or_replayed, R!tables
  <2>3. same /\ UNCHANGED <<consents, source>>
    BY <1>11 DEF R!refused_or_replayed, R!tables
  <2>4. ReceiptTypeOK'
    BY <1>2, <2>1, <2>2, <2>3 DEF ReceiptTypeOK
  <2> QED BY <1>1, <1>2, <1>3, <2>1, <2>2, <2>3, <2>4 DEF ReceiptInv, R!FailureIsHonest
<1>12. ASSUME NEW c \in Calls, R!receipt_intelligence_credential_locator(c) PROVE ReceiptInv'
  <2>1. /\ receipt_calls' \in [Calls -> ReceiptCalls \cup {R!Resting}]
        /\ \A d \in Calls, r \in ReceiptRequests :
             /\ Serves(d, r)' <=> Serves(d, r)
             /\ Sends(d, r)' <=> d # c /\ Sends(d, r)
             /\ Answers(d, r)' <=> d # c /\ Answers(d, r)
             /\ ~Sends(c, r) /\ ~Answers(c, r)
    <3>1. /\ receipt_calls' = [receipt_calls EXCEPT ![c].at = "located"]
          /\ receipt_calls[c].at = "reserved" /\ receipt_calls[c] # R!Resting
      BY <1>12 DEF R!receipt_intelligence_credential_locator, R!Goto
    <3>2. "located" \in ReceiptPlaces /\ "located" \notin {"dispatched", "answered"}
      BY DEF ReceiptPlaces
    <3>3. \A r \in ReceiptRequests : ~Sends(c, r) /\ ~Answers(c, r)
      BY <3>1 DEF Sends, Answers
    <3> QED BY <1>2, <3>1, <3>2, <3>3, CallMoves
  <2>2. UNCHANGED receipt_attempts
    BY <1>12 DEF R!receipt_intelligence_credential_locator, R!tables
  <2>3. same /\ UNCHANGED <<consents, source>>
    BY <1>12 DEF R!receipt_intelligence_credential_locator, R!tables
  <2>4. ReceiptTypeOK'
    BY <1>2, <2>1, <2>2, <2>3 DEF ReceiptTypeOK
  <2> QED BY <1>1, <1>2, <1>3, <2>1, <2>2, <2>3, <2>4 DEF ReceiptInv, R!FailureIsHonest
<1>13. ASSUME NEW c \in Calls, R!get_receipt_intelligence_secret(c) PROVE ReceiptInv'
  <2>1. /\ receipt_calls' \in [Calls -> ReceiptCalls \cup {R!Resting}]
        /\ \A d \in Calls, r \in ReceiptRequests :
             /\ Serves(d, r)' <=> Serves(d, r)
             /\ Sends(d, r)' <=> d # c /\ Sends(d, r)
             /\ Answers(d, r)' <=> d # c /\ Answers(d, r)
             /\ ~Sends(c, r) /\ ~Answers(c, r)
    <3>1. /\ receipt_calls' = [receipt_calls EXCEPT ![c].at = "keyed"]
          /\ receipt_calls[c].at = "located" /\ receipt_calls[c] # R!Resting
      BY <1>13 DEF R!get_receipt_intelligence_secret, R!Goto
    <3>2. "keyed" \in ReceiptPlaces /\ "keyed" \notin {"dispatched", "answered"}
      BY DEF ReceiptPlaces
    <3>3. \A r \in ReceiptRequests : ~Sends(c, r) /\ ~Answers(c, r)
      BY <3>1 DEF Sends, Answers
    <3> QED BY <1>2, <3>1, <3>2, <3>3, CallMoves
  <2>2. UNCHANGED receipt_attempts
    BY <1>13 DEF R!get_receipt_intelligence_secret, R!tables
  <2>3. same /\ UNCHANGED <<consents, source>>
    BY <1>13 DEF R!get_receipt_intelligence_secret, R!tables
  <2>4. ReceiptTypeOK'
    BY <1>2, <2>1, <2>2, <2>3 DEF ReceiptTypeOK
  <2> QED BY <1>1, <1>2, <1>3, <2>1, <2>2, <2>3, <2>4 DEF ReceiptInv, R!FailureIsHonest
<1>14. ASSUME NEW c \in Calls, R!mark_refused(c) PROVE ReceiptInv'
  <2>1. /\ receipt_calls' \in [Calls -> ReceiptCalls \cup {R!Resting}]
        /\ \A d \in Calls, r \in ReceiptRequests :
             /\ Serves(d, r)' <=> d # c /\ Serves(d, r)
             /\ Sends(d, r)' <=> d # c /\ Sends(d, r)
             /\ Answers(d, r)' <=> d # c /\ Answers(d, r)
             /\ ~Sends(c, r) /\ ~Answers(c, r)
    BY <1>14, <1>2, CallReturns DEF R!mark_refused, R!Return, Sends, Answers
  <2>2. UNCHANGED receipt_attempts
    BY <1>14 DEF R!mark_refused, R!tables
  <2>3. same /\ UNCHANGED <<consents, source>>
    BY <1>14 DEF R!mark_refused, R!tables
  <2>4. ReceiptTypeOK'
    BY <1>2, <2>1, <2>2, <2>3 DEF ReceiptTypeOK
  <2> QED BY <1>1, <1>2, <1>3, <2>1, <2>2, <2>3, <2>4 DEF ReceiptInv, R!FailureIsHonest
<1>15. ASSUME NEW c \in Calls, R!credential_locator_refused(c) PROVE ReceiptInv'
  <2>0. receipt_calls[c] # R!Resting /\ R!Request(c) \in ReceiptRequests
    BY <1>15, <1>2 DEF R!credential_locator_refused
  <2>1. /\ receipt_calls' \in [Calls -> ReceiptCalls \cup {R!Resting}]
        /\ Serves(c, R!Request(c))
        /\ \A d \in Calls, r \in ReceiptRequests :
             /\ Serves(d, r)' <=> d # c /\ Serves(d, r)
             /\ Sends(d, r)' <=> d # c /\ Sends(d, r)
             /\ Answers(d, r)' <=> d # c /\ Answers(d, r)
             /\ ~Sends(c, r) /\ ~Answers(c, r)
    <3>1. receipt_calls' = [receipt_calls EXCEPT ![c] = R!Resting] /\ receipt_calls[c].at = "reserved"
      BY <1>15 DEF R!credential_locator_refused, R!Return
    <3>2. \A r \in ReceiptRequests : ~Sends(c, r) /\ ~Answers(c, r)
      BY <3>1 DEF Sends, Answers
    <3>3. Serves(c, R!Request(c))
      BY <2>0 DEF Serves, R!Request
    <3>4. /\ receipt_calls' \in [Calls -> ReceiptCalls \cup {R!Resting}]
          /\ \A d \in Calls, r \in ReceiptRequests :
               /\ Serves(d, r)' <=> d # c /\ Serves(d, r)
               /\ Sends(d, r)' <=> d # c /\ Sends(d, r)
               /\ Answers(d, r)' <=> d # c /\ Answers(d, r)
      BY <1>2, <3>1, CallReturns
    <3> QED BY <3>2, <3>3, <3>4
  <2>2. /\ receipt_attempts' \in [ReceiptRequests -> ReceiptRows]
        /\ \A r \in ReceiptRequests :
             /\ receipt_attempts'[r].dispatched = receipt_attempts[r].dispatched
             /\ IF r = R!Request(c) /\ receipt_attempts[r].state \in {"not_sent", "dispatched"}
                THEN receipt_attempts'[r].state = "failed"
                ELSE receipt_attempts'[r] = receipt_attempts[r]
    BY <1>15, <1>2, <2>0, AttemptFails DEF R!credential_locator_refused, ReceiptFailures
  <2>3. same /\ UNCHANGED <<consents, source>>
    BY <1>15 DEF R!credential_locator_refused
  <2>4. ReceiptTypeOK'
    BY <1>2, <2>1, <2>2, <2>3 DEF ReceiptTypeOK
  \* Another call would have dispatched it.
  <2>5. R!Request(c) \notin overlapped => receipt_attempts[R!Request(c)].state # "dispatched"
    BY <1>1, <2>0, <2>1 DEF ReceiptInv
  <2>6. R!FailureIsHonest'
    BY <1>3, <2>0, <2>2, <2>3, <2>5 DEF R!FailureIsHonest
  <2> QED BY <1>1, <2>0, <2>1, <2>2, <2>3, <2>4, <2>5, <2>6 DEF ReceiptInv
<1>16. ASSUME NEW c \in Calls, R!secret_unavailable(c) PROVE ReceiptInv'
  <2>0. receipt_calls[c] # R!Resting /\ R!Request(c) \in ReceiptRequests
    BY <1>16, <1>2 DEF R!secret_unavailable
  <2>1. /\ receipt_calls' \in [Calls -> ReceiptCalls \cup {R!Resting}]
        /\ Serves(c, R!Request(c))
        /\ \A d \in Calls, r \in ReceiptRequests :
             /\ Serves(d, r)' <=> d # c /\ Serves(d, r)
             /\ Sends(d, r)' <=> d # c /\ Sends(d, r)
             /\ Answers(d, r)' <=> d # c /\ Answers(d, r)
             /\ ~Sends(c, r) /\ ~Answers(c, r)
    BY <1>16, <1>2, CallReturns DEF R!secret_unavailable, R!Return, R!Request, Serves, Sends, Answers
  <2>2. /\ receipt_attempts' \in [ReceiptRequests -> ReceiptRows]
        /\ \A r \in ReceiptRequests :
             /\ receipt_attempts'[r].dispatched = receipt_attempts[r].dispatched
             /\ IF r = R!Request(c) /\ receipt_attempts[r].state \in {"not_sent", "dispatched"}
                THEN receipt_attempts'[r].state = "failed"
                ELSE receipt_attempts'[r] = receipt_attempts[r]
    BY <1>16, <1>2, <2>0, AttemptFails DEF R!secret_unavailable, ReceiptFailures
  <2>3. same /\ UNCHANGED <<consents, source>>
    BY <1>16 DEF R!secret_unavailable
  <2>4. ReceiptTypeOK'
    BY <1>2, <2>1, <2>2, <2>3 DEF ReceiptTypeOK
  \* Another call would have dispatched it.
  <2>5. R!Request(c) \notin overlapped => receipt_attempts[R!Request(c)].state # "dispatched"
    BY <1>1, <2>0, <2>1 DEF ReceiptInv
  <2>6. R!FailureIsHonest'
    BY <1>3, <2>0, <2>2, <2>3, <2>5 DEF R!FailureIsHonest
  <2> QED BY <1>1, <2>0, <2>1, <2>2, <2>3, <2>4, <2>5, <2>6 DEF ReceiptInv
<1>17. ASSUME NEW c \in Calls, R!mark_receipt_intelligence_dispatched(c) PROVE ReceiptInv'
  <2> DEFINE r0 == R!Request(c)
  <2>0. receipt_calls[c] # R!Resting /\ r0 \in ReceiptRequests /\ receipt_attempts[r0].state = "not_sent"
    BY <1>17, <1>2 DEF R!mark_receipt_intelligence_dispatched, R!Attempt
  <2>1. /\ receipt_calls' \in [Calls -> ReceiptCalls \cup {R!Resting}]
        /\ \A d \in Calls, r \in ReceiptRequests :
             /\ Serves(d, r)' <=> Serves(d, r)
             /\ Sends(d, r)' <=> IF d = c THEN r = r0 ELSE Sends(d, r)
             /\ Answers(d, r)' <=> d # c /\ Answers(d, r)
             /\ ~Sends(c, r) /\ ~Answers(c, r)
        /\ Serves(c, r0)
    <3>1. Serves(c, r0) /\ \A r \in ReceiptRequests : Serves(c, r) <=> r = r0
      BY <2>0 DEF Serves, R!Request
    <3>2. receipt_calls' = [receipt_calls EXCEPT ![c].at = "dispatched"] /\ receipt_calls[c].at = "keyed"
      BY <1>17 DEF R!mark_receipt_intelligence_dispatched, R!Goto
    <3>3. \A r \in ReceiptRequests : ~Sends(c, r) /\ ~Answers(c, r)
      BY <3>2 DEF Sends, Answers
    <3>4. "dispatched" \in ReceiptPlaces
      BY DEF ReceiptPlaces
    <3> QED BY <1>2, <2>0, <3>1, <3>2, <3>3, <3>4, CallMoves
  <2>2. /\ receipt_attempts' \in [ReceiptRequests -> ReceiptRows]
        /\ \A r \in ReceiptRequests \ {r0} : receipt_attempts'[r] = receipt_attempts[r]
        /\ receipt_attempts'[r0].state = "dispatched" /\ receipt_attempts'[r0].dispatched
        /\ receipt_attempts'[r0].failure = receipt_attempts[r0].failure
    <3> DEFINE y == receipt_attempts[r0]
               x == [y EXCEPT !.state = "dispatched", !.dispatched = TRUE]
    <3>1. receipt_attempts' = [receipt_attempts EXCEPT ![r0] = x]
      BY <1>17, <1>2, <2>0 DEF R!mark_receipt_intelligence_dispatched, ReceiptTypeOK
    <3>2. y \in ReceiptRows
      BY <1>2, <2>0 DEF ReceiptTypeOK
    <3> HIDE DEF y, r0
    <3>3. x \in ReceiptRows /\ x.state = "dispatched" /\ x.dispatched /\ x.failure = y.failure
      BY <3>2 DEF ReceiptRows, ReceiptStates
    <3> HIDE DEF x
    <3> QED BY <1>2, <2>0, <3>1, <3>3 DEF ReceiptTypeOK, y
  <2>3. same /\ UNCHANGED <<consents, source>>
    BY <1>17 DEF R!mark_receipt_intelligence_dispatched
  <2>4. ReceiptTypeOK'
    BY <1>2, <2>1, <2>2, <2>3 DEF ReceiptTypeOK
  <2>5. receipts_sent[r0] = 0 /\ receipt_attempts[r0].failure = "none"
        /\ \A d \in Calls : ~Sends(d, r0)
    BY <1>3, <2>0 DEF ReceiptInv
  <2> HIDE DEF r0
  <2>6. R!FailureIsHonest'
    BY <1>3, <2>0, <2>2, <2>3, <2>5 DEF R!FailureIsHonest
  <2> QED BY <1>1, <2>0, <2>1, <2>2, <2>3, <2>4, <2>5, <2>6 DEF ReceiptInv
<1>18. ASSUME NEW c \in Calls, R!analyze_receipt_intelligence(c) PROVE ReceiptInv'
  <2> DEFINE r0 == R!Request(c)
  <2>0. receipt_calls[c] # R!Resting /\ r0 \in ReceiptRequests /\ receipt_calls[c].at = "dispatched"
    BY <1>18, <1>2 DEF R!analyze_receipt_intelligence
  <2>1. PICK outcome \in R!Outcomes, m \in {0, 1} :
          /\ receipts_sent' = [receipts_sent EXCEPT ![r0] = @ + m]
          /\ receipt_calls' = [receipt_calls EXCEPT ![c].at = "answered", ![c].outcome = outcome]
    BY <1>18 DEF R!analyze_receipt_intelligence
  <2>2. /\ receipt_calls' \in [Calls -> ReceiptCalls \cup {R!Resting}]
        /\ \A d \in Calls, r \in ReceiptRequests :
             /\ Serves(d, r)' <=> Serves(d, r)
             /\ Sends(d, r)' <=> d # c /\ Sends(d, r)
             /\ Answers(d, r)' <=> IF d = c THEN r = r0 ELSE Answers(d, r)
        /\ Sends(c, r0)
    <3> DEFINE y == receipt_calls[c]
               x == [y EXCEPT !.at = "answered", !.outcome = outcome]
    <3>1. receipt_calls' = [receipt_calls EXCEPT ![c] = x]
      BY <1>2, <2>1 DEF ReceiptTypeOK
    <3>2. y \in ReceiptCalls
      BY <1>2, <2>0 DEF ReceiptTypeOK
    <3> HIDE DEF y
    <3>3. x \in ReceiptCalls /\ x.at = "answered" /\ x.request = y.request
      BY <3>2 DEF ReceiptCalls, ReceiptPlaces
    <3>4. x # R!Resting
      BY <3>3, ReceiptRecords
    <3> HIDE DEF x
    <3>5. receipt_calls'[c] = x /\ \A d \in Calls : d # c => receipt_calls'[d] = receipt_calls[d]
      BY <1>2, <3>1 DEF ReceiptTypeOK
    <3>6. receipt_calls' \in [Calls -> ReceiptCalls \cup {R!Resting}]
      BY <1>2, <3>1, <3>3 DEF ReceiptTypeOK
    <3> QED BY <2>0, <3>3, <3>4, <3>5, <3>6 DEF Serves, Sends, Answers, R!Request, y
  <2>3. /\ UNCHANGED <<receipt_attempts, overlapped, consents, source>>
    BY <1>18 DEF R!analyze_receipt_intelligence, R!tables
  <2>4. receipts_sent[r0] = 0 /\ receipt_attempts[r0].dispatched
        /\ (r0 \notin overlapped => receipt_attempts[r0].state = "dispatched")
    BY <2>0, <2>2 DEF ReceiptInv
  <2>5. /\ receipts_sent' \in [ReceiptRequests -> {0, 1}]
        /\ \A r \in ReceiptRequests \ {r0} : receipts_sent'[r] = receipts_sent[r]
    <3> HIDE DEF r0
    <3>1. receipts_sent \in [ReceiptRequests -> {0, 1}] /\ receipts_sent[r0] + m \in {0, 1}
      BY <1>2, <2>4 DEF ReceiptTypeOK
    <3> QED BY <2>0, <2>1, <3>1
  <2>6. ReceiptTypeOK'
    BY <1>2, <2>2, <2>3, <2>5 DEF ReceiptTypeOK
  <2> HIDE DEF r0
  <2>7. R!FailureIsHonest'
    <3>1. r0 \notin overlapped => receipt_attempts[r0].failure = "none"
      BY <2>0, <2>4 DEF ReceiptInv
    <3> QED BY <1>3, <2>3, <2>5, <3>1 DEF R!FailureIsHonest
  <2>8. \A d \in Calls : d # c => ~Sends(d, r0)
    BY <2>0, <2>2 DEF ReceiptInv
  <2> QED BY <1>1, <2>0, <2>2, <2>3, <2>4, <2>5, <2>6, <2>7, <2>8 DEF ReceiptInv
<1>19. ASSUME NEW c \in Calls, R!complete_with_publication(c) PROVE ReceiptInv'
  <2> DEFINE r0 == R!Request(c)
  <2>0. receipt_calls[c] # R!Resting /\ r0 \in ReceiptRequests /\ receipt_calls[c].at = "answered"
    BY <1>19, <1>2 DEF R!complete_with_publication
  <2>1. /\ receipt_calls' \in [Calls -> ReceiptCalls \cup {R!Resting}]
        /\ Serves(c, r0)
        /\ \A d \in Calls, r \in ReceiptRequests :
             /\ Serves(d, r)' <=> d # c /\ Serves(d, r)
             /\ Sends(d, r)' <=> d # c /\ Sends(d, r)
             /\ Answers(d, r)' <=> d # c /\ Answers(d, r)
             /\ ~Sends(c, r)
    BY <1>19, <1>2, <2>0, CallReturns DEF R!complete_with_publication, R!Return, R!Request, Serves, Sends
  <2>2. /\ receipt_attempts' \in [ReceiptRequests -> ReceiptRows]
        /\ \A r \in ReceiptRequests :
             /\ receipt_attempts'[r].dispatched = receipt_attempts[r].dispatched
             /\ r # r0 => receipt_attempts'[r] = receipt_attempts[r]
        /\ receipt_attempts'[r0].state # "dispatched"
        /\ receipt_attempts[r0].state \notin {"none", "not_sent"}
             => receipt_attempts'[r0].state \notin {"none", "not_sent"}
        /\ \/ receipt_attempts'[r0] = receipt_attempts[r0]
           \/ receipt_attempts'[r0].failure = "after_dispatch" /\ receipt_attempts'[r0].state = "failed"
           \/ /\ receipt_attempts[r0].state = "dispatched"
              /\ receipt_attempts'[r0].failure = receipt_attempts[r0].failure
    <3>1. receipt_attempts' = [receipt_attempts EXCEPT ![r0].state = "completed"]
          /\ receipt_attempts[r0].state = "dispatched"
      BY <1>19 DEF R!complete_with_publication, R!Attempt
    <3>2. "completed" \in ReceiptStates
      BY DEF ReceiptStates, R!Terminal
    <3>3. \A r \in ReceiptRequests \ {r0} : receipt_attempts'[r] = receipt_attempts[r]
      BY <1>2, <3>1 DEF ReceiptTypeOK
    <3> HIDE DEF r0
    <3>4. /\ receipt_attempts' \in [ReceiptRequests -> ReceiptRows]
          /\ \A q \in ReceiptRequests :
               /\ receipt_attempts'[q].state = IF q = r0 THEN "completed" ELSE receipt_attempts[q].state
               /\ receipt_attempts'[q].failure = receipt_attempts[q].failure
               /\ receipt_attempts'[q].dispatched = receipt_attempts[q].dispatched
      BY <1>2, <2>0, <3>1, <3>2, AttemptMoves
    <3> QED BY <2>0, <3>1, <3>3, <3>4
  <2>3. same /\ UNCHANGED <<consents, source>>
    BY <1>19 DEF R!complete_with_publication
  <2>4. ReceiptTypeOK'
    BY <1>2, <2>1, <2>2, <2>3 DEF ReceiptTypeOK
  \* No other call sends for a request without overlapping calls.
  <2>5. r0 \notin overlapped => \A d \in Calls : d # c => ~Sends(d, r0)
    BY <1>1, <2>0, <2>1 DEF ReceiptInv
  <2> HIDE DEF r0
  <2>6. R!FailureIsHonest'
    BY <1>3, <2>0, <2>2, <2>3 DEF R!FailureIsHonest
  <2>7. (\A r \in ReceiptRequests :
          /\ receipt_attempts[r].state \in {"none", "not_sent"} => ~receipt_attempts[r].dispatched
          /\ ~receipt_attempts[r].dispatched => receipts_sent[r] = 0
          /\ receipt_attempts[r].failure # "none" => receipt_attempts[r].state = "failed")'
    BY <2>0, <2>2, <2>3 DEF ReceiptInv
  <2> QED BY <1>1, <2>0, <2>1, <2>2, <2>3, <2>4, <2>5, <2>6, <2>7 DEF ReceiptInv
<1>20. ASSUME NEW c \in Calls, R!complete_fails(c) PROVE ReceiptInv'
  <2> DEFINE r0 == R!Request(c)
  <2>0. receipt_calls[c] # R!Resting /\ r0 \in ReceiptRequests /\ receipt_calls[c].at = "answered"
    BY <1>20, <1>2 DEF R!complete_fails
  <2>1. /\ receipt_calls' \in [Calls -> ReceiptCalls \cup {R!Resting}]
        /\ Serves(c, r0)
        /\ \A d \in Calls, r \in ReceiptRequests :
             /\ Serves(d, r)' <=> d # c /\ Serves(d, r)
             /\ Sends(d, r)' <=> d # c /\ Sends(d, r)
             /\ Answers(d, r)' <=> d # c /\ Answers(d, r)
             /\ ~Sends(c, r)
    BY <1>20, <1>2, <2>0, CallReturns DEF R!complete_fails, R!Return, R!Request, Serves, Sends
  <2>2. /\ receipt_attempts' \in [ReceiptRequests -> ReceiptRows]
        /\ \A r \in ReceiptRequests :
             /\ receipt_attempts'[r].dispatched = receipt_attempts[r].dispatched
             /\ r # r0 => receipt_attempts'[r] = receipt_attempts[r]
        /\ receipt_attempts'[r0].state # "dispatched"
        /\ receipt_attempts[r0].state \notin {"none", "not_sent"}
             => receipt_attempts'[r0].state \notin {"none", "not_sent"}
        /\ \/ receipt_attempts'[r0] = receipt_attempts[r0]
           \/ receipt_attempts'[r0].failure = "after_dispatch" /\ receipt_attempts'[r0].state = "failed"
           \/ /\ receipt_attempts[r0].state = "dispatched"
              /\ receipt_attempts'[r0].failure = receipt_attempts[r0].failure
    <3>1. R!fail_receipt_intelligence(r0, "after_dispatch")
      BY <1>20 DEF R!complete_fails
    <3>2. "after_dispatch" \in ReceiptFailures
      BY DEF ReceiptFailures
    <3> HIDE DEF r0
    <3> QED BY <1>2, <2>0, <3>1, <3>2, AttemptFails
  <2>3. same /\ UNCHANGED <<consents, source>>
    BY <1>20 DEF R!complete_fails
  <2>4. ReceiptTypeOK'
    BY <1>2, <2>1, <2>2, <2>3 DEF ReceiptTypeOK
  \* No other call sends for a request without overlapping calls.
  <2>5. r0 \notin overlapped => \A d \in Calls : d # c => ~Sends(d, r0)
    BY <1>1, <2>0, <2>1 DEF ReceiptInv
  <2> HIDE DEF r0
  <2>6. R!FailureIsHonest'
    BY <1>3, <2>0, <2>2, <2>3 DEF R!FailureIsHonest
  <2>7. (\A r \in ReceiptRequests :
          /\ receipt_attempts[r].state \in {"none", "not_sent"} => ~receipt_attempts[r].dispatched
          /\ ~receipt_attempts[r].dispatched => receipts_sent[r] = 0
          /\ receipt_attempts[r].failure # "none" => receipt_attempts[r].state = "failed")'
    BY <2>0, <2>2, <2>3 DEF ReceiptInv
  <2> QED BY <1>1, <2>0, <2>1, <2>2, <2>3, <2>4, <2>5, <2>6, <2>7 DEF ReceiptInv
<1>21. ASSUME NEW c \in Calls, R!finalize_dispatched(c) PROVE ReceiptInv'
  <2> DEFINE r0 == R!Request(c)
  <2>0. receipt_calls[c] # R!Resting /\ r0 \in ReceiptRequests /\ receipt_calls[c].at = "answered"
    BY <1>21, <1>2 DEF R!finalize_dispatched
  <2>1. /\ receipt_calls' \in [Calls -> ReceiptCalls \cup {R!Resting}]
        /\ Serves(c, r0)
        /\ \A d \in Calls, r \in ReceiptRequests :
             /\ Serves(d, r)' <=> d # c /\ Serves(d, r)
             /\ Sends(d, r)' <=> d # c /\ Sends(d, r)
             /\ Answers(d, r)' <=> d # c /\ Answers(d, r)
             /\ ~Sends(c, r)
    BY <1>21, <1>2, <2>0, CallReturns DEF R!finalize_dispatched, R!Return, R!Request, Serves, Sends
  <2>2. /\ receipt_attempts' \in [ReceiptRequests -> ReceiptRows]
        /\ \A r \in ReceiptRequests :
             /\ receipt_attempts'[r].dispatched = receipt_attempts[r].dispatched
             /\ r # r0 => receipt_attempts'[r] = receipt_attempts[r]
        /\ receipt_attempts'[r0].state # "dispatched"
        /\ receipt_attempts[r0].state \notin {"none", "not_sent"}
             => receipt_attempts'[r0].state \notin {"none", "not_sent"}
        /\ \/ receipt_attempts'[r0] = receipt_attempts[r0]
           \/ receipt_attempts'[r0].failure = "after_dispatch" /\ receipt_attempts'[r0].state = "failed"
           \/ /\ receipt_attempts[r0].state = "dispatched"
              /\ receipt_attempts'[r0].failure = receipt_attempts[r0].failure
    <3>1. CASE receipt_attempts[r0].state = "dispatched"
      <4>1. PICK t \in {"refused", "outcome_unknown"} :
              receipt_attempts' = [receipt_attempts EXCEPT ![r0].state = t]
        BY <1>21, <3>1 DEF R!finalize_dispatched, R!Attempt
      <4>2. t \in ReceiptStates
        BY DEF ReceiptStates, R!Terminal
      <4>3. \A r \in ReceiptRequests \ {r0} : receipt_attempts'[r] = receipt_attempts[r]
        BY <1>2, <4>1 DEF ReceiptTypeOK
      <4> HIDE DEF r0
      <4>4. /\ receipt_attempts' \in [ReceiptRequests -> ReceiptRows]
            /\ \A q \in ReceiptRequests :
                 /\ receipt_attempts'[q].state = IF q = r0 THEN t ELSE receipt_attempts[q].state
                 /\ receipt_attempts'[q].failure = receipt_attempts[q].failure
                 /\ receipt_attempts'[q].dispatched = receipt_attempts[q].dispatched
        BY <1>2, <2>0, <4>1, <4>2, AttemptMoves
      <4>5. t \notin {"none", "not_sent", "dispatched"}
        BY <4>1
      <4> QED BY <2>0, <3>1, <4>3, <4>4, <4>5
    <3>2. CASE receipt_attempts[r0].state # "dispatched"
      <4>1. receipt_attempts' = receipt_attempts
        BY <1>21, <3>2 DEF R!finalize_dispatched, R!Attempt
      <4> QED BY <1>2, <3>2, <4>1 DEF ReceiptTypeOK
    <3> QED BY <3>1, <3>2
  <2>3. same /\ UNCHANGED <<consents, source>>
    BY <1>21 DEF R!finalize_dispatched
  <2>4. ReceiptTypeOK'
    BY <1>2, <2>1, <2>2, <2>3 DEF ReceiptTypeOK
  \* No other call sends for a request without overlapping calls.
  <2>5. r0 \notin overlapped => \A d \in Calls : d # c => ~Sends(d, r0)
    BY <1>1, <2>0, <2>1 DEF ReceiptInv
  <2> HIDE DEF r0
  <2>6. R!FailureIsHonest'
    BY <1>3, <2>0, <2>2, <2>3 DEF R!FailureIsHonest
  <2>7. (\A r \in ReceiptRequests :
          /\ receipt_attempts[r].state \in {"none", "not_sent"} => ~receipt_attempts[r].dispatched
          /\ ~receipt_attempts[r].dispatched => receipts_sent[r] = 0
          /\ receipt_attempts[r].failure # "none" => receipt_attempts[r].state = "failed")'
    BY <2>0, <2>2, <2>3 DEF ReceiptInv
  <2> QED BY <1>1, <2>0, <2>1, <2>2, <2>3, <2>4, <2>5, <2>6, <2>7 DEF ReceiptInv
<1> QED
  BY <1>5, <1>6, <1>7, <1>8, <1>9, <1>10, <1>11, <1>12, <1>13, <1>14, <1>15, <1>16, <1>17, <1>18, <1>19, <1>20, <1>21
  DEF R!Next
LEMMA ReceiptSafe == ReceiptInv => R!SentOnceOnRecord /\ R!FailureIsHonest
<1> SUFFICES ASSUME ReceiptInv, NEW r \in ReceiptRequests
             PROVE  receipts_sent[r] <= 1 /\ (receipts_sent[r] > 0 => receipt_attempts[r].dispatched)
  BY DEF ReceiptInv, R!SentOnceOnRecord
<1>1. receipts_sent[r] \in {0, 1}
  BY DEF ReceiptInv, ReceiptTypeOK
<1> QED BY <1>1 DEF ReceiptInv

LEMMA ReceiptKept == ReceiptInv /\ [NextProviders]_allVars => ReceiptInv'
<1> SUFFICES ASSUME ReceiptInv, [NextProviders]_allVars PROVE ReceiptInv'
  OBVIOUS
<1>1. CASE UNCHANGED receiptVars
  BY <1>1 DEF receiptVars, ReceiptInv, ReceiptTypeOK, R!FailureIsHonest, Serves, Sends, Answers
<1>2. CASE R!Next
  BY <1>2, ReceiptNext
<1> QED BY <1>1, <1>2, ReceiptStep DEF allVars, providerVars

LEMMA SuggestionKept == SuggestionInv /\ [NextProviders]_allVars => SuggestionInv'
<1> SUFFICES ASSUME SuggestionInv, [NextProviders]_allVars PROVE SuggestionInv'
  OBVIOUS
<1>1. CASE UNCHANGED suggestionVars
  BY <1>1 DEF suggestionVars, SuggestionInv, SuggestionTypeOK, O!ShownIsCurrent
<1>2. CASE O!Next
  BY <1>2, SuggestionNext
<1> QED BY <1>1, <1>2, SuggestionStep DEF allVars, providerVars

\* A consent is good for one transmission, which is on record before it is made; a receipt
\* that failed as not sent was not sent unless calls of it overlapped; and a suggestion is
\* shown as current for the revisions it was made from: for any number of requests, of
\* calls that run side by side and of restarts
\* (mark_receipt_intelligence_dispatched, fail_receipt_intelligence, dispatch of
\* outfit_recommendation_repository.rs).
THEOREM ConsentsAreSpentOnce == SpecProviders => []ConsentIsSpentOnce
<1>1. ReceiptInv /\ SuggestionInv => ConsentIsSpentOnce
  BY ReceiptSafe, SuggestionSafe DEF ConsentIsSpentOnce
<1> QED
  BY <1>1, ReceiptInit, SuggestionInit, ReceiptKept, SuggestionKept, PTL DEF SpecProviders

\* Only complete_receipt_intelligence_with_publication completes an attempt.
LEMMA CompletedByPublication ==
    ASSUME ReceiptInv, R!Next, NEW r \in ReceiptRequests,
           receipt_attempts[r].state # "completed", receipt_attempts'[r].state = "completed"
    PROVE  \E c \in Calls : R!complete_with_publication(c) /\ R!Request(c) = r
<1> DEFINE changes == receipt_attempts' # receipt_attempts
<1>0. changes /\ ReceiptTypeOK
  BY DEF ReceiptInv
<1>1. \A q \in ReceiptRequests : ~R!preview(q) /\ ~R!Expire(q) /\ \A c \in Calls : ~R!terminal_replay(c, q)
  BY <1>0 DEF R!preview, R!Expire, R!terminal_replay, R!tables
<1>2. ~R!ChangeSource /\ ~R!DeleteCredential
  BY <1>0 DEF R!ChangeSource, R!DeleteCredential
<1>3. \A c \in Calls : /\ ~R!replay_reservation(c) /\ ~R!refused_or_replayed(c)
                       /\ ~R!receipt_intelligence_credential_locator(c)
                       /\ ~R!get_receipt_intelligence_secret(c) /\ ~R!mark_refused(c)
                       /\ ~R!analyze_receipt_intelligence(c)
  BY <1>0 DEF R!replay_reservation, R!refused_or_replayed, R!mark_refused,
              R!receipt_intelligence_credential_locator, R!get_receipt_intelligence_secret,
              R!analyze_receipt_intelligence, R!tables
<1>4. ~R!Restart
  <2> SUFFICES ASSUME R!Restart PROVE FALSE
    OBVIOUS
  <2> DEFINE t == R!recovered_state(r)  x == receipt_attempts[r]
  <2>1. receipt_attempts'[r] = [x EXCEPT !.state = t]
    BY DEF R!Restart
  <2>2. x \in ReceiptRows /\ t # "completed" /\ x.state \in ReceiptStates
    <3>1. x \in ReceiptRows
      BY <1>0 DEF ReceiptTypeOK
    <3> QED BY <3>1 DEF R!recovered_state, ReceiptRows
  <2>3. t \in ReceiptStates
    BY <2>2 DEF R!recovered_state, ReceiptStates, R!Terminal
  <2> HIDE DEF t, x
  <2> QED BY <2>1, <2>2, <2>3, ReceiptRecords
<1>5. \A q \in ReceiptRequests, code \in ReceiptFailures : ~R!fail_receipt_intelligence(q, code)
  <2> SUFFICES ASSUME NEW q \in ReceiptRequests, NEW code \in ReceiptFailures,
                      R!fail_receipt_intelligence(q, code)
               PROVE  FALSE
    OBVIOUS
  <2> QED BY <1>0, AttemptFails
<1>6. \A c \in Calls : receipt_calls[c] # R!Resting => R!Request(c) \in ReceiptRequests
  <2>1. \A x \in ReceiptCalls : x.request \in ReceiptRequests
    BY DEF ReceiptCalls
  <2> QED BY <1>0, <2>1 DEF ReceiptTypeOK, R!Request
<1>7. \A c \in Calls : /\ ~R!credential_locator_refused(c) /\ ~R!secret_unavailable(c)
                       /\ ~R!complete_fails(c)
  BY <1>5, <1>6 DEF R!credential_locator_refused, R!secret_unavailable, R!complete_fails, ReceiptFailures
<1>8. \A q \in ReceiptRequests, t \in ReceiptStates :
        receipt_attempts' = [receipt_attempts EXCEPT ![q].state = t] => t = "completed" /\ q = r
  <2> SUFFICES ASSUME NEW q \in ReceiptRequests, NEW t \in ReceiptStates,
                      receipt_attempts' = [receipt_attempts EXCEPT ![q].state = t]
               PROVE  t = "completed" /\ q = r
    OBVIOUS
  <2>1. receipt_attempts'[r].state = IF r = q THEN t ELSE receipt_attempts[r].state
    BY <1>0, AttemptMoves
  <2> QED BY <2>1
<1>9. \A c \in Calls : ~R!reserve_receipt_intelligence(c)
  <2> SUFFICES ASSUME NEW c \in Calls, R!reserve_receipt_intelligence(c) PROVE FALSE
    OBVIOUS
  <2> DEFINE q == R!Request(c)
  <2>1. receipt_attempts' = [receipt_attempts EXCEPT ![q].state = "not_sent"] /\ q \in ReceiptRequests
    BY <1>6 DEF R!reserve_receipt_intelligence
  <2>2. "not_sent" \in ReceiptStates
    BY DEF ReceiptStates
  <2> HIDE DEF q
  <2> QED BY <1>8, <2>1, <2>2
<1>10. \A c \in Calls : ~R!mark_receipt_intelligence_dispatched(c)
  <2> SUFFICES ASSUME NEW c \in Calls, R!mark_receipt_intelligence_dispatched(c) PROVE FALSE
    OBVIOUS
  <2> DEFINE q == R!Request(c)  y == receipt_attempts[q]
             x == [y EXCEPT !.state = "dispatched", !.dispatched = TRUE]
  <2>1. receipt_attempts' = [receipt_attempts EXCEPT ![q] = x] /\ q \in ReceiptRequests
    BY <1>0, <1>6 DEF R!mark_receipt_intelligence_dispatched, ReceiptTypeOK
  <2>2. y \in ReceiptRows
    BY <1>0, <2>1 DEF ReceiptTypeOK
  <2> HIDE DEF y, q
  <2>3. x.state = "dispatched"
    BY <2>2 DEF ReceiptRows
  <2> HIDE DEF x
  <2> QED BY <1>0, <2>1, <2>3 DEF ReceiptTypeOK
<1>11. \A c \in Calls : ~R!finalize_dispatched(c)
  <2> SUFFICES ASSUME NEW c \in Calls, R!finalize_dispatched(c) PROVE FALSE
    OBVIOUS
  <2> DEFINE q == R!Request(c)
  <2>1. q \in ReceiptRequests
    BY <1>6 DEF R!finalize_dispatched
  <2>2. PICK t \in {"refused", "outcome_unknown"} :
          receipt_attempts' = [receipt_attempts EXCEPT ![q].state = t]
    BY <1>0 DEF R!finalize_dispatched
  <2>3. t \in ReceiptStates
    BY DEF ReceiptStates, R!Terminal
  <2> HIDE DEF q
  <2> QED BY <1>8, <2>1, <2>2, <2>3
<1>12. PICK c \in Calls : R!complete_with_publication(c)
  BY <1>1, <1>2, <1>3, <1>4, <1>7, <1>9, <1>10, <1>11 DEF R!Next
<1>13. R!Request(c) = r
  <2> DEFINE q == R!Request(c)
  <2>1. receipt_attempts' = [receipt_attempts EXCEPT ![q].state = "completed"] /\ q \in ReceiptRequests
    BY <1>6, <1>12 DEF R!complete_with_publication
  <2>2. "completed" \in ReceiptStates
    BY DEF ReceiptStates, R!Terminal
  <2> HIDE DEF q
  <2>3. q = r
    BY <1>8, <2>1, <2>2
  <2> QED BY <2>3 DEF q
<1> QED BY <1>12, <1>13

\* What is published was read from the source the user approved, however often the source
\* changes while the provider is at work (ensure_approved_preview_is_current).
THEOREM PublicationsAreApproved == SpecProviders => PublishedAsApproved
<1> DEFINE approved == \A r \in ReceiptRequests :
                         (receipt_attempts[r].state # "completed" /\ receipt_attempts'[r].state = "completed")
                           => consents[r].source = source
<1>1. ReceiptInv /\ [NextProviders]_allVars => approved
  <2> SUFFICES ASSUME ReceiptInv, [NextProviders]_allVars, NEW r \in ReceiptRequests,
                      receipt_attempts[r].state # "completed", receipt_attempts'[r].state = "completed"
               PROVE  consents[r].source = source
    OBVIOUS
  <2>1. R!Next
    BY ReceiptStep DEF allVars, providerVars, receiptVars
  <2>2. PICK c \in Calls : R!complete_with_publication(c) /\ R!Request(c) = r
    BY <2>1, CompletedByPublication
  <2> QED BY <2>2 DEF R!complete_with_publication, R!Unchanged
<1>2. (SpecProviders => [][approved]_(R!vars)) => (SpecProviders => PublishedAsApproved)
  BY DEF PublishedAsApproved, R!PublishedAsApproved
<1> HIDE DEF approved
<1>3. ReceiptInv /\ [NextProviders]_allVars => [approved]_(R!vars)
  BY <1>1
<1> QED BY <1>2, <1>3, ReceiptInit, ReceiptKept, PTL DEF SpecProviders
-----------------------------------------------------------------------------
(* The store of contents                                                   *)

OwnFiles == [by : Putters \cup {"image", "nobody"}, number : Nat]
StoredFiles == [by : Putters \cup {"image", "nobody"} \cup Entries, number : Nat]
Manifests == UNION {[S -> BOOLEAN] : S \in SUBSET Entries}
Directories == [files : SUBSET StoredFiles, manifest : Manifests, exists : BOOLEAN]
Writers == [at : {"idle", "staged", "linked", "removed", "storing"}, file : OwnFiles]
Batches ==
    [at : {"idle", "staged", "checking", "linking", "committed", "cleaning"},
     directory : 0..MaxFiles, preexisted : Manifests, linked : SUBSET Entries]

BlobTypeOK ==
    /\ stored \in StoredFiles /\ written \in Nat /\ recorded \in BOOLEAN /\ up \in BOOLEAN
    /\ directories \in [1..MaxFiles -> Directories]
    /\ putters \in [Putters -> Writers] /\ image \in Writers /\ batch \in Batches

\* The batch can still be undone; the stored file is one that the directory d may undo;
\* somebody has been told that the content is stored and is about to record it.
Undoable == batch.at \in {"staged", "checking", "linking"}
LinkedFrom(d) == stored.by \in Entries /\ stored.number = d
Storing == image.at = "storing" \/ \E w \in Putters : putters[w].at = "storing"

BatchInv ==
    /\ batch.at # "idle" => batch.directory \in 1..MaxFiles /\ batch.directory <= written
    /\ Undoable =>
         /\ directories[batch.directory].exists
         /\ \A e \in Entries : [by |-> e, number |-> batch.directory] \in directories[batch.directory].files
         /\ \A e \in DOMAIN batch.preexisted : batch.preexisted[e] => stored # B!NoFile
    /\ batch.at \in {"staged", "checking"} =>
         directories[batch.directory].manifest = B!NoManifest /\ batch.linked = {}
    /\ batch.at = "linking" =>
         /\ directories[batch.directory].manifest = batch.preexisted
         /\ DOMAIN batch.preexisted = Entries
         /\ batch.linked # {} => stored # B!NoFile
    /\ batch.at = "committed" => recorded
    /\ batch.at = "cleaning" /\ ~recorded => ~LinkedFrom(batch.directory)

\* What is recorded, or about to be, is no longer undone; what is not recorded and came
\* from a batch can be undone, because the manifest beside it says so.
BlobInv ==
    /\ BlobTypeOK /\ BatchInv
    /\ recorded \/ Storing => stored # B!NoFile /\ ~(Undoable /\ LinkedFrom(batch.directory))
    /\ stored.by \in Entries => stored.number <= written
    /\ ~recorded /\ stored.by \in Entries =>
         /\ stored.number \in 1..MaxFiles /\ directories[stored.number].exists
         /\ stored.by \in DOMAIN directories[stored.number].manifest
         /\ ~directories[stored.number].manifest[stored.by]
    /\ ~up => image.at = "idle" /\ batch.at = "idle" /\ \A w \in Putters : putters[w].at = "idle"

LEMMA BlobStep == NextProviders => B!Next \/ UNCHANGED storeVars
  BY DEF NextProviders, providerVars, wardrobeVars, storeVars

LEMMA BlobSafe == BlobInv => StoredAsRecorded
  BY DEF BlobInv, StoredAsRecorded, B!StoredAsRecorded

LEMMA BlobRecords ==
    /\ B!BlobStoreConstants
    /\ B!NoManifest \in Manifests /\ DOMAIN B!NoManifest = {}
    /\ B!NoFile \in OwnFiles /\ OwnFiles \subseteq StoredFiles
    /\ \A x \in OwnFiles : x.by \notin Entries
    /\ \A x \in StoredFiles : x = [by |-> x.by, number |-> x.number]
    /\ B!Idle \in Writers /\ B!Idle.at = "idle" /\ B!Idle.file = B!NoFile
    /\ B!NoBatch \in Batches /\ B!NoBatch.at = "idle"
    /\ B!NoDirectory \in Directories
<1>1. B!BlobStoreConstants
  BY BlobsAssumption
<1>2. B!NoManifest \in [{} -> BOOLEAN]
  BY DEF B!NoManifest
<1>3. B!NoManifest \in Manifests /\ DOMAIN B!NoManifest = {}
  BY <1>2 DEF Manifests
<1>4. /\ B!NoFile \in OwnFiles /\ OwnFiles \subseteq StoredFiles
      /\ \A x \in OwnFiles : x.by \notin Entries
      /\ \A x \in StoredFiles : x = [by |-> x.by, number |-> x.number]
  BY <1>1 DEF B!NoFile, B!Nobody, OwnFiles, StoredFiles, B!BlobStoreConstants
<1>5. B!Idle \in Writers /\ B!Idle.at = "idle" /\ B!Idle.file = B!NoFile
  BY <1>4 DEF B!Idle, Writers
<1> HIDE DEF B!NoManifest
<1>6. B!NoBatch \in Batches /\ B!NoBatch.at = "idle" /\ B!NoDirectory \in Directories
  BY <1>1, <1>3 DEF B!NoBatch, Batches, B!NoDirectory, Directories, B!BlobStoreConstants
<1> QED BY <1>1, <1>3, <1>4, <1>5, <1>6

LEMMA BlobInit == InitProviders => BlobInv
<1> SUFFICES ASSUME B!Init PROVE BlobInv
  BY DEF InitProviders
<1>1. BlobTypeOK
  BY BlobRecords DEF B!Init, BlobTypeOK
<1>2. stored.by \notin Entries /\ batch.at = "idle" /\ ~recorded /\ up
      /\ image.at = "idle" /\ \A w \in Putters : putters[w].at = "idle"
  BY BlobRecords DEF B!Init
<1> QED BY <1>1, <1>2 DEF BlobInv, BatchInv, Undoable, Storing

\* The file of a batch that can be undone has two names, so nobody takes it for stored.
LEMMA SoundIsNotUndoable ==
    BlobInv /\ B!verify_final => stored # B!NoFile /\ ~(Undoable /\ LinkedFrom(batch.directory))
<1> SUFFICES ASSUME BlobInv, B!verify_final, Undoable, LinkedFrom(batch.directory) PROVE FALSE
  BY DEF B!verify_final
<1>1. stored \in directories[batch.directory].files /\ batch.directory \in 1..MaxFiles
  BY BlobRecords DEF BlobInv, BlobTypeOK, BatchInv, Undoable, LinkedFrom
<1>2. B!nlink = 2
  BY <1>1 DEF B!nlink
<1> QED BY <1>2 DEF B!verify_final

\* One writer does something else.
LEMMA WriterGoes ==
    ASSUME BlobTypeOK, NEW w \in Putters, NEW at \in {"idle", "staged", "linked", "removed", "storing"},
           NEW file \in OwnFiles, B!PutterTo(w, at, file)
    PROVE  /\ putters' \in [Putters -> Writers]
           /\ putters'[w].at = at
           /\ \A v \in Putters \ {w} : putters'[v] = putters[v]
  BY DEF BlobTypeOK, B!PutterTo, Writers

LEMMA BlobNext == BlobInv /\ B!Next => BlobInv'
<1> SUFFICES ASSUME BlobInv, B!Next PROVE BlobInv'
  OBVIOUS
<1> USE BlobRecords
<1>0. /\ BlobTypeOK /\ BatchInv /\ "storing" \notin {"staged", "linked", "removed"}
      /\ \A w \in Putters : putters[w] \in Writers /\ putters[w].file \in OwnFiles
      /\ image.file \in OwnFiles
  BY DEF BlobInv, BlobTypeOK, Writers
\* Steps of the writers that leave the stored file, the directories and the batch alone.
<1>1. ASSUME UNCHANGED <<stored, directories, recorded, batch, up>>,
             written' \in Nat, written' >= written,
             (putters \in [Putters -> Writers])', (image \in Writers)',
             ~up => UNCHANGED <<putters, image>>,
             Storing' => (Storing \/ (stored # B!NoFile /\ ~(Undoable /\ LinkedFrom(batch.directory))))
      PROVE  BlobInv'
  <2>1. BlobTypeOK'
    BY <1>0, <1>1 DEF BlobTypeOK
  <2>2. (stored.by \in Entries => stored.number <= written)'
    BY <1>0, <1>1 DEF BlobInv, BlobTypeOK, StoredFiles
  <2>3. BatchInv'
    BY <1>0, <1>1 DEF BatchInv, BlobTypeOK, Undoable, LinkedFrom, Batches
  <2> QED BY <1>1, <2>1, <2>2, <2>3 DEF BlobInv, Undoable, LinkedFrom
\* A writer links its file.
<1>2. ASSUME NEW file \in OwnFiles, stored' = IF stored = B!NoFile THEN file ELSE stored,
             UNCHANGED <<directories, recorded, batch, up, written>>,
             (putters \in [Putters -> Writers])', (image \in Writers)',
             up, Storing' => Storing
      PROVE  BlobInv'
  <2>1. stored' # stored => stored = B!NoFile /\ stored'.by \notin Entries /\ stored' \in StoredFiles
    BY <1>2
  <2>2. BlobTypeOK'
    BY <1>0, <1>2, <2>1 DEF BlobTypeOK
  <2>3. stored # B!NoFile => stored' = stored
    BY <1>2
  <2>4. BatchInv'
    BY <1>0, <1>2, <2>1, <2>3 DEF BatchInv, Undoable, LinkedFrom
  <2> QED BY <1>2, <2>1, <2>2, <2>3, <2>4 DEF BlobInv, Undoable, LinkedFrom
<1>3. ASSUME NEW w \in Putters, B!put(w) PROVE BlobInv'
  <2>1. B!NewFile(w) \in OwnFiles
    BY <1>0 DEF B!NewFile, OwnFiles, BlobTypeOK
  <2>2. /\ putters' \in [Putters -> Writers] /\ putters'[w].at = "staged"
        /\ \A v \in Putters \ {w} : putters'[v] = putters[v]
    BY <1>0, <1>3, <2>1, WriterGoes DEF B!put
  <2>3. Storing' => Storing
    BY <1>3, <2>2 DEF Storing, B!put
  <2> QED BY <1>0, <1>1, <1>3, <2>2, <2>3 DEF B!put, B!Write, BlobTypeOK
<1>4. ASSUME NEW w \in Putters, B!hard_link(w) PROVE BlobInv'
  <2>1. /\ putters' \in [Putters -> Writers] /\ putters'[w].at = "linked"
        /\ \A v \in Putters \ {w} : putters'[v] = putters[v]
    BY <1>0, <1>4, WriterGoes DEF B!hard_link
  <2>2. (Storing' => Storing) /\ up
    BY <1>4, <2>1 DEF Storing, B!hard_link, BlobInv
  <2> QED BY <1>0, <1>2, <1>4, <2>1, <2>2 DEF B!hard_link, BlobTypeOK
<1>5. ASSUME NEW w \in Putters, B!remove_staging(w) PROVE BlobInv'
  <2>1. /\ putters' \in [Putters -> Writers] /\ putters'[w].at = "removed"
        /\ \A v \in Putters \ {w} : putters'[v] = putters[v]
    BY <1>0, <1>5, WriterGoes DEF B!remove_staging
  <2>2. (Storing' => Storing) /\ up
    BY <1>5, <2>1 DEF Storing, B!remove_staging, BlobInv
  <2> QED BY <1>0, <1>1, <1>5, <2>1, <2>2 DEF B!remove_staging, BlobTypeOK
<1>6. ASSUME NEW w \in Putters, B!put_returns(w) PROVE BlobInv'
  <2> DEFINE at == IF B!verify_final THEN "storing" ELSE "idle"
  <2>1. /\ putters' \in [Putters -> Writers] /\ putters'[w].at = at
        /\ \A v \in Putters \ {w} : putters'[v] = putters[v]
    BY <1>0, <1>6, WriterGoes DEF B!put_returns
  <2>2. up /\ image' = image
    BY <1>6 DEF B!put_returns, BlobInv
  <2>3. Storing' => Storing \/ B!verify_final
    BY <2>1, <2>2 DEF Storing
  <2> QED BY <1>0, <1>1, <1>6, <2>1, <2>2, <2>3, SoundIsNotUndoable DEF B!put_returns, B!disk, BlobTypeOK
\* What was found stored is recorded.
<1>7. ASSUME recorded' \in {recorded, TRUE}, Storing,
             UNCHANGED <<stored, directories, batch, up, written>>,
             (putters \in [Putters -> Writers])', (image \in Writers)', up
      PROVE  BlobInv'
  <2>0. recorded => recorded'
    BY <1>7, Zenon
  <2>1. stored # B!NoFile /\ ~(Undoable /\ LinkedFrom(batch.directory))
    BY <1>7 DEF BlobInv
  <2>2. BlobTypeOK'
    BY <1>0, <1>7 DEF BlobTypeOK
  <2>3. BatchInv'
    <3>1. UNCHANGED <<stored, directories, batch, written>>
      BY <1>7
    <3> QED BY <1>0, <2>0, <3>1 DEF BatchInv, Undoable, LinkedFrom
  <2>4. (Undoable' <=> Undoable) /\ (LinkedFrom(batch.directory)' <=> LinkedFrom(batch.directory))
        /\ UNCHANGED <<stored, directories, written>> /\ up'
    BY <1>7 DEF Undoable, LinkedFrom
  <2> QED BY <2>0, <2>1, <2>2, <2>3, <2>4 DEF BlobInv
<1>8. ASSUME NEW w \in Putters, B!insert_blob_record(w) PROVE BlobInv'
  <2>1. putters' \in [Putters -> Writers]
    BY <1>0, <1>8, WriterGoes DEF B!insert_blob_record
  <2>2. Storing /\ up
    BY <1>8 DEF Storing, B!insert_blob_record, BlobInv
  <2> QED BY <1>0, <1>7, <1>8, <2>1, <2>2 DEF B!insert_blob_record, B!disk, BlobTypeOK
<1>9. CASE B!stage_image
  <2>1. B!NewFile("image") \in OwnFiles
    BY <1>0 DEF B!NewFile, OwnFiles, BlobTypeOK
  <2>2. image' \in Writers /\ image'.at = "staged" /\ putters' = putters /\ up
    BY <1>9, <2>1 DEF B!stage_image, Writers
  <2>3. Storing' => Storing
    BY <2>2 DEF Storing
  <2> QED BY <1>0, <1>1, <1>9, <2>2, <2>3 DEF B!stage_image, B!Write, BlobTypeOK
<1>10. CASE B!promote_link
  <2>1. image' \in Writers /\ image'.at = "linked" /\ putters' = putters /\ up
    BY <1>0, <1>10 DEF B!promote_link, Writers, BlobInv, BlobTypeOK
  <2>2. Storing' => Storing
    BY <2>1 DEF Storing
  <2> QED BY <1>0, <1>2, <1>10, <2>1, <2>2 DEF B!promote_link, BlobTypeOK
<1>11. CASE B!promote_remove
  <2>1. image' \in Writers /\ image'.at = "removed" /\ putters' = putters /\ up
    BY <1>0, <1>11 DEF B!promote_remove, Writers, BlobInv
  <2>2. Storing' => Storing
    BY <2>1 DEF Storing
  <2> QED BY <1>0, <1>1, <1>11, <2>1, <2>2 DEF B!promote_remove, BlobTypeOK
<1>12. CASE B!promote_verify
  <2>1. image' \in Writers /\ putters' = putters /\ up /\ (image'.at = "storing" => B!verify_final)
    BY <1>0, <1>12 DEF B!promote_verify, Writers, BlobInv, BlobTypeOK
  <2>2. Storing' => Storing \/ B!verify_final
    BY <2>1 DEF Storing
  <2> QED BY <1>0, <1>1, <1>12, <2>1, <2>2, SoundIsNotUndoable DEF B!promote_verify, B!disk, BlobTypeOK
<1>13. CASE B!commit_image
  <2>1. image' \in Writers /\ putters' = putters /\ up /\ Storing
    BY <1>0, <1>13 DEF B!commit_image, BlobInv, Storing
  <2> QED BY <1>0, <1>7, <1>13, <2>1 DEF B!commit_image, B!disk, BlobTypeOK
<1>14. CASE B!settle_image
  <2>1. Storing' => Storing
    BY <1>14 DEF Storing, B!settle_image, B!threads
  <2> QED BY <1>0, <1>1, <1>14, <2>1 DEF B!settle_image, B!threads, BlobTypeOK
<1>15. CASE B!stage
  <2> DEFINE d == written + 1
             own == {[by |-> e, number |-> d] : e \in Entries}
             x == [files |-> own, manifest |-> B!NoManifest, exists |-> TRUE]
  <2>1. d \in 1..MaxFiles /\ written' = d /\ written \in Nat /\ up
    BY <1>0, <1>15 DEF B!stage, B!Write, BlobTypeOK, B!BlobStoreConstants
  <2>2. directories' = [directories EXCEPT ![d] = x]
    BY <1>15 DEF B!stage
  <2>3. /\ batch' \in Batches /\ batch'.at = "staged" /\ batch'.directory = d
        /\ batch'.preexisted = B!NoManifest /\ batch'.linked = {}
    <3> DEFINE z == B!NoBatch
    <3>1. batch' = [z EXCEPT !.at = "staged", !.directory = d]
      BY <1>15 DEF B!stage
    <3>2. z \in Batches /\ z.preexisted = B!NoManifest /\ z.linked = {}
      BY DEF B!NoBatch
    <3>3. d \in 0..MaxFiles
      BY <2>1
    <3> HIDE DEF z, d
    <3> QED BY <3>1, <3>2, <3>3 DEF Batches
  <2>4. x \in Directories /\ x.exists /\ x.manifest = B!NoManifest
        /\ \A e \in Entries : [by |-> e, number |-> d] \in x.files
    BY <2>1 DEF Directories, StoredFiles
  <2> HIDE DEF d, x
  <2>5. directories' \in [1..MaxFiles -> Directories] /\ directories'[d] = x
        /\ \A c \in (1..MaxFiles) \ {d} : directories'[c] = directories[c]
    BY <1>0, <2>1, <2>2, <2>4 DEF BlobTypeOK
  <2>6. UNCHANGED <<stored, recorded, putters, image, up>>
    BY <1>15 DEF B!stage
  <2>7. stored.by \in Entries => stored.number # d /\ stored.number <= written'
    BY <1>0, <2>1 DEF BlobInv, BlobTypeOK, StoredFiles, d
  <2>8. BlobTypeOK'
    BY <1>0, <2>1, <2>3, <2>5, <2>6 DEF BlobTypeOK
  <2>9. BatchInv'
    BY <2>1, <2>3, <2>4, <2>5, <2>6 DEF BatchInv, Undoable
  <2>10. ~LinkedFrom(batch.directory)' /\ (Storing' => Storing)
    BY <2>3, <2>6, <2>7 DEF LinkedFrom, Storing
  <2> QED BY <2>1, <2>5, <2>6, <2>7, <2>8, <2>9, <2>10 DEF BlobInv
\* Steps of the batch alone.
<1>16. ASSUME UNCHANGED <<stored, recorded, putters, image, up, written>>, up,
              BlobTypeOK', BatchInv', Undoable' => Undoable /\ batch'.directory = batch.directory,
              \A c \in 1..MaxFiles : ~recorded /\ LinkedFrom(c) => directories'[c] = directories[c]
       PROVE  BlobInv'
  <2>1. (Storing' <=> Storing) /\ (\A c : LinkedFrom(c)' <=> LinkedFrom(c))
    BY <1>16 DEF Storing, LinkedFrom
  <2> QED BY <1>16, <2>1 DEF BlobInv, LinkedFrom
<1>17. CASE B!publish
  <2>1. batch' = [batch EXCEPT !.at = "checking"] /\ batch.at = "staged" /\ up
    BY <1>17 DEF B!publish, B!BatchStep, BlobInv
  <2>2. /\ batch' \in Batches /\ batch'.at = "checking" /\ batch'.directory = batch.directory
        /\ batch'.preexisted = batch.preexisted /\ batch'.linked = batch.linked
    BY <1>0, <2>1 DEF BlobTypeOK, Batches
  <2>3. UNCHANGED <<stored, directories, recorded, putters, image, up, written>>
    BY <1>17 DEF B!publish, B!disk
  <2>4. BlobTypeOK' /\ BatchInv'
    BY <1>0, <2>1, <2>2, <2>3 DEF BlobTypeOK, BatchInv, Undoable
  <2> QED BY <1>16, <2>1, <2>2, <2>3, <2>4 DEF Undoable
<1>18. ASSUME NEW e \in Entries, B!publish_check(e) PROVE BlobInv'
  <2> DEFINE m == batch.preexisted
             x == [y \in DOMAIN m \cup {e} |-> IF y = e THEN stored # B!NoFile ELSE m[y]]
  <2>1. batch' = [batch EXCEPT !.preexisted = x] /\ batch.at = "checking" /\ up
    BY <1>18 DEF B!publish_check, BlobInv
  <2>2. m \in Manifests
    BY <1>0 DEF BlobTypeOK, Batches
  <2>3. PICK S \in SUBSET Entries : m \in [S -> BOOLEAN]
    BY <2>2 DEF Manifests
  <2>4. x \in [S \cup {e} -> BOOLEAN]
    BY <2>3
  <2>5. x \in Manifests /\ DOMAIN x = DOMAIN m \cup {e} /\ x[e] = (stored # B!NoFile)
        /\ \A y \in DOMAIN m : y # e => x[y] = m[y]
    BY <2>4 DEF Manifests
  <2> HIDE DEF x
  <2>6. /\ batch' \in Batches /\ batch'.at = "checking" /\ batch'.directory = batch.directory
        /\ batch'.preexisted = x /\ batch'.linked = batch.linked
    BY <1>0, <2>1, <2>5 DEF BlobTypeOK, Batches
  <2>7. UNCHANGED <<stored, directories, recorded, putters, image, up, written>>
    BY <1>18 DEF B!publish_check, B!disk
  <2>8. \A y \in DOMAIN batch'.preexisted : batch'.preexisted[y] => stored # B!NoFile
    BY <1>0, <2>1, <2>5, <2>6 DEF BatchInv, Undoable
  <2>9. BlobTypeOK' /\ BatchInv'
    BY <1>0, <2>1, <2>6, <2>7, <2>8 DEF BlobTypeOK, BatchInv, Undoable
  <2> QED BY <1>16, <2>1, <2>6, <2>7, <2>9 DEF Undoable
<1>19. CASE B!write_prepared_operation_manifest
  <2> DEFINE d == batch.directory  y == directories[d]
             x == [y EXCEPT !.manifest = batch.preexisted]
  <2>1. /\ batch' = [batch EXCEPT !.at = "linking"] /\ batch.at = "checking" /\ up
        /\ DOMAIN batch.preexisted = Entries
    BY <1>19 DEF B!write_prepared_operation_manifest, B!BatchStep, BlobInv
  <2>2. d \in 1..MaxFiles /\ y \in Directories /\ batch.preexisted \in Manifests
    BY <1>0, <2>1 DEF BatchInv, BlobTypeOK, Batches
  <2>3. directories' = [directories EXCEPT ![d] = x]
    BY <1>0, <1>19 DEF B!write_prepared_operation_manifest, BlobTypeOK
  <2>4. x \in Directories /\ x.manifest = batch.preexisted /\ x.files = y.files /\ x.exists = y.exists
    BY <2>2 DEF Directories
  <2> HIDE DEF x
  <2>5. /\ batch' \in Batches /\ batch'.at = "linking" /\ batch'.directory = d
        /\ batch'.preexisted = batch.preexisted /\ batch'.linked = batch.linked
    BY <1>0, <2>1 DEF BlobTypeOK, Batches
  <2>6. directories' \in [1..MaxFiles -> Directories] /\ directories'[d] = x
        /\ \A c \in (1..MaxFiles) \ {d} : directories'[c] = directories[c]
    BY <1>0, <2>2, <2>3, <2>4 DEF BlobTypeOK
  <2>7. UNCHANGED <<stored, recorded, putters, image, up, written>>
    BY <1>19 DEF B!write_prepared_operation_manifest
  <2>8. BlobTypeOK'
    BY <1>0, <2>5, <2>6, <2>7 DEF BlobTypeOK
  <2>9. BatchInv'
    BY <1>0, <2>1, <2>2, <2>4, <2>5, <2>6, <2>7 DEF BatchInv, Undoable
  <2>10. ~recorded => ~LinkedFrom(d)
    <3>1. y.manifest = B!NoManifest
      BY <1>0, <2>1 DEF BatchInv
    <3> QED BY <3>1 DEF BlobInv, LinkedFrom
  <2> QED BY <1>16, <2>1, <2>5, <2>6, <2>7, <2>8, <2>9, <2>10 DEF Undoable, LinkedFrom
<1>20. ASSUME NEW e \in Entries, B!publish_link(e) PROVE BlobInv'
  <2> DEFINE d == batch.directory
  <2>1. /\ batch.at = "linking" /\ batch' = [batch EXCEPT !.linked = @ \cup {e}] /\ up
        /\ stored' = IF directories[d].manifest[e] \/ stored # B!NoFile THEN stored ELSE B!FileOf(e)
    BY <1>20 DEF B!publish_link, B!Directory, BlobInv
  <2>2. /\ batch' \in Batches /\ batch'.at = "linking" /\ batch'.directory = d
        /\ batch'.preexisted = batch.preexisted /\ batch'.linked = batch.linked \cup {e}
    BY <1>0, <2>1 DEF BlobTypeOK, Batches
  <2>3. UNCHANGED <<directories, recorded, putters, image, up, written>>
    BY <1>20 DEF B!publish_link
  <2>4. d \in 1..MaxFiles /\ d <= written /\ directories[d].exists
        /\ e \in DOMAIN directories[d].manifest
        /\ directories[d].manifest = batch.preexisted
    BY <1>0, <2>1 DEF BatchInv, Undoable
  <2>5. directories[d].manifest[e] => stored # B!NoFile
    BY <1>0, <2>1, <2>4 DEF BatchInv, Undoable
  <2>6. CASE stored # B!NoFile
    <3>1. stored' = stored
      BY <2>1, <2>6
    <3>2. BlobTypeOK' /\ BatchInv'
      BY <1>0, <2>1, <2>2, <2>3, <2>6, <3>1 DEF BlobTypeOK, BatchInv, Undoable
    <3> QED BY <1>16, <2>1, <2>2, <2>3, <3>1, <3>2 DEF Undoable
  <2>7. CASE stored = B!NoFile
    <3>1. stored' = [by |-> e, number |-> d] /\ ~directories[d].manifest[e]
      BY <2>1, <2>5, <2>7 DEF B!FileOf
    <3>2. stored'.by = e /\ stored'.number = d /\ stored' \in StoredFiles
      BY <2>4, <3>1 DEF StoredFiles
    <3>3. stored' # B!NoFile
      BY <3>2 DEF OwnFiles
    <3>4. ~recorded /\ ~Storing
      BY <2>7 DEF BlobInv
    <3>5. BlobTypeOK'
      BY <1>0, <2>2, <2>3, <3>2 DEF BlobTypeOK
    <3>6. BatchInv'
      BY <1>0, <2>1, <2>2, <2>3, <3>3 DEF BatchInv, Undoable
    <3>7. ~Storing' /\ ~recorded'
      BY <2>3, <3>4 DEF Storing
    <3> QED BY <2>1, <2>3, <2>4, <3>1, <3>2, <3>5, <3>6, <3>7 DEF BlobInv
  <2> QED BY <2>6, <2>7
<1>21. CASE B!commit
  <2>1. /\ batch.at = "linking" /\ batch' = [batch EXCEPT !.at = "committed"] /\ up
        /\ recorded' = TRUE /\ batch.linked = Entries
    BY <1>21 DEF B!commit, B!BatchStep, BlobInv
  <2>2. /\ batch' \in Batches /\ batch'.at = "committed" /\ batch'.directory = batch.directory
    BY <1>0, <2>1 DEF BlobTypeOK, Batches
  <2>3. UNCHANGED <<stored, directories, putters, image, up, written>>
    BY <1>21 DEF B!commit, B!disk
  <2>4. stored # B!NoFile
    BY <1>0, <2>1 DEF BatchInv, B!BlobStoreConstants
  <2>5. BlobTypeOK' /\ BatchInv'
    BY <1>0, <2>1, <2>2, <2>3 DEF BlobTypeOK, BatchInv, Undoable
  <2> QED BY <2>1, <2>2, <2>3, <2>4, <2>5 DEF BlobInv, Undoable
<1>22. CASE B!drop
  <2> DEFINE d == batch.directory
  <2>1. /\ Undoable /\ batch' = [batch EXCEPT !.at = "cleaning"] /\ up
        /\ stored' = IF B!undone(directories[d].manifest, d) THEN B!NoFile ELSE stored
    BY <1>22 DEF B!drop, B!BatchStep, B!Directory, Undoable, BlobInv
  <2>2. /\ batch' \in Batches /\ batch'.at = "cleaning" /\ batch'.directory = d
    BY <1>0, <2>1 DEF BlobTypeOK, Batches
  <2>3. UNCHANGED <<directories, recorded, putters, image, up, written>>
    BY <1>22 DEF B!drop
  <2>4. B!undone(directories[d].manifest, d) => LinkedFrom(d)
    <3> SUFFICES ASSUME B!undone(directories[d].manifest, d) PROVE LinkedFrom(d)
      OBVIOUS
    <3>1. PICK e \in DOMAIN directories[d].manifest : stored = [by |-> e, number |-> d]
      BY DEF B!undone
    <3>2. DOMAIN directories[d].manifest \subseteq Entries
      BY <1>0, <2>1 DEF BlobTypeOK, BatchInv, Undoable, Directories, Manifests
    <3> QED BY <3>1, <3>2 DEF LinkedFrom
  <2>5. LinkedFrom(d) /\ ~recorded => B!undone(directories[d].manifest, d)
    BY <1>0 DEF BlobInv, BlobTypeOK, LinkedFrom, B!undone
  <2>6. LinkedFrom(d) => ~recorded /\ ~Storing
    BY <2>1 DEF BlobInv
  <2>7. stored' \in StoredFiles /\ (stored' # stored => stored' = B!NoFile /\ LinkedFrom(d))
    BY <1>0, <2>1, <2>4 DEF BlobTypeOK
  <2>8. BlobTypeOK'
    BY <1>0, <2>2, <2>3, <2>7 DEF BlobTypeOK
  <2>9. ~recorded => ~LinkedFrom(batch.directory)'
    BY <2>1, <2>2, <2>5, <2>7 DEF LinkedFrom
  <2>10. BatchInv'
    BY <1>0, <2>1, <2>2, <2>3, <2>9 DEF BatchInv, Undoable
  <2>11. ~Undoable' /\ (Storing' <=> Storing)
    BY <2>2, <2>3 DEF Undoable, Storing
  <2> QED BY <2>1, <2>3, <2>6, <2>7, <2>8, <2>10, <2>11 DEF BlobInv
\* Files, a manifest or a directory go.
<1>23. ASSUME NEW d \in 1..MaxFiles, B!Cleaned(d)
       PROVE  /\ directories' \in [1..MaxFiles -> Directories]
              /\ \A c \in (1..MaxFiles) \ {d} : directories'[c] = directories[c]
  <2> DEFINE y == directories[d]
  <2>1. y \in Directories
    BY <1>0 DEF BlobTypeOK
  <2>2. PICK x \in Directories : directories' = [directories EXCEPT ![d] = x]
    <3>1. ASSUME NEW g \in y.files, directories' = [directories EXCEPT ![d].files = @ \ {g}]
          PROVE  \E x \in Directories : directories' = [directories EXCEPT ![d] = x]
      <4> DEFINE z == [y EXCEPT !.files = @ \ {g}]
      <4>1. directories' = [directories EXCEPT ![d] = z]
        BY <1>0, <3>1 DEF BlobTypeOK
      <4> HIDE DEF y
      <4>2. z \in Directories
        BY <2>1 DEF Directories
      <4> QED BY <4>1, <4>2
    <3>2. ASSUME directories' = [directories EXCEPT ![d].manifest = B!NoManifest]
          PROVE  \E x \in Directories : directories' = [directories EXCEPT ![d] = x]
      <4> DEFINE z == [y EXCEPT !.manifest = B!NoManifest]
      <4>1. directories' = [directories EXCEPT ![d] = z]
        BY <1>0, <3>2 DEF BlobTypeOK
      <4> HIDE DEF y
      <4>2. z \in Directories
        BY <2>1 DEF Directories
      <4> QED BY <4>1, <4>2
    <3> QED BY <1>23, <3>1, <3>2 DEF B!Cleaned
  <2> QED BY <1>0, <2>2 DEF BlobTypeOK
<1>24. CASE B!cleanup
  <2> DEFINE d == batch.directory
  <2>1. batch.at \in {"committed", "cleaning"} /\ B!Cleaned(d) /\ d \in 1..MaxFiles /\ up
    BY <1>0, <1>24 DEF B!cleanup, BatchInv, BlobInv
  <2>2. /\ directories' \in [1..MaxFiles -> Directories]
        /\ \A c \in (1..MaxFiles) \ {d} : directories'[c] = directories[c]
    BY <1>23, <2>1
  <2>3. UNCHANGED <<stored, recorded, putters, image, batch, up, written>>
    BY <1>24 DEF B!cleanup, B!threads
  <2>4. BlobTypeOK' /\ BatchInv' /\ ~Undoable'
    BY <1>0, <2>1, <2>2, <2>3 DEF BlobTypeOK, BatchInv, Undoable, LinkedFrom
  <2>5. ~recorded => ~LinkedFrom(d)
    BY <1>0, <2>1 DEF BatchInv
  <2> QED BY <1>16, <2>1, <2>2, <2>3, <2>4, <2>5 DEF LinkedFrom
<1>25. CASE B!release
  <2>1. batch' \in Batches /\ batch'.at = "idle" /\ up
    BY <1>25 DEF B!release, BlobInv
  <2>2. UNCHANGED <<stored, directories, recorded, putters, image, up, written>>
    BY <1>25 DEF B!release, B!disk
  <2>3. BlobTypeOK' /\ BatchInv' /\ ~Undoable'
    BY <1>0, <2>1, <2>2 DEF BlobTypeOK, BatchInv, Undoable
  <2> QED BY <1>16, <2>1, <2>2, <2>3
<1>26. CASE B!Crash
  <2>1. /\ batch' \in Batches /\ batch'.at = "idle" /\ image' \in Writers /\ image'.at = "idle"
        /\ putters' \in [Putters -> Writers] /\ \A w \in Putters : putters'[w].at = "idle"
        /\ UNCHANGED <<stored, directories, recorded, written>> /\ up' = FALSE
    BY <1>26 DEF B!Crash, B!disk
  <2>2. BlobTypeOK' /\ BatchInv' /\ ~Undoable' /\ ~Storing'
    BY <1>0, <2>1 DEF BlobTypeOK, BatchInv, Undoable, Storing
  <2> QED BY <2>1, <2>2 DEF BlobInv
<1>27. ASSUME NEW d \in 1..MaxFiles, B!recover_prepared_operation(d) PROVE BlobInv'
  <2>1. /\ UNCHANGED <<recorded, putters, image, batch, up, written>> /\ ~up
        /\ batch.at = "idle" /\ ~Storing
    BY <1>27 DEF B!recover_prepared_operation, B!threads, BlobInv, Storing
  <2>2. ~Storing' /\ ~Undoable'
    BY <2>1 DEF Storing, Undoable
  <2>3. CASE ~recorded /\ B!undone(directories[d].manifest, d)
    <3>1. stored' = B!NoFile /\ directories' = directories
      BY <1>27, <2>3 DEF B!recover_prepared_operation
    <3>2. BlobTypeOK' /\ BatchInv' /\ stored'.by \notin Entries
      BY <1>0, <2>1, <3>1 DEF BlobTypeOK, BatchInv, Undoable
    <3> QED BY <2>1, <2>2, <2>3, <3>2 DEF BlobInv
  <2>4. CASE ~(~recorded /\ B!undone(directories[d].manifest, d))
    <3>1. stored' = stored /\ B!Cleaned(d)
      BY <1>27, <2>4 DEF B!recover_prepared_operation
    <3>2. /\ directories' \in [1..MaxFiles -> Directories]
          /\ \A c \in (1..MaxFiles) \ {d} : directories'[c] = directories[c]
      BY <1>23, <3>1
    <3>3. BlobTypeOK' /\ BatchInv'
      BY <1>0, <2>1, <3>1, <3>2 DEF BlobTypeOK, BatchInv, Undoable
    <3>4. ~recorded => ~LinkedFrom(d)
      BY <1>0, <2>4 DEF BlobInv, BlobTypeOK, LinkedFrom, B!undone
    <3> QED BY <2>1, <2>2, <3>1, <3>2, <3>3, <3>4 DEF BlobInv, LinkedFrom
  <2> QED BY <2>3, <2>4
<1>28. CASE B!Open
  <2>1. UNCHANGED <<stored, directories, recorded, putters, image, batch, written>> /\ up' = TRUE
    BY <1>28 DEF B!Open, B!disk, B!threads
  <2>2. BlobTypeOK' /\ BatchInv'
    BY <1>0, <2>1 DEF BlobTypeOK, BatchInv, Undoable, LinkedFrom
  <2> QED BY <2>1, <2>2 DEF BlobInv, Undoable, LinkedFrom, Storing
<1> QED
  BY <1>3, <1>4, <1>5, <1>6, <1>8, <1>9, <1>10, <1>11, <1>12, <1>13, <1>14, <1>15, <1>17, <1>18,
     <1>19, <1>20, <1>21, <1>22, <1>24, <1>25, <1>26, <1>27, <1>28
  DEF B!Next

\* A recorded content has its file, and a batch that was not recorded leaves none once its
\* directory is gone: for any number of writers, of messages in a batch, of crashes and of
\* recoveries that are themselves cut off (publish, Drop for PreparedBlobOperation,
\* recover_prepared_operation, promote_staged).
THEOREM ContentsAreStoredAsRecorded == SpecProviders => []StoredAsRecorded
<1>1. BlobInv /\ [NextProviders]_allVars => BlobInv'
  <2> SUFFICES ASSUME BlobInv, [NextProviders]_allVars PROVE BlobInv'
    OBVIOUS
  <2>1. CASE UNCHANGED storeVars
    BY <2>1 DEF storeVars, BlobInv, BlobTypeOK, BatchInv, Undoable, LinkedFrom, Storing
  <2>2. CASE B!Next
    BY <2>2, BlobNext
  <2> QED BY <2>1, <2>2, BlobStep DEF allVars
<1> QED BY BlobInit, BlobSafe, <1>1, PTL DEF SpecProviders
-----------------------------------------------------------------------------
(* The local-only mode                                                     *)

\* The records as a running process reads them still are those the snapshot was made from.
Untouched == op.phase \in {"idle", "draining"} \/ (op.phase = "publishing" /\ op.index = 1)

Chained == M!load_chain(visible)
Agrees ==
    IF snapshot.health = "Persisted" THEN Chained /\ snapshot = M!PersistedSnapshot(visible[2])
    ELSE snapshot.local_only
\* ResolveUnknown finds the proof of the publication.
Proven == Chained /\ visible[2].request = op.request /\ visible[2].revision = op.request.expected + 1

ModeTypeOK ==
    /\ nonces \in Nat /\ sealed \in BOOLEAN /\ readsFail \in BOOLEAN
    /\ visible = [i \in 1..3 |-> visible[i]] /\ durable = [i \in 1..3 |-> durable[i]]
    /\ \A i \in 1..3 : visible[i] \in durable[i]
    /\ op.phase \in {"idle", "draining", "publishing", "unknown"}
    /\ (op = M!Idle) <=> (op.phase = "idle")
    /\ transitioning <=> op.phase # "idle"
    /\ op.phase # "idle" => op.request \in M!Requests
    /\ transition = "held" => prior = snapshot

\* A publication under way: its records, and how far they have come.
PublishingInv ==
    op.phase = "publishing" =>
        /\ op = [phase |-> "publishing", request |-> op.request, index |-> op.index,
                 target |-> op.target, uncertain |-> op.uncertain]
        /\ op.index \in 1..4
        /\ op.target = M!TargetRecords(op.request.expected, op.request, nonces)
        /\ \A i \in 1..3 : i < op.index => visible[i] = op.target[i]
        /\ op.index > 1 => durable[2] = {visible[2]}
        /\ op.index <= 3 => \A x \in durable[3] : x = M!Absent \/ x.nonce < nonces

\* The records of different publications do not make a chain.
NonceInv ==
    /\ \A x \in durable[3] : x = M!Absent \/ (x.nonce \in Nat /\ x.nonce <= nonces)
    /\ Chained => durable[2] = {visible[2]}

\* Whatever a power loss may leave of the active record is local-only.
SealInv ==
    sealed =>
        /\ \A x \in durable[2] : x = M!Absent \/ x.request.enabled
        /\ op.phase # "idle" => op.request.enabled
        /\ snapshot.local_only

RevisionInv ==
    /\ Untouched => snapshot.revision = M!current_revision(Chained)
    /\ op.phase = "publishing" =>
         /\ op.request.expected = snapshot.revision
         /\ op.uncertain = M!None => snapshot.revision = 0 /\ (op.index = 1 => ~Chained)
         /\ op.uncertain # M!None =>
              /\ op.uncertain.prior_revision = snapshot.revision
              /\ op.uncertain.target_records = op.target
              /\ \A i \in 1..3 : /\ op.uncertain.prior_records[i] # M!Absent
                                 /\ i >= op.index => visible[i] = op.uncertain.prior_records[i]
    /\ op.phase = "unknown" /\ ~Proven => snapshot.revision = M!current_revision(Chained)

ModeInv ==
    /\ ModeTypeOK /\ PublishingInv /\ NonceInv /\ SealInv
    /\ Untouched => Agrees
    /\ ~readsFail => RevisionInv

LEMMA ModeStep == NextProviders => M!Next \/ UNCHANGED modeVars
  BY DEF NextProviders, wardrobeVars, modeVars

LEMMA ModeSafe == ModeInv => ModeIsKept
<1> SUFFICES ASSUME ModeInv PROVE ModeIsKept
  OBVIOUS
<1>1. M!LocalOnlySticks
  BY DEF ModeInv, SealInv, M!LocalOnlySticks
<1>2. ~transitioning => Untouched
  BY DEF ModeInv, ModeTypeOK, Untouched
<1>3. M!SnapshotAgreesWithDisk
  BY <1>2 DEF ModeInv, Agrees, Chained, M!SnapshotAgreesWithDisk
<1>4. M!RevisionAgreement
  BY <1>2 DEF ModeInv, RevisionInv, Chained, M!RevisionAgreement
<1> QED BY <1>1, <1>3, <1>4 DEF ModeIsKept, M!ModeIsKept

LEMMA ModeRecords ==
    /\ M!Idle.phase = "idle"
    /\ \A r \in Nat : \A q, n :
         LET t == M!TargetRecords(r, q, n) IN
         /\ \A i \in 1..3 : t[i] # M!Absent
         /\ t[1].nonce = n /\ t[3].nonce = n
         /\ t[2].request = q /\ t[2].revision = r + 1
    /\ \A p, q : [phase |-> p, request |-> q].phase = p
    /\ \A a, b, c, d : [prior_revision |-> a, prior_records |-> b, target_records |-> c,
                        request |-> d] # M!None
    /\ \A q \in M!Requests : q.expected \in Nat
  BY ModeAssumption DEF M!Idle, M!TargetRecords, M!Absent, M!None, M!Requests, M!LocalOnlyConstants

\* The three records of one publication are a chain.
LEMMA TargetIsChain ==
    ASSUME NEW r \in Nat, NEW q, NEW n, NEW g,
           \A i \in 1..3 : g[i] = M!TargetRecords(r, q, n)[i]
    PROVE  M!load_chain(g)
<1> DEFINE t == M!TargetRecords(r, q, n)
<1>1. g[1] = t[1] /\ g[2] = t[2] /\ g[3] = t[3]
  OBVIOUS
<1>2. \A i \in 1..3 : g[i] # M!Absent
  BY ModeRecords
<1> QED BY <1>1, <1>2 DEF M!load_chain, M!TargetRecords

\* A chain is as much as three records.
LEMMA SameChain ==
    ASSUME NEW g, NEW h, \A i \in 1..3 : g[i] = h[i] PROVE M!load_chain(g) <=> M!load_chain(h)
<1>1. g[1] = h[1] /\ g[2] = h[2] /\ g[3] = h[3]
  OBVIOUS
<1> QED BY <1>1 DEF M!load_chain

LEMMA ModeInit == InitProviders => ModeInv
<1> SUFFICES ASSUME M!Init PROVE ModeInv
  BY DEF InitProviders
<1>1. /\ \A i \in 1..3 : visible[i] = M!Absent /\ durable[i] = {M!Absent}
      /\ visible = [i \in 1..3 |-> M!Absent] /\ durable = [i \in 1..3 |-> {M!Absent}]
  BY DEF M!Init, M!NoFiles
<1>2. ~Chained /\ ~M!load_chain(M!NoFiles)
  BY <1>1 DEF Chained, M!load_chain, M!NoFiles
<1>3. snapshot = M!FailClosedSnapshot(0) /\ ~transitioning /\ transition = "none" /\ op = M!Idle
      /\ uncertain = M!None /\ ~sealed
  BY <1>2 DEF M!Init, M!new, M!load
<1>4. ModeTypeOK
  <2>1. nonces \in Nat /\ sealed \in BOOLEAN /\ readsFail \in BOOLEAN /\ transition = "none"
    BY <1>3 DEF M!Init
  <2>2. op = M!Idle /\ op.phase = "idle" /\ ~transitioning
    BY <1>3, ModeRecords
  <2>3. /\ visible = [i \in 1..3 |-> visible[i]] /\ durable = [i \in 1..3 |-> durable[i]]
        /\ \A i \in 1..3 : visible[i] \in durable[i]
    BY <1>1
  <2> QED BY <2>1, <2>2, <2>3 DEF ModeTypeOK
<1>5. snapshot.health # "Persisted" /\ snapshot.local_only /\ snapshot.revision = 0
  BY <1>3 DEF M!FailClosedSnapshot
<1>6. M!current_revision(Chained) = 0
  BY <1>2, <1>3 DEF M!current_revision, M!recognized_records
<1> QED BY <1>1, <1>2, <1>3, <1>4, <1>5, <1>6, ModeRecords
        DEF ModeInv, PublishingInv, NonceInv, SealInv, RevisionInv, Agrees

\* As long as the acknowledgment is that of an earlier publication, there is no chain.
LEMMA TornIsNoChain ==
    ASSUME ModeInv, op.phase = "publishing", op.index <= 3, NEW g,
           g[1] = op.target[1], g[3] \in durable[3]
    PROVE  ~M!load_chain(g)
<1>1. op.target[1].nonce = nonces
  BY ModeRecords DEF ModeInv, ModeTypeOK, PublishingInv
<1>2. g[3] = M!Absent \/ g[3].nonce < nonces
  BY DEF ModeInv, PublishingInv
<1>3. nonces \in Nat
  BY DEF ModeInv, ModeTypeOK
<1> QED BY <1>1, <1>2, <1>3 DEF M!load_chain

\* The publication ends without an answer: what was there before is still recognized.
LEMMA UnknownIsRecognized ==
    ASSUME ModeInv, ~readsFail, op.phase = "publishing", op.index <= 3,
           uncertain' = op.uncertain, ~Chained', UNCHANGED snapshot,
           \A i \in 1..3 : visible'[i] = visible[i] \/ (i = op.index /\ visible'[i] = op.target[i])
    PROVE  snapshot'.revision = M!current_revision(Chained)'
<1> USE DEF M!current_revision, M!recognized_records
<1>1. RevisionInv
  BY DEF ModeInv
<1>2. CASE op.uncertain = M!None
  BY <1>1, <1>2 DEF RevisionInv
<1>3. CASE op.uncertain # M!None
  <2>1. \A i \in 1..3 : op.target[i] # M!Absent
    BY ModeRecords DEF ModeInv, ModeTypeOK, PublishingInv
  <2>2. \A i \in 1..3 : i < op.index \/ i >= op.index
    BY DEF ModeInv, PublishingInv
  <2>3. \A i \in 1..3 : visible'[i] \in {op.uncertain.prior_records[i], op.uncertain.target_records[i]}
                        /\ visible'[i] # M!Absent
    BY <1>1, <1>3, <2>1, <2>2 DEF ModeInv, PublishingInv, RevisionInv
  <2>4. M!recognized_records'
    BY <1>3, <2>3
  <2>5. op.uncertain.prior_revision = snapshot.revision
    BY <1>1, <1>3 DEF RevisionInv
  <2> QED BY <2>4, <2>5
<1> QED BY <1>2, <1>3

LEMMA ModeNext == ModeInv /\ M!Next => ModeInv'
<1> SUFFICES ASSUME ModeInv, M!Next PROVE ModeInv'
  OBVIOUS
<1> USE ModeRecords
<1>0. /\ ModeTypeOK /\ PublishingInv /\ NonceInv /\ SealInv /\ UNCHANGED readsFail
      /\ M!ReadOutcomes \subseteq BOOLEAN /\ (~readsFail => M!ReadOutcomes = {TRUE})
  BY DEF ModeInv, M!Next, M!ReadOutcomes
\* The worker threads and the waiting transition.
<1>1. CASE M!AuthorityStep
  <2>1. UNCHANGED <<snapshot, transitioning, visible, durable, uncertain, op, nonces, sealed>>
    BY <1>1 DEF M!AuthorityStep, M!acquire, M!acquire_local_cleanup, M!drop_lease, M!TakeLease,
                M!resume_transition, M!SpuriousDrainWakeup, M!storeVars
  <2>2. transition' = "held" => prior' = snapshot'
    BY <1>0, <1>1 DEF M!AuthorityStep, M!acquire, M!acquire_local_cleanup, M!drop_lease, M!TakeLease,
                M!resume_transition, M!SpuriousDrainWakeup, M!DrainLoop, ModeTypeOK
  <2>3. ModeTypeOK' /\ PublishingInv' /\ NonceInv' /\ SealInv'
    BY <1>0, <2>1, <2>2 DEF ModeTypeOK, PublishingInv, NonceInv, SealInv, Chained
  <2>4. (Untouched => Agrees)' /\ (~readsFail => RevisionInv)'
    BY <1>0, <2>1 DEF ModeInv, Untouched, Agrees, Chained, Proven, RevisionInv, M!current_revision,
                      M!recognized_records
  <2> QED BY <2>3, <2>4 DEF ModeInv
<1>2. ASSUME NEW request \in M!Requests, M!BeginSet(request) PROVE ModeInv'
  <2>1. /\ op.phase = "idle" /\ UNCHANGED <<snapshot, visible, durable, uncertain, nonces>>
        /\ transitioning' = TRUE /\ op' = [phase |-> "draining", request |-> request]
        /\ transition' = "held" => prior' = snapshot'
    BY <1>2 DEF M!BeginSet, M!begin_transition, M!DrainLoop, M!storeVars
  <2>2. op'.phase = "draining" /\ op'.request = request /\ op' # M!Idle
    BY <2>1
  <2>3. sealed' \in BOOLEAN /\ (sealed' => sealed /\ request.enabled)
    BY <1>2 DEF M!BeginSet
  <2>4. ModeTypeOK'
    BY <1>0, <2>1, <2>2, <2>3 DEF ModeTypeOK
  <2>5. PublishingInv' /\ NonceInv' /\ SealInv'
    BY <1>0, <2>1, <2>2, <2>3 DEF PublishingInv, NonceInv, SealInv, Chained
  <2>6. Untouched /\ (Agrees' <=> Agrees) /\ (Chained' <=> Chained)
    BY <2>1 DEF Untouched, Agrees, Chained
  <2>7. M!current_revision(Chained)' = M!current_revision(Chained)
    BY <2>1, <2>6 DEF M!current_revision, M!recognized_records
  <2> QED BY <1>0, <2>1, <2>2, <2>4, <2>5, <2>6, <2>7 DEF ModeInv, RevisionInv
\* The handler gives up before it has written.
<1>3. ASSUME M!Refuse, Untouched, UNCHANGED M!storeVars PROVE ModeInv'
  <2>1. /\ snapshot' = snapshot /\ transitioning' = FALSE /\ transition' = "none" /\ op' = M!Idle
        /\ UNCHANGED <<visible, durable, uncertain, nonces, sealed>>
    BY <1>0, <1>3 DEF M!Refuse, M!drop_transition, M!EndTransition, ModeTypeOK, M!storeVars
  <2>2. ModeTypeOK'
    BY <1>0, <2>1 DEF ModeTypeOK
  <2>3. PublishingInv' /\ NonceInv' /\ SealInv'
    BY <1>0, <2>1 DEF PublishingInv, NonceInv, SealInv, Chained
  <2>4. (Agrees' <=> Agrees) /\ (Chained' <=> Chained)
    BY <2>1 DEF Agrees, Chained
  <2>5. M!current_revision(Chained)' = M!current_revision(Chained)
    BY <2>1, <2>4 DEF M!current_revision, M!recognized_records
  <2> QED BY <1>0, <1>3, <2>1, <2>2, <2>3, <2>4, <2>5 DEF ModeInv, RevisionInv
\* A mode that the records prove is published.
<1>4. ASSUME M!publish(M!PersistedSnapshot(visible[2])), Chained, op' = M!Idle,
             UNCHANGED <<visible, durable, nonces>>, sealed' \in BOOLEAN,
             sealed' => /\ \A x \in durable[2] : x = M!Absent \/ x.request.enabled
                        /\ visible[2].request.enabled
      PROVE  ModeInv'
  <2>1. /\ snapshot' = M!PersistedSnapshot(visible[2]) /\ transitioning' = FALSE
        /\ transition' = "none"
    BY <1>4 DEF M!publish, M!EndTransition
  <2>2. /\ snapshot'.local_only = visible[2].request.enabled
        /\ snapshot'.revision = visible[2].revision /\ snapshot'.health = "Persisted"
    BY <2>1 DEF M!PersistedSnapshot
  <2>3. ModeTypeOK'
    BY <1>0, <1>4, <2>1 DEF ModeTypeOK
  <2>4. Chained'
    BY <1>4 DEF Chained
  <2>5. PublishingInv' /\ NonceInv' /\ SealInv'
    BY <1>0, <1>4, <2>2 DEF PublishingInv, NonceInv, SealInv, Chained
  <2>6. Agrees' /\ snapshot'.revision = M!current_revision(Chained)'
    BY <1>4, <2>1, <2>2, <2>4 DEF Agrees, M!current_revision
  <2> QED BY <1>4, <2>3, <2>5, <2>6 DEF ModeInv, RevisionInv
<1>5. ASSUME M!Succeed(M!PersistedSnapshot(visible[2])), Chained, visible[2].request = op.request,
             op.phase # "idle", UNCHANGED <<visible, durable>>
      PROVE  ModeInv'
  <2>1. /\ M!publish(M!PersistedSnapshot(visible[2])) /\ op' = M!Idle /\ UNCHANGED nonces
        /\ sealed' = (sealed \/ M!PersistedSnapshot(visible[2]).local_only)
    BY <1>5 DEF M!Succeed
  <2>2. op.request.enabled \in BOOLEAN
    BY <1>0, <1>5 DEF ModeTypeOK, M!Requests
  <2>3. sealed' \in BOOLEAN
    BY <2>1
  <2>4. sealed' => op.request.enabled
    <3>1. M!PersistedSnapshot(visible[2]).local_only = op.request.enabled
      BY <1>5 DEF M!PersistedSnapshot
    <3>2. sealed => op.request.enabled
      BY <1>0, <1>5 DEF SealInv
    <3> QED BY <2>1, <3>1, <3>2
  <2>5. durable[2] = {visible[2]}
    BY <1>0, <1>5 DEF NonceInv
  <2> QED BY <1>4, <1>5, <2>1, <2>3, <2>4, <2>5
<1>6. CASE M!SetHead
  <2>1. PICK readable \in M!ReadOutcomes :
          LET current == readable /\ Chained
              revision == M!current_revision(current)
          IN
          \/ /\ M!Replay(current) /\ M!Succeed(M!PersistedSnapshot(visible[2]))
             /\ UNCHANGED <<visible, durable>>
          \/ M!Refuse /\ UNCHANGED M!storeVars
          \/ /\ op.request.expected = revision
             /\ nonces' = nonces + 1
             /\ LET target == M!TargetRecords(revision, op.request, nonces + 1) IN
                op' = [phase |-> "publishing", request |-> op.request, index |-> 1,
                       target |-> target,
                       uncertain |->
                          IF current \/ M!recognized_records
                          THEN [prior_revision |-> revision, prior_records |-> visible,
                                target_records |-> target, request |-> op.request]
                          ELSE M!None]
             /\ UNCHANGED <<M!authorityVars, M!storeVars, sealed>>
    BY <1>6 DEF M!SetHead, Chained
  <2> DEFINE current == readable /\ Chained
             revision == M!current_revision(current)
  <2>2. op.phase = "draining" /\ Untouched
    BY <1>6 DEF M!SetHead, Untouched
  <2>3. CASE M!Replay(current) /\ M!Succeed(M!PersistedSnapshot(visible[2])) /\ UNCHANGED <<visible, durable>>
    BY <1>5, <2>2, <2>3 DEF M!Replay
  <2>4. CASE M!Refuse /\ UNCHANGED M!storeVars
    BY <1>3, <2>2, <2>4
  <2>5. CASE /\ op.request.expected = revision
             /\ nonces' = nonces + 1
             /\ LET target == M!TargetRecords(revision, op.request, nonces + 1) IN
                op' = [phase |-> "publishing", request |-> op.request, index |-> 1,
                       target |-> target,
                       uncertain |->
                          IF current \/ M!recognized_records
                          THEN [prior_revision |-> revision, prior_records |-> visible,
                                target_records |-> target, request |-> op.request]
                          ELSE M!None]
             /\ UNCHANGED <<M!authorityVars, M!storeVars, sealed>>
    <3> DEFINE t == M!TargetRecords(revision, op.request, nonces + 1)
               u == IF current \/ M!recognized_records
                    THEN [prior_revision |-> revision, prior_records |-> visible,
                          target_records |-> t, request |-> op.request]
                    ELSE M!None
    <3>1. op' = [phase |-> "publishing", request |-> op.request, index |-> 1, target |-> t,
                 uncertain |-> u]
      BY <2>5
    <3>2. /\ op.request.expected = revision /\ nonces' = nonces + 1
          /\ UNCHANGED <<snapshot, transitioning, transition, prior, visible, durable, uncertain, sealed>>
      BY <2>5 DEF M!authorityVars, M!storeVars
    <3>3. (u = M!None => ~current /\ ~M!recognized_records)
          /\ (u # M!None => /\ current \/ M!recognized_records
                            /\ u.prior_revision = revision /\ u.prior_records = visible
                            /\ u.target_records = t)
      OBVIOUS
    <3> HIDE DEF t, u, current, revision
    <3>4. /\ op'.phase = "publishing" /\ op'.request = op.request /\ op'.index = 1 /\ op'.target = t
          /\ op'.uncertain = u /\ op' # M!Idle
      BY <3>1
    <3>5. op.request \in M!Requests /\ nonces \in Nat
      BY <1>0, <2>2 DEF ModeTypeOK
    <3>6. ModeTypeOK'
      BY <1>0, <2>2, <3>2, <3>4, <3>5 DEF ModeTypeOK
    <3>7. t = M!TargetRecords(op'.request.expected, op'.request, nonces')
      BY <3>2, <3>4 DEF t
    <3>8. \A x \in durable[3] : x = M!Absent \/ (x.nonce \in Nat /\ x.nonce < nonces + 1)
      BY <1>0, <3>5 DEF NonceInv
    <3>9. PublishingInv'
      BY <3>1, <3>2, <3>4, <3>7, <3>8 DEF PublishingInv
    <3>10. NonceInv' /\ SealInv' /\ (Chained' <=> Chained) /\ (Agrees' <=> Agrees)
      BY <1>0, <2>2, <3>2, <3>4, <3>5, <3>8 DEF NonceInv, SealInv, Chained, Agrees
    <3>11. M!current_revision(Chained)' = M!current_revision(Chained)
      BY <3>2, <3>10 DEF M!current_revision, M!recognized_records
    <3>12. ASSUME ~readsFail PROVE RevisionInv'
      <4>1. (current <=> Chained) /\ revision = M!current_revision(Chained)
        <5>1. readable = TRUE
          BY <1>0, <3>12
        <5>2. current = Chained
          BY <5>1 DEF current, Chained, M!load_chain
        <5> QED BY <5>2 DEF revision
      <4>2. snapshot.revision = revision
        BY <2>2, <3>12, <4>1 DEF ModeInv, RevisionInv
      <4>3. u = M!None => snapshot.revision = 0 /\ ~Chained
        BY <3>3, <4>1, <4>2 DEF M!current_revision
      <4>4. u # M!None => \A i \in 1..3 : visible[i] # M!Absent
        BY <3>3, <4>1 DEF Chained, M!load_chain, M!recognized_records
      <4> QED BY <3>2, <3>3, <3>4, <3>10, <3>11, <4>1, <4>2, <4>3, <4>4 DEF RevisionInv
    <3> QED BY <1>0, <2>2, <3>6, <3>9, <3>10, <3>12 DEF ModeInv
  <2> QED BY <2>1, <2>3, <2>4, <2>5
\* One of the three records is replaced.
<1>7. ASSUME op.phase = "publishing", op.index <= 3, visible' = M!Renamed
      PROVE  /\ visible' = [i \in 1..3 |-> visible'[i]]
             /\ visible'[op.index] = op.target[op.index] /\ op.index \in 1..3
             /\ \A i \in 1..3 : i # op.index => visible'[i] = visible[i]
             /\ \A i \in 1..3 : i <= op.index => visible'[i] = op.target[i]
             /\ sealed => \A x \in {visible'[2], op.target[2]} : x = M!Absent \/ x.request.enabled
  <2>1. op.index \in 1..3
    BY <1>0, <1>7 DEF PublishingInv
  <2>2. visible' = [i \in 1..3 |-> IF i = op.index THEN op.target[i] ELSE visible[i]]
    BY <1>0, <1>7, <2>1 DEF ModeTypeOK, M!Renamed
  <2>3. \A i \in 1..3 : i <= op.index => visible'[i] = op.target[i]
    BY <1>0, <1>7, <2>1, <2>2 DEF PublishingInv
  <2>4. op.target[2].request = op.request
    BY <1>0, <1>7 DEF PublishingInv, ModeTypeOK
  <2>5. sealed => \A x \in {visible[2], op.target[2]} : x = M!Absent \/ x.request.enabled
    BY <1>0, <1>7, <2>4 DEF SealInv, ModeTypeOK
  <2> QED BY <2>1, <2>2, <2>3, <2>5
<1>8. CASE M!PublishRecord
  <2>1. /\ op.phase = "publishing" /\ op.index <= 3 /\ visible' = M!Renamed
        /\ durable' = [i \in 1..3 |-> {visible'[i]}]
        /\ op' = [op EXCEPT !.index = @ + 1]
        /\ UNCHANGED <<snapshot, transitioning, transition, prior, uncertain, nonces, sealed>>
    BY <1>8 DEF M!PublishRecord, M!authorityVars
  <2>2. /\ op' = [phase |-> "publishing", request |-> op.request, index |-> op.index + 1,
                  target |-> op.target, uncertain |-> op.uncertain]
    BY <1>0, <2>1 DEF PublishingInv
  <2>3. /\ op'.phase = "publishing" /\ op'.request = op.request /\ op'.index = op.index + 1
        /\ op'.target = op.target /\ op'.uncertain = op.uncertain /\ op' # M!Idle
    BY <2>2
  <2>4. ModeTypeOK'
    BY <1>0, <1>7, <2>1, <2>3 DEF ModeTypeOK
  <2>5. \A i \in 1..3 : i < op.index + 1 => i <= op.index
    BY <1>7, <2>1
  <2>6. op.index + 1 <= 3 => visible'[3] = visible[3] /\ visible[3] \in durable[3]
    BY <1>0, <1>7, <2>1 DEF ModeTypeOK
  <2>7. visible'[3] = M!Absent \/ (visible'[3].nonce \in Nat /\ visible'[3].nonce <= nonces)
    BY <1>0, <1>7, <2>1 DEF ModeTypeOK, NonceInv, PublishingInv
  <2>8. PublishingInv'
    BY <1>0, <1>7, <2>1, <2>2, <2>3, <2>5, <2>6 DEF PublishingInv
  <2>9. NonceInv'
    BY <2>1, <2>7 DEF NonceInv
  <2>10. SealInv'
    BY <1>0, <1>7, <2>1, <2>3 DEF SealInv
  <2>11. ~Untouched'
    BY <1>7, <2>1, <2>3 DEF Untouched
  <2>12. ~readsFail => RevisionInv'
    BY <1>7, <2>1, <2>3, <2>11 DEF ModeInv, RevisionInv
  <2> QED BY <1>0, <2>4, <2>8, <2>9, <2>10, <2>11, <2>12 DEF ModeInv
<1>9. CASE M!PublishRefused
  BY <1>3, <1>9 DEF M!PublishRefused, Untouched
\* The outcome of the publication is not known.
<1>10. ASSUME M!OutcomeUnknown, op.phase = "publishing",
              visible' = [i \in 1..3 |-> visible'[i]], durable' = [i \in 1..3 |-> durable'[i]],
              \A i \in 1..3 : visible'[i] \in durable'[i],
              NonceInv',
              sealed => \A x \in durable'[2] : x = M!Absent \/ x.request.enabled,
              ~readsFail /\ ~Proven' => snapshot'.revision = M!current_revision(Chained)'
       PROVE  ModeInv'
  <2>1. /\ uncertain' = op.uncertain /\ op' = [phase |-> "unknown", request |-> op.request]
        /\ UNCHANGED <<snapshot, transitioning, transition, prior, nonces, sealed>>
    BY <1>10 DEF M!OutcomeUnknown, M!authorityVars
  <2>2. op'.phase = "unknown" /\ op'.request = op.request /\ op' # M!Idle
    BY <2>1
  <2>3. ModeTypeOK'
    BY <1>0, <1>10, <2>1, <2>2 DEF ModeTypeOK
  <2>4. SealInv' /\ PublishingInv' /\ ~Untouched'
    BY <1>0, <1>10, <2>1, <2>2 DEF SealInv, PublishingInv, Untouched
  <2>5. ~readsFail => RevisionInv'
    BY <1>10, <2>2, <2>4 DEF RevisionInv
  <2> QED BY <1>0, <1>10, <2>3, <2>4, <2>5 DEF ModeInv
<1>11. CASE M!PublishFails
  <2>1. /\ op.phase = "publishing" /\ op.index <= 3 /\ M!OutcomeUnknown
        /\ UNCHANGED <<visible, durable>> /\ UNCHANGED <<snapshot, nonces>> /\ uncertain' = op.uncertain
    BY <1>11 DEF M!PublishFails, M!OutcomeUnknown, M!authorityVars
  <2>2. NonceInv' /\ (Chained' <=> Chained)
    BY <1>0, <2>1 DEF NonceInv, Chained
  <2>3. ASSUME ~readsFail PROVE snapshot'.revision = M!current_revision(Chained)'
    <3>1. CASE ~Chained
      BY <2>1, <2>2, <2>3, <3>1, UnknownIsRecognized
    <3>2. CASE Chained
      <4>1. op.index = 1
        <5>1. op.index # 1 => visible[1] = op.target[1] /\ visible[3] \in durable[3]
          BY <1>0, <2>1 DEF PublishingInv, ModeTypeOK
        <5> QED BY <2>1, <3>2, <5>1, TornIsNoChain DEF Chained
      <4>2. snapshot.revision = M!current_revision(Chained)
        BY <2>1, <2>3, <4>1 DEF ModeInv, RevisionInv, Untouched
      <4> QED BY <2>1, <2>2, <3>2, <4>2 DEF M!current_revision
    <3> QED BY <3>1, <3>2
  <2> QED BY <1>0, <1>10, <2>1, <2>2, <2>3 DEF ModeTypeOK, SealInv
<1>12. CASE M!PublishUnsynced
  <2> DEFINE k == op.index
  <2>1. /\ op.phase = "publishing" /\ k <= 3 /\ M!OutcomeUnknown /\ visible' = M!Renamed
        /\ durable' = [durable EXCEPT ![k] = @ \cup {op.target[k]}]
        /\ UNCHANGED <<snapshot, nonces>> /\ uncertain' = op.uncertain
        /\ op' = [phase |-> "unknown", request |-> op.request]
    BY <1>12 DEF M!PublishUnsynced, M!OutcomeUnknown, M!authorityVars
  <2>2. /\ k \in 1..3 /\ visible'[k] = op.target[k]
        /\ \A i \in 1..3 : i # k => visible'[i] = visible[i]
        /\ \A i \in 1..3 : i <= k => visible'[i] = op.target[i]
    BY <1>7, <2>1
  <2> HIDE DEF k
  <2>3. /\ durable' = [i \in 1..3 |-> IF i = k THEN durable[i] \cup {op.target[i]} ELSE durable[i]]
    BY <1>0, <2>1, <2>2 DEF ModeTypeOK
  <2>4. durable' = [i \in 1..3 |-> durable'[i]] /\ \A i \in 1..3 : visible'[i] \in durable'[i]
    BY <1>0, <2>2, <2>3 DEF ModeTypeOK
  <2>5. sealed => \A x \in durable'[2] : x = M!Absent \/ x.request.enabled
    BY <1>0, <1>7, <2>1, <2>3 DEF SealInv, k
  <2>6. op.target[3].nonce = nonces /\ op.target[2].request = op.request
        /\ op.target[2].revision = op.request.expected + 1 /\ nonces \in Nat
    BY <1>0, <2>1 DEF PublishingInv, ModeTypeOK
  <2>7. (\A x \in durable[3] : x = M!Absent \/ (x.nonce \in Nat /\ x.nonce <= nonces))'
    BY <1>0, <2>1, <2>3, <2>6 DEF NonceInv
  <2>8. k # 3 => ~Chained'
    <3>1. k # 3 => visible'[1] = op.target[1] /\ visible'[3] \in durable[3]
      BY <1>0, <2>2 DEF ModeTypeOK
    <3>2. k # 3 => ~M!load_chain(visible')
      BY <2>1, <3>1, TornIsNoChain DEF k
    <3> QED BY <3>2 DEF Chained
  <2>9. k = 3 => durable'[2] = {visible'[2]}
    <3>1. k = 3 => durable[2] = {visible[2]}
      BY <1>0, <2>1 DEF PublishingInv, k
    <3> QED BY <2>2, <2>3, <3>1
  <2>10. NonceInv'
    BY <2>7, <2>8, <2>9 DEF NonceInv
  <2>11. k = 3 => Proven'
    <3> SUFFICES ASSUME k = 3 PROVE Proven'
      OBVIOUS
    <3>1. \A i \in 1..3 : visible'[i] = M!TargetRecords(op.request.expected, op.request, nonces)[i]
      BY <1>0, <2>1, <2>2 DEF PublishingInv
    <3>2. op.request.expected \in Nat
      BY <1>0, <2>1 DEF ModeTypeOK
    <3>3. Chained'
      BY <3>1, <3>2, TargetIsChain DEF Chained
    <3>4. visible'[2] = op.target[2] /\ op'.request = op.request
      BY <2>1, <2>2
    <3> QED BY <2>6, <3>3, <3>4 DEF Proven
  <2>12. ~readsFail /\ k # 3 => snapshot'.revision = M!current_revision(Chained)'
    BY <2>1, <2>2, <2>8, UnknownIsRecognized DEF k
  <2> QED BY <1>7, <1>10, <2>1, <2>4, <2>5, <2>10, <2>11, <2>12 DEF k
<1>13. CASE M!VerifyPublished
  <2>1. op.phase = "publishing" /\ op.index = 4 /\ UNCHANGED <<visible, durable>>
    BY <1>13 DEF M!VerifyPublished
  <2>2. \A i \in 1..3 : visible[i] = op.target[i]
    BY <1>0, <2>1 DEF PublishingInv
  <2>3. op.target[2].request = op.request /\ op.target[2].revision = op.request.expected + 1
        /\ op.request.expected \in Nat
    BY <1>0, <2>1 DEF PublishingInv, ModeTypeOK
  <2>4. Chained
    BY <1>0, <2>1, <2>2, <2>3, TargetIsChain DEF PublishingInv, Chained
  <2>5. CASE M!Succeed(M!PersistedSnapshot(op.target[2]))
    BY <1>5, <2>1, <2>2, <2>3, <2>4, <2>5
  <2>6. CASE M!OutcomeUnknown
    <3>1. op'.request = op.request /\ UNCHANGED nonces
      BY <2>6 DEF M!OutcomeUnknown
    <3>2. Proven' /\ NonceInv'
      BY <1>0, <2>1, <2>2, <2>3, <2>4, <3>1 DEF Proven, Chained, NonceInv
    <3> QED BY <1>0, <1>10, <2>1, <2>6, <3>2 DEF ModeTypeOK, SealInv
  <2> QED BY <1>13, <2>5, <2>6 DEF M!VerifyPublished
<1>14. CASE M!ResolveUnknown
  <2>1. PICK readable \in M!ReadOutcomes :
          IF readable /\ Proven
          THEN M!publish(M!PersistedSnapshot(visible[2])) /\ uncertain' = M!None
          ELSE M!fail_closed /\ UNCHANGED uncertain
    BY <1>14 DEF M!ResolveUnknown, Proven, Chained
  <2>2. op.phase = "unknown" /\ op' = M!Idle /\ UNCHANGED <<visible, durable, nonces, sealed>>
    BY <1>14 DEF M!ResolveUnknown
  <2>3. CASE readable /\ Proven
    <3>1. Chained /\ visible[2] # M!Absent
      BY <2>3 DEF Proven, Chained, M!load_chain
    <3>2. sealed => /\ \A x \in durable[2] : x = M!Absent \/ x.request.enabled
                    /\ visible[2].request.enabled
      BY <1>0, <3>1 DEF SealInv, ModeTypeOK
    <3> QED BY <1>0, <1>4, <2>1, <2>2, <2>3, <3>1, <3>2 DEF ModeTypeOK
  <2>4. CASE ~(readable /\ Proven)
    <3>1. /\ snapshot' = M!FailClosedSnapshot(snapshot.revision) /\ transitioning' = FALSE
          /\ transition' = "none" /\ UNCHANGED uncertain
      BY <1>0, <2>1, <2>4 DEF M!fail_closed, M!EndTransition, ModeTypeOK
    <3>2. snapshot'.local_only = TRUE /\ snapshot'.revision = snapshot.revision
          /\ snapshot'.health # "Persisted"
      BY <3>1 DEF M!FailClosedSnapshot
    <3>3. ModeTypeOK'
      BY <1>0, <2>2, <3>1 DEF ModeTypeOK
    <3>4. PublishingInv' /\ NonceInv' /\ SealInv' /\ Agrees' /\ (Chained' <=> Chained)
      BY <1>0, <2>2, <3>2 DEF PublishingInv, NonceInv, SealInv, Agrees, Chained
    <3>5. M!current_revision(Chained)' = M!current_revision(Chained)
      BY <2>2, <3>1, <3>4 DEF M!current_revision, M!recognized_records
    <3>6. ASSUME ~readsFail PROVE RevisionInv'
      <4>1. ~Proven
        BY <1>0, <2>4, <3>6
      <4>2. snapshot.revision = M!current_revision(Chained)
        BY <2>2, <3>6, <4>1 DEF ModeInv, RevisionInv
      <4> QED BY <2>2, <3>2, <3>5, <4>2 DEF RevisionInv
    <3> QED BY <1>0, <3>3, <3>4, <3>6 DEF ModeInv
  <2> QED BY <2>3, <2>4
\* The application is started from what is left of the records.
<1>15. ASSUME NEW files, M!Reboot(files), files = [i \in 1..3 |-> files[i]],
              durable' = [i \in 1..3 |-> durable'[i]],
              \A i \in 1..3 : files[i] \in durable'[i] /\ durable'[i] \subseteq durable[i],
              M!load_chain(files) => durable'[2] = {files[2]}
       PROVE  ModeInv'
  <2>1. PICK readable \in M!ReadOutcomes : M!renew(M!load(files, readable))
    BY <1>15 DEF M!Reboot
  <2>2. /\ visible' = files /\ uncertain' = M!None /\ op' = M!Idle /\ UNCHANGED <<nonces, sealed>>
        /\ snapshot' = M!load(files, readable) /\ transitioning' = FALSE /\ transition' = "none"
    BY <1>15, <2>1 DEF M!Reboot, M!renew
  <2>3. ModeTypeOK'
    BY <1>0, <1>15, <2>2 DEF ModeTypeOK
  <2>4. Chained' <=> M!load_chain(files)
    BY <2>2 DEF Chained
  <2>5. PublishingInv' /\ NonceInv'
    BY <1>0, <1>15, <2>2, <2>4 DEF PublishingInv, NonceInv
  <2>6. CASE readable /\ M!load_chain(files)
    <3>1. snapshot' = M!PersistedSnapshot(files[2]) /\ files[2] # M!Absent
      BY <2>2, <2>6 DEF M!load, M!load_chain
    <3>2. /\ snapshot'.local_only = files[2].request.enabled
          /\ snapshot'.revision = files[2].revision /\ snapshot'.health = "Persisted"
      BY <3>1 DEF M!PersistedSnapshot
    <3>3. SealInv'
      BY <1>0, <1>15, <2>2, <3>1, <3>2 DEF SealInv
    <3>4. Agrees' /\ snapshot'.revision = M!current_revision(Chained)'
      BY <2>2, <2>4, <2>6, <3>1, <3>2 DEF Agrees, M!current_revision
    <3> QED BY <2>2, <2>3, <2>5, <3>3, <3>4 DEF ModeInv, RevisionInv
  <2>7. CASE ~(readable /\ M!load_chain(files))
    <3>1. snapshot' = M!FailClosedSnapshot(0)
      BY <2>2, <2>7 DEF M!load
    <3>2. snapshot'.local_only = TRUE /\ snapshot'.revision = 0 /\ snapshot'.health # "Persisted"
      BY <3>1 DEF M!FailClosedSnapshot
    <3>3. SealInv' /\ Agrees'
      BY <1>0, <1>15, <2>2, <3>2 DEF SealInv, Agrees
    <3>4. ASSUME ~readsFail PROVE snapshot'.revision = M!current_revision(Chained)'
      <4>1. readable
        BY <3>4 DEF M!ReadOutcomes
      <4>2. ~Chained'
        BY <2>4, <2>7, <4>1
      <4>3. ~M!recognized_records'
        BY <2>2 DEF M!recognized_records
      <4> QED BY <3>2, <4>2, <4>3 DEF M!current_revision
    <3> QED BY <1>0, <2>2, <2>3, <2>5, <3>3, <3>4 DEF ModeInv, RevisionInv
  <2> QED BY <2>6, <2>7
<1>16. CASE M!Crash
  BY <1>0, <1>15, <1>16 DEF M!Crash, ModeTypeOK, NonceInv, Chained
<1>17. CASE M!PowerLoss
  <2>1. PICK first \in durable[1], second \in durable[2], third \in durable[3] :
          M!Reboot(<<first, second, third>>) /\ durable' = <<{first}, {second}, {third}>>
    BY <1>17 DEF M!PowerLoss
  <2> DEFINE files == <<first, second, third>>
  <2>2. files = [i \in 1..3 |-> files[i]] /\ durable' = [i \in 1..3 |-> durable'[i]]
    BY <2>1
  <2>3. \A i \in 1..3 : i = 1 \/ i = 2 \/ i = 3
    OBVIOUS
  <2>4. /\ files[1] = first /\ files[2] = second /\ files[3] = third
        /\ durable'[1] = {first} /\ durable'[2] = {second} /\ durable'[3] = {third}
    BY <2>1
  <2>5. \A i \in 1..3 : files[i] \in durable'[i] /\ durable'[i] \subseteq durable[i]
    BY <2>3, <2>4
  <2>6. M!Reboot(files)
    BY <2>1
  <2> HIDE DEF files
  <2> QED BY <1>15, <2>2, <2>4, <2>5, <2>6
<1> QED
  BY <1>1, <1>2, <1>6, <1>8, <1>9, <1>11, <1>12, <1>13, <1>14, <1>16, <1>17 DEF M!Next

\* The mode the user was shown is kept: once local-only was confirmed, no failed write, crash
\* or power loss, at whichever of the three renames, undoes it; what counts as persisted is
\* what the records state; and the revision the application shows is the one the next
\* request must expect. For any number of requests, revisions, crashes and power losses
\* (set, publish, load, load_acknowledged_response, handle_set_local_only).
THEOREM ModesAreKept == SpecProviders => []ModeIsKept
<1>1. ModeInv /\ [NextProviders]_allVars => ModeInv'
  <2> SUFFICES ASSUME ModeInv, [NextProviders]_allVars PROVE ModeInv'
    OBVIOUS
  <2>1. CASE UNCHANGED modeVars
    BY <2>1 DEF modeVars, ModeInv, ModeTypeOK, PublishingInv, NonceInv, SealInv, RevisionInv, Untouched,
                Agrees, Chained, Proven, M!current_revision, M!recognized_records
  <2>2. CASE M!Next
    BY <2>2, ModeNext
  <2> QED BY <2>1, <2>2, ModeStep DEF allVars
<1> QED BY ModeInit, ModeSafe, <1>1, PTL DEF SpecProviders

-----------------------------------------------------------------------------
(* The decisions on items and their undo                                   *)

ItemRows == [status : {"absent", "active", "inactive"}, attributes : Nat]
EvidenceRows == [state : {"absent", "unresolved", "assigned", "rejected", "deferred"},
                 item : Items \cup {C!NoItem}]

\* The rows of a snapshot are as at a time when the catalog was rows_ and pieces_.
Captures(inv, rows_, pieces_) ==
    /\ DOMAIN inv.items \subseteq Items /\ DOMAIN inv.evidence \subseteq C!Evidence
    /\ \A i \in DOMAIN inv.items : inv.items[i] = rows_[i]
    /\ \A e \in DOMAIN inv.evidence : inv.evidence[e] = pieces_[e]

\* Nothing but what the snapshot covers has changed since, and the items it covers have no
\* evidence but that.
Covers(inv, rows_, pieces_) ==
    /\ \A i \in Items \ DOMAIN inv.items : items[i] = rows_[i]
    /\ \A e \in C!Evidence \ DOMAIN inv.evidence :
         evidence[e] = pieces_[e] /\ evidence[e].item \notin DOMAIN inv.items

\* All evidence of a snapshot is, or was, of its items, or it is one piece.
IsAbout(inv, pieces_) ==
    \/ \E e \in C!Evidence : DOMAIN inv.evidence \subseteq {e}
    \/ \A e \in DOMAIN inv.evidence :
         evidence[e].item \in DOMAIN inv.items \/ pieces_[e].item \in DOMAIN inv.items

\* What holds evidence exists.
HoldersExist(rows_, pieces_) ==
    \A e \in C!Evidence : pieces_[e].item # C!NoItem => rows_[pieces_[e].item] # C!NoRow

\* No row of an item is ever deleted.
RowsOutlast == \A i \in Items : before.items[i] # C!NoRow => items[i] # C!NoRow

DecisionTypes ==
    /\ items \in [Items -> ItemRows] /\ before.items \in [Items -> ItemRows]
    /\ evidence \in [C!Evidence -> EvidenceRows] /\ before.evidence \in [C!Evidence -> EvidenceRows]
    /\ before.on_evidence \in BOOLEAN
    /\ catalog_version \in Nat
    /\ head.kind \in {"none", "save", "decide", "merge", "split", "promote", "undo"}

\* Why undoing restores: the snapshot of a decision on items has all it has touched, and no
\* other evidence has come to its items.
DecisionInv ==
    /\ DecisionTypes /\ RowsOutlast
    /\ HoldersExist(items, evidence) /\ HoldersExist(before.items, before.evidence)
    /\ head.kind \notin {"none", "promote"} =>
         /\ Captures(head.inverse, before.items, before.evidence)
         /\ IsAbout(head.inverse, before.evidence)
         /\ ~ before.on_evidence => Covers(head.inverse, before.items, before.evidence)
    /\ head.kind = "decide" => before.on_evidence

LEMMA PieceSizes == ASSUME NEW U PROVE C!Cardinality(U) = Cardinality(U)
  BY DEF Cardinality, C!Cardinality

LEMMA PiecesAreFinite == \A E \in SUBSET C!Evidence : IsFiniteSet(E)
<1>1. IsFiniteSet(C!Evidence)
  BY CatalogAssumption, FS_Union DEF C!Evidence
<1> QED BY <1>1, FS_Subset

\* A part of what may be named may be named.
LEMMA PartsAreWithin ==
    ASSUME NEW E \in SUBSET C!Evidence, C!within_mutation(E), NEW F, F \subseteq E
    PROVE  C!within_mutation(F)
<1>1. IsFiniteSet(E) /\ Cardinality(E) <= MaxEvidence
  BY PiecesAreFinite, PieceSizes DEF C!within_mutation
<1>2. Cardinality(F) <= Cardinality(E) /\ Cardinality(F) \in Nat /\ Cardinality(E) \in Nat
  BY <1>1, FS_Subset, FS_CardinalityType
<1> QED BY <1>1, <1>2, PieceSizes, CatalogAssumption DEF C!within_mutation

LEMMA OneIsWithin ==
    ASSUME NEW e PROVE C!within_mutation({e})
<1>1. Cardinality({e}) = 1
  BY FS_Singleton
<1> QED BY <1>1, PieceSizes, CatalogAssumption DEF C!within_mutation

LEMMA DecisionInit == InitProviders => DecisionInv
<1> SUFFICES ASSUME InitProviders PROVE DecisionInv
  OBVIOUS
<1>1. C!Init
  BY DEF InitProviders
<1> QED
  BY <1>1
  DEF C!Init, C!NoRow, C!Unassigned, C!NoDecision, DecisionInv, DecisionTypes, RowsOutlast,
      ItemRows, EvidenceRows, HoldersExist

\* What every command writes of its decision.
LEMMA Step_save_item ==
    ASSUME DecisionInv, NEW i \in Items,
           NEW E \in SUBSET {e \in C!Evidence : evidence[e].state # "absent"}, C!save_item(i, E)
    PROVE  DecisionInv' /\ C!answer_is_valid'
<1> DEFINE S == E \cup C!item_evidence_ids(i)
<1>1. /\ head' = [kind |-> "save", inverse |-> C!capture_projection({i}, S), named |-> E]
      /\ items' = [items EXCEPT ![i] = C!Row(catalog_version')]
      /\ evidence' = [e \in C!Evidence |->
                        IF e \in E THEN C!Assigned(i)
                        ELSE IF evidence[e].item = i THEN C!Unassigned("unresolved")
                        ELSE evidence[e]]
      /\ before' = [items |-> items, evidence |-> evidence, on_evidence |-> FALSE]
      /\ catalog_version' = catalog_version + 1
      /\ \A e \in E : evidence[e].item \in {C!NoItem, i}
      /\ C!within_mutation(E)
  BY DEF C!save_item, C!append_decision, C!Remember, C!advance_revision, C!saved_evidence
<1>2. DecisionTypes
  BY DEF DecisionInv
<1>3. i # C!NoItem
  BY CatalogAssumption
<1>4. DecisionTypes'
  BY <1>1, <1>2 DEF DecisionTypes, ItemRows, EvidenceRows, C!Row, C!Assigned, C!Unassigned
<1>5. \A e \in C!Evidence : e \in C!item_evidence_ids(i) <=> evidence[e].item = i
  BY DEF C!item_evidence_ids
<1>6. /\ DOMAIN head'.inverse.items = {i} /\ DOMAIN head'.inverse.evidence = S
      /\ S \subseteq C!Evidence
      /\ head'.inverse.items[i] = items[i]
      /\ \A e \in S : head'.inverse.evidence[e] = evidence[e]
  BY <1>1 DEF C!capture_projection, C!item_evidence_ids
<1>7. HoldersExist(items, evidence)' /\ HoldersExist(before.items, before.evidence)'
  BY <1>1, <1>2 DEF DecisionInv, HoldersExist, DecisionTypes, C!Row, C!NoRow, C!Assigned,
                    C!Unassigned
<1> HIDE DEF S
<1>8. Captures(head.inverse, before.items, before.evidence)'
  BY <1>1, <1>6 DEF Captures
<1>9. IsAbout(head.inverse, before.evidence)'
  BY <1>1, <1>5, <1>6 DEF IsAbout, C!Assigned, S
<1>10. Covers(head.inverse, before.items, before.evidence)'
  <2>1. \A j \in Items \ {i} : items'[j] = items[j]
    BY <1>1, <1>2 DEF DecisionTypes
  <2>2. \A e \in C!Evidence \ S : evidence'[e] = evidence[e] /\ evidence'[e].item # i
    BY <1>1, <1>5 DEF S
  <2> QED BY <1>1, <1>6, <2>1, <2>2 DEF Covers
<1>11. RowsOutlast'
  BY <1>1, <1>2 DEF DecisionTypes, RowsOutlast, C!Row, C!NoRow
<1>12. DecisionInv'
  BY <1>1, <1>4, <1>11, <1>7, <1>8, <1>9, <1>10 DEF DecisionInv
<1>13. \A e \in C!Evidence : evidence'[e].item = i <=> e \in E
  BY <1>1, <1>3 DEF C!Assigned, C!Unassigned
<1>14. items'[i].status = "active"
  BY <1>1, <1>2 DEF DecisionTypes, C!Row
<1>15. C!answer_is_valid'
  <2>1. E = {e \in C!Evidence : evidence'[e].item = i}
    BY <1>13
  <2> QED BY <1>1, <1>6, <1>14, <2>1
          DEF C!answer_is_valid, C!decision_is_valid, C!item_is_valid, C!item_evidence_ids,
              C!Active, C!within_mutation
<1> QED BY <1>12, <1>15

LEMMA Step_decide_evidence ==
    ASSUME DecisionInv, NEW e \in C!Evidence, NEW verdict \in C!Verdicts,
           C!decide_evidence(e, verdict)
    PROVE  DecisionInv' /\ C!answer_is_valid'
<1> DEFINE affected == ({evidence[e].item} \cup {verdict.item}) \ {C!NoItem}
<1>1. /\ head' = [kind |-> "decide", inverse |-> C!capture_projection(affected, {e}), named |-> {e}]
      /\ items' = items /\ evidence' = [evidence EXCEPT ![e] = verdict]
      /\ before' = [items |-> items, evidence |-> evidence, on_evidence |-> TRUE]
      /\ catalog_version' = catalog_version + 1
      /\ verdict.item # C!NoItem => C!Active(verdict.item)
  BY DEF C!decide_evidence, C!append_decision, C!Remember, C!advance_revision
<1>2. DecisionTypes
  BY DEF DecisionInv
<1>3. /\ verdict \in EvidenceRows
      /\ (verdict.state = "assigned") = (verdict.item # C!NoItem)
      /\ verdict.item # C!NoItem => verdict.item \in Items
  BY CatalogAssumption DEF C!Verdicts, C!Assigned, C!Unassigned, EvidenceRows
<1>4. DecisionTypes'
  BY <1>1, <1>2, <1>3 DEF DecisionTypes
<1>5. affected \subseteq Items
  BY <1>2, <1>3 DEF DecisionTypes, EvidenceRows
<1> HIDE DEF affected
<1>6. HoldersExist(items, evidence)' /\ HoldersExist(before.items, before.evidence)'
  BY <1>1, <1>2, <1>3 DEF DecisionInv, HoldersExist, DecisionTypes, C!Active, C!NoRow
<1>7. Captures(head.inverse, before.items, before.evidence)'
  BY <1>1, <1>5 DEF Captures, C!capture_projection
<1>8. IsAbout(head.inverse, before.evidence)'
  BY <1>1 DEF IsAbout, C!capture_projection
<1>9. RowsOutlast'
  BY <1>1 DEF RowsOutlast
<1>10. DecisionInv'
  BY <1>1, <1>9, <1>4, <1>6, <1>7, <1>8 DEF DecisionInv
<1>11. evidence'[e] = verdict
  BY <1>1, <1>2 DEF DecisionTypes
<1>12. C!answer_is_valid'
  BY <1>1, <1>3, <1>11, OneIsWithin
  DEF C!answer_is_valid, C!decision_is_valid, C!evidence_is_valid, C!within_mutation
<1> QED BY <1>10, <1>12

\* The evidence of the items that a decision is about, before or after it.
Concerned ==
    {e \in C!Evidence : \/ evidence[e].item \in DOMAIN head'.inverse.items
                        \/ evidence'[e].item \in DOMAIN head'.inverse.items}

LEMMA Step_merge_items ==
    ASSUME DecisionInv, NEW target \in Items, NEW other \in Items,
           C!merge_items(target, {target, other})
    PROVE  DecisionInv' /\ (C!within_mutation(Concerned) => C!answer_is_valid')
<1> DEFINE I == {target, other}
           moved == {e \in C!Evidence : evidence[e].item \in I}
<1>1. /\ head' = [kind |-> "merge", inverse |-> C!capture_projection(I, moved), named |-> moved]
      /\ items' = [i \in Items |->
                     IF i = target THEN C!Row(catalog_version')
                     ELSE IF i \in I THEN [items[i] EXCEPT !.status = "inactive"]
                     ELSE items[i]]
      /\ evidence' = [e \in C!Evidence |->
                        IF e \in moved THEN [evidence[e] EXCEPT !.item = target]
                        ELSE evidence[e]]
      /\ before' = [items |-> items, evidence |-> evidence, on_evidence |-> FALSE]
      /\ catalog_version' = catalog_version + 1
  BY DEF C!merge_items, C!append_decision, C!Remember, C!advance_revision
<1>2. DecisionTypes
  BY DEF DecisionInv
<1>3. DecisionTypes'
  <2>1. items' \in [Items -> ItemRows]
    BY <1>1, <1>2 DEF DecisionTypes, ItemRows, C!Row
  <2>2. evidence' \in [C!Evidence -> EvidenceRows]
    BY <1>1, <1>2 DEF DecisionTypes, EvidenceRows
  <2> QED BY <1>1, <1>2, <2>1, <2>2 DEF DecisionTypes
<1>4. /\ DOMAIN head'.inverse.items = I /\ DOMAIN head'.inverse.evidence = moved
      /\ \A i \in I : head'.inverse.items[i] = items[i]
      /\ \A e \in moved : head'.inverse.evidence[e] = evidence[e]
  BY <1>1 DEF C!capture_projection
<1>5. /\ \A e \in moved : evidence'[e].item = target
      /\ \A e \in C!Evidence \ moved : evidence'[e] = evidence[e] /\ evidence[e].item \notin I
  BY <1>1, <1>2 DEF DecisionTypes, EvidenceRows
<1>6. HoldersExist(items, evidence)' /\ HoldersExist(before.items, before.evidence)'
  <2>1. \A i \in Items : items[i] # C!NoRow => items'[i] # C!NoRow
    BY <1>1, <1>2 DEF DecisionTypes, ItemRows, C!Row, C!NoRow
  <2>2. items'[target] # C!NoRow
    BY <1>1, <1>2 DEF DecisionTypes, C!Row, C!NoRow
  <2>3. \A e \in C!Evidence : evidence[e].item # C!NoItem => evidence[e].item \in Items
    BY <1>2 DEF DecisionTypes, EvidenceRows
  <2> HIDE DEF moved, I
  <2> QED BY <1>1, <1>5, <2>1, <2>2, <2>3 DEF DecisionInv, HoldersExist
<1>7. moved \subseteq C!Evidence /\ \A e \in moved : evidence[e].item \in I
  OBVIOUS
<1> HIDE DEF moved
<1>8. Captures(head.inverse, before.items, before.evidence)'
  BY <1>1, <1>4, <1>7 DEF Captures
<1>9. IsAbout(head.inverse, before.evidence)'
  BY <1>1, <1>4, <1>7 DEF IsAbout
<1>10. Covers(head.inverse, before.items, before.evidence)'
  <2>1. \A i \in Items \ I : items'[i] = items[i]
    BY <1>1
  <2> QED BY <1>1, <1>4, <1>5, <2>1 DEF Covers
<1>11. RowsOutlast'
  BY <1>1, <1>2 DEF DecisionTypes, ItemRows, RowsOutlast, C!Row, C!NoRow
<1>12. DecisionInv'
  BY <1>1, <1>11, <1>3, <1>6, <1>8, <1>9, <1>10 DEF DecisionInv
<1>13. ASSUME C!within_mutation(Concerned) PROVE C!answer_is_valid'
  <2>1. moved \subseteq Concerned
    BY <1>4, <1>7 DEF Concerned
  <2>2. \A F : F \subseteq Concerned => C!within_mutation(F)
    BY <1>13, PartsAreWithin DEF Concerned
  <2>3. \A i \in I : {e \in C!Evidence : evidence'[e].item = i} \subseteq Concerned
    BY <1>4 DEF Concerned
  <2> HIDE DEF I
  <2> QED BY <1>1, <1>4, <2>1, <2>2, <2>3
          DEF C!answer_is_valid, C!decision_is_valid, C!item_is_valid, C!item_evidence_ids,
              C!within_mutation
<1> QED BY <1>12, <1>13

LEMMA Step_split_item ==
    ASSUME DecisionInv, NEW i \in Items, NEW new \in Items, i # new,
           NEW E \in SUBSET C!item_evidence_ids(i), C!split_item(i, new, E)
    PROVE  DecisionInv' /\ (C!within_mutation(Concerned) => C!answer_is_valid')
<1> DEFINE divided == {e \in C!Evidence : evidence[e].item = i}
           I == {i, new}
<1>1. /\ head' = [kind |-> "split", inverse |-> C!capture_projection(I, divided),
                  named |-> divided]
      /\ items' = [items EXCEPT ![i] = C!Row(catalog_version'), ![new] = C!Row(catalog_version')]
      /\ evidence' = [e \in C!Evidence |->
                        IF e \in E THEN [evidence[e] EXCEPT !.item = new] ELSE evidence[e]]
      /\ before' = [items |-> items, evidence |-> evidence, on_evidence |-> FALSE]
      /\ catalog_version' = catalog_version + 1
      /\ items[new] = C!NoRow /\ C!within_mutation(divided) /\ E \subseteq divided
  BY DEF C!split_item, C!append_decision, C!Remember, C!advance_revision, C!item_evidence_ids
<1>2. DecisionTypes
  BY DEF DecisionInv
<1>3. DecisionTypes'
  <2>1. items' \in [Items -> ItemRows]
    BY <1>1, <1>2 DEF DecisionTypes, ItemRows, C!Row
  <2>2. evidence' \in [C!Evidence -> EvidenceRows]
    BY <1>1, <1>2 DEF DecisionTypes, EvidenceRows
  <2> QED BY <1>1, <1>2, <2>1, <2>2 DEF DecisionTypes
<1>4. /\ DOMAIN head'.inverse.items = I /\ DOMAIN head'.inverse.evidence = divided
      /\ \A j \in I : head'.inverse.items[j] = items[j]
      /\ \A e \in divided : head'.inverse.evidence[e] = evidence[e]
  BY <1>1 DEF C!capture_projection
\* Nobody held the new item.
<1>5. \A e \in C!Evidence : evidence[e].item # new
  BY <1>1, CatalogAssumption DEF DecisionInv, HoldersExist
<1>6. /\ divided \subseteq C!Evidence /\ \A e \in divided : evidence[e].item = i
      /\ \A e \in divided : evidence'[e].item \in I
      /\ \A e \in C!Evidence \ divided : evidence'[e] = evidence[e] /\ evidence[e].item \notin I
  BY <1>1, <1>2, <1>5 DEF DecisionTypes, EvidenceRows
<1>7. items'[i].status = "active" /\ items'[new].status = "active"
  BY <1>1, <1>2 DEF DecisionTypes, C!Row
<1>8. HoldersExist(items, evidence)' /\ HoldersExist(before.items, before.evidence)'
  <2>1. \A j \in Items : items[j] # C!NoRow => items'[j] # C!NoRow
    BY <1>1, <1>2 DEF DecisionTypes, ItemRows, C!Row, C!NoRow
  <2>2. \A j \in I : items'[j] # C!NoRow
    BY <1>7 DEF C!NoRow
  <2>3. \A e \in C!Evidence : evidence[e].item # C!NoItem => evidence[e].item \in Items
    BY <1>2 DEF DecisionTypes, EvidenceRows
  <2> HIDE DEF divided, I
  <2> QED BY <1>1, <1>6, <2>1, <2>2, <2>3 DEF DecisionInv, HoldersExist
<1> HIDE DEF divided
<1>9. Captures(head.inverse, before.items, before.evidence)'
  BY <1>1, <1>4, <1>6 DEF Captures
<1>10. IsAbout(head.inverse, before.evidence)'
  BY <1>1, <1>4, <1>6 DEF IsAbout
<1>11. Covers(head.inverse, before.items, before.evidence)'
  <2>1. \A j \in Items \ I : items'[j] = items[j]
    BY <1>1, <1>2 DEF DecisionTypes
  <2> QED BY <1>1, <1>4, <1>6, <2>1 DEF Covers
<1>12. RowsOutlast'
  BY <1>1, <1>2 DEF DecisionTypes, ItemRows, RowsOutlast, C!Row, C!NoRow
<1>13. DecisionInv'
  BY <1>1, <1>12, <1>3, <1>8, <1>9, <1>10, <1>11 DEF DecisionInv
<1>14. ASSUME C!within_mutation(Concerned) PROVE C!answer_is_valid'
  <2>1. \A F : F \subseteq Concerned => C!within_mutation(F)
    BY <1>14, PartsAreWithin DEF Concerned
  <2>2. \A j \in I : {e \in C!Evidence : evidence'[e].item = j} \subseteq Concerned
    BY <1>4 DEF Concerned
  <2>3. {e \in C!Evidence : evidence'[e].item \in I} = divided
    BY <1>6
  <2>4. {j \in I : C!Active(j)'} = I
    BY <1>7 DEF C!Active
  <2> HIDE DEF I
  <2> QED BY <1>1, <1>4, <2>1, <2>2, <2>3, <2>4
          DEF C!answer_is_valid, C!decision_is_valid, C!item_is_valid, C!item_evidence_ids,
              C!within_mutation
<1> QED BY <1>13, <1>14

LEMMA Step_promote_purchase ==
    ASSUME DecisionInv, NEW i \in Items, NEW e \in Purchased,
           C!promote_receipt_purchase_unit(i, e)
    PROVE  DecisionInv' /\ C!answer_is_valid'
<1>1. /\ head' = [kind |-> "promote", inverse |-> C!NoDecision.inverse, named |-> {e}]
      /\ items' = [items EXCEPT ![i] = C!Row(catalog_version')]
      /\ evidence' = [evidence EXCEPT ![e] = C!Assigned(i)]
      /\ before' = [items |-> items, evidence |-> evidence, on_evidence |-> FALSE]
      /\ catalog_version' = catalog_version + 1
  BY DEF C!promote_receipt_purchase_unit, C!append_decision, C!Remember, C!advance_revision
<1>2. DecisionTypes
  BY DEF DecisionInv
<1>3. DecisionTypes'
  <2>1. items' \in [Items -> ItemRows]
    BY <1>1, <1>2 DEF DecisionTypes, ItemRows, C!Row
  <2>2. evidence' \in [C!Evidence -> EvidenceRows]
    BY <1>1, <1>2 DEF DecisionTypes, EvidenceRows, C!Assigned
  <2> QED BY <1>1, <1>2, <2>1, <2>2 DEF DecisionTypes
<1>4. HoldersExist(items, evidence)' /\ HoldersExist(before.items, before.evidence)'
  BY <1>1, <1>2 DEF DecisionInv, HoldersExist, DecisionTypes, C!Row, C!NoRow, C!Assigned,
                    EvidenceRows
<1>5. C!answer_is_valid'
  BY <1>1, OneIsWithin DEF C!answer_is_valid, C!decision_is_valid, C!within_mutation
<1>6. RowsOutlast'
  BY <1>1, <1>2 DEF DecisionTypes, RowsOutlast, C!Row, C!NoRow
<1> QED BY <1>1, <1>6, <1>3, <1>4, <1>5 DEF DecisionInv

\* What undoing makes of each row and of each piece.
LEMMA Step_undo ==
    ASSUME DecisionInv, C!undo
    PROVE  DecisionInv' /\ (C!within_mutation(Concerned) => C!answer_is_valid')
<1> DEFINE inv == head.inverse
           I == DOMAIN inv.items
           E == DOMAIN inv.evidence
<1>1. /\ head' = [kind |-> "undo", inverse |-> C!capture_projection(I, E), named |-> E]
      /\ items' = C!restored_items(inv) /\ evidence' = C!restored_evidence(inv)
      /\ before' = [items |-> items, evidence |-> evidence, on_evidence |-> before.on_evidence]
      /\ catalog_version' = catalog_version + 1
      /\ head.kind \notin {"none", "promote"}
  BY DEF C!undo, C!append_decision, C!Remember, C!advance_revision
<1>2. DecisionTypes
  BY DEF DecisionInv
<1>3. /\ Captures(inv, before.items, before.evidence)
      /\ IsAbout(inv, before.evidence)
      /\ ~ before.on_evidence => Covers(inv, before.items, before.evidence)
  BY <1>1 DEF DecisionInv
<1>4. /\ I \subseteq Items /\ E \subseteq C!Evidence
      /\ \A i \in I : inv.items[i] = before.items[i]
      /\ \A e \in E : inv.evidence[e] = before.evidence[e]
  BY <1>3 DEF Captures
<1> HIDE DEF inv, I, E
<1>5. /\ items' \in [Items -> ItemRows]
      /\ \A i \in Items \ I : items'[i] = items[i]
      /\ \A i \in I : items'[i] = IF before.items[i] # C!NoRow THEN before.items[i]
                               ELSE IF items[i] = C!NoRow THEN C!NoRow
                               ELSE [items[i] EXCEPT !.status = "inactive"]
  <2>1. \A i \in Items : items'[i] = IF i \notin I THEN items[i]
                                  ELSE IF before.items[i] # C!NoRow THEN before.items[i]
                                  ELSE IF items[i] = C!NoRow THEN C!NoRow
                                  ELSE [items[i] EXCEPT !.status = "inactive"]
    BY <1>1, <1>4 DEF C!restored_items, I
  <2>2. items' = [i \in Items |-> items'[i]]
    BY <1>1 DEF C!restored_items
  <2>3. \A i \in Items : items'[i] \in ItemRows
    BY <1>2, <2>1 DEF DecisionTypes, ItemRows, C!NoRow
  <2> QED BY <1>4, <2>1, <2>2, <2>3
<1>6. /\ evidence' \in [C!Evidence -> EvidenceRows]
      /\ \A e \in E : evidence'[e] = before.evidence[e]
      /\ \A e \in C!Evidence \ E :
           evidence'[e] = IF evidence[e].item \in I THEN [evidence[e] EXCEPT !.item = C!NoItem]
                          ELSE evidence[e]
  <2>1. \A e \in C!Evidence : evidence'[e] = IF e \in E THEN before.evidence[e]
             ELSE IF evidence[e].item \in I THEN [evidence[e] EXCEPT !.item = C!NoItem]
             ELSE evidence[e]
    BY <1>1, <1>4 DEF C!restored_evidence, I, E
  <2>2. evidence' = [e \in C!Evidence |-> evidence'[e]]
    BY <1>1 DEF C!restored_evidence
  <2>3. \A e \in C!Evidence : evidence'[e] \in EvidenceRows
    <3>1. \A r \in EvidenceRows : [r EXCEPT !.item = C!NoItem] \in EvidenceRows
      BY DEF EvidenceRows
    <3>2. \A e \in C!Evidence : evidence[e] \in EvidenceRows /\ before.evidence[e] \in EvidenceRows
      BY <1>2 DEF DecisionTypes
    <3> QED BY <1>4, <2>1, <3>1, <3>2
  <2> QED BY <1>4, <2>1, <2>2, <2>3
<1>7. DecisionTypes'
  BY <1>1, <1>2, <1>5, <1>6 DEF DecisionTypes
<1>8. \A e \in C!Evidence : /\ evidence[e].item \in Items \cup {C!NoItem}
                            /\ before.evidence[e].item \in Items \cup {C!NoItem}
  BY <1>2 DEF DecisionTypes, EvidenceRows
<1>9. C!NoItem \notin I
  BY <1>4, CatalogAssumption
<1>10. \A i \in Items : items[i] # C!NoRow => items'[i] # C!NoRow
  <2>1. \A r \in ItemRows : [r EXCEPT !.status = "inactive"] # C!NoRow
    <3>1. \A r \in ItemRows : [r EXCEPT !.status = "inactive"].status = "inactive"
      BY DEF ItemRows
    <3>2. C!NoRow.status = "absent"
      BY DEF C!NoRow
    <3> QED BY <3>1, <3>2
  <2>2. \A i \in Items : items[i] \in ItemRows
    BY <1>2 DEF DecisionTypes
  <2> SUFFICES ASSUME NEW i \in Items, items[i] # C!NoRow PROVE items'[i] # C!NoRow
    OBVIOUS
  <2>3. CASE i \notin I
    BY <1>5, <2>3
  <2>4. CASE i \in I /\ before.items[i] # C!NoRow
    BY <1>5, <2>4
  <2>5. CASE i \in I /\ ~ (before.items[i] # C!NoRow)
    <3>1. items'[i] = [items[i] EXCEPT !.status = "inactive"]
      BY <1>5, <2>5, Zenon
    <3> QED BY <2>1, <2>2, <3>1
  <2> QED BY <2>3, <2>4, <2>5
<1>11. HoldersExist(items, evidence)' /\ HoldersExist(before.items, before.evidence)'
  <2>1. \A i \in Items : items[i] # C!NoRow => items'[i] # C!NoRow
    BY <1>10
  <2>2. ASSUME NEW e \in E, before.evidence[e].item # C!NoItem
        PROVE  items'[before.evidence[e].item] # C!NoRow
    <3> DEFINE i == before.evidence[e].item
    <3>1. i \in Items /\ before.items[i] # C!NoRow
      BY <1>4, <1>8, <2>2 DEF DecisionInv, HoldersExist
    <3>2. CASE i \in I
      BY <1>5, <3>1, <3>2
    <3>3. CASE i \notin I
      BY <2>1, <3>1 DEF DecisionInv, RowsOutlast
    <3> QED BY <3>2, <3>3
  <2>3. ASSUME NEW e \in C!Evidence \ E, evidence'[e].item # C!NoItem
        PROVE  items'[evidence'[e].item] # C!NoRow
    <3>1. evidence'[e] = evidence[e]
      BY <1>2, <1>6, <2>3 DEF DecisionTypes, EvidenceRows
    <3> QED BY <1>8, <2>1, <2>3, <3>1 DEF DecisionInv, HoldersExist
  <2>4. HoldersExist(items, evidence)'
    BY <1>6, <2>2, <2>3 DEF HoldersExist
  <2> QED BY <1>1, <2>4 DEF DecisionInv, HoldersExist
<1>12. RowsOutlast'
  BY <1>1, <1>10 DEF RowsOutlast
<1>13. /\ DOMAIN head'.inverse.items = I /\ DOMAIN head'.inverse.evidence = E
       /\ \A i \in I : head'.inverse.items[i] = items[i]
       /\ \A e \in E : head'.inverse.evidence[e] = evidence[e]
  BY <1>1 DEF C!capture_projection
<1>14. Captures(head.inverse, before.items, before.evidence)'
  BY <1>1, <1>4, <1>13 DEF Captures
<1>15. \/ \E e \in C!Evidence : E \subseteq {e}
       \/ \A e \in E : evidence[e].item \in I \/ before.evidence[e].item \in I
  BY <1>3 DEF IsAbout, I, E
<1>16. IsAbout(head.inverse, before.evidence)'
  BY <1>1, <1>6, <1>13, <1>15 DEF IsAbout
<1>17. ASSUME ~ before.on_evidence
       PROVE  /\ \A i \in Items \ I : items'[i] = before.items[i]
              /\ \A e \in C!Evidence \ E : /\ evidence'[e] = evidence[e]
                                            /\ evidence'[e] = before.evidence[e]
                                            /\ evidence'[e].item \notin I
  <2>1. /\ \A i \in Items \ I : items[i] = before.items[i]
        /\ \A e \in C!Evidence \ E : evidence[e] = before.evidence[e] /\ evidence[e].item \notin I
    BY <1>3, <1>17 DEF Covers, I, E
  <2> QED BY <1>5, <1>6, <2>1
<1>18. ~ before'.on_evidence => Covers(head.inverse, before.items, before.evidence)'
  BY <1>1, <1>5, <1>13, <1>17 DEF Covers
<1>19. DecisionInv'
  BY <1>1, <1>7, <1>11, <1>12, <1>14, <1>16, <1>18 DEF DecisionInv
<1>20. ASSUME C!within_mutation(Concerned) PROVE C!answer_is_valid'
  <2>1. \A F : F \subseteq Concerned => C!within_mutation(F)
    BY <1>20, PartsAreWithin DEF Concerned
  <2>2. C!within_mutation(E)
    <3>1. ASSUME NEW e, E \subseteq {e} PROVE C!within_mutation(E)
      <4>1. E = {} \/ E = {e}
        BY <3>1
      <4> QED BY <2>1, <4>1, OneIsWithin DEF Concerned
    <3>2. CASE \A e \in E : evidence[e].item \in I \/ before.evidence[e].item \in I
      <4>1. E \subseteq Concerned
        BY <1>4, <1>6, <1>13, <3>2 DEF Concerned
      <4> QED BY <2>1, <4>1
    <3> QED BY <1>15, <3>1, <3>2
  <2>3. \A i \in I : {e \in C!Evidence : evidence'[e].item = i} \subseteq Concerned
    BY <1>13 DEF Concerned
  <2> QED BY <1>1, <1>13, <2>1, <2>2, <2>3
          DEF C!answer_is_valid, C!decision_is_valid, C!item_is_valid, C!item_evidence_ids,
              C!within_mutation
<1> QED BY <1>19, <1>20

\* Undoing a decision on items restores what was before it.
LEMMA UndoIsInverse ==
    ASSUME DecisionInv, C!undo, ~ before.on_evidence
    PROVE  /\ evidence' = before.evidence
           /\ \A i \in Items :
                \/ items'[i] = before.items[i]
                \/ /\ ~(before.items[i].status = "active")
                   /\ items'[i].status = "inactive"
                   /\ \A e \in C!Evidence : evidence'[e].item # i
<1> DEFINE inv == head.inverse
           I == DOMAIN inv.items
           E == DOMAIN inv.evidence
<1>1. /\ items' = C!restored_items(inv) /\ evidence' = C!restored_evidence(inv)
      /\ head.kind \notin {"none", "promote"}
  BY DEF C!undo
<1>2. DecisionTypes /\ HoldersExist(before.items, before.evidence)
  BY DEF DecisionInv
<1>3. /\ I \subseteq Items /\ E \subseteq C!Evidence
      /\ \A i \in I : inv.items[i] = before.items[i]
      /\ \A e \in E : inv.evidence[e] = before.evidence[e]
      /\ \A i \in Items \ I : items[i] = before.items[i]
      /\ \A e \in C!Evidence \ E : evidence[e] = before.evidence[e] /\ evidence[e].item \notin I
  BY <1>1 DEF DecisionInv, Captures, Covers
<1> HIDE DEF inv, I, E
<1>4. \A e \in C!Evidence : evidence'[e] = before.evidence[e]
  BY <1>1, <1>3 DEF C!restored_evidence, I, E
<1>5. evidence' = before.evidence
  <2>1. evidence' = [e \in C!Evidence |-> evidence'[e]]
    BY <1>1 DEF C!restored_evidence
  <2>2. before.evidence = [e \in C!Evidence |-> before.evidence[e]]
    BY <1>2 DEF DecisionTypes
  <2> QED BY <1>4, <2>1, <2>2
<1>6. ASSUME NEW i \in Items
      PROVE  \/ items'[i] = before.items[i]
             \/ before.items[i] = C!NoRow /\ items'[i].status = "inactive"
  <2>1. items'[i] = IF i \notin I THEN items[i]
                    ELSE IF before.items[i] # C!NoRow THEN before.items[i]
                    ELSE IF items[i] = C!NoRow THEN C!NoRow
                    ELSE [items[i] EXCEPT !.status = "inactive"]
    BY <1>1, <1>3 DEF C!restored_items, I
  <2>2. items[i] # C!NoRow => [items[i] EXCEPT !.status = "inactive"].status = "inactive"
    BY <1>2 DEF DecisionTypes, ItemRows
  <2> QED BY <1>3, <2>1, <2>2
<1>7. ASSUME NEW i \in Items, before.items[i] = C!NoRow, NEW e \in C!Evidence
      PROVE  evidence'[e].item # i
  BY <1>2, <1>4, <1>7, CatalogAssumption DEF HoldersExist
<1> QED BY <1>5, <1>6, <1>7 DEF C!NoRow

LEMMA DecisionStep ==
    ASSUME DecisionInv, C!Next
    PROVE  DecisionInv' /\ (C!within_mutation(Concerned) => C!answer_is_valid')
<1>1. ASSUME NEW i \in Items,
             NEW E \in SUBSET {e \in C!Evidence : evidence[e].state # "absent"}, C!save_item(i, E)
      PROVE  DecisionInv' /\ C!answer_is_valid'
  BY <1>1, Step_save_item
<1>2. ASSUME NEW i \in Items, NEW e \in Purchased, C!promote_receipt_purchase_unit(i, e)
      PROVE  DecisionInv' /\ C!answer_is_valid'
  BY <1>2, Step_promote_purchase
<1>3. ASSUME NEW e \in C!Evidence, NEW verdict \in C!Verdicts, C!decide_evidence(e, verdict)
      PROVE  DecisionInv' /\ C!answer_is_valid'
  BY <1>3, Step_decide_evidence
<1>4. ASSUME NEW target \in Items, NEW other \in Items, C!merge_items(target, {target, other})
      PROVE  DecisionInv' /\ (C!within_mutation(Concerned) => C!answer_is_valid')
  BY <1>4, Step_merge_items
<1>5. ASSUME NEW i \in Items, NEW new \in Items, i # new,
             NEW E \in SUBSET C!item_evidence_ids(i), C!split_item(i, new, E)
      PROVE  DecisionInv' /\ (C!within_mutation(Concerned) => C!answer_is_valid')
  BY <1>5, Step_split_item
<1> QED BY <1>1, <1>2, <1>3, <1>4, <1>5, Step_undo DEF C!Next

LEMMA DecisionsMove == NextProviders => C!Next \/ UNCHANGED catalogVars
  BY DEF NextProviders, wardrobeVars, catalogVars

\* Only undoing writes a decision of that kind.
LEMMA OnlyUndoUndoes ==
    ASSUME C!Next, head'.kind = "undo" PROVE C!undo
<1>1. \A i, E : C!save_item(i, E) => head'.kind = "save"
  BY DEF C!save_item, C!append_decision
<1>2. \A i, e : C!promote_receipt_purchase_unit(i, e) => head'.kind = "promote"
  BY DEF C!promote_receipt_purchase_unit, C!append_decision
<1>3. \A e, verdict : C!decide_evidence(e, verdict) => head'.kind = "decide"
  BY DEF C!decide_evidence, C!append_decision
<1>4. \A target, I : C!merge_items(target, I) => head'.kind = "merge"
  BY DEF C!merge_items, C!append_decision
<1>5. \A i, new, E : C!split_item(i, new, E) => head'.kind = "split"
  BY DEF C!split_item, C!append_decision
<1> QED BY <1>1, <1>2, <1>3, <1>4, <1>5 DEF C!Next

LEMMA DecisionKept == DecisionInv /\ [NextProviders]_allVars => DecisionInv'
<1>1. DecisionInv /\ UNCHANGED catalogVars => DecisionInv'
  BY DEF catalogVars, DecisionInv, DecisionTypes, RowsOutlast, HoldersExist, Captures, Covers,
         IsAbout
<1>2. UNCHANGED allVars => UNCHANGED catalogVars
  BY DEF allVars, wardrobeVars
<1> QED BY <1>1, <1>2, DecisionStep, DecisionsMove

\* Undoing a decision on items brings the catalog back to what it was, however often it was
\* undone and redone, and a decision that is committed is answered (undo_impl,
\* validate_mutation).
THEOREM DecisionsStand == SpecProviders => DecisionsHold
<1>1. DecisionInv /\ [NextProviders]_allVars =>
        [head'.kind = "undo" /\ catalog_version' > catalog_version /\ ~before.on_evidence =>
           /\ evidence' = before.evidence
           /\ \A i \in Items :
                \/ items'[i] = before.items[i]
                \/ /\ ~(before.items[i].status = "active")
                   /\ items'[i].status = "inactive"
                   /\ \A e \in C!Evidence : evidence'[e].item # i]_C!vars
  <2> SUFFICES ASSUME DecisionInv, [NextProviders]_allVars, head'.kind = "undo",
                      ~ (UNCHANGED C!vars), ~ before.on_evidence
               PROVE  /\ evidence' = before.evidence
                      /\ \A i \in Items :
                           \/ items'[i] = before.items[i]
                           \/ /\ ~(before.items[i].status = "active")
                              /\ items'[i].status = "inactive"
                              /\ \A e \in C!Evidence : evidence'[e].item # i
    OBVIOUS
  <2>1. C!Next
    BY DecisionsMove DEF allVars, wardrobeVars, catalogVars, C!vars
  <2> QED BY <2>1, OnlyUndoUndoes, UndoIsInverse
<1>2. DecisionInv /\ [NextProviders]_allVars =>
        [LET I == DOMAIN head'.inverse.items
             about == {e \in C!Evidence : evidence[e].item \in I \/ evidence'[e].item \in I} IN
         catalog_version' > catalog_version /\ C!within_mutation(about) => C!answer_is_valid']_C!vars
  <2> SUFFICES ASSUME DecisionInv, [NextProviders]_allVars, ~ (UNCHANGED C!vars),
                      C!within_mutation(Concerned)
               PROVE  C!answer_is_valid'
    BY DEF Concerned
  <2>1. C!Next
    BY DecisionsMove DEF allVars, wardrobeVars, catalogVars, C!vars
  <2> QED BY <2>1, DecisionStep
<1>3. SpecProviders => C!UndoRestores
  BY <1>1, DecisionInit, DecisionKept, PTL DEF SpecProviders, C!UndoRestores
<1>4. SpecProviders => C!DecisionsAreAnswered
  BY <1>2, DecisionInit, DecisionKept, PTL DEF SpecProviders, C!DecisionsAreAnswered
<1> QED BY <1>3, <1>4 DEF DecisionsHold
=============================================================================
