---------------------------- MODULE StorageProofs ----------------------------
(***************************************************************************)
(* Proofs about the features of MCStorage, for every set of files, sources, *)
(* contents, requests and packages and any number of scans, faults and      *)
(* days.  A step of the composition is a step of one feature and leaves the *)
(* state of the others alone, so each has an inductive invariant of its own. *)
(***************************************************************************)
EXTENDS MCStorage, FiniteSetTheorems, WellFoundedInduction, TLAPS

-----------------------------------------------------------------------------
(* The import of a folder                                                  *)

RootRows == [status : {"none", "unavailable", "incomplete", "available"}, generation : Nat]
SourceRows == [status : {"none", "imported", "quarantined", "missing"}, blob : BOOLEAN,
               generation : Nat]
ImportCalls == [at : {"idle", "scanning", "recorded", "failing"}, left : SUBSET Files]

\* What the tables hold, and the call under way.
ImportTypeOK ==
    /\ root \in RootRows
    /\ sources \in [Files -> SourceRows]
    /\ call \in ImportCalls
    /\ listed \subseteq Files

\* A file that was listed and is done: recorded by this scan, with its evidence.
DoneByScan(f) ==
    /\ sources[f].generation = root.generation + 1
    /\ sources[f].status \in {"imported", "quarantined"}
    /\ sources[f].status = "imported" => f \in evidence

\* Why a finished scan can tell what it has seen by its number alone: the rows of an earlier
\* scan that failed hold its number, so that a scan with rows of that number never begins.
ImportInv ==
    /\ ImportTypeOK
    /\ call.at = "idle" => call = I!NoCall
    /\ call.at # "idle" => root.status = "incomplete"
    /\ call.left \subseteq listed
    /\ \A f \in Files : sources[f].status = "none" => sources[f].generation = 0
    /\ \A f \in Files : sources[f].status # "none" => sources[f].generation \in DOMAIN scans
    /\ call.at # "idle" =>
         \A f \in Files \ listed : sources[f].generation <= root.generation
    /\ call.at # "idle" => root.generation + 1 \in DOMAIN scans
    /\ \A f \in Files : sources[f].generation <= root.generation + 1
    /\ call.at \in {"scanning", "recorded"} =>
         \A f \in listed \ call.left : DoneByScan(f)
    /\ ReconciledAsScanned

LEMMA ImportStep == NextStorage => I!Next \/ UNCHANGED importVars
  BY DEF NextStorage, Delete, keepVars, importVars

LEMMA ImportInit == InitStorage => ImportInv
<1> SUFFICES ASSUME InitStorage PROVE ImportInv
  OBVIOUS
<1>1. I!Init
  BY DEF InitStorage
<1> QED BY <1>1 DEF I!Init, I!NoRoot, I!NoSource, I!NoCall, ImportInv, ImportTypeOK, RootRows,
             SourceRows, ImportCalls, ReconciledAsScanned, I!ReconciledAsScanned

\* One step per action.
LEMMA ImportNext == ImportInv /\ I!Next => ImportInv'
<1> SUFFICES ASSUME ImportInv, I!Next PROVE ImportInv'
  OBVIOUS
<1> USE DEF ImportInv, ImportTypeOK, RootRows, SourceRows, ImportCalls, DoneByScan, I!NoCall,
            I!NoRoot, I!NoSource, I!generation, I!rows, ReconciledAsScanned,
            I!ReconciledAsScanned
<1>1. CASE I!Mount
  BY <1>1 DEF I!Mount
<1>2. CASE I!refresh_unavailable
  BY <1>2 DEF I!refresh_unavailable
<1>3. CASE I!scan_fails
  BY <1>3 DEF I!scan_fails
<1>4. CASE I!import_folder
  BY <1>4 DEF I!import_folder
<1>5. CASE I!complete_scan
  BY <1>5 DEF I!complete_scan, I!unseen
<1>6. ASSUME NEW f \in Files, I!Change(f) PROVE ImportInv'
  BY <1>6 DEF I!Change
<1>7. ASSUME NEW f \in Files, I!record_materialized_source(f) PROVE ImportInv'
  BY <1>7 DEF I!record_materialized_source, I!Recorded
<1>8. ASSUME NEW f \in Files, I!ensure_evidence(f) PROVE ImportInv'
  BY <1>8 DEF I!ensure_evidence
<1>9. ASSUME NEW f \in Files, I!upsert_quarantine_source(f) PROVE ImportInv'
  <2>1. CASE sources[f].blob
    <3>1. /\ call.at = "scanning"
          /\ call' = [call EXCEPT !.at = "failing"]
          /\ UNCHANGED <<root, scans, sources, evidence, listed>>
      BY <1>9, <2>1 DEF I!upsert_quarantine_source
    <3> QED BY <3>1
  <2>2. CASE ~sources[f].blob
    <3>1. /\ call.at = "scanning" /\ f \in call.left
          /\ I!Recorded(f, "quarantined", FALSE)
          /\ call' = [call EXCEPT !.left = @ \ {f}]
          /\ UNCHANGED <<root, scans, evidence, listed>>
      BY <1>9, <2>2 DEF I!upsert_quarantine_source
    <3> QED BY <3>1 DEF I!Recorded
  <2> QED BY <2>1, <2>2
<1>10. CASE I!Fail
  BY <1>10 DEF I!Fail
<1>11. CASE I!execute_deletion
  BY <1>11 DEF I!execute_deletion
<1> QED
  BY <1>1, <1>2, <1>3, <1>4, <1>5, <1>6, <1>7, <1>8, <1>9, <1>10, <1>11 DEF I!Next

\* A root that is shown as available is what its last scan found, however many files come
\* and go and however many scans fail on the way (import_folder, complete_scan).
THEOREM RootsAreAsScanned == SpecStorage => []ReconciledAsScanned
<1>1. ImportInv /\ [NextStorage]_allVars => ImportInv'
  <2> SUFFICES ASSUME ImportInv, [NextStorage]_allVars PROVE ImportInv'
    OBVIOUS
  <2>1. CASE I!Next
    BY <2>1, ImportNext
  <2>2. CASE UNCHANGED importVars
    BY <2>2 DEF importVars, ImportInv, ImportTypeOK, RootRows, SourceRows, ImportCalls,
       DoneByScan, ReconciledAsScanned, I!ReconciledAsScanned
  <2> QED BY <2>1, <2>2, ImportStep DEF allVars, keepVars
<1> QED BY ImportInit, <1>1, PTL DEF SpecStorage, ImportInv

-----------------------------------------------------------------------------
(* Backups and what a deletion says about them                             *)

BackupPackages ==
    [id : Nat, reason : {"manual", "scheduled", "pre_upgrade", "pre_restore"}, created : Nat,
     holds : BOOLEAN, sound : BOOLEAN]

BackupTypeOK ==
    /\ now \in Nat /\ started \in Nat /\ made \in Nat
    /\ packages \subseteq BackupPackages /\ run \subseteq [id : Nat, expires : Nat]
    /\ target \in {"absent", "live", "deleted"}
    /\ step = "building" => hand \in BackupPackages

\* Why the reports of an execution stay true: the packages have ids of their own, so that a
\* report is about one package; a package that is being built is newer than all of them,
\* and what it holds is still there, as nothing is deleted meanwhile; and once a start is
\* past its cleanup, no package in place had expired when it began.
BackupInv ==
    /\ BackupTypeOK
    /\ started <= now
    /\ \A p \in packages : p.id <= made
    /\ \A p, q \in packages : p.id = q.id => p = q
    /\ step = "building" =>
         /\ hand.holds => target = "live"
         /\ hand.id <= made
         /\ \A p \in packages : p.id # hand.id
         /\ \A r \in run : r.id # hand.id
         /\ hand.reason # "pre_upgrade" => hand.created >= started
    /\ \A r \in run : r.id <= made
    /\ target # "deleted" => run = {}
    /\ \A r \in run : \A p \in packages : p.id = r.id => r.expires = K!Expires(p)
    /\ target = "deleted" => \A p \in packages : p.holds => K!Report(p) \in run
    /\ step = "up" \/ (step = "building" /\ hand.reason # "pre_upgrade") => K!Expired = {}

LEMMA BackupStep == NextStorage => K!Next \/ UNCHANGED backupVars
  BY DEF NextStorage, Delete, keepVars, backupVars

LEMMA BackupInit == InitStorage => BackupInv
<1> SUFFICES ASSUME InitStorage PROVE BackupInv
  OBVIOUS
<1>1. K!Init
  BY DEF InitStorage
<1> QED BY <1>1 DEF K!Init, K!Nothing, BackupInv, BackupTypeOK

LEMMA BackupSafe == BackupInv => RetainedAsShown
<1> SUFFICES ASSUME BackupInv, target = "deleted", step = "up",
                    NEW r \in run, r.expires <= started,
                    NEW p \in packages, p.id = r.id, p.sound
             PROVE FALSE
  BY DEF RetainedAsShown, K!RetainedAsShown, BackupInv
<1> QED BY DEF BackupInv, K!Expired

\* A day is over two or three days after the package was made.
LEMMA ExpiryIsLater ==
  ASSUME NEW p \in BackupPackages
  PROVE  K!Expires(p) \in Nat /\ K!Expires(p) > p.created
BY DEF K!Expires, K!retention_ms, BackupPackages

\* What building a package does to the state, with the time it is given.
LEMMA BuildStep ==
  ASSUME BackupInv, step # "building", NEW time \in Nat,
         NEW reason \in {"manual", "scheduled", "pre_upgrade", "pre_restore"},
         K!Build(reason, time), started' \in Nat, started' <= now,
         reason # "pre_upgrade" => time >= started' /\ started' = started /\ K!Expired = {}
  PROVE  BackupInv'
<1>1. /\ made' = made + 1 /\ step' = "building"
      /\ hand' = [id |-> made + 1, reason |-> reason, created |-> time,
                  holds |-> target = "live", sound |-> TRUE]
      /\ UNCHANGED <<now, target, packages, expired, plan, run>>
  BY DEF K!Build
<1>2. hand' \in BackupPackages /\ hand'.id = made + 1 /\ hand'.reason = reason
      /\ hand'.created = time /\ hand'.holds = (target = "live")
  BY <1>1 DEF BackupPackages, BackupInv, BackupTypeOK
<1>3. BackupTypeOK'
  BY <1>1, <1>2 DEF BackupInv, BackupTypeOK
<1>4. reason # "pre_upgrade" => K!Expired' = {}
  BY <1>1 DEF K!Expired
<1>5. \A p \in packages : p.id \in Nat /\ p.id # made + 1
  BY DEF BackupInv, BackupTypeOK, BackupPackages
<1>6. \A r \in run : r.id \in Nat /\ r.id <= made + 1 /\ r.id # made + 1
  BY DEF BackupInv, BackupTypeOK
<1>7. hand'.holds => target' = "live"
  BY <1>1, <1>2
<1>8. /\ \A p \in packages' : p.id <= made'
      /\ \A r \in run' : r.id <= made'
      /\ hand'.id <= made' /\ started' <= now'
  BY <1>1, <1>2, <1>5, <1>6 DEF BackupInv, BackupTypeOK, BackupPackages
<1>9. hand'.reason # "pre_upgrade" => hand'.created >= started'
  BY <1>2
<1> QED BY <1>1, <1>2, <1>3, <1>4, <1>5, <1>6, <1>7, <1>8, <1>9
        DEF BackupInv, K!Expires, K!Report

\* One step per action.
LEMMA BackupNext == BackupInv /\ K!Next => BackupInv'
<1> SUFFICES ASSUME BackupInv, K!Next PROVE BackupInv'
  OBVIOUS
<1>a. BackupTypeOK
  BY DEF BackupInv
<1>1. CASE K!open
  <2>1. CASE K!Build("pre_upgrade", now)
    BY <1>1, <2>1, <1>a, BuildStep DEF K!open, BackupTypeOK, BackupInv
  <2>2. CASE ~K!Build("pre_upgrade", now)
    BY <1>1, <2>2 DEF K!open, BackupInv, BackupTypeOK, K!Expires, K!Report
  <2> QED BY <2>1, <2>2
<1>2. CASE K!create_scheduled_if_due
  <2>1. CASE K!Build("scheduled", started)
    BY <1>2, <2>1, <1>a, BuildStep DEF K!create_scheduled_if_due, BackupTypeOK, BackupInv
  <2>2. CASE ~K!Build("scheduled", started)
    BY <1>2, <2>2
    DEF K!create_scheduled_if_due, BackupInv, BackupTypeOK, K!Expires, K!Report, K!Expired
  <2> QED BY <2>1, <2>2
<1>3. CASE K!create
  <2>1. PICK reason \in {"manual", "pre_restore"} : K!Build(reason, now)
    BY <1>3 DEF K!create
  <2> QED BY <1>3, <2>1, <1>a, BuildStep DEF K!create, BackupTypeOK, BackupInv
<1>4. CASE K!publish
  BY <1>4 DEF K!publish, BackupInv, BackupTypeOK, K!Expired, K!Report, K!Expires, K!retention_ms, BackupPackages
<1>5. CASE K!build_fails
  BY <1>5 DEF K!build_fails, BackupInv, BackupTypeOK, K!Nothing, K!Expired, K!Report, K!Expires
<1>6. ASSUME NEW p \in packages, K!cleanup_expired(p) PROVE BackupInv'
  BY <1>6 DEF K!cleanup_expired, BackupInv, BackupTypeOK, K!Report, K!Expires
<1>7. CASE K!remove_entry
  BY <1>7 DEF K!remove_entry, BackupInv, BackupTypeOK, K!Report, K!Expires
<1>8. CASE K!preview_deletion
  BY <1>8 DEF K!preview_deletion, BackupInv, BackupTypeOK, K!Report, K!Expires, K!Expired
<1>9. CASE K!execute_deletion
  <2>1. /\ step = "up" /\ step' = "up" /\ target' = "deleted"
        /\ run' = {K!Report(p) : p \in {q \in packages : q.holds}}
        /\ UNCHANGED <<now, packages, started, made, hand>>
    BY <1>9 DEF K!execute_deletion, K!plan_is_live, K!deletion_retention
  <2>2. \A p \in packages : K!Report(p) \in [id : Nat, expires : Nat] /\ K!Report(p).id = p.id
                             /\ K!Report(p).expires = K!Expires(p)
    BY <1>a, ExpiryIsLater DEF K!Report, BackupTypeOK, BackupPackages
  <2>3. \A r \in run' : \E p \in packages : p.holds /\ r = K!Report(p)
    BY <2>1
  <2>4. BackupTypeOK'
    BY <1>a, <2>1, <2>2, <2>3 DEF BackupTypeOK
  <2>5. \A p \in packages : K!Expires(p)' = K!Expires(p) /\ K!Report(p)' = K!Report(p)
    BY DEF K!Expires, K!Report
  <2>6. \A r \in run' : r.id <= made
    BY <2>2, <2>3 DEF BackupInv
  <2>7. ASSUME NEW r \in run', NEW p \in packages, p.id = r.id PROVE r.expires = K!Expires(p)
    BY <2>2, <2>3, <2>7 DEF BackupInv
  <2>8. K!Expired' = {}
    BY <2>1 DEF BackupInv, K!Expired, K!Expires
  <2>9. \A p \in packages : p.holds => K!Report(p) \in run'
    BY <2>1
  <2> QED BY <2>1, <2>4, <2>5, <2>6, <2>7, <2>8, <2>9 DEF BackupInv
<1>10. CASE K!Import
  BY <1>10 DEF K!Import, BackupInv, BackupTypeOK, K!Report, K!Expires, K!Expired
<1>11. CASE K!Tick
  BY <1>11 DEF K!Tick, BackupInv, BackupTypeOK, K!Report, K!Expires, K!Expired
<1>12. CASE K!Damage
  <2>1. PICK p \in packages :
          /\ packages' = (packages \ {p}) \cup {[p EXCEPT !.sound = FALSE]}
          /\ UNCHANGED <<now, target, expired, hand, step, started, plan, run, made>>
    BY <1>12 DEF K!Damage
  <2> DEFINE q == [p EXCEPT !.sound = FALSE]
  <2>2. /\ q \in BackupPackages /\ ~q.sound
        /\ q.id = p.id /\ q.holds = p.holds /\ q.created = p.created /\ q.reason = p.reason
    BY <1>a DEF BackupTypeOK, BackupPackages
  <2>3. packages' = (packages \ {p}) \cup {q}
    BY <2>1
  <2> HIDE DEF q
  <2>4. BackupTypeOK'
    BY <2>1, <2>2, <2>3, <1>a DEF BackupTypeOK
  <2>5. K!Expires(q) = K!Expires(p) /\ K!Report(q) = K!Report(p)
    BY <2>2 DEF K!Expires, K!Report
  <2>6. K!Expired' \subseteq K!Expired
    BY <2>1, <2>2, <2>3 DEF K!Expired
  <2>7. \A r \in packages' : r = q \/ (r \in packages /\ r.id # q.id)
    BY <2>2, <2>3 DEF BackupInv
  <2> QED BY <2>1, <2>2, <2>4, <2>5, <2>6, <2>7 DEF BackupInv, BackupTypeOK, K!Expires, K!Report
<1>13. CASE K!Stop
  BY <1>13 DEF K!Stop, BackupInv, BackupTypeOK, K!Report, K!Expires
<1> QED
  BY <1>1, <1>2, <1>3, <1>4, <1>5, <1>6, <1>7, <1>8, <1>9, <1>10, <1>11, <1>12, <1>13
  DEF K!Next

\* After a deletion the user knows which packages still hold what was deleted and until
\* when, and a start past that time lets no command in while one is there: for any number
\* of packages, days, damages and starts (deletion_retention_locked, cleanup_expired).
THEOREM RetentionIsAsShown == SpecStorage => []RetainedAsShown
<1>1. BackupInv /\ [NextStorage]_allVars => BackupInv'
  <2> SUFFICES ASSUME BackupInv, [NextStorage]_allVars PROVE BackupInv'
    OBVIOUS
  <2>1. CASE K!Next
    BY <2>1, BackupNext
  <2>2. CASE UNCHANGED backupVars
    BY <2>2 DEF backupVars, BackupInv, BackupTypeOK, K!Expired, K!Expires, K!Report
  <2> QED BY <2>1, <2>2, BackupStep DEF allVars, keepVars
<1> QED BY BackupInit, <1>1, BackupSafe, PTL DEF SpecStorage

-----------------------------------------------------------------------------
(* Hard deletion                                                           *)

Draining == pc \in {"drain", "keys", "complete"}

RunRows ==
    [state : {"none", "in_progress", "needs_attention", "complete"}, token : SUBSET Tokens,
     blobs : SUBSET Blobs, pending : SUBSET Blobs, keys : SUBSET {Enrollment}]
PlanRows ==
    [target : SUBSET (Sources \cup {Enrollment}), sources : SUBSET Sources,
     blobs : SUBSET Blobs, keys : SUBSET {Enrollment}, revision : Nat, fresh : BOOLEAN]

DeletionTypeOK ==
    /\ rows \subseteq Sources /\ linked \subseteq rows
    /\ revision \in Nat
    /\ trash \in [Requests -> SUBSET Blobs]
    /\ plans \in [Tokens -> PlanRows] /\ runs \in [Requests -> RunRows]
    /\ \A t \in Tokens : plans[t].fresh => plans[t].target # {}
    /\ pc = "import_record" => \E s \in Sources : op = {s} /\ Content[s] \in active
    /\ Draining => \E q \in Requests : op = {q} /\ Unfinished(q)

\* What a run knows of the files: it moves only what is on its list, and what it has struck
\* off is gone, unless it was imported again.
RunInv(q) ==
    /\ runs[q].pending \subseteq runs[q].blobs /\ trash[q] \subseteq runs[q].pending
    /\ ~Unfinished(q) => runs[q].pending = {}
    /\ Unfinished(q) => (runs[q].blobs \ runs[q].pending) \cap active \subseteq late

\* No record owns a blob on the list of an unfinished run, or the import that made it so
\* came late.
OwnsNothingOf(s, q) == Unfinished(q) /\ Content[s] \in runs[q].blobs => Content[s] \in late

\* An unfinished run has its plan, which no other can use: the revision has moved on.
PlanInv(q) ==
    Unfinished(q) => \E t \in Tokens :
       /\ runs[q].token = {t}
       /\ plans[t].target # {} /\ plans[t].revision < revision
       /\ plans[t].keys # {} /\ key => runs[q].keys # {}
       /\ \A r \in Requests : Unfinished(r) /\ t \in runs[r].token => r = q

DeletionInv ==
    /\ DeletionTypeOK
    /\ RecordsKeepTheirFiles
    /\ \A q \in Requests : RunInv(q) /\ PlanInv(q)
    /\ \A q \in Requests, s \in rows : OwnsNothingOf(s, q)
    /\ pc = "import_record" => \A q \in Requests, s \in op : OwnsNothingOf(s, q)

LEMMA DeletionStep == NextStorage => Next \/ UNCHANGED deletionVars
  BY DEF NextStorage, Delete

LEMMA DeletionInit == InitStorage => DeletionInv
<1> SUFFICES ASSUME Init PROVE DeletionInv
  BY DEF InitStorage
<1> USE DeletionAssumption
<1>1. DeletionTypeOK
  BY DEF Init, NoPlan, NoRun, DeletionTypeOK, RunRows, PlanRows, Draining
<1>2. \A q \in Requests : ~Unfinished(q) /\ runs[q].pending = {} /\ runs[q].blobs = {}
                          /\ trash[q] = {}
  BY DEF Init, NoRun, Unfinished
<1> QED
  BY <1>1, <1>2 DEF Init, DeletionInv, RecordsKeepTheirFiles, RunInv, PlanInv, OwnsNothingOf

LEMMA TheRun == ASSUME NEW q, op = {q} PROVE Run = q
  BY DEF Run

\* Nothing the invariant looks at depends on more than these.
LEMMA DeletionKept ==
  ASSUME DeletionInv, UNCHANGED <<rows, linked, revision, key, active, trash, plans, runs, late>>,
         DeletionTypeOK', pc' # "import_record"
  PROVE  DeletionInv'
  BY DEF DeletionInv, RecordsKeepTheirFiles, RunInv, PlanInv, OwnsNothingOf, Unfinished

\* The revision only moves on.
LEMMA PlanKept ==
  ASSUME DeletionInv, UNCHANGED <<key, plans, runs>>, revision' = revision + 1,
         NEW q \in Requests
  PROVE  PlanInv(q)'
<1> SUFFICES ASSUME Unfinished(q) PROVE PlanInv(q)'
  BY DEF PlanInv, Unfinished
<1>1. PICK t \in Tokens :
       /\ runs[q].token = {t}
       /\ plans[t].target # {} /\ plans[t].revision < revision
       /\ plans[t].keys # {} /\ key => runs[q].keys # {}
       /\ \A r \in Requests : Unfinished(r) /\ t \in runs[r].token => r = q
  BY DEF DeletionInv, PlanInv
<1>2. plans[t].revision \in Nat /\ revision \in Nat
  BY DEF DeletionInv, DeletionTypeOK, PlanRows
<1>3. plans'[t].revision < revision'
  BY <1>1, <1>2
<1> QED BY <1>1, <1>3 DEF PlanInv, Unfinished

\* The imports and decisions, which add records.
LEMMA DeletionImports ==
  ASSUME DeletionInv,
         \/ \E s \in Sources : import_put(s) \/ decide_evidence(s)
         \/ import_record \/ import_bump \/ import_fails
  PROVE  DeletionInv'
<1> USE DeletionAssumption DEF DeletionInv, DeletionTypeOK, Draining, Goto, catalog, disk, RunRows, PlanRows
<1>1. ASSUME NEW s \in Sources, import_put(s) PROVE DeletionInv'
  <2>1. /\ pc = "up" /\ pc' = "import_record" /\ op' = {s} /\ active' = active \cup {Content[s]}
        /\ UNCHANGED <<rows, linked, revision, key, trash, plans, runs>>
        /\ late \subseteq late' /\ late' \subseteq late \cup {Content[s]}
    BY <1>1 DEF import_put
  <2>2. \A q \in Requests : Unfinished(q) /\ Content[s] \in runs[q].blobs => Content[s] \in late'
    BY <1>1 DEF import_put
  <2>3. DeletionTypeOK'
    BY <2>1
  <2>4. \A q \in Requests : RunInv(q)'
    BY <2>1, <2>2 DEF RunInv, Unfinished
  <2>5. \A q \in Requests : PlanInv(q)'
    BY <2>1 DEF PlanInv, Unfinished
  <2> QED
    BY <2>1, <2>2, <2>3, <2>4, <2>5 DEF RecordsKeepTheirFiles, OwnsNothingOf, Unfinished
<1>2. ASSUME NEW s \in Sources, decide_evidence(s) PROVE DeletionInv'
  <2>1. /\ linked' \subseteq rows' /\ revision' = revision + 1
        /\ UNCHANGED <<rows, key, active, trash, plans, runs, pc, op, late>>
    BY <1>2 DEF decide_evidence
  <2>2. DeletionTypeOK'
    BY <2>1 DEF Unfinished
  <2>3. \A q \in Requests : PlanInv(q)'
    BY <2>1, PlanKept
  <2> QED
    BY <2>1, <2>2, <2>3 DEF RecordsKeepTheirFiles, OwnsNothingOf, Unfinished, RunInv
<1>3. CASE import_record
  <2>1. PICK s \in Sources : op = {s} /\ Content[s] \in active
    BY <1>3 DEF import_record
  <2>2. /\ pc = "import_record" /\ rows' = rows \cup {s} /\ pc' = "import_bump"
        /\ UNCHANGED <<linked, key, revision, active, trash, plans, runs, late>>
    BY <1>3, <2>1 DEF import_record
  <2>3. DeletionTypeOK'
    BY <2>2
  <2> QED
    BY <2>1, <2>2, <2>3 DEF RecordsKeepTheirFiles, OwnsNothingOf, Unfinished, RunInv, PlanInv
<1>4. CASE import_bump
  <2>1. /\ pc' = "up" /\ revision' = revision + 1
        /\ UNCHANGED <<rows, linked, key, active, trash, plans, runs, late>>
    BY <1>4 DEF import_bump
  <2>2. DeletionTypeOK'
    BY <2>1 DEF Unfinished
  <2>3. \A q \in Requests : PlanInv(q)'
    BY <2>1, PlanKept
  <2> QED
    BY <2>1, <2>2, <2>3 DEF RecordsKeepTheirFiles, OwnsNothingOf, Unfinished, RunInv
<1>5. CASE import_fails
  <2>1. /\ pc' = "up"
        /\ UNCHANGED <<rows, linked, key, revision, active, trash, plans, runs, late>>
    BY <1>5 DEF import_fails
  <2>2. DeletionTypeOK'
    BY <2>1
  <2> QED BY <2>1, <2>2, DeletionKept
<1> QED BY <1>1, <1>2, <1>3, <1>4, <1>5

\* The plan of a live target.
LEMMA LivePlanIsAPlan ==
  ASSUME DeletionInv, NEW target_ \in SUBSET (Sources \cup {Enrollment}), LiveTarget(target_)
  PROVE  /\ LivePlan(target_) \in PlanRows
         /\ LivePlan(target_).sources \subseteq rows
         /\ LivePlan(target_).sources = augment_photokit_entries(target_)
         /\ \A b \in LivePlan(target_).blobs : \A s \in rows :
              Content[s] = b => s \in LivePlan(target_).sources
<1> USE DeletionAssumption
<1> DEFINE fall == augment_photokit_entries(target_)
<1>1. fall \subseteq rows
  BY DEF LiveTarget, augment_photokit_entries, expand_deletion_closure, DeletionInv, DeletionTypeOK
<1>2. reconcile_blob_entries(fall) \subseteq Blobs
  BY <1>1 DEF reconcile_blob_entries, DeletionInv, DeletionTypeOK
<1>3. \A b \in reconcile_blob_entries(fall) : \A s \in rows : Content[s] = b => s \in fall
  BY DEF reconcile_blob_entries, blob_reference_owners
<1>4. compile_key_cleanup_actions(target_) \subseteq {Enrollment}
  BY DEF compile_key_cleanup_actions
<1>5. rows \subseteq Sources /\ revision \in Nat
  BY DEF DeletionInv, DeletionTypeOK
<1> HIDE DEF fall
<1>6. LivePlan(target_) =
        [target |-> target_, sources |-> fall, blobs |-> reconcile_blob_entries(fall),
         keys |-> compile_key_cleanup_actions(target_), revision |-> revision, fresh |-> TRUE]
  BY DEF LivePlan, fall
<1>7. fall = augment_photokit_entries(target_)
  BY DEF fall
<1> QED BY <1>1, <1>2, <1>3, <1>4, <1>5, <1>6, <1>7 DEF PlanRows

\* A new plan is made, or the time of one is over.
LEMMA DeletionPlans ==
  ASSUME DeletionInv,
         \/ \E t \in Tokens, x \in Sources \cup {Enrollment} : preview_deletion(t, x)
         \/ \E t \in Tokens : expire(t)
  PROVE  DeletionInv'
<1>1. PICK t \in Tokens, p \in PlanRows :
        /\ pc = "up" /\ plans' = [plans EXCEPT ![t] = p]
        /\ \/ plans[t] = NoPlan
           \/ plans[t].target = p.target /\ plans[t].revision = p.revision /\ plans[t].keys = p.keys
        /\ p.fresh => p.target # {}
        /\ UNCHANGED <<catalog, key, disk, runs, pc, op, starting, budget, late>>
  <2>1. ASSUME NEW t \in Tokens, NEW x \in Sources \cup {Enrollment}, preview_deletion(t, x)
        PROVE  /\ pc = "up" /\ plans' = [plans EXCEPT ![t] = LivePlan({x})]
               /\ LivePlan({x}) \in PlanRows /\ plans[t] = NoPlan
               /\ LivePlan({x}).target # {}
               /\ UNCHANGED <<catalog, key, disk, runs, pc, op, starting, budget, late>>
    <3>1. LivePlan({x}).target = {x}
      BY DEF LivePlan
    <3> QED BY <2>1, <3>1, LivePlanIsAPlan DEF preview_deletion
  <2>2. ASSUME NEW t \in Tokens, expire(t)
        PROVE  LET p == [plans[t] EXCEPT !.fresh = FALSE]
               IN /\ pc = "up" /\ plans' = [plans EXCEPT ![t] = p] /\ p \in PlanRows
                  /\ plans[t].target = p.target /\ plans[t].revision = p.revision
                  /\ plans[t].keys = p.keys /\ ~p.fresh
                  /\ UNCHANGED <<catalog, key, disk, runs, pc, op, starting, budget, late>>
    <3>1. plans[t] \in PlanRows
      BY DEF DeletionInv, DeletionTypeOK
    <3> QED BY <2>2, <3>1 DEF expire, PlanRows
  <2>3. CASE \E t \in Tokens, x \in Sources \cup {Enrollment} : preview_deletion(t, x)
    BY <2>1, <2>3
  <2>4. CASE \E t \in Tokens : expire(t)
    BY <2>2, <2>4
  <2> QED BY <2>3, <2>4
<1>2. DeletionTypeOK'
  BY <1>1 DEF DeletionInv, DeletionTypeOK, Draining, catalog, disk, Unfinished
<1>3. ASSUME NEW q \in Requests PROVE PlanInv(q)'
  <2> SUFFICES ASSUME Unfinished(q) PROVE PlanInv(q)'
    BY <1>1 DEF PlanInv, Unfinished
  <2>1. PICK u \in Tokens :
         /\ runs[q].token = {u}
         /\ plans[u].target # {} /\ plans[u].revision < revision
         /\ plans[u].keys # {} /\ key => runs[q].keys # {}
         /\ \A r \in Requests : Unfinished(r) /\ u \in runs[r].token => r = q
    BY DEF DeletionInv, PlanInv
  <2>2. /\ plans'[u].target = plans[u].target /\ plans'[u].revision = plans[u].revision
        /\ plans'[u].keys = plans[u].keys
    BY <1>1, <2>1 DEF NoPlan, DeletionInv, DeletionTypeOK
  <2> QED BY <1>1, <2>1, <2>2 DEF PlanInv, Unfinished, catalog
<1> QED
  BY <1>1, <1>2, <1>3
  DEF DeletionInv, RecordsKeepTheirFiles, RunInv, OwnsNothingOf, Unfinished, catalog, disk

\* The transaction of an execution: what falls is what the plan made again says, and the
\* blobs it takes along have no owner left.
LEMMA DeletionExecutes ==
  ASSUME DeletionInv, NEW q \in Requests, NEW t \in Tokens, execute_deletion(q, t)
  PROVE  DeletionInv'
<1> DEFINE p == plans[t]
           x == [state |-> "in_progress", token |-> {t}, blobs |-> p.blobs,
                 pending |-> p.blobs, keys |-> p.keys]
<1>1. p \in PlanRows
  BY DEF DeletionInv, DeletionTypeOK
<1>2. /\ pc = "up" /\ pc' = "drain" /\ op' = {q} /\ runs[q] = NoRun
      /\ p = LivePlan(p.target) /\ LiveTarget(p.target)
      /\ rows' = rows \ p.sources /\ linked' = linked \ p.sources
      /\ revision' = revision + 1
      /\ runs' = [runs EXCEPT ![q] = x]
      /\ UNCHANGED <<key, active, trash, plans, late>>
  BY DEF execute_deletion, plan_is_live, delete_rows, Goto, disk
<1>3. p.revision = revision /\ p.revision \in Nat
  <2>1. LivePlan(p.target).revision = revision
    BY DEF LivePlan
  <2> QED BY <1>1, <1>2, <2>1 DEF PlanRows
<1>4. \A b \in p.blobs : \A s \in rows' : Content[s] # b
  <2>1. p.target \in SUBSET (Sources \cup {Enrollment})
    BY <1>1 DEF PlanRows
  <2> HIDE DEF p
  <2>2. \A b \in p.blobs : \A s \in rows : Content[s] = b => s \in p.sources
    BY <1>2, <2>1, LivePlanIsAPlan
  <2> QED BY <1>2, <2>2
<1>5. p.target # {}
  BY DEF execute_deletion, plan_is_live, DeletionInv, DeletionTypeOK
<1>6. p.blobs \subseteq Blobs /\ p.keys \subseteq {Enrollment}
  BY <1>1 DEF PlanRows
<1>7. ~Unfinished(q) /\ trash[q] = {}
  <2>1. ~Unfinished(q)
    BY <1>2 DEF Unfinished, NoRun
  <2> QED BY <2>1 DEF DeletionInv, RunInv
<1>8. \A r \in Requests : Unfinished(r) => t \notin runs[r].token
  BY <1>3 DEF DeletionInv, PlanInv
<1> HIDE DEF p
<1>9. x \in RunRows /\ x.state = "in_progress" /\ x.token = {t} /\ x.blobs = p.blobs
      /\ x.pending = p.blobs /\ x.keys = p.keys
  BY <1>6 DEF RunRows
<1>a. plans[t] = p
  BY DEF p
<1> HIDE DEF x
<1>b. runs'[q] = x /\ \A r \in Requests : r # q => runs'[r] = runs[r]
  BY <1>2 DEF DeletionInv, DeletionTypeOK
<1>c. Unfinished(q)' /\ \A r \in Requests : r # q => Unfinished(r)' = Unfinished(r)
  BY <1>9, <1>b DEF Unfinished
<1>d. DeletionTypeOK'
  BY <1>2, <1>9, <1>b, <1>c DEF DeletionInv, DeletionTypeOK, Draining
<1>e. ASSUME NEW r \in Requests PROVE RunInv(r)'
  BY <1>2, <1>7, <1>9, <1>b, <1>c DEF DeletionInv, RunInv
<1>f. ASSUME NEW r \in Requests, NEW s \in rows' PROVE OwnsNothingOf(s, r)'
  BY <1>2, <1>4, <1>9, <1>b, <1>c DEF DeletionInv, OwnsNothingOf
<1>g. ASSUME NEW r \in Requests PROVE PlanInv(r)'
  <2>1. CASE r = q
    <3>1. plans'[t].revision < revision'
      BY <1>2, <1>3, <1>a
    <3> QED BY <1>2, <1>5, <1>8, <1>9, <1>a, <1>b, <1>c, <2>1, <3>1 DEF PlanInv
  <2>2. CASE r # q /\ Unfinished(r)
    <3>1. PICK u \in Tokens :
           /\ runs[r].token = {u}
           /\ plans[u].target # {} /\ plans[u].revision < revision
           /\ plans[u].keys # {} /\ key => runs[r].keys # {}
           /\ \A w \in Requests : Unfinished(w) /\ u \in runs[w].token => w = r
      BY <2>2 DEF DeletionInv, PlanInv
    <3>2. u # t
      BY <1>8, <2>2, <3>1
    <3>3. plans'[u].revision < revision'
      BY <1>2, <3>1 DEF DeletionInv, DeletionTypeOK, PlanRows
    <3> QED BY <1>2, <1>9, <1>b, <1>c, <2>2, <3>1, <3>2, <3>3 DEF PlanInv
  <2>3. CASE r # q /\ ~Unfinished(r)
    BY <1>c, <2>3 DEF PlanInv
  <2> QED BY <2>1, <2>2, <2>3
<1>h. RecordsKeepTheirFiles'
  BY <1>2 DEF DeletionInv, RecordsKeepTheirFiles
<1> QED BY <1>2, <1>d, <1>e, <1>f, <1>g, <1>h DEF DeletionInv

\* A run is drained: the steps that touch files or the list of one run.
LEMMA DeletionDrains ==
  ASSUME DeletionInv, NEW b \in Blobs, drain_move(b) \/ drain_remove(b) \/ drain_strike(b)
  PROVE  DeletionInv'
<1> USE DEF catalog, disk
<1>1. PICK q \in Requests : op = {q} /\ Unfinished(q) /\ Run = q /\ pc = "drain"
  <2>1. pc = "drain"
    BY DEF drain_move, drain_remove, drain_strike
  <2> QED BY <2>1, TheRun DEF DeletionInv, DeletionTypeOK, Draining
<1>2. runs[q] \in RunRows /\ trash[q] \subseteq Blobs
  BY DEF DeletionInv, DeletionTypeOK
<1>3. CASE drain_move(b)
  <2>1. /\ b \in runs[q].pending /\ b \in active /\ b \notin trash[q]
        /\ active' = active \ {b} /\ trash' = [trash EXCEPT ![q] = @ \cup {b}]
        /\ UNCHANGED <<rows, linked, key, revision, plans, runs, pc, op, late>>
    BY <1>1, <1>3 DEF drain_move
  <2>2. DeletionTypeOK'
    <3>1. trash' \in [Requests -> SUBSET Blobs]
      BY <2>1 DEF DeletionInv, DeletionTypeOK
    <3> QED BY <1>1, <2>1, <3>1 DEF DeletionInv, DeletionTypeOK, Draining, Unfinished
  <2>3. RecordsKeepTheirFiles'
    BY <2>1, <1>1 DEF DeletionInv, RecordsKeepTheirFiles, OwnsNothingOf, RunInv
  <2>4. \A r \in Requests : trash'[r] \subseteq runs'[r].pending
    BY <2>1 DEF DeletionInv, DeletionTypeOK, RunInv
  <2>5. \A r \in Requests : RunInv(r)'
    BY <2>1, <2>4 DEF DeletionInv, RunInv, Unfinished
  <2> QED
    BY <2>1, <2>2, <2>3, <2>5 DEF DeletionInv, PlanInv, OwnsNothingOf, Unfinished
<1>4. CASE drain_remove(b)
  <2>1. /\ trash' = [trash EXCEPT ![q] = @ \ {b}]
        /\ UNCHANGED <<rows, linked, key, revision, active, plans, runs, pc, op, late>>
    BY <1>1, <1>4 DEF drain_remove
  <2>2. DeletionTypeOK'
    BY <2>1, <1>2 DEF DeletionInv, DeletionTypeOK, Draining, Unfinished
  <2>3. \A r \in Requests : trash'[r] \subseteq runs'[r].pending
    BY <2>1 DEF DeletionInv, DeletionTypeOK, RunInv
  <2>4. \A r \in Requests : RunInv(r)'
    BY <2>1, <2>3 DEF DeletionInv, RunInv, Unfinished
  <2> QED
    BY <2>1, <2>2, <2>4
    DEF DeletionInv, PlanInv, OwnsNothingOf, Unfinished, RecordsKeepTheirFiles
<1>5. CASE drain_strike(b)
  <2> DEFINE x == [runs[q] EXCEPT !.pending = @ \ {b}]
  <2>1. /\ b \in runs[q].pending /\ b \notin active /\ b \notin trash[q]
        /\ runs' = [runs EXCEPT ![q] = x]
        /\ UNCHANGED <<rows, linked, key, revision, active, trash, plans, pc, op, late>>
    BY <1>1, <1>5 DEF drain_strike, Strike
  <2>2. /\ x \in RunRows /\ x.state = runs[q].state /\ x.token = runs[q].token
        /\ x.blobs = runs[q].blobs /\ x.keys = runs[q].keys
        /\ x.pending = runs[q].pending \ {b}
    BY <1>2 DEF RunRows
  <2> HIDE DEF x
  <2>3. runs'[q] = x /\ \A r \in Requests : r # q => runs'[r] = runs[r]
    BY <2>1 DEF DeletionInv, DeletionTypeOK
  <2>4. \A r \in Requests : /\ Unfinished(r)' = Unfinished(r)
                            /\ runs'[r].token = runs[r].token /\ runs'[r].blobs = runs[r].blobs
                            /\ runs'[r].keys = runs[r].keys
    BY <2>2, <2>3 DEF Unfinished
  <2>5. DeletionTypeOK'
    <3>1. runs' \in [Requests -> RunRows]
      BY <2>1, <2>2 DEF DeletionInv, DeletionTypeOK
    <3> QED BY <1>1, <2>1, <2>4, <3>1 DEF DeletionInv, DeletionTypeOK, Draining
  <2>6. \A r \in Requests : RunInv(r)'
    BY <1>1, <2>1, <2>2, <2>3, <2>4 DEF DeletionInv, RunInv
  <2>7. \A r \in Requests : PlanInv(r)'
    BY <2>1, <2>4 DEF DeletionInv, PlanInv
  <2> QED
    BY <2>1, <2>4, <2>5, <2>6, <2>7, <1>1 DEF DeletionInv, OwnsNothingOf, RecordsKeepTheirFiles
<1> QED BY <1>3, <1>4, <1>5

\* The row of the run that is drained changes, and no file.  What is left of a run is its
\* state, its keys and its token; a run whose keys were drained leaves no key.
LEMMA DeletionEnds ==
  ASSUME DeletionInv, drain_keys \/ complete_deletion \/ drain_ambiguous \/ drain_fails
  PROVE  DeletionInv'
<1> USE DEF catalog, disk, Goto
<1>1. PICK q \in Requests : op = {q} /\ Unfinished(q) /\ Run = q
  <2>1. Draining
    BY DEF drain_keys, complete_deletion, drain_ambiguous, drain_fails, Draining
  <2> QED BY <2>1, TheRun DEF DeletionInv, DeletionTypeOK
<1>2. runs[q] \in RunRows
  BY DEF DeletionInv, DeletionTypeOK
<1>3. CASE drain_keys
  <2> DEFINE x == [runs[q] EXCEPT !.keys = {}]
  <2>1. /\ key' = IF runs[q].keys # {} THEN FALSE ELSE key
        /\ pc' = "complete" /\ op' = {q}
        /\ runs' = [runs EXCEPT ![q] = x]
        /\ UNCHANGED <<rows, linked, revision, active, trash, plans, late>>
    BY <1>1, <1>3 DEF drain_keys
  <2>2. /\ x \in RunRows /\ x.state = runs[q].state /\ x.token = runs[q].token
        /\ x.blobs = runs[q].blobs /\ x.pending = runs[q].pending /\ x.keys = {}
    BY <1>2 DEF RunRows
  <2> HIDE DEF x
  <2>3. runs'[q] = x /\ \A r \in Requests : r # q => runs'[r] = runs[r]
    BY <2>1 DEF DeletionInv, DeletionTypeOK
  <2>4. \A r \in Requests : /\ Unfinished(r)' = Unfinished(r)
                            /\ runs'[r].token = runs[r].token /\ runs'[r].blobs = runs[r].blobs
                            /\ runs'[r].pending = runs[r].pending
    BY <2>2, <2>3 DEF Unfinished
  <2>5. DeletionTypeOK'
    <3>1. runs' \in [Requests -> RunRows]
      BY <2>1, <2>2 DEF DeletionInv, DeletionTypeOK
    <3> QED BY <1>1, <2>1, <2>4, <3>1 DEF DeletionInv, DeletionTypeOK, Draining
  <2>6. \A r \in Requests : PlanInv(r)'
    BY <2>1, <2>2, <2>3, <2>4 DEF DeletionInv, PlanInv
  <2> QED
    BY <2>1, <2>4, <2>5, <2>6 DEF DeletionInv, OwnsNothingOf, RecordsKeepTheirFiles, RunInv
<1>4. CASE complete_deletion
  <2> DEFINE x == [runs[q] EXCEPT !.state = "complete", !.token = {}]
  <2>1. /\ runs[q].pending = {}
        /\ runs' = [runs EXCEPT ![q] = x]
        /\ plans' = [t \in Tokens |-> IF t \in runs[q].token THEN NoPlan ELSE plans[t]]
        /\ pc' \in {"recover", "up"}
        /\ UNCHANGED <<rows, linked, revision, key, active, trash, late>>
    BY <1>1, <1>4 DEF complete_deletion
  <2>2. /\ x \in RunRows /\ x.state = "complete" /\ x.token = {}
        /\ x.blobs = runs[q].blobs /\ x.pending = runs[q].pending
    BY <1>2 DEF RunRows
  <2> HIDE DEF x
  <2>3. runs'[q] = x /\ \A r \in Requests : r # q => runs'[r] = runs[r]
    BY <2>1 DEF DeletionInv, DeletionTypeOK
  <2>4. ~Unfinished(q)' /\ \A r \in Requests : r # q => Unfinished(r)' = Unfinished(r)
    BY <2>2, <2>3 DEF Unfinished
  <2>5. DeletionTypeOK'
    <3>1. runs' \in [Requests -> RunRows]
      BY <2>1, <2>2 DEF DeletionInv, DeletionTypeOK
    <3>2. NoPlan \in PlanRows /\ ~NoPlan.fresh
      BY DEF NoPlan, PlanRows
    <3>3. plans' \in [Tokens -> PlanRows]
      BY <2>1, <3>2 DEF DeletionInv, DeletionTypeOK
    <3>4. \A t \in Tokens : plans'[t].fresh => plans'[t].target # {}
      BY <2>1, <3>2 DEF DeletionInv, DeletionTypeOK
    <3> QED BY <2>1, <3>1, <3>3, <3>4 DEF DeletionInv, DeletionTypeOK, Draining
  <2>6. ASSUME NEW r \in Requests PROVE PlanInv(r)'
    <3>1. CASE r # q /\ Unfinished(r)
      <4>1. PICK u \in Tokens :
             /\ runs[r].token = {u}
             /\ plans[u].target # {} /\ plans[u].revision < revision
             /\ plans[u].keys # {} /\ key => runs[r].keys # {}
             /\ \A w \in Requests : Unfinished(w) /\ u \in runs[w].token => w = r
        BY <3>1 DEF DeletionInv, PlanInv
      <4>2. plans'[u] = plans[u]
        BY <1>1, <2>1, <3>1, <4>1
      <4> QED BY <1>1, <2>1, <2>3, <2>4, <3>1, <4>1, <4>2 DEF PlanInv
    <3>2. CASE r = q \/ ~Unfinished(r)
      BY <2>4, <3>2 DEF PlanInv
    <3> QED BY <3>1, <3>2
  <2>7. \A r \in Requests : RunInv(r)'
    BY <2>1, <2>2, <2>3, <2>4 DEF DeletionInv, RunInv
  <2>8. \A r \in Requests, s \in rows' : OwnsNothingOf(s, r)'
    BY <2>1, <2>2, <2>3, <2>4 DEF DeletionInv, OwnsNothingOf
  <2> QED
    BY <2>1, <2>5, <2>6, <2>7, <2>8 DEF DeletionInv, RecordsKeepTheirFiles
<1>5. CASE GiveUp
  <2> DEFINE x == [runs[q] EXCEPT !.state = "needs_attention"]
  <2>1. /\ runs' = [runs EXCEPT ![q] = x] /\ pc' \in {"down", "up"}
        /\ UNCHANGED <<rows, linked, revision, key, active, trash, plans, late>>
    BY <1>1, <1>5 DEF GiveUp
  <2>2. /\ x \in RunRows /\ x.state = "needs_attention" /\ x.token = runs[q].token
        /\ x.blobs = runs[q].blobs /\ x.pending = runs[q].pending /\ x.keys = runs[q].keys
    BY <1>2 DEF RunRows
  <2> HIDE DEF x
  <2>3. runs'[q] = x /\ \A r \in Requests : r # q => runs'[r] = runs[r]
    BY <2>1 DEF DeletionInv, DeletionTypeOK
  <2>4. \A r \in Requests : /\ Unfinished(r)' = Unfinished(r)
                            /\ runs'[r].token = runs[r].token /\ runs'[r].blobs = runs[r].blobs
                            /\ runs'[r].pending = runs[r].pending /\ runs'[r].keys = runs[r].keys
    BY <1>1, <2>2, <2>3 DEF Unfinished
  <2>5. DeletionTypeOK'
    <3>1. runs' \in [Requests -> RunRows]
      BY <2>1, <2>2 DEF DeletionInv, DeletionTypeOK
    <3> QED BY <2>1, <3>1 DEF DeletionInv, DeletionTypeOK, Draining
  <2> QED
    BY <2>1, <2>4, <2>5
    DEF DeletionInv, OwnsNothingOf, RecordsKeepTheirFiles, RunInv, PlanInv
<1> QED BY <1>3, <1>4, <1>5 DEF drain_ambiguous, drain_fails

\* The other steps move the process and nothing else.
LEMMA DeletionMoves ==
  ASSUME DeletionInv,
         \/ Start \/ recovered \/ Crash \/ Quit \/ drain_done
         \/ \E q \in Requests : recover_deletion(q) \/ retry_deletion(q)
         \/ \E q \in Requests, t \in Tokens : answer_deletion(q, t)
  PROVE  DeletionInv'
<1> USE DEF catalog, disk, Goto
<1>1. CASE Start \/ recovered \/ Crash \/ Quit
  <2>1. pc' \in {"recover", "up", "down"}
        /\ UNCHANGED <<rows, linked, revision, key, active, trash, plans, runs, late>>
    BY <1>1 DEF Start, recovered, Crash, Quit
  <2>2. DeletionTypeOK'
    BY <2>1 DEF DeletionInv, DeletionTypeOK, Draining
  <2> QED BY <2>1, <2>2, DeletionKept
<1>2. CASE drain_done
  <2>1. pc = "drain" /\ pc' = "keys" /\ op' = op
        /\ UNCHANGED <<rows, linked, revision, key, active, trash, plans, runs, late>>
    BY <1>2 DEF drain_done
  <2>2. DeletionTypeOK'
    BY <2>1 DEF DeletionInv, DeletionTypeOK, Draining, Unfinished
  <2> QED BY <2>1, <2>2, DeletionKept
<1>3. ASSUME NEW q \in Requests, recover_deletion(q) \/ retry_deletion(q) PROVE DeletionInv'
  <2>1. Unfinished(q) /\ pc' = "drain" /\ op' = {q}
        /\ UNCHANGED <<rows, linked, revision, key, active, trash, plans, runs, late>>
    BY <1>3 DEF recover_deletion, retry_deletion
  <2>2. DeletionTypeOK'
    BY <2>1 DEF DeletionInv, DeletionTypeOK, Draining, Unfinished
  <2> QED BY <2>1, <2>2, DeletionKept
<1>4. ASSUME NEW q \in Requests, NEW t \in Tokens, answer_deletion(q, t) PROVE DeletionInv'
  <2>1. pc = "up" /\ UNCHANGED vars
    BY <1>4 DEF answer_deletion
  <2>2. DeletionTypeOK'
    BY <2>1 DEF DeletionInv, DeletionTypeOK, Draining, Unfinished, vars
  <2> QED BY <2>1, <2>2, DeletionKept DEF vars
<1> QED BY <1>1, <1>2, <1>3, <1>4

LEMMA DeletionNext == DeletionInv /\ Next => DeletionInv'
  BY DeletionImports, DeletionPlans, DeletionExecutes, DeletionDrains, DeletionEnds, DeletionMoves
  DEF Next, Work

LEMMA DeletionAlways == SpecStorage => []DeletionInv
<1>1. DeletionInv /\ [NextStorage]_allVars => DeletionInv'
  <2> SUFFICES ASSUME DeletionInv, [NextStorage]_allVars PROVE DeletionInv'
    OBVIOUS
  <2>1. CASE Next
    BY <2>1, DeletionNext
  <2>2. CASE UNCHANGED deletionVars
    BY <2>2
    DEF deletionVars, DeletionInv, DeletionTypeOK, Draining, Unfinished, RecordsKeepTheirFiles,
        RunInv, PlanInv, OwnsNothingOf
  <2> QED BY <2>1, <2>2, DeletionStep DEF allVars
<1> QED BY DeletionInit, <1>1, PTL DEF SpecStorage

\* A record names a file that is there, for any number of sources that share contents, of
\* deletions that were cut off and of imports that never bumped the revision, unless it was
\* imported while an unfinished run had its content on the list (reconcile_blob_entries,
\* drain_blob, load_and_compare_live_plan).
THEOREM RecordsHaveTheirFiles == SpecStorage => []RecordsKeepTheirFiles
  BY DeletionAlways, PTL DEF DeletionInv

\* Records go only as the user saw it: one execution removes the plan that was shown, which
\* is the plan made again at that moment (load_and_compare_live_plan, execute_deletion).
THEOREM OnlyWhatWasShown == SpecStorage => OnlyWhatWasShownGoes
<1> DEFINE Shown == (rows \ rows') # {} =>
             \E t \in Tokens : /\ rows \ rows' = plans[t].sources
                               /\ plans[t].sources = augment_photokit_entries(plans[t].target)
<1>1. DeletionInv /\ [NextStorage]_allVars => [Shown]_vars
  <2> SUFFICES ASSUME DeletionInv, [NextStorage]_allVars, (rows \ rows') # {} PROVE Shown
    OBVIOUS
  <2>1. Next
    BY DeletionStep DEF deletionVars, allVars
  <2>2. PICK q \in Requests, t \in Tokens : execute_deletion(q, t)
    BY <2>1 DEF Next, Work, catalog, disk, vars, GiveUp, import_put, import_record, import_bump,
       decide_evidence, preview_deletion, expire, retry_deletion, answer_deletion, drain_move,
       drain_remove, drain_strike, drain_done, drain_keys, complete_deletion, drain_ambiguous,
       drain_fails, Start, recover_deletion, recovered, import_fails, Crash, Quit
  <2>3. plans[t] \in PlanRows
    BY DEF DeletionInv, DeletionTypeOK
  <2>4. /\ plans[t] = LivePlan(plans[t].target) /\ LiveTarget(plans[t].target)
        /\ rows' = rows \ plans[t].sources
    BY <2>2 DEF execute_deletion, plan_is_live, delete_rows
  <2>5. plans[t].target \in SUBSET (Sources \cup {Enrollment})
    BY <2>3 DEF PlanRows
  <2>6. /\ LivePlan(plans[t].target).sources \subseteq rows
        /\ LivePlan(plans[t].target).sources = augment_photokit_entries(plans[t].target)
    BY <2>4, <2>5, LivePlanIsAPlan
  <2> QED BY <2>4, <2>6
<1> QED BY DeletionAlways, <1>1, PTL DEF SpecStorage, OnlyWhatWasShownGoes

\* A deletion reported complete has left nothing behind: its blobs are in neither the store
\* nor its trash, unless they were imported again meanwhile, and the enrollment's key is
\* gone, however often the run was cut off or failed (drain_deletion_run_inner,
\* drain_photokit_key_cleanup, complete_deletion).
THEOREM CompletedDeletionsAreWhole == SpecStorage => CompleteMeansGone
<1> DEFINE Gone == \A q \in Requests : (Unfinished(q) /\ runs'[q].state = "complete") =>
             /\ runs[q].blobs \cap active \subseteq late
             /\ trash[q] = {}
             /\ plans[CHOOSE t \in runs[q].token : TRUE].keys # {} => ~key
<1>1. DeletionInv /\ [NextStorage]_allVars => [Gone]_vars
  <2> SUFFICES ASSUME DeletionInv, [NextStorage]_allVars, NEW q \in Requests, Unfinished(q),
                      runs'[q].state = "complete"
               PROVE  /\ runs[q].blobs \cap active \subseteq late
                      /\ trash[q] = {}
                      /\ plans[CHOOSE t \in runs[q].token : TRUE].keys # {} => ~key
    OBVIOUS
  <2>1. runs[q].state # "complete" /\ runs' # runs
    BY DEF Unfinished
  <2>2. Next
    BY <2>1, DeletionStep DEF deletionVars, allVars
  <2>3. complete_deletion /\ Run = q
    <3>1. \/ drain_keys \/ complete_deletion \/ GiveUp
          \/ \E b \in Blobs : drain_strike(b)
          \/ \E r \in Requests, t \in Tokens : execute_deletion(r, t)
      BY <2>1, <2>2
      DEF Next, Work, catalog, disk, vars, import_put, import_record, import_bump,
          decide_evidence, preview_deletion, expire, retry_deletion, answer_deletion,
          drain_move, drain_remove, drain_done, drain_ambiguous, drain_fails, Start,
          recover_deletion, recovered, import_fails, Crash, Quit
    <3>2. ASSUME NEW r \in Requests, NEW t \in Tokens, execute_deletion(r, t) PROVE FALSE
      BY <2>1, <3>2 DEF execute_deletion, DeletionInv, DeletionTypeOK
    <3>3. Draining => \E r \in Requests : op = {r} /\ Run = r /\ runs[r] \in RunRows
      BY TheRun DEF DeletionInv, DeletionTypeOK
    <3>4. ASSUME drain_keys PROVE FALSE
      BY <2>1, <3>3, <3>4 DEF drain_keys, Draining, RunRows, DeletionInv, DeletionTypeOK
    <3>5. ASSUME NEW b \in Blobs, drain_strike(b) PROVE FALSE
      BY <2>1, <3>3, <3>5
      DEF drain_strike, Strike, Draining, RunRows, DeletionInv, DeletionTypeOK
    <3>6. CASE GiveUp
      BY <2>1, <3>6 DEF GiveUp, DeletionInv, DeletionTypeOK, RunRows
    <3>7. CASE complete_deletion
      BY <2>1, <3>3, <3>7
      DEF complete_deletion, Draining, RunRows, DeletionInv, DeletionTypeOK
    <3> QED BY <3>1, <3>2, <3>4, <3>5, <3>6, <3>7
  <2>4. runs[q].pending = {} /\ runs[q].keys = {}
    BY <2>3 DEF complete_deletion
  <2>5. PICK t \in Tokens : runs[q].token = {t} /\ (plans[t].keys # {} /\ key => runs[q].keys # {})
    BY DEF DeletionInv, PlanInv
  <2>6. (CHOOSE u \in runs[q].token : TRUE) = t
    BY <2>5
  <2> QED BY <2>4, <2>5, <2>6 DEF DeletionInv, RunInv
<1> QED BY DeletionAlways, <1>1, PTL DEF SpecStorage, CompleteMeansGone

-----------------------------------------------------------------------------
(* Staged updates                                                          *)

\* The stage that the call under way is making.
UpdateStage == P!stage_of(work.op, work.copy, installed)

\* Why the stage a call publishes is sound and the only one of its operation and release:
\* what it verified and compared with the stages there still holds when it renames, as the
\* lock lets no other call in and nothing is installed meanwhile.
UpdateInv ==
    /\ \A s \in stages : P!verify_file(s.package, s.context)
    /\ \A s, t \in stages :
         s.op = t.op \/ s.package.manifest.release_sequence = t.package.manifest.release_sequence
           => s = t
    /\ synced \subseteq stages /\ answered \subseteq synced \cup unsettled
    /\ stages \subseteq synced \cup unsettled
                      \cup (IF work.at = "renamed" THEN {UpdateStage} ELSE {})
    /\ work.at \in {"none", "made", "copied", "ready", "renamed"}
    /\ work.at = "none" => work = P!NoWork
    /\ work.at \in {"copied", "ready", "renamed"} =>
         work = [at |-> work.at, op |-> work.op, package |-> work.package,
                 identity |-> work.identity, copy |-> work.copy]
    /\ work.at \in {"made", "copied", "ready"} =>
         \A s \in stages : s.op # work.op /\ ~P!equivocates(s, work.package.manifest)
    /\ work.at = "ready" =>
         /\ work.copy = work.package /\ P!verify_file(work.copy, installed)
         /\ \A s \in stages : P!stage_name(s) # P!stage_name(UpdateStage)
    /\ work.at = "renamed" => UpdateStage \in stages

LEMMA UpdateStep == NextStorage => P!Next \/ UNCHANGED updateVars
  BY DEF NextStorage, Delete, closureVars, updateVars

LEMMA UpdateInit == InitStorage => UpdateInv
<1> SUFFICES ASSUME InitStorage PROVE UpdateInv
  OBVIOUS
<1>1. P!Init
  BY DEF InitStorage
<1> QED BY <1>1 DEF P!Init, P!NoWork, UpdateInv

\* One step per action.
LEMMA UpdateNext == UpdateInv /\ P!Next => UpdateInv'
<1> SUFFICES ASSUME UpdateInv, P!Next PROVE UpdateInv'
  OBVIOUS
<1> USE DEF UpdateInv, P!disk, P!NoWork, UpdateStage, P!stage_of
<1>1. ASSUME NEW p, P!Rewrite(p) PROVE UpdateInv'
  BY <1>1 DEF P!Rewrite
<1>2. ASSUME NEW s \in stages, P!Install(s) PROVE UpdateInv'
  BY <1>2 DEF P!Install
<1>3. ASSUME NEW o, P!stage_internal(o) PROVE UpdateInv'
  BY <1>3 DEF P!stage_internal, P!verified_stage_directories, P!stops, P!UpdateStageLock
<1>4. CASE P!copy_hashed
  BY <1>4 DEF P!copy_hashed
<1>5. CASE P!prepare_stage
  <2>1. /\ work.at = "copied" /\ work.copy = work.package
        /\ P!verify_file(work.copy, installed)
        /\ \A s \in stages : P!stage_name(s) # P!stage_name(UpdateStage)
        /\ work' = [work EXCEPT !.at = "ready"]
        /\ UNCHANGED <<installed, stages, synced, answered, unsettled>>
    BY <1>5 DEF P!prepare_stage
  <2>2. /\ work'.at = "ready" /\ work'.op = work.op /\ work'.package = work.package
        /\ work'.identity = work.identity /\ work'.copy = work.copy
        /\ work' = [at |-> work'.at, op |-> work'.op, package |-> work'.package,
                    identity |-> work'.identity, copy |-> work'.copy]
    BY <2>1
  <2> QED BY <2>1, <2>2
<1>6. CASE P!publish_stage
  <2> DEFINE n == UpdateStage
  <2>1. /\ work.at = "ready" /\ stages' = stages \cup {n}
        /\ work' = [work EXCEPT !.at = "renamed"]
        /\ UNCHANGED <<installed, synced, answered, unsettled>>
    BY <1>6 DEF P!publish_stage
  <2>2. /\ work'.at = "renamed" /\ work'.op = work.op /\ work'.package = work.package
        /\ work'.identity = work.identity /\ work'.copy = work.copy
        /\ work' = [at |-> work'.at, op |-> work'.op, package |-> work'.package,
                    identity |-> work'.identity, copy |-> work'.copy]
    BY <2>1
  <2>3. /\ n.op = work.op /\ n.package = work.copy /\ n.context = installed
        /\ n' = n
    BY <2>1, <2>2
  <2>4. P!verify_file(n.package, n.context)
    BY <2>1, <2>3
  <2>5. ASSUME NEW s \in stages
        PROVE  /\ s.op # n.op
               /\ s.package.manifest.release_sequence # n.package.manifest.release_sequence
    BY <2>1, <2>3 DEF P!equivocates, P!stage_name
  <2> HIDE DEF n
  <2>6. UpdateStage' = n /\ stages' = stages \cup {n}
    BY <2>1, <2>3 DEF n
  <2> QED BY <2>1, <2>2, <2>4, <2>5, <2>6
<1>7. CASE P!answer_stage
  BY <1>7 DEF P!answer_stage, P!sync_directories
<1>8. CASE P!refuse_stage
  BY <1>8 DEF P!refuse_stage
<1>9. CASE P!fail_stage \/ P!outcome_unknown
  <2>1. /\ work' = P!NoWork /\ UNCHANGED <<installed, stages, synced, answered>>
        /\ unsettled \subseteq unsettled'
        /\ work.at = "renamed" => UpdateStage \in unsettled'
    BY <1>9 DEF P!fail_stage, P!outcome_unknown, P!Unsettle
  <2> QED BY <2>1
<1>10. CASE P!crash
  <2>1. /\ work' = P!NoWork /\ UNCHANGED <<installed, synced, answered>>
        /\ synced \subseteq stages' /\ stages' \subseteq stages
        /\ unsettled \subseteq unsettled'
        /\ work.at = "renamed" => UpdateStage \in unsettled'
    BY <1>10 DEF P!crash, P!Unsettle
  <2> QED BY <2>1
<1>11. CASE P!recover
  BY <1>11 DEF P!recover
<1>12. ASSUME NEW o, P!replay_stage(o) PROVE UpdateInv'
  BY <1>12 DEF P!replay_stage, P!UpdateStageLock
<1> QED
  BY <1>1, <1>2, <1>3, <1>4, <1>5, <1>6, <1>7, <1>8, <1>9, <1>10, <1>11, <1>12 DEF P!Next

\* What update_verified holds was signed, whole and meant for the application that staged
\* it, a release and an operation have one stage, and a stage that was answered is there
\* unless it was answered by replays alone and never synced: for any number of stages, writes
\* to the file, failed calls, crashes and power losses (stage_internal, publish_stage,
\* sync_directory).
THEOREM StagesAreAsAnswered == SpecStorage => []StagedAsAnswered
<1>1. UpdateInv /\ [NextStorage]_allVars => UpdateInv'
  <2> SUFFICES ASSUME UpdateInv, [NextStorage]_allVars PROVE UpdateInv'
    OBVIOUS
  <2>1. CASE P!Next
    BY <2>1, UpdateNext
  <2>2. CASE UNCHANGED updateVars
    BY <2>2 DEF updateVars, UpdateInv, UpdateStage, P!stage_of
  <2> QED BY <2>1, <2>2, UpdateStep DEF allVars, closureVars
<1>2. UpdateInv => StagedAsAnswered
  BY DEF UpdateInv, StagedAsAnswered, P!StagedAsAnswered
<1> QED BY UpdateInit, <1>1, <1>2, PTL DEF SpecStorage

-----------------------------------------------------------------------------
(* Upgrades of the schema                                                  *)

\* The files between two upgrades.
Settled ==
    /\ database \in {"source", "target", "used"} /\ ~wal
    /\ source = "absent" /\ failed = "absent" /\ ~failedwal

\* A copy of the source is staged, and the database is in one of its two places, its
\* sidecar with it or left behind.
Prepared ==
    /\ source = "source" /\ database \in {"source", "partial", "target", "absent"}
    /\ (database = "absent") # (failed = "absent")
    /\ ~(wal /\ failedwal) /\ (failed = "absent" => ~failedwal)
Unmigrated == Prepared /\ database = "source" /\ ~wal
MovedAside == Prepared /\ database = "absent" /\ ~wal
Republished == database = "source" /\ ~wal /\ source = "absent" /\ failed # "absent"
Migrated == Prepared /\ database = "target" /\ ~wal

\* What the files may be when the journal names a phase.
FilesFit(p) ==
    \/ p = "prepared" /\ Prepared
    \/ p = "live_quarantined" /\ (MovedAside \/ Republished)
    \/ p = "source_published" /\ Republished
    \/ p = "verified" /\ (Republished \/ Migrated)

\* The journal is whole, or has lost its checksum in the last phase.
Recorded(p) == ujson = p /\ uhash = p /\ utjson = {} /\ uthash = {}
NoJournal == Recorded("none")
Ending == ujson = "verified" /\ uhash = "none" /\ utjson = {} /\ uthash = {}

\* Between two starts, the files are those of the phase that the next start will read.
Recoverable ==
    IF U!Pending THEN FilesFit(U!RecoveredPhase) ELSE Settled

\* While a phase is written the files fit the phase before and the one to come.
Writing ==
    /\ FilesFit(phase)
    /\ ujson = "none" => phase = "prepared"
    /\ phase = "prepared" => Unmigrated
    /\ place # "rename_hash" /\ ujson # "none" => FilesFit(ujson)
    /\ place = "write" => ujson = uhash /\ utjson = {} /\ uthash = {}
    /\ place = "rename_json" => ujson = uhash /\ utjson = {phase} /\ uthash = {phase}
    /\ place = "rename_hash" => ujson = phase /\ utjson = {} /\ uthash = {phase}

\* The files and the journal at each place of a start.  It is inductive because a start
\* that is cut off leaves what the phase it had reached expects.
UpgradeInv ==
    /\ then \in {"open", "down"} /\ wal \in BOOLEAN /\ failedwal \in BOOLEAN
    /\ \/ place = "down" /\ Recoverable
       \/ place = "recover" /\ Recoverable /\ U!Pending
       \/ place \in {"write", "rename_json", "rename_hash"} /\ Writing
       \/ place \in {"prepared", "quarantine"} /\ Recorded("prepared") /\ Prepared
       \/ place = "quarantine_wal" /\ Recorded("prepared") /\ Prepared /\ database = "absent"
       \/ place = "publish" /\ Recorded("live_quarantined") /\ (MovedAside \/ Republished)
       \/ place = "verify_source" /\ Recorded("source_published") /\ Republished
       \/ place = "cleanup" /\ (Recorded("verified") \/ Ending) /\ (Republished \/ Migrated)
       \/ place = "remove_json" /\ Ending /\ (Republished \/ Migrated)
       \/ place = "remove_operation" /\ NoJournal /\ (Republished \/ Migrated)
       \/ place = "open" /\ NoJournal /\ Settled
       \/ place = "up" /\ NoJournal /\ Settled /\ database # "source"
       \/ /\ place = "stage" /\ NoJournal /\ database = "source" /\ ~wal
          /\ failed = "absent" /\ ~failedwal
       \/ place = "migrate" /\ Recorded("prepared") /\ Prepared /\ database \in {"source", "partial"}
       \/ place = "checkpoint" /\ Recorded("prepared") /\ Prepared /\ database = "target"
       \/ place = "commit" /\ Recorded("prepared") /\ Migrated

LEMMA UpgradeStep == NextStorage => U!Next \/ UNCHANGED upgradeVars
  BY DEF NextStorage, Delete, upgradeVars

LEMMA UpgradeInit == InitStorage => UpgradeInv
<1> SUFFICES ASSUME InitStorage PROVE UpgradeInv
  OBVIOUS
<1>1. U!Init
  BY DEF InitStorage
<1> QED
  BY <1>1 DEF U!Init, U!Absent, U!None, UpgradeInv, Recoverable, U!Pending, Settled

LEMMA UpgradeSafe == UpgradeInv => UpgradeSettles
  BY DEF UpgradeInv, UpgradeSettles, U!UpgradeSettles, Settled, NoJournal, Recorded, U!Pending,
     U!None

\* The predicates on the files depend on the files alone, those on the journal on it.
LEMMA FilesKept ==
  ASSUME UNCHANGED <<database, wal, source, failed, failedwal>>
  PROVE  /\ Settled' = Settled /\ Prepared' = Prepared /\ Unmigrated' = Unmigrated
         /\ MovedAside' = MovedAside /\ Republished' = Republished /\ Migrated' = Migrated
         /\ \A p : FilesFit(p)' = FilesFit(p)
  BY DEF Settled, Prepared, Unmigrated, MovedAside, Republished, Migrated, FilesFit

\* What a start finds after a crash or an error at each place.
LEMMA CutOff ==
  ASSUME UpgradeInv, U!Running
  PROVE  IF U!Pending THEN FilesFit(U!RecoveredPhase)
                      ELSE database \in {"source", "target", "used"} /\ ~wal
  BY DEF UpgradeInv, U!Running, U!Pending, U!RecoveredPhase, U!None, Recoverable, Writing,
     Recorded, NoJournal, Ending, FilesFit, Prepared, Unmigrated, MovedAside, Republished,
     Migrated, Settled

\* The journal is written, or removed.
LEMMA UpgradeJournals ==
  ASSUME UpgradeInv,
         \/ U!write_temporaries \/ U!rename_json \/ U!rename_hash
         \/ U!remove_first \/ U!remove_rest \/ U!remove_operation
  PROVE  UpgradeInv'
<1> USE DEF U!Goto, U!files, U!aside, U!journal, U!None, U!Absent
<1>1. CASE U!write_temporaries
  <2>1. /\ place = "write" /\ Writing /\ place' = "rename_json"
        /\ utjson' = {phase} /\ uthash' = {phase}
        /\ UNCHANGED <<ujson, uhash, database, wal, source, failed, failedwal, phase, then>>
    BY <1>1 DEF U!write_temporaries, UpgradeInv, Writing
  <2> QED BY <2>1, FilesKept DEF UpgradeInv, Writing
<1>2. CASE U!rename_json
  <2>1. /\ place = "rename_json" /\ Writing /\ place' = "rename_hash"
        /\ ujson' = phase /\ utjson' = {} /\ uthash' = {phase}
        /\ UNCHANGED <<uhash, database, wal, source, failed, failedwal, phase, then>>
    BY <1>2 DEF U!rename_json, UpgradeInv, Writing
  <2>2. phase # "none"
    BY <2>1 DEF Writing, FilesFit
  <2> QED BY <2>1, <2>2, FilesKept DEF UpgradeInv, Writing
<1>3. CASE U!rename_hash
  <2>1. /\ place = "rename_hash" /\ Writing /\ place' = U!Written /\ Recorded(phase)'
        /\ UNCHANGED <<database, wal, source, failed, failedwal, phase, then>>
    BY <1>3 DEF U!rename_hash, UpgradeInv, Writing, Recorded
  <2> QED BY <2>1, FilesKept
    DEF UpgradeInv, Writing, FilesFit, U!Written, Recorded, Migrated, MovedAside, Republished, Prepared, Unmigrated
<1>4. CASE U!remove_first
  <2>1. /\ place = "cleanup" /\ (Republished \/ Migrated) /\ place' = "remove_json" /\ Ending'
        /\ UNCHANGED <<database, wal, source, failed, failedwal, then>>
    BY <1>4 DEF U!remove_first, U!first_removed, UpgradeInv, Recorded, Ending
  <2> QED BY <2>1, FilesKept DEF UpgradeInv
<1>5. CASE U!remove_rest
  <2>1. /\ place = "remove_json" /\ (Republished \/ Migrated) /\ place' = "remove_operation"
        /\ NoJournal'
        /\ UNCHANGED <<database, wal, source, failed, failedwal, then>>
    BY <1>5 DEF U!remove_rest, UpgradeInv, NoJournal, Recorded
  <2> QED BY <2>1, FilesKept DEF UpgradeInv
<1>6. CASE U!remove_operation
  BY <1>6 DEF U!remove_operation, UpgradeInv, NoJournal, Recorded, Republished, Migrated, Prepared,
     Settled, Recoverable, U!Pending
<1> QED BY <1>1, <1>2, <1>3, <1>4, <1>5, <1>6

\* A start, and the undoing of an upgrade that was cut off.
LEMMA UpgradeRecovers ==
  ASSUME UpgradeInv,
         \/ U!Start \/ U!recover_interrupted_upgrade \/ U!recover_prepared
         \/ U!quarantine_main \/ U!quarantine_wal \/ U!publish_upgrade_source
         \/ U!verify_upgrade_source_database
  PROVE  UpgradeInv'
<1> USE DEF U!Goto, U!Stuck, U!Write, U!files, U!aside, U!journal, U!None, U!Absent
<1>1. CASE U!Start
  BY <1>1 DEF U!Start, UpgradeInv, Recoverable, U!Pending, U!RecoveredPhase, NoJournal, Recorded,
     Settled, FilesFit, Prepared, MovedAside, Republished, Migrated
<1>2. CASE U!recover_interrupted_upgrade
  <2> DEFINE r == U!RecoveredPhase
  <2>1. FilesFit(r) /\ r # "none" /\ then \in {"open", "down"} /\ wal \in BOOLEAN
        /\ failedwal \in BOOLEAN
    BY <1>2 DEF U!recover_interrupted_upgrade, UpgradeInv, Recoverable, FilesFit
  <2>2. /\ phase' = r /\ ujson' = r /\ utjson' = {} /\ uthash' = {}
        /\ uhash' = IF uhash = "none" /\ ujson \notin uthash THEN "none" ELSE r
        /\ place' = CASE r = "prepared" -> "prepared"
                      [] r = "live_quarantined" -> "publish"
                      [] r = "source_published" -> "verify_source"
                      [] r = "verified" /\ U!verify_terminal_upgrade_database -> "cleanup"
                      [] OTHER -> "stuck"
        /\ UNCHANGED <<database, wal, source, failed, failedwal, then>>
    BY <1>2, <2>1 DEF U!recover_interrupted_upgrade
  <2>3. uhash' = r \/ (r = "verified" /\ uhash' = "none")
    BY <2>1, <2>2 DEF U!RecoveredPhase
  <2> HIDE DEF r
  <2>4. CASE r = "prepared"
    <3>1. Prepared
      BY <2>1, <2>4 DEF FilesFit
    <3> QED BY <2>1, <2>2, <2>3, <2>4, <3>1, FilesKept DEF UpgradeInv, Recorded
  <2>5. CASE r = "live_quarantined"
    <3>1. MovedAside \/ Republished
      BY <2>1, <2>5 DEF FilesFit
    <3> QED BY <2>1, <2>2, <2>3, <2>5, <3>1, FilesKept DEF UpgradeInv, Recorded
  <2>6. CASE r = "source_published"
    <3>1. Republished
      BY <2>1, <2>6 DEF FilesFit
    <3> QED BY <2>1, <2>2, <2>3, <2>6, <3>1, FilesKept DEF UpgradeInv, Recorded
  <2>7. CASE r = "verified"
    <3>1. Republished \/ Migrated
      BY <2>1, <2>7 DEF FilesFit
    <3>2. U!verify_terminal_upgrade_database
      BY <3>1 DEF U!verify_terminal_upgrade_database, Republished, Migrated, Prepared
    <3> QED BY <2>1, <2>2, <2>3, <2>7, <3>1, <3>2, FilesKept DEF UpgradeInv, Recorded, Ending
  <2> QED BY <2>1, <2>4, <2>5, <2>6, <2>7 DEF FilesFit
<1>3. CASE U!recover_prepared
  BY <1>3 DEF U!recover_prepared, UpgradeInv, Recorded, Prepared
<1>4. CASE U!quarantine_main
  BY <1>4 DEF U!quarantine_main, UpgradeInv, Recorded, Prepared
<1>5. CASE U!quarantine_wal
  BY <1>5 DEF U!quarantine_wal, U!moved_wal, UpgradeInv, Recorded, Prepared, MovedAside, Writing, FilesFit
<1>6. CASE U!publish_upgrade_source
  BY <1>6 DEF U!publish_upgrade_source, UpgradeInv, Recorded, Prepared, MovedAside, Republished, Writing, FilesFit
<1>7. CASE U!verify_upgrade_source_database
  BY <1>7 DEF U!verify_upgrade_source_database, UpgradeInv, Recorded, Republished, Writing, FilesFit
<1> QED BY <1>1, <1>2, <1>3, <1>4, <1>5, <1>6, <1>7

\* The upgrade itself, its use, and what cuts it off.
LEMMA UpgradeRuns ==
  ASSUME UpgradeInv,
         \/ U!open \/ U!prepare_upgrade_recovery \/ U!apply_migrations \/ U!checkpoint
         \/ U!commit_upgrade_recovery \/ U!use \/ U!Quit \/ U!Crash \/ U!Error
  PROVE  UpgradeInv'
<1> USE DEF U!Goto, U!Write, U!files, U!aside, U!journal, U!None, U!Absent
<1>1. CASE U!open
  BY <1>1 DEF U!open, UpgradeInv, Settled, NoJournal, Recorded
<1>2. CASE U!prepare_upgrade_recovery
  BY <1>2 DEF U!prepare_upgrade_recovery, UpgradeInv, NoJournal, Recorded, Writing, FilesFit,
     Prepared, Unmigrated
<1>3. CASE U!apply_migrations
  BY <1>3 DEF U!apply_migrations, UpgradeInv, Recorded, Prepared
<1>4. CASE U!checkpoint
  BY <1>4 DEF U!checkpoint, UpgradeInv, Recorded, Prepared, Migrated
<1>5. CASE U!commit_upgrade_recovery
  BY <1>5 DEF U!commit_upgrade_recovery, UpgradeInv, Recorded, Prepared, Migrated, Writing, FilesFit
<1>6. CASE U!use
  BY <1>6 DEF U!use, UpgradeInv, NoJournal, Recorded, Settled
<1>7. CASE U!Quit
  BY <1>7 DEF U!Quit, U!Rest, UpgradeInv, NoJournal, Recorded, Settled, Recoverable, U!Pending
<1>8. CASE U!Crash
  <2>1. /\ place' = "down" /\ U!Running /\ U!Forget
        /\ UNCHANGED <<ujson, uhash, utjson, uthash, then>>
    BY <1>8 DEF U!Crash
  <2>2. U!Pending' = U!Pending /\ U!RecoveredPhase' = U!RecoveredPhase
    BY <2>1 DEF U!Pending, U!RecoveredPhase
  <2>3. Recoverable'
    <3>1. CASE U!Pending
      <4>1. UNCHANGED <<database, wal, source, failed, failedwal>>
        BY <2>1, <3>1 DEF U!Forget, UpgradeInv
      <4> QED BY <2>1, <2>2, <3>1, <4>1, CutOff, FilesKept DEF Recoverable
    <3>2. CASE ~U!Pending
      BY <2>1, <2>2, <3>2, CutOff DEF U!Forget, Recoverable, Settled
    <3> QED BY <3>1, <3>2
  <2>5. wal' \in BOOLEAN /\ failedwal' \in BOOLEAN /\ then' \in {"open", "down"}
    BY <2>1 DEF U!Forget, UpgradeInv
  <2> QED BY <2>1, <2>3, <2>5 DEF UpgradeInv
<1>9. CASE U!Error
  <2>1. /\ U!Running /\ U!Forget
        /\ UNCHANGED <<ujson, uhash, utjson, uthash>>
        /\ \/ place \in {"migrate", "checkpoint"} /\ place' = "recover" /\ then' = "down"
           \/ place' = "down" /\ then' = then
    BY <1>9 DEF U!Error
  <2>2. U!Pending' = U!Pending /\ U!RecoveredPhase' = U!RecoveredPhase
    BY <2>1 DEF U!Pending, U!RecoveredPhase
  <2>3. Recoverable'
    <3>1. CASE U!Pending
      <4>1. UNCHANGED <<database, wal, source, failed, failedwal>>
        BY <2>1, <3>1 DEF U!Forget, UpgradeInv
      <4> QED BY <2>1, <2>2, <3>1, <4>1, CutOff, FilesKept DEF Recoverable
    <3>2. CASE ~U!Pending
      BY <2>1, <2>2, <3>2, CutOff DEF U!Forget, Recoverable, Settled
    <3> QED BY <3>1, <3>2
  <2>5. wal' \in BOOLEAN /\ failedwal' \in BOOLEAN /\ then' \in {"open", "down"}
    BY <2>1 DEF U!Forget, UpgradeInv
  <2>4. place \in {"migrate", "checkpoint"} => U!Pending
    BY DEF UpgradeInv, Recorded, U!Pending
  <2> QED BY <2>1, <2>2, <2>3, <2>4, <2>5 DEF UpgradeInv
<1> QED BY <1>1, <1>2, <1>3, <1>4, <1>5, <1>6, <1>7, <1>8, <1>9

\* Wherever an upgrade and the undoing of it are cut off, and however often, a later start
\* gets on, opens no half migrated database and undoes nothing the user has worked with
\* (recover_interrupted_upgrade, commit_upgrade_recovery).
THEOREM UpgradesSettle == SpecStorage => []UpgradeSettles
<1>1. UpgradeInv /\ [NextStorage]_allVars => UpgradeInv'
  <2> SUFFICES ASSUME UpgradeInv, [NextStorage]_allVars PROVE UpgradeInv'
    OBVIOUS
  <2>1. CASE U!Next
    BY <2>1, UpgradeJournals, UpgradeRecovers, UpgradeRuns DEF U!Next
  <2>2. CASE UNCHANGED upgradeVars
    <3>1. /\ UNCHANGED <<database, wal, source, failed, failedwal>>
          /\ UNCHANGED <<ujson, uhash, utjson, uthash, place, phase, then>>
      BY <2>2 DEF upgradeVars
    <3>2. U!Pending' = U!Pending /\ U!RecoveredPhase' = U!RecoveredPhase
      BY <3>1 DEF U!Pending, U!RecoveredPhase
    <3> QED BY <3>1, <3>2, FilesKept
      DEF UpgradeInv, Recoverable, Writing, Recorded, NoJournal, Ending
  <2> QED BY <2>1, <2>2, UpgradeStep DEF allVars
<1> QED BY UpgradeInit, UpgradeSafe, <1>1, PTL DEF SpecStorage

-----------------------------------------------------------------------------
(* The diagnostic log and its export                                       *)

Logs == [exists : BOOLEAN, good : Nat, bad : Nat, torn : BOOLEAN, size : Nat]
ExportCalls ==
    [at : {"idle", "snapshot", "report", "temporary", "renamed"}, number : Nat]

\* What the files hold, and the command under way.
DiagnosticsTypeOK ==
    /\ log \in Logs /\ dropped \in Nat
    /\ export \in ExportCalls
    /\ destination \in Nat /\ unsynced \in BOOLEAN /\ IsFiniteSet(temporaries)
    /\ reported \in Nat /\ emitted \in Nat /\ untraced \in Nat /\ theirs \in BOOLEAN
    /\ meddled \in Nat /\ cuts \in Nat /\ failures \in Nat

\* Every event is somewhere, unless the file shows damage: a line that a later one was
\* joined to is bad from then on.
EventsAddUp ==
    log.bad = 0 /\ ~log.torn => log.good + dropped + untraced = emitted

\* Why a rename that the power takes back is not one that was answered, nor another
\* program's file: the destination was free for it.
RenamesAreOurs ==
    /\ export.at # "idle" => export.number > 0
    /\ unsynced => destination # D!NoFile /\ ~theirs /\ export.at # "temporary"
    /\ unsynced /\ reported > 0 => reported \in taken
    /\ theirs => destination = D!Foreign
    /\ reported > 0 => destination = reported \/ reported \in taken

\* A temporary file is of the export under way, or a crash left it behind.
TemporariesAreOwned ==
    /\ export.at = "temporary" =>
         export.number \in temporaries /\ Cardinality(temporaries) <= cuts + 1
    /\ export.at # "temporary" => Cardinality(temporaries) <= cuts

DiagnosticsInv == DiagnosticsTypeOK /\ EventsAddUp /\ RenamesAreOurs /\ TemporariesAreOwned

-----------------------------------------------------------------------------
(* A report can be made                                                    *)

\* The size of a set is the same thing here and in the module that the log is an instance of.
LEMMA SizesAgree == ASSUME NEW S PROVE D!Cardinality(S) = Cardinality(S)
  BY DEF Cardinality, D!Cardinality

LEMMA RunsAreFinite == IsFiniteSet(D!Runs)
<1> DEFINE a == [state |-> "in_progress", deadline |-> "ahead"]
           b == [state |-> "in_progress", deadline |-> "past"]
           c == [state |-> "needs_attention", deadline |-> "past"]
           d == [state |-> "complete", deadline |-> "past"]
<1>1. D!Runs \subseteq {a} \cup {b} \cup {c} \cup {d}
  <2> SUFFICES ASSUME NEW r \in D!Runs PROVE r \in {a, b, c, d}
    OBVIOUS
  <2>1. /\ r = [state |-> r.state, deadline |-> r.deadline]
        /\ \/ r.state = "in_progress" /\ r.deadline \in {"ahead", "past"}
           \/ r.state \in {"needs_attention", "complete"} /\ r.deadline = "past"
    BY DEF D!Runs, D!Deadlines
  <2> QED BY <2>1
<1>2. /\ IsFiniteSet({a}) /\ IsFiniteSet({b})
      /\ IsFiniteSet({c}) /\ IsFiniteSet({d})
  BY FS_Singleton
<1> HIDE DEF a, b, c, d
<1>3. IsFiniteSet({a} \cup {b})
  BY <1>2, FS_Union
<1>4. IsFiniteSet({a} \cup {b} \cup {c})
  BY <1>2, <1>3, FS_Union
<1>5. IsFiniteSet({a} \cup {b} \cup {c} \cup {d})
  BY <1>2, <1>4, FS_Union
<1> QED BY <1>1, <1>5, FS_Subset

\* A count is a number, and nought only when there is nothing to count.
LEMMA CountsCount ==
    ASSUME NEW base, base.runs \subseteq D!Runs, NEW state, NEW deadlines
    PROVE  /\ D!Count(base, state, deadlines) \in Nat
           /\ D!Count(base, state, deadlines) = 0
                <=> \A r \in base.runs : ~(r.state = state /\ r.deadline \in deadlines)
<1> DEFINE counted == {r \in base.runs : r.state = state /\ r.deadline \in deadlines}
<1>1. IsFiniteSet(counted)
  BY RunsAreFinite, FS_Subset
<1>2. Cardinality(counted) \in Nat /\ (Cardinality(counted) = 0 <=> counted = {})
  <2> HIDE DEF counted
  <2>1. Cardinality(counted) \in Nat
    BY <1>1, FS_CardinalityType
  <2>2. Cardinality(counted) = 0 <=> counted = {}
    BY <1>1, FS_EmptySet
  <2> QED BY <2>1, <2>2
<1>3. D!Count(base, state, deadlines) = Cardinality(counted)
  <2> HIDE DEF counted
  <2>1. D!Count(base, state, deadlines) = D!Cardinality(counted)
    BY DEF D!Count, counted
  <2> QED BY <2>1, SizesAgree
<1> QED BY <1>2, <1>3

LEMMA DeletionHealthIsValid ==
    ASSUME NEW base, base.runs \subseteq D!Runs
    PROVE  D!deletion_health_is_valid(D!deletion_health(base))
<1> DEFINE in_progress == D!Count(base, "in_progress", {"ahead"})
           overdue == D!Count(base, "in_progress", {"past"})
           needs_attention == D!Count(base, "needs_attention", D!Deadlines)
           deadline == \E r \in base.runs : r.state # "complete"
           status == IF needs_attention > 0 THEN "needs_attention"
                     ELSE IF overdue > 0 THEN "overdue"
                     ELSE IF in_progress > 0 THEN "in_progress" ELSE "none"
<1>1. \A r \in base.runs :
        /\ r.state \in {"in_progress", "needs_attention", "complete"}
        /\ r.deadline \in {"ahead", "past"}
  BY DEF D!Runs, D!Deadlines
<1>2. /\ in_progress \in Nat /\ overdue \in Nat /\ needs_attention \in Nat
      /\ in_progress = 0 <=> \A r \in base.runs : ~(r.state = "in_progress" /\ r.deadline = "ahead")
      /\ overdue = 0 <=> \A r \in base.runs : ~(r.state = "in_progress" /\ r.deadline = "past")
      /\ needs_attention = 0 <=> \A r \in base.runs : r.state # "needs_attention"
  BY <1>1, CountsCount DEF D!Deadlines
<1>3. deadline <=> in_progress > 0 \/ overdue > 0 \/ needs_attention > 0
  <2>1. ASSUME deadline
        PROVE  in_progress # 0 \/ overdue # 0 \/ needs_attention # 0
    BY <1>1, <1>2, <2>1
  <2>2. ASSUME ~deadline
        PROVE  in_progress = 0 /\ overdue = 0 /\ needs_attention = 0
    BY <1>1, <1>2, <2>2
  <2> HIDE DEF in_progress, overdue, needs_attention, deadline
  <2> QED BY <2>1, <2>2, <1>2
<1>4. D!deletion_health(base) =
        [status |-> status, deadline |-> deadline, in_progress |-> in_progress,
         overdue |-> overdue, needs_attention |-> needs_attention]
  BY DEF D!deletion_health
<1>5. deadline \in BOOLEAN
  OBVIOUS
<1> DEFINE h == D!deletion_health(base)
<1> HIDE DEF in_progress, overdue, needs_attention, deadline
<1>6. /\ h.status = status /\ h.deadline = deadline /\ h.in_progress = in_progress
      /\ h.overdue = overdue /\ h.needs_attention = needs_attention
  BY <1>4
<1> HIDE DEF h
<1>7. D!deletion_health_is_valid(h)
  <2>1. h.status = "none" =>
          h.in_progress + h.overdue + h.needs_attention = 0 /\ ~h.deadline
    BY <1>2, <1>3, <1>5, <1>6
  <2>2. h.status = "in_progress" =>
          h.in_progress > 0 /\ h.overdue = 0 /\ h.needs_attention = 0 /\ h.deadline
    BY <1>2, <1>3, <1>5, <1>6
  <2>3. h.status = "overdue" => h.overdue > 0 /\ h.needs_attention = 0 /\ h.deadline
    BY <1>2, <1>3, <1>5, <1>6
  <2>4. h.status = "needs_attention" => h.needs_attention > 0 /\ h.deadline
    BY <1>2, <1>3, <1>5, <1>6
  <2>5. h.status \in {"none", "in_progress", "overdue", "needs_attention"}
    BY <1>6
  <2> HIDE DEF status
  <2> QED BY <2>1, <2>2, <2>3, <2>4, <2>5, Zenon DEF D!deletion_health_is_valid
<1> QED BY <1>7 DEF h

LEMMA FewFailuresAreSorted ==
    ASSUME NEW base, base.failed_attempts \subseteq {9, 10}, Cardinality(base.failed_attempts) <= 1
    PROVE  D!job_failures_are_sorted(base)
<1> SUFFICES ASSUME 9 \in base.failed_attempts, 10 \in base.failed_attempts PROVE FALSE
  BY DEF D!job_failures_are_sorted, D!TextBefore
<1>1. base.failed_attempts = {9} \cup {10}
  OBVIOUS
<1>2. IsFiniteSet({9}) /\ Cardinality({9}) = 1
  BY FS_Singleton
<1>3. Cardinality({9} \cup {10}) = 2
  BY <1>2, FS_AddElement
<1> QED BY <1>1, <1>3

LEMMA AReportIsPossible == D!ReportIsPossible
<1> SUFFICES ASSUME NEW base \in D!Databases, D!project_report(base),
                    Cardinality(base.failed_attempts) <= 1
             PROVE  D!report_is_valid(base)
  BY SizesAgree, Zenon DEF D!ReportIsPossible
<1>1. /\ base.runs \subseteq D!Runs /\ base.failed_attempts \subseteq {9, 10}
      /\ base.check \in {"none", "queued", "running", "succeeded", "failed"}
  BY DEF D!Databases
<1>2. D!storage_health(base) \in {"ready", "needs_attention", "never_run"}
  BY <1>1 DEF D!storage_health
<1> QED BY <1>1, <1>2, DeletionHealthIsValid, FewFailuresAreSorted DEF D!report_is_valid

-----------------------------------------------------------------------------
(* The log, the destination and the temporary files                        *)

LEMMA DiagnosticsStep == NextStorage => D!Next \/ UNCHANGED diagnosticsVars
  BY DEF NextStorage, Delete, keepVars, closureVars, diagnosticsVars

LEMMA DiagnosticsInit == InitStorage => DiagnosticsInv
<1> SUFFICES ASSUME InitStorage PROVE DiagnosticsInv
  OBVIOUS
<1>1. D!Init
  BY DEF InitStorage
<1>2. IsFiniteSet({}) /\ Cardinality({}) = 0
  BY FS_EmptySet
<1>3. DiagnosticsTypeOK
  BY <1>1, <1>2 DEF D!Init, D!NoLog, D!Idle, D!NoFile, DiagnosticsTypeOK, Logs, ExportCalls
<1>4. EventsAddUp
  BY <1>1 DEF D!Init, D!NoLog, EventsAddUp
<1>5. RenamesAreOurs
  BY <1>1 DEF D!Init, D!Idle, RenamesAreOurs
<1>6. TemporariesAreOwned
  BY <1>1, <1>2 DEF D!Init, D!Idle, TemporariesAreOwned
<1> QED BY <1>3, <1>4, <1>5, <1>6 DEF DiagnosticsInv

\* One step per action that disturbs the log.
LEMMA LogNext == DiagnosticsTypeOK /\ EventsAddUp /\ D!Next =>
    /\ log' \in Logs /\ dropped' \in Nat /\ emitted' \in Nat /\ untraced' \in Nat
    /\ EventsAddUp'
<1> SUFFICES ASSUME DiagnosticsTypeOK, EventsAddUp, D!Next
             PROVE  /\ log' \in Logs /\ dropped' \in Nat /\ emitted' \in Nat /\ untraced' \in Nat
                    /\ EventsAddUp'
  OBVIOUS
<1> USE DEF DiagnosticsTypeOK, Logs, EventsAddUp
<1>1. CASE D!append
  <2>1. emitted' = emitted + 1 /\ dropped' = dropped /\ untraced' = untraced
    BY <1>1 DEF D!append, D!Emits
  <2>2. log' = [exists |-> TRUE, good |-> IF log.torn THEN log.good ELSE log.good + 1,
                bad |-> IF log.torn THEN log.bad + 1 ELSE log.bad, torn |-> FALSE,
                size |-> log.size + 1]
    BY <1>1 DEF D!append
  <2>3. CASE log.torn
    <3>1. log' = [exists |-> TRUE, good |-> log.good, bad |-> log.bad + 1, torn |-> FALSE,
                  size |-> log.size + 1]
      BY <2>2, <2>3
    <3> QED BY <2>1, <3>1
  <2>4. CASE ~log.torn
    <3>1. log' = [exists |-> TRUE, good |-> log.good + 1, bad |-> log.bad, torn |-> FALSE,
                  size |-> log.size + 1]
      BY <2>2, <2>4
    <3> QED BY <2>1, <2>4, <3>1
  <2> QED BY <2>3, <2>4
<1>2. CASE D!increment_dropped
  BY <1>2 DEF D!increment_dropped, D!Emits
<1>3. CASE D!append_fails
  <2>1. emitted' = emitted + 1 /\ dropped' = dropped
    BY <1>3 DEF D!append_fails, D!Emits
  <2>2. CASE untraced' = untraced + 1 /\ UNCHANGED log
    BY <2>1, <2>2
  <2>3. CASE /\ log' = [log EXCEPT !.exists = TRUE, !.size = @ + 1, !.torn = TRUE]
             /\ UNCHANGED untraced
    <3>1. log' = [exists |-> TRUE, good |-> log.good, bad |-> log.bad, torn |-> TRUE,
                  size |-> log.size + 1]
      BY <2>3
    <3>2. log' \in Logs
      BY <3>1
    <3>3. log'.torn
      BY <3>1
    <3> QED BY <2>1, <2>3, <3>2, <3>3
  <2> QED BY <1>3, <2>2, <2>3 DEF D!append_fails
<1>4. CASE D!restart
  BY <1>4 DEF D!restart
<1>5. CASE UNCHANGED D!logVars
  BY <1>5 DEF D!logVars
<1>6. D!append \/ D!increment_dropped \/ D!append_fails \/ D!restart \/ UNCHANGED D!logVars
  BY DEF D!Next, D!begin_export, D!read_database, D!reject_destination,
         D!open_unique_temporary, D!publish_report, D!unlink_if_owned, D!verify_published,
         D!verify_fails, D!meddle, D!logVars
<1> QED BY <1>1, <1>2, <1>3, <1>4, <1>5, <1>6

\* The file of the destination, the directory entry and the history.
Published == /\ export' \in ExportCalls /\ destination' \in Nat /\ unsynced' \in BOOLEAN
             /\ reported' \in Nat /\ theirs' \in BOOLEAN /\ meddled' \in Nat
             /\ cuts' \in Nat /\ failures' \in Nat
             /\ RenamesAreOurs'

\* One step per action.
LEMMA PublishedNext == DiagnosticsTypeOK /\ RenamesAreOurs /\ D!Next => Published
<1> SUFFICES ASSUME DiagnosticsTypeOK, RenamesAreOurs, D!Next PROVE Published
  OBVIOUS
<1> USE DEF DiagnosticsTypeOK, ExportCalls, RenamesAreOurs, Published, D!NoFile, D!Foreign,
            D!fileVars, D!Goes, D!Ends, D!Idle
<1>1. CASE D!append \/ D!increment_dropped
  BY <1>1 DEF D!append, D!increment_dropped
<1>2. CASE D!append_fails
  BY <1>2 DEF D!append_fails, D!Fault
<1>3. CASE D!begin_export
  BY <1>3 DEF D!begin_export
<1>4. CASE D!read_database
  BY <1>4 DEF D!read_database
<1>5. CASE D!reject_destination
  BY <1>5 DEF D!reject_destination
<1>6. CASE D!open_unique_temporary
  BY <1>6 DEF D!open_unique_temporary
<1>7. CASE D!publish_report
  <2>1. export.at = "temporary" /\ destination = 0 /\ ~unsynced /\ ~theirs
    BY <1>7, DiagnosticsAssumption DEF D!publish_report, D!rename_no_replace
  <2>2. /\ destination' = export.number /\ unsynced' = TRUE
        /\ export' = [at |-> "renamed", number |-> export.number]
        /\ reported' = reported /\ theirs' = theirs /\ meddled' = meddled
        /\ taken' = taken /\ cuts' = cuts /\ failures' = failures
    BY <1>7 DEF D!publish_report
  <2> QED BY <2>1, <2>2
<1>8. CASE D!unlink_if_owned
  BY <1>8 DEF D!unlink_if_owned, D!Fault
<1>9. CASE D!verify_published
  BY <1>9 DEF D!verify_published
<1>10. CASE D!verify_fails
  BY <1>10 DEF D!verify_fails, D!Fault
<1>11. CASE D!meddle
  <2>1. /\ meddled' = meddled + 1 /\ unsynced' = FALSE
        /\ export' = export /\ reported' = reported
        /\ cuts' = cuts /\ failures' = failures
    BY <1>11 DEF D!meddle
  <2>2. ~unsynced' /\ (reported > 0 => reported \in taken')
    BY <1>11, <2>1 DEF D!meddle
  <2>3. CASE destination' = D!Foreign /\ theirs' = TRUE
    <3>1. export' \in ExportCalls /\ reported' \in Nat /\ cuts' \in Nat /\ failures' \in Nat
      BY <2>1
    <3>2. destination' \in Nat /\ meddled' \in Nat
      BY <2>1, <2>3, DiagnosticsAssumption
    <3>3. theirs' \in BOOLEAN /\ unsynced' \in BOOLEAN
      BY <2>1, <2>3
    <3>4. RenamesAreOurs'
      BY <2>1, <2>2, <2>3
    <3> QED BY <3>1, <3>2, <3>3, <3>4
  <2>4. CASE destination' = 0 /\ theirs' = FALSE
    <3>1. ~theirs'
      BY <2>4
    <3>2. export' \in ExportCalls /\ reported' \in Nat /\ cuts' \in Nat /\ failures' \in Nat
      BY <2>1
    <3>3. destination' \in Nat /\ meddled' \in Nat
      BY <2>1, <2>4
    <3>4. theirs' \in BOOLEAN /\ unsynced' \in BOOLEAN
      BY <2>1, <2>4
    <3>5. RenamesAreOurs'
      BY <2>1, <2>2, <3>1
    <3> QED BY <3>2, <3>3, <3>4, <3>5
  <2>5. \/ destination' = D!Foreign /\ theirs' = TRUE
        \/ destination' = 0 /\ theirs' = FALSE
    BY <1>11 DEF D!meddle
  <2> QED BY <2>3, <2>4, <2>5
<1>12. CASE D!restart
  <2>1. /\ export' = [at |-> "idle", number |-> export.number] /\ unsynced' = FALSE
        /\ failures' = failures + 1
        /\ cuts' = cuts + 1
        /\ reported' = reported /\ theirs' = theirs /\ taken' = taken /\ meddled' = meddled
    BY <1>12 DEF D!restart, D!Fault
  <2>2. ~unsynced'
    BY <2>1
  <2>3. destination' = destination \/ (unsynced /\ destination' = 0)
    <3>1. CASE UNCHANGED <<destination, temporaries>>
      <4>1. destination' = destination
        BY <3>1
      <4> QED BY <4>1
    <3>2. CASE unsynced /\ destination' = D!NoFile
      BY <3>2
    <3> QED BY <1>12, <3>1, <3>2 DEF D!restart
  <2>4. export' \in ExportCalls /\ reported' \in Nat /\ cuts' \in Nat /\ failures' \in Nat
    BY <2>1
  <2>5. destination' \in Nat /\ meddled' \in Nat
    BY <2>1, <2>3
  <2>6. theirs' \in BOOLEAN /\ unsynced' \in BOOLEAN
    BY <2>1
  <2>7. RenamesAreOurs'
    BY <2>1, <2>2, <2>3
  <2> QED BY <2>4, <2>5, <2>6, <2>7
<1> QED BY <1>1, <1>2, <1>3, <1>4, <1>5, <1>6, <1>7, <1>8, <1>9, <1>10, <1>11, <1>12
        DEF D!Next

\* Putting a file in, or taking one out, changes the number by no more than one.
LEMMA OneMoreOrLess ==
    ASSUME NEW S, IsFiniteSet(S), NEW x
    PROVE  /\ Cardinality(S) \in Nat
           /\ IsFiniteSet(S \cup {x}) /\ Cardinality(S \cup {x}) \in Nat
           /\ Cardinality(S \cup {x}) <= Cardinality(S) + 1
           /\ IsFiniteSet(S \ {x}) /\ Cardinality(S \ {x}) \in Nat
           /\ x \in S => Cardinality(S \ {x}) = Cardinality(S) - 1
           /\ Cardinality(S \ {x}) <= Cardinality(S)
<1>1. Cardinality(S) \in Nat
  BY FS_CardinalityType
<1>2. /\ IsFiniteSet(S \cup {x})
      /\ Cardinality(S \cup {x}) = IF x \in S THEN Cardinality(S) ELSE Cardinality(S) + 1
  BY FS_AddElement
<1>3. /\ IsFiniteSet(S \ {x})
      /\ Cardinality(S \ {x}) = IF x \in S THEN Cardinality(S) - 1 ELSE Cardinality(S)
  BY FS_RemoveElement
<1>4. x \in S => Cardinality(S) # 0
  BY FS_EmptySet
<1> QED BY <1>1, <1>2, <1>3, <1>4

\* One step per action that makes or removes a temporary file, or ends the export.
LEMMA TemporariesNext ==
    DiagnosticsTypeOK /\ RenamesAreOurs /\ TemporariesAreOwned /\ D!Next =>
        IsFiniteSet(temporaries') /\ TemporariesAreOwned'
<1> SUFFICES ASSUME DiagnosticsTypeOK, RenamesAreOurs, TemporariesAreOwned, D!Next
             PROVE  IsFiniteSet(temporaries') /\ TemporariesAreOwned'
  OBVIOUS
<1>1. Cardinality(temporaries) \in Nat /\ cuts \in Nat
  BY OneMoreOrLess DEF DiagnosticsTypeOK
<1> USE <1>1 DEF DiagnosticsTypeOK, ExportCalls, TemporariesAreOwned, D!fileVars, D!Goes,
            D!Ends, D!Idle
<1>2. CASE D!append \/ D!increment_dropped \/ D!meddle
  BY <1>2 DEF D!append, D!increment_dropped, D!meddle
<1>3. CASE D!append_fails
  BY <1>3 DEF D!append_fails
<1>4. CASE D!begin_export \/ D!read_database \/ D!reject_destination
  BY <1>4 DEF D!begin_export, D!read_database, D!reject_destination
<1>5. CASE D!open_unique_temporary
  <2>1. CASE destination = 0
    <3>1. /\ export' = [at |-> "temporary", number |-> export.number]
          /\ temporaries' = temporaries \cup {export.number} /\ cuts' = cuts
          /\ export.at = "report"
      BY <1>5, <2>1 DEF D!open_unique_temporary, D!NoFile
    <3>2. IsFiniteSet(temporaries') /\ Cardinality(temporaries') <= Cardinality(temporaries) + 1
      BY <3>1, OneMoreOrLess
    <3>3. Cardinality(temporaries') \in Nat
      BY <3>1, OneMoreOrLess
    <3> QED BY <3>1, <3>2, <3>3
  <2>2. CASE destination # 0
    <3>1. /\ export' = [at |-> "idle", number |-> export.number]
          /\ temporaries' = temporaries /\ cuts' = cuts /\ export.at = "report"
      BY <1>5, <2>2 DEF D!open_unique_temporary, D!NoFile
    <3> QED BY <3>1
  <2> QED BY <2>1, <2>2
<1>6. CASE D!publish_report
  <2>1. /\ export' = [at |-> "renamed", number |-> export.number] /\ export.at = "temporary"
        /\ temporaries' = temporaries \ {export.number} /\ cuts' = cuts
    BY <1>6 DEF D!publish_report
  <2>2. /\ IsFiniteSet(temporaries') /\ Cardinality(temporaries') \in Nat
        /\ Cardinality(temporaries') = Cardinality(temporaries) - 1
    BY <2>1, OneMoreOrLess
  <2> QED BY <2>1, <2>2
<1>7. CASE D!unlink_if_owned
  <2>1. /\ export' = [at |-> "idle", number |-> export.number] /\ export.at = "temporary"
        /\ temporaries' = temporaries \ {export.number}
    BY <1>7 DEF D!unlink_if_owned
  <2>2. cuts' = cuts
    BY <1>7 DEF D!unlink_if_owned
  <2>3. /\ IsFiniteSet(temporaries') /\ Cardinality(temporaries') \in Nat
        /\ Cardinality(temporaries') = Cardinality(temporaries) - 1
    BY <2>1, OneMoreOrLess
  <2> QED BY <2>1, <2>2, <2>3
<1>8. CASE D!verify_published \/ D!verify_fails
  BY <1>8 DEF D!verify_published, D!verify_fails
<1>9. CASE D!restart
  <2>1. /\ export' = [at |-> "idle", number |-> export.number] /\ cuts' = cuts + 1
        /\ \/ temporaries' = temporaries
           \/ unsynced /\ temporaries' = temporaries \cup {destination}
    BY <1>9 DEF D!restart
  <2>2. CASE temporaries' = temporaries
    BY <2>1, <2>2
  <2>3. CASE unsynced /\ temporaries' = temporaries \cup {destination}
    <3>1. export.at # "temporary"
      BY <2>3 DEF RenamesAreOurs
    <3>2. /\ IsFiniteSet(temporaries') /\ Cardinality(temporaries') \in Nat
          /\ Cardinality(temporaries') <= Cardinality(temporaries) + 1
      BY <2>3, OneMoreOrLess
    <3> QED BY <2>1, <3>1, <3>2
  <2> QED BY <2>1, <2>2, <2>3
<1> QED BY <1>2, <1>3, <1>4, <1>5, <1>6, <1>7, <1>8, <1>9 DEF D!Next

LEMMA DiagnosticsNext == DiagnosticsInv /\ [NextStorage]_allVars => DiagnosticsInv'
<1> SUFFICES ASSUME DiagnosticsInv, [NextStorage]_allVars PROVE DiagnosticsInv'
  OBVIOUS
<1>1. CASE D!Next
  BY <1>1, LogNext, PublishedNext, TemporariesNext DEF DiagnosticsInv, DiagnosticsTypeOK, Published
<1>2. CASE UNCHANGED diagnosticsVars
  BY <1>2 DEF diagnosticsVars, DiagnosticsInv, DiagnosticsTypeOK, EventsAddUp, RenamesAreOurs,
              TemporariesAreOwned
<1> QED BY <1>1, <1>2, DiagnosticsStep DEF allVars, closureVars

LEMMA DiagnosticsHonest == DiagnosticsInv => ExportsAreHonest
<1> SUFFICES ASSUME DiagnosticsInv PROVE ExportsAreHonest
  OBVIOUS
<1>1. D!ReadyMeansComplete
  <2> SUFFICES ASSUME D!snapshot.status # "needs_attention"
               PROVE  D!snapshot.events + untraced = emitted
    BY DEF D!ReadyMeansComplete
  <2>1. dropped \in Nat /\ log.bad \in Nat /\ log.good \in Nat /\ log.torn \in BOOLEAN
    BY DEF DiagnosticsInv, DiagnosticsTypeOK, Logs
  <2>2. /\ D!snapshot.events = log.good
        /\ D!snapshot.status = IF dropped > 0 \/ log.bad > 0 \/ D!truncated_line_count > 0
                               THEN "needs_attention"
                               ELSE IF log.exists THEN "ready" ELSE "never_run"
    BY DEF D!snapshot, D!malformed_line_count
  <2>3. ~(dropped > 0) /\ ~(log.bad > 0) /\ ~(D!truncated_line_count > 0)
    BY <2>2
  <2>4. dropped = 0 /\ log.bad = 0 /\ ~log.torn
    BY <2>1, <2>3 DEF D!truncated_line_count
  <2> QED BY <2>1, <2>2, <2>4 DEF DiagnosticsInv, DiagnosticsTypeOK, EventsAddUp
<1>2. D!PublishedAsAnswered
  BY SizesAgree DEF DiagnosticsInv, RenamesAreOurs, TemporariesAreOwned, D!PublishedAsAnswered
<1> QED BY <1>1, <1>2, AReportIsPossible DEF ExportsAreHonest, D!ExportsAreHonest

\* A log that the report calls ready has every event that left a trace, however lines are cut
\* off and processes end; the newest report answered as complete is at its destination until
\* another program removes or replaces it, no file of another program was replaced for one,
\* and each end of a process leaves one temporary file at most; and the checks pass for every
\* sound database whose failed jobs are of one width (JsonlDiagnostics::snapshot,
\* publish_report, DiagnosticsExportV1::validate).  For every size of the log, and however many
\* events, exports, failed calls and acts of other programs there are.
THEOREM ExportsStayHonest == SpecStorage => []ExportsAreHonest
<1>1. SpecStorage => []DiagnosticsInv
  BY DiagnosticsInit, DiagnosticsNext, PTL DEF SpecStorage
<1> QED BY <1>1, DiagnosticsHonest, PTL

-----------------------------------------------------------------------------
(* Restoring a backup.  The journal on disk names a phase that the files   *)
(* fit, a step further on or not, so that a start can go on from wherever   *)
(* the last one was cut off; a blob that a restore has displaced is one     *)
(* that the marks it left are enough to put back.                           *)

BlobStates == {"right", "wrong", "absent"}
Restored == {"raw", "new"}

\* An intent; one past the first phase names the restored database.
AnIntent ==
    {i \in [op : Nat, phase : R!Phases, staged : {"none", "raw", "new"}] :
       i.phase # "requested" => i.staged \in Restored}

AllRight == \A a \in Assets : blob[a] = "right"

\* What becomes of each blob while a restore is carried out or undone.
Displaced(a) ==
    \/ before[a] = "right" /\ blob[a] = "right" /\ a \notin moved /\ a \notin marked
    \/ before[a] = "wrong" /\ blob[a] = "wrong" /\ a \notin moved /\ a \notin marked
    \/ before[a] = "wrong" /\ blob[a] \in {"absent", "right"} /\ a \in moved /\ a \notin marked
    \/ before[a] = "absent" /\ blob[a] = "absent" /\ a \notin moved
    \/ before[a] = "absent" /\ blob[a] = "right" /\ a \notin moved /\ a \in marked
Returnable == \A a \in Assets : Displaced(a)

Untouched ==
    /\ catalog_file = "old" /\ quarantined = "absent"
    /\ blob = before /\ moved = {} /\ marked = {}
AtRest == Untouched \/ (catalog_file \in Restored /\ AllRight)

\* The files as an intent finds them, a step further on, or on the way back: the live
\* database moves aside and the staged one takes its place; a rollback removes that one,
\* puts the other back, then the blobs, and empties the operation's directory.
TookBack == catalog_file = "old" /\ quarantined = "absent"
SetAside == catalog_file = "absent" /\ quarantined = "old"
Installed(i) == catalog_file = i.staged /\ quarantined = "old"

DiskFits(i) ==
    \/ i.phase = "requested" /\ TookBack /\ Returnable
    \/ /\ i.phase = "assets_installed" /\ staged \in {i.staged, "absent"} /\ Returnable
       /\ TookBack \/ SetAside
    \/ /\ i.phase = "live_quarantined" /\ staged \in {i.staged, "absent"} /\ Returnable
       /\ TookBack \/ SetAside \/ Installed(i)
    \/ /\ i.phase = "database_installed" /\ Returnable
       /\ TookBack \/ SetAside \/ Installed(i)
    \/ i.phase = "validated" /\ AllRight /\ Returnable /\ Installed(i)
    \/ i.phase = "committed" /\ AllRight /\ catalog_file = i.staged

\* What the next start will find.
StartFits ==
    IF R!Pending /\ R!RecoveredIntent # R!NoIntent THEN DiskFits(R!RecoveredIntent) ELSE AtRest

\* What a rollback leaves to the next start, whatever cuts it off; but one that goes on
\* from the validated phase is not undone there.
RollsBack ==
    LET i == R!RecoveredIntent
    IN  i \in AnIntent /\ i.phase # "committed" /\ (i.phase = "validated" \/ DiskFits(i))
NotCommitted == json.phase # "committed" /\ hash.phase # "committed"

InJournal == json = intent /\ hash = intent /\ DiskFits(intent)

RestoreTypes ==
    /\ blob \in [Assets -> BlobStates] /\ before \in [Assets -> BlobStates]
    /\ json \in AnIntent \cup {R!NoIntent} /\ hash \in AnIntent \cup {R!NoIntent}
    /\ tjson \subseteq AnIntent /\ thash \subseteq AnIntent
    /\ restores \in Nat /\ restored \in BOOLEAN
    /\ at \notin {"up", "down", "open"} => intent \in AnIntent

\* The process is down, runs, or is about to open the database.
Resting ==
    /\ at \in {"down", "up"} => StartFits
    /\ at = "up" => AtRest
    /\ at = "open" /\ ~restored => ~R!Pending /\ AtRest
    /\ at = "open" /\ restored => intent \in AnIntent /\ InJournal /\ intent.phase = "validated"

\* The journal is written: the files fit the old intent and the new one.
Written ==
    at \in R!Writing =>
      /\ DiskFits(intent)
      /\ intent.phase = "requested" /\ intent.staged = "none" => Untouched
      /\ intent.phase = "requested" /\ intent.staged # "none" =>
           staged = intent.staged /\ staged \in Restored
      /\ at \in {"write", "rename_json"} =>
           /\ json = hash /\ hash.phase # "committed"
           /\ IF hash = R!NoIntent THEN AtRest /\ intent.staged = "none" ELSE DiskFits(hash)
      /\ at \in {"rename_hash", "sync_root"} /\ intent.phase # "committed" => hash.phase # "committed"
      /\ at = "rename_json" => intent \in thash
      /\ at = "rename_hash" => json = intent /\ intent \in thash
      /\ at = "sync_root" => json = intent /\ hash = intent

Carrying == {"recover_deletions", "verify", "stage", "copy", "normalize", "finish", "record",
             "assets", "quarantine", "install", "validate", "cleanup"}

\* A phase is carried out: the journal names it.
Carried ==
    /\ at \in Carrying => InJournal
    /\ at \in {"recover_deletions", "stage", "copy", "normalize", "finish", "record", "assets"} =>
         intent.phase = "requested"
    /\ at = "verify" => intent.phase # "committed"
    /\ at = "quarantine" => intent.phase = "assets_installed"
    /\ at = "install" => intent.phase = "live_quarantined"
    /\ at = "validate" => intent.phase = "database_installed"
    /\ at = "cleanup" => intent.phase = "committed"
    /\ at \in {"record", "assets"} => staged \in Restored
    /\ at = "assets" => staged = intent.staged

\* A rollback, which the next start carries on with, or does again.
Undone ==
    at \in {"undo", "undo_live", "undo_assets", "undo_dir"} =>
      /\ Returnable /\ RollsBack /\ NotCommitted /\ intent.phase # "committed"
      /\ at = "undo" => quarantined = "old" \/ TookBack
      /\ at = "undo_live" => SetAside
      /\ at \in {"undo_assets", "undo_dir"} => TookBack
      /\ at = "undo_dir" => blob = before

\* The journal is removed.
Removed ==
    /\ at = "remove_json" =>
         \/ intent.phase = "committed" /\ InJournal
         \/ /\ intent.phase # "committed" /\ NotCommitted /\ RollsBack
            /\ Untouched /\ staged = "absent"
    /\ at = "remove_hash" =>
         /\ json = R!NoIntent
         /\ \/ intent.phase = "committed" /\ hash = intent /\ DiskFits(intent)
            \/ /\ intent.phase # "committed" /\ NotCommitted
               /\ Untouched /\ staged = "absent"

RestoreInv ==
    /\ at \in R!Writing \cup Carrying \cup {"up", "down", "open", "undo", "undo_live",
               "undo_assets", "undo_dir", "remove_json", "remove_hash"}
    /\ RestoreTypes /\ Resting /\ Written /\ Carried /\ Undone /\ Removed

\* The blobs are as they were, and so is what is said of them.
LEMMA BlobsKept ==
    ASSUME UNCHANGED <<blob, moved, marked, before>>
    PROVE  /\ AllRight' <=> AllRight
           /\ Returnable' <=> Returnable
  BY DEF AllRight, Returnable, Displaced

LEMMA DisksKept ==
    ASSUME UNCHANGED <<blob, moved, marked, before, catalog_file, quarantined, staged>>
    PROVE  /\ AtRest' <=> AtRest
           /\ Untouched' <=> Untouched
           /\ \A i : DiskFits(i)' <=> DiskFits(i)
  BY BlobsKept DEF AtRest, Untouched, DiskFits, TookBack, SetAside, Installed

LEMMA StartsKept ==
    ASSUME UNCHANGED <<blob, moved, marked, before, catalog_file, quarantined, staged,
                       json, hash, tjson, thash>>
    PROVE  StartFits' <=> StartFits
<1>1. R!RecoveredIntent' = R!RecoveredIntent /\ (R!Pending' <=> R!Pending)
  BY DEF R!RecoveredIntent, R!Pending, R!NoIntent
<1> QED BY <1>1, DisksKept DEF StartFits, R!NoIntent, AtRest, Untouched, AllRight, DiskFits, Returnable, Displaced

LEMMA IntentsAreIntents ==
    ASSUME NEW i \in AnIntent
    PROVE  /\ i # R!NoIntent /\ i.phase \in R!Phases /\ i.staged \in {"none", "raw", "new"}
           /\ i.phase # "requested" => i.staged \in Restored
           /\ \A p \in R!Phases : /\ i.staged \in Restored => [i EXCEPT !.phase = p] \in AnIntent
                                  /\ [i EXCEPT !.phase = p].phase = p
                                  /\ [i EXCEPT !.phase = p].staged = i.staged
           /\ \A s \in Restored : /\ [i EXCEPT !.staged = s] \in AnIntent
                                 /\ [i EXCEPT !.staged = s].phase = i.phase
                                 /\ [i EXCEPT !.staged = s].staged = s
<1>1. i.phase \in R!Phases /\ R!NoIntent.phase = "none"
  BY DEF AnIntent, R!NoIntent
<1>2. i # R!NoIntent
  BY <1>1 DEF R!Phases
<1>3. /\ i \in [op : Nat, phase : R!Phases, staged : {"none", "raw", "new"}]
      /\ i.phase # "requested" => i.staged \in Restored
  BY DEF AnIntent
<1>4. \A s \in Restored : s \in {"none", "raw", "new"}
  BY DEF Restored
<1> QED BY <1>1, <1>2, <1>3, <1>4 DEF AnIntent

\* A rollback that is nearly done leaves files that fit any intent but the last two phases'.
LEMMA UntouchedFits ==
    ASSUME Untouched, staged = "absent", blob \in [Assets -> BlobStates],
           NEW i \in AnIntent, i.phase \notin {"validated", "committed"}
    PROVE  DiskFits(i)
<1>1. Returnable
  BY DEF Untouched, Returnable, Displaced, BlobStates
<1> QED BY <1>1, IntentsAreIntents DEF DiskFits, TookBack, Untouched, R!Phases

\* Whatever is under way, the next start will find files that fit the journal, unless this
\* is the rollback of a validated restore; the catalog is there in any case.
ValidatedUndone ==
    at \in R!Undoing /\ R!RecoveredIntent.phase = "validated"
      /\ "old" \in {catalog_file, quarantined}

LEMMA StartsFit ==
    ASSUME RestoreInv
    PROVE  StartFits \/ ValidatedUndone
<1>1. CASE at \in {"up", "down"}
  BY <1>1 DEF RestoreInv, Resting
<1>2. CASE at = "open" /\ ~restored
  BY <1>2 DEF RestoreInv, Resting, StartFits
<1>3. ASSUME intent \in AnIntent, InJournal PROVE StartFits
  BY <1>3, IntentsAreIntents DEF StartFits, InJournal, R!Pending, R!RecoveredIntent
<1>4. CASE at = "open" /\ restored
  BY <1>3, <1>4 DEF RestoreInv, Resting
<1>5. CASE at \in {"write", "rename_json"}
  <2>1. json = hash /\ (hash = R!NoIntent => AtRest) /\ (hash # R!NoIntent => DiskFits(hash))
    BY <1>5 DEF RestoreInv, Written, R!Writing
  <2> QED BY <2>1 DEF StartFits, R!Pending, R!RecoveredIntent
<1>6. CASE at \in {"rename_hash", "sync_root"}
  <2>1. DiskFits(intent) /\ json = intent /\ (hash = intent \/ intent \in thash) /\ intent \in AnIntent
    BY <1>6 DEF RestoreInv, Written, R!Writing, RestoreTypes
  <2> QED BY <2>1, IntentsAreIntents DEF StartFits, R!Pending, R!RecoveredIntent
<1>7. CASE at \in Carrying
  BY <1>3, <1>7 DEF RestoreInv, Carried, RestoreTypes, Carrying
<1>8. ASSUME RollsBack, R!RecoveredIntent.phase # "validated" PROVE StartFits
  <2>1. R!RecoveredIntent \in AnIntent /\ DiskFits(R!RecoveredIntent)
    BY <1>8 DEF RollsBack
  <2>2. R!RecoveredIntent # R!NoIntent
    BY <2>1, IntentsAreIntents
  <2>3. R!Pending
    BY <2>2 DEF R!RecoveredIntent, R!Pending
  <2> QED BY <2>1, <2>2, <2>3 DEF StartFits
<1>9. CASE at \in {"undo", "undo_live", "undo_assets", "undo_dir"}
  <2>1. RollsBack /\ "old" \in {catalog_file, quarantined}
    BY <1>9 DEF RestoreInv, Undone, TookBack, SetAside
  <2> QED BY <1>8, <1>9, <2>1 DEF ValidatedUndone, R!Undoing
<1>10. CASE at = "remove_json" /\ intent.phase = "committed"
  BY <1>3, <1>10 DEF RestoreInv, Removed, RestoreTypes
<1>11. CASE at = "remove_json" /\ intent.phase # "committed"
  <2>1. RollsBack /\ catalog_file = "old"
    BY <1>11 DEF RestoreInv, Removed, Untouched
  <2> QED BY <1>8, <1>11, <2>1 DEF ValidatedUndone, R!Undoing
<1>12. CASE at = "remove_hash" /\ intent.phase = "committed"
  <2>1. json = R!NoIntent /\ hash = intent /\ DiskFits(intent) /\ intent \in AnIntent
    BY <1>12 DEF RestoreInv, Removed, RestoreTypes
  <2>2. AtRest
    BY <2>1, <1>12, IntentsAreIntents DEF AtRest, DiskFits
  <2> QED BY <2>1, <2>2, IntentsAreIntents DEF StartFits, R!Pending, R!RecoveredIntent
<1>13. CASE at = "remove_hash" /\ intent.phase # "committed"
  <2>1. /\ json = R!NoIntent /\ hash.phase # "committed" /\ Untouched /\ staged = "absent"
        /\ hash \in AnIntent \cup {R!NoIntent} /\ blob \in [Assets -> BlobStates]
    BY <1>13 DEF RestoreInv, Removed, NotCommitted, RestoreTypes
  <2>2. R!RecoveredIntent \in {hash, R!NoIntent}
    BY <2>1 DEF R!RecoveredIntent
  <2>3. CASE R!RecoveredIntent = R!NoIntent
    BY <2>1, <2>3 DEF StartFits, AtRest
  <2>4. CASE R!RecoveredIntent # R!NoIntent /\ hash.phase = "validated"
    BY <1>13, <2>1, <2>2, <2>4 DEF ValidatedUndone, R!Undoing, Untouched
  <2>5. CASE R!RecoveredIntent # R!NoIntent /\ hash.phase # "validated"
    <3>1. hash \in AnIntent /\ R!RecoveredIntent = hash
      BY <2>1, <2>2, <2>5
    <3>2. DiskFits(hash) /\ R!Pending
      BY <2>1, <2>5, <3>1, UntouchedFits, IntentsAreIntents DEF R!Pending
    <3> QED BY <2>5, <3>1, <3>2 DEF StartFits
  <2> QED BY <2>3, <2>4, <2>5
<1> QED
  BY <1>1, <1>2, <1>4, <1>5, <1>6, <1>7, <1>9, <1>10, <1>11, <1>12, <1>13
  DEF RestoreInv, R!Writing

LEMMA RecoveredIsOne ==
    ASSUME RestoreTypes, R!RecoveredIntent # R!NoIntent
    PROVE  R!RecoveredIntent \in AnIntent
  BY DEF RestoreTypes, R!RecoveredIntent

\* What the invariant is for.
LEMMA CatalogsAreKept ==
    ASSUME cutoff \/ RestoreInv
    PROVE  RestoreKeepsACatalog
<1> SUFFICES ASSUME RestoreInv PROVE RestoreKeepsACatalog
  BY DEF RestoreKeepsACatalog, R!NoCatalogLost, R!OpenedIsWhole
<1>1. ASSUME NEW i, DiskFits(i)
      PROVE  \/ "old" \in {catalog_file, quarantined}
             \/ i.phase = "committed" /\ catalog_file = i.staged
  BY <1>1 DEF DiskFits, TookBack, SetAside, Installed
<1>2. R!OpenedIsWhole
  BY DEF RestoreInv, Resting, AtRest, Untouched, AllRight, R!OpenedIsWhole, Restored
<1>3. ASSUME StartFits PROVE R!NoCatalogLost
  <2>1. R!NoIntent.phase = "none"
    BY DEF R!NoIntent
  <2>2. CASE R!RecoveredIntent = R!NoIntent
    BY <1>3, <2>1, <2>2 DEF StartFits, R!NoCatalogLost, AtRest, Untouched, Restored
  <2>3. CASE R!RecoveredIntent # R!NoIntent
    <3>1. R!Pending
      BY <2>3 DEF R!RecoveredIntent, R!Pending
    <3>2. R!RecoveredIntent \in AnIntent /\ DiskFits(R!RecoveredIntent)
      BY <1>3, <2>3, <3>1, RecoveredIsOne DEF StartFits, RestoreInv
    <3>3. PICK i \in AnIntent : i = R!RecoveredIntent /\ DiskFits(i)
      BY <3>2
    <3>4. CASE "old" \in {catalog_file, quarantined}
      BY <3>4 DEF R!NoCatalogLost
    <3>5. CASE i.phase = "committed" /\ catalog_file = i.staged
      <4>1. catalog_file \in Restored
        BY <3>5, IntentsAreIntents
      <4> QED BY <3>3, <3>5, <4>1 DEF R!NoCatalogLost, Restored
    <3> QED BY <1>1, <3>3, <3>4, <3>5
  <2> QED BY <2>2, <2>3
<1> QED BY <1>2, <1>3, StartsFit DEF RestoreKeepsACatalog, R!NoCatalogLost, ValidatedUndone

LEMMA RestoreInitially == InitStorage => RestoreInv
<1> SUFFICES ASSUME InitStorage PROVE RestoreInv
  OBVIOUS
<1>1. R!Init
  BY DEF InitStorage
<1>2. RestoreTypes
  BY <1>1 DEF R!Init, RestoreTypes, BlobStates
<1>3. Untouched /\ ~R!Pending
  BY <1>1 DEF R!Init, Untouched, R!Pending, R!Absent
<1> QED
  BY <1>1, <1>2, <1>3
  DEF R!Init, RestoreInv, Resting, Written, Carried, Undone, Removed, StartFits, AtRest, Carrying,
      R!Writing

\* Where a phase goes on once the journal names it.
LEMMA AfterWriting ==
    ASSUME intent \in AnIntent
    PROVE  /\ intent.phase = "requested" /\ intent.staged = "none" => R!AfterWrite = "up"
           /\ intent.phase = "requested" /\ intent.staged # "none" => R!AfterWrite = "assets"
           /\ intent.phase = "assets_installed" => R!AfterWrite = "quarantine"
           /\ intent.phase = "live_quarantined" => R!AfterWrite = "install"
           /\ intent.phase = "database_installed" => R!AfterWrite = "validate"
           /\ intent.phase = "validated" => R!AfterWrite = "open"
           /\ intent.phase = "committed" => R!AfterWrite = "cleanup"
           /\ intent.phase \in R!Phases
  BY IntentsAreIntents DEF R!AfterWrite, R!Phases

\* Where a call of apply_locked fails, what is there can be undone, now or by a later start.
CanUndo ==
    /\ intent \in AnIntent /\ intent.phase # "committed"
    /\ Returnable /\ RollsBack /\ NotCommitted
    /\ quarantined = "old" \/ TookBack

LEMMA Failing ==
    ASSUME RestoreInv,
           \/ at \in R!Applying
           \/ at \in R!Writing /\ R!AfterWrite \notin {"up", "cleanup"}
    PROVE  CanUndo
<1>1. intent \in AnIntent /\ intent.phase # "committed" /\ DiskFits(intent)
  <2>1. CASE at \in R!Applying
    BY <2>1 DEF R!Applying, RestoreInv, RestoreTypes, Carried, Carrying, InJournal
  <2>2. CASE at \in R!Writing /\ R!AfterWrite \notin {"up", "cleanup"}
    BY <2>2, AfterWriting DEF R!Writing, RestoreInv, RestoreTypes, Written
  <2> QED BY <2>1, <2>2
<1>2. Returnable /\ (quarantined = "old" \/ TookBack)
  BY <1>1, IntentsAreIntents DEF DiskFits, TookBack, SetAside, Installed
<1>3. ASSUME NEW i \in AnIntent, R!RecoveredIntent = i, i.phase # "committed", DiskFits(i)
      PROVE  RollsBack
  BY <1>3 DEF RollsBack
<1>4. CASE at \in R!Applying
  <2>1. json = intent /\ hash = intent
    BY <1>4 DEF R!Applying, RestoreInv, Carried, Carrying, InJournal
  <2>2. R!RecoveredIntent = intent
    BY <1>1, <2>1, IntentsAreIntents DEF R!RecoveredIntent
  <2> QED BY <1>1, <1>2, <1>3, <2>1, <2>2 DEF CanUndo, NotCommitted
<1>5. CASE at \in {"write", "rename_json"} /\ R!AfterWrite \notin {"up", "cleanup"}
  <2>1. intent.staged # "none" \/ intent.phase # "requested"
    BY <1>1, <1>5, AfterWriting
  <2>2. intent.staged # "none"
    BY <1>1, <2>1, IntentsAreIntents DEF Restored
  <2>3. /\ json = hash /\ hash.phase # "committed" /\ hash # R!NoIntent /\ DiskFits(hash)
        /\ hash \in AnIntent
    BY <1>5, <2>2 DEF RestoreInv, Written, R!Writing, RestoreTypes
  <2>4. R!RecoveredIntent = hash
    BY <2>3 DEF R!RecoveredIntent
  <2> QED BY <1>1, <1>2, <1>3, <2>3, <2>4 DEF CanUndo, NotCommitted
<1>6. CASE at \in {"rename_hash", "sync_root"}
  <2>1. json = intent /\ (hash = intent \/ intent \in thash) /\ hash.phase # "committed"
    BY <1>1, <1>6 DEF RestoreInv, Written, R!Writing
  <2>2. R!RecoveredIntent = intent
    BY <1>1, <2>1, IntentsAreIntents DEF R!RecoveredIntent
  <2> QED BY <1>1, <1>2, <1>3, <2>1, <2>2 DEF CanUndo, NotCommitted
<1> QED BY <1>4, <1>5, <1>6 DEF R!Writing

\* A rollback goes on as long as the files still fit the intent of the journal.
LEMMA RollsOn ==
    ASSUME RollsBack, UNCHANGED <<json, hash, tjson, thash>>,
           \A i \in AnIntent :
             i.phase \notin {"validated", "committed"} /\ DiskFits(i) => DiskFits(i)'
    PROVE  RollsBack'
<1>1. R!RecoveredIntent' = R!RecoveredIntent
  BY DEF R!RecoveredIntent, R!NoIntent
<1>2. PICK i : i = R!RecoveredIntent
  OBVIOUS
<1>3. i \in AnIntent /\ i.phase # "committed" /\ (i.phase = "validated" \/ DiskFits(i))
  BY <1>2 DEF RollsBack
<1>4. i.phase = "validated" \/ DiskFits(i)'
  BY <1>3
<1>5. R!RecoveredIntent' = i
  BY <1>1, <1>2
<1> QED BY <1>3, <1>4, <1>5 DEF RollsBack

\* The call fails, and its rollback begins.
LEMMA UndoBegins ==
    ASSUME RestoreInv, CanUndo, R!Fail,
           UNCHANGED <<catalog_file, staged, quarantined, blob, moved, marked, json, hash, tjson,
                       thash, restores, before>>
    PROVE  RestoreInv'
<1>1. at' = "undo" /\ UNCHANGED <<intent, restored>>
  BY DEF R!Fail
<1>2. RestoreTypes'
  BY <1>1 DEF RestoreInv, RestoreTypes, CanUndo
<1>3. RollsBack'
  BY RollsOn, DisksKept DEF CanUndo
<1>4. Undone'
  BY <1>1, <1>3, BlobsKept DEF Undone, CanUndo, NotCommitted, TookBack
<1> QED
  BY <1>1, <1>2, <1>4
  DEF RestoreInv, Resting, Written, Carried, Undone, Removed, R!Writing, Carrying

LEMMA Step_write_temporaries == RestoreInv /\ R!write_temporaries => RestoreInv'
<1> SUFFICES ASSUME RestoreInv, R!write_temporaries PROVE RestoreInv'
  OBVIOUS
<1> USE DEF R!write_temporaries, R!Rest, R!Goto, R!Fail, R!Write, R!journal, R!databases,
            R!blobs, R!bounds, R!history, R!memory
<1>1. RestoreTypes'
  BY IntentsAreIntents DEF RestoreInv, RestoreTypes
<1>2. Written'
  BY BlobsKept, IntentsAreIntents
  DEF RestoreInv, RestoreTypes, Written, Carried, InJournal, DiskFits, TookBack, SetAside,
      Installed, R!Writing, Carrying,
      Untouched, AtRest, Restored
<1> QED
  BY <1>1, <1>2
  DEF RestoreInv, Resting, Written, Carried, Undone, Removed, R!Writing, Carrying

LEMMA Step_rename_json == RestoreInv /\ R!rename_json => RestoreInv'
<1> SUFFICES ASSUME RestoreInv, R!rename_json PROVE RestoreInv'
  OBVIOUS
<1> USE DEF R!rename_json, R!Rest, R!Goto, R!Fail, R!Write, R!journal, R!databases, R!blobs,
            R!bounds, R!history, R!memory
<1>1. RestoreTypes'
  BY IntentsAreIntents DEF RestoreInv, RestoreTypes
<1>2. Written'
  BY BlobsKept, IntentsAreIntents
  DEF RestoreInv, RestoreTypes, Written, Carried, InJournal, DiskFits, TookBack, SetAside,
      Installed, R!Writing, Carrying,
      Untouched, AtRest, Restored
<1> QED
  BY <1>1, <1>2
  DEF RestoreInv, Resting, Written, Carried, Undone, Removed, R!Writing, Carrying

LEMMA Step_rename_hash == RestoreInv /\ R!rename_hash => RestoreInv'
<1> SUFFICES ASSUME RestoreInv, R!rename_hash PROVE RestoreInv'
  OBVIOUS
<1> USE DEF R!rename_hash, R!Rest, R!Goto, R!Fail, R!Write, R!journal, R!databases, R!blobs,
            R!bounds, R!history, R!memory
<1>1. RestoreTypes'
  BY IntentsAreIntents DEF RestoreInv, RestoreTypes
<1>2. Written'
  BY BlobsKept, IntentsAreIntents
  DEF RestoreInv, RestoreTypes, Written, Carried, InJournal, DiskFits, TookBack, SetAside,
      Installed, R!Writing, Carrying,
      Untouched, AtRest, Restored
<1> QED
  BY <1>1, <1>2
  DEF RestoreInv, Resting, Written, Carried, Undone, Removed, R!Writing, Carrying

LEMMA Step_sync_root == RestoreInv /\ R!sync_root => RestoreInv'
<1> SUFFICES ASSUME RestoreInv, R!sync_root PROVE RestoreInv'
  OBVIOUS
<1> USE DEF R!sync_root, R!Rest, R!Goto, R!Fail, R!Write, R!journal, R!databases, R!blobs,
            R!bounds, R!history, R!memory
<1>1. RestoreTypes'
  BY AfterWriting DEF RestoreInv, RestoreTypes, R!Writing
<1>2. /\ intent \in AnIntent /\ InJournal /\ at' = R!AfterWrite
      /\ intent.phase = "requested" /\ intent.staged = "none" => Untouched
      /\ intent.phase = "requested" /\ intent.staged # "none" =>
           staged = intent.staged /\ staged \in Restored
  BY DEF RestoreInv, RestoreTypes, Written, R!Writing, InJournal
<1>3. StartFits
  BY <1>2, IntentsAreIntents DEF StartFits, InJournal, R!Pending, R!RecoveredIntent
<1>4. InJournal' /\ StartFits' /\ (Untouched' <=> Untouched)
  BY <1>2, <1>3, BlobsKept, StartsKept
  DEF InJournal, DiskFits, TookBack, SetAside, Installed, Untouched
<1>5. restored' <=> intent.phase \in {"validated", "committed"}
  OBVIOUS
<1>6. /\ at' \in {"up", "assets", "quarantine", "install", "validate", "open", "cleanup"}
      /\ Resting' /\ Carried'
  BY <1>2, <1>4, <1>5, AfterWriting DEF Resting, Carried, Carrying, AtRest, R!Phases
<1> QED
  BY <1>1, <1>2, <1>3, <1>4, <1>5, <1>6
  DEF RestoreInv, Resting, Written, Carried, Undone, Removed, R!Writing, Carrying

LEMMA Step_remove_json == RestoreInv /\ R!remove_json => RestoreInv'
<1> SUFFICES ASSUME RestoreInv, R!remove_json PROVE RestoreInv'
  OBVIOUS
<1> USE DEF R!remove_json, R!Rest, R!Goto, R!Fail, R!Write, R!journal, R!databases, R!blobs,
            R!bounds, R!history, R!memory
<1>1. RestoreTypes'
  BY IntentsAreIntents DEF RestoreInv, RestoreTypes
<1>2. CASE intent.phase = "committed"
  <2>1. hash = intent /\ DiskFits(intent)
    BY <1>2 DEF RestoreInv, Removed, InJournal
  <2>2. hash' = intent' /\ DiskFits(intent)'
    BY <2>1, DisksKept
  <2>3. Removed'
    BY <1>2, <2>2 DEF Removed
  <2> QED
    BY <1>1, <2>3
    DEF RestoreInv, Resting, Written, Carried, Undone, R!Writing, Carrying
<1>3. CASE intent.phase # "committed"
  <2>1. NotCommitted /\ Untouched /\ staged = "absent"
    BY <1>3 DEF RestoreInv, Removed
  <2>2. NotCommitted' /\ Untouched'
    BY <2>1, DisksKept DEF NotCommitted, R!NoIntent
  <2>3. Removed'
    BY <1>3, <2>1, <2>2 DEF Removed
  <2> QED
    BY <1>1, <2>3
    DEF RestoreInv, Resting, Written, Carried, Undone, R!Writing, Carrying
<1> QED BY <1>2, <1>3

LEMMA Step_remove_hash == RestoreInv /\ R!remove_hash => RestoreInv'
<1> SUFFICES ASSUME RestoreInv, R!remove_hash PROVE RestoreInv'
  OBVIOUS
<1> USE DEF R!remove_hash, R!Rest, R!Goto, R!Fail, R!Write, R!journal, R!databases, R!blobs,
            R!bounds, R!history, R!memory
<1>1. RestoreTypes'
  BY IntentsAreIntents DEF RestoreInv, RestoreTypes
<1>2. ~R!Pending'
  BY DEF RestoreInv, Removed, R!Pending
<1>3. AtRest
  BY IntentsAreIntents DEF RestoreInv, RestoreTypes, Removed, AtRest, DiskFits
<1>4. AtRest' /\ StartFits'
  BY <1>2, <1>3, BlobsKept DEF AtRest, Untouched, StartFits
<1>5. at' \in {"up", "down", "open"} /\ ~restored'
  BY DEF RestoreInv, RestoreTypes
<1> QED
  BY <1>1, <1>2, <1>3, <1>4, <1>5
  DEF RestoreInv, Resting, Written, Carried, Undone, Removed, R!Writing, Carrying

LEMMA Step_prepare == RestoreInv /\ R!prepare => RestoreInv'
<1> SUFFICES ASSUME RestoreInv, R!prepare PROVE RestoreInv'
  OBVIOUS
<1> USE DEF R!prepare, R!Rest, R!Goto, R!Fail, R!Write, R!journal, R!databases, R!blobs,
            R!bounds, R!history, R!memory
<1>1. intent' \in AnIntent /\ intent'.phase = "requested" /\ intent'.staged = "none"
  BY DEF RestoreInv, RestoreTypes, AnIntent, R!Phases
<1>2. RestoreTypes'
  BY <1>1 DEF RestoreInv, RestoreTypes
<1>3. Untouched
  BY DEF RestoreInv, Resting, AtRest, Restored
<1>4. Untouched' /\ Returnable'
  BY <1>3 DEF Untouched, Returnable, Displaced, RestoreInv, RestoreTypes, BlobStates
<1>5. json' = R!NoIntent /\ hash' = R!NoIntent /\ R!NoIntent.phase = "none"
  BY DEF R!Pending, R!NoIntent
<1>6. DiskFits(intent)'
  BY <1>1, <1>4 DEF DiskFits, TookBack, Untouched
<1>7. Written'
  BY <1>1, <1>4, <1>5, <1>6 DEF Written, AtRest
<1> QED
  BY <1>1, <1>2, <1>7
  DEF RestoreInv, Resting, Carried, Undone, Removed, R!Writing, Carrying

LEMMA Step_Quit == RestoreInv /\ R!Quit => RestoreInv'
<1> SUFFICES ASSUME RestoreInv, R!Quit PROVE RestoreInv'
  OBVIOUS
<1> USE DEF R!Quit, R!Rest, R!Goto, R!Fail, R!Write, R!journal, R!databases, R!blobs,
            R!bounds, R!history, R!memory
<1>1. RestoreTypes'
  BY IntentsAreIntents DEF RestoreInv, RestoreTypes
<1>2. StartFits'
  BY StartsKept DEF RestoreInv, Resting
<1> QED
  BY <1>1, <1>2
  DEF RestoreInv, Resting, Written, Carried, Undone, Removed, R!Writing, Carrying

LEMMA Step_StartPlain == RestoreInv /\ R!StartPlain => RestoreInv'
<1> SUFFICES ASSUME RestoreInv, R!StartPlain PROVE RestoreInv'
  OBVIOUS
<1> USE DEF R!StartPlain, R!Rest, R!Goto, R!Fail, R!Write, R!journal, R!databases, R!blobs,
            R!bounds, R!history, R!memory
<1>1. RestoreTypes'
  BY IntentsAreIntents DEF RestoreInv, RestoreTypes
<1>2. ~R!Pending' /\ AtRest
  BY DEF RestoreInv, Resting, StartFits, R!Pending
<1>3. AtRest'
  BY <1>2, BlobsKept DEF AtRest, Untouched
<1> QED
  BY <1>1, <1>2, <1>3
  DEF RestoreInv, Resting, Written, Carried, Undone, Removed, R!Writing, Carrying

LEMMA Step_StartPending == RestoreInv /\ R!StartPending => RestoreInv'
<1> SUFFICES ASSUME RestoreInv, R!StartPending PROVE RestoreInv'
  OBVIOUS
<1> USE DEF R!StartPending, R!Rest, R!Goto, R!Fail, R!Write, R!journal, R!databases, R!blobs,
            R!bounds, R!history, R!memory
<1>1. R!RecoveredIntent \in AnIntent
  BY RecoveredIsOne DEF RestoreInv
<1>2. RestoreTypes'
  BY <1>1 DEF RestoreInv, RestoreTypes
<1>3. DiskFits(R!RecoveredIntent)
  BY DEF RestoreInv, Resting, StartFits
<1>4. InJournal'
  BY <1>3, BlobsKept DEF InJournal, DiskFits, TookBack, SetAside, Installed
<1>5. Carried' /\ at' \in {"recover_deletions", "cleanup", "verify"}
  BY <1>1, <1>4 DEF Carried, Carrying
<1> QED
  BY <1>1, <1>2, <1>3, <1>4, <1>5
  DEF RestoreInv, Resting, Written, Carried, Undone, Removed, R!Writing, Carrying

LEMMA Step_recover_deletions == RestoreInv /\ R!recover_deletions => RestoreInv'
<1> SUFFICES ASSUME RestoreInv, R!recover_deletions PROVE RestoreInv'
  OBVIOUS
<1> USE DEF R!recover_deletions, R!Rest, R!Goto, R!Fail, R!Write, R!journal, R!databases,
            R!blobs, R!bounds, R!history, R!memory
<1>1. RestoreTypes'
  BY IntentsAreIntents DEF RestoreInv, RestoreTypes
<1>2. Carried'
  BY BlobsKept, IntentsAreIntents
  DEF RestoreInv, RestoreTypes, Written, Carried, InJournal, DiskFits, TookBack, SetAside,
      Installed, R!Writing, Carrying,
      Untouched, AtRest, Restored
<1> QED
  BY <1>1, <1>2
  DEF RestoreInv, Resting, Written, Carried, Undone, Removed, R!Writing, Carrying

LEMMA Step_verify == RestoreInv /\ R!verify => RestoreInv'
<1> SUFFICES ASSUME RestoreInv, R!verify PROVE RestoreInv'
  OBVIOUS
<1> USE DEF R!verify, R!Rest, R!Goto, R!Fail, R!Write, R!journal, R!databases, R!blobs,
            R!bounds, R!history, R!memory
<1>1. /\ intent \in AnIntent /\ InJournal /\ intent.phase # "committed"
  BY DEF RestoreInv, RestoreTypes, Carried, Carrying
<1>2. InJournal'
  BY <1>1, BlobsKept DEF InJournal, DiskFits, TookBack, SetAside, Installed
<1>3. /\ intent.phase = "requested" => at' = "stage"
      /\ intent.phase = "validated" => at' = "open"
      /\ intent.phase = "assets_installed" => at' = "quarantine"
      /\ intent.phase = "live_quarantined" => at' = "install"
      /\ intent.phase = "database_installed" => at' = "validate"
      /\ intent.phase \in R!Phases
  BY <1>1, AfterWriting
<1>4. RestoreTypes'
  BY <1>1 DEF RestoreInv, RestoreTypes
<1>5. /\ at' \in {"stage", "open", "quarantine", "install", "validate"}
      /\ Resting' /\ Carried'
  BY <1>1, <1>2, <1>3 DEF Resting, Carried, Carrying, R!Phases
<1> QED
  BY <1>1, <1>2, <1>3, <1>4, <1>5
  DEF RestoreInv, Resting, Written, Carried, Undone, Removed, R!Writing, Carrying

LEMMA Step_stage == RestoreInv /\ R!stage => RestoreInv'
<1> SUFFICES ASSUME RestoreInv, R!stage PROVE RestoreInv'
  OBVIOUS
<1> USE DEF R!stage, R!Rest, R!Goto, R!Fail, R!Write, R!journal, R!databases, R!blobs,
            R!bounds, R!history, R!memory
<1>1. CASE R!Fail /\ UNCHANGED staged
  BY <1>1, Failing, UndoBegins DEF R!Applying
<1>2. CASE /\ at' \in {"copy", "record"} /\ UNCHANGED <<intent, restored>>
           /\ at' = "record" => staged' \in Restored
  <2>1. RestoreTypes'
    BY <1>2 DEF RestoreInv, RestoreTypes, Carried, Carrying
  <2>2. InJournal /\ intent.phase = "requested" /\ intent \in AnIntent
    BY DEF RestoreInv, Carried, Carrying, RestoreTypes
  <2>3. InJournal'
    BY <1>2, <2>2, BlobsKept DEF InJournal, DiskFits, TookBack
  <2>4. Carried'
    BY <1>2, <2>2, <2>3 DEF Carried, Carrying
  <2> QED
    BY <1>2, <2>1, <2>4
    DEF RestoreInv, Resting, Written, Undone, Removed, R!Writing, Carrying
<1> QED BY <1>1, <1>2 DEF R!Verifies, Restored

LEMMA Step_copy == RestoreInv /\ R!copy => RestoreInv'
<1> SUFFICES ASSUME RestoreInv, R!copy PROVE RestoreInv'
  OBVIOUS
<1> USE DEF R!copy, R!Rest, R!Goto, R!Fail, R!Write, R!journal, R!databases, R!blobs,
            R!bounds, R!history, R!memory
<1>1. RestoreTypes'
  BY IntentsAreIntents DEF RestoreInv, RestoreTypes
<1>2. Carried'
  BY BlobsKept, IntentsAreIntents
  DEF RestoreInv, RestoreTypes, Written, Carried, InJournal, DiskFits, TookBack, SetAside,
      Installed, R!Writing, Carrying,
      Untouched, AtRest, Restored
<1> QED
  BY <1>1, <1>2
  DEF RestoreInv, Resting, Written, Carried, Undone, Removed, R!Writing, Carrying

LEMMA Step_normalize == RestoreInv /\ R!normalize => RestoreInv'
<1> SUFFICES ASSUME RestoreInv, R!normalize PROVE RestoreInv'
  OBVIOUS
<1> USE DEF R!normalize, R!Rest, R!Goto, R!Fail, R!Write, R!journal, R!databases, R!blobs,
            R!bounds, R!history, R!memory
<1>1. RestoreTypes'
  BY IntentsAreIntents DEF RestoreInv, RestoreTypes
<1>2. Carried'
  BY BlobsKept, IntentsAreIntents
  DEF RestoreInv, RestoreTypes, Written, Carried, InJournal, DiskFits, TookBack, SetAside,
      Installed, R!Writing, Carrying,
      Untouched, AtRest, Restored
<1> QED
  BY <1>1, <1>2
  DEF RestoreInv, Resting, Written, Carried, Undone, Removed, R!Writing, Carrying

LEMMA Step_finish == RestoreInv /\ R!finish => RestoreInv'
<1> SUFFICES ASSUME RestoreInv, R!finish PROVE RestoreInv'
  OBVIOUS
<1> USE DEF R!finish, R!Rest, R!Goto, R!Fail, R!Write, R!journal, R!databases, R!blobs,
            R!bounds, R!history, R!memory
<1>1. RestoreTypes'
  BY IntentsAreIntents DEF RestoreInv, RestoreTypes
<1>2. Carried'
  BY BlobsKept, IntentsAreIntents
  DEF RestoreInv, RestoreTypes, Written, Carried, InJournal, DiskFits, TookBack, SetAside,
      Installed, R!Writing, Carrying,
      Untouched, AtRest, Restored
<1> QED
  BY <1>1, <1>2
  DEF RestoreInv, Resting, Written, Carried, Undone, Removed, R!Writing, Carrying

LEMMA Step_record == RestoreInv /\ R!record => RestoreInv'
<1> SUFFICES ASSUME RestoreInv, R!record PROVE RestoreInv'
  OBVIOUS
<1> USE DEF R!record, R!Rest, R!Goto, R!Fail, R!Write, R!journal, R!databases, R!blobs,
            R!bounds, R!history, R!memory
<1>1. intent \in AnIntent /\ InJournal /\ intent.phase = "requested" /\ staged \in Restored
  BY DEF RestoreInv, RestoreTypes, Carried, Carrying
<1>2. CASE R!Fail /\ UNCHANGED staged
  BY <1>2, Failing, UndoBegins DEF R!Applying
<1>3. CASE at' = "write" /\ intent' = [intent EXCEPT !.staged = staged] /\ UNCHANGED restored
  <2>1. /\ intent' \in AnIntent /\ intent'.phase = "requested" /\ intent'.staged = staged
    <3> DEFINE s == staged
    <3>1. s \in Restored /\ intent' = [intent EXCEPT !.staged = s]
      BY <1>1, <1>3
    <3> HIDE DEF s
    <3>2. intent' \in AnIntent /\ intent'.phase = intent.phase /\ intent'.staged = s
      BY <1>1, <3>1, IntentsAreIntents
    <3> QED BY <1>1, <3>2 DEF s
  <2>2. RestoreTypes'
    BY <1>1, <1>3, <2>1 DEF RestoreInv, RestoreTypes
  <2>3. hash # R!NoIntent /\ DiskFits(hash) /\ DiskFits(hash)'
    BY <1>1, IntentsAreIntents, DisksKept DEF InJournal
  <2>4. DiskFits(intent)'
    BY <1>1, <2>1, BlobsKept DEF InJournal, DiskFits, TookBack
  <2>5. Written'
    BY <1>1, <1>3, <2>1, <2>3, <2>4 DEF Written, R!Writing, InJournal, Restored
  <2> QED
    BY <1>3, <2>2, <2>5
    DEF RestoreInv, Resting, Carried, Undone, Removed, R!Writing, Carrying
<1> QED BY <1>2, <1>3

LEMMA Step_displace == RestoreInv /\ (\E a \in Assets : R!displace(a)) => RestoreInv'
<1> SUFFICES ASSUME RestoreInv, NEW a \in Assets, R!displace(a) PROVE RestoreInv'
  OBVIOUS
<1> USE DEF R!displace, R!Rest, R!Goto, R!Fail, R!Write, R!journal, R!databases, R!blobs,
            R!bounds, R!history, R!memory
<1>1. /\ intent \in AnIntent /\ InJournal /\ intent.phase = "requested"
      /\ staged \in Restored /\ staged = intent.staged
  BY DEF RestoreInv, RestoreTypes, Carried, Carrying
<1>2. RestoreTypes'
  BY DEF RestoreInv, RestoreTypes, BlobStates
<1>3. Returnable'
  BY <1>1 DEF InJournal, DiskFits, Returnable, Displaced, RestoreInv, RestoreTypes, BlobStates
<1>4. Carried'
  BY <1>1, <1>3
  DEF Carried, Carrying, InJournal, DiskFits, TookBack, SetAside, Installed, Restored
<1> QED
  BY <1>1, <1>2, <1>3, <1>4
  DEF RestoreInv, Resting, Written, Carried, Undone, Removed, R!Writing, Carrying

LEMMA Step_mark == RestoreInv /\ (\E a \in Assets : R!mark(a)) => RestoreInv'
<1> SUFFICES ASSUME RestoreInv, NEW a \in Assets, R!mark(a) PROVE RestoreInv'
  OBVIOUS
<1> USE DEF R!mark, R!Rest, R!Goto, R!Fail, R!Write, R!journal, R!databases, R!blobs,
            R!bounds, R!history, R!memory
<1>1. /\ intent \in AnIntent /\ InJournal /\ intent.phase = "requested"
      /\ staged \in Restored /\ staged = intent.staged
  BY DEF RestoreInv, RestoreTypes, Carried, Carrying
<1>2. RestoreTypes'
  BY DEF RestoreInv, RestoreTypes, BlobStates
<1>3. Returnable'
  BY <1>1 DEF InJournal, DiskFits, Returnable, Displaced, RestoreInv, RestoreTypes, BlobStates
<1>4. Carried'
  BY <1>1, <1>3
  DEF Carried, Carrying, InJournal, DiskFits, TookBack, SetAside, Installed, Restored
<1> QED
  BY <1>1, <1>2, <1>3, <1>4
  DEF RestoreInv, Resting, Written, Carried, Undone, Removed, R!Writing, Carrying

LEMMA Step_install_asset == RestoreInv /\ (\E a \in Assets : R!install_asset(a)) => RestoreInv'
<1> SUFFICES ASSUME RestoreInv, NEW a \in Assets, R!install_asset(a) PROVE RestoreInv'
  OBVIOUS
<1> USE DEF R!install_asset, R!Rest, R!Goto, R!Fail, R!Write, R!journal, R!databases, R!blobs,
            R!bounds, R!history, R!memory
<1>1. /\ intent \in AnIntent /\ InJournal /\ intent.phase = "requested"
      /\ staged \in Restored /\ staged = intent.staged
  BY DEF RestoreInv, RestoreTypes, Carried, Carrying
<1>2. RestoreTypes'
  BY DEF RestoreInv, RestoreTypes, BlobStates
<1>3. Returnable'
  BY <1>1 DEF InJournal, DiskFits, Returnable, Displaced, RestoreInv, RestoreTypes, BlobStates
<1>4. Carried'
  BY <1>1, <1>3
  DEF Carried, Carrying, InJournal, DiskFits, TookBack, SetAside, Installed, Restored
<1> QED
  BY <1>1, <1>2, <1>3, <1>4
  DEF RestoreInv, Resting, Written, Carried, Undone, Removed, R!Writing, Carrying

LEMMA Step_assets_installed == RestoreInv /\ R!assets_installed => RestoreInv'
<1> SUFFICES ASSUME RestoreInv, R!assets_installed PROVE RestoreInv'
  OBVIOUS
<1> USE DEF R!assets_installed, R!Rest, R!Goto, R!Fail, R!Write, R!journal, R!databases,
            R!blobs, R!bounds, R!history, R!memory
<1>1. /\ intent \in AnIntent /\ InJournal /\ intent.phase = "requested"
      /\ staged \in Restored /\ staged = intent.staged
  BY DEF RestoreInv, RestoreTypes, Carried, Carrying
<1>2. /\ [intent EXCEPT !.phase = "assets_installed"] \in AnIntent
      /\ [intent EXCEPT !.phase = "assets_installed"].phase = "assets_installed"
      /\ [intent EXCEPT !.phase = "assets_installed"].staged = intent.staged
  BY <1>1, IntentsAreIntents DEF R!Phases
<1>3. RestoreTypes'
  BY <1>2 DEF RestoreInv, RestoreTypes
<1>4. AllRight'
  BY DEF AllRight
<1>5. Written'
  BY <1>1, <1>2, <1>4, BlobsKept, IntentsAreIntents
  DEF Written, R!Writing, InJournal, DiskFits, TookBack, SetAside, Installed
<1> QED
  BY <1>1, <1>2, <1>3, <1>4, <1>5
  DEF RestoreInv, Resting, Written, Carried, Undone, Removed, R!Writing, Carrying

LEMMA Step_quarantine_live_database == RestoreInv /\ R!quarantine_live_database => RestoreInv'
<1> SUFFICES ASSUME RestoreInv, R!quarantine_live_database PROVE RestoreInv'
  OBVIOUS
<1> USE DEF R!quarantine_live_database, R!Rest, R!Goto, R!Fail, R!Write, R!journal,
            R!databases, R!blobs, R!bounds, R!history, R!memory
<1>1. /\ intent \in AnIntent /\ InJournal /\ intent.phase = "assets_installed"
  BY DEF RestoreInv, RestoreTypes, Carried, Carrying
<1>2. /\ [intent EXCEPT !.phase = "live_quarantined"] \in AnIntent
      /\ [intent EXCEPT !.phase = "live_quarantined"].phase = "live_quarantined"
      /\ [intent EXCEPT !.phase = "live_quarantined"].staged = intent.staged
  BY <1>1, IntentsAreIntents DEF R!Phases
<1>3. at' = "write" /\ intent' = [intent EXCEPT !.phase = "live_quarantined"]
  BY <1>1 DEF InJournal, DiskFits, TookBack, SetAside, Installed, R!Absent, Restored, AllRight
<1>4. RestoreTypes'
  BY <1>2, <1>3 DEF RestoreInv, RestoreTypes
<1>5. DiskFits(intent)' /\ DiskFits(hash)'
  BY <1>1, <1>2, <1>3, BlobsKept
  DEF InJournal, DiskFits, TookBack, SetAside, Installed, R!Absent, Restored
<1>6. Written'
  BY <1>1, <1>2, <1>3, <1>5, IntentsAreIntents DEF Written, R!Writing, InJournal
<1> QED
  BY <1>1, <1>2, <1>3, <1>4, <1>5, <1>6
  DEF RestoreInv, Resting, Written, Carried, Undone, Removed, R!Writing, Carrying

LEMMA Step_install_database == RestoreInv /\ R!install_database => RestoreInv'
<1> SUFFICES ASSUME RestoreInv, R!install_database PROVE RestoreInv'
  OBVIOUS
<1> USE DEF R!install_database, R!Rest, R!Goto, R!Fail, R!Write, R!journal, R!databases,
            R!blobs, R!bounds, R!history, R!memory
<1>1. /\ intent \in AnIntent /\ InJournal /\ intent.phase = "live_quarantined"
  BY DEF RestoreInv, RestoreTypes, Carried, Carrying
<1>2. /\ [intent EXCEPT !.phase = "database_installed"] \in AnIntent
      /\ [intent EXCEPT !.phase = "database_installed"].phase = "database_installed"
      /\ [intent EXCEPT !.phase = "database_installed"].staged = intent.staged
  BY <1>1, IntentsAreIntents DEF R!Phases
<1>3. CASE R!Fail /\ UNCHANGED <<catalog_file, staged>>
  BY <1>3, Failing, UndoBegins DEF R!Applying
<1>4. CASE /\ at' = "write" /\ intent' = [intent EXCEPT !.phase = "database_installed"]
           /\ UNCHANGED restored
           /\ \/ staged # "absent" /\ catalog_file = "absent"
                /\ catalog_file' = staged /\ staged' = "absent"
              \/ catalog_file = intent.staged /\ staged = "absent"
                /\ UNCHANGED <<catalog_file, staged>>
  <2>1. RestoreTypes'
    BY <1>2, <1>4 DEF RestoreInv, RestoreTypes
  <2>2. intent.staged \in Restored /\ Returnable' /\ hash = intent
    BY <1>1, BlobsKept, IntentsAreIntents DEF InJournal, DiskFits
  <2>3. /\ staged \in {intent.staged, "absent"}
        /\ TookBack \/ SetAside \/ Installed(intent)
    BY <1>1 DEF InJournal, DiskFits
  <2>4. catalog_file' = intent.staged /\ staged' = "absent" /\ quarantined' = "old"
    BY <1>4, <2>2, <2>3 DEF TookBack, SetAside, Installed, Restored
  <2>5. DiskFits(intent)'
    BY <1>2, <1>4, <2>2, <2>4 DEF DiskFits, Installed
  <2>6. DiskFits(hash)'
    BY <1>1, <2>2, <2>4 DEF DiskFits, Installed
  <2>7. Written'
    BY <1>1, <1>2, <1>4, <2>2, <2>5, <2>6, IntentsAreIntents DEF Written, R!Writing, InJournal
  <2> QED
    BY <1>4, <2>1, <2>7
    DEF RestoreInv, Resting, Carried, Undone, Removed, R!Writing, Carrying
<1> QED BY <1>3, <1>4 DEF R!Absent

LEMMA Step_validate_installed == RestoreInv /\ R!validate_installed => RestoreInv'
<1> SUFFICES ASSUME RestoreInv, R!validate_installed PROVE RestoreInv'
  OBVIOUS
<1> USE DEF R!validate_installed, R!Rest, R!Goto, R!Fail, R!Write, R!journal, R!databases,
            R!blobs, R!bounds, R!history, R!memory
<1>1. /\ intent \in AnIntent /\ InJournal /\ intent.phase = "database_installed"
  BY DEF RestoreInv, RestoreTypes, Carried, Carrying
<1>2. /\ [intent EXCEPT !.phase = "validated"] \in AnIntent
      /\ [intent EXCEPT !.phase = "validated"].phase = "validated"
      /\ [intent EXCEPT !.phase = "validated"].staged = intent.staged
  BY <1>1, IntentsAreIntents DEF R!Phases
<1>3. CASE R!Fail
  BY <1>3, Failing, UndoBegins DEF R!Applying
<1>4. CASE /\ at' = "write" /\ intent' = [intent EXCEPT !.phase = "validated"]
           /\ UNCHANGED restored /\ catalog_file = intent.staged /\ AllRight
  <2>1. RestoreTypes'
    BY <1>2, <1>4 DEF RestoreInv, RestoreTypes
  <2>2. intent.staged \in Restored /\ Returnable /\ hash = intent
    BY <1>1, IntentsAreIntents DEF InJournal, DiskFits
  <2>3. TookBack \/ SetAside \/ Installed(intent)
    BY <1>1 DEF InJournal, DiskFits
  <2>4. catalog_file' = intent.staged /\ quarantined' = "old" /\ AllRight' /\ Returnable'
    BY <1>4, <2>2, <2>3, BlobsKept DEF TookBack, SetAside, Installed, Restored
  <2>5. DiskFits(intent)'
    BY <1>2, <1>4, <2>4 DEF DiskFits, Installed
  <2>6. DiskFits(hash)'
    BY <1>1, <2>2, DisksKept DEF InJournal
  <2>7. Written'
    BY <1>1, <1>2, <1>4, <2>2, <2>5, <2>6, IntentsAreIntents DEF Written, R!Writing, InJournal
  <2> QED
    BY <1>4, <2>1, <2>7
    DEF RestoreInv, Resting, Carried, Undone, Removed, R!Writing, Carrying
<1> QED BY <1>3, <1>4 DEF AllRight

LEMMA Step_Open == RestoreInv /\ R!Open => RestoreInv'
<1> SUFFICES ASSUME RestoreInv, R!Open PROVE RestoreInv'
  OBVIOUS
<1> USE DEF R!Open, R!Rest, R!Goto, R!Fail, R!Write, R!journal, R!databases, R!blobs,
            R!bounds, R!history, R!memory
<1>1. CASE ~restored
  <2>1. RestoreTypes'
    BY <1>1 DEF RestoreInv, RestoreTypes
  <2>2. AtRest /\ ~R!Pending
    BY <1>1 DEF RestoreInv, Resting
  <2>3. AtRest' /\ ~R!Pending'
    BY <2>2, BlobsKept DEF AtRest, Untouched, R!Pending, Restored, R!Absent
  <2> QED
    BY <1>1, <2>1, <2>3
    DEF RestoreInv, Resting, StartFits, Written, Carried, Undone, Removed, R!Writing, Carrying
<1>2. CASE restored
  <2>1. intent \in AnIntent /\ InJournal /\ intent.phase = "validated"
    BY <1>2 DEF RestoreInv, Resting
  <2>2. /\ [intent EXCEPT !.phase = "committed"] \in AnIntent
        /\ [intent EXCEPT !.phase = "committed"].phase = "committed"
        /\ [intent EXCEPT !.phase = "committed"].staged = intent.staged
    BY <2>1, IntentsAreIntents DEF R!Phases
  <2>3. RestoreTypes'
    BY <1>2, <2>2 DEF RestoreInv, RestoreTypes
  <2>4. DiskFits(intent)' /\ DiskFits(hash)'
    <3>1. AllRight /\ Returnable /\ catalog_file = intent.staged /\ quarantined = "old"
      BY <2>1 DEF InJournal, DiskFits, Installed
    <3>2. AllRight' /\ Returnable' /\ catalog_file' = intent.staged /\ quarantined' = "old"
      BY <2>1, <3>1, BlobsKept, IntentsAreIntents DEF R!Absent, Restored
    <3>3. /\ intent'.phase = "committed" /\ intent'.staged = intent.staged
          /\ hash' = intent
      BY <1>2, <2>1, <2>2 DEF InJournal
    <3>4. DiskFits(intent)'
      BY <3>2, <3>3 DEF DiskFits
    <3>5. DiskFits(hash)'
      BY <2>1, <3>2, <3>3 DEF DiskFits, Installed
    <3> QED BY <3>4, <3>5
  <2>5. Written'
    BY <1>2, <2>1, <2>2, <2>4, IntentsAreIntents DEF Written, R!Writing, InJournal, DiskFits
  <2> QED
    BY <1>2, <2>3, <2>5
    DEF RestoreInv, Resting, Written, Carried, Undone, Removed, R!Writing, Carrying
<1> QED BY <1>1, <1>2 DEF RestoreInv, RestoreTypes

LEMMA Step_remove_operation == RestoreInv /\ R!remove_operation => RestoreInv'
<1> SUFFICES ASSUME RestoreInv, R!remove_operation PROVE RestoreInv'
  OBVIOUS
<1> USE DEF R!remove_operation, R!Rest, R!Goto, R!Fail, R!Write, R!journal, R!databases,
            R!blobs, R!bounds, R!history, R!memory
<1>1. RestoreTypes'
  BY DEF RestoreInv, RestoreTypes
<1>2. CASE at = "cleanup"
  <2>1. intent.phase = "committed" /\ InJournal
    BY <1>2 DEF RestoreInv, Carried, Carrying
  <2>2. InJournal'
    BY <2>1 DEF InJournal, DiskFits, AllRight
  <2> QED
    BY <1>1, <1>2, <2>1, <2>2
    DEF RestoreInv, Resting, Written, Carried, Undone, Removed, R!Writing, Carrying
<1>3. CASE at = "undo_dir"
  <2>1. /\ intent.phase # "committed" /\ Returnable /\ blob = before
        /\ TookBack /\ RollsBack /\ NotCommitted
    BY <1>3 DEF RestoreInv, Undone
  <2>2. Returnable'
    BY <2>1 DEF Returnable, Displaced, RestoreInv, RestoreTypes, BlobStates
  <2>3. TookBack' /\ blob' = before' /\ staged' = "absent" /\ NotCommitted'
    BY <2>1 DEF R!Absent, TookBack, NotCommitted
  <2>4. RollsBack'
    <3>1. ASSUME NEW i \in AnIntent, i.phase \notin {"validated", "committed"}
          PROVE  DiskFits(i)'
      BY <2>2, <2>3, <3>1, IntentsAreIntents DEF DiskFits, R!Phases
    <3> QED BY <2>1, <3>1, RollsOn
  <2>5. at' = "undo_dir" \/ (at' = "remove_json" /\ Untouched')
    BY <1>3, <2>3 DEF Untouched, TookBack
  <2>6. Undone' /\ Removed'
    BY <1>3, <2>1, <2>2, <2>3, <2>4, <2>5 DEF Undone, Removed
  <2> QED
    BY <1>1, <1>3, <2>5, <2>6
    DEF RestoreInv, Resting, Written, Carried, R!Writing, Carrying
<1> QED BY <1>2, <1>3

LEMMA Step_remove_live == RestoreInv /\ R!remove_live => RestoreInv'
<1> SUFFICES ASSUME RestoreInv, R!remove_live PROVE RestoreInv'
  OBVIOUS
<1> USE DEF R!remove_live, R!Rest, R!Goto, R!Fail, R!Write, R!journal, R!databases, R!blobs,
            R!bounds, R!history, R!memory
<1>1. RestoreTypes'
  BY DEF RestoreInv, RestoreTypes
<1>2. /\ intent.phase # "committed" /\ Returnable /\ RollsBack /\ NotCommitted
      /\ quarantined = "old" \/ TookBack
  BY DEF RestoreInv, Undone
<1>3. CASE quarantined = "old"
  <2>1. SetAside' /\ at' = "undo_live" /\ Returnable' /\ NotCommitted'
    BY <1>2, <1>3, BlobsKept DEF SetAside, NotCommitted, R!Absent
  <2>2. ASSUME NEW i \in AnIntent, i.phase \notin {"validated", "committed"}, DiskFits(i)
        PROVE  DiskFits(i)'
    <3>1. i.phase # "requested"
      BY <1>3, <2>2 DEF DiskFits, TookBack
    <3> QED BY <2>1, <2>2, <3>1 DEF DiskFits
  <2>3. RollsBack'
    BY <1>2, <2>2, RollsOn
  <2>4. Undone'
    BY <1>2, <2>1, <2>3 DEF Undone
  <2> QED
    BY <1>1, <2>1, <2>4
    DEF RestoreInv, Resting, Written, Carried, Removed, R!Writing, Carrying
<1>4. CASE TookBack
  <2>1. at' = "undo_assets" /\ UNCHANGED catalog_file
    BY <1>4 DEF TookBack, R!Absent
  <2>2. TookBack' /\ Returnable' /\ NotCommitted'
    BY <1>2, <1>4, <2>1, BlobsKept DEF TookBack, NotCommitted
  <2>3. RollsBack'
    BY <1>2, <2>1, RollsOn, DisksKept
  <2>4. Undone'
    BY <1>2, <2>1, <2>2, <2>3 DEF Undone
  <2> QED
    BY <1>1, <2>1, <2>4
    DEF RestoreInv, Resting, Written, Carried, Removed, R!Writing, Carrying
<1> QED BY <1>2, <1>3, <1>4

LEMMA Step_return_live == RestoreInv /\ R!return_live => RestoreInv'
<1> SUFFICES ASSUME RestoreInv, R!return_live PROVE RestoreInv'
  OBVIOUS
<1> USE DEF R!return_live, R!Rest, R!Goto, R!Fail, R!Write, R!journal, R!databases, R!blobs,
            R!bounds, R!history, R!memory
<1>1. RestoreTypes'
  BY DEF RestoreInv, RestoreTypes
<1>2. intent.phase # "committed" /\ Returnable /\ RollsBack /\ NotCommitted /\ SetAside
  BY DEF RestoreInv, Undone
<1>3. TookBack' /\ Returnable' /\ NotCommitted'
  BY <1>2, BlobsKept DEF TookBack, SetAside, NotCommitted, R!Absent
<1>4. ASSUME NEW i \in AnIntent, i.phase \notin {"validated", "committed"}, DiskFits(i)
      PROVE  DiskFits(i)'
  BY <1>3, <1>4 DEF DiskFits
<1>5. RollsBack'
  BY <1>2, <1>4, RollsOn
<1>6. Undone'
  BY <1>2, <1>3, <1>5 DEF Undone
<1> QED
  BY <1>1, <1>6
  DEF RestoreInv, Resting, Written, Carried, Removed, R!Writing, Carrying

LEMMA Step_rollback_asset == RestoreInv /\ (\E a \in Assets : R!rollback_asset(a)) => RestoreInv'
<1> SUFFICES ASSUME RestoreInv, NEW a \in Assets, R!rollback_asset(a) PROVE RestoreInv'
  OBVIOUS
<1> USE DEF R!rollback_asset, R!Rest, R!Goto, R!Fail, R!Write, R!journal, R!databases,
            R!blobs, R!bounds, R!history, R!memory
<1>1. RestoreTypes'
  BY DEF RestoreInv, RestoreTypes, BlobStates
<1>2. intent.phase # "committed" /\ Returnable /\ RollsBack /\ NotCommitted /\ TookBack
  BY DEF RestoreInv, Undone
<1>3. Returnable'
  BY <1>2 DEF Returnable, Displaced, RestoreInv, RestoreTypes, BlobStates
<1>4. TookBack' /\ NotCommitted'
  BY <1>2 DEF TookBack, NotCommitted
<1>5. ASSUME NEW i \in AnIntent, i.phase \notin {"validated", "committed"}, DiskFits(i)
      PROVE  DiskFits(i)'
  BY <1>3, <1>4, <1>5 DEF DiskFits
<1>6. RollsBack'
  BY <1>2, <1>5, RollsOn
<1>7. Undone'
  BY <1>2, <1>3, <1>4, <1>6 DEF Undone
<1> QED
  BY <1>1, <1>7
  DEF RestoreInv, Resting, Written, Carried, Removed, R!Writing, Carrying

LEMMA Step_assets_rolled_back == RestoreInv /\ R!assets_rolled_back => RestoreInv'
<1> SUFFICES ASSUME RestoreInv, R!assets_rolled_back PROVE RestoreInv'
  OBVIOUS
<1> USE DEF R!assets_rolled_back, R!Rest, R!Goto, R!Fail, R!Write, R!journal, R!databases,
            R!blobs, R!bounds, R!history, R!memory
<1>1. RestoreTypes'
  BY DEF RestoreInv, RestoreTypes
<1>2. intent.phase # "committed" /\ Returnable /\ RollsBack /\ NotCommitted /\ TookBack
  BY DEF RestoreInv, Undone
<1>3. blob = before
  BY <1>2 DEF Returnable, Displaced, RestoreInv, RestoreTypes
<1>4. TookBack' /\ Returnable' /\ NotCommitted' /\ blob' = before'
  BY <1>2, <1>3, BlobsKept DEF TookBack, NotCommitted
<1>5. RollsBack'
  BY <1>2, RollsOn, DisksKept
<1>6. Undone'
  BY <1>2, <1>4, <1>5 DEF Undone
<1> QED
  BY <1>1, <1>6
  DEF RestoreInv, Resting, Written, Carried, Removed, R!Writing, Carrying

\* The process ends, by itself or not: what is in memory is lost.
LEMMA EndsDown ==
    ASSUME RestoreInv, at' = "down", restored' \in BOOLEAN, StartFits,
           UNCHANGED <<catalog_file, staged, quarantined, blob, moved, marked, json, hash, tjson,
                       thash, restores, before>>
    PROVE  RestoreInv'
<1>1. RestoreTypes'
  BY DEF RestoreInv, RestoreTypes
<1>2. StartFits'
  BY StartsKept
<1> QED
  BY <1>1, <1>2
  DEF RestoreInv, Resting, Written, Carried, Undone, Removed, R!Writing, Carrying

LEMMA Step_Crash == RestoreInv /\ R!Crash => (cutoff \/ RestoreInv)'
<1> SUFFICES ASSUME RestoreInv, R!Crash PROVE (cutoff \/ RestoreInv)'
  OBVIOUS
<1> USE DEF R!Crash, R!Rest, R!journal, R!databases, R!blobs
<1>1. CASE ValidatedUndone
  BY <1>1 DEF ValidatedUndone, R!CutOff
<1>2. CASE StartFits
  BY <1>2, EndsDown
<1> QED BY <1>1, <1>2, StartsFit

LEMMA Step_Error == RestoreInv /\ R!Error => (cutoff \/ RestoreInv)'
<1> SUFFICES ASSUME RestoreInv, R!Error PROVE (cutoff \/ RestoreInv)'
  OBVIOUS
<1>1. /\ at \notin {"up", "down"}
      /\ UNCHANGED <<catalog_file, staged, quarantined, blob, moved, marked, json, hash, tjson,
                     thash, restores, before>>
  BY DEF R!Error, R!journal, R!databases, R!blobs
<1>2. CASE ValidatedUndone
  BY <1>2 DEF ValidatedUndone, R!Error, R!CutOff
<1>3. CASE StartFits /\ R!Rest("down")
  BY <1>1, <1>3, EndsDown DEF R!Rest
<1>4. CASE at \in R!Writing /\ R!AfterWrite = "up" /\ R!Rest("up")
  <2>1. intent \in AnIntent
    BY <1>4 DEF RestoreInv, RestoreTypes, R!Writing
  <2>2. intent.phase = "requested" /\ intent.staged = "none"
    BY <1>4, <2>1, AfterWriting DEF R!Phases
  <2>3. Untouched
    BY <1>4, <2>2 DEF RestoreInv, Written
  <2>4. StartFits
    BY <1>4, StartsFit DEF ValidatedUndone, R!Undoing, R!Writing
  <2>5. AtRest' /\ StartFits'
    BY <1>1, <2>3, <2>4, DisksKept, StartsKept DEF AtRest
  <2>6. at' = "up" /\ restored' = FALSE
    BY <1>4 DEF R!Rest
  <2>7. RestoreTypes'
    BY <1>1, <2>6 DEF RestoreInv, RestoreTypes
  <2> QED
    BY <2>5, <2>6, <2>7
    DEF RestoreInv, Resting, Written, Carried, Undone, Removed, R!Writing, Carrying
<1>5. CASE /\ R!Fail
           /\ \/ at \in R!Applying
              \/ at \in R!Writing /\ R!AfterWrite \notin {"up", "cleanup"}
  BY <1>1, <1>5, Failing, UndoBegins
<1>6. \/ R!Rest("down")
      \/ at \in R!Writing /\ R!AfterWrite = "up" /\ R!Rest("up")
      \/ /\ R!Fail
         /\ \/ at \in R!Applying
            \/ at \in R!Writing /\ R!AfterWrite \notin {"up", "cleanup"}
  BY DEF R!Error
<1> QED BY <1>2, <1>3, <1>4, <1>5, <1>6, StartsFit

LEMMA RestoreKept ==
    ASSUME cutoff \/ RestoreInv, UNCHANGED restoreVars
    PROVE  (cutoff \/ RestoreInv)'
<1>1. UNCHANGED <<catalog_file, staged, quarantined, opdir, blob, moved, marked, json, hash, tjson,
                  thash, at, intent, restored, restores, faults, shown, before, cutoff>>
  BY DEF restoreVars
<1>2. CASE cutoff
  BY <1>1, <1>2
<1>3. CASE RestoreInv
  <2>1. RestoreTypes'
    BY <1>1, <1>3 DEF RestoreInv, RestoreTypes
  <2>2. /\ StartFits' <=> StartFits
        /\ AtRest' <=> AtRest
        /\ Untouched' <=> Untouched
        /\ \A i : DiskFits(i)' <=> DiskFits(i)
        /\ Returnable' <=> Returnable
        /\ RollsBack => RollsBack'
    BY <1>1, StartsKept, DisksKept, BlobsKept, RollsOn
  <2>3. Resting'
    BY <1>1, <1>3, <2>2 DEF RestoreInv, Resting, InJournal, R!Pending
  <2>4. Written'
    BY <1>1, <1>3, <2>2 DEF RestoreInv, Written
  <2>5. Carried'
    BY <1>1, <1>3, <2>2 DEF RestoreInv, Carried, InJournal
  <2>6. Undone'
    BY <1>1, <1>3, <2>2 DEF RestoreInv, Undone, NotCommitted, TookBack, SetAside
  <2>7. Removed'
    BY <1>1, <1>3, <2>2 DEF RestoreInv, Removed, NotCommitted, InJournal
  <2> QED BY <1>1, <1>3, <2>1, <2>3, <2>4, <2>5, <2>6, <2>7 DEF RestoreInv
<1> QED BY <1>2, <1>3

LEMMA RestoreSteps == RestoreInv /\ R!Next => (cutoff \/ RestoreInv)'
  BY Step_write_temporaries, Step_rename_json, Step_rename_hash, Step_sync_root,
     Step_remove_json, Step_remove_hash, Step_prepare, Step_Quit, Step_StartPlain,
     Step_StartPending, Step_recover_deletions, Step_verify, Step_stage, Step_copy,
     Step_normalize, Step_finish, Step_record, Step_displace, Step_mark,
     Step_install_asset, Step_assets_installed, Step_quarantine_live_database,
     Step_install_database, Step_validate_installed, Step_Open, Step_remove_operation,
     Step_remove_live, Step_return_live, Step_rollback_asset, Step_assets_rolled_back,
     Step_Crash, Step_Error, RestoreKept
  DEF R!Next, R!Work, R!StartRefused, restoreVars, R!vars, R!journal, R!databases, R!blobs,
      R!memory, R!bounds, R!history

\* Nothing that an earlier cut took back is asked of what follows it.
LEMMA CutOffStays == cutoff /\ R!Next => cutoff'
  BY DEF R!Next, R!Work, R!StartRefused, R!vars, R!history, R!memory, R!journal, R!databases,
         R!blobs, R!bounds, R!CutOff, R!Crash, R!Error, R!Quit, R!prepare, R!StartPlain,
         R!StartPending, R!recover_deletions, R!verify, R!stage, R!copy, R!normalize, R!finish,
         R!record, R!displace, R!mark, R!install_asset, R!rollback_asset, R!assets_installed,
         R!quarantine_live_database, R!install_database, R!validate_installed, R!Open,
         R!remove_operation, R!remove_live, R!return_live, R!assets_rolled_back,
         R!write_temporaries, R!rename_json, R!rename_hash, R!sync_root, R!remove_json,
         R!remove_hash

\* The catalog the user had is on disk, live or quarantined, until the restored one is live
\* and its restore committed, and what the application opens is whole, whatever crashes and
\* failed calls cut a restore, its rollback or its cleanup off, in any number and order
\* (restore_repository.rs).  Only the rollback of a restore that the journal calls validated
\* is excepted: cut off, it is not gone on with, and the next start commits.
THEOREM RestoresKeepACatalog == SpecStorage => []RestoreKeepsACatalog
<1>1. (cutoff \/ RestoreInv) /\ [NextStorage]_allVars => (cutoff \/ RestoreInv)'
  <2>1. NextStorage => R!Next \/ UNCHANGED restoreVars
    BY DEF NextStorage, Delete
  <2>2. UNCHANGED allVars => UNCHANGED restoreVars
    BY DEF allVars
  <2> QED BY <2>1, <2>2, RestoreSteps, CutOffStays, RestoreKept
<1>2. cutoff \/ RestoreInv => RestoreKeepsACatalog
  BY CatalogsAreKept
<1> QED BY <1>1, <1>2, RestoreInitially, PTL DEF SpecStorage

-----------------------------------------------------------------------------
(* What falls with the target of a deletion                                *)

LEMMA LeastNumber ==
    ASSUME NEW T \in SUBSET Nat, T # {}
    PROVE  \E n \in T : \A m \in T : n <= m
<1> DEFINE Less == OpToRel(<, Nat)
<1>1. IsWellFoundedOn(Less, Nat)
  BY NatLessThanWellFounded
<1>2. \E n \in T : \A m \in T : <<m, n>> \notin Less
  <2> HIDE DEF Less
  <2> QED BY <1>1, WFMin
<1>3. ASSUME NEW n \in T, NEW m \in T, <<m, n>> \notin Less
      PROVE  n <= m
  <2>1. <<m, n>> \in Less <=> m < n
    BY DEF OpToRel
  <2> HIDE DEF Less
  <2>2. m \in Nat /\ n \in Nat
    OBVIOUS
  <2> QED BY <2>1, <2>2, <1>3
<1> QED BY <1>2, <1>3

\* What the tables hold.
Tables ==
    [source : SUBSET C!SourceRecords, materialized : SUBSET Mails, evidence : SUBSET C!Evidence,
     order : SUBSET Mails, authority : SUBSET Mails, image : SUBSET Mails,
     snapshot : SUBSET Mails, promotion : SUBSET Units, tombstone : SUBSET Units,
     item : SUBSET C!Items, inactive : SUBSET C!Items, link : SUBSET (C!Items \X C!Evidence),
     scope : SUBSET Pictures, detected : SUBSET Pictures,
     case : SUBSET [photo : Pictures, items : SUBSET C!Items, mails : SUBSET Mails],
     outfit : SUBSET [item : C!Items, pin : Pictures \cup {C!NoPin}],
     attempt : SUBSET C!Items,
     approval : SUBSET [portrait : Pictures, item : C!Items, pin : Pictures]]

\* The foreign keys hold, and outfits and approvals, which are counted, are finitely many.
ClosureInv ==
    /\ db \in Tables
    /\ C!foreign_key_check(db)
    /\ IsFiniteSet(db.outfit) /\ IsFiniteSet(db.approval)

-----------------------------------------------------------------------------
(* The rounds of the closure: defined, growing, and in the end closed      *)

AllIds == C!SourceRecords \cup C!Items
RoundsIn == Cardinality(AllIds)

FirstRound(S, Its) == [sources |-> S, evidence |-> {}, items |-> Its]
IsRounds(f, m, S, Its) ==
    f = [n \in 0..m |-> IF n = 0 THEN FirstRound(S, Its) ELSE C!expand_round(f[n - 1])]

LEMMA RowSizes == ASSUME NEW Us PROVE C!Cardinality(Us) = Cardinality(Us)
  BY DEF Cardinality, C!Cardinality

LEMMA IdsAreFinite ==
    /\ IsFiniteSet(AllIds) /\ RoundsIn \in Nat
    /\ IsFiniteSet(Pictures)
<1>1. IsFiniteSet(Mails) /\ IsFiniteSet(Units) /\ IsFiniteSet(NewItems) /\ IsFiniteSet(Pictures)
  BY ClosureAssumption
<1>2. IsFiniteSet(C!SourceRecords)
  BY <1>1, FS_Union DEF C!SourceRecords
<1>3. IsFiniteSet(C!Items)
  BY <1>1, FS_Union DEF C!Items
<1>4. IsFiniteSet(AllIds)
  BY <1>2, <1>3, FS_Union DEF AllIds
<1> QED BY <1>1, <1>4, FS_CardinalityType DEF RoundsIn

LEMMA RoundsExist ==
    ASSUME NEW S, NEW Its, NEW k \in Nat
    PROVE  \E f : IsRounds(f, k, S, Its)
<1> DEFINE T == {m \in Nat : ~ \E f : IsRounds(f, m, S, Its)}
<1> SUFFICES ASSUME T # {} PROVE FALSE
  OBVIOUS
<1>1. T \in SUBSET Nat
  OBVIOUS
<1>2. PICK m \in T : \A n \in T : m <= n
  <2> HIDE DEF T
  <2> QED BY <1>1, LeastNumber
<1>3. m \in Nat
  OBVIOUS
<1>4. CASE m = 0
  <2>1. IsRounds([n \in 0..0 |-> FirstRound(S, Its)], 0, S, Its)
    BY DEF IsRounds
  <2> QED BY <2>1, <1>4
<1>5. CASE m # 0
  <2>1. m - 1 \in Nat /\ m - 1 \notin T
    BY <1>2, <1>3, <1>5
  <2>2. PICK f : IsRounds(f, m - 1, S, Its)
    BY <2>1
  <2> DEFINE g == [n \in 0..m |-> IF n = m THEN C!expand_round(f[m - 1]) ELSE f[n]]
  <2>3. ASSUME NEW n \in 0..m
        PROVE  g[n] = IF n = 0 THEN FirstRound(S, Its) ELSE C!expand_round(g[n - 1])
    <3>1. CASE n = m
      <4>1. g[n - 1] = f[n - 1]
        BY <3>1, <1>3, <1>5
      <4> QED BY <3>1, <4>1, <1>5
    <3>2. CASE n # m
      <4>1. n \in 0..(m - 1) /\ g[n] = f[n]
        BY <3>2, <1>3
      <4>2. n # 0 => n - 1 \in 0..m /\ n - 1 # m /\ g[n - 1] = f[n - 1]
        BY <3>2, <1>3
      <4>3. f[n] = IF n = 0 THEN FirstRound(S, Its) ELSE C!expand_round(f[n - 1])
        BY <2>2, <4>1 DEF IsRounds
      <4> QED BY <4>1, <4>2, <4>3
    <3> QED BY <3>1, <3>2
  <2>4. IsRounds(g, m, S, Its)
    BY <2>3 DEF IsRounds
  <2> QED BY <2>4
<1> QED BY <1>4, <1>5

LEMMA LastRound ==
    ASSUME NEW S, NEW Its
    PROVE  \E f : /\ IsRounds(f, RoundsIn, S, Its)
                  /\ C!expand_deletion_closure(S, Its) = f[RoundsIn]
<1> DEFINE f == CHOOSE f : IsRounds(f, RoundsIn, S, Its)
<1>1. IsRounds(f, RoundsIn, S, Its)
  BY RoundsExist, IdsAreFinite
<1>2. C!Cardinality(C!SourceRecords \cup C!Items) = RoundsIn
  BY RowSizes DEF RoundsIn, AllIds
<1>3. C!expand_deletion_closure(S, Its) = f[RoundsIn]
  BY <1>2 DEF C!expand_deletion_closure, IsRounds, FirstRound
<1> QED BY <1>1, <1>3

\* A round of rows of the catalog, with the sources and the items of its evidence.
SoundRound(r) ==
    /\ r.sources \subseteq db.source /\ r.evidence \subseteq db.evidence
    /\ r.items \subseteq db.item
    /\ \A x \in r.evidence : C!SourceOf(x) \in r.sources
    /\ \A l \in db.link : l[2] \in r.evidence => l[1] \in r.items

\* Nothing more refers to it.
ClosedRound(r) ==
    /\ \A x \in db.evidence : C!SourceOf(x) \in r.sources => x \in r.evidence
    /\ \A l \in db.link : l[1] \in r.items => l[2] \in r.evidence

IdsOf(r) == r.sources \cup r.items

\* What the keys say of evidence and of its items.
LEMMA EvidenceHasItsSource ==
    ASSUME ClosureInv
    PROVE  /\ \A x \in db.evidence : C!SourceOf(x) \in db.source
           /\ \A l \in db.link : l[1] \in db.item /\ l[2] \in db.evidence
           /\ \A l \in db.link : l = <<l[1], l[2]>>
           /\ db.source \subseteq C!SourceRecords /\ db.item \subseteq C!Items
           /\ db.evidence \subseteq C!Evidence
<1>1. /\ {C!SourceOf(e) : e \in db.evidence} \subseteq db.source
      /\ \A l \in db.link : l[1] \in db.item /\ l[2] \in db.evidence
  BY DEF ClosureInv, C!foreign_key_check
<1>2. db \in Tables
  BY DEF ClosureInv
<1>3. /\ db.source \subseteq C!SourceRecords /\ db.item \subseteq C!Items
      /\ db.evidence \subseteq C!Evidence /\ db.link \subseteq C!Items \X C!Evidence
  BY <1>2 DEF Tables
<1> QED BY <1>1, <1>3

LEMMA IdsAreDisjoint == C!SourceRecords \cap C!Items = {}
  BY ClosureAssumption DEF C!SourceRecords, C!Items

\* A round adds an id or finds nothing more.
LEMMA RoundGrows ==
    ASSUME ClosureInv, NEW r, SoundRound(r)
    PROVE  LET s == C!expand_round(r) IN
           /\ SoundRound(s)
           /\ r.sources \subseteq s.sources /\ r.items \subseteq s.items
           /\ IdsOf(s) = IdsOf(r) => ClosedRound(s)
           /\ ClosedRound(r) => ClosedRound(s)
<1> DEFINE e == {x \in db.evidence : \/ x \in r.evidence \/ C!SourceOf(x) \in r.sources
                                    \/ \E i \in r.items : <<i, x>> \in db.link}
           s == C!expand_round(r)
<1>1. /\ s.sources = r.sources \cup {C!SourceOf(x) : x \in e}
      /\ s.evidence = e
      /\ s.items = r.items \cup {i \in C!Items : \E x \in e : <<i, x>> \in db.link}
  BY DEF C!expand_round
<1> HIDE DEF s
<1>2. SoundRound(s)
  <2>1. s.sources \subseteq db.source
    BY <1>1, EvidenceHasItsSource DEF SoundRound
  <2>2. s.items \subseteq db.item
    <3>1. ASSUME NEW i \in C!Items, NEW x \in e, <<i, x>> \in db.link PROVE i \in db.item
      BY <3>1, EvidenceHasItsSource
    <3> HIDE DEF e
    <3> QED BY <1>1, <3>1 DEF SoundRound
  <2>3. \A l \in db.link : l[2] \in s.evidence => l[1] \in s.items
    <3> SUFFICES ASSUME NEW l \in db.link, l[2] \in s.evidence PROVE l[1] \in s.items
      OBVIOUS
    <3>1. l = <<l[1], l[2]>> /\ l[1] \in C!Items
      BY EvidenceHasItsSource
    <3> HIDE DEF e
    <3> QED BY <3>1, <1>1
  <2>4. s.evidence \subseteq db.evidence
    BY <1>1
  <2>5. \A x \in s.evidence : C!SourceOf(x) \in s.sources
    <3> HIDE DEF e
    <3> QED BY <1>1
  <2> QED BY <2>1, <2>2, <2>3, <2>4, <2>5 DEF SoundRound
<1>3. r.sources \subseteq s.sources /\ r.items \subseteq s.items
  BY <1>1
<1>4. ASSUME s.sources = r.sources, s.items = r.items
      PROVE  ClosedRound(s)
  <2>1. ASSUME NEW x \in db.evidence, C!SourceOf(x) \in s.sources PROVE x \in s.evidence
    BY <1>1, <1>4, <2>1
  <2>2. ASSUME NEW l \in db.link, l[1] \in s.items PROVE l[2] \in s.evidence
    <3>1. l[2] \in db.evidence /\ <<l[1], l[2]>> \in db.link /\ l[1] \in r.items
      BY <1>4, <2>2, EvidenceHasItsSource
    <3> QED BY <3>1, <1>1
  <2> QED BY <2>1, <2>2 DEF ClosedRound
<1>5. ASSUME IdsOf(s) = IdsOf(r) PROVE ClosedRound(s)
  <2>1. /\ s.sources \subseteq C!SourceRecords /\ s.items \subseteq C!Items
    BY <1>2, EvidenceHasItsSource DEF SoundRound
  <2>2. s.sources = r.sources /\ s.items = r.items
    BY <2>1, <1>3, <1>5, IdsAreDisjoint DEF IdsOf
  <2> QED BY <2>2, <1>4
<1>6. ASSUME ClosedRound(r) PROVE ClosedRound(s)
  <2>1. \A x \in e : x \in r.evidence
    <3> SUFFICES ASSUME NEW x \in e PROVE x \in r.evidence
      OBVIOUS
    <3>1. ASSUME NEW i \in r.items, <<i, x>> \in db.link PROVE x \in r.evidence
      BY <3>1, <1>6 DEF ClosedRound
    <3> QED BY <3>1, <1>6 DEF ClosedRound
  <2>2. s.sources = r.sources
    <3> HIDE DEF e
    <3> QED BY <1>1, <2>1 DEF SoundRound
  <2>3. s.items = r.items
    <3>1. ASSUME NEW i \in C!Items, NEW x \in e, <<i, x>> \in db.link PROVE i \in r.items
      <4>1. x \in r.evidence
        BY <2>1
      <4> HIDE DEF e
      <4> QED BY <4>1, <3>1 DEF SoundRound
    <3> HIDE DEF e
    <3> QED BY <1>1, <3>1
  <2> QED BY <2>2, <2>3, <1>4
<1> QED BY <1>2, <1>3, <1>5, <1>6 DEF s

\* After as many rounds as there are ids, nothing is left that refers to what falls.
LEMMA ClosureIsClosed ==
    ASSUME ClosureInv, NEW S, NEW Its, S \subseteq db.source, Its \subseteq db.item
    PROVE  LET r == C!expand_deletion_closure(S, Its) IN
           SoundRound(r) /\ ClosedRound(r) /\ S \subseteq r.sources /\ Its \subseteq r.items
<1>1. PICK f : /\ IsRounds(f, RoundsIn, S, Its)
               /\ C!expand_deletion_closure(S, Its) = f[RoundsIn]
  BY LastRound
<1>2. RoundsIn \in Nat
  BY IdsAreFinite
<1> DEFINE Good(n) == /\ SoundRound(f[n]) /\ S \subseteq f[n].sources /\ Its \subseteq f[n].items
                      /\ Cardinality(IdsOf(f[n])) > n \/ ClosedRound(f[n])
           T == {n \in Nat : n <= RoundsIn /\ ~ Good(n)}
<1>3. Good(0)
  <2>1. f[0] = FirstRound(S, Its)
    BY <1>1, <1>2 DEF IsRounds
  <2>2. SoundRound(f[0]) /\ f[0].sources = S /\ f[0].items = Its /\ f[0].evidence = {}
    BY <2>1 DEF FirstRound, SoundRound
  <2>3. CASE IdsOf(f[0]) = {}
    BY <2>2, <2>3 DEF IdsOf, ClosedRound
  <2>4. CASE IdsOf(f[0]) # {}
    <3>1. IdsOf(f[0]) \subseteq AllIds
      BY <2>2, EvidenceHasItsSource DEF IdsOf, SoundRound, AllIds
    <3>2. IsFiniteSet(IdsOf(f[0]))
      BY <3>1, IdsAreFinite, FS_Subset
    <3>3. Cardinality(IdsOf(f[0])) > 0
      BY <3>2, <2>4, FS_CardinalityType, FS_EmptySet
    <3> QED BY <3>3, <2>2
  <2> QED BY <2>2, <2>3, <2>4
<1>4. ASSUME NEW n \in Nat, n < RoundsIn, Good(n) PROVE Good(n + 1)
  <2>1. f[n + 1] = C!expand_round(f[n])
    <3>1. n + 1 \in 0..RoundsIn /\ n + 1 # 0 /\ (n + 1) - 1 = n
      BY <1>2, <1>4
    <3> QED BY <3>1, <1>1 DEF IsRounds
  <2>2. /\ SoundRound(f[n + 1]) /\ S \subseteq f[n + 1].sources /\ Its \subseteq f[n + 1].items
        /\ IdsOf(f[n]) \subseteq IdsOf(f[n + 1])
        /\ IdsOf(f[n + 1]) = IdsOf(f[n]) => ClosedRound(f[n + 1])
        /\ ClosedRound(f[n]) => ClosedRound(f[n + 1])
    BY <2>1, <1>4, RoundGrows DEF IdsOf
  <2>3. ASSUME IdsOf(f[n + 1]) # IdsOf(f[n]), Cardinality(IdsOf(f[n])) > n
        PROVE  Cardinality(IdsOf(f[n + 1])) > n + 1
    <3>1. IdsOf(f[n + 1]) \subseteq AllIds
      BY <2>2, EvidenceHasItsSource DEF IdsOf, SoundRound, AllIds
    <3>2. IsFiniteSet(IdsOf(f[n + 1]))
      BY <3>1, IdsAreFinite, FS_Subset
    <3>3. /\ Cardinality(IdsOf(f[n])) \in Nat /\ Cardinality(IdsOf(f[n + 1])) \in Nat
          /\ Cardinality(IdsOf(f[n])) < Cardinality(IdsOf(f[n + 1]))
      BY <3>2, <2>2, <2>3, FS_Subset, FS_CardinalityType
    <3> QED BY <3>3, <2>3
  <2> QED BY <2>2, <2>3, <1>4
<1>5. T = {}
  <2> SUFFICES ASSUME T # {} PROVE FALSE
    OBVIOUS
  <2>1. T \in SUBSET Nat
    OBVIOUS
  <2>2. PICK n \in T : \A m \in T : n <= m
    <3> HIDE DEF T
    <3> QED BY <2>1, LeastNumber
  <2>3. n \in Nat /\ n <= RoundsIn /\ ~ Good(n)
    OBVIOUS
  <2> HIDE DEF Good
  <2>4. n # 0
    BY <2>3, <1>3
  <2>5. n - 1 \in Nat /\ n - 1 < RoundsIn /\ (n - 1) + 1 = n
    BY <2>3, <2>4, <1>2
  <2>6. Good(n - 1)
    BY <2>2, <2>3, <2>5, <1>2
  <2> QED BY <2>3, <2>5, <2>6, <1>4
<1>6. Good(RoundsIn)
  <2> HIDE DEF Good
  <2> QED BY <1>5, <1>2
<1>7. ~ (Cardinality(IdsOf(f[RoundsIn])) > RoundsIn)
  <2>1. IdsOf(f[RoundsIn]) \subseteq AllIds
    BY <1>6, EvidenceHasItsSource DEF IdsOf, SoundRound, AllIds
  <2>2. Cardinality(IdsOf(f[RoundsIn])) <= RoundsIn /\ Cardinality(IdsOf(f[RoundsIn])) \in Nat
    BY <2>1, IdsAreFinite, FS_Subset, FS_CardinalityType DEF RoundsIn
  <2> QED BY <2>2, <1>2
<1> QED BY <1>1, <1>6, <1>7

-----------------------------------------------------------------------------
(* The tables keep their keys                                              *)

\* The keys, by the tables they join.
KeysOfMessages(d) ==
    /\ d.materialized \subseteq d.source /\ d.order \subseteq d.source
    /\ d.image \subseteq d.source /\ d.snapshot \subseteq d.source /\ d.scope \subseteq d.source
    /\ d.image \subseteq d.order /\ d.snapshot \subseteq d.order /\ d.authority \subseteq d.order
KeysOfEvidence(d) ==
    /\ \A e \in d.evidence : C!SourceOf(e) \in d.source
    /\ \A l \in d.link : l[1] \in d.item /\ l[2] \in d.evidence
KeysOfUnits(d) ==
    /\ d.promotion \subseteq d.item /\ d.promotion \subseteq d.evidence
    /\ \A u \in d.promotion : MailOf[u] \in d.snapshot
    /\ \A u \in d.tombstone : MailOf[u] \in d.order
KeysOfUses(d) ==
    /\ \A c \in d.case : c.photo \in d.scope /\ c.items \subseteq d.item /\ c.mails \subseteq d.order
    /\ \A o \in d.outfit : o.item \in d.item /\ o.pin \in d.evidence \cup {C!NoPin}
    /\ d.attempt \subseteq d.item

KeysHold(d) == KeysOfMessages(d) /\ KeysOfEvidence(d) /\ KeysOfUnits(d) /\ KeysOfUses(d)

LEMMA KeysByTable ==
    ASSUME NEW d
    PROVE  C!foreign_key_check(d)
             <=> KeysOfMessages(d) /\ KeysOfEvidence(d) /\ KeysOfUnits(d) /\ KeysOfUses(d)
<1>1. {C!SourceOf(e) : e \in d.evidence} \subseteq d.source
        <=> \A e \in d.evidence : C!SourceOf(e) \in d.source
  OBVIOUS
<1>2. /\ (d.promotion \subseteq d.item \cap d.evidence)
           <=> (d.promotion \subseteq d.item /\ d.promotion \subseteq d.evidence)
      /\ ((d.image \cup d.snapshot \cup d.authority) \subseteq d.order)
           <=> (d.image \subseteq d.order /\ d.snapshot \subseteq d.order /\ d.authority \subseteq d.order)
      /\ ((d.materialized \cup d.order \cup d.image \cup d.snapshot \cup d.scope) \subseteq d.source)
           <=> /\ d.materialized \subseteq d.source /\ d.order \subseteq d.source
               /\ d.image \subseteq d.source /\ d.snapshot \subseteq d.source
               /\ d.scope \subseteq d.source
  OBVIOUS
<1> QED BY <1>1, <1>2, Zenon
  DEF C!foreign_key_check, KeysOfMessages, KeysOfEvidence, KeysOfUnits, KeysOfUses

LEMMA Step_review_receipt ==
    ASSUME ClosureInv, NEW m \in Mails, C!review_receipt(m)
    PROVE  ClosureInv'
<1>1. db \in Tables /\ KeysHold(db) /\ IsFiniteSet(db.outfit) /\ IsFiniteSet(db.approval)
  BY KeysByTable DEF ClosureInv, KeysHold
<1>2. /\ m \in db.source
      /\ db' = [db EXCEPT !.order = @ \cup {m}, !.authority = @ \cup {m}]
  BY DEF C!review_receipt, C!Write
<1>3. db' \in Tables
  BY <1>1, <1>2 DEF Tables
<1>4. KeysOfMessages(db') /\ KeysOfEvidence(db') /\ KeysOfUnits(db') /\ KeysOfUses(db')
  BY <1>1, <1>2 DEF Tables, KeysHold, KeysOfMessages, KeysOfEvidence, KeysOfUnits, KeysOfUses
<1>5. IsFiniteSet(db'.outfit) /\ IsFiniteSet(db'.approval)
  BY <1>1, <1>2 DEF Tables
<1> QED BY <1>3, <1>4, <1>5, KeysByTable DEF ClosureInv

LEMMA Step_fetch_receipt_image ==
    ASSUME ClosureInv, NEW m \in Mails, C!fetch_receipt_image(m)
    PROVE  ClosureInv'
<1>1. db \in Tables /\ KeysHold(db) /\ IsFiniteSet(db.outfit) /\ IsFiniteSet(db.approval)
  BY KeysByTable DEF ClosureInv, KeysHold
<1>2. /\ db' = [db EXCEPT !.image = @ \cup {m}]
      /\ m \in db.order
  BY DEF C!fetch_receipt_image, C!Write
<1>3. db' \in Tables
  BY <1>1, <1>2 DEF Tables
<1>4. KeysOfMessages(db') /\ KeysOfEvidence(db') /\ KeysOfUnits(db') /\ KeysOfUses(db')
  BY <1>1, <1>2 DEF Tables, KeysHold, KeysOfMessages, KeysOfEvidence, KeysOfUnits, KeysOfUses
<1>5. IsFiniteSet(db'.outfit) /\ IsFiniteSet(db'.approval)
  BY <1>1, <1>2 DEF Tables
<1> QED BY <1>3, <1>4, <1>5, KeysByTable DEF ClosureInv

LEMMA Step_promote ==
    ASSUME ClosureInv, NEW u \in Units, C!promote(u)
    PROVE  ClosureInv'
<1>1. db \in Tables /\ KeysHold(db) /\ IsFiniteSet(db.outfit) /\ IsFiniteSet(db.approval)
  BY KeysByTable DEF ClosureInv, KeysHold
<1>2. /\ db' = [db EXCEPT !.promotion = @ \cup {u}, !.snapshot = @ \cup {MailOf[u]},
                        !.item = @ \cup {u}, !.evidence = @ \cup {u},
                        !.link = @ \cup {<<u, u>>}]
      /\ MailOf[u] \in db.authority
  BY DEF C!promote, C!Write
<1>a. /\ u \in C!Items /\ u \in C!Evidence /\ C!SourceOf(u) = MailOf[u] /\ MailOf[u] \in Mails
  BY ClosureAssumption DEF C!Items, C!Evidence, C!SourceOf
<1>b. (db.link \cup {<<u, u>>}) \in SUBSET (C!Items \X C!Evidence)
  <2>1. db.link \in SUBSET (C!Items \X C!Evidence)
    BY <1>1 DEF Tables
  <2> QED BY <2>1, <1>a
<1>3. db' \in Tables
  BY <1>1, <1>2, <1>b, <1>a DEF Tables
<1>4. KeysOfMessages(db') /\ KeysOfEvidence(db') /\ KeysOfUnits(db') /\ KeysOfUses(db')
  BY <1>1, <1>2, <1>a DEF Tables, KeysHold, KeysOfMessages, KeysOfEvidence, KeysOfUnits, KeysOfUses
<1>5. IsFiniteSet(db'.outfit) /\ IsFiniteSet(db'.approval)
  BY <1>1, <1>2 DEF Tables
<1> QED BY <1>3, <1>4, <1>5, KeysByTable DEF ClosureInv

LEMMA Step_save_item ==
    ASSUME ClosureInv, NEW i \in C!Items, NEW e \in C!Evidence, C!save_item(i, e)
    PROVE  ClosureInv'
<1>1. db \in Tables /\ KeysHold(db) /\ IsFiniteSet(db.outfit) /\ IsFiniteSet(db.approval)
  BY KeysByTable DEF ClosureInv, KeysHold
<1>2. /\ db' = [db EXCEPT !.item = @ \cup {i}, !.link = @ \cup {<<i, e>>}]
      /\ e \in db.evidence
  BY DEF C!save_item, C!Write
<1>b. (db.link \cup {<<i, e>>}) \in SUBSET (C!Items \X C!Evidence)
  <2>1. db.link \in SUBSET (C!Items \X C!Evidence)
    BY <1>1 DEF Tables
  <2> QED BY <2>1
<1>3. db' \in Tables
  BY <1>1, <1>2, <1>b DEF Tables
<1>4. KeysOfMessages(db') /\ KeysOfEvidence(db') /\ KeysOfUnits(db') /\ KeysOfUses(db')
  BY <1>1, <1>2 DEF Tables, KeysHold, KeysOfMessages, KeysOfEvidence, KeysOfUnits, KeysOfUses
<1>5. IsFiniteSet(db'.outfit) /\ IsFiniteSet(db'.approval)
  BY <1>1, <1>2 DEF Tables
<1> QED BY <1>3, <1>4, <1>5, KeysByTable DEF ClosureInv

LEMMA Step_decide_evidence ==
    ASSUME ClosureInv, NEW i \in C!Items, NEW e \in C!Evidence, C!decide_evidence(e, i)
    PROVE  ClosureInv'
<1>1. db \in Tables /\ KeysHold(db) /\ IsFiniteSet(db.outfit) /\ IsFiniteSet(db.approval)
  BY KeysByTable DEF ClosureInv, KeysHold
<1>2. /\ db' = [db EXCEPT !.link = {l \in @ : l[2] # e} \cup {<<i, e>>}]
      /\ e \in db.evidence /\ i \in db.item
  BY DEF C!decide_evidence, C!Write, C!Active, C!Moved
<1>3. db' \in Tables
  BY <1>1, <1>2 DEF Tables
<1>4. KeysOfMessages(db') /\ KeysOfEvidence(db') /\ KeysOfUnits(db') /\ KeysOfUses(db')
  BY <1>1, <1>2 DEF Tables, KeysHold, KeysOfMessages, KeysOfEvidence, KeysOfUnits, KeysOfUses
<1>5. IsFiniteSet(db'.outfit) /\ IsFiniteSet(db'.approval)
  BY <1>1, <1>2 DEF Tables
<1> QED BY <1>3, <1>4, <1>5, KeysByTable DEF ClosureInv

LEMMA Step_merge_items ==
    ASSUME ClosureInv, NEW i \in C!Items, NEW j \in C!Items, C!merge_items(i, j)
    PROVE  ClosureInv'
<1>1. db \in Tables /\ KeysHold(db) /\ IsFiniteSet(db.outfit) /\ IsFiniteSet(db.approval)
  BY KeysByTable DEF ClosureInv, KeysHold
<1>2. /\ db' = [db EXCEPT !.inactive = @ \cup {j},
                        !.link = {<<IF l[1] = j THEN i ELSE l[1], l[2]>> : l \in @}]
      /\ {i, j} \subseteq db.item
  BY DEF C!merge_items, C!Write, C!Active
<1>b. ({<<IF l[1] = j THEN i ELSE l[1], l[2]>> : l \in db.link}) \in SUBSET (C!Items \X C!Evidence)
  <2>1. db.link \in SUBSET (C!Items \X C!Evidence)
    BY <1>1 DEF Tables
  <2> QED BY <2>1
<1>3. db' \in Tables
  BY <1>1, <1>2, <1>b DEF Tables
<1>4. KeysOfMessages(db') /\ KeysOfEvidence(db') /\ KeysOfUnits(db') /\ KeysOfUses(db')
  BY <1>1, <1>2 DEF Tables, KeysHold, KeysOfMessages, KeysOfEvidence, KeysOfUnits, KeysOfUses
<1>5. IsFiniteSet(db'.outfit) /\ IsFiniteSet(db'.approval)
  BY <1>1, <1>2 DEF Tables
<1> QED BY <1>3, <1>4, <1>5, KeysByTable DEF ClosureInv

LEMMA Step_create_photo_scope ==
    ASSUME ClosureInv, C!create_photo_scope
    PROVE  ClosureInv'
<1>1. db \in Tables /\ KeysHold(db) /\ IsFiniteSet(db.outfit) /\ IsFiniteSet(db.approval)
  BY KeysByTable DEF ClosureInv, KeysHold
<1>2. /\ db' = [db EXCEPT !.scope = PicturesOfRoot \cap db.source]
  BY DEF C!create_photo_scope, C!Write
<1>a. PicturesOfRoot \subseteq Pictures /\ db.scope = {}
  BY ClosureAssumption DEF C!create_photo_scope
<1>3. db' \in Tables
  BY <1>1, <1>2, <1>a DEF Tables
<1>4. KeysOfMessages(db') /\ KeysOfEvidence(db') /\ KeysOfUnits(db') /\ KeysOfUses(db')
  BY <1>1, <1>2, <1>a DEF Tables, KeysHold, KeysOfMessages, KeysOfEvidence, KeysOfUnits, KeysOfUses
<1>5. IsFiniteSet(db'.outfit) /\ IsFiniteSet(db'.approval)
  BY <1>1, <1>2 DEF Tables
<1> QED BY <1>3, <1>4, <1>5, KeysByTable DEF ClosureInv

LEMMA Step_detect_people ==
    ASSUME ClosureInv, C!detect_people
    PROVE  ClosureInv'
<1>1. db \in Tables /\ KeysHold(db) /\ IsFiniteSet(db.outfit) /\ IsFiniteSet(db.approval)
  BY KeysByTable DEF ClosureInv, KeysHold
<1>2. /\ db' = [db EXCEPT !.detected = db.scope]
  BY DEF C!detect_people, C!Write
<1>3. db' \in Tables
  BY <1>1, <1>2 DEF Tables
<1>4. KeysOfMessages(db') /\ KeysOfEvidence(db') /\ KeysOfUnits(db') /\ KeysOfUses(db')
  BY <1>1, <1>2 DEF Tables, KeysHold, KeysOfMessages, KeysOfEvidence, KeysOfUnits, KeysOfUses
<1>5. IsFiniteSet(db'.outfit) /\ IsFiniteSet(db'.approval)
  BY <1>1, <1>2 DEF Tables
<1> QED BY <1>3, <1>4, <1>5, KeysByTable DEF ClosureInv

LEMMA Step_open_case ==
    ASSUME ClosureInv, NEW p \in Pictures, NEW Its \in SUBSET C!Items, NEW M \in SUBSET Mails, C!open_case(p, Its, M)
    PROVE  ClosureInv'
<1>1. db \in Tables /\ KeysHold(db) /\ IsFiniteSet(db.outfit) /\ IsFiniteSet(db.approval)
  BY KeysByTable DEF ClosureInv, KeysHold
<1>2. /\ db' = [db EXCEPT !.case = @ \cup {[photo |-> p, items |-> Its, mails |-> M]}]
      /\ p \in db.scope /\ Its \subseteq db.item /\ M \subseteq db.order
  BY DEF C!open_case, C!Write, C!Active
<1>3. db' \in Tables
  BY <1>1, <1>2 DEF Tables
<1>4. KeysOfMessages(db') /\ KeysOfEvidence(db') /\ KeysOfUnits(db') /\ KeysOfUses(db')
  BY <1>1, <1>2 DEF Tables, KeysHold, KeysOfMessages, KeysOfEvidence, KeysOfUnits, KeysOfUses
<1>5. IsFiniteSet(db'.outfit) /\ IsFiniteSet(db'.approval)
  BY <1>1, <1>2 DEF Tables
<1> QED BY <1>3, <1>4, <1>5, KeysByTable DEF ClosureInv

LEMMA Step_create_manual_outfit ==
    ASSUME ClosureInv, NEW i \in C!Items, NEW pin \in Pictures \cup {C!NoPin}, C!create_manual_outfit(i, pin)
    PROVE  ClosureInv'
<1>1. db \in Tables /\ KeysHold(db) /\ IsFiniteSet(db.outfit) /\ IsFiniteSet(db.approval)
  BY KeysByTable DEF ClosureInv, KeysHold
<1>2. /\ db' = [db EXCEPT !.outfit = @ \cup {[item |-> i, pin |-> pin]}]
      /\ i \in db.item
  BY DEF C!create_manual_outfit, C!Write, C!Active
<1>a. pin \in db.evidence \cup {C!NoPin}
  <2>1. CASE pin \in C!Held(i)
    BY <2>1, EvidenceHasItsSource DEF C!Held
  <2>2. CASE pin = C!NoPin
    BY <2>2
  <2> QED BY <2>1, <2>2 DEF C!create_manual_outfit, C!pin_item_asset
<1>3. db' \in Tables
  BY <1>1, <1>2, <1>a DEF Tables
<1>4. KeysOfMessages(db') /\ KeysOfEvidence(db') /\ KeysOfUnits(db') /\ KeysOfUses(db')
  BY <1>1, <1>2, <1>a DEF Tables, KeysHold, KeysOfMessages, KeysOfEvidence, KeysOfUnits, KeysOfUses
<1>5. IsFiniteSet(db'.outfit) /\ IsFiniteSet(db'.approval)
  <2>1. db'.outfit = db.outfit \cup {[item |-> i, pin |-> pin]} /\ db'.approval = db.approval
    BY <1>1, <1>2 DEF Tables
  <2>2. IsFiniteSet(db.outfit \cup {[item |-> i, pin |-> pin]})
    BY <1>1, FS_AddElement
  <2> QED BY <1>1, <2>1, <2>2
<1> QED BY <1>3, <1>4, <1>5, KeysByTable DEF ClosureInv

LEMMA Step_recommend ==
    ASSUME ClosureInv, NEW i \in C!Items, C!recommend(i)
    PROVE  ClosureInv'
<1>1. db \in Tables /\ KeysHold(db) /\ IsFiniteSet(db.outfit) /\ IsFiniteSet(db.approval)
  BY KeysByTable DEF ClosureInv, KeysHold
<1>2. /\ db' = [db EXCEPT !.attempt = @ \cup {i}]
      /\ i \in db.item
  BY DEF C!recommend, C!Write, C!Active
<1>3. db' \in Tables
  BY <1>1, <1>2 DEF Tables
<1>4. KeysOfMessages(db') /\ KeysOfEvidence(db') /\ KeysOfUnits(db') /\ KeysOfUses(db')
  BY <1>1, <1>2 DEF Tables, KeysHold, KeysOfMessages, KeysOfEvidence, KeysOfUnits, KeysOfUses
<1>5. IsFiniteSet(db'.outfit) /\ IsFiniteSet(db'.approval)
  BY <1>1, <1>2 DEF Tables
<1> QED BY <1>3, <1>4, <1>5, KeysByTable DEF ClosureInv

LEMMA Step_approve_try_on ==
    ASSUME ClosureInv, NEW p \in Pictures, NEW o \in db.outfit, C!approve_try_on(p, o)
    PROVE  ClosureInv'
<1>1. db \in Tables /\ KeysHold(db) /\ IsFiniteSet(db.outfit) /\ IsFiniteSet(db.approval)
  BY KeysByTable DEF ClosureInv, KeysHold
<1>2. /\ db' = [db EXCEPT !.approval = @ \cup {[portrait |-> p, item |-> o.item, pin |-> o.pin]}]
      /\ o.pin # C!NoPin
  BY DEF C!approve_try_on, C!Write
<1>a. o.item \in C!Items /\ o.pin \in Pictures
  BY <1>1, <1>2 DEF Tables
<1>3. db' \in Tables
  BY <1>1, <1>2, <1>a DEF Tables
<1>4. KeysOfMessages(db') /\ KeysOfEvidence(db') /\ KeysOfUnits(db') /\ KeysOfUses(db')
  BY <1>1, <1>2, <1>a DEF Tables, KeysHold, KeysOfMessages, KeysOfEvidence, KeysOfUnits, KeysOfUses
<1>5. IsFiniteSet(db'.outfit) /\ IsFiniteSet(db'.approval)
  <2>1. db'.approval = db.approval \cup {[portrait |-> p, item |-> o.item, pin |-> o.pin]} /\ db'.outfit = db.outfit
    BY <1>1, <1>2 DEF Tables
  <2>2. IsFiniteSet(db.approval \cup {[portrait |-> p, item |-> o.item, pin |-> o.pin]})
    BY <1>1, FS_AddElement
  <2> QED BY <1>1, <2>1, <2>2
<1> QED BY <1>3, <1>4, <1>5, KeysByTable DEF ClosureInv

\* What a deletion leaves, table by table.
LEMMA RowsLeft ==
    ASSUME db \in Tables, NEW gone
    PROVE  LET d == C!Without(gone) IN
           /\ d \in Tables
           /\ d.source = db.source \ gone.source /\ d.materialized = db.materialized \ gone.materialized
           /\ d.evidence = db.evidence \ gone.evidence /\ d.order = db.order \ gone.order
           /\ d.authority = db.authority \ gone.authority /\ d.image = db.image \ gone.image
           /\ d.snapshot = db.snapshot \ gone.snapshot /\ d.promotion = db.promotion \ gone.promotion
           /\ d.tombstone = db.tombstone \ gone.tombstone /\ d.item = db.item \ gone.item
           /\ d.inactive = db.inactive \ gone.inactive /\ d.link = db.link \ gone.link
           /\ d.scope = db.scope \ gone.scope /\ d.detected = db.detected \ gone.detected
           /\ d.case = db.case \ gone.case /\ d.outfit = db.outfit \ gone.outfit
           /\ d.attempt = db.attempt \ gone.attempt /\ d.approval = db.approval \ gone.approval
<1> DEFINE d == C!Without(gone)
<1>1. d = [table \in DOMAIN db |-> db[table] \ gone[table]]
  BY DEF C!Without
<1> HIDE DEF d
<1>2.      /\ d.source = db.source \ gone.source /\ d.materialized = db.materialized \ gone.materialized
           /\ d.evidence = db.evidence \ gone.evidence /\ d.order = db.order \ gone.order
           /\ d.authority = db.authority \ gone.authority /\ d.image = db.image \ gone.image
           /\ d.snapshot = db.snapshot \ gone.snapshot /\ d.promotion = db.promotion \ gone.promotion
           /\ d.tombstone = db.tombstone \ gone.tombstone /\ d.item = db.item \ gone.item
           /\ d.inactive = db.inactive \ gone.inactive /\ d.link = db.link \ gone.link
           /\ d.scope = db.scope \ gone.scope /\ d.detected = db.detected \ gone.detected
           /\ d.case = db.case \ gone.case /\ d.outfit = db.outfit \ gone.outfit
           /\ d.attempt = db.attempt \ gone.attempt /\ d.approval = db.approval \ gone.approval
  BY <1>1 DEF Tables
<1>3. d \in Tables
  BY <1>1 DEF Tables
<1> QED BY <1>2, <1>3 DEF d

\* The plan of a unit leaves the order and takes the snapshot with its last promotion.
LEMMA PlanOfUnit ==
    ASSUME NEW u
    PROVE  LET gone == C!directional_rows(u)
               mine == {u} \cap db.promotion
           IN
           /\ gone.source = {} /\ gone.materialized = {} /\ gone.order = {}
           /\ gone.authority = {} /\ gone.image = {} /\ gone.tombstone = {}
           /\ gone.scope = {} /\ gone.detected = {}
           /\ gone.evidence = mine /\ gone.promotion = mine /\ gone.item = mine
           /\ gone.link = {<<v, v>> : v \in mine}
           /\ gone.case = C!falling_cases({}, mine) /\ gone.outfit = C!falling_outfits(mine)
           /\ gone.attempt = C!falling_attempts(mine)
           /\ gone.approval = C!falling_approvals({}, mine)
           /\ gone.snapshot = IF mine # {} /\ \A v \in db.promotion \ {u} : MailOf[v] # MailOf[u]
                             THEN {MailOf[u]} ELSE {}
  BY DEF C!directional_rows, C!Imported

LEMMA Step_execute_deletion ==
    ASSUME ClosureInv, NEW t \in C!Targets, C!execute_deletion(t)
    PROVE  ClosureInv'
<1> DEFINE left == C!Without(C!plan(t))
<1>1. db \in Tables /\ KeysHold(db) /\ IsFiniteSet(db.outfit) /\ IsFiniteSet(db.approval)
  BY KeysByTable DEF ClosureInv, KeysHold
<1>2. /\ KeysHold(left) /\ C!require_deletion_target(t)
      /\ db' = C!remember_deletion(t, left)
  BY KeysByTable DEF C!execute_deletion, C!Write, KeysHold
<1>3. /\ left \in Tables /\ left.outfit \subseteq db.outfit /\ left.approval \subseteq db.approval
      /\ left.order = db.order \ C!plan(t).order
  BY <1>1, RowsLeft
<1> HIDE DEF left
<1>4. IsFiniteSet(left.outfit) /\ IsFiniteSet(left.approval)
  BY <1>1, <1>3, FS_Subset
<1>5. CASE ~ C!resolve_p12_deletion_target(t)
  <2>1. db' = left
    BY <1>2, <1>5 DEF C!remember_deletion
  <2> QED BY <1>2, <1>3, <1>4, <2>1, KeysByTable DEF ClosureInv, KeysHold
<1>6. CASE C!resolve_p12_deletion_target(t)
  <2>1. db' = [left EXCEPT !.tombstone = @ \cup {t.id}]
    BY <1>2, <1>6 DEF C!remember_deletion
  <2>2. left.order = db.order
    <3>1. C!plan(t) = C!directional_rows(t.id)
      BY <1>6 DEF C!plan
    <3>2. C!directional_rows(t.id).order = {}
      BY PlanOfUnit
    <3> QED BY <1>3, <3>1, <3>2
  <2>3. /\ t.id \in Units
        /\ t.id \in db.promotion \cup db.tombstone \/ MailOf[t.id] \in db.authority
    <3>1. db.promotion \subseteq Units
      BY <1>1 DEF Tables
    <3>2. CASE t.kind = "purchase_unit"
      BY <1>2, <3>2 DEF C!Targets, C!require_deletion_target
    <3>3. CASE t.kind # "purchase_unit"
      BY <1>6, <3>1, <3>3 DEF C!resolve_p12_deletion_target
    <3> QED BY <3>2, <3>3
  <2>4. MailOf[t.id] \in db.order
    BY <1>1, <2>3 DEF KeysHold, KeysOfMessages, KeysOfUnits
  <2>5. db' \in Tables
    BY <1>3, <2>1, <2>3 DEF Tables
  <2>6. KeysHold(db')
    BY <1>2, <1>3, <2>1, <2>2, <2>4
    DEF Tables, KeysHold, KeysOfMessages, KeysOfEvidence, KeysOfUnits, KeysOfUses
  <2>7. db'.outfit = left.outfit /\ db'.approval = left.approval
    BY <1>3, <2>1 DEF Tables
  <2> QED BY <1>4, <2>5, <2>6, <2>7, KeysByTable DEF ClosureInv, KeysHold
<1> QED BY <1>5, <1>6

LEMMA ClosureInit == InitStorage => ClosureInv
<1> SUFFICES ASSUME InitStorage PROVE ClosureInv
  OBVIOUS
<1>1. db = C!Imported
  BY DEF InitStorage, C!Init
<1>2. db \in Tables
  BY <1>1 DEF C!Imported, Tables, C!SourceRecords, C!Evidence
<1>3. \A x \in db.evidence : C!SourceOf(x) = x
  BY <1>1, ClosureAssumption DEF C!Imported, C!SourceOf, C!SourceRecords
<1>4. KeysHold(db)
  BY <1>1, <1>3
  DEF C!Imported, KeysHold, KeysOfMessages, KeysOfEvidence, KeysOfUnits, KeysOfUses,
      C!SourceRecords
<1>5. IsFiniteSet(db.outfit) /\ IsFiniteSet(db.approval)
  BY <1>1, FS_EmptySet DEF C!Imported
<1> QED BY <1>2, <1>4, <1>5, KeysByTable DEF ClosureInv, KeysHold

\* One step per command.
LEMMA ClosureNext == ClosureInv /\ C!Next => ClosureInv'
<1> SUFFICES ASSUME ClosureInv, C!Next PROVE ClosureInv'
  OBVIOUS
<1> USE DEF C!Next
<1>1. ASSUME NEW m \in Mails, C!review_receipt(m) \/ C!fetch_receipt_image(m) PROVE ClosureInv'
  BY <1>1, Step_review_receipt, Step_fetch_receipt_image
<1>2. ASSUME NEW u \in Units, C!promote(u) PROVE ClosureInv'
  BY <1>2, Step_promote
<1>3. ASSUME NEW e \in C!Evidence, NEW i \in C!Items, C!save_item(i, e) \/ C!decide_evidence(e, i)
      PROVE  ClosureInv'
  BY <1>3, Step_save_item, Step_decide_evidence
<1>4. ASSUME NEW i \in C!Items, NEW j \in C!Items, C!merge_items(i, j) PROVE ClosureInv'
  BY <1>4, Step_merge_items
<1>5. ASSUME C!create_photo_scope \/ C!detect_people PROVE ClosureInv'
  BY <1>5, Step_create_photo_scope, Step_detect_people
<1>6. ASSUME NEW p \in Pictures, NEW Its \in SUBSET C!Items, NEW M \in SUBSET Mails,
             C!open_case(p, Its, M)
      PROVE  ClosureInv'
  BY <1>6, Step_open_case
<1>7. ASSUME NEW i \in C!Items, C!recommend(i) PROVE ClosureInv'
  BY <1>7, Step_recommend
<1>8. ASSUME NEW i \in C!Items, NEW pin \in Pictures \cup {C!NoPin},
             C!create_manual_outfit(i, pin)
      PROVE  ClosureInv'
  BY <1>8, Step_create_manual_outfit
<1>9. ASSUME NEW p \in Pictures, NEW o \in db.outfit, C!approve_try_on(p, o) PROVE ClosureInv'
  BY <1>9, Step_approve_try_on
<1>10. ASSUME NEW t \in C!Targets, C!execute_deletion(t) PROVE ClosureInv'
  BY <1>10, Step_execute_deletion
<1> QED BY <1>1, <1>2, <1>3, <1>4, <1>5, <1>6, <1>7, <1>8, <1>9, <1>10

-----------------------------------------------------------------------------
(* The plan leaves the keys whole                                          *)

\* The round at which the closure of a target ends.
FallingRound(t) ==
    C!expand_deletion_closure(C!seed(t) \cup C!revisions_of(C!messages_of(C!seed(t))),
                              IF t.kind = "item" THEN {t.id} ELSE {})

\* The plan of a root, a source or an item of the user.
LEMMA PlanOfRows ==
    ASSUME ClosureInv, NEW t \in C!Targets, C!require_deletion_target(t),
           ~ C!resolve_p12_deletion_target(t)
    PROVE  LET gone == C!plan(t)
               r == FallingRound(t)
               Ps == C!promotions_of(r.sources)
           IN
           /\ SoundRound(r) /\ ClosedRound(r)
           /\ gone.source = r.sources
           /\ gone.materialized = C!revisions_of(C!messages_of(C!seed(t)))
           /\ gone.evidence = r.evidence \cup Ps
           /\ gone.order = db.order \cap r.sources
           /\ gone.authority = db.authority \cap r.sources
           /\ gone.image = db.image \cap r.sources
           /\ gone.snapshot = db.snapshot \cap r.sources
           /\ gone.promotion = Ps
           /\ gone.tombstone = {u \in db.tombstone : MailOf[u] \in r.sources}
           /\ gone.item = r.items \cup Ps
           /\ gone.link = {l \in db.link : l[2] \in r.evidence \cup Ps}
           /\ gone.scope = C!falling_scope(r.sources)
           /\ gone.detected = C!falling_people(r.sources)
           /\ gone.case = C!falling_cases(r.sources, r.items \cup Ps)
           /\ gone.outfit = C!falling_outfits(r.items \cup Ps)
           /\ gone.attempt = C!falling_attempts(r.items \cup Ps)
           /\ gone.approval = C!falling_approvals(r.sources, r.items \cup Ps)
<1> DEFINE S == C!seed(t) \cup C!revisions_of(C!messages_of(C!seed(t)))
           Its == IF t.kind = "item" THEN {t.id} ELSE {}
<1>1. db \in Tables /\ KeysHold(db)
  BY KeysByTable DEF ClosureInv, KeysHold
<1>2. S \subseteq db.source
  <2>1. C!seed(t) \subseteq db.source
    <3>1. CASE t.kind = "import_root"
      BY <3>1 DEF C!seed
    <3>2. CASE t.kind = "source"
      BY <3>2 DEF C!seed, C!require_deletion_target
    <3>3. CASE t.kind \notin {"import_root", "source"}
      BY <3>3 DEF C!seed
    <3> QED BY <3>1, <3>2, <3>3
  <2>2. \A G : C!revisions_of(G) \subseteq db.source
    BY <1>1 DEF C!revisions_of, KeysHold, KeysOfMessages
  <2> QED BY <2>1, <2>2
<1>3. Its \subseteq db.item
  BY DEF C!require_deletion_target
<1>4. SoundRound(FallingRound(t)) /\ ClosedRound(FallingRound(t))
  <2> HIDE DEF S, Its
  <2>1. SoundRound(C!expand_deletion_closure(S, Its)) /\ ClosedRound(C!expand_deletion_closure(S, Its))
    BY <1>2, <1>3, ClosureIsClosed
  <2> QED BY <2>1 DEF FallingRound, S, Its
<1>5. C!plan(t) = C!closure_rows(t)
  BY DEF C!plan
<1> QED BY <1>4, <1>5
        DEF C!closure_rows, FallingRound, C!photo_rows, C!expand_parent_rows

\* A piece of evidence is of one item, and that of a unit comes and goes with its promotion.
HolderInv ==
    /\ \A k, l \in db.link : k[2] = l[2] => k[1] = l[1]
    /\ db.evidence \cap Units \subseteq db.promotion

LEMMA HolderInit == InitStorage => HolderInv
<1> SUFFICES ASSUME InitStorage PROVE HolderInv
  OBVIOUS
<1>1. db = C!Imported
  BY DEF InitStorage, C!Init
<1> QED BY <1>1, ClosureAssumption DEF C!Imported, HolderInv, C!SourceRecords

LEMMA HolderNext == ClosureInv /\ HolderInv /\ C!Next => HolderInv'
<1> SUFFICES ASSUME ClosureInv, HolderInv, C!Next PROVE HolderInv'
  OBVIOUS
<1>0. db \in Tables /\ KeysHold(db)
  BY KeysByTable DEF ClosureInv, KeysHold
<1>1. ASSUME NEW d, db' = d, d.link = db.link, d.evidence = db.evidence,
             d.promotion = db.promotion
      PROVE  HolderInv'
  BY <1>1 DEF HolderInv
<1>2. ASSUME NEW m \in Mails, C!review_receipt(m) \/ C!fetch_receipt_image(m)
      PROVE HolderInv'
  BY <1>0, <1>1, <1>2 DEF C!review_receipt, C!fetch_receipt_image, C!Write, Tables
<1>3. ASSUME NEW u \in Units, C!promote(u) PROVE HolderInv'
  <2>1. /\ db'.promotion = db.promotion \cup {u} /\ db'.evidence = db.evidence \cup {u}
        /\ db'.link = db.link \cup {<<u, u>>}
    BY <1>0, <1>3 DEF C!promote, C!Write, Tables
  <2>2. \A l \in db.link : l[2] # u
    BY <1>3, EvidenceHasItsSource DEF C!promote, HolderInv
  <2> QED BY <2>1, <2>2 DEF HolderInv
<1>4. ASSUME NEW e \in C!Evidence, NEW i \in C!Items, C!save_item(i, e) PROVE HolderInv'
  <2>1. /\ db'.promotion = db.promotion /\ db'.evidence = db.evidence
        /\ db'.link = db.link \cup {<<i, e>>} /\ \A l \in db.link : l[2] # e
    BY <1>0, <1>4 DEF C!save_item, C!Write, Tables
  <2> QED BY <2>1 DEF HolderInv
<1>5. ASSUME NEW e \in C!Evidence, NEW i \in C!Items, C!decide_evidence(e, i) PROVE HolderInv'
  <2>1. /\ db'.promotion = db.promotion /\ db'.evidence = db.evidence
        /\ db'.link = {l \in db.link : l[2] # e} \cup {<<i, e>>}
    BY <1>0, <1>5 DEF C!decide_evidence, C!Write, C!Moved, Tables
  <2> QED BY <2>1 DEF HolderInv
<1>6. ASSUME NEW i \in C!Items, NEW j \in C!Items, C!merge_items(i, j) PROVE HolderInv'
  <2>1. /\ db'.promotion = db.promotion /\ db'.evidence = db.evidence
        /\ db'.link = {<<IF l[1] = j THEN i ELSE l[1], l[2]>> : l \in db.link}
    BY <1>0, <1>6 DEF C!merge_items, C!Write, Tables
  <2> QED BY <2>1 DEF HolderInv
<1>7. ASSUME C!create_photo_scope \/ C!detect_people PROVE HolderInv'
  BY <1>0, <1>1, <1>7 DEF C!create_photo_scope, C!detect_people, C!Write, Tables
<1>8. ASSUME NEW p \in Pictures, NEW Its \in SUBSET C!Items, NEW M \in SUBSET Mails,
             C!open_case(p, Its, M)
      PROVE  HolderInv'
  BY <1>0, <1>1, <1>8 DEF C!open_case, C!Write, Tables
<1>9. ASSUME NEW i \in C!Items, C!recommend(i) PROVE HolderInv'
  BY <1>0, <1>1, <1>9 DEF C!recommend, C!Write, Tables
<1>10. ASSUME NEW i \in C!Items, NEW pin, C!create_manual_outfit(i, pin) PROVE HolderInv'
  BY <1>0, <1>1, <1>10 DEF C!create_manual_outfit, C!Write, Tables
<1>11. ASSUME NEW p \in Pictures, NEW o \in db.outfit, C!approve_try_on(p, o) PROVE HolderInv'
  BY <1>0, <1>1, <1>11 DEF C!approve_try_on, C!Write, Tables
<1>12. ASSUME NEW t \in C!Targets, C!execute_deletion(t) PROVE HolderInv'
  <2> DEFINE gone == C!plan(t)
             left == C!Without(gone)
  <2>1. /\ db' = C!remember_deletion(t, left) /\ C!require_deletion_target(t)
    BY <1>12 DEF C!execute_deletion, C!Write
  <2>2. /\ left \in Tables /\ left.link = db.link \ gone.link
        /\ left.evidence = db.evidence \ gone.evidence
        /\ left.promotion = db.promotion \ gone.promotion
    BY <1>0, RowsLeft
  <2> HIDE DEF left
  <2>3. /\ db'.link = left.link /\ db'.evidence = left.evidence
        /\ db'.promotion = left.promotion
    BY <2>1, <2>2 DEF C!remember_deletion, Tables
  <2>4. ASSUME NEW u \in gone.promotion, u \in Units PROVE u \in gone.evidence
    <3>1. CASE C!resolve_p12_deletion_target(t)
      <4>1. gone = C!directional_rows(t.id)
        BY <3>1 DEF C!plan
      <4>2. /\ C!directional_rows(t.id).promotion = {t.id} \cap db.promotion
            /\ C!directional_rows(t.id).evidence = {t.id} \cap db.promotion
        BY PlanOfUnit
      <4> HIDE DEF gone
      <4> QED BY <2>4, <4>1, <4>2
    <3>2. CASE ~ C!resolve_p12_deletion_target(t)
      BY <2>1, <2>4, <3>2, PlanOfRows
    <3> QED BY <3>1, <3>2
  <2> HIDE DEF gone
  <2> QED BY <2>2, <2>3, <2>4 DEF HolderInv
<1> QED BY <1>2, <1>3, <1>4, <1>5, <1>6, <1>7, <1>8, <1>9, <1>10, <1>11, <1>12 DEF C!Next

\* No tangle of the four in which the code refuses a plan.
Untangled(t) ==
    LET gone == C!plan(t) IN
    /\ ~ C!MovedPin(gone) /\ ~ C!CaseOfAnother(gone) /\ ~ C!MessageByTheWay(t, gone)
    /\ \A u \in db.promotion \cap gone.item : C!Held(u) = {u}

LEMMA UnitsLeaveWhole ==
    ASSUME ClosureInv, HolderInv, NEW t \in C!Targets, C!require_deletion_target(t),
           C!resolve_p12_deletion_target(t), Untangled(t)
    PROVE  KeysHold(C!Without(C!plan(t)))
<1> DEFINE u == t.id
           gone == C!directional_rows(u)
           mine == {u} \cap db.promotion
           left == C!Without(gone)
<1>1. db \in Tables /\ KeysHold(db)
  BY KeysByTable DEF ClosureInv, KeysHold
<1>2. C!plan(t) = gone
  BY DEF C!plan
<1>3. /\ left.source = db.source /\ left.materialized = db.materialized
      /\ left.order = db.order /\ left.authority = db.authority /\ left.image = db.image
      /\ left.tombstone = db.tombstone /\ left.scope = db.scope
      /\ left.evidence = db.evidence \ mine /\ left.promotion = db.promotion \ mine
      /\ left.item = db.item \ mine /\ left.link = db.link \ {<<v, v>> : v \in mine}
      /\ left.snapshot \subseteq db.snapshot
      /\ left.case = db.case \ C!falling_cases({}, mine)
      /\ left.outfit = db.outfit \ C!falling_outfits(mine)
      /\ left.attempt = db.attempt \ C!falling_attempts(mine)
  <2> HIDE DEF gone, left
  <2>1. /\ gone.source = {} /\ gone.materialized = {} /\ gone.order = {}
        /\ gone.authority = {} /\ gone.image = {} /\ gone.tombstone = {} /\ gone.scope = {}
        /\ gone.evidence = mine /\ gone.promotion = mine /\ gone.item = mine
        /\ gone.link = {<<v, v>> : v \in mine}
        /\ gone.case = C!falling_cases({}, mine) /\ gone.outfit = C!falling_outfits(mine)
        /\ gone.attempt = C!falling_attempts(mine)
    BY PlanOfUnit DEF gone
  <2>2. /\ left.source = db.source \ gone.source
        /\ left.materialized = db.materialized \ gone.materialized
        /\ left.evidence = db.evidence \ gone.evidence /\ left.order = db.order \ gone.order
        /\ left.authority = db.authority \ gone.authority /\ left.image = db.image \ gone.image
        /\ left.snapshot = db.snapshot \ gone.snapshot
        /\ left.promotion = db.promotion \ gone.promotion
        /\ left.tombstone = db.tombstone \ gone.tombstone /\ left.item = db.item \ gone.item
        /\ left.link = db.link \ gone.link /\ left.scope = db.scope \ gone.scope
        /\ left.case = db.case \ gone.case /\ left.outfit = db.outfit \ gone.outfit
        /\ left.attempt = db.attempt \ gone.attempt
    BY <1>1, RowsLeft DEF left
  <2> HIDE DEF mine
  <2> QED BY <2>1, <2>2
<1>4. \A v \in left.promotion : MailOf[v] \in left.snapshot
  <2>1. left.snapshot = db.snapshot \ gone.snapshot
    BY <1>1, RowsLeft
  <2>2. gone.snapshot = IF mine # {} /\ \A v \in db.promotion \ {u} : MailOf[v] # MailOf[u]
                        THEN {MailOf[u]} ELSE {}
    BY PlanOfUnit
  <2> HIDE DEF gone, left
  <2> SUFFICES ASSUME NEW v \in db.promotion, v \notin mine PROVE MailOf[v] \in left.snapshot
    BY <1>3
  <2>3. v # u /\ MailOf[v] \in db.snapshot
    BY <1>1 DEF KeysHold, KeysOfUnits
  <2> HIDE DEF u
  <2> QED BY <2>1, <2>2, <2>3
<1>5. \A v \in mine : v \in db.promotion /\ C!Held(v) = {v}
  <2>1. gone.item = mine
    BY PlanOfUnit
  <2> HIDE DEF gone
  <2> QED BY <1>2, <2>1 DEF Untangled
<1>6. mine \subseteq Units
  BY <1>1 DEF Tables
<1> HIDE DEF gone, left, mine
<1>7. KeysOfMessages(left)
  BY <1>1, <1>3 DEF KeysHold, KeysOfMessages
<1>8. KeysOfEvidence(left)
  <2>1. \A l \in left.link : l[1] \notin mine /\ l[2] \notin mine
    <3> SUFFICES ASSUME NEW l \in left.link, l[1] \in mine \/ l[2] \in mine PROVE FALSE
      OBVIOUS
    <3>1. l \in db.link /\ l = <<l[1], l[2]>> /\ l[2] \in C!Evidence
      BY <1>3, EvidenceHasItsSource
    <3>2. CASE l[1] \in mine
      <4>1. l[2] = l[1]
        BY <1>5, <3>1, <3>2 DEF C!Held
      <4> QED BY <1>3, <3>1, <3>2, <4>1
    <3>3. CASE l[2] \in mine /\ l[1] \notin mine
      <4>1. <<l[2], l[2]>> \in db.link
        BY <1>5, <3>3 DEF C!Held
      <4> QED BY <3>1, <3>3, <4>1 DEF HolderInv
    <3> QED BY <3>2, <3>3
  <2> QED BY <1>1, <1>3, <2>1 DEF KeysHold, KeysOfEvidence
<1>9. KeysOfUnits(left)
  BY <1>1, <1>3, <1>4 DEF KeysHold, KeysOfUnits
<1>10. KeysOfUses(left)
  <2>1. \A o \in db.outfit : o.pin \notin mine \/ o.pin = C!NoPin
    BY <1>1, <1>6, ClosureAssumption DEF Tables
  <2> QED BY <1>1, <1>3, <2>1
          DEF KeysHold, KeysOfUses, C!falling_cases, C!falling_outfits, C!falling_attempts
<1> QED BY <1>2, <1>7, <1>8, <1>9, <1>10 DEF KeysHold, left

LEMMA RowsLeaveWhole ==
    ASSUME ClosureInv, NEW t \in C!Targets, C!require_deletion_target(t),
           ~ C!resolve_p12_deletion_target(t), Untangled(t)
    PROVE  KeysHold(C!Without(C!plan(t)))
<1> DEFINE gone == C!plan(t)
           r == FallingRound(t)
           Ps == C!promotions_of(r.sources)
           left == C!Without(gone)
<1>1. db \in Tables /\ KeysHold(db)
  BY KeysByTable DEF ClosureInv, KeysHold
<1>2. SoundRound(r) /\ ClosedRound(r)
  BY PlanOfRows
<1>3. /\ gone.source = r.sources
      /\ gone.materialized = C!revisions_of(C!messages_of(C!seed(t)))
      /\ gone.evidence = r.evidence \cup Ps
      /\ gone.order = db.order \cap r.sources
      /\ gone.authority = db.authority \cap r.sources
      /\ gone.image = db.image \cap r.sources
      /\ gone.snapshot = db.snapshot \cap r.sources
      /\ gone.promotion = Ps
      /\ gone.tombstone = {u \in db.tombstone : MailOf[u] \in r.sources}
      /\ gone.item = r.items \cup Ps
      /\ gone.link = {l \in db.link : l[2] \in r.evidence \cup Ps}
      /\ gone.scope = C!falling_scope(r.sources)
      /\ gone.case = C!falling_cases(r.sources, r.items \cup Ps)
      /\ gone.outfit = C!falling_outfits(r.items \cup Ps)
      /\ gone.attempt = C!falling_attempts(r.items \cup Ps)
  BY PlanOfRows
<1>4. /\ left.source = db.source \ gone.source
      /\ left.materialized = db.materialized \ gone.materialized
      /\ left.evidence = db.evidence \ gone.evidence /\ left.order = db.order \ gone.order
      /\ left.authority = db.authority \ gone.authority /\ left.image = db.image \ gone.image
      /\ left.snapshot = db.snapshot \ gone.snapshot
      /\ left.promotion = db.promotion \ gone.promotion
      /\ left.tombstone = db.tombstone \ gone.tombstone /\ left.item = db.item \ gone.item
      /\ left.link = db.link \ gone.link /\ left.scope = db.scope \ gone.scope
      /\ left.case = db.case \ gone.case /\ left.outfit = db.outfit \ gone.outfit
      /\ left.attempt = db.attempt \ gone.attempt
  BY <1>1, RowsLeft
<1>5. /\ ~ C!MovedPin(gone) /\ ~ C!CaseOfAnother(gone) /\ ~ C!MessageByTheWay(t, gone)
      /\ \A u \in db.promotion \cap gone.item : C!Held(u) = {u}
  BY DEF Untangled
<1>6. /\ db.promotion \subseteq Units /\ db.evidence \subseteq C!Evidence
      /\ db.order \subseteq Mails /\ db.scope \subseteq Pictures
      /\ \A o \in db.outfit : o.pin \in Pictures \cup {C!NoPin}
  BY <1>1 DEF Tables
<1>7. Ps = {u \in db.promotion : MailOf[u] \in r.sources}
  BY DEF C!promotions_of
<1>8. \A u \in Ps : u \in r.evidence
  <2>1. \A u \in Ps : u \in db.evidence /\ C!SourceOf(u) \in r.sources
    BY <1>1, <1>6, <1>7 DEF KeysHold, KeysOfUnits, C!SourceOf
  <2> QED BY <2>1, <1>2 DEF ClosedRound
<1> HIDE DEF gone, left, r, Ps
\* A promotion that stays keeps its item.
<1>9. \A u \in db.promotion : u \in gone.item => u \in Ps
  <2> SUFFICES ASSUME NEW u \in db.promotion, u \in gone.item, u \notin Ps PROVE FALSE
    OBVIOUS
  <2>1. u \in r.items /\ u \in C!Held(u)
    BY <1>3, <1>5
  <2>2. <<u, u>> \in db.link
    BY <2>1 DEF C!Held
  <2>3. u \in r.evidence
    BY <1>2, <2>1, <2>2 DEF ClosedRound
  <2>4. C!SourceOf(u) \in r.sources /\ C!SourceOf(u) = MailOf[u]
    BY <1>2, <1>6, <2>3 DEF SoundRound, C!SourceOf
  <2> QED BY <1>7, <2>4
<1>10. KeysOfMessages(left)
  <2>1. \A m \in db.materialized : m \in r.sources => m \in gone.materialized
    BY <1>3, <1>5 DEF C!MessageByTheWay
  <2>2. left.scope \subseteq left.source
    BY <1>1, <1>3, <1>4 DEF KeysHold, KeysOfMessages, C!falling_scope
  <2> QED BY <1>1, <1>3, <1>4, <2>1, <2>2 DEF KeysHold, KeysOfMessages
<1>11. KeysOfEvidence(left)
  <2>1. \A e \in left.evidence : C!SourceOf(e) \in left.source
    BY <1>1, <1>2, <1>3, <1>4 DEF KeysHold, KeysOfEvidence, ClosedRound
  <2>2. ASSUME NEW l \in left.link PROVE l[1] \in left.item /\ l[2] \in left.evidence
    <3>1. l \in db.link /\ l[1] \in db.item /\ l[2] \in db.evidence /\ l[2] \notin r.evidence \cup Ps
      BY <1>3, <1>4, EvidenceHasItsSource
    <3>2. l[1] \notin r.items
      BY <1>2, <3>1 DEF ClosedRound
    <3>3. l[1] \notin Ps
      <4> SUFFICES ASSUME l[1] \in Ps PROVE FALSE
        OBVIOUS
      <4>1. C!Held(l[1]) = {l[1]}
        BY <1>3, <1>5, <1>7
      <4>2. l[2] \in C!Held(l[1])
        BY <3>1, EvidenceHasItsSource DEF C!Held
      <4> QED BY <3>1, <4>1, <4>2
    <3> QED BY <1>3, <1>4, <3>1, <3>2, <3>3
  <2> QED BY <2>1, <2>2 DEF KeysOfEvidence
<1>12. KeysOfUnits(left)
  <2>1. left.promotion \subseteq left.item
    BY <1>1, <1>3, <1>4, <1>9 DEF KeysHold, KeysOfUnits
  <2>2. left.promotion \subseteq left.evidence
    <3>1. ASSUME NEW u \in db.promotion, u \in r.evidence PROVE u \in Ps
      <4>1. C!SourceOf(u) \in r.sources /\ C!SourceOf(u) = MailOf[u]
        BY <1>2, <1>6, <3>1 DEF SoundRound, C!SourceOf
      <4> QED BY <1>7, <3>1, <4>1
    <3> QED BY <1>1, <1>3, <1>4, <3>1 DEF KeysHold, KeysOfUnits
  <2>3. \A u \in left.promotion : MailOf[u] \in left.snapshot
    BY <1>1, <1>3, <1>4, <1>7 DEF KeysHold, KeysOfUnits
  <2>4. \A u \in left.tombstone : MailOf[u] \in left.order
    BY <1>1, <1>3, <1>4 DEF KeysHold, KeysOfUnits
  <2> QED BY <2>1, <2>2, <2>3, <2>4 DEF KeysOfUnits
<1>13. KeysOfUses(left)
  <2>1. ASSUME NEW c \in left.case
        PROVE  c.photo \in left.scope /\ c.items \subseteq left.item /\ c.mails \subseteq left.order
    <3>1. /\ c \in db.case /\ c.photo \in db.scope /\ c.items \subseteq db.item
          /\ c.mails \subseteq db.order /\ c.photo \notin r.sources /\ c.mails \cap r.sources = {}
          /\ c.items \cap (r.items \cup Ps) = {}
      BY <1>1, <1>3, <1>4 DEF C!falling_cases, KeysHold, KeysOfUses
    <3>2. c.photo \notin gone.scope
      <4>1. c \in db.case \ gone.case
        BY <1>4
      <4> QED BY <1>3, <1>5, <3>1, <4>1 DEF C!CaseOfAnother
    <3> QED BY <1>3, <1>4, <3>1, <3>2
  <2>2. ASSUME NEW o \in left.outfit
        PROVE  o.item \in left.item /\ o.pin \in left.evidence \cup {C!NoPin}
    <3>1. /\ o \in db.outfit /\ o.item \in db.item /\ o.item \notin r.items \cup Ps
          /\ o.pin \in db.evidence \cup {C!NoPin}
      BY <1>1, <1>3, <1>4 DEF C!falling_outfits, KeysHold, KeysOfUses
    <3>2. o.pin # C!NoPin => o.pin \notin r.evidence
      <4> SUFFICES ASSUME o.pin \in r.evidence PROVE FALSE
        OBVIOUS
      <4>1. o \in db.outfit \ gone.outfit /\ o.pin \in gone.evidence
        BY <1>3, <1>4
      <4>2. <<o.item, o.pin>> \in db.link
        BY <1>5, <4>1 DEF C!MovedPin
      <4> QED BY <1>2, <3>1, <4>2 DEF SoundRound
    <3> QED BY <1>3, <1>4, <1>8, <3>1, <3>2
  <2>3. left.attempt \subseteq left.item
    BY <1>1, <1>3, <1>4 DEF C!falling_attempts, KeysHold, KeysOfUses
  <2> QED BY <2>1, <2>2, <2>3 DEF KeysOfUses
<1> QED BY <1>10, <1>11, <1>12, <1>13 DEF KeysHold, left, gone

LEMMA PlansClose == ClosureInv /\ HolderInv => C!PlansAreClosed
<1> SUFFICES ASSUME ClosureInv, HolderInv, NEW t \in C!Targets, C!require_deletion_target(t),
                    Untangled(t)
             PROVE  C!foreign_key_check(C!Without(C!plan(t)))
  BY Zenon DEF C!PlansAreClosed, Untangled, C!Entwined
<1> QED BY UnitsLeaveWhole, RowsLeaveWhole, KeysByTable DEF KeysHold

-----------------------------------------------------------------------------
(* The preview counts the references that go                               *)

LEMMA SizesAddUp ==
    ASSUME NEW A, IsFiniteSet(A), NEW B, B \subseteq A
    PROVE  /\ Cardinality(A) = Cardinality(A \ B) + Cardinality(B)
           /\ Cardinality(A \ B) \in Nat /\ Cardinality(B) \in Nat
<1>1. IsFiniteSet(B) /\ IsFiniteSet(A \ B)
  BY FS_Subset
<1>2. A = (A \ B) \cup B /\ (A \ B) \cap B = {}
  OBVIOUS
<1>3. Cardinality((A \ B) \cup B)
        = Cardinality(A \ B) + Cardinality(B) - Cardinality((A \ B) \cap B)
  BY <1>1, FS_Union
<1>4. Cardinality((A \ B) \cap B) = 0
  BY <1>2, FS_EmptySet
<1>5. Cardinality(A \ B) \in Nat /\ Cardinality(B) \in Nat
  BY <1>1, FS_CardinalityType
<1>6. Cardinality(A) = Cardinality(A \ B) + Cardinality(B) - 0
  BY <1>2, <1>3, <1>4
<1> QED BY <1>5, <1>6

\* What a plan takes of the tables that refer to blobs: no detection, no pinned outfit, and
\* the scope as a whole.
PlainRows(gone) ==
    /\ gone.source \subseteq db.source /\ gone.approval \subseteq db.approval
    /\ gone.scope \in {{}, db.scope} /\ (gone.source \cap db.scope # {} => gone.scope = db.scope)
    /\ gone.detected = {}
    /\ \A o \in gone.outfit : o.pin = C!NoPin

\* The references of a blob are those that stay and those that the preview counts.
LEMMA ReferencesAddUp ==
    ASSUME ClosureInv, NEW gone, PlainRows(gone), NEW b
    PROVE  /\ C!owners(db, b) = C!owners(C!Without(gone), b) + C!closed_references(gone, b)
           /\ C!owners(C!Without(gone), b) \in Nat /\ C!closed_references(gone, b) \in Nat
<1> DEFINE left == C!Without(gone)
           pics(d) == {p \in d.source \cap Pictures : PictureContent[p] = b}
           members(d) == pics(d) \cap d.scope
           pinned(d) == {o \in d.outfit : o.pin # C!NoPin /\ PictureContent[o.pin] = b}
           garments(d) == {a \in d.approval : PictureContent[a.pin] = b}
           portraits(d) == {a \in d.approval : PictureContent[a.portrait] = b}
           listed_members == {p \in gone.scope : PictureContent[p] = b}
           detections == {p \in gone.detected : PictureContent[p] = b}
<1>1. db \in Tables /\ KeysHold(db) /\ IsFiniteSet(db.outfit) /\ IsFiniteSet(db.approval)
  BY KeysByTable DEF ClosureInv, KeysHold
<1>2. /\ left.source = db.source \ gone.source /\ left.scope = db.scope \ gone.scope
      /\ left.outfit = db.outfit \ gone.outfit /\ left.approval = db.approval \ gone.approval
  BY <1>1, RowsLeft
<1>3. \A d : C!owners(d, b) = 2 * Cardinality(pics(d)) + Cardinality(members(d))
                + Cardinality(pinned(d)) + Cardinality(garments(d)) + Cardinality(portraits(d))
  BY RowSizes DEF C!owners
<1>4. C!closed_references(gone, b)
        = 2 * Cardinality(pics(gone)) + Cardinality(listed_members)
            + 2 * Cardinality(detections) + Cardinality(garments(gone))
            + Cardinality(portraits(gone))
  BY RowSizes DEF C!closed_references
<1> HIDE DEF left
<1>5. /\ Cardinality(pics(db)) = Cardinality(pics(left)) + Cardinality(pics(gone))
      /\ Cardinality(pics(left)) \in Nat /\ Cardinality(pics(gone)) \in Nat
  <2>1. IsFiniteSet(pics(db)) /\ pics(gone) \subseteq pics(db)
    <3>1. pics(db) \subseteq Pictures /\ pics(gone) \subseteq pics(db)
      BY DEF PlainRows
    <3> QED BY <3>1, IdsAreFinite, FS_Subset
  <2>2. pics(left) = pics(db) \ pics(gone)
    BY <1>2
  <2> HIDE DEF pics
  <2> QED BY <2>1, <2>2, SizesAddUp
<1>6. /\ Cardinality(members(db)) = Cardinality(members(left)) + Cardinality(listed_members)
      /\ Cardinality(members(left)) \in Nat /\ Cardinality(listed_members) \in Nat
  <2>1. IsFiniteSet(members(db)) /\ listed_members \subseteq members(db)
    <3>1. members(db) \subseteq Pictures
      OBVIOUS
    <3>2. listed_members \subseteq members(db)
      BY <1>1 DEF PlainRows, KeysHold, KeysOfMessages, Tables
    <3> QED BY <3>1, <3>2, IdsAreFinite, FS_Subset
  <2>2. members(left) = members(db) \ listed_members
    <3>1. CASE gone.scope = db.scope
      BY <1>1, <1>2, <3>1 DEF KeysHold, KeysOfMessages, Tables
    <3>2. CASE gone.scope = {} /\ gone.source \cap db.scope = {}
      BY <1>2, <3>2
    <3> QED BY <3>1, <3>2 DEF PlainRows
  <2> HIDE DEF members, listed_members
  <2> QED BY <2>1, <2>2, SizesAddUp
<1>7. Cardinality(pinned(db)) = Cardinality(pinned(left)) /\ Cardinality(pinned(left)) \in Nat
  <2>1. pinned(left) = pinned(db)
    BY <1>2 DEF PlainRows
  <2>2. IsFiniteSet(pinned(db))
    BY <1>1, FS_Subset
  <2> HIDE DEF pinned
  <2> QED BY <2>1, <2>2, FS_CardinalityType
<1>8. /\ Cardinality(garments(db)) = Cardinality(garments(left)) + Cardinality(garments(gone))
      /\ Cardinality(garments(left)) \in Nat /\ Cardinality(garments(gone)) \in Nat
  <2>1. IsFiniteSet(garments(db))
    BY <1>1, FS_Subset
  <2>2. garments(left) = garments(db) \ garments(gone) /\ garments(gone) \subseteq garments(db)
    BY <1>2 DEF PlainRows
  <2> HIDE DEF garments
  <2> QED BY <2>1, <2>2, SizesAddUp
<1>9. /\ Cardinality(portraits(db)) = Cardinality(portraits(left)) + Cardinality(portraits(gone))
      /\ Cardinality(portraits(left)) \in Nat /\ Cardinality(portraits(gone)) \in Nat
  <2>1. IsFiniteSet(portraits(db))
    BY <1>1, FS_Subset
  <2>2. portraits(left) = portraits(db) \ portraits(gone) /\ portraits(gone) \subseteq portraits(db)
    BY <1>2 DEF PlainRows
  <2> HIDE DEF portraits
  <2> QED BY <2>1, <2>2, SizesAddUp
<1>10. Cardinality(detections) = 0
  <2>1. detections = {}
    BY DEF PlainRows
  <2> HIDE DEF detections
  <2> QED BY <2>1, FS_EmptySet
<1>11. C!owners(db, b) = 2 * Cardinality(pics(db)) + Cardinality(members(db))
         + Cardinality(pinned(db)) + Cardinality(garments(db)) + Cardinality(portraits(db))
  BY <1>3
<1>12. C!owners(left, b) = 2 * Cardinality(pics(left)) + Cardinality(members(left))
         + Cardinality(pinned(left)) + Cardinality(garments(left)) + Cardinality(portraits(left))
  BY <1>3
<1> HIDE DEF pics, members, pinned, garments, portraits, listed_members, detections
<1> QED BY <1>4, <1>5, <1>6, <1>7, <1>8, <1>9, <1>10, <1>11, <1>12 DEF left

LEMMA PlansArePlain ==
    ASSUME ClosureInv, NEW t \in C!Targets, C!require_deletion_target(t),
           C!plan(t).detected = {}, \A o \in C!plan(t).outfit : o.pin = C!NoPin
    PROVE  PlainRows(C!plan(t))
<1> DEFINE gone == C!plan(t)
<1>1. CASE C!resolve_p12_deletion_target(t)
  <2>1. gone = C!directional_rows(t.id)
    BY <1>1 DEF C!plan
  <2>2. LET mine == {t.id} \cap db.promotion IN
        /\ C!directional_rows(t.id).source = {} /\ C!directional_rows(t.id).scope = {}
        /\ C!directional_rows(t.id).approval = C!falling_approvals({}, mine)
    BY PlanOfUnit
  <2>3. \A Its : C!falling_approvals({}, Its) \subseteq db.approval
    BY DEF C!falling_approvals
  <2> HIDE DEF gone
  <2> QED BY <2>1, <2>2, <2>3 DEF PlainRows, gone
<1>2. CASE ~ C!resolve_p12_deletion_target(t)
  <2>1. /\ SoundRound(FallingRound(t)) /\ gone.source = FallingRound(t).sources
        /\ gone.scope = C!falling_scope(gone.source)
    BY <1>2, PlanOfRows
  <2>2. gone.approval \subseteq db.approval
    <3>1. \A S, Its : C!falling_approvals(S, Its) \subseteq db.approval
      BY DEF C!falling_approvals
    <3>2. gone.approval = C!falling_approvals(FallingRound(t).sources,
                            FallingRound(t).items \cup C!promotions_of(FallingRound(t).sources))
      BY <1>2, PlanOfRows
    <3> HIDE DEF gone
    <3> QED BY <3>1, <3>2
  <2> HIDE DEF gone
  <2>3. gone.source \subseteq db.source /\ gone.approval \subseteq db.approval
    BY <2>1, <2>2 DEF SoundRound
  <2>4. /\ gone.scope \in {{}, db.scope}
        /\ gone.source \cap db.scope # {} => gone.scope = db.scope
    BY <2>1 DEF C!falling_scope
  <2> QED BY <2>3, <2>4 DEF PlainRows, gone
<1> QED BY <1>1, <1>2

LEMMA PreviewsAreExact == ClosureInv => C!PreviewIsExact
<1> SUFFICES ASSUME ClosureInv, NEW t \in C!Targets, C!require_deletion_target(t),
                    C!plan(t).detected = {}, \A o \in C!plan(t).outfit : o.pin = C!NoPin
             PROVE  C!shown_originals(C!plan(t)) = C!reconcile_blob_entries(C!plan(t))
  BY Zenon DEF C!PreviewIsExact
<1> DEFINE gone == C!plan(t)
<1>1. PlainRows(gone)
  BY PlansArePlain
<1> HIDE DEF gone
<1>2. ASSUME NEW b
      PROVE  (/\ C!closed_references(gone, b) > 0
              /\ C!owners(db, b) <= C!closed_references(gone, b))
             <=> (/\ C!owners(db, b) > C!owners(C!Without(gone), b)
                  /\ C!owners(C!Without(gone), b) = 0)
  <2>1. /\ C!owners(db, b) = C!owners(C!Without(gone), b) + C!closed_references(gone, b)
        /\ C!owners(C!Without(gone), b) \in Nat /\ C!closed_references(gone, b) \in Nat
    BY <1>1, ReferencesAddUp
  <2> QED BY <2>1
<1> QED BY <1>2 DEF C!shown_originals, C!reconcile_blob_entries, gone

LEMMA ClosureStep == NextStorage => C!Next \/ UNCHANGED <<db, commands>>
  BY DEF NextStorage, Delete, closureVars

\* A deletion takes all that refers to what it takes, except in four tangles: an outfit or a
\* case that stays uses a photograph that goes, a message is reached through an item, an item
\* that goes and was made from a unit holds something else than the unit.  And the originals
\* that the preview shows as going are those that go, except where people were detected in a
\* scope that falls, or an outfit that falls pins a picture (materialize_deletion_rows,
\* execute_deletion, reconcile_blob_entries).
THEOREM PlansStayWhole == SpecStorage => []PlansAreWhole
<1>1. InitStorage => ClosureInv /\ HolderInv
  BY ClosureInit, HolderInit
<1>2. ClosureInv /\ HolderInv /\ [NextStorage]_allVars => (ClosureInv /\ HolderInv)'
  <2>1. ClosureInv /\ HolderInv /\ C!Next => (ClosureInv /\ HolderInv)'
    BY ClosureNext, HolderNext
  <2>2. ClosureInv /\ HolderInv /\ UNCHANGED <<db, commands>> => (ClosureInv /\ HolderInv)'
    BY DEF ClosureInv, HolderInv, Tables, C!foreign_key_check
  <2>3. UNCHANGED allVars => UNCHANGED <<db, commands>>
    BY DEF allVars, closureVars
  <2> QED BY <2>1, <2>2, <2>3, ClosureStep
<1>3. ClosureInv /\ HolderInv => PlansAreWhole
  BY PlansClose, PreviewsAreExact DEF PlansAreWhole
<1> QED BY <1>1, <1>2, <1>3, PTL DEF SpecStorage
=============================================================================
