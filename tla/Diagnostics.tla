---------------------------- MODULE Diagnostics ----------------------------
(***************************************************************************)
(* The diagnostic log (wardrobe-platform/src/diagnostics.rs) and the report*)
(* the user exports from it and from the database                          *)
(* (diagnostics_export.rs, wardrobe-core/src/diagnostics_backend.rs).      *)
(*                                                                         *)
(* Commands on several threads append one line each to a file of bounded   *)
(* size, under a mutex and with what goes wrong ignored; a line may be cut *)
(* off.  The export reads the log, then the database in one transaction,   *)
(* and publishes the report beside whatever other programs do to the       *)
(* directory the user chose.  A line and a cut-off piece of one count as   *)
(* one unit of the file.  The files' modes and owners are not modelled.    *)
(***************************************************************************)
EXTENDS Naturals, FiniteSets

CONSTANTS
    Capacity,    \* MAX_FILE_BYTES, in lines
    MaxEvents,   \* bound: events that commands emit
    MaxExports,  \* bound: exports asked for
    MaxFaults,   \* bound: calls that fail, crashes, power losses
    MaxMeddling  \* bound: what other programs do to the destination

VARIABLES
    log,         \* diagnostics.jsonl: its whole lines, good and bad, and a cut-off last one
    dropped,     \* JsonlDiagnostics.dropped
    export,      \* the command under way: its place and its number
    destination, \* the file at the path the user chose
    unsynced,    \* the directory entry of the destination is not on the disk
    temporaries, \* .wardrobe-diagnostics-*.tmp, by the export that made them
    answered,    \* the newest export that was answered as complete
    emitted,     \* history: events of commands that ended
    untraced,    \* history: those that left no trace that this process could show
    theirs,      \* history: another program has its file at the destination
    taken,       \* history: what stood there when another program did something
    meddled,     \* history: how often one did
    restarts,    \* history
    faults       \* history

vars ==
    <<log, dropped, export, destination, unsynced, temporaries, answered, emitted, untraced,
      theirs, taken, meddled, restarts, faults>>
logVars == <<log, dropped, emitted, untraced>>
fileVars == <<destination, unsynced, temporaries, answered>>

NoFile == 0
Foreign == MaxExports + 1  \* a file of another program; a report is the number of its export

Idle(n) == [at |-> "idle", number |-> n]
NoLog == [exists |-> FALSE, good |-> 0, bad |-> 0, torn |-> FALSE, size |-> 0]

Init ==
    /\ log = NoLog /\ dropped = 0
    /\ export = Idle(0)
    /\ destination = NoFile /\ unsynced = FALSE /\ temporaries = {} /\ answered = 0
    /\ emitted = 0 /\ untraced = 0 /\ theirs = FALSE /\ taken = {} /\ meddled = 0
    /\ restarts = 0 /\ faults = 0

Fault == faults < MaxFaults /\ faults' = faults + 1

-----------------------------------------------------------------------------
(* The log                                                                 *)

Emits == emitted < MaxEvents /\ emitted' = emitted + 1

(* What follows a cut-off line becomes part of it, and neither parses.     *)
append ==
    /\ Emits
    /\ log.size < Capacity
    /\ log' = [log EXCEPT !.exists = TRUE, !.size = @ + 1, !.torn = FALSE,
                          !.good = IF log.torn THEN @ ELSE @ + 1,
                          !.bad = IF log.torn THEN @ + 1 ELSE @]
    /\ UNCHANGED <<dropped, untraced, export, fileVars, theirs, taken, meddled, restarts, faults>>

(* The log is full: it is not turned over, and the event is dropped.       *)
increment_dropped ==
    /\ Emits
    /\ log.size = Capacity
    /\ dropped' = dropped + 1
    /\ UNCHANGED <<log, untraced, export, fileVars, theirs, taken, meddled, restarts, faults>>

(* The error is ignored by the command.  A write that fails may have left  *)
(* a part of its line.                                                     *)
append_fails ==
    /\ Emits /\ Fault
    /\ \/ untraced' = untraced + 1 /\ UNCHANGED log
       \/ /\ log.size < Capacity
          /\ log' = [log EXCEPT !.exists = TRUE, !.size = @ + 1, !.torn = TRUE]
          /\ UNCHANGED untraced
    /\ UNCHANGED <<dropped, export, fileVars, theirs, taken, meddled, restarts>>

(* aggregate_snapshot.                                                     *)
(* Mutant: what follows the last newline is left out without a word.       *)
truncated_line_count_None == 0
truncated_line_count == IF log.torn THEN 1 ELSE 0

malformed_line_count == log.bad

snapshot ==
    [status |-> IF dropped > 0 \/ malformed_line_count > 0 \/ truncated_line_count > 0
                THEN "needs_attention"
                ELSE IF log.exists THEN "ready" ELSE "never_run",
     events |-> log.good, malformed |-> malformed_line_count,
     truncated |-> truncated_line_count, dropped |-> dropped]

-----------------------------------------------------------------------------
(* What the report says of the database.  A database is its deletion runs  *)
(* as the clock stands to their deadlines, the state of the last storage   *)
(* check and the groups of failed jobs of one kind, by their attempts:     *)
(* nine, or ten that have a digit more.  Without a sound database (an      *)
(* integrity check that fails, a code that the parsers do not know) there  *)
(* is no report.                                                           *)

Deadlines == {"ahead", "past"}
Runs == [state : {"in_progress"}, deadline : Deadlines]
          \cup [state : {"needs_attention", "complete"}, deadline : {"past"}]
Databases ==
    [runs : SUBSET Runs, check : {"none", "queued", "running", "succeeded", "failed"},
     failed_attempts : SUBSET {9, 10}, sound : BOOLEAN]

storage_health(db) ==
    CASE db.check = "none" -> "never_run"
      [] db.check = "failed" -> "needs_attention"
      [] OTHER -> "ready"

Count(db, state, deadlines) ==
    Cardinality({r \in db.runs : r.state = state /\ r.deadline \in deadlines})

deletion_health(db) ==
    LET in_progress == Count(db, "in_progress", {"ahead"})
        overdue == Count(db, "in_progress", {"past"})
        needs_attention == Count(db, "needs_attention", Deadlines)
    IN  [status |-> IF needs_attention > 0 THEN "needs_attention"
                    ELSE IF overdue > 0 THEN "overdue"
                    ELSE IF in_progress > 0 THEN "in_progress" ELSE "none",
         deadline |-> \E r \in db.runs : r.state # "complete",
         in_progress |-> in_progress, overdue |-> overdue, needs_attention |-> needs_attention]

(* DeletionHealthV1::validate.                                             *)
deletion_health_is_valid(h) ==
    CASE h.status = "none" ->
           h.in_progress + h.overdue + h.needs_attention = 0 /\ ~h.deadline
      [] h.status = "in_progress" ->
           h.in_progress > 0 /\ h.overdue = 0 /\ h.needs_attention = 0 /\ h.deadline
      [] h.status = "overdue" -> h.overdue > 0 /\ h.needs_attention = 0 /\ h.deadline
      [] h.status = "needs_attention" -> h.needs_attention > 0 /\ h.deadline

(* The groups are sorted by their JSON, in which 10 stands before 9, and   *)
(* the contract wants them in the order of a key that pads the number.     *)
TextBefore(a, b) == a = 10 /\ b = 9
job_failures_are_sorted(db) ==
    \A m, n \in db.failed_attempts : TextBefore(m, n) => m < n

(* DiagnosticsExporter::project_report and DiagnosticsExportV1::validate.  *)
(* The bounds of the log's counters are out of reach.                      *)
project_report(db) == db.sound
report_is_valid(db) ==
    /\ deletion_health_is_valid(deletion_health(db))
    /\ storage_health(db) \in {"ready", "needs_attention", "never_run"}
    /\ job_failures_are_sorted(db)

Reports == {project_report(db) /\ report_is_valid(db) : db \in Databases}

-----------------------------------------------------------------------------
(* The export                                                              *)

Goes(to) == export' = [export EXCEPT !.at = to]
Ends == export' = Idle(export.number)

begin_export ==
    /\ export.at = "idle" /\ export.number < MaxExports
    /\ export' = [at |-> "snapshot", number |-> export.number + 1]
    /\ UNCHANGED <<logVars, fileVars, theirs, taken, meddled, restarts, faults>>

(* The database is read in one transaction, after the log, and the report  *)
(* is checked.                                                             *)
read_database ==
    /\ export.at = "snapshot"
    /\ \E valid \in Reports : IF valid THEN Goes("report") ELSE Ends
    /\ UNCHANGED <<logVars, fileVars, theirs, taken, meddled, restarts, faults>>

(* A destination in one of the application's own directories, in one that  *)
(* others may write, or under a name of another kind is refused.           *)
reject_destination ==
    /\ export.at = "report"
    /\ Ends
    /\ UNCHANGED <<logVars, fileVars, theirs, taken, meddled, restarts, faults>>

open_unique_temporary ==
    /\ export.at = "report"
    /\ IF destination = NoFile
       THEN Goes("temporary") /\ temporaries' = temporaries \cup {export.number}
       ELSE Ends /\ UNCHANGED temporaries
    /\ UNCHANGED <<logVars, destination, unsynced, answered, theirs, taken, meddled, restarts, faults>>

(* Mutant: the report takes the place of what is there.                    *)
rename_no_replace_Replacing == TRUE
rename_no_replace == destination = NoFile

(* The report is written, synced, read back and given its name.            *)
publish_report ==
    /\ export.at = "temporary"
    /\ rename_no_replace
    /\ destination' = export.number /\ unsynced' = TRUE
    /\ temporaries' = temporaries \ {export.number}
    /\ Goes("renamed")
    /\ UNCHANGED <<logVars, answered, theirs, taken, meddled, restarts, faults>>

unlink_if_owned ==
    /\ export.at = "temporary"
    /\ \/ ~rename_no_replace /\ UNCHANGED faults
       \/ Fault
    /\ temporaries' = temporaries \ {export.number}
    /\ Ends
    /\ UNCHANGED <<logVars, destination, unsynced, answered, theirs, taken, meddled, restarts>>

(* The file under the name is read back, and the directory is synced.      *)
verify_published ==
    /\ export.at = "renamed"
    /\ IF destination = export.number
       THEN answered' = export.number /\ unsynced' = FALSE
       ELSE UNCHANGED <<answered, unsynced>>
    /\ Ends
    /\ UNCHANGED <<logVars, destination, temporaries, theirs, taken, meddled, restarts, faults>>

(* The report stays where it is when this fails.                           *)
verify_fails ==
    /\ export.at = "renamed"
    /\ Fault
    /\ Ends
    /\ UNCHANGED <<logVars, fileVars, theirs, taken, meddled, restarts>>

-----------------------------------------------------------------------------
(* Other programs put a file of theirs at the destination, in place of     *)
(* what is there, or remove what is there.                                 *)
meddle ==
    /\ meddled < MaxMeddling /\ meddled' = meddled + 1
    /\ taken' = taken \cup {destination}
    /\ \/ destination' = Foreign /\ theirs' = TRUE
       \/ destination # NoFile /\ destination' = NoFile /\ theirs' = FALSE
    /\ unsynced' = FALSE
    /\ UNCHANGED <<logVars, export, temporaries, answered, restarts, faults>>

(* The process ends, and with the power a rename that was not synced.      *)
restart ==
    /\ Fault /\ restarts' = restarts + 1
    /\ export' = Idle(export.number)
    /\ untraced' = untraced + dropped /\ dropped' = 0
    /\ \/ UNCHANGED <<destination, temporaries>>
       \/ /\ unsynced
          /\ destination' = NoFile /\ temporaries' = temporaries \cup {destination}
    /\ unsynced' = FALSE
    /\ UNCHANGED <<log, answered, emitted, theirs, taken, meddled>>

Next ==
    \/ append \/ increment_dropped \/ append_fails
    \/ begin_export \/ read_database \/ reject_destination
    \/ open_unique_temporary
    \/ publish_report \/ unlink_if_owned \/ verify_published \/ verify_fails
    \/ meddle \/ restart

Spec == Init /\ [][Next]_vars

-----------------------------------------------------------------------------
(* A log that the report calls ready has every event that commands emitted *)
(* since the log began, except those whose file could not be opened and    *)
(* those dropped by earlier processes: damage is never silent              *)
(* (JsonlDiagnostics::snapshot, aggregate_snapshot).                       *)
ReadyMeansComplete ==
    snapshot.status # "needs_attention" => snapshot.events + untraced = emitted

(* An export never takes the place of another program's file; the newest   *)
(* report answered as complete is there, whatever crashes or fails later,  *)
(* until another program removes or replaces that very report; and a       *)
(* temporary file is left behind only when a process ends, one at most     *)
(* (publish_report).                                                       *)
PublishedAsAnswered ==
    /\ theirs => destination = Foreign
    /\ answered > 0 => destination = answered \/ answered \in taken
    /\ export.at = "idle" => Cardinality(temporaries) <= restarts

(* A report can be made from every sound database whose failed jobs are    *)
(* all below ten attempts, or all above (project_report,                   *)
(* DiagnosticsExportV1::validate).  It is of the two functions alone, over *)
(* every such database, whatever the step.                                 *)
ReportIsPossible ==
    export.at = "snapshot" => \A db \in Databases :
       /\ project_report(db)
       /\ Cardinality(db.failed_attempts) <= 1
       => report_is_valid(db)

(* The three above: what a report says of the log, what becomes of its     *)
(* file, and that the checks refuse no sound database but for the order of *)
(* its failed jobs.                                                        *)
ExportsAreHonest == ReadyMeansComplete /\ PublishedAsAnswered /\ ReportIsPossible
=============================================================================
