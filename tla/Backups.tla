------------------------------- MODULE Backups -------------------------------
(***************************************************************************)
(* The packages in backups/ (wardrobe-platform/src/backup_repository.rs):  *)
(* how they are made, how they expire, and what a deletion tells the user  *)
(* about them.                                                             *)
(*                                                                         *)
(* A package is a copy of the database and of the files it names.  It is   *)
(* built in the staging directory, which every operation empties first, and *)
(* renamed into place; the first start after its expiry moves it to the    *)
(* trash and removes it from there.  The pins of a pending restore matter  *)
(* to none of this: opening the database has carried it out by then.       *)
(* A deletion cannot reach into packages: its preview shows the user which *)
(* of them keep what is deleted, and until when, and its execution holds   *)
(* only as long as this is still true.  The process-wide gate, and the     *)
(* start that runs before any command, leave one of these at a time.       *)
(*                                                                         *)
(* Time passes in days; a plan is good for minutes, so for a day at most.  *)
(***************************************************************************)
EXTENDS Naturals

CONSTANTS
    MaxTime,    \* bound: the last day
    MaxPackages \* bound: packages made

VARIABLES
    now,
    target,    \* what the user deletes: "absent", "live" or "deleted"
    packages,  \* the packages in place
    trash,     \* the packages in the trash
    hand,      \* the package that is being built or removed
    at,        \* where the start, or the command, stands
    started,   \* the time of the start
    plan,      \* what the preview has shown
    run,       \* what the executed deletion has reported
    made

vars == <<now, target, packages, trash, hand, at, started, plan, run, made>>

Nothing == [id |-> 0]
NoPlan == [shown |-> FALSE, made |-> 0, reports |-> {}]

retention_ms(reason) == IF reason \in {"manual", "scheduled"} THEN 2 ELSE 3
Expires(p) == p.created + retention_ms(p.reason)

Init ==
    /\ now = 0 /\ target = "absent"
    /\ packages = {} /\ trash = {} /\ hand = Nothing
    /\ at = "down" /\ started = 0
    /\ plan = NoPlan /\ run = {}
    /\ made = 0

-----------------------------------------------------------------------------
\* Making a package

\* create_locked and build_package: the database is copied first, and decides what the
\* package holds.
Build(reason, time) ==
    /\ made < MaxPackages
    /\ made' = made + 1
    /\ hand' = [id |-> made + 1, reason |-> reason, created |-> time,
                holds |-> target = "live", sound |-> TRUE]
    /\ at' = "building"
    /\ UNCHANGED <<now, target, packages, trash, plan, run>>

\* The end of build_package: the directory is renamed into place.
publish ==
    /\ at = "building"
    /\ packages' = packages \cup {hand}
    /\ hand' = Nothing
    /\ at' = IF hand.reason = "pre_upgrade" THEN "expiring" ELSE "up"
    /\ UNCHANGED <<now, target, trash, started, plan, run, made>>

\* A recorded file is missing or damaged, or the disk is full.  A start that cannot make
\* its backup ends.
build_fails ==
    /\ at = "building"
    /\ hand' = Nothing
    /\ at' = IF hand.reason \in {"manual", "pre_restore"} THEN "up" ELSE "down"
    /\ UNCHANGED <<now, target, packages, trash, started, plan, run, made>>

\* The command, and the safety backup that a restore is prepared with.
create ==
    /\ at = "up"
    /\ \E reason \in {"manual", "pre_restore"} : Build(reason, now)
    /\ UNCHANGED started

-----------------------------------------------------------------------------
\* The start

\* Database::open; a schema that has to be upgraded is backed up first.
open ==
    /\ at = "down"
    /\ started' = now
    /\ \/ Build("pre_upgrade", now)
       \/ /\ at' = "expiring"
          /\ UNCHANGED <<now, target, packages, trash, hand, plan, run, made>>

Expired == {p \in packages : p.sound /\ Expires(p) <= started}

\* cleanup_expired moves a package to the trash.
cleanup_expired(p) ==
    /\ at = "expiring" /\ p \in Expired
    /\ packages' = packages \ {p} /\ trash' = trash \cup {p}
    /\ hand' = p
    /\ at' = "removing"
    /\ UNCHANGED <<now, target, started, plan, run, made>>

\* It removes the package that it has just moved, and no other.
remove_entry ==
    /\ at = "removing"
    /\ trash' = trash \ {hand} /\ hand' = Nothing
    /\ at' = "expiring"
    /\ UNCHANGED <<now, target, packages, started, plan, run, made>>

\* The scheduled backup is due when the newest that verifies is a day old.
due == \A p \in packages : p.sound /\ p.reason = "scheduled" => started - p.created >= 1

create_scheduled_if_due ==
    /\ at = "expiring" /\ Expired = {}
    /\ \/ due /\ Build("scheduled", started)
       \/ /\ ~due
          /\ at' = "up"
          /\ UNCHANGED <<now, target, packages, trash, hand, plan, run, made>>
    /\ UNCHANGED started

-----------------------------------------------------------------------------
\* Deletion

Report(p) == [id |-> p.id, expires |-> Expires(p)]

\* deletion_retention_locked; it fails when one package does not verify.
Verified == \A p \in packages : p.sound
deletion_retention == {Report(p) : p \in {q \in packages : q.holds}}

preview_deletion ==
    /\ at = "up" /\ target = "live" /\ Verified
    /\ plan' = [shown |-> TRUE, made |-> now, reports |-> deletion_retention]
    /\ UNCHANGED <<now, target, packages, trash, hand, at, started, run, made>>

(* Mutant: the packages are not looked at again.                           *)
plan_is_live_AsShown == plan.shown /\ plan.made = now /\ Verified

\* load_and_compare_live_plan.
plan_is_live ==
    /\ plan.shown /\ plan.made = now
    /\ Verified /\ deletion_retention = plan.reports

execute_deletion ==
    /\ at = "up" /\ target = "live" /\ plan_is_live
    /\ target' = "deleted"
    /\ run' = plan.reports /\ plan' = NoPlan
    /\ UNCHANGED <<now, packages, trash, hand, at, started, made>>

-----------------------------------------------------------------------------
\* The target is imported, after which some package may hold it.
Import ==
    /\ at = "up" /\ target = "absent"
    /\ target' = "live"
    /\ UNCHANGED <<now, packages, trash, hand, at, started, plan, run, made>>

Tick ==
    /\ now < MaxTime
    /\ now' = now + 1
    /\ UNCHANGED <<target, packages, trash, hand, at, started, plan, run, made>>

\* A package no longer verifies.
Damage ==
    /\ \E p \in packages :
         packages' = (packages \ {p}) \cup {[p EXCEPT !.sound = FALSE]}
    /\ UNCHANGED <<now, target, trash, hand, at, started, plan, run, made>>

Stop ==
    /\ at # "down"
    /\ at' = "down" /\ hand' = Nothing
    /\ UNCHANGED <<now, target, packages, trash, started, plan, run, made>>

Next ==
    \/ open \/ create_scheduled_if_due \/ create \/ publish \/ build_fails
    \/ \E p \in packages : cleanup_expired(p)
    \/ remove_entry
    \/ preview_deletion \/ execute_deletion
    \/ Import \/ Tick \/ Damage \/ Stop

Spec == Init /\ [][Next]_vars

-----------------------------------------------------------------------------
(* The user knows where deleted data stays: after the deletion, the        *)
(* packages that hold what was deleted are among those reported, with      *)
(* their expiry, and a start past the expiry lets no command in while such *)
(* a package can still be restored (deletion_retention_locked,             *)
(* load_and_compare_live_plan, cleanup_expired).                           *)
RetainedAsShown ==
    target = "deleted" =>
      /\ \A p \in packages : p.holds => Report(p) \in run
      /\ at = "up" => \A r \in run : r.expires <= started =>
                        ~\E p \in packages : p.id = r.id /\ p.sound
=============================================================================
