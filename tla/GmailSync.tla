------------------------------ MODULE GmailSync ------------------------------
(***************************************************************************)
(* How a Gmail scope follows the mailbox: GmailHistoryCoordinator and       *)
(* GmailSearchCoordinator (gmail_sync.rs) collect a batch over many calls,   *)
(* while the mailbox goes on changing, and commit_batch                     *)
(* (gmail_repository.rs) publishes it in one transaction.                    *)
(*                                                                         *)
(* The mailbox is a log of changes.  A history id is a position in it: the   *)
(* mailbox's is that of its last change, a message's that of the last change *)
(* to the message.  The pages of a listing are read as one; messages are     *)
(* fetched one at a time.  What a message holds never changes, so a fetched  *)
(* message is its history id and whether it carries the label.               *)
(***************************************************************************)
EXTENDS Naturals, Sequences, FiniteSetsExt, Functions

CONSTANTS
    Messages,
    MaxChanges  \* bound: changes of the mailbox

VARIABLES
    log,           \* external: the changes of the mailbox
    horizon,       \* external: the oldest history id Gmail still answers for
    scope,         \* gmail_scopes.discovery_kind
    checkpoint,    \* gmail_checkpoints.history_id, 0 when there is no row
    observations,  \* gmail_scope_availability_observations
    heads,         \* gmail_scope_availability_heads
    members,       \* gmail_scope_sources
    sync           \* the connect or sync under way, between two of its calls

vars == <<log, horizon, scope, checkpoint, observations, heads, members, sync>>
mailbox == <<log, horizon>>
store == <<checkpoint, observations, heads, members>>

Idle == [step |-> "idle"]
NoHead == [history |-> 0, availability |-> "none"]

Init ==
    /\ log = <<>> /\ horizon = 1
    /\ scope \in {"label", "search"}
    /\ checkpoint = 0 /\ observations = {} /\ members = {}
    /\ heads = [m \in Messages |-> NoHead]
    /\ sync = Idle

-----------------------------------------------------------------------------
\* The mailbox.  Reading a message, or starring it, touches it: its history id
\* moves and a listing of the scope's history does not mention it.

HistoryNow == Len(log) + 1
Changes(m, kinds) == {i \in DOMAIN log : log[i].message = m /\ log[i].kind \in kinds}
Listed == {"label", "unlabel", "delete"}
LastOf(m, kinds) == Max({0} \cup Changes(m, kinds))

MessageHistory(m) == LastOf(m, Listed \cup {"touch"}) + 1
Deleted(m) == Changes(m, {"delete"}) # {}
Labelled(m) ==
    /\ LastOf(m, Listed) # 0
    /\ log[LastOf(m, Listed)].kind = "label"

Change(m, kind) ==
    /\ Len(log) < MaxChanges
    /\ ~Deleted(m)
    /\ kind \in Listed \cup {"touch"}
    /\ kind = "label" => ~Labelled(m)
    /\ kind = "unlabel" => Labelled(m)
    /\ log' = Append(log, [message |-> m, kind |-> kind])
    /\ UNCHANGED <<horizon, scope, store, sync>>

Forget ==
    /\ horizon < HistoryNow
    /\ horizon' = HistoryNow
    /\ UNCHANGED <<log, scope, store, sync>>

-----------------------------------------------------------------------------
\* What a sync makes of a message

Effect(m, revision, availability, reason) ==
    [message |-> m, revision |-> revision, availability |-> availability, reason |-> reason]
Available(m, revision) == Effect(m, revision, "available", "materialized")
Unavailable(m, revision, reason) == Effect(m, revision, "unavailable", reason)

Later(a, b) == Max({a, b})

FetchedEffect(m, revision) ==
    IF Labelled(m) THEN Available(m, revision)
    ELSE Unavailable(m, revision, "label_absent_after_fetch")

\* A message fetched in a full reconciliation.
reconciled(m, anchor) ==
    IF Deleted(m) THEN Unavailable(m, anchor, "message_not_found")
    ELSE FetchedEffect(m, Later(anchor, MessageHistory(m)))

\* The last listed change of a message after the cursor, as of the terminal id.
selected(m, cursor, terminal) ==
    Max({0} \cup {i + 1 : i \in {j \in Changes(m, Listed) : j + 1 > cursor /\ j + 1 <= terminal}})
KindAt(h) == log[h - 1].kind

\* A message of the history that had to be fetched.
followed(m, cursor, terminal) ==
    IF Deleted(m) THEN Unavailable(m, selected(m, cursor, terminal), "message_not_found")
    ELSE FetchedEffect(m, Later(selected(m, cursor, terminal), MessageHistory(m)))

\* A message whose last change says enough.
departed(m, cursor, terminal) ==
    LET h == selected(m, cursor, terminal) IN
    Unavailable(m, h, IF KindAt(h) = "delete" THEN "message_deleted" ELSE "label_removed")

-----------------------------------------------------------------------------
\* Collecting a batch

\* connect_gmail without a checkpoint, sync_gmail with one.  A label scope with
\* a checkpoint follows the history; every other sync is a full reconciliation.
collect ==
    /\ sync = Idle
    /\ sync' = [step |-> IF scope = "label" /\ checkpoint # 0 THEN "history" ELSE "profile",
                expected |-> checkpoint, attempt |-> 1, began |-> Len(log), anchor |-> 0]
    /\ UNCHANGED <<mailbox, scope, store>>

\* Both reconciliations read the mailbox's id before they list anything.
profile_history_id ==
    /\ sync.step = "profile"
    /\ sync' = [sync EXCEPT !.step = "list", !.anchor = HistoryNow]
    /\ UNCHANGED <<mailbox, scope, store>>

Collecting(todo, done, anchor, mode) ==
    [step |-> "fetch", expected |-> sync.expected, attempt |-> sync.attempt,
     began |-> sync.began, mode |-> mode, anchor |-> anchor,
     todo |-> todo, found |-> todo \cup {e.message : e \in done}, effects |-> done]

\* Mutant: only what carries the label is looked at again.
list_messages_ListedOnly ==
    /\ sync.step = "list"
    /\ sync' = Collecting({m \in Messages : Labelled(m)}, {}, sync.anchor, scope)
    /\ UNCHANGED <<mailbox, scope, store>>

\* A label scope also looks at every message it has known.
list_messages ==
    /\ sync.step = "list"
    /\ LET listed == {m \in Messages : Labelled(m)} IN
       sync' = Collecting(IF scope = "label" THEN listed \cup members ELSE listed,
                          {}, sync.anchor, scope)
    /\ UNCHANGED <<mailbox, scope, store>>

\* incremental_once up to its fetches.  A cursor that Gmail has forgotten makes
\* it a reconciliation.
list_history ==
    /\ sync.step = "history"
    /\ \/ /\ checkpoint < horizon
          /\ sync' = [sync EXCEPT !.step = "profile"]
       \/ /\ checkpoint >= horizon
          /\ LET changed == {m \in Messages : selected(m, checkpoint, HistoryNow) # 0}
                 fetch == {m \in changed : KindAt(selected(m, checkpoint, HistoryNow)) = "label"}
             IN sync' = Collecting(fetch,
                           {departed(m, checkpoint, HistoryNow) : m \in changed \ fetch},
                           HistoryNow, "history")
    /\ UNCHANGED <<mailbox, scope, store>>

Fetched(m, effects) ==
    sync' = [sync EXCEPT !.todo = @ \ {m}, !.effects = @ \cup effects]

max_scan_attempts == 2

\* A search fails when a listed message is gone.  The history is read again when
\* a message is newer than it, and the sync fails when that happens twice.
get_message(m) ==
    /\ sync.step = "fetch" /\ m \in sync.todo
    /\ CASE sync.mode = "label" -> Fetched(m, {reconciled(m, sync.anchor)})
         [] sync.mode = "search" ->
              IF Deleted(m) THEN sync' = Idle
              ELSE Fetched(m, {Available(m, MessageHistory(m))})
         [] sync.mode = "history" ->
              IF Deleted(m) \/ MessageHistory(m) <= sync.anchor
              THEN Fetched(m, {followed(m, sync.expected, sync.anchor)})
              ELSE sync' = IF sync.attempt < max_scan_attempts
                           THEN [step |-> "history", expected |-> sync.expected,
                                 attempt |-> sync.attempt + 1, began |-> sync.began, anchor |-> 0]
                           ELSE Idle
    /\ UNCHANGED <<mailbox, scope, store>>

-----------------------------------------------------------------------------
\* Publishing it

Collected == sync.step = "fetch" /\ sync.todo = {}

\* insert_or_replay_scope_observation: an observation made again must say the same.
Collisions(effects) ==
    {e \in effects : \E o \in observations :
        /\ o.message = e.message /\ o.revision = e.revision
        /\ o # e}

EffectOn(m, effects) == CHOOSE e \in effects : e.message = m

advance_scope_head(m, effects) ==
    IF \E e \in effects : e.message = m /\ e.revision > heads[m].history
    THEN [history |-> EffectOn(m, effects).revision,
          availability |-> EffectOn(m, effects).availability]
    ELSE heads[m]

commit_batch ==
    /\ Collected
    /\ checkpoint = sync.expected
    /\ Collisions(sync.effects) = {}
    /\ members' = members \cup sync.found
    /\ observations' = observations \cup sync.effects
    /\ heads' = [m \in Messages |-> advance_scope_head(m, sync.effects)]
    /\ checkpoint' = sync.anchor
    /\ sync' = Idle
    /\ UNCHANGED <<mailbox, scope>>

\* A collision, an error of any call, a limit or a crash ends the sync; nothing of it stays.
Abort ==
    /\ sync # Idle
    /\ sync' = Idle
    /\ UNCHANGED <<mailbox, scope, store>>

\* finalize_disconnect removes the checkpoint and keeps what was imported.
disconnect ==
    /\ sync = Idle /\ checkpoint # 0
    /\ checkpoint' = 0
    /\ UNCHANGED <<mailbox, scope, observations, heads, members, sync>>

Next ==
    \/ \E m \in Messages, kind \in Listed \cup {"touch"} : Change(m, kind)
    \/ Forget
    \/ collect \/ profile_history_id \/ list_messages \/ list_history
    \/ \E m \in Messages : get_message(m)
    \/ commit_batch \/ Abort \/ disconnect

Spec == Init /\ [][Next]_vars

-----------------------------------------------------------------------------
\* With a checkpoint, the scope is right about every message whose label has not
\* changed since: a label scope shows as available exactly the messages that carry
\* the label, whatever changed while batches were collected, and a search scope has
\* imported every message that matches.
Synced ==
    checkpoint # 0 =>
      \A m \in Messages : LastOf(m, Listed) + 1 <= checkpoint =>
        IF scope = "label"
        THEN Labelled(m) <=> heads[m].availability = "available"
        ELSE Labelled(m) => heads[m].availability = "available"

\* A mailbox that stands still can be synchronized: what is collected from it is not
\* refused as a collision with what an earlier sync recorded.
QuietSyncCommits ==
    Collected /\ sync.began = Len(log) => Collisions(sync.effects) = {}
=============================================================================
