# A TLA+ verification of Threadbook

Threadbook is a local-first desktop application (Tauri, Rust, SQLite) that
catalogs a wardrobe from photographs and receipts. It keeps everything on one
Mac, asks before it sends anything to a provider, and has to survive crashes,
power losses and failing calls without losing data, sending personal
photographs twice, or going online when the user said not to. This directory
models those parts of it in TLA+, checks them with TLC on small instances, and
proves the central claims with TLAPS for every value of the constants.

Paths below are relative to the repository: `platform` is
`crates/wardrobe-platform/src`, `core` is `crates/wardrobe-core/src`, `shell` is
`src-tauri/src`. Every modelled definition is tied to its lines in
`PROJECT.json`.

## 1. The system

### How it runs

* One process owns a data directory: `StoreLock` (platform/maintenance.rs) holds
  an entry in a process-wide registry and a file lock for the process lifetime.
* Nearly every command is a synchronous `#[tauri::command] fn`; Tauri runs those
  one at a time on the main thread. The receipt intelligence request, the
  PhotoKit commands and the receipt image fetch are asynchronous. Besides
  them there are the try-on tasks that `TryOnScheduler::trigger` spawns and the
  PhotoKit reconciliation at startup. Concurrency is therefore: main thread,
  asynchronous commands, try-on tasks.
* The durable state is one SQLite database, a content-addressed blob store, the
  three records of the local-only mode, backups, and secrets in the Keychain.
  Every database operation is one immediate transaction, hence atomic; nothing
  is atomic across the database and any of the others.
* The provider's key and the Gmail account's token are rows of one table and
  secrets of one Keychain service, and the interface offers to remove either
  with the same command, `delete_credential_v1`.
* A start (shell/lib.rs 972-1090) takes the lock, loads the mode, opens the
  database (which continues a restore or an upgrade, recovers blobs, deletions
  and images, and migrates), expires and makes backups, reconciles credentials,
  and recovers recommendations, try-on, receipt intelligence, Gmail and PhotoKit
  before the first command.

### Components

| component | state | operations | what must be right |
|---|---|---|---|
| maintenance coordinator (platform/maintenance.rs) | `readers`, `writer_active`, `writers_waiting`, a condition variable | shared and exclusive permits | exclusion; no lost wake-up; maintenance is not starved |
| outbound authority (shell/local_only.rs) | mode snapshot, `transitioning`, `active_leases` | leases, cleanup leases, transitions | no outbound work in local-only mode; a transition drains, and ends |
| local-only mode store (platform/local_only.rs) | three records, `uncertain` | load, set, acknowledged response | a confirmed local-only mode survives every crash; fail closed otherwise |
| job queue (platform/database.rs, worker.rs) | jobs, results, failures | enqueue, claim, complete, retry, fail | fencing of stale workers; final, visible outcomes |
| credentials (core/service.rs, platform/database.rs, credential.rs) | references, receipts, Keychain | save, delete, reconcile | an active reference has its secret; no unnamed secret; deletion is final; a start settles every row |
| try-on queue and renderer (platform/try_on_*.rs) | approvals, jobs, attempts, outputs, blobs | preview, submit, claim, dispatch, transport, materialize, recover | at most one transmission per approval; truthful failures |
| try-on scheduler (shell/lib.rs) | two atomic flags | trigger, run, cancel | one pass at a time; no job forgotten |
| restore (platform/restore_repository.rs) | intent files with a phase, staged and quarantined files | prepare, apply, commit, roll back | the user's catalog is not lost, whatever is cut off; what is opened is whole |
| upgrade recovery (platform/restore_repository.rs) | an intent of its own, staged source | prepare, recover, commit | a failed migration leaves the source database; a later start gets on |
| backups (platform/backup_repository.rs) | packages, `.trash`, retention runs | create, schedule, verify, expire | the user knows which backups keep what was deleted |
| blob store (platform/blob.rs) | files and staged files by digest, prepared directories, manifests | put, prepare a batch, promote, recover | what is recorded is stored; a crash leaves a usable store |
| imports (platform/imports.rs) | roots, scans, sources, evidence | import, refresh, reconcile a root | an available root is what its last scan found |
| hard deletion (platform/catalog_repository.rs, deletion_repository.rs) | plans, runs, the trash | preview, execute, drain, recover | only what was shown goes; complete means gone; a run is finished |
| Gmail connector (platform/gmail_connector.rs) | account, operation, token rows, Keychain | settings, connect, disconnect, removal of the credential, recover | a connected account has its token unless the user removed it; revocation is reported honestly |
| Gmail sync (platform/gmail_sync.rs, gmail_repository.rs) | checkpoint, observations, heads | full, incremental, query | what is available is what the mailbox holds |
| PhotoKit connector (platform/photokit_*.rs) | enrollments, materials, heads, keys, a mutex | set up, reconcile, publish, disable, delete, recover | an available photo has its file; no orphan key; nothing stale is published |
| receipt intelligence (platform/receipt_intelligence_*.rs) | consents, attempts | preview, request, recover | one transmission per consent, failures that are true |
| outfit recommendations (platform/outfit_recommend*.rs, core/recommendation.rs) | approvals, attempts, answers | preview, request, recover | an answer is of the catalog that was approved; the audit adds up |
| receipts (platform/receipt_repository.rs, receipt_promotion_repository.rs) | orders, reviews, promotions, image attempts | analyze, review, promote, fetch images | a unit is promoted once; the newest image wins |
| catalog (platform/catalog_repository.rs) | items, evidence, decisions | save, decide, merge, split, undo | undo restores; evidence is never lost |
| photos, people (platform/photo_repository.rs, person_repository.rs) | detection runs, reviews, owner work, analysis | detect, decide, work, analyze, review | owner work belongs to the decision in force; a photo is matched by its owner's crop |
| reconciliation (platform/reconciliation_repository.rs) | cases, candidates, decisions | open, list, decide | a case offers what the store held when it was written; stale cases are told from open ones |
| update packages (platform/update_package.rs, core/update.rs) | staged directories and their records | stage, replay, recover | what was answered as staged is there, verified, after any crash (a replay of a stage that was never synced excepted) |
| diagnostics (platform/diagnostics.rs, diagnostics_export.rs) | a bounded log, exported reports | emit, export | a log called ready is complete; an answered report stays; nobody's file is overwritten |
| command boundary (shell/lib.rs) | permits, leases, gates and mutexes of each handler | the handlers | what sends holds a lease; commands do not wait for each other for ever |
| application service (core/service.rs) | revisions, receipts of request ids | every command | a wish is granted once, however often it is tried |
| native PhotoKit bridge (native/photokit, platform/photokit_native.rs) | the queue of frames, the operation, five threads | start, cancel, answer, shut down | an answer is whole; nobody waits for ever |
| lists and cursors (core/contracts.rs, the repositories) | cursors, pinned revisions | read a page | pages neither repeat nor miss rows unnoticed |
| store lock, interface, Vision bridge, tools | | | see `PROJECT.json` |

### How they interact

A command checks the outbound authority (a lease) if it may use the network,
takes a shared maintenance permit while it publishes, and runs its
transactions. Restore, upgrade recovery, deletion and the collection of
unowned blobs take the exclusive permit, which waits for every shared one;
`execute_deletion` holds it and then the process-wide gate of the maintenance
window, `create_backup` a shared permit and then the gate.
Changing the local-only mode is a transition of the authority: it refuses new
leases, waits for the old ones, writes the mode store, and publishes what was
written. The try-on task holds a shared permit and a lease during each job;
submitting a job triggers it through the latch, and turning local-only on
cancels a queued trigger.

### What is hard

Interleavings of the main thread with tasks on atomics, mutexes and condition
variables; crashes between two transactions, or between a transaction and the
Keychain, a rename, a hard link or a transmission; requests delivered twice;
leases that expire under a slow worker; clock readings, plans and catalogs that
are stale when they are used; errors after an effect that may or may not have
happened. `PROJECT.json` lists each of these hazards at its line with the
properties that cover it.

## 2. The modules

| module | models | state ↔ code |
|---|---|---|
| `PublicationBarrier` | what the coordinator promises, abstractly | sets of holders and of askers |
| `Maintenance` | platform/maintenance.rs | the three fields of `CoordinatorState`; `pc` says where each thread is |
| `OutboundAuthority` | shell/local_only.rs | the fields of `AuthorityState`, each worker's lease, the thread in a transition |
| `LocalOnly` | platform/local_only.rs and `handle_set_local_only`, over `OutboundAuthority` | the three records as a process sees them (`visible`) and what a power loss may leave (`durable`), `uncertain`, the call under way |
| `JobQueue` | platform/database.rs (jobs), worker.rs, `handle_run_storage_check` | the rows of `jobs`, `job_results`, `job_failures`; what each command holds |
| `Credentials` | core/service.rs, platform/database.rs, credential.rs | rows, receipts, Keychain, the approvals that name a credential; the command or the reconciliation under way |
| `TryOnQueue` | platform/try_on_repository.rs, try_on_renderer.rs, try_on_http.rs | approvals, jobs, attempts, outputs and blobs; where `run_once` is |
| `TryOnScheduler` | the scheduler of shell/lib.rs | the two atomics, the main thread and the tasks, one step per atomic operation |
| `Restore` | platform/restore_repository.rs, staging, verifying and opening in platform/database.rs | the intent, its checksum and their temporary files; live, staged and quarantined databases; blobs, displaced blobs and markers; one step per file operation |
| `Upgrade` | the upgrade journal of platform/restore_repository.rs around the migrations | the live database and its log, the staged source, the failed copy, the journal's two files, the phase |
| `Backups` | platform/backup_repository.rs, and what a deletion reports about backups | packages, `.trash`, the clock, the plan a preview showed and the run that followed |
| `BlobStore` | platform/blob.rs | the names, links and files of one content under its three writers, the manifest of a batch, what rows record |
| `Imports` | platform/imports.rs | the folder, its root, scans, sources and evidence; the import under way |
| `Deletion` | preview in platform/catalog_repository.rs, execution and draining in deletion_repository.rs | rows that name blobs, one photo enrollment with its key, plans with their snapshot, runs, active and trashed files |
| `Gmail` | platform/gmail_connector.rs | the account and its token rows, the operation, the Keychain, grants at Google, the removals the user asked for |
| `GmailSync` | platform/gmail_sync.rs, gmail_repository.rs, the listing calls of gmail_http.rs | the mailbox's history, the checkpoint, observations, heads, the collection under way |
| `PhotoKit` | platform/photokit_repository.rs, photokit_coordinator.rs, photokit_connector_runtime.rs | enrollments, heads, materials, files, keys; three threads, the connector's mutex and the barrier |
| `ReceiptIntelligence` | platform/receipt_intelligence_repository.rs, _coordinator.rs | consents, attempts, the source's authority, overlapping calls |
| `Recommendations` | platform/outfit_recommendation_repository.rs, outfit_recommender.rs | approvals, attempts, the catalog's revision, calls and answers |
| `Receipts` | platform/receipt_repository.rs, receipt_promotion_repository.rs | the order of a source, its reviews, promotions and deletions |
| `ReceiptImages` | the image part of platform/receipt_repository.rs | attempts, intents, staging, the blob, committed images |
| `Catalog` | platform/catalog_repository.rs | items, evidence, the head of each decision chain and the projection it saved |
| `OutfitAgent` | platform/outfit_recommendation_provider.rs, outfit_recommendation_http.rs, core/recommendation.rs | the transcript and budgets of one `recommend`, what the provider was asked and answered, the audit |
| `Photos` | platform/photo_repository.rs, person_repository.rs, the matching of platform/reconciliation_repository.rs | detection runs, reviews and their heads, owner work and claims, analysis, observations, cases |
| `Reconciliation` | platform/reconciliation_repository.rs, core/reconciliation.rs | items, receipt lines, the owner's review; the two transactions of an opening; the cases and a listing of them |
| `Listings` | the paged lists of the repositories | rows with their sort keys, the counters a cursor pins, the cursor; lists and writes are tables |
| `Closure` | platform/catalog_repository.rs, compile_entries in deletion_repository.rs | the store as a record of tables, the plan computed from it |
| `Updates` | platform/update_package.rs, core/update.rs | staging and verified directories and their records, the file the user named, the call under way |
| `Diagnostics` | platform/diagnostics.rs, diagnostics_export.rs, core/diagnostics_backend.rs | the log, its dropped events, the export's steps, the destination directory |
| `Commands` | the handlers of shell/lib.rs | what each handler holds and waits for, where it runs, the runtime's threads |
| `Service` | core/service.rs and the receipts of platform/catalog_repository.rs | counters of revisions, receipts under request ids, the call, what was granted |
| `PhotoKitBridge` | native/photokit (BridgeState, PhotoKitCoordinator, CABI), platform/photokit_native.rs | caller, worker, main thread, Photos and its callback; channel, frames, operation |
| `MCGates`, `MCBackground`, `MCConnectors`, `MCProviders`, `MCStorage` | | compositions, see below |

`LocalOnly` EXTENDS `OutboundAuthority`, so a mode change runs against workers
that take and drop leases. `PhotoKit` carries the publication barrier itself,
because its commands, its reconciliation and a deletion meet there. The five
`MC…` compositions put components that share the process side by side: where
they touch no common table or file a behaviour exercises one of them
(`feature`) and leaves the others at rest, which loses nothing and keeps the
product of their states out. The key and the token are in one table:
`delete_credential_v1` and the reconciliation of a start, which take either, are
actions of `Credentials` and of `Gmail`, each on the rows of its own provider.
`MCDeletion` adds the values of a run. Each `…Proofs` module holds the inductive
invariants of the features of one composition and their theorems.
Definitions whose comment says "Mutant" are plausible mistakes in the definition
after them; they are used only to confirm that a property notices the mistake,
and no specification refers to them.

Conventions. A section under a mutex, a transaction and an atomic operation are
one step each. A call that can fail has a step in which it fails. A crash
discards the variables that model memory and keeps the others. History
variables (`sealed`, `saved`, `sent`, `dropped`, `disturbed`, `shown`, `before`,
`made`, `overlapped`, `late`, `written`, `granted`, `told`, `steady`, `reported`,
`removals`, `unsettled`, `cutoff`, `taken`, `restarts`) record what was told to the user, sent
or given up; no guard of an operation reads them. Bounds (`Max…`, `FaultPlans`)
appear only in guards and in the initial budget of faults, and the proofs hold for
every value of them.

What each abstracts:

* `LocalOnly`: the digests that chain the records are equality of records; the
  checks of ownership and permissions are a failed read or a refused target.
* `JobQueue`: a job is its request; a blob is the outcome of verifying it.
  `Handlers` is the set of workers the lease contract allows; the shell of today
  is the instance with one.
* `Credentials`, `Gmail`: a credential is named by its request, since its id is a
  digest of the request id. The Keychain and Google are external. `Gmail` leaves the
  request ids and replays of `delete_credential_v1` to `Credentials`; of receipt
  intelligence `Credentials` knows only which credentials approvals name.
* `TryOnQueue`: an approval, its submission, its job and its only attempt are
  one to one. `sent` counts a call of `generate` that passed its local
  validation as a transmission, because from then on nobody can tell.
* `TryOnScheduler`: a claimed job is done; the atomics are sequentially
  consistent, which can only hide behaviours of weaker orderings.
* `Restore`, `Upgrade`: a database is one of a few contents (the user's, a torn
  copy, the copy as backed up, the normalized or migrated one, an empty one); a
  checksum is the intent it belongs to. What a power loss does to unsynced
  renames is not modelled.
* `Backups`: a package holds what was deleted, or not; one flag stands for the
  code's `target_retained` and `blob_retained`. A package with a source of the
  closure whose blob is shared, and with no target, is reported by neither and is not
  represented.
* `BlobStore`: one content; what differs between two is only its digest.
* `Deletion`: the closure is taken over sources, the blobs they share and one
  photo enrollment; the snapshot's token is the revision it was taken at.
* `GmailSync`: a mailbox is a log of changes and a horizon below which history is
  gone; a message is in the label or not.
* `Photos`: the photos of a scope stay the same; a crop is the person it shows, and the
  detector, the analyzer and Vision are outcomes.
* `Reconciliation`: a case is about one photo. An image is a distance on either
  side of the limits of the grades, or why it cannot be measured; a date is
  before, on or after the day of the photo, or unknown.
* `Listings`: which counters a write moves and which lists it changes are two
  tables taken from the transactions; a write that changes several rows is
  several writes. One behaviour reads one list.
* `Closure`: a message, its parse, run, order, line and review are one row;
  provenance, parts, fields and citations, which come and go with another row, are
  left out.
* `Updates`: digests are equal when what they are of is; a replay reads the stages in
  the order of their releases, as the names of their directories have it; `Diagnostics`: a line of
  the log is one unit of its size.
* `Commands`: handlers with the same sequence of waits are one; what a handler
  does to stored state belongs to its component.
* `Service`: what a command does is the set of revisions it moves.
* `OutfitAgent`: sizes are numbers of entries; the provider chooses what each item of
  its output is when it is read.
* `PhotoKitBridge`: a frame is its request, its kind and its index; progress frames
  are left out.
* `Receipts`, `ReceiptImages`, `ReceiptIntelligence`, `Recommendations`: text,
  prices, URLs and answers are outcomes of their validation.

## 3. The runs

| run | instance | what it shows |
|---|---|---|
| `gates` | 4 threads; 3 workers, 2 revisions; 3 requests to Photos; 2 wishes, 2 receipts; 3 responses, 2 tool calls; fair | `NoLostWakeup`, `ImplementsBarrier` (the coordinator refines `PublicationBarrier`, writer preference included); `NoOutboundWhenLocalOnly`; `AnswersAreWhole` (Photos' answers, wishes granted once, the audit of a recommendation); `WaitingEnds` (writers, transitions, the bridge) |
| `background` | 2 jobs, 2 workers, 2 processes; 2 submissions, 2 tasks; 2 photos with one revision, and 1 with 4; 3 items and a receipt line to match; 4 rows, 2 writes between pages | `ResultFromLastClaim`; `WakesAreRetained`; `PeopleWorkAddsUp`; `OwnersCropIsMatched`; `CasesAreSound`; `ListingAddsUp` |
| `connectors` | 3 requests, 3 starts; 2 messages, 3 changes; 2 assets, 2 enrollments, 3 fences; 2 asynchronous commands, 1 worker thread | `ActiveHasSecret`, `NoOrphanSecret`, `StartupSettles` for the provider's key; `TokenAsConnected`, `RevocationIsHonest` for Gmail's token; `Synced` for the mirror; `EnrollmentsAreReal`, `NothingStaleIsPublished` for PhotoKit; `SendsAreLeased`, `DeadlocksAreKnown` for the commands |
| `providers` | 2 approvals; 1 receipt request with 2 calls; 2 suggestions; 3 items, 3 pieces of evidence; 2 units, 3 reviews; 2 downloads; 2 mode changes; 3 files, 1 crash | `AtMostOneSend`, `FailureIsHonest` (try-on); `ConsentIsSpentOnce`; `PublishedAsApproved` (answers); `PurchasedOnce`, `NewestImageOnly`; `ModeIsKept`; `StoredAsRecorded`; `DecisionsHold` |
| `storage` | 2 photographs with one blob, 2 deletions, one crash or error; 2 assets, 2 restores, 2 crashes and 2 errors; up to 3 faults in an upgrade; 3 packages; 2 files, 3 scans; 5 commands before a plan; 5 update packages; a log of 2 lines, 4 events, 2 exports, 2 faults, 2 acts of others | `RecordsKeepTheirFiles`, `OnlyWhatWasShownGoes`, `DeletionsFinish`; `PlansAreWhole`; `RestoreKeepsACatalog`; `UpgradeSettles`; `RetainedAsShown`; `ReconciledAsScanned`; `StagedAsAnswered`; `ExportsAreHonest` |
| `catalog_undo`, `deletion_reimport`, `photokit_permit`, `restore_comes_up`, `blob_crash`, `import_retry`, `restore_rollback` (violated) | the smallest instance that shows it | the findings of section 4 |

Each property's comment says in words what it states and about which code.

Why the bounds are enough. Two readers, a writer and a second, queued writer
show every pair that can conflict in `Maintenance`. A mode change involves the
records before it and after it, and a later one started while the first is
uncertain: the initial record and two changes of it. Two jobs are needed for a
command to work on another request's job; a lease of length 1 and two ticks let
it expire and be taken over. Two submissions and two tasks let a task that is
about to end meet its successor. Two photos let one finish while another is
retried; one photo with four revisions lets a decision be corrected, worked on,
and corrected again between the claim and the publication of its work. Three
requests are a save and two deletes, or two connections and a disconnection, in
any order with any crash, and each connection's credential may be removed at any
moment. Two messages and three changes allow a message to
leave and return while another is listed. Two enrollments and two assets let an
asset of an abandoned enrollment be met again, and three fences a reconciliation
that began two operations ago. Two asynchronous commands and one worker
thread, beside the main thread and the scheduler's, are the fewest that can wait
for each other in a circle of three. Three items and three pieces of evidence
allow a merge, a split and the undo of either. Two downloads of one image let
the older one end last. Two photographs over one blob let a plan take one and
keep what the other needs; two requests allow a deletion, its retry and a competing
one. `Closure` has a message in two revisions with an order of two units,
photographs that share bytes and a folder, and five commands to connect them before
the deletion. In `Restore` two assets let one be installed and another not when a
fault happens; an error starts a rollback, and the second one stops it; a crash may
come before or after either, and another in what the next start continues.
`Upgrade` takes three crashes, a crash and an error, or two
errors. Three packages are one that expires, one made after the deletion's preview
and one in between. Update packages are of two releases, a second of the same
release, one that is not signed and one whose artifact is not its manifest's.
Three files of the blob store are a content, its staged name and another
writer's. Two wishes may name any two commands, so a wish of one kind meets every
other one between its tries; wishes and receipts are numbered in the order of
their use, which loses nothing. One item, three responses and two tool calls reach
every limit of `recommend`, whose counter of tokens overflows at two.

Fairness. `gates` assumes that a runnable thread is eventually scheduled and
that a held permit, lease or transition is eventually dropped, because every
holder is a guard of a function that returns (network calls have timeouts). Of
the bridge it assumes that the caller, the worker and the main thread take their
next step and that a callback that has begun goes on; the user need not
answer Photos' prompt and Photos need not call back.
`storage` assumes that a deletion under way, a start, and a restarted
application take their next step (`WF` of `Work`); nobody has to ask for a
deletion. `photokit_permit` assumes weak fairness of each thread's next step
(`FairSpec`), `restore_comes_up` that a start goes on and that the application
is started again (`LiveSpec`). Nothing is assumed about callers making new
requests anywhere.

Deadlock checking is off in `gates`, in `providers` and in the violation runs of
features that simply end when their bounds are used up; elsewhere a state
without a successor would be reported. In `connectors` and `background` the
features that may come to rest stutter by name; the commands' known circles of
waiting are the property `DeadlocksAreKnown`, not a deadlock of TLC's.

## 4. Findings

1. `catalog_undo`: undoing a decision on one piece of evidence deletes all of
   the item's evidence rows and puts back only the decided one; the others are in
   no item and not in the inbox.
2. `deletion_reimport`: a deletion whose drain failed keeps its list of blobs. The
   same bytes imported again reuse the blob, and the retry or the next start
   moves it to the trash.
3. `restore_rollback`: a failed call of a validated restore starts a rollback, which
   does not change the phase in the journal. A crash after it removed the live
   database leaves none; the next start takes the restore for finished, opens an
   empty catalog, commits and removes the user's. `RestoreKeepsACatalog` excepts
   this case, by the history variable `cutoff`, and no other.
4. `photokit_permit`: a reconciliation holds the connector's mutex and asks for a
   permit; a command holds a permit and waits for the mutex; a deletion waits for
   the command and makes the reconciliation wait.
5. `restore_comes_up`: `remove_intent` deletes the intent and then its checksum.
   After a crash in between every start sees a pending restore that it cannot
   read, and fails.
6. `blob_crash`: after a crash between the link and the unlink of a promotion, the
   content has two links, which every verification refuses for ever.
7. `import_retry`: a scan that did not complete keeps the generation the next scan
   of the folder computes, and no refresh of the folder can start again.

`PROJECT.json` quotes the line of the repository each one contradicts.
Further disagreements were met while modelling. Some are definitions without a run
(`AttemptsWithinPolicy` in `JobQueue`, `NoForgottenJob` in `TryOnScheduler`,
`QuietSyncCommits` in `GmailSync`, `WardrobeOpens` in `Credentials`,
`DisconnectionBegins` in `Gmail`, `ListingIsAnswered` in `Reconciliation`; TLC finds the
last three violated with two requests and two starts, or without a single item); the
passing runs
allow for others by name, and the rest concern what the models leave out:

* Jobs: `claim` adds one to `attempt` of a job whose lease expired and never
  compares it with `retry_limit`; only `retry` does.
* Try-on scheduler: `begin_pass` clears a wake that may be newer than the clock
  reading the pass claims with. `finish_pass` clears `active` before it swaps
  `wake_requested`, so a task paused in between can take its successor's wake.
* Credentials: an approval of receipt intelligence keeps the row of its credential
  (`ON DELETE RESTRICT`, 0016_receipt_intelligence.sql:46). `delete_credential_v1` of that
  credential removes the secret and fails at the row, which no later start can remove
  either: each ends with `credential_reconciliation_failed` and the application does
  not open. P11-GAT-001 asks that the wardrobe stay available without an active
  credential. `StartupSettles` is about the starts that do come up.
* Gmail: the user may remove the credential of the connected account like any other
  (`TokenAsConnected` excepts that account). It stays connected without row and token;
  a request to disconnect reserves its id, finds no active account and is answered with
  an error, so Google is never asked to revoke, which P06-AUT-002 asks for.
* Restore: the backup is copied to the name under which the next start
  looks for the normalized database. `normalize_restored_state` leaves try-on jobs,
  receipt attempts and recommendation approvals alone, so a job that was queued
  in the backup and sent since is queued again; a credential deleted since the
  backup comes back as an active row without a secret.
* Upgrade: a crash right after the intent is removed leaves the operation's
  directory with a copy of the catalog for ever.
* Backups: a crash between moving an expired package to `.trash` and removing it
  leaves it there, unseen by previews; a backup that cannot be verified is skipped
  by listing and expiry but makes every deletion fail; a scheduled backup that
  fails makes the start fail.
* Blob store: after a failed cleanup of a batch's directory its contents have two
  links until the next start, and other puts of them fail meanwhile.
* Imports: the messages of an mbox belong to no root and are never marked missing;
  a failed import leaves recorded sources without advancing the generation.
* Gmail: an error of `reserve_credential` leaves the grant unrevoked and the
  operation open until a restart; a failed disconnect is resumed only by its own
  request or a restart.
* PhotoKit: an error of a reconciliation leaves its operation non-terminal until
  the next sync or start; in local-only mode a start recovers nothing.
* Receipt intelligence: of two overlapping calls of one request the second fails
  the dispatched attempt of the first as `credential_unavailable`
  (`overlapped` exempts it).
* Receipts: any promotion or deletion makes the source's units unpromotable after
  a new review; the deletion of a merged item with promoted evidence takes the
  receipt with it. Every failure of an image download is final.
* Photos: a replaced or prompted crop can never be reconciled; the CHECK at
  0014_photo_owner_authority.sql:163 forbids the retry of a transient detection
  failure; a second run of a scope with a new Vision build violates a UNIQUE
  constraint; nothing calls `process_photo_owner_work`, so a crash leaves it pending.
* Gmail sync: a label removed during the first reconciliation is recorded with
  another reason than history gives for it, so the next sync of a quiet mailbox
  collides with it, and so does every later one until something else changes.
* Catalog: an item can come to hold more than 32 pieces of evidence; then
  `list_catalog` and the merge's own answer are refused after the commit, and replays
  repeat that. `save_item` with unsorted ids is answered as an error (the
  interface sorts them).
* Closure: a deletion is refused when an outfit that stays pins a picture that goes and
  has since been moved or merged, a case that stays is about another photo of the scope, a Gmail message is
  reached through an item (the lineage is expanded once, before the closure), or a
  promoted unit's item lost or gained evidence. A preview is inexact when people were
  detected in a scope that falls, or an outfit that falls pins a picture.
* Reconciliation: a listing answers with the reconciliation revision, and an answer with
  revision zero is refused (core/reconciliation.rs:1291). In a store where no case was
  ever opened the list of a photo's cases, which the interface asks for first, is
  reported as corrupt. An evidence id does not contain its case and is a primary key, so
  a second case that offers the same target cannot be opened, although 0014 makes
  it unique per case; the interface takes the first listed case even when it is
  stale; a decision never asks whether the item is still active.
* Commands: two circles of waiting are known. One is finding 4; in the other the
  runtime's worker threads all block in `acquire_shared` behind a waiting writer while a
  task that holds a permit has its answer and no worker. `delete_credential` and
  `disable_photokit` are classified as local cleanup and take no lease;
  `collect_unowned_blob` has no caller; connecting and syncing Gmail block the main
  thread.
* Service: the interface makes a new request id for every try (only the execution of a
  deletion keeps its own), so after a lost answer the revisions of the request are
  all that guards: commands whose request names no revision that they move may be done
  again. A credential's `PermissionDenied` is retryable from the Keychain and not
  from the database, with the same `UnlockKeychain` action; a malformed answer of Gmail is
  not retryable and says Retry.
* Recommendations: a response id that is printable but no bounded identifier drops the
  whole audit and turns a completed or refused recommendation into `ToolProtocol`;
  an overflow of tokens drops it too. The model is told to use only what a search
  returned; checked are that there was a search and that the item is in the snapshot.
* Lists: an import that fails midway, or a refresh that only finds files gone, changes
  the inbox, the receipts and the roots without moving `evidence_generation`; the
  portraits' cursor pins the photo revision alone and the receipt intelligence list
  pins nothing, so pages can repeat or miss rows (`unseen` names these writes).
* Google's authorization: a stray first connection to the callback ends the attempt; a
  denial by the user is a malformed request; a lost answer of the exchange leaves an
  unrevoked grant.
* Updates: a stage is bound to the installed application and schema, so later
  verifications of an older stage fail for ever. A replay after an unknown
  publication answers staged without syncing `update_verified`, and a loss of power
  may then take the stage back: `StagedAsAnswered` excepts a stage whose rename was
  never synced and that only replays have answered (`unsettled`).
* PhotoKit bridge: the worker ends with the first request that fails and is not
  started again, so Photos is unavailable until a restart; a shutdown that times out
  leaves the handle.
* Diagnostics: the log is never turned over, a torn last line swallows the next event, and
  an export with 9 and 10 attempts of one failure is refused as corrupt because their
  order as text differs from that of the padded key. An export that fails after its
  rename leaves the report.

## 5. The proofs

All are checked by TLAPS for every value of the constants, from the assumptions
named in the modules: threads, workers, sources, blobs, photos, requests and entries of
batches are finite sets where something is counted, bounds and durations are naturals,
request ids and writers are not names the models use for something else
(`ThreadsAssumption`, `WorkersAssumption`, `RevisionsAssumption`,
`JobQueueAssumption`, `BootsAssumption`, `TryOnBounds`, `DeletionAssumption`,
`ModeAssumption`, `BlobsAssumption`, `SlotsAssumption`). Others say what the code
guarantees of its data: the runtime has a thread (`RuntimeAssumption`), a detection
run has a photo (`ScopesAssumption`), ids of different tables differ
(`ClosureAssumption`), the limit of evidence in one decision is positive
(`CatalogAssumption`), a distance between images is within its 64 bits or its three
channels (`MatchingAssumption`), a list and its pages have sizes (`ListsAssumption`).
`DiagnosticsAssumption` says that the number of exports is a number. None of them limits
what goes wrong. TLC evaluates each of them.

Where an instance fixes a constant (the wishes, responses and frames of `MCGates`),
the theorem is about that size and behaviours of every
length.

The theorems about a feature of a composition are about the composition's own
specification: a step of it is a step of the feature's module or leaves its
variables alone (`…Step`), the invariant holds initially (`…Init`), every step of
the module keeps it (`…Next`), and it implies the property (`…Safe`).

`GatesProofs`

* The barrier. `IInv` is `TypeOK`, `Census`, `Exclusion`, `NoLostWakeup` together.
  The guards test the counters, so exclusion needs the census (the counters equal
  the permits and waiters), and the census needs to know that a notification moves
  nobody into or out of a permit. From it: mutual exclusion, exact counters, kept
  wake-ups, writer preference, and that every step of the coordinator is a step or a
  stutter of `PublicationBarrier`.
* The authority. `NoOutboundWhenLocalOnly` is not inductive: publishing a
  local-only mode keeps it only because a held transition has no lease beside it
  (`TransitionIsExclusive`), which rests on the counter (`LeasesCounted`) and on
  `acquire`'s refusal.
* The service (`ServiceInv`): a wish, the receipts under its ids and the command under way
  tell the same story. A receipt is only replayed for the envelope it was written
  for, and its revisions are those of the moment it was granted, so a second try
  finds the first one's answer however the counters moved on.
* The recommendation (`AgentInv`): the turn, the usage and the transcript count the
  same responses and calls (`CountsFit`, `AuditFits`); a request is out exactly while its
  fate is unknown (`WireFits`). `CallsArePaired` comes from what is in the
  transcript: a call is followed by one output of its id before the next turn.
* The bridge to Photos (`BridgeInv`): what the caller has, what the channel holds, what
  the worker has in hand and what Photos has still to emit are, joined, one answer
  (`Whole`), whose frames continue each other (`Continues`). Whoever cancels cuts it
  off; only a whole one is followed by "completed".

`BackgroundProofs`

* The queue. The missing fact is `FenceBound`: no command holds a fence its job has
  not reached, so a claim's fence is above every fence in use.
  `PrerequisitesFirst` is proved for every table of dependencies; nothing writes
  that table yet, so there is no run of it.
* The scheduler (`SchedulerInv`): a queued submission has someone who will still see it
  (`Covered`): the main thread before its exchange, a task that has not read the queue
  yet, or one that holds the latch while a wake is asked for. The latch has at most one
  owner (`LatchIsOwned`).
* Photos (`PhotosInv`): a detection command works on the attempt that runs, so each attempt
  ends once (`DetectionInv`); a decision not in force has no work left (`OwnerInv`);
  only what was observed is reviewed, and only what is confirmed is matched (`CropInv`).
* Orders. A list is `CHOOSE`n as the members of a set in the order of a relation
  (`Ordered`). That there is such a sequence (`SortedRows`) is shown by giving each
  row the place after the rows that precede it; then every row is in it once
  (`EveryRowOnce`), and what follows a row in it is what the relation puts after it
  (`RowsAfter`).
* Cases (`OffersInv`): a snapshot holds rows each once, at the revisions it names. A case
  is written only if they are the revisions in force, so what it offers is what the
  tables hold; its ranks are those of the order of likeness, and the rest of the
  contract of the answer follows from how evidence is built.
* The list of cases (`ListingInv`): the revisions in a cursor are no newer than those in
  force, and when they are the same the pages so far are the first cases of the list.
* The other lists (`ListsInv`): while the cursor's counters are those in force and no
  write was one they are known to miss, the pages are the first rows (`FirstPages`);
  and for a list that goes on by key, whatever was written, no row shown comes again
  and every row that stayed is shown or still to come (`Resumed`). The keys of a list
  whose order is fixed, or grows, are what makes it so (`KeysInv`). `WritesAreNoticed`
  is the check of the two tables against each other.

`ProvidersProofs`

* Try-on. `RowInv` says what the rows of a job tell about its transmission,
  `RendererInv` what each step of `run_once` may rely on; at most one transmission
  then follows from "sent" implying an attempt that no claim and no recovery returns
  to the queue.
* Images (`ImageInv`): each attempt is made once, and by the time another follows it it
  has been given up as ambiguous, so only the newest can have an image.
* Purchases (`PurchaseInv`): what was made of a message stays on record, as a promotion or
  as its deletion, under the one review it was made by.
* Suggestions (`SuggestionInv`) and receipts (`ReceiptInv`): what the rows say about a
  transmission at each step of each call. For receipts the calls overlap, so the
  invariant relates every call to the row, and exempts the requests whose calls
  overlapped, as the property does. `PublicationsAreApproved` is the action
  property that only `complete_with_publication` completes a request.
* The blob store (`BlobInv`, `BatchInv`): what is recorded, or about to be, can no longer
  be undone; what a batch linked and nobody recorded can be, because the manifest
  beside it says so.
* Decisions (`DecisionInv`): the inverse a decision keeps has everything it touched as it
  was, and no other evidence has come to its items since, or the undo would be refused.
* The mode (`ModeInv`): which pairs of records a power loss may leave while a publication
  is at each of its steps (`PublishingInv`), that nonces are new (`NonceInv`), what was
  acknowledged (`SealInv`) and how revisions grow (`RevisionInv`).

`StorageProofs`

* Imports (`ImportInv`): a scan that failed or was cut off holds its number, so no
  later scan can take it and complete under it (finding 7 is the price).
* Backups (`BackupInv`): packages have ids of their own, nothing is removed while one is
  built, and once the application is up no expired package is left.
* Deletion (`DeletionInv`): what a run still lists is referenced by no row, unless it was
  imported again (`late`, finding 2); a plan is used once, because executing it moves the
  revision on. `OnlyWhatWasShown` and `CompletedDeletionsAreWhole` are action
  properties from it.
* Updates (`UpdateInv`): what a call verified and compared with the stages that exist still
  holds when it renames, since the lock lets no other call in; a stage that is
  answered is synced, or its call ended between rename and sync and none has synced
  it since (`unsettled`).
* Upgrade (`UpgradeInv`): at each step the files fit the phase the next start will read
  from whichever of the two journal files are whole.
* Diagnostics (`DiagnosticsInv`): events are in the log, dropped, or untraced unless the file
  shows damage; a rename that a power loss takes back was not answered, and
  replaced no other program's file (`RenamesAreOurs`); a temporary file is of the
  export under way or of a process that ended. It holds for every size of the log.
* Restore (`RestoreInv`): at each step the catalog, the quarantine, the staged copy and the
  blobs fit the phase that the next start will read. It is proved for any number of
  crashes and failed calls in any order, as `cutoff \/ RestoreInv`: the invariant holds
  until the rollback of a restore whose journal says validated is itself cut off
  (finding 3), and of what follows that nothing is claimed.
* The closure of a deletion (`ClosureInv`: the foreign keys hold; `HolderInv`: a piece
  of evidence is of one item). The rounds grow within a finite set, so one of them adds
  nothing: taken as the least number of members missing, without induction. What
  the round that adds nothing holds is closed and sound (`SoundRound`, `ClosedRound`), which
  is what a plan has to be; its preview counts the same rows.

`ConnectorsProofs`

* The provider's key. The invariant adds what the rows and the Keychain look like
  while a command is between two steps (`OpConsistent`), that receipts outlive their
  rows (`ReceiptsCover`) and that a starting process has every pending row on its list
  (`AllPendingSeen`). Nothing is assumed of the approvals that hold a row.
* Gmail's token (`TokenInv`): the operation on record, the account's status, the rows,
  the Keychain and the step of the command in the process agree; the row of a
  credential that the user removed stays `pending_delete` until the secret is gone.
* The mirror (`ScopeInv`): what a head or an effect says of a message as of a history id is
  right until the label changes again (`Right`); what a batch found is right as of an id
  no older than its anchor, and what it did not find is as it was at its checkpoint, or
  does not carry the label (`FetchInv`). A deleted message never changes again, so
  an effect that could not be fetched is right as well. That a finite set of history ids
  has a last one comes from the library's well-founded subset ordering
  (`MaximumExists`), without induction.
* PhotoKit (`PhotoInv`): who holds the mutex and the permits, at most one active
  enrollment, and a reconciliation's fence never ahead of the connector's.
* Commands (`CommandInv`): every handler asks for its lease before it reaches the
  network (`Guarded`, proved of all sequences), a thread that awaits an answer holds its
  lease, and a transition that publishes has drained all of them. `Commands`
  composes sequences with `\o`; the lemmas about heads and tails of joined sequences
  avoid induction.
* Their waits (`OrderInv`): what each handler may still ask for while it holds what it
  holds. Only the main thread takes the exclusive permit, holding nothing, and only the
  gate after it, so it is never part of a circle that has no waiting writer; without one
  nobody waits for a permit, and the connector's mutex is left by who has it. So a
  circle needs the writer, and is one of the two that section 4 names.

The library's induction theorems take an operator, which the provers cannot
instantiate. Where a length or a number of rounds is arbitrary, the proofs take the
least number for which a statement fails, which exists because `<` is well
founded on `Nat` (`WFMin`), and derive a contradiction.

Only model-checked, and why:

* `WaitingEnds`, the second half of `DeletionsFinish`, `NobodyIsLeftBehind` and the
  findings' liveness: they need fairness, which the provers cannot reason about.
* The components on their own for other sizes than the instances above fix: `Service`,
  `OutfitAgent` and `PhotoKitBridge`.

## 6. The plan

Modelled: the components of section 1; proved: every safety property and action property
of the passing runs, and the refinement of the publication barrier. Worth doing next:

1. Proofs of `Service`, `OutfitAgent` and `PhotoKitBridge` for every number of wishes,
   responses and frames, instead of the numbers of their instances.
2. `RestoreKeepsACatalog`, `TokenAsConnected` and `StagedAsAnswered` without their
   exceptions, once the code has none.
3. More of what is only partly modelled: backups and imports under concurrent commands,
   the requests of the receipt image downloader.

## 7. Not modelled

* Text and image decoding, HTTP framing, MIME and receipt parsing, canonical
  encodings and digests: sequential functions over data, seen as the outcomes
  their callers distinguish. So are the requests of the receipt image downloader.
* Rows' contents in lists and the encoding of cursors; a list is its order and what its
  cursor pins.
* The contracts of `core` (request and response types with their `validate`):
  shapes of data, except where a refusal changes what a component does.
* The React interface, the Vision part of the Swift bridge, build and release
  tooling, spikes.
* `StoreLock`: that a second process is kept out is an assumption of the others.
* The order of a start's recoveries among each other: they look at disjoint tables, except that the
  reconciliation of credentials comes before Gmail's recovery, and does in `Gmail`.

A third of the Rust lines are inline tests and contract types.
