----------------------------- MODULE MCBackground -----------------------------
(***************************************************************************)
(* The work the application does for itself: the durable job queue, the     *)
(* scheduler of the try-on renderer, the claims of photo analysis, the      *)
(* cases that are opened for what it found, and the lists that show what    *)
(* there is.  They share the process and no state, so a behaviour exercises *)
(* one of them and leaves the others at rest.                               *)
(***************************************************************************)
EXTENDS JobQueue, TLC

CONSTANTS
    Submissions, Tasks, MaxTicks,
    Members, Single, MaxDecisions, MaxGenerations, MaxScopeRevision, MaxSingleRevision,
    Items, Lines, Callers, Images, Readings, PoolSize, Shown, PageSize, Filters, MaxOffers, MaxListed,
    MaxRows, MaxPage, MaxWrites

VARIABLES
    feature,  \* the one that this behaviour is about
    ticks, active, wake_requested, submissions, main, task, local_only, disturbed, dropped,
    members, detection, tries, reviews, heads, work, claims, analysis, observations, newest,
    verdicts, cases, photo_revision, session,
    catalog, receipts, review, owner, revision, offered, opening, listing,
    list, sort, counters, cursor, shown, writes, steady, unseen

S == INSTANCE TryOnScheduler
       WITH Jobs <- Submissions, MaxTime <- MaxTicks, Faults <- TRUE, now <- ticks,
            jobs <- submissions
\* A scope of several photos, and with more requests a scope of one.
ScopeRevisions ==
    [scope \in {Members, Single} |->
       IF scope = Members THEN MaxScopeRevision ELSE MaxSingleRevision]
P == INSTANCE Photos
       WITH Scopes <- {Members, Single}, MaxPhotoRevision <- ScopeRevisions,
            run <- detection, attempts <- tries, task <- session

\* A detection run has a photo, as its table demands.
ASSUME ScopesAssumption ==
    \A scope \in {Members, Single} :
       IsFiniteSet(scope) /\ scope # {} /\ P!NoPhoto \notin scope

\* What the repository stores of an image and of a line: ids are compared, a distance of
\* hashes counts bits and one of colors sums three channels.
ASSUME MatchingAssumption ==
    /\ Items \subseteq Nat /\ IsFiniteSet(Items) /\ Lines \subseteq Nat /\ IsFiniteSet(Lines)
    /\ \A image \in Images : image.status = "measured" =>
         image.hash \in 0..64 /\ image.color \in 0..765
    /\ \A reading \in Readings : reading.date \in 0..2
    /\ {PoolSize, Shown, PageSize} \subseteq Nat \ {0}

\* Distances at the limits of the grades, and an image that cannot be read.
SampleImages == {[status |-> "measured", hash |-> 8, color |-> 191],
                 [status |-> "measured", hash |-> 24, color |-> 48],
                 [status |-> "corrupt", hash |-> 0, color |-> 0]}
SampleReadings == {[event |-> "purchase", date |-> 1, text |-> "a"],
                   [event |-> "return", date |-> 2, text |-> ""]}

\* A wardrobe and a receipt to offer, and more cases than a page shows.
F == INSTANCE Reconciliation
       WITH cases <- offered, Filters <- {}, MaxClock <- 1, MaxRevision <- MaxOffers
L == INSTANCE Reconciliation
       WITH cases <- offered, Items <- {}, Lines <- {}, MaxClock <- 2, MaxRevision <- MaxListed

\* The other lists.
A == INSTANCE Listings

ASSUME ListsAssumption == MaxRows \in Nat /\ MaxPage \in Nat

\* The table of dependencies is read by claim and has no writer yet, so no job has a
\* prerequisite.
NoDeps == [j \in Jobs |-> {}]

queueVars == <<now, boot, jobs, results, failures, run>>
schedulerVars ==
    <<ticks, active, wake_requested, submissions, main, task, local_only, disturbed, dropped>>
photoVars ==
    <<members, detection, tries, reviews, heads, work, claims, analysis, observations, newest,
      verdicts, cases, photo_revision, session>>
caseVars == <<catalog, receipts, review, owner, revision, offered, opening, listing>>
listVars == <<list, sort, counters, cursor, shown, writes, steady, unseen>>

InitBackground ==
    /\ feature \in {"jobs", "scheduler", "photos", "offers", "listing", "lists"}
    /\ Init /\ S!Init
    /\ P!Init /\ (feature # "photos" => members = Members)
    /\ IF feature = "offers" THEN F!Init ELSE L!Init
    /\ A!Init /\ (feature # "lists" => list = "catalog" /\ A!Listed = {})
    /\ feature # "scheduler" => ~local_only

NextBackground ==
    /\ UNCHANGED feature
    /\ \/ /\ UNCHANGED <<caseVars, listVars>>
          /\ \/ feature = "jobs" /\ Next /\ UNCHANGED <<schedulerVars, photoVars>>
             \/ feature = "scheduler" /\ S!Next /\ UNCHANGED <<queueVars, photoVars>>
             \/ feature = "photos" /\ P!Next /\ UNCHANGED <<queueVars, schedulerVars>>
       \/ /\ UNCHANGED <<queueVars, schedulerVars, photoVars>>
          /\ \/ feature = "offers" /\ F!Next /\ UNCHANGED listVars
             \/ feature = "listing" /\ L!Next /\ UNCHANGED listVars
             \/ feature = "lists" /\ A!Next /\ UNCHANGED caseVars
             \/ /\ feature \in {"offers", "listing", "lists"}  \* the user rests
                /\ UNCHANGED <<caseVars, listVars>>

SpecBackground ==
    /\ InitBackground
    /\ [][NextBackground]_<<feature, queueVars, schedulerVars, photoVars, caseVars, listVars>>

\* No try-on submission is forgotten outside the two windows the latch leaves open, and
\* never do two passes of the renderer run side by side.
WakesAreRetained == S!WakesAreRetained /\ S!OnePassAtATime

\* The counter of a detection run stays the number of photos that are done, and owner work
\* that is still to be done belongs to the decision in force.
PeopleWorkAddsUp == P!PeopleWorkAddsUp

\* A photo is matched by the crop of the person the user called the owner.
OwnersCropIsMatched == P!OwnersCropIsMatched

\* A case that is written offers what the tables hold at that moment, and what it offers
\* passes the contract of its answer.
CasesAreSound == [][feature = "offers" => F!SoundCase]_caseVars

\* A listing that reaches its last page has shown every case of its filter once, and every
\* other list shows what it holds, unless it is written to in a way its cursor cannot see.
ListingAddsUp == L!ListingAddsUp /\ [](feature = "lists" => A!PagesAddUp)

\* Handlers, task slots and photos are interchangeable.
BackgroundSymmetry ==
    Permutations(Handlers) \cup Permutations(Tasks)
      \cup Permutations(Members)
=============================================================================
