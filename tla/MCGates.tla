----------------------------- MODULE MCGates -------------------------------
(***************************************************************************)
(* What a command may have to wait for: the two gates (the publication     *)
(* barrier and the outbound authority, each with a mutex and a condition   *)
(* variable of its own) and the bridge to Photos; and what a command is    *)
(* answered, the provider's part of it too.  A behaviour exercises one of  *)
(* them.                                                                   *)
(***************************************************************************)
EXTENDS Maintenance, OutboundAuthority

VARIABLES
    feature,  \* the one that this behaviour is about
    caller, inbox, worker, channel, lifecycle, frames, operation, main, dispatched, photos,
    callback, requests,
    revisions, receipts, wish, call, granted,
    approved, run, answer, heard, told, wire

\* Three requests, each for two things, and room for one chunk.
B == INSTANCE PhotoKitBridge WITH Items <- 2, MaxPending <- 1, Places <- 2, MaxRequests <- 3

\* Two wishes, each for any command, and two receipts.
S == INSTANCE Service WITH MaxWishes <- 2, MaxReceipts <- 2

\* One item, in the snapshot or not; three responses, two tool calls, and two items read of
\* a response.
A == INSTANCE OutfitAgent
       WITH Items <- {1}, CallIds <- {1, 2}, MaxResponses <- 3, MaxToolCalls <- 2,
            MaxTranscript <- 4, MaxTokens <- 1, MaxOutput <- 2, snapshot <- approved

agentVars == <<approved, run, answer, heard, told, wire>>
serviceVars == <<revisions, receipts, wish, call, granted>>
bridgeVars ==
    <<caller, inbox, worker, channel, lifecycle, frames, operation, main, dispatched, photos,
      callback, requests>>
barrierVars == <<readers, writer_active, writers_waiting, pc>>

InitGates ==
    /\ feature \in {"barrier", "authority", "bridge", "service", "agent"}
    /\ Init /\ AuthorityInit
    /\ feature # "authority" => snapshot = FailClosedSnapshot(0)
    /\ B!Init /\ S!Init /\ A!Init
    /\ feature # "agent" => approved = [active |-> {}, excluded |-> {}]

NextGates ==
    /\ UNCHANGED feature
    /\ \/ /\ UNCHANGED <<bridgeVars, serviceVars, agentVars>>
          /\ \/ feature = "barrier" /\ Next /\ UNCHANGED authorityVars
             \/ feature = "authority" /\ AuthorityNext /\ UNCHANGED barrierVars
       \/ feature = "bridge" /\ B!Next
          /\ UNCHANGED <<barrierVars, authorityVars, serviceVars, agentVars>>
       \/ feature = "service" /\ S!Next
          /\ UNCHANGED <<barrierVars, authorityVars, bridgeVars, agentVars>>
       \/ feature = "agent" /\ A!Next
          /\ UNCHANGED <<barrierVars, authorityVars, bridgeVars, serviceVars>>

allVars == <<feature, barrierVars, authorityVars, bridgeVars, serviceVars, agentVars>>

Bridge(Step) ==
    /\ feature = "bridge" /\ Step
    /\ UNCHANGED <<feature, barrierVars, authorityVars, serviceVars, agentVars>>

\* The threads of the bridge get on; the user need not answer, nor Photos call back.
SpecGates ==
    /\ InitGates /\ [][NextGates]_allVars
    /\ Fairness /\ AuthorityFairness
    /\ WF_allVars(Bridge(B!Caller)) /\ WF_allVars(Bridge(B!Worker)) /\ WF_allVars(Bridge(B!Main))
    /\ WF_allVars(Bridge(B!enqueueBinary)) /\ WF_allVars(Bridge(B!complete))

\* Nothing that waits behind the barrier, for a transition or for Photos waits for ever.
WaitingEnds == MaintenanceProgress /\ TransitionEnds /\ B!NobodyIsLeftBehind

\* An album or a picture that Photos is said to have given is all there; and what a command
\* is answered is true: a wish is granted once, however often it is tried; a recommendation
\* says what was asked of the provider, heard from it and taken.
AnswersAreWhole == B!AnswersAreWhole /\ S!WishesAreGrantedOnce /\ A!AnswerIsHonest
=============================================================================
