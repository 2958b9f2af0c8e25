----------------------------- MODULE MCConnectors -----------------------------
(***************************************************************************)
(* The connectors and their secrets: the provider's key, the refresh token *)
(* of the Gmail account, the mirror of a Gmail scope, the PhotoKit album,  *)
(* and the commands that reach them.  The key and the token share          *)
(* credential_references, the Keychain and delete_credential_v1, which     *)
(* takes either: it is an action of Credentials and of Gmail.  Otherwise   *)
(* no command changes what belongs to two of them, so a behaviour          *)
(* exercises one; the application's starts are common.                     *)
(***************************************************************************)
EXTENDS Credentials, TLC

CONSTANTS Messages, MaxChanges, Assets, MaxEnrollments, MaxFence, Slots, Runtime

ASSUME SlotsAssumption == Slots \in Nat

\* The runtime has a worker thread for the asynchronous commands.
ASSUME RuntimeAssumption == Runtime \in Nat \ {0}

VARIABLES
    feature,  \* the one that this behaviour is about
    status, account, tokens, operation, reserved, answers, removals, token_keychain, grants,
    local, pc,
    log, horizon, scope, checkpoint, observations, availability, members, collection,
    enrollments, connector, heads, materials, files, root_keys, intents, session, sync,
    command, mutex, readers, writer, disturbed,
    local_only, changing, thread

T == INSTANCE Gmail
       WITH rows <- tokens, receipts <- answers, keychain <- token_keychain
G == INSTANCE GmailSync WITH heads <- availability, sync <- collection
K == INSTANCE PhotoKit WITH keychain <- root_keys
C == INSTANCE Commands WITH transitioning <- changing

keyVars == <<rows, deleter, receipts, keychain, op, startup, pending, saved, approved>>
tokenVars ==
    <<status, account, tokens, operation, reserved, answers, removals, token_keychain, grants, local,
      pc>>
scopeVars ==
    <<log, horizon, scope, checkpoint, observations, availability, members, collection>>
photoVars ==
    <<enrollments, connector, heads, materials, files, root_keys, intents, session, sync,
      command, mutex, readers, writer, disturbed>>
commandVars == <<local_only, changing, thread>>
allVars == <<feature, boots, keyVars, tokenVars, scopeVars, photoVars, commandVars>>

InitConnectors ==
    /\ feature \in {"key", "token", "scope", "photos", "commands"}
    /\ Init /\ T!Init /\ G!Init /\ K!Init /\ C!CommandsInit
    /\ feature # "token" => ~local
    /\ feature # "scope" => scope = "label"
    /\ feature # "commands" => local_only

NextConnectors ==
    /\ UNCHANGED feature
    /\ \/ /\ UNCHANGED commandVars
          /\ \/ feature = "key" /\ Next /\ UNCHANGED <<tokenVars, scopeVars, photoVars>>
             \/ feature = "token" /\ T!Next /\ UNCHANGED <<keyVars, scopeVars, photoVars>>
             \/ feature = "scope" /\ G!Next /\ UNCHANGED <<boots, keyVars, tokenVars, photoVars>>
             \/ feature = "photos" /\ K!Next /\ UNCHANGED <<boots, keyVars, tokenVars, scopeVars>>
       \/ /\ feature = "commands"
          /\ UNCHANGED <<boots, keyVars, tokenVars, scopeVars, photoVars>>
          /\ C!CommandsNext \/ UNCHANGED commandVars  \* what is stuck stays stuck

SpecConnectors == InitConnectors /\ [][NextConnectors]_allVars

\* A connected Gmail account has its token in the Keychain and an active row for it, unless
\* the user removed that credential, and once nothing is under way, no other token and no
\* other row is left.
TokenAsConnected == T!ConnectedHasToken /\ T!NoTokenLeftBehind

\* A disconnection is reported as revoked only when the account's grant is dead.
RevocationIsHonest == T!RevocationIsHonest

\* With a checkpoint, a Gmail scope is right about every message whose label has not
\* changed since, whatever changed while its batches were collected.
Synced == G!Synced

\* A photo shown as available belongs to the enrollment in force and its blob is stored, and
\* every root key in the Keychain is named by an enrollment or by an intent to delete it.
EnrollmentsAreReal == K!EnrollmentsAreReal

\* A reconciliation publishes nothing into an enrollment that was replaced, disabled or
\* deleted from since it began.
NothingStaleIsPublished == K!NothingStaleIsPublished

\* A command or a task leaves the process only under an outbound lease and never in the
\* local-only mode.
SendsAreLeased == C!SendsAreLeased

\* Threads wait for one another without end only in the two ways that are known.
DeadlocksAreKnown == C!DeadlocksAreKnown

\* Assets are interchangeable.
ConnectorSymmetry == Permutations(Assets)
=============================================================================
