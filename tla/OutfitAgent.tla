----------------------------- MODULE OutfitAgent -----------------------------
(***************************************************************************)
(* One recommendation as the provider makes it: recommend                  *)
(* (outfit_recommendation_provider.rs) sends the transcript, answers the   *)
(* tools the model calls from the approved snapshot, and sends it again,   *)
(* until a message ends it; the transport is                               *)
(* outfit_recommendation_http.rs.                                          *)
(*                                                                         *)
(* The provider is external: what an item of its output is, is chosen when *)
(* the item is read.  A size is a number of entries; the tokens of a       *)
(* response are a small number.                                            *)
(***************************************************************************)
EXTENDS Naturals, Sequences, FiniteSets

CONSTANTS
    Items,          \* items, of the snapshot or made up
    CallIds,        \* what the provider calls its tool calls
    MaxResponses,   \* MAX_RESPONSES_CALLS_V1
    MaxToolCalls,   \* MAX_OUTFIT_TOOL_CALLS_V1
    MaxTranscript,  \* MAX_OUTFIT_TRANSCRIPT_BYTES_V1
    MaxTokens,      \* u32::MAX
    MaxOutput       \* bound: items of one output

VARIABLES
    snapshot,  \* what the user approved: the active items, the excluded ones
    run,       \* the locals of recommend
    answer,    \* what it returns
    heard,     \* history: tokens and number of the responses that were understood
    told,      \* history: the items the provider was told about
    wire       \* history: what became of the last request

vars == <<snapshot, run, answer, heard, told, wire>>

Unanswered == [code |-> "none", retryable |-> FALSE, audit |-> {}, items |-> {}]
NoUsage == [tokens |-> 0, cached |-> FALSE, tool_calls |-> 0]

Init ==
    /\ \E active, excluded \in SUBSET Items :
         snapshot = [active |-> active, excluded |-> excluded]
    /\ run = [at |-> "begin", turn |-> 0, transcript |-> <<>>, outputs |-> <<>>, read |-> 0,
              message |-> {}, usage |-> NoUsage, seen |-> {}, searched |-> FALSE,
              response_id |-> "plain", provider_id |-> "plain"]
    /\ answer = Unanswered
    /\ heard = [tokens |-> 0, responses |-> 0]
    /\ told = {} /\ wire = "idle"

At(place) == run.at = place

-----------------------------------------------------------------------------
\* Ends

\* What a response may call itself, and what an audit may hold of that; no name is plain.
safe_identifier == {"plain", "odd"}
is_bounded_identifier(id) == id # "odd"

\* The audit of the calls so far, dropped when it may not hold what it names.
audit(usage, provider_id, response_id, calls) ==
    IF ~is_bounded_identifier(provider_id) \/ ~is_bounded_identifier(response_id) THEN {}
    ELSE {[tokens |-> usage.tokens, cached |-> usage.cached, tool_calls |-> usage.tool_calls,
           calls |-> calls]}

SoFar(calls) == audit(run.usage, run.provider_id, run.response_id, calls)

ends(code, retryable, audits, items) ==
    /\ run' = [run EXCEPT !.at = "end"]
    /\ answer' = [code |-> code, retryable |-> retryable, audit |-> audits, items |-> items]

failure(code, retryable, audits) == ends(code, retryable, audits, {})

\* Every error found in a response that was understood.
fails(code) == failure(code, FALSE, SoFar(run.turn))

-----------------------------------------------------------------------------
\* The transport: one attempt, nothing is sent twice

Error(is) == [is |-> is, unknown |-> FALSE]
Lost(is) == [is |-> is, unknown |-> TRUE]

map_send_error(timeout, connect) ==
    CASE timeout -> [is |-> "timeout", unknown |-> ~connect]
      [] ~timeout /\ connect -> Error("before_send")
      [] ~timeout /\ ~connect -> Lost("outcome_unknown")

map_body_error(timeout) == Lost(IF timeout THEN "timeout" ELSE "outcome_unknown")

classify_status(status) ==
    CASE status = 401 -> Error("authentication")
      [] status = 403 -> Error("permission")
      [] status = 429 -> Error("rate_limited")
      [] status \in 400..499 \ {401, 403, 429} -> Error("request_rejected")
      [] status \in 500..599 -> Error("provider_failure")
      [] status \in 100..399 \ 200..299 -> Error("unexpected")

validate_api_key == {Error("invalid_credential")}
Refusals == validate_api_key \cup {Error("request_too_large")}

\* What is wrong with an answer before its body is read: its headers in number, size or
\* kind, its media type, its announced length.
validate_response_headers == {Error("header_limit")}
retained_header == {Error("invalid_headers")}
validate_json_content_type == {Error("invalid_headers"), Error("media_type")}
HeadErrors ==
    validate_response_headers \cup retained_header \cup validate_json_content_type
        \cup {Error("too_large")}
read_bounded_body == {Error("too_large"), Error("malformed_json")}

outcome_is_unknown(e) == e.unknown

\* Mutant: an attempt that timed out is taken for one that never left.
map_http_error_TimeoutFirst(e) ==
    CASE e.is \in {"invalid_credential", "authentication", "permission"} ->
           [code |-> "authentication", retryable |-> FALSE]
      [] e.is = "rate_limited" -> [code |-> "rate_limited", retryable |-> TRUE]
      [] e.is = "request_too_large" -> [code |-> "tool_limit", retryable |-> FALSE]
      [] e.is \in {"before_send", "timeout"} ->
           [code |-> "provider_unavailable", retryable |-> TRUE]
      [] e.is = "outcome_unknown" -> [code |-> "outcome_unknown", retryable |-> FALSE]
      [] OTHER -> [code |-> "provider_failure", retryable |-> TRUE]

map_http_error(e) ==
    CASE e.is \in {"invalid_credential", "authentication", "permission"} ->
           [code |-> "authentication", retryable |-> FALSE]
      [] e.is = "rate_limited" -> [code |-> "rate_limited", retryable |-> TRUE]
      [] e.is = "request_too_large" -> [code |-> "tool_limit", retryable |-> FALSE]
      [] outcome_is_unknown(e) -> [code |-> "outcome_unknown", retryable |-> FALSE]
      [] ~outcome_is_unknown(e) /\ e.is \in {"before_send", "timeout"} ->
           [code |-> "provider_unavailable", retryable |-> TRUE]
      [] OTHER -> [code |-> "provider_failure", retryable |-> TRUE]

\* The audit counts the responses before this call.
send_fails(e, provider_id) ==
    LET outcome == map_http_error(e) IN
    failure(outcome.code, outcome.retryable,
            audit(run.usage, provider_id, run.response_id, run.turn - 1))

-----------------------------------------------------------------------------
\* Sending

\* recommend up to its loop: the request, the snapshot and their revisions are checked.
recommend ==
    /\ At("begin")
    /\ \/ \E code \in {"tool_protocol", "stale"} : failure(code, FALSE, {})
       \/ run' = [run EXCEPT !.at = "turn", !.turn = 1] /\ UNCHANGED answer
    /\ UNCHANGED <<snapshot, heard, told, wire>>

transcript_too_long == Len(run.transcript) > MaxTranscript

build_responses_request ==
    /\ At("turn")
    /\ IF transcript_too_long
       THEN failure("tool_limit", FALSE, SoFar(run.turn - 1)) /\ UNCHANGED wire
       ELSE \/ \E e \in Refusals : send_fails(e, run.provider_id) /\ UNCHANGED wire
            \/ run' = [run EXCEPT !.at = "sent"] /\ wire' = "out" /\ UNCHANGED answer
    /\ UNCHANGED <<snapshot, heard, told>>

\* The call ends without an answer, perhaps before the request has left.
send ==
    /\ At("sent")
    /\ \E timeout, connect \in BOOLEAN :
         /\ send_fails(map_send_error(timeout, connect), run.provider_id)
         /\ wire' = IF connect THEN "idle" ELSE "out"
    /\ UNCHANGED <<snapshot, heard, told>>

\* An answer that is not accepted.  One with a bad status still names the request.
rejects ==
    /\ At("sent") /\ wire' = "answered"
    /\ \/ \E e \in HeadErrors \cup read_bounded_body : send_fails(e, run.provider_id)
       \/ \E status \in {302, 400, 401, 403, 429, 500}, id \in {"none", "plain", "odd"} :
            send_fails(classify_status(status), IF id = "none" THEN run.provider_id ELSE id)
    /\ UNCHANGED <<snapshot, heard, told>>

\* The body breaks off.
body_lost ==
    /\ At("sent")
    /\ \E timeout \in BOOLEAN : send_fails(map_body_error(timeout), run.provider_id)
    /\ UNCHANGED <<snapshot, heard, told, wire>>

-----------------------------------------------------------------------------
\* Hearing

\* Mutant: the tokens of the responses so far are replaced.
add_Replaced(usage, tokens, cached) ==
    [usage EXCEPT !.tokens = tokens, !.cached = @ \/ cached]

add(usage, tokens, cached) ==
    [usage EXCEPT !.tokens = @ + tokens, !.cached = @ \/ cached]

hears(tokens) == heard' = [tokens |-> heard.tokens + tokens, responses |-> heard.responses + 1]

\* A body that is no response of this model, or that says nothing of its usage.
parse_response_envelope(provider_id) ==
    /\ failure("tool_protocol", FALSE,
               audit(run.usage, provider_id, run.response_id, run.turn - 1))
    /\ UNCHANGED heard

understood(provider_id, response_id, tokens, cached, completed) ==
    LET usage == add(run.usage, tokens, cached) IN
    /\ hears(tokens)
    /\ IF run.usage.tokens + tokens > MaxTokens THEN failure("tool_protocol", FALSE, {})
       ELSE IF usage.cached
       THEN failure("tool_protocol", FALSE, audit(usage, provider_id, response_id, run.turn))
       ELSE IF ~completed
       THEN failure("incomplete", FALSE, audit(usage, provider_id, response_id, run.turn))
       ELSE /\ run' = [run EXCEPT !.at = "output", !.usage = usage, !.read = 0,
                           !.provider_id = provider_id, !.response_id = response_id]
            /\ UNCHANGED answer

respond ==
    /\ At("sent") /\ wire' = "answered"
    /\ \E header \in {"none", "plain", "odd"} :
         LET provider_id == IF header = "none" THEN run.provider_id ELSE header IN
         \/ parse_response_envelope(provider_id)
         \/ \E response_id \in safe_identifier, tokens \in 0..1, cached, completed \in BOOLEAN :
              understood(provider_id, response_id, tokens, cached, completed)
    /\ UNCHANGED <<snapshot, told>>

-----------------------------------------------------------------------------
\* Reading the output, one item at a time

Reading == At("output") /\ run.read < MaxOutput
Ended == run.message # {}

validate_reasoning_item ==
    /\ Reading
    /\ \/ fails("tool_protocol")
       \/ /\ ~Ended
          /\ run' = [run EXCEPT !.read = @ + 1,
                         !.transcript = Append(@, [is |-> "reasoning", call |-> {}])]
          /\ UNCHANGED answer
    /\ UNCHANGED <<snapshot, heard, told, wire>>

eligible_items == snapshot.active \ snapshot.excluded

search_wardrobe(matching) == matching \cap eligible_items

\* An outfit with a member that is not eligible is not listed.
list_saved_outfits(outfits) == UNION {o \in outfits : o \subseteq eligible_items}

\* Wear history and preferences are not configured.
execute_tool(tool, matching) ==
    CASE tool = "search_confirmed_wardrobe" -> search_wardrobe(matching)
      [] tool = "list_saved_outfits" -> list_saved_outfits({matching})
      [] tool \in {"search_wear_history", "get_style_preferences"} -> {}

Tools == {"search_confirmed_wardrobe", "search_wear_history", "get_style_preferences",
          "list_saved_outfits"}

\* Mutant: a call is taken under an id that was answered before.
parse_function_call_AnyId(id) == ~Ended

\* A well-formed call under an id of its own.
parse_function_call(id) == ~Ended /\ id \notin run.seen

function_call(id) ==
    /\ Reading
    /\ IF ~parse_function_call(id) THEN fails("tool_protocol") /\ UNCHANGED told
       ELSE IF run.usage.tool_calls >= MaxToolCalls THEN fails("tool_limit") /\ UNCHANGED told
       ELSE \/ fails("tool_protocol") /\ UNCHANGED told  \* an unknown tool, bad arguments
            \/ fails("tool_limit") /\ UNCHANGED told     \* a result that is too long
            \/ \E tool \in Tools, matching \in SUBSET Items :
                 /\ run' = [run EXCEPT !.read = @ + 1,
                              !.transcript = Append(@, [is |-> "call", call |-> {id}]),
                              !.outputs = Append(@, [is |-> "output", call |-> {id}]),
                              !.seen = @ \cup {id}, !.usage.tool_calls = @ + 1,
                              !.searched = @ \/ tool = "search_confirmed_wardrobe"]
                 /\ told' = told \cup execute_tool(tool, matching)
                 /\ UNCHANGED answer
    /\ UNCHANGED <<snapshot, heard, wire>>

\* A message ends the run once the output is read; it may not follow a call.
parse_terminal_message ==
    /\ Reading
    /\ \/ \E code \in {"tool_protocol", "malformed_output"} : fails(code)
       \/ /\ ~Ended /\ run.outputs = <<>>
          /\ \E says \in {"refusal", "output"}, items \in SUBSET Items :
               run' = [run EXCEPT !.read = @ + 1,
                                  !.message = {[says |-> says, items |-> items]}]
          /\ UNCHANGED answer
    /\ UNCHANGED <<snapshot, heard, told, wire>>

-----------------------------------------------------------------------------
\* The end of an output

\* Mutant: an item that is excluded is accepted.
validate_outfit_proposal_Excluded(items) ==
    {"invalid_contract", "stale_catalog_revision", "stale_outfit_revision"}
        \cup IF ~(items \subseteq snapshot.active) THEN {"inactive_item"}
             ELSE {"duplicate_item", "incompatible_items", "constraint_assessment_mismatch", "valid"}

\* The contract and the revisions are checked first, then the items, and the rules of an
\* outfit last: what may come of a proposal of these items.
validate_outfit_proposal(items) ==
    {"invalid_contract", "stale_catalog_revision", "stale_outfit_revision"}
        \cup IF ~(items \subseteq snapshot.active) THEN {"inactive_item"}
             ELSE IF items \cap snapshot.excluded # {} THEN {"excluded_item"}
             ELSE {"duplicate_item", "incompatible_items", "constraint_assessment_mismatch", "valid"}

map_validation_error(error) ==
    CASE error = "invalid_contract" -> "malformed_output"
      [] error \in {"stale_catalog_revision", "stale_outfit_revision"} -> "stale"
      [] error \in {"inactive_item", "excluded_item", "duplicate_item"} -> "grounding"
      [] error \in {"incompatible_items", "constraint_assessment_mismatch"} -> "constraint"

concludes(message) ==
    LET audits == SoFar(run.turn) IN
    IF audits = {} THEN failure("tool_protocol", FALSE, {})
    ELSE IF message.says = "refusal" THEN ends("refused", FALSE, audits, {})
    ELSE IF ~run.searched THEN failure("tool_protocol", FALSE, audits)
    ELSE \E verdict \in validate_outfit_proposal(message.items) :
           IF verdict = "valid" THEN ends("completed", FALSE, audits, message.items)
           ELSE failure(map_validation_error(verdict), FALSE, audits)

\* Mutant: the results are not added to the transcript.
continues_Unanswered ==
    run' = [run EXCEPT !.at = "turn", !.turn = @ + 1, !.outputs = <<>>]

\* The results follow what the model said, and all of it is sent again.
continues ==
    run' = [run EXCEPT !.at = "turn", !.turn = @ + 1, !.outputs = <<>>,
                       !.transcript = @ \o run.outputs]

finish ==
    /\ At("output")
    /\ IF Ended THEN \E message \in run.message : concludes(message)
       ELSE IF run.outputs = <<>> THEN fails("tool_protocol")
       ELSE IF Len(run.transcript \o run.outputs) > MaxTranscript \/ run.turn = MaxResponses
       THEN fails("tool_limit")
       ELSE continues /\ UNCHANGED answer
    /\ UNCHANGED <<snapshot, heard, told, wire>>

Next ==
    \/ recommend \/ build_responses_request \/ send \/ rejects \/ body_lost \/ respond
    \/ validate_reasoning_item \/ parse_terminal_message \/ finish
    \/ \E id \in CallIds : function_call(id)

Spec == Init /\ [][Next]_vars

-----------------------------------------------------------------------------
\* Whenever the transcript is sent, each call in it has an id of its own and is followed
\* by its one result, and nothing else is a result.
CallsArePaired ==
    At("sent") =>
      LET calls == {i \in DOMAIN run.transcript : run.transcript[i].is = "call"}
          outputs == {i \in DOMAIN run.transcript : run.transcript[i].is = "output"}
          Same(i, j) == run.transcript[i].call = run.transcript[j].call
      IN /\ \A i, j \in calls : Same(i, j) => i = j
         /\ \A i \in calls : Cardinality({j \in outputs : j > i /\ Same(i, j)}) = 1
         /\ Cardinality(calls) = Cardinality(outputs)

\* An audit that is given adds up to what was heard and done, over every turn and not in
\* the last one.
AuditAddsUp ==
    \A a \in answer.audit :
      /\ a.tokens = heard.tokens /\ a.calls = heard.responses
      /\ a.tool_calls = Cardinality({i \in DOMAIN run.transcript : run.transcript[i].is = "call"})

\* Only items that are active and not excluded are told to the provider or taken from it.
ApprovedItemsOnly == told \cup answer.items \subseteq eligible_items

\* A request that may have been carried out unanswered is reported as such and never as
\* worth a retry; no other is.
UnknownIsAdmitted ==
    At("end") => (answer.code = "outcome_unknown" <=> wire = "out")

\* Together: what the window is told of a recommendation is what happened.
AnswerIsHonest == CallsArePaired /\ AuditAddsUp /\ ApprovedItemsOnly /\ UnknownIsAdmitted
=============================================================================
