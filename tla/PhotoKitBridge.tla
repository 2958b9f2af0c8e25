---------------------------- MODULE PhotoKitBridge ----------------------------
(***************************************************************************)
(* The way of a request to Apple's Photos and of its answer back            *)
(* (native/photokit: BridgeState.swift, PhotoKitCoordinator.swift, and      *)
(* wardrobe-platform/src/photokit_native.rs).                               *)
(*                                                                         *)
(* Five threads meet.  The caller sends a request to the worker and takes    *)
(* events from a channel of two places.  The worker owns the bridge's        *)
(* handle, sends it the command, pulls frames from its queue and passes them  *)
(* on; it ends with the first request that fails.  The main thread runs what  *)
(* was dispatched to it.  Photos calls back with the bytes of a resource and  *)
(* with its end; a callback whose bytes have no room in the queue waits on    *)
(* the handle's condition.  An operation is stopped by a cancellation, by a   *)
(* failure or by its end, whichever comes first.                             *)
(*                                                                         *)
(* A frame is the number of its request, what it is, and its index.  The      *)
(* worker polls the queue with a timeout of a second, so it needs no wake-up. *)
(***************************************************************************)
EXTENDS Naturals, Sequences

CONSTANTS
    Items,       \* albums or assets of a listing, and chunks of a resource
    MaxPending,  \* maximumPendingBinaryBytes, in chunks
    Places,      \* of the channel to the caller: 2 in the code
    MaxRequests  \* bound: requests of the caller

Kinds == {"authorize", "list", "enumerate", "stream"}

VARIABLES
    caller,     \* the thread that calls the port
    inbox,      \* requests sent to the worker and not taken
    worker,     \* the worker thread
    channel,    \* the events of the caller's request
    lifecycle,  \* of the handle
    frames,     \* the queue of the handle
    operation,  \* the one NativeOperation, and its RequestCancellation
    main,       \* what the main thread is at
    dispatched, \* what waits for the main thread
    photos,     \* chunks that Photos still has for its request
    callback,   \* the thread on which Photos calls back
    requests    \* how many requests there were

rust == <<caller, inbox, worker, channel, requests>>
swift == <<lifecycle, frames, operation, main, dispatched, photos, callback>>
vars == <<rust, swift>>

Idle == [at |-> "idle"]

\* How many frames an operation has before its last: an authorization is one.
count(kind) == IF kind = "authorize" THEN 1 ELSE Items

NoOperation == [request |-> 0, kind |-> "none", terminal |-> TRUE, cancelled |-> FALSE,
                accepted |-> 0, cancellation |-> "none", listed |-> FALSE]

Init ==
    /\ caller = Idle /\ inbox = <<>> /\ worker = Idle /\ channel = <<>> /\ requests = 0
    /\ lifecycle = "open" /\ frames = <<>> /\ operation = NoOperation
    /\ main = Idle /\ dispatched = {} /\ photos = 0 /\ callback = Idle

Frame(r, what, n) == [request |-> r, what |-> what, index |-> n]
Terminals == {"completed", "failed"}

-----------------------------------------------------------------------------
\* NativeOperation and BridgeHandle

isStopped == operation.terminal \/ operation.cancelled

pendingBinary == Len(SelectSeq(frames, LAMBDA f : f.what = "chunk"))

\* Whoever waits on the condition of the handle looks again.
Broadcast(c) == IF c.at = "waiting" THEN [c EXCEPT !.at = "enqueue"] ELSE c

\* finish: the first of them ends the operation, and its frame is the last one.
finish(op, what, n) ==
    /\ operation' = [op EXCEPT !.terminal = TRUE, !.listed = FALSE]
    /\ frames' = IF op.terminal \/ lifecycle # "open" THEN frames
                 ELSE Append(frames, Frame(op.request, what, n))

\* cancel and fail: without a request of Photos the operation ends at once; one with a
\* number is cancelled on the main thread first; one without waits for its number.
stopAfterCancellation ==
    IF isStopped
    THEN UNCHANGED <<operation, frames, dispatched>>
    ELSE CASE operation.cancellation = "none" ->
                finish(operation, "failed", 0) /\ UNCHANGED dispatched
           [] operation.cancellation = "installed" ->
                /\ operation' = [operation EXCEPT !.cancelled = TRUE, !.cancellation = "pending"]
                /\ UNCHANGED <<frames, dispatched>>
           [] operation.cancellation = "registered" ->
                /\ operation' = [operation EXCEPT !.cancelled = TRUE]
                /\ dispatched' = dispatched \cup {"cancel_request"}
                /\ UNCHANGED frames

\* emitControl, for an operation that was not stopped.
emitControl(what, n) ==
    frames' = IF lifecycle = "open" THEN Append(frames, Frame(operation.request, what, n))
              ELSE frames

\* An operation that has ended lets those go who wait on the condition.
Stopped == IF operation'.terminal THEN Broadcast(callback) ELSE callback

-----------------------------------------------------------------------------
\* The caller: MacOsPhotoKitNativePort

\* start: the request goes to the worker, if there is one, with a channel of its own.
start(kind) ==
    /\ caller.at = "idle" /\ requests < MaxRequests /\ worker.at # "ended"
    /\ requests' = requests + 1
    /\ caller' = [at |-> "receiving", request |-> requests', kind |-> kind, got |-> <<>>,
                  terminal |-> "none"]
    /\ inbox' = Append(inbox, [request |-> requests', kind |-> kind])
    /\ channel' = <<>>
    /\ UNCHANGED <<worker, swift>>

\* The caller returns and drops its end of the channel.
Return(answer) == caller' = [at |-> "idle", request |-> caller.request, kind |-> caller.kind,
                             got |-> caller.got, answer |-> answer]

\* What the closure of a call makes of an event: it takes it, knows how the operation has
\* ended, or returns with an error.
authorization(e) ==
    CASE e.what = "item" -> IF caller.got = <<>> THEN "take" ELSE "invalid"
      [] e.what = "completed" -> "complete"
      [] OTHER -> "unavailable"

list_regular_albums(e) ==
    CASE e.what = "item" -> "take"
      [] e.what = "completed" -> IF e.index = Len(caller.got) THEN "complete" ELSE "miscounted"
      [] OTHER -> "unavailable"

enumerate_regular_album(e) ==
    CASE e.what = "item" ->
           IF \E i \in 1..Len(caller.got) : caller.got[i].index = e.index THEN "invalid" ELSE "take"
      [] e.what = "completed" -> IF e.index = Len(caller.got) THEN "complete" ELSE "incomplete"
      [] OTHER -> "incomplete"

transfer_resource(e) ==
    CASE e.what = "chunk" -> "take"
      [] e.what = "completed" -> IF e.index = Len(caller.got) THEN "complete" ELSE "invalid"
      [] OTHER -> "incomplete"

consume(e) ==
    CASE caller.kind = "authorize" -> authorization(e)
      [] caller.kind = "list" -> list_regular_albums(e)
      [] caller.kind = "enumerate" -> enumerate_regular_album(e)
      [] caller.kind = "stream" -> transfer_resource(e)

\* receive_all hands an event to the caller's closure; the end of the events is Finished.
receive_all ==
    /\ caller.at = "receiving" /\ channel # <<>>
    /\ channel' = Tail(channel)
    /\ LET e == Head(channel)
       IN CASE e.what = "finished" -> Return(caller.terminal)
            [] e.what = "error" -> Return("error")
            [] OTHER ->
                 CASE consume(e) = "take" -> caller' = [caller EXCEPT !.got = Append(@, e)]
                   [] consume(e) \in {"invalid", "unavailable"} -> Return(consume(e))
                   [] OTHER -> caller' = [caller EXCEPT !.terminal = consume(e)]
    /\ UNCHANGED <<inbox, worker, requests, swift>>

\* The sink refuses an asset or the bytes.
sink_rejects ==
    /\ caller.at = "receiving" /\ channel # <<>>
    /\ Head(channel).what \in {"item", "chunk"} /\ caller.kind \in {"enumerate", "stream"}
    /\ Return("rejected")
    /\ UNCHANGED <<inbox, worker, channel, requests, swift>>

\* The other end is gone: so is the worker.
hung_up ==
    /\ caller.at = "receiving" /\ channel = <<>> /\ worker.at = "ended"
    /\ Return("unavailable")
    /\ UNCHANGED <<inbox, worker, channel, requests, swift>>

-----------------------------------------------------------------------------
\* The worker: OwnedHandle

listening == caller.at = "receiving" /\ caller.request = worker.request
room == Len(channel) < Places

\* The worker takes a request and sends the command: the operation is dispatched to the
\* main thread.
take_request ==
    /\ worker.at = "idle" /\ inbox # <<>>
    /\ worker' = [at |-> "pumping", request |-> Head(inbox).request, kind |-> Head(inbox).kind,
                  next |-> 0]
    /\ inbox' = Tail(inbox)
    /\ operation' = [request |-> Head(inbox).request, kind |-> Head(inbox).kind,
                     terminal |-> FALSE, cancelled |-> FALSE, accepted |-> 0,
                     cancellation |-> "none", listed |-> TRUE]
    /\ dispatched' = dispatched \cup {"execute"}
    /\ UNCHANGED <<caller, channel, requests, lifecycle, frames, main, photos, callback>>

\* A frame of this request, of a kind that its operation has, and a chunk in its turn.
decode_control(f) == f.what # "chunk" /\ (f.what = "item" => worker.kind # "stream")
decode_binary(f) == f.what = "chunk" /\ worker.kind = "stream" /\ f.index = worker.next
decodes(f) == f.request = worker.request /\ (decode_control(f) \/ decode_binary(f))

\* The frame that OwnedHandle::next gets, the next in the order of the queue.
pulled == Head(frames)

\* next, and the decoding of the frame.
next ==
    /\ worker.at = "pumping" /\ frames # <<>>
    /\ frames' = Tail(frames)
    /\ callback' = Broadcast(callback)
    /\ worker' = IF decodes(pulled)
                 THEN [at |-> "sending", request |-> worker.request, kind |-> worker.kind,
                       next |-> worker.next + (IF pulled.what = "chunk" THEN 1 ELSE 0),
                       event |-> pulled]
                 ELSE [at |-> "finishing", request |-> worker.request, event |-> "error"]
    /\ UNCHANGED <<caller, inbox, channel, requests, lifecycle, operation, main, dispatched, photos>>

\* The event goes to the caller; a terminal one ends the request.
send_event ==
    /\ worker.at = "sending" /\ listening /\ room
    /\ channel' = Append(channel, worker.event)
    /\ worker' = IF worker.event.what \in Terminals
                 THEN [at |-> "finishing", request |-> worker.request, event |-> "finished"]
                 ELSE [at |-> "pumping", request |-> worker.request, kind |-> worker.kind,
                       next |-> worker.next]
    /\ UNCHANGED <<caller, inbox, requests, swift>>

\* The caller no longer listens, or the ten minutes are over: the operation is cancelled.
cancel ==
    /\ \/ worker.at = "sending" /\ ~listening
       \/ worker.at = "pumping"
    /\ stopAfterCancellation
    /\ callback' = Stopped
    /\ worker' = [at |-> "finishing", request |-> worker.request, event |-> "error"]
    /\ UNCHANGED <<caller, inbox, channel, requests, lifecycle, main, photos>>

\* Finished: the worker goes on when the request succeeded and its caller was told so.
finish_request ==
    /\ worker.at = "finishing" /\ (listening => room)
    /\ channel' = IF listening THEN Append(channel, Frame(worker.request, worker.event, 0))
                  ELSE channel
    /\ worker' = IF listening /\ worker.event = "finished" THEN Idle ELSE [at |-> "dropping"]
    /\ UNCHANGED <<caller, inbox, requests, swift>>

\* The port is dropped: Shutdown ends the worker.
shutdown ==
    /\ caller.at = "idle" /\ worker.at = "idle" /\ inbox = <<>>
    /\ worker' = [at |-> "dropping"]
    /\ UNCHANGED <<caller, inbox, channel, requests, swift>>

\* The handle is dropped: quiesce closes it, empties the queue and cancels the operation,
quiesce ==
    /\ worker.at = "dropping"
    /\ lifecycle' = "quiescing"
    /\ worker' = [at |-> "quiescing"]
    /\ UNCHANGED <<caller, inbox, channel, requests, main, photos>>
    /\ IF isStopped
       THEN /\ frames' = <<>> /\ callback' = Broadcast(callback)
            /\ UNCHANGED <<operation, dispatched>>
       ELSE /\ frames' = <<>> /\ callback' = Broadcast(callback)
            /\ operation' = [operation EXCEPT !.cancelled = TRUE,
                 !.terminal = operation.cancellation = "none",
                 !.listed = operation.cancellation # "none",
                 !.cancellation = IF @ = "installed" THEN "pending" ELSE @]
            /\ dispatched' = dispatched \cup
                 (IF operation.cancellation = "registered" THEN {"cancel_request"} ELSE {})

\* and it is destroyed when no operation is left, or left alone after ten seconds.
destroy ==
    /\ worker.at = "quiescing"
    /\ worker' = [at |-> "ended"]
    /\ lifecycle' = IF operation.listed THEN "quiescing" ELSE "destroyed"
    /\ UNCHANGED <<caller, inbox, channel, requests, frames, operation, main, dispatched, photos,
                   callback>>

-----------------------------------------------------------------------------
\* The main thread: PhotoKitCoordinator

\* execute: nothing for an operation that was stopped before.
execute ==
    /\ main.at = "idle" /\ "execute" \in dispatched
    /\ dispatched' = dispatched \ {"execute"}
    /\ main' = IF isStopped THEN Idle
               ELSE [at |-> IF operation.kind = "stream" THEN "install" ELSE "emitting",
                     left |-> count(operation.kind)]
    /\ UNCHANGED <<rust, lifecycle, frames, operation, photos, callback>>

\* Photos is not available, or what was asked for is not there; for an authorization this
\* is the answer of the user's that never comes.
execute_fails ==
    /\ main.at \in {"emitting", "install"} /\ main.left = count(operation.kind)
    /\ main' = Idle
    /\ \/ stopAfterCancellation /\ callback' = Stopped
       \/ operation.kind = "authorize" /\ UNCHANGED <<operation, frames, dispatched, callback>>
    /\ UNCHANGED <<rust, lifecycle, photos>>

\* The albums, the assets or the authorization, and then the end.
emit ==
    /\ main.at = "emitting"
    /\ IF isStopped
       THEN main' = Idle /\ UNCHANGED <<frames, operation>>
       ELSE IF main.left > 0
       THEN /\ emitControl("item", count(operation.kind) - main.left)
            /\ main' = [main EXCEPT !.left = @ - 1]
            /\ UNCHANGED operation
       ELSE finish(operation, "completed", count(operation.kind)) /\ main' = Idle
    /\ callback' = Stopped
    /\ UNCHANGED <<rust, lifecycle, dispatched, photos>>

\* requestResource: how to cancel is installed, unless the operation was stopped,
install_cancellation ==
    /\ main.at = "install"
    /\ IF isStopped
       THEN main' = Idle /\ UNCHANGED operation
       ELSE /\ operation' = [operation EXCEPT !.cancellation = "installed"]
            /\ main' = [at |-> "request"]
    /\ UNCHANGED <<rust, lifecycle, frames, dispatched, photos, callback>>

\* the data is requested,
request_data ==
    /\ main.at = "request"
    /\ photos' = Items
    /\ callback' = [at |-> "returned", request |-> operation.request]
    /\ main' = [at |-> "register", request |-> operation.request]
    /\ UNCHANGED <<rust, lifecycle, frames, operation, dispatched>>

\* or Photos throws: a pending cancellation ends the operation, or the failure does.
request_throws ==
    /\ main.at = "request"
    /\ finish(operation, "failed", 0)
    /\ main' = Idle
    /\ callback' = Stopped
    /\ UNCHANGED <<rust, lifecycle, dispatched, photos>>

\* and the number of the request registered: a cancellation that was pending is done now.
\* The operation may have come to its end meanwhile, and the next one begun.
register ==
    /\ main.at = "register"
    /\ main' = Idle
    /\ IF operation.request = main.request /\ operation.cancellation = "pending"
       THEN finish(operation, "failed", 0) /\ photos' = 0
       ELSE /\ operation' = IF operation.request = main.request
                            THEN [operation EXCEPT !.cancellation = "registered"] ELSE operation
            /\ UNCHANGED <<frames, photos>>
    /\ callback' = Stopped
    /\ UNCHANGED <<rust, lifecycle, dispatched>>

\* cancel(requestID:completion:) when it was dispatched.
cancel_request ==
    /\ main.at = "idle" /\ "cancel_request" \in dispatched
    /\ dispatched' = dispatched \ {"cancel_request"}
    /\ photos' = 0
    /\ finish(operation, "failed", 0)
    /\ callback' = Stopped
    /\ UNCHANGED <<rust, lifecycle, main>>

-----------------------------------------------------------------------------
\* Photos calls back.  The callbacks of a request come one at a time.

\* acceptCallbackBytes: the chunk has its index before it has its place.
acceptCallbackBytes ==
    /\ callback.at = "returned" /\ photos > 0
    /\ IF isStopped
       THEN UNCHANGED <<operation, callback>>
       ELSE /\ operation' = [operation EXCEPT !.accepted = @ + 1]
            /\ callback' = [callback EXCEPT !.at = "enqueue"]
    /\ photos' = photos - 1
    /\ UNCHANGED <<rust, lifecycle, frames, main, dispatched>>

\* What ends a wait for room.
gives_up == lifecycle # "open" \/ isStopped

\* enqueueBinary
enqueueBinary ==
    /\ callback.at = "enqueue"
    /\ IF gives_up
       THEN callback' = [callback EXCEPT !.at = "returned"] /\ UNCHANGED frames
       ELSE IF pendingBinary >= MaxPending
       THEN callback' = [callback EXCEPT !.at = "waiting"] /\ UNCHANGED frames
       ELSE /\ frames' = Append(frames, Frame(operation.request, "chunk", operation.accepted - 1))
            /\ callback' = [callback EXCEPT !.at = "returned"]
    /\ UNCHANGED <<rust, lifecycle, operation, main, dispatched, photos>>

\* The completion handler of the request: it looks whether the operation was stopped,
completionHandler ==
    /\ callback.at = "returned" /\ photos = 0
    /\ callback' = IF isStopped THEN Idle ELSE [callback EXCEPT !.at = "completing"]
    /\ UNCHANGED <<rust, lifecycle, frames, operation, main, dispatched, photos>>

\* and ends it; a cancellation may have come in between.
complete ==
    /\ callback.at = "completing"
    /\ finish(operation, "completed", operation.accepted)
    /\ callback' = Idle
    /\ UNCHANGED <<rust, lifecycle, main, dispatched, photos>>

(* Mutant: an error after the first bytes counts as the end of the bytes.  *)
transfer_fails_Completes ==
    /\ callback.at = "returned" /\ ~isStopped
    /\ IF operation.accepted > 0
       THEN finish(operation, "completed", operation.accepted) /\ UNCHANGED dispatched
       ELSE stopAfterCancellation
    /\ photos' = 0
    /\ callback' = Idle
    /\ UNCHANGED <<rust, lifecycle, main>>

\* Photos gives up on the transfer, with an error, at any time.
transfer_fails ==
    /\ callback.at = "returned" /\ ~isStopped
    /\ stopAfterCancellation
    /\ photos' = 0
    /\ callback' = Idle
    /\ UNCHANGED <<rust, lifecycle, main>>

Caller == receive_all \/ sink_rejects \/ hung_up
Worker == take_request \/ next \/ send_event \/ cancel \/ finish_request \/ quiesce \/ destroy
Main ==
    \/ execute \/ execute_fails \/ emit \/ install_cancellation \/ request_data
    \/ request_throws \/ register \/ cancel_request
Callback ==
    \/ acceptCallbackBytes \/ enqueueBinary \/ completionHandler \/ complete \/ transfer_fails

Next == (\E kind \in Kinds : start(kind)) \/ shutdown \/ Caller \/ Worker \/ Main \/ Callback

\* The threads get on; the user need not answer and Photos need not call back.
Spec ==
    /\ Init /\ [][Next]_vars
    /\ WF_vars(Caller) /\ WF_vars(Worker) /\ WF_vars(Main)
    /\ WF_vars(enqueueBinary) /\ WF_vars(complete)

-----------------------------------------------------------------------------
\* What a caller is told is complete (receive_all) is all that the request asked for, of this
\* request and in its order, however the transfer was cancelled, cut off or overtaken by an
\* earlier request's frames.
AnswersAreWhole ==
    caller.at = "idle" /\ "answer" \in DOMAIN caller /\ caller.answer = "complete"
      => /\ Len(caller.got) = count(caller.kind)
         /\ \A i \in 1..count(caller.kind) :
              caller.got[i].request = caller.request /\ caller.got[i].index = i - 1

\* A caller has its answer, no callback waits for room, and what was asked to stop has.
quiet ==
    /\ caller.at = "idle" /\ callback.at # "waiting"
    /\ operation.cancelled => operation.terminal

\* Nobody is left behind: whatever is cancelled or fails, and in whatever order, a caller
\* gets its answer, a callback of Photos that waits for room (enqueueBinary) is let go, and
\* an operation asked to stop (stopAfterCancellation) ends.
NobodyIsLeftBehind == ~quiet ~> quiet
=============================================================================
