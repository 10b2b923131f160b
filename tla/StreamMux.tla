------------------------------ MODULE StreamMux ------------------------------
(***************************************************************************)
(* One streaming request: the provider adapter, the heartbeat producer,    *)
(* the multiplexer fetch_response_stream (src/response.py 377-494) and the *)
(* first-chunk wrapper error_handling_wrapper (src/utils.py 432-537).      *)
(*                                                                         *)
(* asyncio runs everything on one thread; a step of this module is the     *)
(* code between two suspension points.  The adapter's __anext__ and the    *)
(* heartbeat queue's get() run as Tasks of their own, so they complete     *)
(* while the multiplexer is suspended at a yield or in asyncio.wait.  An   *)
(* adapter event is abstracted to its kind: an SSE text line without or    *)
(* with the characters "[DONE]" in its content, the error dict of          *)
(* check_response, the terminator "data: [DONE]", and "eof" for the        *)
(* StopAsyncIteration after the adapter's last event.                      *)
(***************************************************************************)
EXTENDS Integers, Sequences, FiniteSets

\* Sequences of at most n elements of S.
UpTo(S, n) == UNION {[1..k -> S] : k \in 0..n}

CONSTANTS
    TextKinds,  \* kinds of text line the adapter may emit
    MaxText,    \* bound on the text lines of one upstream body
    MaxBeats,   \* bound on the heartbeats the producer enqueues
    ErrorStatus \* the upstream status_code the error dict carries

ASSUME StreamAssumption ==
    /\ TextKinds \subseteq {"text", "textDONE"} /\ TextKinds # {}
    /\ MaxText \in Nat /\ MaxBeats \in Nat
    /\ ErrorStatus \in Nat /\ ErrorStatus \notin 200..299

\* check_response: a status >= 400 makes the adapter yield the error dict
\* and return.
ErrorBody == <<"err">>

\* Adapters that always end with "data: [DONE]" (gemini, claude), and the
\* others when upstream sends [DONE]: text lines, then the terminator.
TerminatedBodies == {s \o <<"done">> : s \in UpTo(TextKinds, MaxText)}

\* gpt, azure, cloudflare and cohere when the body ends without [DONE]:
\* the async for over aiter_text runs out after the text lines.
UnterminatedBodies == UpTo(TextKinds, MaxText)

\* What an adapter (fetch_*_response_stream) yields for one upstream body.
AdapterOutputs == {ErrorBody} \cup TerminatedBodies \cup UnterminatedBodies

VARIABLES
    up,        \* the adapter's events, fixed by the upstream body
    pos,       \* events the adapter has handed out (completed __anext__)
    resp,      \* response_task: "idle" (None), "pending" or "ready"
    hb,        \* heartbeat_task: "idle" (None), "pending" or "ready"
    queue,     \* heartbeats waiting in the asyncio.Queue
    beats,     \* heartbeats the producer has put so far
    producer,  \* send_heartbeat: "running" or "cancelled"
    todo,      \* the `done` set of asyncio.wait still to be yielded
    mux,       \* where fetch_response_stream is
    closes,    \* calls of response_gen.aclose()
    client,    \* lines the client has received
    status,    \* the HTTP status the client got
    wstate     \* where error_handling_wrapper and its generator are

vars == <<up, pos, resp, hb, queue, beats, producer, todo, mux, closes,
          client, status, wstate>>

\* The value of the completed response_task.
Ev == IF pos <= Len(up) THEN up[pos] ELSE "eof"

\* Mutant: every adapter line ends the multiplexer.
EndsStreamAny(v) == TRUE

\* if "[DONE]" in result: return -- a substring test on the line.
EndsStream(v) == v \in {"done", "textDONE"}

\* A data line, as opposed to the heartbeat comment.
IsData(v) == v # "hb"

\* The wrapper is pulling from the multiplexer.
Pulling == wstate \in {"first", "deferred", "streaming"}

-----------------------------------------------------------------------------
(* The wrapper receiving one line from the multiplexer.                    *)

\* A string that starts with [DONE] once "data: " is stripped: only the
\* terminator, not a text line whose JSON content holds [DONE].
StartsWithDone(v) == v = "done"

\* A dict with a non-empty 'error': the error dict of check_response.
IsErrorDict(v) == v = "err"

\* check_response_content on a line: the error dict raises HTTPException
\* with its status_code; "data: [DONE]" raises StopAsyncIteration; a text
\* line decodes as JSON and is returned.  (The audio, error_triggers and
\* non-JSON paths are not modelled: no adapter line of the model takes them.)
CheckOutcome(v) ==
    CASE IsErrorDict(v)    -> "http_error"
      [] StartsWithDone(v) -> "stop"
      [] OTHER             -> "ok"

\* error_handling_wrapper, first item: a heartbeat returns new_generator
\* (the response starts, status 200) and defers the check; otherwise the
\* check's HTTPException gives the upstream status, its StopAsyncIteration is caught and
\* gives 400, and a line that passes starts the response.
FirstItem(v) ==
    IF v = "hb"
    THEN status' = 200 /\ client' = <<v>> /\ wstate' = "deferred"
    ELSE CASE CheckOutcome(v) = "http_error" ->
                status' = ErrorStatus /\ client' = client /\ wstate' = "abandoned"
           [] CheckOutcome(v) = "stop" ->
                status' = 400 /\ client' = client /\ wstate' = "abandoned"
           [] OTHER ->
                status' = 200 /\ client' = <<v>> /\ wstate' = "streaming"

\* new_generator after a first heartbeat: heartbeats pass, the first real
\* line is checked; the HTTPException, and the StopAsyncIteration that the
\* async generator turns into RuntimeError, now abort a started response.
DeferredItem(v) ==
    /\ status' = status
    /\ IF v = "hb" THEN client' = Append(client, v) /\ wstate' = "deferred"
       ELSE IF CheckOutcome(v) = "ok"
            THEN client' = Append(client, v) /\ wstate' = "streaming"
            ELSE client' = client /\ wstate' = "aborted"

\* new_generator after the check: every line is passed on.
StreamItem(v) ==
    /\ client' = Append(client, v) /\ wstate' = "streaming" /\ status' = status

Deliver(v) ==
    CASE wstate = "first"    -> FirstItem(v)
      [] wstate = "deferred" -> DeferredItem(v)
      [] OTHER               -> StreamItem(v)

-----------------------------------------------------------------------------
(* The actions.                                                            *)

Init ==
    /\ up \in AdapterOutputs
    /\ pos = 0
    /\ resp = "idle" /\ hb = "idle"
    /\ queue = 0 /\ beats = 0 /\ producer = "running"
    /\ todo = {}
    /\ mux = "arm"
    /\ closes = 0
    /\ client = << >> /\ status = 0 /\ wstate = "first"

\* Mutant: the loop head only re-creates the heartbeat task.
ArmBeatOnly ==
    /\ mux = "arm" /\ Pulling
    /\ hb' = IF hb = "idle" THEN "pending" ELSE hb
    /\ mux' = "wait"
    /\ UNCHANGED <<up, pos, resp, queue, beats, producer, todo, closes, client, status, wstate>>

\* Loop head: create the task of each waiter that is None.
Arm ==
    /\ mux = "arm" /\ Pulling
    /\ resp' = IF resp = "idle" THEN "pending" ELSE resp
    /\ hb' = IF hb = "idle" THEN "pending" ELSE hb
    /\ mux' = "wait"
    /\ UNCHANGED <<up, pos, queue, beats, producer, todo, closes, client, status, wstate>>

\* The adapter task produces its next event (or StopAsyncIteration).
AdapterNext ==
    /\ resp = "pending" /\ mux # "exited"
    /\ resp' = "ready" /\ pos' = pos + 1
    /\ UNCHANGED <<up, hb, queue, beats, producer, todo, mux, closes, client, status, wstate>>

\* send_heartbeat: after the sleep, queue.put of the heartbeat line.
Beat ==
    /\ producer = "running" /\ beats < MaxBeats
    /\ queue' = queue + 1 /\ beats' = beats + 1
    /\ UNCHANGED <<up, pos, resp, hb, producer, todo, mux, closes, client, status, wstate>>

\* The heartbeat task's queue.get() returns.
HeartbeatGet ==
    /\ hb = "pending" /\ queue > 0 /\ mux # "exited"
    /\ hb' = "ready" /\ queue' = queue - 1
    /\ UNCHANGED <<up, pos, resp, beats, producer, todo, mux, closes, client, status, wstate>>

\* asyncio.wait(FIRST_COMPLETED) returns every task that is done by then.
Wake ==
    /\ mux = "wait" /\ Pulling
    /\ todo' = {t \in {"resp", "hb"} : (IF t = "resp" THEN resp ELSE hb) = "ready"}
    /\ todo' # {}
    /\ mux' = "drain"
    /\ UNCHANGED <<up, pos, resp, hb, queue, beats, producer, closes, client, status, wstate>>

\* Mutant: response_task is not set back to None after its result.
YieldRespKeep ==
    /\ mux = "drain" /\ Pulling /\ "resp" \in todo
    /\ Ev # "eof"
    /\ todo' = todo \ {"resp"}
    /\ mux' = IF EndsStream(Ev) THEN "returning" ELSE IF todo' = {} THEN "arm" ELSE "drain"
    /\ Deliver(Ev)
    /\ UNCHANGED <<up, pos, resp, hb, queue, beats, producer, closes>>

\* for task in done, the response task: await it, set it to None, yield
\* the line, and return when it contains [DONE].
YieldResp ==
    /\ mux = "drain" /\ Pulling /\ "resp" \in todo
    /\ Ev # "eof"
    /\ resp' = "idle"
    /\ todo' = todo \ {"resp"}
    /\ mux' = IF EndsStream(Ev) THEN "returning" ELSE IF todo' = {} THEN "arm" ELSE "drain"
    /\ Deliver(Ev)
    /\ UNCHANGED <<up, pos, hb, queue, beats, producer, closes>>

\* for task in done, the heartbeat task: set it to None and yield the line.
YieldBeat ==
    /\ mux = "drain" /\ Pulling /\ "hb" \in todo
    /\ hb' = "idle"
    /\ todo' = todo \ {"hb"}
    /\ mux' = IF todo' = {} THEN "arm" ELSE "drain"
    /\ Deliver("hb")
    /\ UNCHANGED <<up, pos, resp, queue, beats, producer, closes>>

\* await of a response task that raised StopAsyncIteration: inside the
\* async generator it becomes RuntimeError, which the wrapper does not
\* catch; before the first line it is an unhandled error (500).
AdapterEnded ==
    /\ mux = "drain" /\ Pulling /\ "resp" \in todo
    /\ Ev = "eof"
    /\ resp' = "idle"
    /\ todo' = {}
    /\ mux' = "raised"
    /\ wstate' = "aborted"
    /\ status' = IF wstate = "first" THEN 500 ELSE status
    /\ UNCHANGED <<up, pos, hb, queue, beats, producer, closes, client>>

\* An abandoned generator is finalized (aclose by the asyncgen hooks once
\* the wrapper drops it): GeneratorExit at the yield where it waits.
Finalize ==
    /\ ~Pulling /\ mux \in {"arm", "drain"}
    /\ mux' = "closing"
    /\ UNCHANGED <<up, pos, resp, hb, queue, beats, producer, todo, closes, client, status, wstate>>

\* The client disconnects: the request task is cancelled, which reaches
\* the multiplexer as CancelledError in asyncio.wait or GeneratorExit at
\* its yield.
ClientCancel ==
    /\ Pulling
    /\ wstate' = "cancelled"
    /\ mux' = IF mux \in {"arm", "wait", "drain"} THEN "closing" ELSE mux
    /\ UNCHANGED <<up, pos, resp, hb, queue, beats, producer, todo, closes, client, status>>

\* Mutant: the finally block leaves the heartbeat task alone.
CleanupKeepBeatTask ==
    /\ mux \in {"returning", "raised", "closing"}
    /\ resp' = "idle"
    /\ closes' = closes + 1
    /\ producer' = "cancelled"
    /\ mux' = "exited"
    /\ wstate' = IF mux = "returning" /\ wstate = "streaming" THEN "finished" ELSE wstate
    /\ UNCHANGED <<up, pos, hb, queue, beats, todo, client, status>>

\* Mutant: the GeneratorExit branch closes the adapter before re-raising
\* into the finally block, which closes it again.
CleanupCloseTwice ==
    /\ mux \in {"returning", "raised", "closing"}
    /\ resp' = "idle" /\ hb' = "idle"
    /\ closes' = closes + (IF mux = "closing" THEN 2 ELSE 1)
    /\ producer' = "cancelled"
    /\ mux' = "exited"
    /\ wstate' = IF mux = "returning" /\ wstate = "streaming" THEN "finished" ELSE wstate
    /\ UNCHANGED <<up, pos, queue, beats, todo, client, status>>

\* The finally block (after the GeneratorExit branch, if any): cancel and
\* await both tasks, aclose() the adapter; then heartbeat_generator's
\* finally cancels the producer.  After a return the wrapper's loop ends.
Cleanup ==
    /\ mux \in {"returning", "raised", "closing"}
    /\ resp' = "idle" /\ hb' = "idle"
    /\ closes' = closes + 1
    /\ producer' = "cancelled"
    /\ mux' = "exited"
    /\ wstate' = IF mux = "returning" /\ wstate = "streaming" THEN "finished" ELSE wstate
    /\ UNCHANGED <<up, pos, queue, beats, todo, client, status>>

Next ==
    \/ Arm \/ AdapterNext \/ Beat \/ HeartbeatGet \/ Wake
    \/ YieldResp \/ YieldBeat \/ AdapterEnded
    \/ Finalize \/ ClientCancel \/ Cleanup

\* The event loop runs every ready task and the finalizer runs when the
\* generator is dropped; the client may stay or leave.
Fairness ==
    /\ WF_vars(Arm) /\ WF_vars(AdapterNext) /\ WF_vars(HeartbeatGet)
    /\ WF_vars(Wake) /\ WF_vars(YieldResp) /\ WF_vars(YieldBeat)
    /\ WF_vars(AdapterEnded) /\ WF_vars(Finalize) /\ WF_vars(Cleanup)

Spec == Init /\ [][Next]_vars /\ Fairness

-----------------------------------------------------------------------------
(* Properties.                                                             *)

Kinds == TextKinds \cup {"err", "done"}
Lines == Kinds \cup {"hb"}
TaskStates == {"idle", "pending", "ready"}
MuxStates == {"arm", "wait", "drain", "returning", "raised", "closing", "exited"}
WrapperStates == {"first", "deferred", "streaming", "abandoned", "aborted",
                  "cancelled", "finished"}

TypeOK ==
    /\ up \in AdapterOutputs
    /\ pos \in 0..Len(up) + 1
    /\ resp \in TaskStates /\ hb \in TaskStates
    /\ queue \in 0..MaxBeats /\ beats \in 0..MaxBeats
    /\ producer \in {"running", "cancelled"}
    /\ todo \subseteq {"resp", "hb"}
    /\ mux \in MuxStates
    /\ closes \in 0..1
    /\ client \in Seq(Lines)
    /\ status \in {0, 200, 400, 500, ErrorStatus}
    /\ wstate \in WrapperStates

\* The places of the data lines among the first k lines of c, and how many
\* there are: the k-th line, when it is a data line, is data line number
\* DataCount(c, k) of the response.
DataIndices(c, k) == {j \in 1..k : IsData(c[j])}
DataCount(c, k) == Cardinality(DataIndices(c, k))

\* The places of the terminator line in c.
DoneIndices(c) == {j \in 1..Len(c) : c[j] = "done"}

\* Spec property 7, fetch_response_stream with asyncio.wait: however the
\* adapter task and the heartbeat task complete, and in whatever order the
\* `done` set is walked, the n-th data line the client gets is the
\* adapter's n-th event: none lost in between, none repeated, none made up.
AdapterOrderKept ==
    \A k \in 1..Len(client) :
        IsData(client[k]) =>
            /\ DataCount(client, k) <= Len(up)
            /\ client[k] = up[DataCount(client, k)]

\* Spec property 6, the end of a streaming response: a response that ends
\* normally (the multiplexer returned, the wrapper's loop ran out) has the
\* terminator line as its last data line, and holds exactly one.
DoneTerminates ==
    wstate = "finished" =>
        /\ \E k \in DoneIndices(client) :
               \A j \in k + 1..Len(client) : ~IsData(client[j])
        /\ Cardinality(DoneIndices(client)) = 1

SA == INSTANCE StreamAbstract WITH
    Bodies <- AdapterOutputs, Beat <- "hb", Terminator <- "done",
    body <- up, sent <- client

\* Spec 6 and 7 as a refinement: every behaviour of the request is one the
\* abstract stream allows.  The client gets the adapter's events in order,
\* heartbeats between them, and nothing after the terminator.
StreamRefinesAbstract == SA!Spec

\* Spec 4.4, the exit of fetch_response_stream and heartbeat_generator: on
\* every way out (return, StopAsyncIteration, GeneratorExit, cancellation)
\* no task is left waiting, the producer is cancelled and the adapter is
\* closed exactly once.
CleanupOnExit ==
    mux = "exited" =>
        /\ resp # "pending" /\ hb # "pending"
        /\ producer = "cancelled" /\ closes = 1

\* Spec S6 and 7 (errors before the first byte): when the upstream answers
\* with an error, the client gets that error's HTTP status, whatever the
\* timing of the heartbeat.
UpstreamErrorIsHttpError ==
    (up = <<"err">> /\ wstate \notin {"first", "deferred", "cancelled"}) => status = ErrorStatus

\* Spec property 6 on every way out: a response that started (status 200),
\* that the upstream did not end with an error event and that the client
\* did not leave, holds the terminator exactly once once the multiplexer
\* has exited -- also when the adapter's body ran out without [DONE].
DoneOnEveryEnd ==
    (mux = "exited" /\ status = 200 /\ up # ErrorBody /\ wstate # "cancelled")
        => Cardinality(DoneIndices(client)) = 1

\* The multiplexer always finishes: every request, whatever the upstream
\* body and the heartbeats, reaches the cleanup.
EventuallyExits == <>(mux = "exited")
=============================================================================
