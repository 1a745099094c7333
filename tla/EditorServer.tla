----------------------------- MODULE EditorServer -----------------------------
(***************************************************************************)
(* FUEAIIntegrationServer: how an HTTP request gets to the Game Thread and  *)
(* its answer back, around the RequestExecutor.                             *)
(*                                                                         *)
(* Route handlers may run on HTTP worker threads: they open the request     *)
(* with the activity service and put it in RequestQueue (two steps here).   *)
(* The Game Thread takes one request per Tick, writes the request marker,   *)
(* runs the request, and answers it; the answer to an asynchronous          *)
(* capability is left to the tool.  Stop cancels the operations, unbinds    *)
(* the routes and turns down what is queued, while HTTP threads go on.      *)
(***************************************************************************)
EXTENDS RequestExecutor, Sequences

CONSTANTS
  Https,   \* the HTTP requests that may come
  Unlucky, \* the requests whose marker may fail to be written (a bound)
  None     \* no request

ASSUME ServerAssumption == None \notin Https /\ Https \cap RequestIds = {} /\ Unlucky \subseteq Https

VARIABLES
  running,    \* bIsRunning; the routes are bound
  stopping,   \* Stop is on the Game Thread's stack
  queue,      \* RequestQueue
  http,       \* phase and content of each HTTP request
  waiting,    \* the HTTP request whose completion an asynchronous tool holds
  executing,  \* the request ProcessOneRequest is running
  marker,     \* Saved/UEAIIntegration/last-request.json
  unwritten,  \* the marker could not be written last time (history)
  answers     \* how often each request's OnComplete was called (history)

transport == <<running, stopping, queue, http, waiting, executing, marker, unwritten, answers>>
serverVars == <<vars, transport>>

Kinds == {"execute", "workflow", "cancel"}
Contents ==
  [kind : {"execute"}, id : Ids, payload : Payloads]
    \cup [kind : {"workflow"}, id : Ids]
    \cup [kind : {"cancel"}, id : RequestIds]

\* What clients send: capabilities, workflow actions, cancellations.
Sent ==
  {[kind |-> "execute", id |-> u[1], payload |-> u[2]] : u \in Uses}
    \cup {[kind |-> "workflow", id |-> NoId]}
    \cup {[kind |-> "cancel", id |-> r] : r \in RequestIds}

Absent == [phase |-> "none"]
NoMarker == [status |-> "none"]
At(phase, content) == [phase |-> phase, content |-> content]
Phase(h) == http[h].phase
Content(h) == http[h].content

ServerInit ==
  /\ Init
  /\ running = TRUE /\ stopping = FALSE
  /\ queue = << >>
  /\ http = [h \in Https |-> Absent]
  /\ waiting = [t \in AsyncTools |-> None]
  /\ executing = None
  /\ marker = NoMarker /\ unwritten = FALSE
  /\ answers = [h \in Https |-> 0]

\* The Game Thread is between two handlers.
GameThreadFree == ~stopping /\ executing = None

\* OnComplete is called for the requests hs, and those in put move on.
Answer(hs, put) ==
  /\ http' = [h \in Https |->
                IF h \in hs THEN At("answered", Content(h))
                ELSE IF h \in DOMAIN put THEN put[h] ELSE http[h]]
  /\ answers' = [h \in Https |-> IF h \in hs THEN answers[h] + 1 ELSE answers[h]]

Nothing == << >>

\* Mutant: they do not.
MarkerIdGiven(h) == Content(h).id
\* Requests without requestId get one of their own in the marker.
MarkerId(h) == IF Content(h).id = NoId THEN h ELSE Content(h).id
Marker(h, status) == [id |-> MarkerId(h), status |-> status]

\* WriteRequestMarker.  No directory, no temporary file, or a move that fails: nobody
\* is told, and the marker of before stays, or the move has already removed it.
WriteMarker(h, m) ==
  \/ marker' = m /\ unwritten' = FALSE
  \/ h \in Unlucky /\ marker' \in {marker, NoMarker} /\ unwritten' = TRUE

---------------------------------------------------------------------------
(* HTTP threads.                                                           *)

\* Answered by its route handler: health, clients, a session that is gone, anything
\* while Kismet is paused at a breakpoint.
AnswerAtOnce(h) ==
  /\ running /\ Phase(h) = "none"
  /\ \E c \in Sent : http' = [http EXCEPT ![h] = At("answered", c)]
  /\ answers' = [answers EXCEPT ![h] = @ + 1]
  /\ UNCHANGED <<vars, running, stopping, queue, waiting, executing, marker, unwritten>>

\* QueueRequest up to BeginRequest.
Arrive(h) ==
  /\ running /\ Phase(h) = "none"
  /\ \E c \in Sent : http' = [http EXCEPT ![h] = At("begun", c)]
  /\ UNCHANGED <<vars, running, stopping, queue, waiting, executing, marker, unwritten, answers>>

\* The rest of QueueRequest: bIsRunning is not looked at again.
Enqueue(h) ==
  /\ Phase(h) = "begun"
  /\ http' = [http EXCEPT ![h] = At("queued", Content(h))]
  /\ queue' = Append(queue, h)
  /\ UNCHANGED <<vars, running, stopping, waiting, executing, marker, unwritten, answers>>

---------------------------------------------------------------------------
(* The Game Thread: ProcessOneRequest.                                     *)

\* Mutant: the request stays in the queue.
DequeuedNot == queue
Dequeued == Tail(queue)

\* The head of the queue is no request the executor or the workflow runtime gets to
\* see: a handshake, bad JSON, unknown fields.
TurnDown ==
  /\ GameThreadFree /\ queue # << >>
  /\ queue' = Dequeued
  /\ Answer({Head(queue)}, Nothing)
  /\ UNCHANGED <<vars, running, stopping, waiting, executing, marker, unwritten>>

\* The marker is written before the request runs.
Dispatch ==
  LET h == Head(queue) IN
  /\ GameThreadFree /\ queue # << >>
  /\ Content(h).kind # "cancel"
  /\ queue' = Dequeued
  /\ executing' = h
  /\ http' = [http EXCEPT ![h] = At("executing", Content(h))]
  /\ WriteMarker(h, Marker(h, "running"))
  /\ UNCHANGED <<vars, running, stopping, waiting, answers>>

\* The request ran to its end: terminal marker, then the answer.
Terminate(h) ==
  /\ WriteMarker(h, Marker(h, "terminal"))
  /\ Answer({h}, Nothing)
  /\ UNCHANGED waiting

\* The tool took the request on, and with it the completion.
Defer(h) ==
  /\ waiting' = [waiting EXCEPT ![ToolOf[Content(h).payload]] = h]
  /\ Answer({}, [x \in {h} |-> At("deferred", Content(h))])
  /\ UNCHANGED <<marker, unwritten>>

\* HandleExecute's request: BeginExecuteAsync, which returns bDeferred exactly when
\* the tool has started.
Execute ==
  LET h == executing IN
  /\ h # None /\ Content(h).kind = "execute"
  /\ Request(Content(h).id, Content(h).payload)
  /\ executing' = None
  /\ IF active' # active THEN Defer(h) ELSE Terminate(h)
  /\ UNCHANGED <<running, stopping, queue>>

RunWorkflow ==
  /\ executing # None /\ Content(executing).kind = "workflow"
  /\ executing' = None
  /\ Terminate(executing)
  /\ UNCHANGED <<vars, running, stopping, queue>>

\* Mutant: the completion writes no marker.
SettledUnmarked(h) == marker
\* The completion handed to BeginExecuteAsync first writes the marker.
Settled(h) == Marker(h, "terminal")

\* Mutant: the tool keeps the completion.
ReleasedNot(t) == waiting
Released(t) == [waiting EXCEPT ![t] = None]

\* The completion of the operation of tool t: its request is answered, and those in
\* also are too.
CompleteHttp(t, also) ==
  /\ WriteMarker(waiting[t], Settled(waiting[t]))
  /\ waiting' = Released(t)
  /\ Answer({waiting[t]} \cup also, Nothing)

\* CancelAsyncOperation under the request's requestId; the operation it ends
\* answers its own request first.
CancelExecute ==
  LET h == Head(queue)
      r == Content(h).id
  IN
  /\ GameThreadFree /\ queue # << >> /\ Content(h).kind = "cancel"
  /\ queue' = Dequeued
  /\ \/ Cancel(r) /\ CompleteHttp(ToolOf[inFlight[r].payload], {h})
     \/ /\ r \notin DOMAIN inFlight
        /\ Answer({h}, Nothing)
        /\ UNCHANGED <<vars, waiting, marker, unwritten>>
  /\ UNCHANGED <<running, stopping, executing>>

\* The tool's ticker ends its operation.
FinishTool(t) ==
  /\ GameThreadFree
  /\ Finish(t)
  /\ CompleteHttp(t, {})
  /\ UNCHANGED <<running, stopping, queue, executing>>

---------------------------------------------------------------------------
(* Stop and Start.                                                         *)

\* Mutant: the operations are left to themselves.
BeginCancelNone == cancelling' = {} /\ UNCHANGED <<now, memory, active, event>>
BeginCancel == CancelAll

Stop ==
  /\ GameThreadFree /\ running
  /\ stopping' = TRUE
  /\ BeginCancel
  /\ UNCHANGED <<running, queue, http, waiting, executing, marker, unwritten, answers>>

StopTool(t) ==
  /\ stopping
  /\ CancelNext(t)
  /\ IF active[t].busy THEN CompleteHttp(t, {})
     ELSE UNCHANGED <<http, waiting, marker, unwritten, answers>>
  /\ UNCHANGED <<running, stopping, queue, executing>>

\* UnbindRoutes, bIsRunning = false.
Unbind ==
  /\ stopping /\ running /\ cancelling = {}
  /\ running' = FALSE
  /\ UNCHANGED <<vars, stopping, queue, http, waiting, executing, marker, unwritten, answers>>

\* Mutant: queued requests are dropped without an answer.
TurnedAwayNot(h) == {}
TurnedAway(h) == {h}

\* One round of the loop that answers queued requests with 503.
DrainOne ==
  /\ stopping /\ ~running /\ queue # << >>
  /\ queue' = Dequeued
  /\ Answer(TurnedAway(Head(queue)), Nothing)
  /\ UNCHANGED <<vars, running, stopping, waiting, executing, marker, unwritten>>

Stopped ==
  /\ stopping /\ ~running /\ queue = << >>
  /\ stopping' = FALSE
  /\ UNCHANGED <<vars, running, queue, http, waiting, executing, marker, unwritten, answers>>

\* Start binds the routes again (when it fails, nothing changes).
Start ==
  /\ GameThreadFree /\ ~running
  /\ running' = TRUE
  /\ UNCHANGED <<vars, stopping, queue, http, waiting, executing, marker, unwritten, answers>>

Drain == Unbind \/ DrainOne \/ Stopped
Process == TurnDown \/ Dispatch \/ CancelExecute

ServerNext ==
  \/ \E h \in Https : AnswerAtOnce(h) \/ Arrive(h) \/ Enqueue(h)
  \/ Process \/ Execute \/ RunWorkflow
  \/ \E t \in AsyncTools : FinishTool(t) \/ StopTool(t)
  \/ Stop \/ Drain \/ Start

ServerSpec == ServerInit /\ [][ServerNext]_serverVars

\* A handler that was called returns; the subsystem is ticked; a capture has a
\* deadline in its ticker; Stop runs to its end.  Nobody has to send requests or to
\* stop or start the server.
Fairness ==
  /\ \A h \in Https : WF_serverVars(Enqueue(h))
  /\ WF_serverVars(Process)
  /\ WF_serverVars(Execute \/ RunWorkflow)
  /\ \A t \in AsyncTools : WF_serverVars(FinishTool(t)) /\ WF_serverVars(StopTool(t))
  /\ WF_serverVars(Drain)

FairServerSpec == ServerSpec /\ Fairness

---------------------------------------------------------------------------
(* Properties.                                                             *)

Phases == {"begun", "queued", "executing", "deferred", "answered"}

\* Types of the transport's variables.
ServerTypeOK ==
  /\ TypeOK
  /\ running \in BOOLEAN /\ stopping \in BOOLEAN
  /\ queue \in Seq(Https)
  /\ http \in [Https -> {Absent} \cup [phase : Phases, content : Contents]]
  /\ waiting \in [AsyncTools -> Https \cup {None}]
  /\ executing \in Https \cup {None}
  /\ marker = NoMarker
       \/ marker \in [id : RequestIds \cup Https, status : {"running", "terminal"}]
  /\ unwritten \in BOOLEAN
  /\ answers \in [Https -> Nat]

\* Each request completes exactly once, however its capture, its cancellation and
\* the end of the server fall together: no OnComplete is called twice, and a request
\* without an answer is in one place that will give it one.
AnsweredOnce ==
  \A h \in Https :
    /\ answers[h] = (IF Phase(h) = "answered" THEN 1 ELSE 0)
    /\ Cardinality({i \in DOMAIN queue : queue[i] = h}) = (IF Phase(h) = "queued" THEN 1 ELSE 0)
    /\ executing = h <=> Phase(h) = "executing"
    /\ Cardinality({t \in AsyncTools : waiting[t] = h}) = (IF Phase(h) = "deferred" THEN 1 ELSE 0)

\* A tool holds the completion of a request exactly while it works on its payload.
DeferredIsActive ==
  \A t \in AsyncTools :
    IF active[t].busy
    THEN /\ waiting[t] # None
         /\ Content(waiting[t]) =
              [kind |-> "execute", id |-> active[t].request, payload |-> active[t].payload]
    ELSE waiting[t] = None

\* If the Editor dies now, and the marker could be written last time, it names the
\* request on the Game Thread, and does not accuse one that was through: it says
\* "running" only of that request or of an operation under way.  (A marker that could
\* not be written leaves the one before, which may name a request that has ended.)
MarkerNamesExecuting ==
  \/ unwritten
  \/ /\ executing # None => marker = Marker(executing, "running")
     /\ marker.status = "running" =>
          \E h \in Https : Phase(h) \in {"executing", "deferred"} /\ MarkerId(h) = marker.id

\* A server that has stopped has no operation under way and holds no completion.
StopLeavesNoOperation ==
  [][stopping /\ ~stopping' => Busy' = {} /\ \A h \in Https : http'[h].phase # "deferred"]_serverVars

\* Every request is answered in the end, also when the server stops, or stops and
\* starts, while an HTTP thread is about to queue it.
EveryRequestAnswered ==
  \A h \in Https : Phase(h) \in {"begun", "queued", "executing", "deferred"} ~> Phase(h) = "answered"
==============================================================================
