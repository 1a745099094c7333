--------------------------- MODULE RequestExecutor ---------------------------
(***************************************************************************)
(* FMCPExecutor and the asynchronous half of FMCPToolRegistry: what happens *)
(* to a capability request on the Game Thread, from its dispatch to its     *)
(* answer, and what the executor remembers of it under its requestId.       *)
(*                                                                         *)
(* A synchronous capability runs inside its action, which takes 0..MaxRun   *)
(* units of time.  An asynchronous one (viewport capture, Niagara SimCache  *)
(* capture) owns its operation: at most one per tool, finished later by the *)
(* tool's own ticker, by its deadline, or by a cancellation.                *)
(*                                                                         *)
(* All of this runs on the Game Thread, so handlers do not interleave; the  *)
(* loop that cancels every tool when the server stops is several steps, with *)
(* the thread inside it (cancelling # {}).                                  *)
(***************************************************************************)
EXTENDS Integers, FiniteSets, Functions

CONSTANTS
  RequestIds,   \* requestIds clients make up
  NoId,         \* the request carries none
  Payloads,     \* canonical payloads: a capability with its parameters
  ToolOf,       \* the tool that serves the capability of a payload
  AsyncTools,   \* tools with SupportsAsyncExecution
  Protected,    \* tools whose capability needs a lease (ProtectedLeaseType)
  Uses,         \* the <<requestId, payload>> pairs clients send
  Outcomes,     \* what a handler may answer
  MaxRecords,   \* MaxIdempotencyRecords (256)
  Retention,    \* how long a record is kept after its last use (15 minutes)
  MaxRun,       \* bound on the time a synchronous handler takes
  MaxClock      \* bound on the clock

Tools == Range(ToolOf)

ASSUME ExecutorAssumption ==
  /\ NoId \notin RequestIds
  /\ ToolOf \in [Payloads -> Tools]
  /\ AsyncTools \subseteq Tools /\ Protected \subseteq Tools \ AsyncTools
  /\ Uses \subseteq (RequestIds \cup {NoId}) \X Payloads
  /\ IsFiniteSet(RequestIds)
  /\ MaxRecords \in Nat \ {0} /\ Retention \in Nat \ {0}
  /\ MaxRun \in Nat /\ MaxClock \in Nat

VARIABLES
  now,         \* FDateTime::UtcNow
  cache,       \* IdempotencyCache: requestId -> payload, result, last access
  inFlight,    \* InFlightRequests: requestId -> payload
  active,      \* the operation each asynchronous tool is working on
  cancelling,  \* tools CancelAsyncTools has still to visit
  event,       \* the last thing a client could notice
  answered     \* when the record in the cache was given its answer

memory == <<cache, inFlight, answered>>
vars == <<now, memory, active, cancelling, event>>

NoOp == [busy |-> FALSE]
Op(r, p) == [busy |-> TRUE, request |-> r, payload |-> p]
Busy == {t \in AsyncTools : active[t].busy}
IsAsync(p) == ToolOf[p] \in AsyncTools

\* What the executor itself answers without asking a handler.
OwnAnswers == {"unprepared", "rejected", "cancelled"}
Answers == Outcomes \cup OwnAnswers

Event(kind, r, p, a) ==
  IF r = NoId THEN [kind |-> "other"]
  ELSE [kind |-> kind, request |-> r, payload |-> p, answer |-> a]

With(f, x, v) == [y \in DOMAIN f \cup {x} |-> IF y = x THEN v ELSE f[y]]
Without(f, x) == Restrict(f, DOMAIN f \ {x})

Init ==
  /\ now = 0
  /\ cache = << >> /\ inFlight = << >> /\ answered = << >>
  /\ active = [t \in AsyncTools |-> NoOp]
  /\ cancelling = {}
  /\ event = [kind |-> "none"]

---------------------------------------------------------------------------
(* The idempotency cache.                                                  *)

\* Mutant: records die one unit early.
FreshEarly == {r \in DOMAIN cache : cache[r].last > now - Retention}

\* PruneIdempotencyCache: records not used for longer than Retention go.
Fresh == {r \in DOMAIN cache : cache[r].last >= now - Retention}

OldestOf(c) == {r \in DOMAIN c : \A q \in DOMAIN c : c[r].last <= c[q].last}

\* Mutant: nothing is dropped.
StoredUnbounded(c, r, p, a, time) == {With(c, r, [payload |-> p, result |-> a, last |-> time])}

\* StoreIdempotencyResult: a full cache first drops a least recently used record,
\* also when the requestId is in it already.
Stored(c, r, p, a, time) ==
  LET record == [payload |-> p, result |-> a, last |-> time] IN
  IF Cardinality(DOMAIN c) < MaxRecords THEN {With(c, r, record)}
  ELSE {With(Without(c, old), r, record) : old \in OldestOf(c)}

\* The answer times follow the cache: a record made in this step is answered now.
AnsweredAt(r, time) ==
  answered' = [q \in DOMAIN cache' |-> IF q = r THEN time ELSE answered[q]]

---------------------------------------------------------------------------
(* One request, dispatched.                                                *)

Idle == cancelling = {}

\* CheckProtectedLease, before anything else: another session owns the lease.
Denied(r, p) ==
  /\ ToolOf[p] \in Protected
  /\ event' = Event("denied", r, p, "none")
  /\ UNCHANGED <<now, memory, active, cancelling>>

\* Mutant: the payload is not compared.
AnyPayload(r, p) == TRUE
SamePayload(r, p) == cache[r].payload = p

\* The requestId is in the cache: its record is used again, and gives its result
\* or, for another payload, a conflict.
Repeated(r, p) ==
  /\ r \in Fresh
  /\ cache' = [Restrict(cache, Fresh) EXCEPT ![r].last = now]
  /\ answered' = Restrict(answered, Fresh)
  /\ event' = IF SamePayload(r, p) THEN Event("served", r, p, cache[r].result)
              ELSE Event("conflict", r, p, "none")
  /\ UNCHANGED <<now, inFlight, active, cancelling>>

\* Execute: a synchronous handler runs, or PrepareExecution turns the request down;
\* both results are kept, with the time read before the handler ran.  Requests
\* without requestId do not touch the cache.
RanSync(r, p) ==
  /\ ~IsAsync(p)
  /\ r \notin Fresh
  /\ \E a \in Outcomes \cup {"unprepared"}, d \in 0..MaxRun :
       /\ now + d <= MaxClock
       /\ now' = now + d
       /\ IF r = NoId THEN UNCHANGED <<cache, answered>>
          ELSE /\ cache' \in Stored(Restrict(cache, Fresh), r, p, a, now)
               /\ AnsweredAt(r, now + d)
       /\ event' = Event("ran", r, p, a)
  /\ UNCHANGED <<inFlight, active, cancelling>>

\* What BeginExecuteAsync does to the cache before it gets to the handler.
PrunedForAsync == cache' = Restrict(cache, Fresh) /\ answered' = Restrict(answered, Fresh)

KnownInFlight(r) == r \in DOMAIN inFlight

\* The requestId is at work in an asynchronous operation.
StillRunning(r, p) ==
  /\ IsAsync(p) /\ r \notin Fresh /\ KnownInFlight(r)
  /\ PrunedForAsync
  /\ event' = IF inFlight[r].payload = p THEN Event("inProgress", r, p, "none")
              ELSE Event("conflict", r, p, "none")
  /\ UNCHANGED <<now, inFlight, active, cancelling>>

\* PrepareExecution turns an asynchronous request down: the failure is not kept.
Unprepared(r, p) ==
  /\ IsAsync(p) /\ r \notin Fresh /\ ~KnownInFlight(r)
  /\ PrunedForAsync
  /\ event' = Event("refused", r, p, "none")
  /\ UNCHANGED <<now, inFlight, active, cancelling>>

\* The tool is busy with an operation, or finds fault with the parameters: it
\* completes the request at once, with an error that is kept like any result.
Rejected(r, p) ==
  /\ IsAsync(p) /\ r \notin Fresh /\ ~KnownInFlight(r)
  /\ IF r = NoId THEN PrunedForAsync
     ELSE cache' \in Stored(Restrict(cache, Fresh), r, p, "rejected", now) /\ AnsweredAt(r, now)
  /\ event' = Event("ran", r, p, "rejected")
  /\ UNCHANGED <<now, inFlight, active, cancelling>>

\* The tool takes the request on.
Started(r, p) ==
  /\ IsAsync(p) /\ r \notin Fresh /\ ~KnownInFlight(r)
  /\ ToolOf[p] \notin Busy
  /\ PrunedForAsync
  /\ inFlight' = IF r = NoId THEN inFlight ELSE With(inFlight, r, [payload |-> p])
  /\ active' = [active EXCEPT ![ToolOf[p]] = Op(r, p)]
  /\ event' = Event("started", r, p, "none")
  /\ UNCHANGED <<now, cancelling>>

Request(r, p) ==
  /\ Idle
  /\ \/ Denied(r, p) \/ Repeated(r, p) \/ RanSync(r, p) \/ StillRunning(r, p)
     \/ Unprepared(r, p) \/ Rejected(r, p) \/ Started(r, p)

---------------------------------------------------------------------------
(* The end of an asynchronous operation.                                   *)

Landed(r) == Without(inFlight, r)

\* The completion BeginExecuteAsync handed to the tool.
Complete(t, a) ==
  LET op == active[t] IN
  /\ active' = [active EXCEPT ![t] = NoOp]
  /\ IF op.request = NoId THEN UNCHANGED memory
     ELSE /\ inFlight' = Landed(op.request)
          /\ cache' \in Stored(cache, op.request, op.payload, a, now)
          /\ AnsweredAt(op.request, now)
  /\ event' = Event("ran", op.request, op.payload, a)
  /\ UNCHANGED now

\* The tool's ticker: the capture succeeds, fails or passes its deadline.
Finish(t) ==
  /\ Idle /\ active[t].busy
  /\ \E a \in Outcomes : Complete(t, a)
  /\ UNCHANGED cancelling

\* CancelAsyncOperation: found by its requestId, cancelled by its capability.
Cancel(r) ==
  /\ Idle
  /\ r \in DOMAIN inFlight
  /\ active[ToolOf[inFlight[r].payload]].busy
  /\ Complete(ToolOf[inFlight[r].payload], "cancelled")
  /\ UNCHANGED cancelling

\* CancelAsyncOperations, when the server stops: every tool in turn.
CancelAll ==
  /\ Idle
  /\ cancelling' = AsyncTools
  /\ UNCHANGED <<now, memory, active, event>>
CancelNext(t) ==
  /\ t \in cancelling
  /\ cancelling' = cancelling \ {t}
  /\ IF active[t].busy THEN Complete(t, "cancelled")
     ELSE UNCHANGED <<now, memory, active, event>>

Tick ==
  /\ Idle /\ now < MaxClock
  /\ now' = now + 1
  /\ UNCHANGED <<memory, active, cancelling, event>>

Next ==
  \/ \E u \in Uses : Request(u[1], u[2])
  \/ \E t \in AsyncTools : Finish(t) \/ CancelNext(t)
  \/ \E r \in RequestIds : Cancel(r)
  \/ CancelAll
  \/ Tick

Spec == Init /\ [][Next]_vars

---------------------------------------------------------------------------
(* Properties.                                                             *)

Record == [payload : Payloads, result : Answers, last : 0..MaxClock]
Ids == RequestIds \cup {NoId}

\* The variables have their types and the cache its size.
TypeOK ==
  /\ now \in 0..MaxClock
  /\ DOMAIN cache \subseteq RequestIds /\ \A r \in DOMAIN cache : cache[r] \in Record
  /\ Cardinality(DOMAIN cache) <= MaxRecords
  /\ DOMAIN answered = DOMAIN cache
  /\ \A r \in DOMAIN answered : answered[r] \in 0..MaxClock
  /\ DOMAIN inFlight \subseteq RequestIds
  /\ \A r \in DOMAIN inFlight : inFlight[r] \in [payload : Payloads]
  /\ active \in [AsyncTools -> {NoOp} \cup [busy : {TRUE}, request : Ids, payload : Payloads]]
  /\ cancelling \subseteq AsyncTools

\* A record that leaves a cache with room was answered long ago: at least Retention
\* less the time its handler may have taken, which counts from its dispatch.
KeptForRetention ==
  [][\A r \in DOMAIN cache \ DOMAIN cache' : Cardinality(DOMAIN cache) < MaxRecords =>
       now - answered[r] > Retention - MaxRun]_vars

\* A requestId that is executing one payload does not execute another: the second
\* is refused with a conflict.
PayloadConflictRefused ==
  [][\A u \in Uses :
       u[1] \in DOMAIN inFlight /\ inFlight[u[1]].payload # u[2] =>
         ~(/\ event'.kind = "ran" /\ event'.request = u[1]
           /\ event'.payload = u[2])]_vars

\* What a client sees is IdempotentService.
StateOf(r) ==
  IF r \in DOMAIN inFlight THEN [phase |-> "running", payload |-> inFlight[r].payload]
  ELSE IF r \in DOMAIN cache
  THEN [phase |-> "done", payload |-> cache[r].payload, answer |-> cache[r].result]
  ELSE [phase |-> "free"]

Service == INSTANCE IdempotentService
             WITH requests <- [r \in RequestIds |-> StateOf(r)]
ServesOnce == Service!Spec
==============================================================================
