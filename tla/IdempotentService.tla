-------------------------- MODULE IdempotentService --------------------------
(***************************************************************************)
(* What the request executor promises a client that repeats a requestId:   *)
(* one request is carried out once for as long as it is remembered, a      *)
(* repetition gets the first answer, and the same requestId with another   *)
(* payload is refused.  The service may forget finished requests at any    *)
(* time; it never forgets one that is running.                             *)
(***************************************************************************)
CONSTANTS RequestIds, Payloads, Answers

VARIABLES
  requests,  \* for each requestId: free, running or done
  event      \* the last thing the service did that a client can tell

vars == <<requests, event>>

Free == [phase |-> "free"]
Running(p) == [phase |-> "running", payload |-> p]
Done(p, a) == [phase |-> "done", payload |-> p, answer |-> a]
Event(kind, r, p, a) == [kind |-> kind, request |-> r, payload |-> p, answer |-> a]

DoneIds == {r \in RequestIds : requests[r].phase = "done"}
Forgotten(F) == [r \in RequestIds |-> IF r \in F THEN Free ELSE requests[r]]

Init ==
  /\ requests = [r \in RequestIds |-> Free]
  /\ event = [kind |-> "none"]

\* A request that is not known is carried out at once, or started, or turned down
\* without being remembered (the capability cannot run now).
Run(F, r, p) == \E a \in Answers :
  /\ Forgotten(F)[r] = Free
  /\ requests' = [Forgotten(F) EXCEPT ![r] = Done(p, a)]
  /\ event' = Event("ran", r, p, a)
Start(F, r, p) ==
  /\ Forgotten(F)[r] = Free
  /\ requests' = [Forgotten(F) EXCEPT ![r] = Running(p)]
  /\ event' = Event("started", r, p, "none")
TurnDown(F, r, p) ==
  /\ Forgotten(F)[r] = Free
  /\ requests' = Forgotten(F)
  /\ event' = Event("refused", r, p, "none")

\* A requestId that is known: the first answer again, or a refusal.
Repeat(F, r, p) ==
  LET known == Forgotten(F)[r] IN
  /\ known # Free
  /\ requests' = Forgotten(F)
  /\ event' = IF known.payload # p THEN Event("conflict", r, p, "none")
              ELSE IF known.phase = "running" THEN Event("inProgress", r, p, "none")
              ELSE Event("served", r, p, known.answer)

\* Another session holds the lease the capability needs: nothing happens, whether
\* the request is known or not.
Deny(r, p) ==
  /\ UNCHANGED requests
  /\ event' = Event("denied", r, p, "none")

\* A running request gets its answer.
Finish(F, r) == \E a \in Answers :
  /\ requests[r].phase = "running"
  /\ requests' = [Forgotten(F) EXCEPT ![r] = Done(requests[r].payload, a)]
  /\ event' = Event("ran", r, requests[r].payload, a)

\* What happens to requests that carry no requestId is visible, and is no concern
\* of this service.
Other(F) ==
  /\ requests' = Forgotten(F)
  /\ event' = [kind |-> "other"]

Next == \E F \in SUBSET DoneIds :
  \/ Other(F)
  \/ \E r \in RequestIds :
       \/ Finish(F, r)
       \/ \E p \in Payloads : Run(F, r, p) \/ Start(F, r, p) \/ TurnDown(F, r, p)
                              \/ Repeat(F, r, p) \/ Deny(r, p)

Spec == Init /\ [][Next]_vars
==============================================================================
