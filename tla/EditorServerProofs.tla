------------------------- MODULE EditorServerProofs -------------------------
(***************************************************************************)
(* Theorems about EditorServer, for any HTTP requests, requestIds and tools *)
(* and any limits of the executor under it, whose theorems they build on.   *)
(***************************************************************************)
EXTENDS EditorServer, RequestExecutorProofs

USE ExecutorAssumption, ServerAssumption

---------------------------------------------------------------------------
(* The inductive invariant: every request that was begun and not answered   *)
(* is in the queue, on the Game Thread or with a tool, once.                *)

QueueInv ==
  /\ \A i \in 1..Len(queue) : Phase(queue[i]) = "queued"
  /\ \A i, j \in 1..Len(queue) : queue[i] = queue[j] => i = j
  /\ \A h \in Https : Phase(h) = "queued" => \E i \in 1..Len(queue) : queue[i] = h

ThreadInv == \A h \in Https : executing = h <=> Phase(h) = "executing"

HeldInv ==
  /\ \A t \in AsyncTools : waiting[t] # None => Phase(waiting[t]) = "deferred"
  /\ \A t, u \in AsyncTools : waiting[t] # None /\ waiting[t] = waiting[u] => t = u
  /\ \A h \in Https : Phase(h) = "deferred" => \E t \in AsyncTools : waiting[t] = h

CountInv == \A h \in Https : answers[h] = IF Phase(h) = "answered" THEN 1 ELSE 0

\* The loop of Stop has the Game Thread, and still has to visit every busy tool.
StopInv ==
  /\ stopping => executing = None /\ Busy \subseteq cancelling
  /\ ~stopping => cancelling = {}
  /\ stopping /\ ~running => cancelling = {}

ServerInv ==
  /\ ServerTypeOK /\ ExecutorInv
  /\ QueueInv /\ ThreadInv /\ HeldInv /\ CountInv
  /\ DeferredIsActive /\ MarkerNamesExecuting /\ StopInv

\* The types of the transport, without the executor's.
TransportTyped ==
  /\ running \in BOOLEAN /\ stopping \in BOOLEAN
  /\ queue \in Seq(Https)
  /\ http \in [Https -> {Absent} \cup [phase : Phases, content : Contents]]
  /\ waiting \in [AsyncTools -> Https \cup {None}]
  /\ executing \in Https \cup {None}
  /\ marker = NoMarker
       \/ marker \in [id : RequestIds \cup Https, status : {"running", "terminal"}]
  /\ unwritten \in BOOLEAN
  /\ answers \in [Https -> Nat]

LEMMA TypeParts == ServerTypeOK <=> TypeOK /\ TransportTyped
BY DEF ServerTypeOK, TransportTyped
LEMMA TypePartsNext == TypeOK' /\ TransportTyped' => ServerTypeOK'
BY DEF ServerTypeOK, TransportTyped

---------------------------------------------------------------------------
(* What a step leaves alone.                                               *)

\* Only the requests in H move, and they neither were queued nor are.
LEMMA SameQueue ==
  ASSUME QueueInv, queue' = queue, queue \in Seq(Https), NEW H \in SUBSET Https,
         \A h \in Https \ H : http'[h] = http[h],
         \A h \in H : http[h].phase # "queued" /\ http'[h].phase # "queued"
  PROVE  QueueInv'
<1>1. \A i \in 1..Len(queue) : queue[i] \in Https
  OBVIOUS
<1>2. \A i \in 1..Len(queue) : http'[queue[i]].phase = "queued"
  BY <1>1 DEF QueueInv, Phase
<1>3. \A h \in Https : http'[h].phase = "queued" => \E i \in 1..Len(queue) : queue[i] = h
  BY DEF QueueInv, Phase
<1> QED  BY <1>2, <1>3 DEF QueueInv, Phase

LEMMA SameThread ==
  ASSUME ThreadInv, executing' = executing, NEW H \in SUBSET Https,
         \A h \in Https \ H : http'[h] = http[h],
         \A h \in H : http[h].phase # "executing" /\ http'[h].phase # "executing"
  PROVE  ThreadInv'
BY DEF ThreadInv, Phase

LEMMA SameHeld ==
  ASSUME HeldInv, waiting' = waiting, waiting \in [AsyncTools -> Https \cup {None}],
         NEW H \in SUBSET Https,
         \A h \in Https \ H : http'[h] = http[h],
         \A h \in H : http[h].phase # "deferred" /\ http'[h].phase # "deferred"
  PROVE  HeldInv'
<1>1. \A t \in AsyncTools : waiting[t] # None => http'[waiting[t]].phase = "deferred"
  BY DEF HeldInv, Phase
<1>2. \A h \in Https : http'[h].phase = "deferred" => \E t \in AsyncTools : waiting[t] = h
  BY DEF HeldInv, Phase
<1> QED  BY <1>1, <1>2 DEF HeldInv, Phase

LEMMA SameOperations ==
  ASSUME DeferredIsActive, HeldInv, UNCHANGED <<waiting, active>>,
         waiting \in [AsyncTools -> Https \cup {None}],
         NEW H \in SUBSET Https,
         \A h \in Https \ H : http'[h] = http[h],
         \A h \in H : http[h].phase # "deferred"
  PROVE  DeferredIsActive'
<1> SUFFICES ASSUME NEW t \in AsyncTools
             PROVE  IF active[t].busy
                    THEN /\ waiting[t] # None
                         /\ http'[waiting[t]].content =
                              [kind |-> "execute", id |-> active[t].request,
                               payload |-> active[t].payload]
                    ELSE waiting[t] = None
  BY DEF DeferredIsActive, Content
<1>1. waiting[t] # None => waiting[t] \in Https \ H
  BY DEF HeldInv, Phase
<1> QED  BY <1>1 DEF DeferredIsActive, Content

\* The marker stays, and so do the requests it may name.
LEMMA SameMarker ==
  ASSUME MarkerNamesExecuting, UNCHANGED <<executing, marker, unwritten>>, executing \in Https \cup {None},
         NEW H \in SUBSET Https,
         \A h \in Https \ H : http'[h] = http[h],
         \A h \in H : http[h].phase \notin {"executing", "deferred"},
         ThreadInv
  PROVE  MarkerNamesExecuting'
<1> SUFFICES ASSUME ~unwritten
             PROVE  MarkerNamesExecuting'
  BY DEF MarkerNamesExecuting
<1>1. executing # None => executing \in Https \ H
  BY DEF ThreadInv, Phase
<1>2. executing # None => Marker(executing, "running")' = Marker(executing, "running")
  BY <1>1 DEF Marker, MarkerId, Content
<1>3. marker.status = "running" =>
        \E h \in Https : http'[h].phase \in {"executing", "deferred"} /\ MarkerId(h)' = marker.id
  <2> SUFFICES ASSUME marker.status = "running"
               PROVE  \E h \in Https : /\ http'[h].phase \in {"executing", "deferred"}
                                       /\ MarkerId(h)' = marker.id
    OBVIOUS
  <2>1. PICK h \in Https : Phase(h) \in {"executing", "deferred"} /\ MarkerId(h) = marker.id
    BY DEF MarkerNamesExecuting
  <2>2. http'[h] = http[h]
    BY <2>1 DEF Phase
  <2> QED  BY <2>1, <2>2 DEF Phase, MarkerId, Content
<1> QED  BY <1>2, <1>3 DEF MarkerNamesExecuting, Phase

\* The answers follow the requests that are answered now.
LEMMA NewAnswers ==
  ASSUME CountInv, NEW hs \in SUBSET Https, NEW put, Answer(hs, put), TransportTyped,
         \A h \in hs : http[h].phase # "answered",
         \A h \in Https \ hs : http'[h].phase = "answered" <=> http[h].phase = "answered"
  PROVE  CountInv' /\ answers' \in [Https -> Nat]
<1>1. \A h \in hs : answers'[h] = 1 /\ http'[h].phase = "answered"
  <2> SUFFICES ASSUME NEW h \in hs
               PROVE  answers'[h] = 1 /\ http'[h].phase = "answered"
    OBVIOUS
  <2>1. h \in Https /\ answers[h] = 0
    BY DEF CountInv, Phase
  <2>2. answers'[h] = answers[h] + 1
    BY <2>1 DEF Answer
  <2>3. http'[h] = At("answered", Content(h))
    BY <2>1 DEF Answer
  <2> QED  BY <2>1, <2>2, <2>3 DEF At
<1>2. \A h \in Https \ hs : answers'[h] = answers[h]
  BY DEF Answer
<1>3. CountInv'
  BY <1>1, <1>2 DEF CountInv, Phase
<1>4. answers' \in [Https -> Nat]
  BY DEF Answer, TransportTyped
<1> QED  BY <1>3, <1>4

---------------------------------------------------------------------------
(* Contents, markers and answers.                                          *)

MarkerType == [id : RequestIds \cup Https, status : {"running", "terminal"}]

\* A marker that could be written is the one that was to be written.
LEMMA WrittenMarker ==
  ASSUME TransportTyped, NEW h, NEW m \in MarkerType, WriteMarker(h, m)
  PROVE  /\ marker' = NoMarker \/ marker' \in MarkerType
         /\ unwritten' \in BOOLEAN
         /\ ~unwritten' => marker' = m
BY DEF TransportTyped, WriteMarker, MarkerType

HttpType == {Absent} \cup [phase : Phases, content : Contents]

LEMMA SentIsContents == Sent \subseteq Contents
BY DEF Sent, Contents, Ids

LEMMA ContentTyped ==
  ASSUME TransportTyped, NEW h \in Https, Phase(h) # "none"
  PROVE  /\ Content(h) \in Contents
         /\ Content(h).id \in Ids
         /\ Content(h).kind \in Kinds
         /\ MarkerId(h) \in RequestIds \cup Https
<1>1. http[h] \in [phase : Phases, content : Contents]
  BY DEF TransportTyped, Phase, Absent
<1>2. Content(h) \in Contents
  BY <1>1 DEF Content
<1>3. \A c \in Contents : c.id \in Ids /\ c.kind \in Kinds
  BY DEF Contents, Ids, Kinds
<1>4. MarkerId(h) \in RequestIds \cup Https
  BY <1>2, <1>3 DEF MarkerId, Ids
<1> QED  BY <1>2, <1>3, <1>4

LEMMA AtTyped ==
  ASSUME NEW phase \in Phases, NEW c \in Contents
  PROVE  /\ At(phase, c) \in HttpType
         /\ At(phase, c).phase = phase /\ At(phase, c).content = c
BY DEF At, HttpType

\* OnComplete is called for the requests in hs.
LEMMA Answered ==
  ASSUME CountInv, TransportTyped, NEW hs \in SUBSET Https, Answer(hs, Nothing),
         \A h \in hs : Phase(h) \notin {"none", "answered"}
  PROVE  /\ CountInv' /\ answers' \in [Https -> Nat]
         /\ http' \in [Https -> HttpType]
         /\ \A h \in Https \ hs : http'[h] = http[h]
         /\ \A h \in hs : http'[h].phase = "answered"
<1>1. /\ \A h \in Https \ hs : http'[h] = http[h]
      /\ \A h \in hs : http'[h] = At("answered", Content(h))
      /\ http' = [h \in Https |-> http'[h]]
  BY DEF Answer, Nothing
<1>2. \A h \in hs : http'[h] \in HttpType /\ http'[h].phase = "answered"
  BY <1>1, ContentTyped, AtTyped DEF Phases
<1>3. http' \in [Https -> HttpType]
  BY <1>1, <1>2 DEF TransportTyped, HttpType
<1>4. CountInv' /\ answers' \in [Https -> Nat]
  BY <1>1, NewAnswers DEF Phase
<1> QED  BY <1>1, <1>2, <1>3, <1>4

LEMMA OneMoved ==
  ASSUME TransportTyped, NEW h \in Https, NEW phase \in Phases, NEW c \in Contents,
         http' = [http EXCEPT ![h] = At(phase, c)]
  PROVE  /\ http' \in [Https -> HttpType]
         /\ http'[h].phase = phase /\ http'[h].content = c
         /\ \A x \in Https \ {h} : http'[x] = http[x]
BY AtTyped DEF TransportTyped, HttpType

\* The executor is not concerned.
LEMMA SameExecutor ==
  ASSUME ExecutorInv, TypeOK, UNCHANGED vars
  PROVE  ExecutorInv' /\ TypeOK' /\ active' = active /\ cancelling' = cancelling
BY StutterStep DEF vars, ExecutorInv

---------------------------------------------------------------------------
(* HTTP threads.                                                           *)

LEMMA AnswerAtOnceStep ==
  ASSUME ServerInv, NEW h \in Https, AnswerAtOnce(h)
  PROVE  ServerInv'
<1>1. PICK c \in Sent : http' = [http EXCEPT ![h] = At("answered", c)]
  BY DEF AnswerAtOnce
<1>2. /\ Phase(h) = "none" /\ answers' = [answers EXCEPT ![h] = @ + 1]
      /\ UNCHANGED <<running, stopping, queue, waiting, executing, marker, unwritten>>
      /\ UNCHANGED vars
  BY DEF AnswerAtOnce
<1>3. TransportTyped /\ ExecutorInv /\ TypeOK
  BY TypeParts DEF ServerInv
<1>4. /\ http' \in [Https -> HttpType] /\ http'[h].phase = "answered"
      /\ \A x \in Https \ {h} : http'[x] = http[x]
  BY <1>1, <1>3, SentIsContents, OneMoved DEF Phases
<1>5. ExecutorInv' /\ TypeOK' /\ active' = active /\ cancelling' = cancelling
  BY <1>2, <1>3, SameExecutor
<1>6. answers' \in [Https -> Nat] /\ CountInv'
  <2>1. answers \in [Https -> Nat]
    BY <1>3 DEF TransportTyped
  <2> QED  BY <1>2, <1>4, <2>1 DEF ServerInv, CountInv, Phase
<1>7. ServerTypeOK'
  BY <1>2, <1>3, <1>4, <1>5, <1>6, TypePartsNext DEF TransportTyped, HttpType
<1> DEFINE H == {h}
<1>8. /\ H \in SUBSET Https
      /\ \A x \in Https \ H : http'[x] = http[x]
      /\ \A x \in H : http[x].phase = "none" /\ http'[x].phase = "answered"
  BY <1>2, <1>4 DEF Phase
<1> HIDE DEF H
<1>9. QueueInv'
  BY <1>2, <1>3, <1>8, SameQueue DEF ServerInv, TransportTyped
<1>10. ThreadInv'
  BY <1>2, <1>8, SameThread DEF ServerInv
<1>11. HeldInv' /\ DeferredIsActive'
  BY <1>2, <1>3, <1>5, <1>8, SameHeld, SameOperations DEF ServerInv, TransportTyped
<1>12. MarkerNamesExecuting'
  BY <1>2, <1>3, <1>8, SameMarker DEF ServerInv, TransportTyped
<1>13. StopInv'
  BY <1>2, <1>5 DEF ServerInv, StopInv, Busy
<1> QED  BY <1>5, <1>6, <1>7, <1>9, <1>10, <1>11, <1>12, <1>13 DEF ServerInv

LEMMA ArriveStep ==
  ASSUME ServerInv, NEW h \in Https, Arrive(h)
  PROVE  ServerInv'
<1>1. PICK c \in Sent : http' = [http EXCEPT ![h] = At("begun", c)]
  BY DEF Arrive
<1>2. /\ Phase(h) = "none" /\ UNCHANGED vars
      /\ UNCHANGED <<running, stopping, queue, waiting, executing, marker, unwritten, answers>>
  BY DEF Arrive
<1>3. TransportTyped /\ ExecutorInv /\ TypeOK
  BY TypeParts DEF ServerInv
<1>4. /\ http' \in [Https -> HttpType] /\ http'[h].phase = "begun"
      /\ \A x \in Https \ {h} : http'[x] = http[x]
  BY <1>1, <1>3, SentIsContents, OneMoved DEF Phases
<1>5. ExecutorInv' /\ TypeOK' /\ active' = active /\ cancelling' = cancelling
  BY <1>2, <1>3, SameExecutor
<1>6. CountInv'
  BY <1>2, <1>3, <1>4 DEF ServerInv, CountInv, Phase
<1>7. ServerTypeOK'
  BY <1>2, <1>3, <1>4, <1>5, TypePartsNext DEF TransportTyped, HttpType
<1> DEFINE H == {h}
<1>8. /\ H \in SUBSET Https
      /\ \A x \in Https \ H : http'[x] = http[x]
      /\ \A x \in H : http[x].phase = "none" /\ http'[x].phase = "begun"
  BY <1>2, <1>4 DEF Phase
<1> HIDE DEF H
<1>9. QueueInv'
  BY <1>2, <1>3, <1>8, SameQueue DEF ServerInv, TransportTyped
<1>10. ThreadInv'
  BY <1>2, <1>8, SameThread DEF ServerInv
<1>11. HeldInv' /\ DeferredIsActive'
  BY <1>2, <1>3, <1>5, <1>8, SameHeld, SameOperations DEF ServerInv, TransportTyped
<1>12. MarkerNamesExecuting'
  BY <1>2, <1>3, <1>8, SameMarker DEF ServerInv, TransportTyped
<1>13. StopInv'
  BY <1>2, <1>5 DEF ServerInv, StopInv, Busy
<1> QED  BY <1>5, <1>6, <1>7, <1>9, <1>10, <1>11, <1>12, <1>13 DEF ServerInv

LEMMA EnqueueStep ==
  ASSUME ServerInv, NEW h \in Https, Enqueue(h)
  PROVE  ServerInv'
<1>1. /\ Phase(h) = "begun" /\ UNCHANGED vars
      /\ http' = [http EXCEPT ![h] = At("queued", Content(h))]
      /\ queue' = Append(queue, h)
      /\ UNCHANGED <<running, stopping, waiting, executing, marker, unwritten, answers>>
  BY DEF Enqueue
<1>2. TransportTyped /\ ExecutorInv /\ TypeOK
  BY TypeParts DEF ServerInv
<1>3. Content(h) \in Contents
  BY <1>1, <1>2, ContentTyped
<1>4. /\ http' \in [Https -> HttpType] /\ http'[h].phase = "queued"
      /\ \A x \in Https \ {h} : http'[x] = http[x]
  BY <1>1, <1>2, <1>3, OneMoved DEF Phases
<1>5. ExecutorInv' /\ TypeOK' /\ active' = active /\ cancelling' = cancelling
  BY <1>1, <1>2, SameExecutor
<1>6. CountInv'
  BY <1>1, <1>4 DEF ServerInv, CountInv, Phase
<1>7. /\ queue' \in Seq(Https) /\ Len(queue') = Len(queue) + 1 /\ Len(queue) \in Nat
      /\ queue'[Len(queue) + 1] = h
      /\ \A i \in 1..Len(queue) : queue'[i] = queue[i] /\ queue[i] \in Https
  BY <1>1, <1>2 DEF TransportTyped
<1>8. ServerTypeOK'
  BY <1>1, <1>2, <1>4, <1>5, <1>7, TypePartsNext DEF TransportTyped, HttpType
<1>9. QueueInv'
  <2>1. \A i \in 1..Len(queue) : queue[i] # h /\ http'[queue[i]].phase = "queued"
    BY <1>1, <1>4, <1>7 DEF ServerInv, QueueInv, Phase
  <2>2. \A i \in 1..Len(queue') : http'[queue'[i]].phase = "queued"
    BY <1>4, <1>7, <2>1
  <2>3. \A i, j \in 1..Len(queue') : queue'[i] = queue'[j] => i = j
    BY <1>7, <2>1 DEF ServerInv, QueueInv
  <2>4. \A x \in Https : http'[x].phase = "queued" => \E i \in 1..Len(queue') : queue'[i] = x
    <3> SUFFICES ASSUME NEW x \in Https, http'[x].phase = "queued"
                 PROVE  \E i \in 1..Len(queue') : queue'[i] = x
      OBVIOUS
    <3>1. CASE x = h
      BY <1>7, <3>1
    <3>2. CASE x # h
      <4>1. PICK i \in 1..Len(queue) : queue[i] = x
        BY <1>4, <3>2 DEF ServerInv, QueueInv, Phase
      <4>2. i \in 1..Len(queue') /\ queue'[i] = x
        BY <1>7, <4>1
      <4> QED  BY <4>2
    <3> QED  BY <3>1, <3>2
  <2> QED  BY <2>2, <2>3, <2>4 DEF QueueInv, Phase
<1> DEFINE H == {h}
<1>10. /\ H \in SUBSET Https
       /\ \A x \in Https \ H : http'[x] = http[x]
       /\ \A x \in H : http[x].phase = "begun" /\ http'[x].phase = "queued"
  BY <1>1, <1>4 DEF Phase
<1> HIDE DEF H
<1>11. ThreadInv'
  BY <1>1, <1>10, SameThread DEF ServerInv
<1>12. HeldInv' /\ DeferredIsActive'
  BY <1>1, <1>2, <1>5, <1>10, SameHeld, SameOperations DEF ServerInv, TransportTyped
<1>13. MarkerNamesExecuting'
  BY <1>1, <1>2, <1>10, SameMarker DEF ServerInv, TransportTyped
<1>14. StopInv'
  BY <1>1, <1>5 DEF ServerInv, StopInv, Busy
<1> QED  BY <1>5, <1>6, <1>8, <1>9, <1>11, <1>12, <1>13, <1>14 DEF ServerInv

---------------------------------------------------------------------------
(* The Game Thread takes a request from the queue.                         *)

LEMMA HeadQueued ==
  ASSUME QueueInv, queue \in Seq(Https), queue # << >>
  PROVE  Head(queue) \in Https /\ Phase(Head(queue)) = "queued"
<1>1. 1 \in 1..Len(queue) /\ Head(queue) = queue[1] /\ queue[1] \in Https
  OBVIOUS
<1> QED  BY <1>1 DEF QueueInv

LEMMA Dequeues ==
  ASSUME QueueInv, queue \in Seq(Https), queue # << >>, queue' = Tail(queue),
         NEW H \in SUBSET Https, Head(queue) \in H,
         \A x \in Https \ H : http'[x] = http[x],
         \A x \in H : http'[x].phase # "queued",
         \A x \in H : x # Head(queue) => http[x].phase # "queued"
  PROVE  QueueInv' /\ queue' \in Seq(Https)
<1>1. /\ Len(queue) \in Nat /\ Len(queue) > 0 /\ queue' \in Seq(Https)
      /\ Len(queue') = Len(queue) - 1 /\ Head(queue) = queue[1]
      /\ \A i \in 1..Len(queue') : queue'[i] = queue[i + 1]
  OBVIOUS
<1>2. \A i \in 1..Len(queue) : queue[i] \in Https
  OBVIOUS
<1>3. \A i \in 2..Len(queue) : queue[i] # queue[1] /\ http[queue[i]].phase = "queued"
  BY <1>1 DEF QueueInv, Phase
<1>4. \A i \in 2..Len(queue) : http'[queue[i]].phase = "queued"
  BY <1>1, <1>2, <1>3
<1>5. \A i \in 1..Len(queue') : http'[queue'[i]].phase = "queued"
  BY <1>1, <1>4
<1>6. \A i, j \in 1..Len(queue') : queue'[i] = queue'[j] => i = j
  BY <1>1 DEF QueueInv
<1>7. \A x \in Https : http'[x].phase = "queued" => \E i \in 1..Len(queue') : queue'[i] = x
  <2> SUFFICES ASSUME NEW x \in Https, http'[x].phase = "queued"
               PROVE  \E i \in 1..Len(queue') : queue'[i] = x
    OBVIOUS
  <2>1. x \notin H /\ http[x].phase = "queued"
    OBVIOUS
  <2>2. PICK i \in 1..Len(queue) : queue[i] = x
    BY <2>1 DEF QueueInv, Phase
  <2>3. i # 1
    BY <1>1, <2>1, <2>2
  <2>4. i - 1 \in 1..Len(queue') /\ queue'[i - 1] = x
    BY <1>1, <2>2, <2>3
  <2> QED  BY <2>4
<1> QED  BY <1>1, <1>5, <1>6, <1>7 DEF QueueInv, Phase

\* The head of the queue is answered: TurnDown, a cancellation that finds nothing, the
\* loop that ends Stop.
LEMMA TurnedDownStep ==
  ASSUME ServerInv, queue # << >>, queue' = Tail(queue), Answer({Head(queue)}, Nothing),
         UNCHANGED <<vars, running, stopping, waiting, executing, marker, unwritten>>
  PROVE  ServerInv'
<1> DEFINE h == Head(queue)
           H == {h}
<1>1. TransportTyped /\ ExecutorInv /\ TypeOK /\ queue \in Seq(Https)
  BY TypeParts DEF ServerInv, TransportTyped
<1>2. h \in Https /\ Phase(h) = "queued"
  BY <1>1, HeadQueued DEF ServerInv
<1>3. Answer(H, Nothing) /\ H \in SUBSET Https /\ \A x \in H : Phase(x) = "queued"
  BY <1>2
<1>4. h \in H /\ \A x \in H : x = h
  OBVIOUS
<1> HIDE DEF H
<1>5. /\ CountInv' /\ answers' \in [Https -> Nat] /\ http' \in [Https -> HttpType]
      /\ \A x \in Https \ H : http'[x] = http[x]
      /\ \A x \in H : http[x].phase = "queued" /\ http'[x].phase = "answered"
  BY <1>1, <1>3, Answered DEF ServerInv, Phase
<1>6. ExecutorInv' /\ TypeOK' /\ active' = active /\ cancelling' = cancelling
  BY <1>1, SameExecutor
<1>7. QueueInv' /\ queue' \in Seq(Https)
  BY <1>1, <1>3, <1>4, <1>5, Dequeues DEF ServerInv
<1>8. ServerTypeOK'
  BY <1>1, <1>5, <1>6, <1>7, TypePartsNext DEF TransportTyped, HttpType
<1>9. ThreadInv'
  BY <1>3, <1>5, SameThread DEF ServerInv
<1>10. HeldInv' /\ DeferredIsActive'
  BY <1>1, <1>3, <1>5, <1>6, SameHeld, SameOperations DEF ServerInv, TransportTyped
<1>11. MarkerNamesExecuting'
  BY <1>1, <1>3, <1>5, SameMarker DEF ServerInv, TransportTyped
<1>12. StopInv'
  BY <1>6 DEF ServerInv, StopInv, Busy
<1> QED  BY <1>5, <1>6, <1>7, <1>8, <1>9, <1>10, <1>11, <1>12 DEF ServerInv

LEMMA DispatchStep ==
  ASSUME ServerInv, Dispatch
  PROVE  ServerInv'
<1>1. TransportTyped /\ ExecutorInv /\ TypeOK /\ queue \in Seq(Https)
  BY TypeParts DEF ServerInv, TransportTyped
<1>2. PICK h \in Https : h = Head(queue) /\ Phase(h) = "queued"
  BY <1>1, HeadQueued DEF ServerInv, Dispatch
<1> DEFINE H == {h}
<1>3. /\ executing = None /\ ~stopping /\ queue # << >> /\ queue' = Tail(queue)
      /\ executing' = h /\ http' = [http EXCEPT ![h] = At("executing", Content(h))]
      /\ WriteMarker(h, Marker(h, "running"))
      /\ UNCHANGED <<vars, running, stopping, waiting, answers>>
  BY <1>2 DEF Dispatch, GameThreadFree, Dequeued
<1>4. Content(h) \in Contents /\ MarkerId(h) \in RequestIds \cup Https
  BY <1>1, <1>2, ContentTyped
<1>5. /\ http' \in [Https -> HttpType] /\ http'[h].phase = "executing"
      /\ http'[h].content = Content(h)
      /\ \A x \in Https \ {h} : http'[x] = http[x]
  <2>1. http' = [http EXCEPT ![h] = At("executing", Content(h))] /\ "executing" \in Phases
    BY <1>3 DEF Phases
  <2> QED  BY <1>1, <1>4, <2>1, OneMoved
<1>6. /\ H \in SUBSET Https /\ h \in H
      /\ \A x \in Https \ H : http'[x] = http[x]
      /\ \A x \in H : x = h /\ http[x].phase = "queued" /\ http'[x].phase = "executing"
  BY <1>2, <1>5 DEF Phase
<1> HIDE DEF H
<1>7. ExecutorInv' /\ TypeOK' /\ active' = active /\ cancelling' = cancelling
  BY <1>3, <1>1, SameExecutor
<1>8. QueueInv' /\ queue' \in Seq(Https)
  BY <1>3, <1>1, <1>2, <1>6, Dequeues DEF ServerInv
<1>9. /\ marker' = NoMarker \/ marker' \in MarkerType
      /\ unwritten' \in BOOLEAN /\ (~unwritten' => marker' = Marker(h, "running"))
  <2>1. Marker(h, "running") \in MarkerType
    BY <1>4 DEF Marker, MarkerType
  <2> QED  BY <1>1, <1>3, <2>1, WrittenMarker
<1>10. ServerTypeOK'
  BY <1>3, <1>1, <1>2, <1>5, <1>7, <1>8, <1>9, TypePartsNext
     DEF TransportTyped, HttpType, MarkerType
<1>11. ThreadInv'
  BY <1>3, <1>2, <1>6 DEF ServerInv, ThreadInv, Phase
<1>12. HeldInv' /\ DeferredIsActive'
  BY <1>3, <1>1, <1>6, <1>7, SameHeld, SameOperations DEF ServerInv, TransportTyped
<1>13. MarkerNamesExecuting'
  <2>1. MarkerId(h)' = MarkerId(h)
    BY <1>5 DEF MarkerId, Content
  <2>2. Marker(executing, "running")' = Marker(h, "running")
    BY <1>3, <2>1 DEF Marker, MarkerId, Content
  <2>3. ~unwritten' => h \in Https /\ Phase(h)' = "executing" /\ MarkerId(h)' = marker'.id
    BY <1>9, <1>2, <1>5, <2>1 DEF Marker, Phase
  <2> QED  BY <1>3, <1>9, <2>2, <2>3 DEF MarkerNamesExecuting
<1>14. StopInv' /\ CountInv'
  BY <1>3, <1>2, <1>5, <1>7 DEF ServerInv, StopInv, Busy, CountInv, Phase
<1> QED  BY <1>7, <1>8, <1>10, <1>11, <1>12, <1>13, <1>14 DEF ServerInv

---------------------------------------------------------------------------
(* The request on the Game Thread ends, or is left to its tool.            *)

LEMMA TerminatedStep ==
  ASSUME ServerInv, NEW h \in Https, executing = h, executing' = None, Terminate(h),
         ExecutorInv', active' = active, cancelling' = cancelling,
         UNCHANGED <<running, stopping, queue>>
  PROVE  ServerInv'
<1> DEFINE H == {h}
<1>1. TransportTyped /\ queue \in Seq(Https) /\ TypeOK'
  BY TypeParts DEF ServerInv, TransportTyped, ExecutorInv
<1>2. Phase(h) = "executing" /\ MarkerId(h) \in RequestIds \cup Https
  BY <1>1, ContentTyped DEF ServerInv, ThreadInv
<1>3. /\ Answer(H, Nothing) /\ waiting' = waiting /\ WriteMarker(h, Marker(h, "terminal"))
      /\ H \in SUBSET Https /\ \A x \in H : Phase(x) = "executing"
  BY <1>2 DEF Terminate
<1>4. h \in H /\ \A x \in H : x = h
  OBVIOUS
<1> HIDE DEF H
<1>5. /\ CountInv' /\ answers' \in [Https -> Nat] /\ http' \in [Https -> HttpType]
      /\ \A x \in Https \ H : http'[x] = http[x]
      /\ \A x \in H : http[x].phase = "executing" /\ http'[x].phase = "answered"
  BY <1>1, <1>3, Answered DEF ServerInv, Phase
<1>6. /\ marker' = NoMarker \/ marker' \in MarkerType
      /\ unwritten' \in BOOLEAN /\ (~unwritten' => marker'.status = "terminal")
  <2>1. Marker(h, "terminal") \in MarkerType /\ Marker(h, "terminal").status = "terminal"
    BY <1>2 DEF Marker, MarkerType
  <2> QED  BY <1>1, <1>3, <2>1, WrittenMarker
<1>7. ServerTypeOK'
  BY <1>1, <1>3, <1>5, <1>6, TypePartsNext DEF TransportTyped, HttpType, MarkerType
<1>8. QueueInv'
  BY <1>1, <1>3, <1>5, SameQueue DEF ServerInv
<1>9. ThreadInv'
  BY <1>4, <1>5 DEF ServerInv, ThreadInv, Phase
<1>10. HeldInv' /\ DeferredIsActive'
  BY <1>1, <1>3, <1>5, SameHeld, SameOperations DEF ServerInv, TransportTyped
<1>11. MarkerNamesExecuting'
  BY <1>6 DEF MarkerNamesExecuting
<1>12. StopInv'
  BY DEF ServerInv, StopInv, Busy
<1> QED  BY <1>5, <1>7, <1>8, <1>9, <1>10, <1>11, <1>12 DEF ServerInv

LEMMA DeferredStep ==
  ASSUME ServerInv, NEW h \in Https, executing = h, executing' = None,
         Content(h).kind = "execute", NEW t \in AsyncTools, t = ToolOf[Content(h).payload],
         ~active[t].busy,
         active' = [active EXCEPT ![t] = Op(Content(h).id, Content(h).payload)],
         Defer(h), ExecutorInv', cancelling' = cancelling, UNCHANGED <<running, stopping, queue>>
  PROVE  ServerInv'
<1> DEFINE H == {h}
<1>1. TransportTyped /\ queue \in Seq(Https) /\ TypeOK /\ TypeOK'
  BY TypeParts DEF ServerInv, TransportTyped, ExecutorInv
<1>2. Phase(h) = "executing" /\ Content(h) \in Contents
  BY <1>1, ContentTyped DEF ServerInv, ThreadInv
<1>3. Content(h) = [kind |-> "execute", id |-> Content(h).id, payload |-> Content(h).payload]
  BY <1>2 DEF Contents
<1>4. /\ waiting' = [waiting EXCEPT ![t] = h] /\ marker' = marker /\ unwritten' = unwritten
      /\ waiting[t] = None
      /\ waiting' \in [AsyncTools -> Https \cup {None}]
  BY <1>1 DEF Defer, ServerInv, DeferredIsActive, TransportTyped
<1>5. /\ http'[h] = At("deferred", Content(h)) /\ http' = [x \in Https |-> http'[x]]
      /\ \A x \in Https \ {h} : http'[x] = http[x]
      /\ answers' = [x \in Https |-> answers[x]]
  BY DEF Defer, Answer
<1>6. http'[h] \in HttpType /\ http'[h].phase = "deferred" /\ http'[h].content = Content(h)
  BY <1>2, <1>5, AtTyped DEF Phases
<1>7. http' \in [Https -> HttpType] /\ answers' = answers
  BY <1>1, <1>5, <1>6 DEF TransportTyped, HttpType
<1>8. /\ H \in SUBSET Https
      /\ \A x \in Https \ H : http'[x] = http[x]
      /\ \A x \in H : http[x].phase = "executing" /\ http'[x].phase = "deferred"
  BY <1>2, <1>5, <1>6 DEF Phase
<1> HIDE DEF H
<1>9. ServerTypeOK'
  BY <1>1, <1>4, <1>7, TypePartsNext DEF TransportTyped, HttpType
<1>10. QueueInv'
  BY <1>1, <1>8, SameQueue DEF ServerInv
<1>11. ThreadInv'
  BY <1>5, <1>6 DEF ServerInv, ThreadInv, Phase
<1>12. HeldInv'
  <2>1. \A u \in AsyncTools \ {t} : waiting'[u] = waiting[u] /\ waiting[u] # h
    BY <1>1, <1>2, <1>4 DEF ServerInv, HeldInv, TransportTyped
  <2>2. waiting'[t] = h
    BY <1>1, <1>4 DEF TransportTyped
  <2>3. \A u \in AsyncTools : waiting'[u] # None => http'[waiting'[u]].phase = "deferred"
    <3> SUFFICES ASSUME NEW u \in AsyncTools \ {t}, waiting[u] # None
                 PROVE  http'[waiting[u]].phase = "deferred"
      BY <1>6, <2>1, <2>2
    <3>1. waiting[u] \in Https \ {h} /\ http[waiting[u]].phase = "deferred"
      BY <1>1, <2>1 DEF TransportTyped, ServerInv, HeldInv, Phase
    <3> QED  BY <1>5, <3>1
  <2>4. \A u, v \in AsyncTools : waiting'[u] # None /\ waiting'[u] = waiting'[v] => u = v
    BY <2>1, <2>2 DEF ServerInv, HeldInv
  <2>5. \A x \in Https : http'[x].phase = "deferred" => \E u \in AsyncTools : waiting'[u] = x
    <3> SUFFICES ASSUME NEW x \in Https, http'[x].phase = "deferred"
                 PROVE  \E u \in AsyncTools : waiting'[u] = x
      OBVIOUS
    <3>1. CASE x = h
      BY <2>2, <3>1
    <3>2. CASE x # h
      <4>1. PICK u \in AsyncTools : waiting[u] = x
        BY <1>5, <3>2 DEF ServerInv, HeldInv, Phase
      <4>2. u # t
        BY <1>4, <4>1
      <4> QED  BY <2>1, <4>1, <4>2
    <3> QED  BY <3>1, <3>2
  <2> QED  BY <2>3, <2>4, <2>5 DEF HeldInv, Phase
<1>13. DeferredIsActive'
  <2> SUFFICES ASSUME NEW u \in AsyncTools
               PROVE  IF active'[u].busy
                      THEN /\ waiting'[u] # None
                           /\ http'[waiting'[u]].content =
                                [kind |-> "execute", id |-> active'[u].request,
                                 payload |-> active'[u].payload]
                      ELSE waiting'[u] = None
    BY DEF DeferredIsActive, Content
  <2>1. CASE u = t
    BY <1>1, <1>3, <1>4, <1>6, <2>1 DEF Op, TransportTyped, TypeOK
  <2>2. CASE u # t
    <3>1. active'[u] = active[u] /\ waiting'[u] = waiting[u]
      BY <1>1, <1>4, <2>2 DEF TypeOK, TransportTyped
    <3>2. waiting[u] # None => waiting[u] \in Https \ {h}
      BY <1>1, <1>2 DEF ServerInv, HeldInv, TransportTyped
    <3> QED  BY <1>5, <3>1, <3>2 DEF ServerInv, DeferredIsActive, Content
  <2> QED  BY <2>1, <2>2
<1>14. MarkerNamesExecuting'
  <2> SUFFICES ASSUME ~unwritten
               PROVE  MarkerNamesExecuting'
    BY <1>4 DEF MarkerNamesExecuting
  <2>1. marker = Marker(h, "running") /\ MarkerId(h)' = MarkerId(h)
    BY <1>6 DEF ServerInv, MarkerNamesExecuting, MarkerId, Content
  <2>2. h \in Https /\ Phase(h)' = "deferred" /\ MarkerId(h)' = marker'.id
    BY <1>4, <1>6, <2>1 DEF Marker, Phase
  <2> QED  BY <2>2 DEF MarkerNamesExecuting
<1>15. StopInv' /\ CountInv'
  <2>1. ~stopping /\ cancelling = {}
    BY DEF ServerInv, StopInv
  <2> QED  BY <1>2, <1>5, <1>6, <1>7, <2>1 DEF ServerInv, StopInv, CountInv, Phase
<1> QED  BY <1>9, <1>10, <1>11, <1>12, <1>13, <1>14, <1>15 DEF ServerInv

---------------------------------------------------------------------------
(* A tool ends its operation, and answers the request that waits for it;    *)
(* a cancellation at the head of the queue is answered with it.             *)

LEMMA CompletedStep ==
  ASSUME ServerInv, NEW t \in AsyncTools, active[t].busy, executing = None, executing' = None,
         active' = [active EXCEPT ![t] = NoOp], ExecutorInv',
         NEW also \in SUBSET Https, CompleteHttp(t, also),
         \/ also = {} /\ queue' = queue
         \/ also = {Head(queue)} /\ queue # << >> /\ queue' = Tail(queue),
         cancelling' = cancelling \/ cancelling' = cancelling \ {t},
         UNCHANGED <<running, stopping>>
  PROVE  ServerInv'
<1>1. TransportTyped /\ queue \in Seq(Https) /\ TypeOK /\ TypeOK'
  BY TypeParts DEF ServerInv, TransportTyped, ExecutorInv
<1>2. PICK w \in Https : w = waiting[t] /\ Phase(w) = "deferred"
  BY <1>1 DEF ServerInv, DeferredIsActive, HeldInv, TransportTyped
<1> DEFINE H == {w} \cup also
<1>3. \A x \in also : Phase(x) = "queued"
  BY <1>1, HeadQueued DEF ServerInv
<1>4. /\ Answer(H, Nothing) /\ WriteMarker(w, Marker(w, "terminal"))
      /\ waiting' = [waiting EXCEPT ![t] = None]
  BY <1>2 DEF CompleteHttp, Settled, Released
<1>5. H \in SUBSET Https /\ \A x \in H : Phase(x) \in {"deferred", "queued"}
  BY <1>2, <1>3
<1>6. w \in H /\ also \subseteq H /\ \A x \in H : x = w \/ x \in also
  OBVIOUS
<1> HIDE DEF H
<1>7. /\ CountInv' /\ answers' \in [Https -> Nat] /\ http' \in [Https -> HttpType]
      /\ \A x \in Https \ H : http'[x] = http[x]
      /\ \A x \in H : http'[x].phase = "answered"
  BY <1>1, <1>4, <1>5, Answered DEF ServerInv
<1>8. /\ marker' = NoMarker \/ marker' \in MarkerType
      /\ unwritten' \in BOOLEAN /\ (~unwritten' => marker'.status = "terminal")
  <2>1. Marker(w, "terminal") \in MarkerType /\ Marker(w, "terminal").status = "terminal"
    BY <1>1, <1>2, ContentTyped DEF Marker, MarkerType
  <2> QED  BY <1>1, <1>4, <2>1, WrittenMarker
<1>9. QueueInv' /\ queue' \in Seq(Https)
  <2>1. CASE also = {} /\ queue' = queue
    <3>1. \A x \in H : http[x].phase # "queued" /\ http'[x].phase # "queued"
      BY <1>2, <1>6, <1>7, <2>1 DEF Phase
    <3> QED  BY <1>1, <1>5, <1>7, <2>1, <3>1, SameQueue DEF ServerInv
  <2>2. CASE also = {Head(queue)} /\ queue # << >> /\ queue' = Tail(queue)
    <3>1. /\ Head(queue) \in H /\ \A x \in H : http'[x].phase # "queued"
          /\ \A x \in H : x # Head(queue) => http[x].phase # "queued"
      BY <1>2, <1>6, <1>7, <2>2 DEF Phase
    <3> QED  BY <1>1, <1>5, <1>7, <2>2, <3>1, Dequeues DEF ServerInv
  <2> QED  BY <2>1, <2>2
<1>10. /\ waiting' \in [AsyncTools -> Https \cup {None}] /\ waiting'[t] = None
       /\ \A u \in AsyncTools \ {t} : waiting'[u] = waiting[u]
  BY <1>1, <1>4 DEF TransportTyped
<1>11. ServerTypeOK'
  BY <1>1, <1>7, <1>8, <1>9, <1>10, TypePartsNext DEF TransportTyped, HttpType, MarkerType
<1>12. ThreadInv'
  BY <1>5, <1>7, SameThread DEF ServerInv, ThreadInv, Phase
<1>13. \A u \in AsyncTools \ {t} : waiting[u] # None => waiting[u] \in Https \ H
  <2> SUFFICES ASSUME NEW u \in AsyncTools \ {t}, waiting[u] # None
               PROVE  waiting[u] \in Https /\ waiting[u] # w /\ waiting[u] \notin also
    BY <1>6
  <2>1. waiting[u] \in Https /\ Phase(waiting[u]) = "deferred"
    BY <1>1 DEF TransportTyped, ServerInv, HeldInv
  <2>2. waiting[u] # w
    BY <1>2 DEF ServerInv, HeldInv
  <2> QED  BY <1>3, <2>1, <2>2
<1>14. HeldInv'
  <2>1. \A u \in AsyncTools : waiting'[u] # None => http'[waiting'[u]].phase = "deferred"
    <3> SUFFICES ASSUME NEW u \in AsyncTools \ {t}, waiting[u] # None
                 PROVE  http'[waiting[u]].phase = "deferred"
      BY <1>10
    <3>1. http'[waiting[u]] = http[waiting[u]]
      BY <1>7, <1>13
    <3> QED  BY <3>1 DEF ServerInv, HeldInv, Phase
  <2>2. \A u, v \in AsyncTools : waiting'[u] # None /\ waiting'[u] = waiting'[v] => u = v
    BY <1>10 DEF ServerInv, HeldInv
  <2>3. \A x \in Https : http'[x].phase = "deferred" => \E u \in AsyncTools : waiting'[u] = x
    <3> SUFFICES ASSUME NEW x \in Https, http'[x].phase = "deferred"
                 PROVE  \E u \in AsyncTools : waiting'[u] = x
      OBVIOUS
    <3>1. x \notin H /\ http[x].phase = "deferred"
      BY <1>7
    <3>2. PICK u \in AsyncTools : waiting[u] = x
      BY <3>1 DEF ServerInv, HeldInv, Phase
    <3>3. u # t
      BY <1>2, <1>6, <3>1, <3>2
    <3> QED  BY <1>10, <3>2, <3>3
  <2> QED  BY <2>1, <2>2, <2>3 DEF HeldInv, Phase
<1>15. DeferredIsActive'
  <2> SUFFICES ASSUME NEW u \in AsyncTools
               PROVE  IF active'[u].busy
                      THEN /\ waiting'[u] # None
                           /\ http'[waiting'[u]].content =
                                [kind |-> "execute", id |-> active'[u].request,
                                 payload |-> active'[u].payload]
                      ELSE waiting'[u] = None
    BY DEF DeferredIsActive, Content
  <2>1. CASE u = t
    BY <1>1, <1>10, <2>1 DEF NoOp, TypeOK
  <2>2. CASE u # t
    <3>1. active'[u] = active[u] /\ waiting'[u] = waiting[u]
      BY <1>1, <1>10, <2>2 DEF TypeOK
    <3>2. waiting[u] # None => http'[waiting[u]] = http[waiting[u]]
      BY <1>7, <1>13, <2>2
    <3> QED  BY <3>1, <3>2 DEF ServerInv, DeferredIsActive, Content
  <2> QED  BY <2>1, <2>2
<1>16. MarkerNamesExecuting'
  BY <1>8 DEF MarkerNamesExecuting
<1>17. StopInv'
  <2>1. Busy' = Busy \ {t}
    BY <1>1 DEF Busy, NoOp, TypeOK
  <2> QED  BY <2>1 DEF ServerInv, StopInv
<1> QED  BY <1>7, <1>9, <1>11, <1>12, <1>14, <1>15, <1>16, <1>17 DEF ServerInv

---------------------------------------------------------------------------
(* The steps of the executor, on the server's Game Thread.                 *)

\* The executor starts an operation or leaves them all alone.
LEMMA RequestActive ==
  ASSUME ExecutorInv, NEW r \in Ids, NEW p \in Payloads, Request(r, p)
  PROVE  /\ ExecutorInv' /\ cancelling' = cancelling
         /\ \/ active' = active
            \/ /\ ToolOf[p] \in AsyncTools /\ ~active[ToolOf[p]].busy
               /\ active' = [active EXCEPT ![ToolOf[p]] = Op(r, p)]
               /\ active' # active
<1>1. ExecutorInv'
  BY RequestStep DEF Kept
<1>2. CASE Started(r, p)
  <2>1. /\ ToolOf[p] \in AsyncTools /\ ~active[ToolOf[p]].busy
        /\ active' = [active EXCEPT ![ToolOf[p]] = Op(r, p)] /\ cancelling' = cancelling
    BY <1>2 DEF Started, IsAsync, Busy
  <2>2. active'[ToolOf[p]].busy
    BY <2>1 DEF Op, ExecutorInv, TypeOK
  <2> QED  BY <1>1, <2>1, <2>2
<1>3. CASE ~Started(r, p)
  <2>1. active' = active /\ cancelling' = cancelling
    BY <1>3 DEF Request, Denied, Repeated, RanSync, StillRunning, Unprepared, Rejected
  <2> QED  BY <1>1, <2>1
<1> QED  BY <1>2, <1>3

LEMMA ExecuteStep ==
  ASSUME ServerInv, Execute
  PROVE  ServerInv'
<1>1. TransportTyped /\ ExecutorInv
  BY TypeParts DEF ServerInv
<1>2. PICK h \in Https : h = executing
  BY <1>1 DEF Execute, TransportTyped
<1>3. /\ Content(h).kind = "execute"
      /\ Request(Content(h).id, Content(h).payload)
      /\ executing' = None
      /\ IF active' # active THEN Defer(h) ELSE Terminate(h)
      /\ UNCHANGED <<running, stopping, queue>>
  BY <1>2 DEF Execute
<1>4. Content(h).id \in Ids /\ Content(h).payload \in Payloads
  <2>1. Content(h) \in Contents
    BY <1>1, <1>2, ContentTyped DEF ServerInv, ThreadInv
  <2> QED  BY <1>3, <2>1 DEF Contents
<1> DEFINE r == Content(h).id
           p == Content(h).payload
<1>5. /\ ExecutorInv' /\ cancelling' = cancelling
      /\ \/ active' = active
         \/ /\ ToolOf[p] \in AsyncTools /\ ~active[ToolOf[p]].busy
            /\ active' = [active EXCEPT ![ToolOf[p]] = Op(r, p)]
            /\ active' # active
  BY <1>1, <1>3, <1>4, RequestActive
<1>6. CASE active' = active
  BY <1>2, <1>3, <1>5, <1>6, TerminatedStep
<1>7. CASE active' # active
  BY <1>2, <1>3, <1>5, <1>7, DeferredStep
<1> QED  BY <1>6, <1>7

LEMMA RunWorkflowStep ==
  ASSUME ServerInv, RunWorkflow
  PROVE  ServerInv'
<1>1. TransportTyped /\ ExecutorInv /\ TypeOK
  BY TypeParts DEF ServerInv
<1>2. PICK h \in Https : h = executing
  BY <1>1 DEF RunWorkflow, TransportTyped
<1>3. /\ Terminate(h) /\ executing' = None /\ UNCHANGED <<running, stopping, queue>>
      /\ UNCHANGED vars
  BY <1>2 DEF RunWorkflow
<1>4. ExecutorInv' /\ active' = active /\ cancelling' = cancelling
  BY <1>1, <1>3, SameExecutor
<1> QED  BY <1>2, <1>3, <1>4, TerminatedStep

LEMMA CancelExecuteStep ==
  ASSUME ServerInv, CancelExecute
  PROVE  ServerInv'
<1>1. TransportTyped /\ ExecutorInv /\ queue \in Seq(Https)
  BY TypeParts DEF ServerInv, TransportTyped
<1>2. PICK h \in Https : h = Head(queue) /\ Phase(h) = "queued"
  BY <1>1, HeadQueued DEF ServerInv, CancelExecute
<1> DEFINE r == Content(h).id
<1>3. /\ executing = None /\ queue # << >> /\ queue' = Tail(queue) /\ Content(h).kind = "cancel"
      /\ \/ Cancel(r) /\ CompleteHttp(ToolOf[inFlight[r].payload], {h})
         \/ /\ Answer({h}, Nothing)
            /\ UNCHANGED <<vars, waiting, marker, unwritten>>
      /\ UNCHANGED <<running, stopping, executing>>
  BY <1>2 DEF CancelExecute, GameThreadFree, Dequeued
<1>4. r \in RequestIds
  <2>1. Content(h) \in Contents
    BY <1>1, <1>2, ContentTyped
  <2> QED  BY <1>3, <2>1 DEF Contents
<1> HIDE DEF r
<1>5. CASE Cancel(r) /\ CompleteHttp(ToolOf[inFlight[r].payload], {h})
  <2> DEFINE t == ToolOf[inFlight[r].payload]
  <2>1. PICK u \in AsyncTools : u = t /\ active[u].busy
    BY <1>1, <1>5 DEF Cancel, ExecutorInv, InFlightInv, IsAsync
  <2>2. active' = [active EXCEPT ![u] = NoOp] /\ cancelling' = cancelling
    BY <1>5, <2>1 DEF Cancel, Complete
  <2>3. ExecutorInv'
    BY <1>1, <1>4, <1>5, CancelStep DEF Kept
  <2>4. CompleteHttp(u, {h})
    BY <1>5, <2>1
  <2> HIDE DEF t
  <2> QED  BY <1>2, <1>3, <2>1, <2>2, <2>3, <2>4, CompletedStep
<1>6. CASE Answer({h}, Nothing) /\ UNCHANGED <<vars, waiting, marker, unwritten>>
  BY <1>2, <1>3, <1>6, TurnedDownStep
<1> QED  BY <1>3, <1>5, <1>6

LEMMA FinishToolStep ==
  ASSUME ServerInv, NEW t \in AsyncTools, FinishTool(t)
  PROVE  ServerInv'
<1>1. /\ executing = None /\ Finish(t) /\ CompleteHttp(t, {})
      /\ UNCHANGED <<running, stopping, queue, executing>>
  BY DEF FinishTool, GameThreadFree
<1>2. /\ active[t].busy /\ active' = [active EXCEPT ![t] = NoOp] /\ cancelling' = cancelling
  BY <1>1 DEF Finish, Complete
<1>3. ExecutorInv'
  BY <1>1, ToolStep DEF Kept, ServerInv
<1>4. {} \in SUBSET Https
  OBVIOUS
<1> QED  BY <1>1, <1>2, <1>3, <1>4, CompletedStep

---------------------------------------------------------------------------
(* Stop and Start.                                                         *)

\* Requests, completions and operations are left alone.
LEMMA QuietServer ==
  ASSUME ServerInv, ExecutorInv', running' \in BOOLEAN, stopping' \in BOOLEAN,
         UNCHANGED <<active, queue, http, waiting, executing, marker, unwritten, answers>>
  PROVE  StopInv' => ServerInv'
<1>1. TransportTyped /\ TypeOK'
  BY TypeParts DEF ServerInv, ExecutorInv
<1>2. ServerTypeOK'
  BY <1>1, TypePartsNext DEF TransportTyped
<1>3. QueueInv' /\ ThreadInv' /\ HeldInv' /\ CountInv'
  BY DEF ServerInv, QueueInv, ThreadInv, HeldInv, CountInv, Phase
<1>4. DeferredIsActive' /\ MarkerNamesExecuting'
  BY DEF ServerInv, DeferredIsActive, MarkerNamesExecuting, Marker, MarkerId, Phase, Content
<1> QED  BY <1>2, <1>3, <1>4 DEF ServerInv

LEMMA StopStep ==
  ASSUME ServerInv, Stop
  PROVE  ServerInv'
<1>1. /\ executing = None /\ stopping' = TRUE /\ CancelAll
      /\ UNCHANGED <<running, queue, http, waiting, executing, marker, unwritten, answers>>
      /\ running
  BY DEF Stop, GameThreadFree, BeginCancel
<1>2. ExecutorInv'
  BY <1>1, ClockStep DEF Kept, ServerInv
<1>3. cancelling' = AsyncTools /\ active' = active
  BY <1>1 DEF CancelAll
<1>4. StopInv'
  BY <1>1, <1>3 DEF StopInv, Busy
<1> QED  BY <1>1, <1>2, <1>3, <1>4, QuietServer DEF ServerInv, ServerTypeOK

LEMMA StopToolStep ==
  ASSUME ServerInv, NEW t \in AsyncTools, StopTool(t)
  PROVE  ServerInv'
<1>1. /\ stopping /\ CancelNext(t) /\ executing = None /\ t \in cancelling
      /\ cancelling' = cancelling \ {t}
      /\ UNCHANGED <<running, stopping, queue, executing>>
  BY DEF StopTool, CancelNext, ServerInv, StopInv
<1>2. ExecutorInv'
  BY <1>1, ToolStep DEF Kept, ServerInv
<1>3. CASE active[t].busy
  <2>1. CompleteHttp(t, {}) /\ active' = [active EXCEPT ![t] = NoOp]
    BY <1>1, <1>3 DEF StopTool, CancelNext, Complete
  <2>2. {} \in SUBSET Https
    OBVIOUS
  <2> QED  BY <1>1, <1>2, <1>3, <2>1, <2>2, CompletedStep
<1>4. CASE ~active[t].busy
  <2>1. UNCHANGED <<active, http, waiting, marker, unwritten, answers>>
    BY <1>1, <1>4 DEF StopTool, CancelNext
  <2>2. StopInv'
    BY <1>1, <1>4, <2>1 DEF ServerInv, StopInv, Busy
  <2> QED  BY <1>1, <1>2, <2>1, <2>2, QuietServer DEF ServerInv, ServerTypeOK
<1> QED  BY <1>3, <1>4

LEMMA DrainStep ==
  ASSUME ServerInv, Drain \/ Start
  PROVE  ServerInv'
<1>1. CASE DrainOne
  BY <1>1, TurnedDownStep DEF DrainOne, Dequeued, TurnedAway
<1>2. CASE Unbind \/ Stopped \/ Start
  <2>1. /\ UNCHANGED vars /\ UNCHANGED <<queue, http, waiting, executing, marker, unwritten, answers>>
        /\ running' \in BOOLEAN /\ stopping' \in BOOLEAN
    BY <1>2 DEF Unbind, Stopped, Start, ServerInv, ServerTypeOK
  <2>2. ExecutorInv' /\ active' = active /\ cancelling' = cancelling
    BY <2>1, SameExecutor DEF ServerInv, ExecutorInv
  <2>3. StopInv'
    BY <1>2, <2>1, <2>2 DEF Unbind, Stopped, Start, GameThreadFree, ServerInv, StopInv, Busy
  <2> QED  BY <2>1, <2>2, <2>3, QuietServer
<1> QED  BY <1>1, <1>2 DEF Drain

LEMMA ServerNextStep ==
  ASSUME ServerInv, ServerNext
  PROVE  ServerInv'
<1>1. CASE TurnDown
  BY <1>1, TurnedDownStep DEF TurnDown, Dequeued
<1>2. CASE Stop \/ Drain \/ Start
  BY <1>2, StopStep, DrainStep
<1> QED  BY <1>1, <1>2, AnswerAtOnceStep, ArriveStep, EnqueueStep, DispatchStep,
            CancelExecuteStep, ExecuteStep, RunWorkflowStep, FinishToolStep, StopToolStep
         DEF ServerNext, Process

LEMMA ServerStutter ==
  ASSUME ServerInv, UNCHANGED serverVars
  PROVE  ServerInv'
<1>1. /\ UNCHANGED vars /\ UNCHANGED <<running, stopping>>
      /\ UNCHANGED <<queue, http, waiting, executing, marker, unwritten, answers>>
  BY DEF serverVars, transport
<1>2. ExecutorInv' /\ active' = active /\ cancelling' = cancelling
  BY <1>1, SameExecutor DEF ServerInv, ExecutorInv
<1>3. StopInv'
  BY <1>1, <1>2 DEF ServerInv, StopInv, Busy
<1> QED  BY <1>1, <1>2, <1>3, QuietServer DEF ServerInv, ServerTypeOK

LEMMA ServerInitial == ServerInit => ServerInv
<1> SUFFICES ASSUME ServerInit
             PROVE  ServerInv
  OBVIOUS
<1>1. ExecutorInv
  BY InitiallyTrue DEF ServerInit
<1>2. /\ running = TRUE /\ stopping = FALSE /\ queue = << >> /\ Len(queue) = 0
      /\ \A h \in Https : http[h] = Absent /\ answers[h] = 0
      /\ http = [h \in Https |-> Absent] /\ answers = [h \in Https |-> 0]
      /\ waiting = [t \in AsyncTools |-> None]
      /\ executing = None /\ marker = NoMarker /\ unwritten = FALSE
  BY DEF ServerInit
<1>3. \A h \in Https : Phase(h) = "none"
  BY <1>2 DEF Phase, Absent
<1>4. TransportTyped
  <2>1. http \in [Https -> {Absent} \cup [phase : Phases, content : Contents]]
    BY <1>2
  <2>2. answers \in [Https -> Nat] /\ waiting \in [AsyncTools -> Https \cup {None}]
    BY <1>2
  <2>3. queue \in Seq(Https)
    BY <1>2
  <2> QED  BY <1>2, <2>1, <2>2, <2>3 DEF TransportTyped
<1>5. ServerTypeOK
  BY <1>1, <1>4, TypeParts DEF ExecutorInv
<1>6. QueueInv /\ ThreadInv /\ HeldInv /\ CountInv
  BY <1>2, <1>3 DEF QueueInv, ThreadInv, HeldInv, CountInv
<1>7. /\ \A t \in AsyncTools : ~active[t].busy
      /\ cancelling = {}
  BY DEF ServerInit, Init, NoOp
<1>8. DeferredIsActive /\ MarkerNamesExecuting /\ StopInv
  BY <1>2, <1>7 DEF DeferredIsActive, MarkerNamesExecuting, StopInv, NoMarker
<1> QED  BY <1>1, <1>5, <1>6, <1>8 DEF ServerInv

---------------------------------------------------------------------------
(* The theorems.                                                           *)

\* Requests, completions, operations, the marker and Stop fit together.
THEOREM ServerInvariance == ServerSpec => []ServerInv
<1>1. ServerInv /\ [ServerNext]_serverVars => ServerInv'
  BY ServerNextStep, ServerStutter
<1> QED  BY <1>1, ServerInitial, PTL DEF ServerSpec

\* The variables of the transport and of the executor have their types.
THEOREM ServerTypeCorrect == ServerSpec => []ServerTypeOK
<1>1. ServerInv => ServerTypeOK
  BY DEF ServerInv
<1> QED  BY <1>1, ServerInvariance, PTL

\* QueueRequest, ProcessOneRequest, the tools' completions, Stop: no OnComplete is
\* called twice, and a request without an answer is in exactly one place that will
\* answer it.
THEOREM RequestsAreAnsweredOnce == ServerSpec => []AnsweredOnce
<1>1. ASSUME ServerInv
      PROVE  AnsweredOnce
  <2> SUFFICES ASSUME NEW h \in Https
               PROVE  /\ answers[h] = (IF Phase(h) = "answered" THEN 1 ELSE 0)
                      /\ Cardinality({i \in DOMAIN queue : queue[i] = h}) =
                           (IF Phase(h) = "queued" THEN 1 ELSE 0)
                      /\ executing = h <=> Phase(h) = "executing"
                      /\ Cardinality({t \in AsyncTools : waiting[t] = h}) =
                           (IF Phase(h) = "deferred" THEN 1 ELSE 0)
    BY DEF AnsweredOnce
  <2>1. DOMAIN queue = 1..Len(queue)
    BY <1>1 DEF ServerInv, ServerTypeOK
  <2>2. Cardinality({i \in DOMAIN queue : queue[i] = h}) =
          (IF Phase(h) = "queued" THEN 1 ELSE 0)
    <3>1. CASE Phase(h) = "queued"
      <4>1. PICK i \in 1..Len(queue) : queue[i] = h
        BY <1>1, <3>1 DEF ServerInv, QueueInv
      <4>2. {j \in DOMAIN queue : queue[j] = h} = {i}
        BY <1>1, <2>1, <4>1 DEF ServerInv, QueueInv
      <4> QED  BY <3>1, <4>2, FS_Singleton
    <3>2. CASE Phase(h) # "queued"
      <4>1. {j \in DOMAIN queue : queue[j] = h} = {}
        BY <1>1, <2>1, <3>2 DEF ServerInv, QueueInv
      <4> QED  BY <3>2, <4>1, FS_EmptySet
    <3> QED  BY <3>1, <3>2
  <2>3. Cardinality({t \in AsyncTools : waiting[t] = h}) =
          (IF Phase(h) = "deferred" THEN 1 ELSE 0)
    <3>1. CASE Phase(h) = "deferred"
      <4>1. PICK t \in AsyncTools : waiting[t] = h
        BY <1>1, <3>1 DEF ServerInv, HeldInv
      <4>2. {u \in AsyncTools : waiting[u] = h} = {t}
        BY <1>1, <4>1 DEF ServerInv, HeldInv
      <4> QED  BY <3>1, <4>2, FS_Singleton
    <3>2. CASE Phase(h) # "deferred"
      <4>1. {u \in AsyncTools : waiting[u] = h} = {}
        BY <1>1, <3>2 DEF ServerInv, HeldInv
      <4> QED  BY <3>2, <4>1, FS_EmptySet
    <3> QED  BY <3>1, <3>2
  <2> QED  BY <1>1, <2>2, <2>3 DEF ServerInv, CountInv, ThreadInv
<1> QED  BY <1>1, ServerInvariance, PTL

\* BeginExecuteAsync and the tools: a tool holds the completion of a request exactly
\* while it works on that request's payload.
THEOREM HeldIsActive == ServerSpec => []DeferredIsActive
<1>1. ServerInv => DeferredIsActive
  BY DEF ServerInv
<1> QED  BY <1>1, ServerInvariance, PTL

\* WriteRequestMarker: unless the last marker could not be written, the marker names
\* the request the Game Thread runs, and is "running" only of a request that has not
\* ended.
THEOREM MarkerIsHonest == ServerSpec => []MarkerNamesExecuting
<1>1. ServerInv => MarkerNamesExecuting
  BY DEF ServerInv
<1> QED  BY <1>1, ServerInvariance, PTL

\* Stop: no operation is under way when it returns, and no completion is held.
THEOREM StopEndsOperations == ServerSpec => StopLeavesNoOperation
<1>1. ServerInv /\ [ServerNext]_serverVars =>
        [stopping /\ ~stopping' =>
           Busy' = {} /\ \A h \in Https : http'[h].phase # "deferred"]_serverVars
  <2> SUFFICES ASSUME ServerInv, ServerNext, stopping, ~stopping'
               PROVE  Busy' = {} /\ \A h \in Https : http'[h].phase # "deferred"
    BY DEF serverVars, transport
  <2>1. Stopped
    BY DEF ServerNext, AnswerAtOnce, Arrive, Enqueue, Process, TurnDown, Dispatch,
           CancelExecute, GameThreadFree, Execute, RunWorkflow, FinishTool, StopTool, Stop,
           Drain, Unbind, DrainOne, Start
  <2>2. /\ UNCHANGED vars /\ http' = http /\ ~running
    BY <2>1 DEF Stopped
  <2>3. active' = active
    BY <2>2 DEF vars
  <2>4. Busy = {}
    BY <2>2 DEF ServerInv, StopInv
  <2>5. \A t \in AsyncTools : waiting[t] = None
    BY <2>4 DEF ServerInv, DeferredIsActive, Busy
  <2>6. \A h \in Https : Phase(h) # "deferred"
    BY <2>5 DEF ServerInv, HeldInv
  <2> QED  BY <2>2, <2>3, <2>4, <2>6 DEF Busy, Phase
<1> QED  BY <1>1, ServerInvariance, PTL DEF ServerSpec, StopLeavesNoOperation
=============================================================================
