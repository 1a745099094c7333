----------------------- MODULE RequestExecutorProofs -----------------------
(***************************************************************************)
(* Theorems about RequestExecutor, for any requestIds, payloads and tools,  *)
(* and any capacity and retention of the cache.                             *)
(***************************************************************************)
EXTENDS RequestExecutor, FiniteSetTheorems, TLAPS

---------------------------------------------------------------------------
(* The inductive invariant.                                                *)

\* A request in flight is what its tool works on.
InFlightInv ==
  \A r \in DOMAIN inFlight :
    /\ IsAsync(inFlight[r].payload)
    /\ active[ToolOf[inFlight[r].payload]] = Op(r, inFlight[r].payload)

\* A tool works on payloads of its own; under a requestId, on one in flight.
OpInv ==
  \A t \in AsyncTools : active[t].busy =>
    /\ ToolOf[active[t].payload] = t
    /\ active[t].request # NoId =>
         /\ active[t].request \in DOMAIN inFlight
         /\ inFlight[active[t].request].payload = active[t].payload

\* A record was last used when it was answered, less the time its handler took, or
\* later.
AgeInv ==
  \A r \in DOMAIN cache :
    answered[r] <= now /\ cache[r].last <= now /\ answered[r] - MaxRun <= cache[r].last

ExecutorInv == TypeOK /\ InFlightInv /\ OpInv /\ AgeInv

USE ExecutorAssumption

---------------------------------------------------------------------------
(* The cache.                                                              *)

CacheType(c) ==
  /\ DOMAIN c \subseteq RequestIds /\ \A r \in DOMAIN c : c[r] \in Record
  /\ Cardinality(DOMAIN c) <= MaxRecords

LEMMA FiniteIds ==
  ASSUME NEW S \in SUBSET RequestIds
  PROVE  IsFiniteSet(S) /\ Cardinality(S) \in Nat
BY FS_Subset, FS_CardinalityType

LEMMA StoredCache ==
  ASSUME NEW c, CacheType(c), NEW r \in RequestIds, NEW p \in Payloads,
         NEW a \in Answers, NEW time \in 0..MaxClock, NEW d \in Stored(c, r, p, a, time)
  PROVE  /\ CacheType(d)
         /\ r \in DOMAIN d /\ d[r] = [payload |-> p, result |-> a, last |-> time]
         /\ \A q \in DOMAIN d \ {r} : q \in DOMAIN c /\ d[q] = c[q]
         /\ Cardinality(DOMAIN c) < MaxRecords => DOMAIN c \subseteq DOMAIN d
<1> DEFINE record == [payload |-> p, result |-> a, last |-> time]
<1>1. record \in Record
  BY DEF Record
<1>2. DOMAIN c \in SUBSET RequestIds /\ Cardinality(DOMAIN c) \in Nat
      /\ IsFiniteSet(DOMAIN c)
  BY FiniteIds DEF CacheType
<1>3. CASE Cardinality(DOMAIN c) < MaxRecords
  <2>1. d = [q \in DOMAIN c \cup {r} |-> IF q = r THEN record ELSE c[q]]
    BY <1>3 DEF Stored, With
  <2> HIDE DEF record
  <2>2. DOMAIN d = DOMAIN c \cup {r} /\ d[r] = record
        /\ \A q \in DOMAIN d \ {r} : q \in DOMAIN c /\ d[q] = c[q]
    BY <2>1
  <2>3. Cardinality(DOMAIN d) <= MaxRecords
    <3>1. Cardinality(DOMAIN c \cup {r}) =
            IF r \in DOMAIN c THEN Cardinality(DOMAIN c) ELSE Cardinality(DOMAIN c) + 1
      BY <1>2, FS_AddElement
    <3>2. Cardinality(DOMAIN d) = Cardinality(DOMAIN c \cup {r})
      BY <2>2
    <3> QED  BY <1>2, <1>3, <3>1, <3>2
  <2>4. CacheType(d)
    BY <1>1, <1>2, <2>2, <2>3 DEF CacheType
  <2> QED  BY <2>2, <2>4 DEF record
<1>4. CASE ~(Cardinality(DOMAIN c) < MaxRecords)
  <2>1. PICK old \in DOMAIN c : d = With(Without(c, old), r, record)
    BY <1>4 DEF Stored, OldestOf
  <2>2. d = [q \in (DOMAIN c \ {old}) \cup {r} |-> IF q = r THEN record
                                                ELSE [x \in DOMAIN c \ {old} |-> c[x]][q]]
    BY <2>1 DEF With, Without, Restrict
  <2> HIDE DEF record
  <2>3. DOMAIN d = (DOMAIN c \ {old}) \cup {r} /\ d[r] = record
        /\ \A q \in DOMAIN d \ {r} : q \in DOMAIN c /\ d[q] = c[q]
    BY <2>2
  <2>4. /\ Cardinality(DOMAIN c \ {old}) = Cardinality(DOMAIN c) - 1
        /\ IsFiniteSet(DOMAIN c \ {old})
    BY <1>2, FS_RemoveElement
  <2>5. Cardinality(DOMAIN d) <= Cardinality(DOMAIN c \ {old}) + 1
    <3>1. Cardinality((DOMAIN c \ {old}) \cup {r}) =
            IF r \in DOMAIN c \ {old} THEN Cardinality(DOMAIN c \ {old})
                                     ELSE Cardinality(DOMAIN c \ {old}) + 1
      BY <2>4, FS_AddElement
    <3>2. Cardinality(DOMAIN d) = Cardinality((DOMAIN c \ {old}) \cup {r})
      BY <2>3
    <3> QED  BY <1>2, <2>4, <3>1, <3>2
  <2>6. Cardinality(DOMAIN d) <= MaxRecords
    <3>1. Cardinality(DOMAIN c) <= MaxRecords
      BY DEF CacheType
    <3>2. Cardinality(DOMAIN d) \in Nat
      BY <1>2, <2>3, FiniteIds
    <3> QED  BY <1>2, <2>4, <2>5, <3>1, <3>2
  <2>7. CacheType(d)
    BY <1>1, <1>2, <2>3, <2>6 DEF CacheType
  <2> QED  BY <1>4, <2>3, <2>7 DEF record
<1> QED  BY <1>3, <1>4

LEMMA PrunedCache ==
  ASSUME TypeOK
  PROVE  LET c == Restrict(cache, Fresh)
         IN  /\ CacheType(c) /\ DOMAIN c = Fresh /\ Fresh \subseteq DOMAIN cache
             /\ \A q \in Fresh : c[q] = cache[q]
             /\ Cardinality(DOMAIN cache) < MaxRecords =>
                  Cardinality(DOMAIN c) < MaxRecords
<1>1. /\ Fresh \subseteq DOMAIN cache /\ DOMAIN cache \in SUBSET RequestIds
      /\ Cardinality(DOMAIN cache) <= MaxRecords
  BY DEF Fresh, TypeOK
<1>2. /\ DOMAIN Restrict(cache, Fresh) = Fresh
      /\ \A q \in Fresh : Restrict(cache, Fresh)[q] = cache[q]
  BY DEF Restrict
<1>3. /\ Cardinality(Fresh) <= Cardinality(DOMAIN cache)
      /\ Cardinality(Fresh) \in Nat /\ Cardinality(DOMAIN cache) \in Nat
  BY <1>1, FiniteIds, FS_Subset
<1>4. CacheType(Restrict(cache, Fresh))
  BY <1>1, <1>2, <1>3 DEF CacheType, TypeOK
<1> QED  BY <1>1, <1>2, <1>3, <1>4

---------------------------------------------------------------------------
(* Steps of the cache.                                                     *)

CacheTyped ==
  /\ CacheType(cache) /\ DOMAIN answered = DOMAIN cache
  /\ \A r \in DOMAIN answered : answered[r] \in 0..MaxClock

\* A step of the cache: nothing of before it has become younger, and what it has lost
\* without need was old.
Aged ==
  /\ CacheTyped' /\ AgeInv'
  /\ \A r \in DOMAIN cache \ DOMAIN cache' : Cardinality(DOMAIN cache) < MaxRecords =>
       now - answered[r] > Retention - MaxRun

LEMMA StaleIsOld ==
  ASSUME ExecutorInv, NEW r \in DOMAIN cache, r \notin Fresh
  PROVE  now - answered[r] > Retention - MaxRun
<1>1. /\ cache[r].last \in Int /\ now \in Int /\ answered[r] \in Int
      /\ answered[r] - MaxRun <= cache[r].last
  BY DEF ExecutorInv, TypeOK, AgeInv, Record
<1>2. ~(cache[r].last >= now - Retention)
  BY DEF Fresh
<1> QED  BY <1>1, <1>2

\* PruneIdempotencyCache alone.
LEMMA PruneStep ==
  ASSUME ExecutorInv, now' = now, PrunedForAsync
  PROVE  Aged
<1>1. /\ CacheType(cache') /\ DOMAIN cache' = Fresh /\ Fresh \subseteq DOMAIN cache
      /\ \A q \in Fresh : cache'[q] = cache[q]
  BY PrunedCache DEF PrunedForAsync, ExecutorInv
<1>2. DOMAIN answered' = Fresh /\ \A q \in Fresh : answered'[q] = answered[q]
  BY DEF PrunedForAsync, Restrict
<1>3. CacheTyped' /\ AgeInv'
  BY <1>1, <1>2 DEF CacheTyped, AgeInv, ExecutorInv, TypeOK, CacheType
<1>4. \A r \in DOMAIN cache \ DOMAIN cache' : now - answered[r] > Retention - MaxRun
  BY <1>1, StaleIsOld
<1> QED  BY <1>3, <1>4 DEF Aged

\* An answer is stored in a cache of which only stale records were pruned.
LEMMA StoreStep ==
  ASSUME ExecutorInv, NEW S \in SUBSET DOMAIN cache, Fresh \subseteq S,
         NEW c, DOMAIN c = S, \A q \in S : c[q] = cache[q], NEW r \in RequestIds, NEW p \in Payloads,
         NEW a \in Answers, NEW d \in 0..MaxRun, now' = now + d, now' \in 0..MaxClock,
         cache' \in Stored(c, r, p, a, now), AnsweredAt(r, now')
  PROVE  /\ Aged
         /\ r \in DOMAIN cache' /\ cache'[r].payload = p /\ cache'[r].result = a
         /\ \A q \in DOMAIN cache' \ {r} : q \in S /\ cache'[q] = cache[q]
<1>1. /\ DOMAIN c = S /\ \A q \in S : c[q] = cache[q]
  OBVIOUS
<1>2. /\ now \in 0..MaxClock /\ DOMAIN cache \in SUBSET RequestIds
      /\ Cardinality(DOMAIN cache) <= MaxRecords
      /\ \A q \in DOMAIN cache : cache[q] \in Record /\ answered[q] \in 0..MaxClock
  BY DEF ExecutorInv, TypeOK
<1>3. /\ Cardinality(S) <= Cardinality(DOMAIN cache)
      /\ Cardinality(S) \in Nat /\ Cardinality(DOMAIN cache) \in Nat
  BY <1>2, FiniteIds, FS_Subset
<1>4. CacheType(c)
  BY <1>1, <1>2, <1>3 DEF CacheType
<1>5. /\ CacheType(cache')
      /\ r \in DOMAIN cache' /\ cache'[r] = [payload |-> p, result |-> a, last |-> now]
      /\ \A q \in DOMAIN cache' \ {r} : q \in S /\ cache'[q] = cache[q]
      /\ Cardinality(S) < MaxRecords => S \subseteq DOMAIN cache'
  BY <1>1, <1>2, <1>4, StoredCache
<1>6. /\ DOMAIN answered' = DOMAIN cache' /\ answered'[r] = now'
      /\ \A q \in DOMAIN cache' \ {r} : answered'[q] = answered[q]
  BY <1>5 DEF AnsweredAt
<1>7. CacheTyped'
  BY <1>2, <1>5, <1>6 DEF CacheTyped
<1>8. AgeInv'
  <2> SUFFICES ASSUME NEW q \in DOMAIN cache'
               PROVE  /\ answered'[q] <= now' /\ cache'[q].last <= now'
                      /\ answered'[q] - MaxRun <= cache'[q].last
    BY DEF AgeInv
  <2>1. CASE q = r
    BY <1>2, <1>5, <1>6, <2>1
  <2>2. CASE q # r
    <3>1. /\ answered'[q] = answered[q] /\ cache'[q] = cache[q] /\ q \in DOMAIN cache
      BY <1>5, <1>6, <2>2
    <3>2. /\ answered[q] <= now /\ cache[q].last <= now
          /\ answered[q] - MaxRun <= cache[q].last
      BY <3>1 DEF ExecutorInv, AgeInv
    <3>3. answered[q] \in Int /\ cache[q].last \in Int
      BY <1>2, <3>1 DEF Record
    <3> QED  BY <1>2, <3>1, <3>2, <3>3
  <2> QED  BY <2>1, <2>2
<1>9. ASSUME NEW q \in DOMAIN cache \ DOMAIN cache', Cardinality(DOMAIN cache) < MaxRecords
      PROVE  now - answered[q] > Retention - MaxRun
  <2>1. q \notin Fresh
    BY <1>3, <1>5, <1>9
  <2> QED  BY <2>1, StaleIsOld
<1> QED  BY <1>5, <1>7, <1>8, <1>9 DEF Aged

\* The cache is left alone.
LEMMA NoCacheStep ==
  ASSUME ExecutorInv, UNCHANGED <<cache, answered>>, now' \in 0..MaxClock, now' >= now
  PROVE  Aged
<1>1. CacheTyped'
  BY DEF ExecutorInv, TypeOK, CacheTyped, CacheType
<1>2. AgeInv'
  <2> SUFFICES ASSUME NEW q \in DOMAIN cache
               PROVE  /\ answered[q] <= now' /\ cache[q].last <= now'
                      /\ answered[q] - MaxRun <= cache[q].last
    BY DEF AgeInv
  <2>1. /\ answered[q] \in Int /\ cache[q].last \in Int /\ now \in Int /\ now' \in Int
        /\ answered[q] <= now /\ cache[q].last <= now /\ answered[q] - MaxRun <= cache[q].last
    BY DEF ExecutorInv, TypeOK, AgeInv, Record
  <2> QED  BY <2>1
<1> QED  BY <1>1, <1>2 DEF Aged

---------------------------------------------------------------------------
(* The steps.                                                              *)

OpType == [busy : {TRUE}, request : Ids, payload : Payloads]
RestTyped ==
  /\ now \in 0..MaxClock
  /\ DOMAIN inFlight \subseteq RequestIds
  /\ \A r \in DOMAIN inFlight : inFlight[r] \in [payload : Payloads]
  /\ active \in [AsyncTools -> {NoOp} \cup OpType]
  /\ cancelling \subseteq AsyncTools

ForgetsTheOld ==
  \A r \in DOMAIN cache \ DOMAIN cache' : Cardinality(DOMAIN cache) < MaxRecords =>
    now - answered[r] > Retention - MaxRun

Kept == ExecutorInv' /\ ForgetsTheOld

LEMMA KeptParts ==
  ASSUME Aged, RestTyped', InFlightInv', OpInv'
  PROVE  Kept
BY DEF Kept, Aged, ForgetsTheOld, RestTyped, ExecutorInv, TypeOK, CacheTyped, CacheType, OpType

\* The tools and what is in flight are left alone.
LEMMA SameFlight ==
  ASSUME ExecutorInv, Aged, UNCHANGED <<inFlight, active>>, now' \in 0..MaxClock,
         cancelling' \subseteq AsyncTools
  PROVE  Kept
<1>1. RestTyped'
  BY DEF ExecutorInv, TypeOK, RestTyped, OpType
<1>2. InFlightInv' /\ OpInv'
  BY DEF ExecutorInv, InFlightInv, OpInv
<1> QED  BY <1>1, <1>2, KeptParts

LEMMA QuietStep ==
  ASSUME ExecutorInv, UNCHANGED <<memory, active>>, now' \in 0..MaxClock, now' >= now,
         cancelling' \subseteq AsyncTools
  PROVE  Kept
BY NoCacheStep, SameFlight DEF memory

LEMMA RepeatedStep ==
  ASSUME ExecutorInv, NEW r, NEW p, Repeated(r, p)
  PROVE  Kept
<1> DEFINE c == Restrict(cache, Fresh)
<1>1. /\ CacheType(c) /\ DOMAIN c = Fresh /\ Fresh \subseteq DOMAIN cache
      /\ \A q \in Fresh : c[q] = cache[q]
  BY PrunedCache DEF ExecutorInv
<1>2. /\ r \in Fresh /\ cache' = [c EXCEPT ![r].last = now]
      /\ answered' = Restrict(answered, Fresh)
      /\ UNCHANGED <<now, inFlight, active, cancelling>>
  BY DEF Repeated
<1>3. now \in 0..MaxClock /\ \A q \in DOMAIN cache : cache[q] \in Record
  BY DEF ExecutorInv, TypeOK
<1> HIDE DEF c
<1>4. /\ DOMAIN cache' = Fresh
      /\ cache'[r] = [cache[r] EXCEPT !.last = now]
      /\ \A q \in Fresh \ {r} : cache'[q] = cache[q]
  BY <1>1, <1>2
<1>5. cache'[r] \in Record /\ cache'[r].last = now
  BY <1>1, <1>2, <1>3, <1>4 DEF Record
<1>6. DOMAIN answered' = Fresh /\ \A q \in Fresh : answered'[q] = answered[q]
  BY <1>2 DEF Restrict
<1>7. CacheTyped'
  <2>1. CacheType(cache')
    BY <1>1, <1>3, <1>4, <1>5 DEF CacheType
  <2> QED  BY <1>1, <1>4, <1>6, <2>1 DEF CacheTyped, ExecutorInv, TypeOK
<1>8. AgeInv'
  <2> SUFFICES ASSUME NEW q \in Fresh
               PROVE  /\ answered'[q] <= now' /\ cache'[q].last <= now'
                      /\ answered'[q] - MaxRun <= cache'[q].last
    BY <1>4 DEF AgeInv
  <2>1. /\ q \in DOMAIN cache /\ answered'[q] = answered[q] /\ now' = now
        /\ cache'[q].last = IF q = r THEN now ELSE cache[q].last
    BY <1>1, <1>2, <1>4, <1>5, <1>6
  <2>2. /\ answered[q] <= now /\ cache[q].last <= now
        /\ answered[q] - MaxRun <= cache[q].last /\ answered[q] \in Int
    BY <2>1 DEF ExecutorInv, AgeInv, TypeOK
  <2> QED  BY <1>3, <2>1, <2>2
<1>9. Aged
  BY <1>1, <1>4, <1>7, <1>8, StaleIsOld DEF Aged
<1> QED  BY <1>2, <1>3, <1>9, SameFlight DEF ExecutorInv, TypeOK

LEMMA RanSyncStep ==
  ASSUME ExecutorInv, NEW r \in Ids, NEW p \in Payloads, RanSync(r, p)
  PROVE  Kept
<1>1. PICK a \in Outcomes \cup {"unprepared"}, d \in 0..MaxRun :
        /\ now + d <= MaxClock
        /\ now' = now + d
        /\ IF r = NoId THEN UNCHANGED <<cache, answered>>
           ELSE /\ cache' \in Stored(Restrict(cache, Fresh), r, p, a, now)
                /\ AnsweredAt(r, now + d)
  BY DEF RanSync
<1>2. now' \in 0..MaxClock /\ now' >= now
  BY <1>1 DEF ExecutorInv, TypeOK
<1>3. Aged
  <2>1. CASE r = NoId
    BY <1>1, <1>2, <2>1, NoCacheStep
  <2>2. CASE r # NoId
    <3> DEFINE c == Restrict(cache, Fresh)
    <3>1. DOMAIN c = Fresh /\ \A q \in Fresh : c[q] = cache[q]
      BY DEF Restrict
    <3>2. /\ r \in RequestIds /\ a \in Answers /\ Fresh \in SUBSET DOMAIN cache
          /\ cache' \in Stored(c, r, p, a, now) /\ AnsweredAt(r, now')
      BY <1>1, <2>2 DEF Ids, Answers, OwnAnswers, Fresh
    <3> HIDE DEF c
    <3> QED  BY <1>1, <1>2, <3>1, <3>2, StoreStep
  <2> QED  BY <2>1, <2>2
<1> QED  BY <1>2, <1>3, SameFlight DEF RanSync, ExecutorInv, TypeOK

LEMMA RefusedStep ==
  ASSUME ExecutorInv, NEW r \in Ids, NEW p \in Payloads,
         StillRunning(r, p) \/ Unprepared(r, p) \/ Rejected(r, p)
  PROVE  Kept
<1>1. UNCHANGED <<now, inFlight, active, cancelling>>
  BY DEF StillRunning, Unprepared, Rejected
<1>2. Aged
  <2>1. CASE StillRunning(r, p) \/ Unprepared(r, p)
    BY <1>1, <2>1, PruneStep DEF StillRunning, Unprepared
  <2>2. CASE Rejected(r, p)
    <3>1. CASE r = NoId
      BY <1>1, <2>2, <3>1, PruneStep DEF Rejected
    <3>2. CASE r # NoId
      <4> DEFINE c == Restrict(cache, Fresh)
      <4>1. cache' \in Stored(c, r, p, "rejected", now) /\ AnsweredAt(r, now')
        BY <1>1, <2>2, <3>2 DEF Rejected
      <4>4. /\ DOMAIN c = Fresh /\ \A q \in Fresh : c[q] = cache[q]
            /\ Fresh \in SUBSET DOMAIN cache
        BY DEF Restrict, Fresh
      <4>2. now' = now + 0 /\ now' \in 0..MaxClock /\ 0 \in 0..MaxRun
        BY <1>1 DEF ExecutorInv, TypeOK
      <4>3. r \in RequestIds /\ "rejected" \in Answers
        BY <3>2 DEF Ids, Answers, OwnAnswers
      <4> HIDE DEF c
      <4> QED  BY <4>1, <4>2, <4>3, <4>4, StoreStep
    <3> QED  BY <3>1, <3>2
  <2> QED  BY <2>1, <2>2
<1> QED  BY <1>1, <1>2, SameFlight DEF ExecutorInv, TypeOK

LEMMA StartedStep ==
  ASSUME ExecutorInv, NEW r \in Ids, NEW p \in Payloads, Started(r, p)
  PROVE  Kept
<1> DEFINE t == ToolOf[p]
<1>1. /\ t \in AsyncTools /\ ~active[t].busy /\ r \notin DOMAIN inFlight
      /\ inFlight' = IF r = NoId THEN inFlight ELSE With(inFlight, r, [payload |-> p])
      /\ active' = [active EXCEPT ![t] = Op(r, p)]
      /\ PrunedForAsync /\ UNCHANGED <<now, cancelling>>
  BY DEF Started, IsAsync, Busy, KnownInFlight
<1>2. RestTyped
  BY DEF ExecutorInv, TypeOK, RestTyped, OpType
<1> HIDE DEF t
<1>3. /\ DOMAIN inFlight' = IF r = NoId THEN DOMAIN inFlight ELSE DOMAIN inFlight \cup {r}
      /\ r # NoId => inFlight'[r] = [payload |-> p]
      /\ \A q \in DOMAIN inFlight : inFlight'[q] = inFlight[q]
  BY <1>1 DEF With
<1>4. /\ active' \in [AsyncTools -> {NoOp} \cup OpType]
      /\ active'[t] = Op(r, p)
      /\ \A u \in AsyncTools \ {t} : active'[u] = active[u]
  BY <1>1, <1>2 DEF RestTyped, Op, OpType
<1>5. RestTyped'
  BY <1>1, <1>2, <1>3, <1>4 DEF RestTyped, Ids
<1>6. InFlightInv'
  <2> SUFFICES ASSUME NEW q \in DOMAIN inFlight'
               PROVE  /\ IsAsync(inFlight'[q].payload)
                      /\ active'[ToolOf[inFlight'[q].payload]] = Op(q, inFlight'[q].payload)
    BY DEF InFlightInv, IsAsync
  <2>1. CASE q \in DOMAIN inFlight
    <3>1. /\ ToolOf[inFlight[q].payload] \in AsyncTools
          /\ active[ToolOf[inFlight[q].payload]] = Op(q, inFlight[q].payload)
      BY <2>1 DEF ExecutorInv, InFlightInv, IsAsync
    <3>2. ToolOf[inFlight[q].payload] # t
      BY <1>1, <3>1 DEF Op
    <3> QED  BY <1>3, <1>4, <2>1, <3>1, <3>2 DEF IsAsync
  <2>2. CASE q = r /\ r # NoId
    BY <1>1, <1>3, <1>4, <2>2 DEF IsAsync, t
  <2> QED  BY <1>3, <2>1, <2>2
<1>7. OpInv'
  <2> SUFFICES ASSUME NEW u \in AsyncTools, active'[u].busy
               PROVE  /\ ToolOf[active'[u].payload] = u
                      /\ active'[u].request # NoId =>
                           /\ active'[u].request \in DOMAIN inFlight'
                           /\ inFlight'[active'[u].request].payload = active'[u].payload
    BY DEF OpInv
  <2>1. CASE u = t
    BY <1>3, <1>4, <2>1 DEF Op, t
  <2>2. CASE u # t
    BY <1>3, <1>4, <2>2 DEF ExecutorInv, OpInv
  <2> QED  BY <2>1, <2>2
<1>8. Aged
  BY <1>1, PruneStep
<1> QED  BY <1>5, <1>6, <1>7, <1>8, KeptParts

LEMMA RequestStep ==
  ASSUME ExecutorInv, NEW r \in Ids, NEW p \in Payloads, Request(r, p)
  PROVE  Kept
<1>1. CASE Denied(r, p)
  <2>1. UNCHANGED <<now, memory, active, cancelling>>
    BY <1>1 DEF Denied
  <2>2. now' \in 0..MaxClock /\ now' >= now /\ cancelling' \subseteq AsyncTools
    BY <2>1 DEF ExecutorInv, TypeOK
  <2> QED  BY <2>1, <2>2, QuietStep
<1> QED  BY <1>1, RepeatedStep, RanSyncStep, RefusedStep, StartedStep DEF Request

\* The operation of a tool that is busy.
LEMMA OpTyped ==
  ASSUME TypeOK, NEW t \in AsyncTools, active[t].busy
  PROVE  /\ active[t] \in OpType
         /\ active[t].request \in Ids /\ active[t].payload \in Payloads
<1>1. active[t] \in {NoOp} \cup OpType
  BY DEF TypeOK, OpType
<1>2. active[t] # NoOp
  BY DEF NoOp
<1> QED  BY <1>1, <1>2 DEF OpType

LEMMA CompleteStep ==
  ASSUME ExecutorInv, NEW t \in AsyncTools, active[t].busy, NEW a \in Answers,
         Complete(t, a), cancelling' \subseteq AsyncTools
  PROVE  Kept
<1> DEFINE r == active[t].request
           p == active[t].payload
<1>1. /\ r \in Ids /\ p \in Payloads
  BY OpTyped DEF ExecutorInv
<1>2. /\ active' = [active EXCEPT ![t] = NoOp] /\ now' = now
      /\ IF r = NoId THEN UNCHANGED memory
         ELSE /\ inFlight' = Landed(r)
              /\ cache' \in Stored(cache, r, p, a, now)
              /\ AnsweredAt(r, now)
  BY DEF Complete
<1> HIDE DEF r, p
<1>3. RestTyped
  BY DEF ExecutorInv, TypeOK, RestTyped, OpType
<1>4. /\ DOMAIN inFlight' = DOMAIN inFlight \ {r}
      /\ \A q \in DOMAIN inFlight \ {r} : inFlight'[q] = inFlight[q]
  BY <1>2, <1>3 DEF memory, Landed, Without, Restrict, RestTyped
<1>5. /\ active' \in [AsyncTools -> {NoOp} \cup OpType]
      /\ active'[t] = NoOp
      /\ \A u \in AsyncTools \ {t} : active'[u] = active[u]
  BY <1>2, <1>3 DEF RestTyped
<1>6. RestTyped'
  BY <1>2, <1>3, <1>4, <1>5 DEF RestTyped
<1>7. InFlightInv'
  <2> SUFFICES ASSUME NEW q \in DOMAIN inFlight \ {r}
               PROVE  /\ IsAsync(inFlight'[q].payload)
                      /\ active'[ToolOf[inFlight'[q].payload]] = Op(q, inFlight'[q].payload)
    BY <1>4 DEF InFlightInv, IsAsync
  <2>1. /\ ToolOf[inFlight[q].payload] \in AsyncTools
        /\ active[ToolOf[inFlight[q].payload]] = Op(q, inFlight[q].payload)
    BY DEF ExecutorInv, InFlightInv, IsAsync
  <2>2. ToolOf[inFlight[q].payload] # t
    BY <2>1 DEF Op, r
  <2> QED  BY <1>4, <1>5, <2>1, <2>2 DEF IsAsync
<1>8. OpInv'
  <2> SUFFICES ASSUME NEW u \in AsyncTools, active'[u].busy
               PROVE  /\ ToolOf[active'[u].payload] = u
                      /\ active'[u].request # NoId =>
                           /\ active'[u].request \in DOMAIN inFlight'
                           /\ inFlight'[active'[u].request].payload = active'[u].payload
    BY DEF OpInv
  <2>1. u # t
    BY <1>5 DEF NoOp
  <2>2. active'[u] = active[u] /\ ToolOf[active[u].payload] = u /\ active[u].busy
    BY <1>5, <2>1 DEF ExecutorInv, OpInv
  <2>3. ASSUME active[u].request # NoId
        PROVE  /\ active[u].request \in DOMAIN inFlight
               /\ inFlight[active[u].request].payload = active[u].payload
               /\ active[u].request # r
    <3>1. /\ active[u].request \in DOMAIN inFlight
          /\ inFlight[active[u].request].payload = active[u].payload
      BY <2>2, <2>3 DEF ExecutorInv, OpInv
    <3>2. ASSUME active[u].request = r
          PROVE  FALSE
      <4>1. inFlight[r].payload = p /\ ToolOf[p] = t
        BY <2>3, <3>2 DEF ExecutorInv, OpInv, r, p
      <4> QED  BY <2>1, <2>2, <3>1, <3>2, <4>1
    <3> QED  BY <3>1, <3>2
  <2> QED  BY <1>4, <2>2, <2>3
<1>9. Aged
  <2>1. CASE r = NoId
    BY <1>2, <1>3, <2>1, NoCacheStep DEF memory, RestTyped
  <2>2. CASE r # NoId
    <3>1. /\ r \in RequestIds /\ Fresh \subseteq DOMAIN cache
          /\ cache' \in Stored(cache, r, p, a, now) /\ AnsweredAt(r, now')
      BY <1>1, <1>2, <2>2 DEF Ids, Fresh
    <3>2. now' = now + 0 /\ now' \in 0..MaxClock /\ 0 \in 0..MaxRun
      BY <1>2, <1>3 DEF RestTyped
    <3> QED  BY <1>1, <3>1, <3>2, StoreStep
  <2> QED  BY <2>1, <2>2
<1> QED  BY <1>6, <1>7, <1>8, <1>9, KeptParts

LEMMA ToolStep ==
  ASSUME ExecutorInv, NEW t \in AsyncTools, Finish(t) \/ CancelNext(t)
  PROVE  Kept
<1>1. CASE Finish(t)
  BY <1>1, CompleteStep DEF Finish, Answers, ExecutorInv, TypeOK
<1>2. CASE CancelNext(t)
  <2>1. now \in 0..MaxClock /\ cancelling' \subseteq AsyncTools /\ "cancelled" \in Answers
    BY <1>2 DEF CancelNext, ExecutorInv, TypeOK, Answers, OwnAnswers
  <2>2. CASE active[t].busy
    BY <1>2, <2>1, <2>2, CompleteStep DEF CancelNext
  <2>3. CASE ~active[t].busy
    <3>1. UNCHANGED <<now, memory, active>> /\ now' \in 0..MaxClock /\ now' >= now
      BY <1>2, <2>1, <2>3 DEF CancelNext
    <3> QED  BY <2>1, <3>1, QuietStep
  <2> QED  BY <2>2, <2>3
<1> QED  BY <1>1, <1>2

LEMMA CancelStep ==
  ASSUME ExecutorInv, NEW r \in RequestIds, Cancel(r)
  PROVE  Kept
<1> DEFINE t == ToolOf[inFlight[r].payload]
<1>1. t \in AsyncTools /\ active[t].busy
  BY DEF Cancel, ExecutorInv, InFlightInv, IsAsync
<1>2. Complete(t, "cancelled") /\ "cancelled" \in Answers /\ cancelling' \subseteq AsyncTools
  BY DEF Cancel, Answers, OwnAnswers, ExecutorInv, TypeOK
<1> HIDE DEF t
<1> QED  BY <1>1, <1>2, CompleteStep

LEMMA ClockStep ==
  ASSUME ExecutorInv, CancelAll \/ Tick
  PROVE  Kept
<1>1. UNCHANGED <<memory, active>> /\ cancelling' \subseteq AsyncTools
  BY DEF CancelAll, Tick, ExecutorInv, TypeOK
<1>2. now' \in 0..MaxClock /\ now' >= now
  BY DEF CancelAll, Tick, ExecutorInv, TypeOK
<1> QED  BY <1>1, <1>2, QuietStep

LEMMA NextStep ==
  ASSUME ExecutorInv, Next
  PROVE  Kept
<1>1. ASSUME NEW u \in Uses, Request(u[1], u[2])
      PROVE  Kept
  <2>1. u[1] \in Ids /\ u[2] \in Payloads
    BY DEF Ids
  <2> QED  BY <1>1, <2>1, RequestStep
<1> QED  BY <1>1, ToolStep, CancelStep, ClockStep DEF Next

LEMMA StutterStep ==
  ASSUME ExecutorInv, UNCHANGED vars
  PROVE  ExecutorInv'
<1>1. UNCHANGED <<memory, active>> /\ now' \in 0..MaxClock /\ now' >= now
      /\ cancelling' \subseteq AsyncTools
  BY DEF vars, ExecutorInv, TypeOK
<1> QED  BY <1>1, QuietStep DEF Kept

LEMMA InitiallyTrue == Init => ExecutorInv
<1> SUFFICES ASSUME Init
             PROVE  ExecutorInv
  OBVIOUS
<1>1. DOMAIN cache = {} /\ DOMAIN inFlight = {} /\ DOMAIN answered = {}
  BY DEF Init
<1>2. Cardinality(DOMAIN cache) = 0
  BY <1>1, FS_EmptySet
<1>3. TypeOK
  BY <1>1, <1>2 DEF Init, TypeOK
<1>4. \A t \in AsyncTools : ~active[t].busy
  BY DEF Init, NoOp
<1> QED  BY <1>1, <1>3, <1>4 DEF ExecutorInv, InFlightInv, OpInv, AgeInv

---------------------------------------------------------------------------
(* The theorems.                                                           *)

\* The executor's memory and its operations agree, whatever the requests.
THEOREM Invariance == Spec => []ExecutorInv
<1>1. ExecutorInv /\ [Next]_vars => ExecutorInv'
  BY NextStep, StutterStep DEF Kept
<1> QED  BY <1>1, InitiallyTrue, PTL DEF Spec

\* The variables have their types and the cache never holds more than MaxRecords.
THEOREM TypeCorrect == Spec => []TypeOK
<1>1. ExecutorInv => TypeOK
  BY DEF ExecutorInv
<1> QED  BY <1>1, Invariance, PTL

\* PruneIdempotencyCache, StoreIdempotencyResult: as long as the cache has room, a
\* record goes only when it was answered longer ago than Retention less the time
\* its handler took.
THEOREM RecordsAreKept == Spec => KeptForRetention
<1>1. ExecutorInv /\ Next =>
        \A r \in DOMAIN cache \ DOMAIN cache' : Cardinality(DOMAIN cache) < MaxRecords =>
          now - answered[r] > Retention - MaxRun
  BY NextStep DEF Kept, ForgetsTheOld
<1>2. ExecutorInv /\ [Next]_vars =>
        [\A r \in DOMAIN cache \ DOMAIN cache' : Cardinality(DOMAIN cache) < MaxRecords =>
           now - answered[r] > Retention - MaxRun]_vars
  BY <1>1
<1> QED  BY <1>2, Invariance, PTL DEF Spec, KeptForRetention

---------------------------------------------------------------------------
(* The executor implements IdempotentService, if no requestId serves for   *)
(* synchronous and asynchronous capabilities both.                         *)

KindsKeptApart ==
  \A u, v \in Uses : u[1] = v[1] /\ u[1] # NoId => (IsAsync(u[2]) <=> IsAsync(v[2]))

\* A requestId is at work or answered, not both, and at work on what was sent.
ServeInv ==
  /\ DOMAIN inFlight \cap DOMAIN cache = {}
  /\ \A r \in DOMAIN inFlight : <<r, inFlight[r].payload>> \in Uses

Requests == [r \in RequestIds |-> StateOf(r)]
Gone == DOMAIN cache \ DOMAIN cache'

\* What StoreStep says of a stored answer, without its types.
IsStored(r, p, a) ==
  /\ r \in DOMAIN cache' /\ cache'[r].payload = p /\ cache'[r].result = a
  /\ \A q \in DOMAIN cache' \ {r} : q \in DOMAIN cache /\ cache'[q] = cache[q]

LEMMA States ==
  ASSUME NEW r \in RequestIds
  PROVE  /\ Requests[r] = StateOf(r)
         /\ r \in DOMAIN inFlight => StateOf(r) = Service!Running(inFlight[r].payload)
         /\ r \notin DOMAIN inFlight /\ r \in DOMAIN cache =>
              StateOf(r) = Service!Done(cache[r].payload, cache[r].result)
         /\ r \notin DOMAIN inFlight /\ r \notin DOMAIN cache => StateOf(r) = Service!Free
BY DEF Requests, StateOf, Service!Running, Service!Done, Service!Free

LEMMA StatesNext ==
  ASSUME NEW r \in RequestIds
  PROVE  /\ Requests'[r] = StateOf(r)'
         /\ r \in DOMAIN inFlight' => StateOf(r)' = Service!Running(inFlight'[r].payload)
         /\ r \notin DOMAIN inFlight' /\ r \in DOMAIN cache' =>
              StateOf(r)' = Service!Done(cache'[r].payload, cache'[r].result)
         /\ r \notin DOMAIN inFlight' /\ r \notin DOMAIN cache' => StateOf(r)' = Service!Free
BY DEF Requests, StateOf, Service!Running, Service!Done, Service!Free

\* Records that are gone are answers forgotten.
LEMMA GoneAreDone ==
  ASSUME ExecutorInv, ServeInv, NEW F \in SUBSET DOMAIN cache
  PROVE  F \in SUBSET Service!DoneIds
<1> SUFFICES ASSUME NEW q \in F
             PROVE  q \in Service!DoneIds
  OBVIOUS
<1>1. q \in RequestIds /\ q \in DOMAIN cache /\ q \notin DOMAIN inFlight
  BY DEF ExecutorInv, TypeOK, ServeInv
<1>2. Requests[q].phase = "done"
  BY <1>1, States DEF Service!Done
<1> QED  BY <1>1, <1>2 DEF Service!DoneIds, Requests

\* Nothing but records went.
LEMMA OnlyForgets ==
  ASSUME ExecutorInv, ServeInv, UNCHANGED inFlight,
         \A q \in DOMAIN cache' : /\ q \in DOMAIN cache
                                  /\ cache'[q].payload = cache[q].payload
                                  /\ cache'[q].result = cache[q].result
  PROVE  Requests' = Service!Forgotten(Gone) /\ ServeInv'
<1>1. DOMAIN inFlight \subseteq RequestIds
  BY DEF ExecutorInv, TypeOK
<1>2. ASSUME NEW q \in RequestIds
      PROVE  Requests'[q] = Service!Forgotten(Gone)[q]
  <2>1. CASE q \in DOMAIN inFlight
    BY <2>1, States, StatesNext DEF Gone, ServeInv, Service!Forgotten, Requests
  <2>2. CASE q \notin DOMAIN inFlight
    BY <2>2, States, StatesNext DEF Gone, Service!Forgotten, Requests
  <2> QED  BY <2>1, <2>2
<1>3. ServeInv'
  BY DEF ServeInv
<1> QED  BY <1>2, <1>3 DEF Requests, Service!Forgotten

\* An answer is stored under r, which had none that counts; inFlight loses r at most.
LEMMA Stores ==
  ASSUME ExecutorInv, ServeInv, NEW r \in RequestIds, NEW p, NEW a, IsStored(r, p, a),
         DOMAIN inFlight' = DOMAIN inFlight \ {r},
         \A q \in DOMAIN inFlight' : inFlight'[q] = inFlight[q],
         NEW F, F = Gone \cup (DOMAIN cache \cap {r})
  PROVE  /\ ServeInv'
         /\ F \in SUBSET Service!DoneIds
         /\ Requests' = [Service!Forgotten(F) EXCEPT ![r] = Service!Done(p, a)]
         /\ r \notin DOMAIN inFlight => Service!Forgotten(F)[r] = Service!Free
         /\ r \in DOMAIN inFlight => F = Gone
<1>1. /\ DOMAIN inFlight \subseteq RequestIds
      /\ DOMAIN cache' \subseteq DOMAIN cache \cup {r}
  BY DEF ExecutorInv, TypeOK, IsStored
<1>2. ServeInv'
  BY <1>1 DEF ServeInv
<1>3. F \in SUBSET Service!DoneIds
  BY GoneAreDone DEF Gone
<1>4. \A q \in RequestIds \ {r} : Requests'[q] = Service!Forgotten(F)[q]
  <2> SUFFICES ASSUME NEW q \in RequestIds \ {r}
               PROVE  Requests'[q] = Service!Forgotten(F)[q]
    OBVIOUS
  <2>1. CASE q \in DOMAIN inFlight
    <3>1. q \notin F
      BY <2>1 DEF Gone, ServeInv
    <3> QED  BY <2>1, <3>1, States, StatesNext DEF Service!Forgotten, Requests
  <2>2. CASE q \notin DOMAIN inFlight
    BY <2>2, States, StatesNext DEF Gone, IsStored, Service!Forgotten, Requests
  <2> QED  BY <2>1, <2>2
<1>5. Requests'[r] = Service!Done(p, a)
  BY StatesNext DEF IsStored
<1>6. /\ DOMAIN Service!Forgotten(F) = RequestIds
      /\ Requests' = [q \in RequestIds |-> Requests'[q]]
  BY DEF Service!Forgotten, Requests
<1>7. Requests' = [Service!Forgotten(F) EXCEPT ![r] = Service!Done(p, a)]
  BY <1>4, <1>5, <1>6
<1>8. r \notin DOMAIN inFlight => Service!Forgotten(F)[r] = Service!Free
  BY States DEF Service!Forgotten, Requests
<1>9. r \in DOMAIN inFlight => F = Gone
  BY DEF ServeInv
<1> QED  BY <1>2, <1>3, <1>7, <1>8, <1>9

\* A request is taken on, and the cache pruned.
LEMMA Starts ==
  ASSUME ExecutorInv, ServeInv, NEW r \in RequestIds, NEW p, <<r, p>> \in Uses,
         r \notin DOMAIN inFlight, r \notin DOMAIN cache',
         \A q \in DOMAIN cache' : q \in DOMAIN cache /\ cache'[q] = cache[q],
         inFlight' = With(inFlight, r, [payload |-> p])
  PROVE  /\ ServeInv'
         /\ Gone \in SUBSET Service!DoneIds
         /\ Service!Forgotten(Gone)[r] = Service!Free
         /\ Requests' = [Service!Forgotten(Gone) EXCEPT ![r] = Service!Running(p)]
<1>1. /\ DOMAIN inFlight' = DOMAIN inFlight \cup {r}
      /\ inFlight'[r].payload = p
      /\ \A q \in DOMAIN inFlight : inFlight'[q] = inFlight[q]
  BY DEF With
<1>2. ServeInv'
  BY <1>1 DEF ServeInv
<1>3. Gone \in SUBSET Service!DoneIds
  BY GoneAreDone DEF Gone
<1>4. Service!Forgotten(Gone)[r] = Service!Free
  BY States DEF Gone, Service!Forgotten, Requests
<1>5. \A q \in RequestIds \ {r} : Requests'[q] = Service!Forgotten(Gone)[q]
  <2> SUFFICES ASSUME NEW q \in RequestIds \ {r}
               PROVE  Requests'[q] = Service!Forgotten(Gone)[q]
    OBVIOUS
  <2>1. CASE q \in DOMAIN inFlight
    <3>1. q \notin Gone
      BY <2>1 DEF Gone, ServeInv
    <3> QED  BY <1>1, <2>1, <3>1, States, StatesNext DEF Service!Forgotten, Requests
  <2>2. CASE q \notin DOMAIN inFlight
    BY <1>1, <2>2, States, StatesNext DEF Gone, Service!Forgotten, Requests
  <2> QED  BY <2>1, <2>2
<1>6. Requests'[r] = Service!Running(p)
  BY <1>1, StatesNext
<1>7. /\ DOMAIN Service!Forgotten(Gone) = RequestIds
      /\ Requests' = [q \in RequestIds |-> Requests'[q]]
  BY DEF Service!Forgotten, Requests
<1>8. Requests' = [Service!Forgotten(Gone) EXCEPT ![r] = Service!Running(p)]
  BY <1>5, <1>6, <1>7
<1> QED  BY <1>2, <1>3, <1>4, <1>8

Simulates == ServeInv' /\ (Service!Next \/ UNCHANGED <<Requests, event>>)

\* A step that forgets records, and says nothing of a requestId or repeats one.
LEMMA SimulateOther ==
  ASSUME Gone \in SUBSET Service!DoneIds, Requests' = Service!Forgotten(Gone),
         event' = [kind |-> "other"]
  PROVE  Service!Next
BY DEF Service!Next, Service!Other, Requests

LEMMA SimulateRepeated ==
  ASSUME ExecutorInv, ServeInv, NEW r \in RequestIds, NEW p \in Payloads, Repeated(r, p)
  PROVE  Simulates
<1> DEFINE c == Restrict(cache, Fresh)
<1>1. /\ DOMAIN c = Fresh /\ Fresh \subseteq DOMAIN cache /\ \A q \in Fresh : c[q] = cache[q]
      /\ \A q \in DOMAIN cache : cache[q] \in Record
  BY PrunedCache DEF ExecutorInv, TypeOK
<1>2. r \in Fresh /\ cache' = [c EXCEPT ![r].last = now] /\ UNCHANGED inFlight
  BY DEF Repeated
<1> HIDE DEF c
<1>3. /\ DOMAIN cache' = Fresh
      /\ \A q \in Fresh : cache'[q].payload = cache[q].payload
                          /\ cache'[q].result = cache[q].result
  BY <1>1, <1>2 DEF Record
<1>4. Requests' = Service!Forgotten(Gone) /\ ServeInv'
  BY <1>1, <1>2, <1>3, OnlyForgets
<1>5. Gone \in SUBSET Service!DoneIds
  BY GoneAreDone DEF Gone
<1>6. /\ r \notin DOMAIN inFlight /\ r \in DOMAIN cache /\ r \notin Gone
  BY <1>1, <1>2, <1>3 DEF ServeInv, Gone
<1>7. Service!Forgotten(Gone)[r] = Service!Done(cache[r].payload, cache[r].result)
  BY <1>6, States DEF Service!Forgotten, Requests
<1>8. event' = IF cache[r].payload # p THEN Service!Event("conflict", r, p, "none")
               ELSE Service!Event("served", r, p, cache[r].result)
  BY DEF Repeated, SamePayload, Event, Service!Event
<1>9. Service!Repeat(Gone, r, p)
  BY <1>4, <1>7, <1>8 DEF Service!Repeat, Service!Done, Service!Free, Requests
<1> QED  BY <1>4, <1>5, <1>9 DEF Simulates, Service!Next

\* The cache after an answer was stored in what Fresh left of it.
LEMMA StoredInFresh ==
  ASSUME ExecutorInv, NEW r \in RequestIds, NEW p \in Payloads, NEW a \in Answers,
         NEW d \in 0..MaxRun, now' = now + d, now' \in 0..MaxClock,
         cache' \in Stored(Restrict(cache, Fresh), r, p, a, now), AnsweredAt(r, now')
  PROVE  IsStored(r, p, a)
<1> DEFINE c == Restrict(cache, Fresh)
<1>1. /\ DOMAIN c = Fresh /\ \A q \in Fresh : c[q] = cache[q]
      /\ Fresh \in SUBSET DOMAIN cache
  BY DEF Restrict, Fresh
<1>2. cache' \in Stored(c, r, p, a, now)
  OBVIOUS
<1> HIDE DEF c
<1> QED  BY <1>1, <1>2, StoreStep DEF IsStored

LEMMA SimulateRan ==
  ASSUME ExecutorInv, ServeInv, NEW r \in RequestIds, r \notin DOMAIN inFlight,
         NEW p \in Payloads, NEW a \in Answers, IsStored(r, p, a), UNCHANGED inFlight,
         event' = Event("ran", r, p, a)
  PROVE  Simulates
<1> DEFINE F == Gone \cup (DOMAIN cache \cap {r})
<1>1. /\ ServeInv' /\ F \in SUBSET Service!DoneIds
      /\ Requests' = [Service!Forgotten(F) EXCEPT ![r] = Service!Done(p, a)]
      /\ Service!Forgotten(F)[r] = Service!Free
  BY Stores
<1>2. event' = Service!Event("ran", r, p, a)
  BY DEF Event, Service!Event
<1> HIDE DEF F
<1>3. Service!Run(F, r, p)
  BY <1>1, <1>2 DEF Service!Run, Requests
<1> QED  BY <1>1, <1>3 DEF Simulates, Service!Next

\* PruneIdempotencyCache went before.
LEMMA SimulatePruned ==
  ASSUME ExecutorInv, ServeInv, PrunedForAsync, UNCHANGED inFlight
  PROVE  /\ ServeInv' /\ Gone \in SUBSET Service!DoneIds
         /\ Requests' = Service!Forgotten(Gone)
<1>1. \A q \in DOMAIN cache' : q \in DOMAIN cache /\ cache'[q] = cache[q]
  BY DEF PrunedForAsync, Restrict, Fresh
<1> QED  BY <1>1, OnlyForgets, GoneAreDone DEF Gone

LEMMA SimulateRanSync ==
  ASSUME KindsKeptApart, ExecutorInv, ServeInv, NEW r \in Ids, NEW p \in Payloads,
         <<r, p>> \in Uses, RanSync(r, p)
  PROVE  Simulates
<1>1. PICK a \in Outcomes \cup {"unprepared"}, d \in 0..MaxRun :
        /\ now + d <= MaxClock
        /\ now' = now + d
        /\ IF r = NoId THEN UNCHANGED <<cache, answered>>
           ELSE /\ cache' \in Stored(Restrict(cache, Fresh), r, p, a, now)
                /\ AnsweredAt(r, now + d)
        /\ event' = Event("ran", r, p, a)
  BY DEF RanSync
<1>2. UNCHANGED inFlight /\ a \in Answers /\ now' \in 0..MaxClock
  BY <1>1 DEF RanSync, Answers, OwnAnswers, ExecutorInv, TypeOK
<1>3. CASE r = NoId
  <2>1. Requests' = Service!Forgotten(Gone) /\ ServeInv'
    BY <1>1, <1>2, <1>3, OnlyForgets
  <2>2. Gone \in SUBSET Service!DoneIds
    BY GoneAreDone DEF Gone
  <2>3. event' = [kind |-> "other"]
    BY <1>1, <1>3 DEF Event
  <2> QED  BY <2>1, <2>2, <2>3, SimulateOther DEF Simulates
<1>4. CASE r # NoId
  <2>1. r \in RequestIds
    BY <1>4 DEF Ids
  <2>2. r \notin DOMAIN inFlight
    <3> SUFFICES ASSUME r \in DOMAIN inFlight
                 PROVE  FALSE
      OBVIOUS
    <3>1. <<r, inFlight[r].payload>> \in Uses /\ IsAsync(inFlight[r].payload)
      BY DEF ServeInv, ExecutorInv, InFlightInv
    <3>2. ~IsAsync(p)
      BY DEF RanSync
    <3> DEFINE u == <<r, p>>
               v == <<r, inFlight[r].payload>>
    <3>3. /\ u \in Uses /\ v \in Uses /\ u[1] = r /\ v[1] = r
          /\ u[2] = p /\ v[2] = inFlight[r].payload
      BY <3>1
    <3> HIDE DEF u, v
    <3>4. IsAsync(u[2]) <=> IsAsync(v[2])
      BY <1>4, <3>3 DEF KindsKeptApart
    <3> QED  BY <3>1, <3>2, <3>3, <3>4
  <2>3. IsStored(r, p, a)
    BY <1>1, <1>2, <1>4, <2>1, StoredInFresh
  <2> QED  BY <1>1, <1>2, <2>1, <2>2, <2>3, SimulateRan
<1> QED  BY <1>3, <1>4

LEMMA SimulateRefused ==
  ASSUME ExecutorInv, ServeInv, NEW r \in Ids, NEW p \in Payloads,
         StillRunning(r, p) \/ Unprepared(r, p)
  PROVE  Simulates
<1>1. PrunedForAsync /\ UNCHANGED inFlight /\ r \notin Fresh
  BY DEF StillRunning, Unprepared
<1>2. /\ ServeInv' /\ Gone \in SUBSET Service!DoneIds
      /\ Requests' = Service!Forgotten(Gone)
  BY <1>1, SimulatePruned
<1>3. CASE r = NoId
  <2>1. Unprepared(r, p)
    BY <1>3 DEF StillRunning, KnownInFlight, ExecutorInv, TypeOK
  <2>2. event' = [kind |-> "other"]
    BY <1>3, <2>1 DEF Unprepared, Event
  <2> QED  BY <1>2, <2>2, SimulateOther DEF Simulates
<1>4. CASE r # NoId /\ StillRunning(r, p)
  <2>1. r \in RequestIds /\ r \in DOMAIN inFlight /\ r \notin Gone
    BY <1>4 DEF Ids, StillRunning, KnownInFlight, Gone, ServeInv
  <2>2. Service!Forgotten(Gone)[r] = Service!Running(inFlight[r].payload)
    BY <2>1, States DEF Service!Forgotten, Requests
  <2>3. event' = IF inFlight[r].payload # p THEN Service!Event("conflict", r, p, "none")
                 ELSE Service!Event("inProgress", r, p, "none")
    BY <1>4 DEF StillRunning, Event, Service!Event
  <2>4. Service!Repeat(Gone, r, p)
    BY <1>2, <2>2, <2>3 DEF Service!Repeat, Service!Running, Service!Free, Requests
  <2> QED  BY <1>2, <2>1, <2>4 DEF Simulates, Service!Next
<1>5. CASE r # NoId /\ Unprepared(r, p)
  <2>1. r \in RequestIds /\ r \notin DOMAIN inFlight /\ r \notin DOMAIN cache'
    BY <1>1, <1>5 DEF Ids, Unprepared, KnownInFlight, PrunedForAsync, Restrict
  <2>2. Service!Forgotten(Gone)[r] = Service!Free
    BY <2>1, States DEF Service!Forgotten, Requests, Gone
  <2>3. event' = Service!Event("refused", r, p, "none")
    BY <1>5 DEF Unprepared, Event, Service!Event
  <2>4. Service!TurnDown(Gone, r, p)
    BY <1>2, <2>2, <2>3 DEF Service!TurnDown, Requests
  <2> QED  BY <1>2, <2>1, <2>4 DEF Simulates, Service!Next
<1> QED  BY <1>3, <1>4, <1>5

LEMMA SimulateRejected ==
  ASSUME ExecutorInv, ServeInv, NEW r \in Ids, NEW p \in Payloads, Rejected(r, p)
  PROVE  Simulates
<1>1. /\ now' = now /\ UNCHANGED inFlight /\ r \notin DOMAIN inFlight
      /\ event' = Event("ran", r, p, "rejected") /\ "rejected" \in Answers
  BY DEF Rejected, KnownInFlight, Answers, OwnAnswers
<1>2. CASE r = NoId
  <2>1. PrunedForAsync /\ event' = [kind |-> "other"]
    BY <1>1, <1>2 DEF Rejected, Event
  <2> QED  BY <1>1, <2>1, SimulatePruned, SimulateOther DEF Simulates
<1>3. CASE r # NoId
  <2>1. /\ r \in RequestIds
        /\ cache' \in Stored(Restrict(cache, Fresh), r, p, "rejected", now)
        /\ AnsweredAt(r, now')
    BY <1>1, <1>3 DEF Rejected, Ids
  <2>2. now' = now + 0 /\ now' \in 0..MaxClock /\ 0 \in 0..MaxRun
    BY <1>1 DEF ExecutorInv, TypeOK
  <2>3. IsStored(r, p, "rejected")
    BY <1>1, <2>1, <2>2, StoredInFresh
  <2> QED  BY <1>1, <2>1, <2>3, SimulateRan
<1> QED  BY <1>2, <1>3

LEMMA SimulateStarted ==
  ASSUME ExecutorInv, ServeInv, NEW r \in Ids, NEW p \in Payloads, <<r, p>> \in Uses,
         Started(r, p)
  PROVE  Simulates
<1>1. /\ PrunedForAsync /\ r \notin Fresh /\ r \notin DOMAIN inFlight
      /\ inFlight' = IF r = NoId THEN inFlight ELSE With(inFlight, r, [payload |-> p])
      /\ event' = Event("started", r, p, "none")
  BY DEF Started, KnownInFlight
<1>2. CASE r = NoId
  BY <1>1, <1>2, SimulatePruned, SimulateOther DEF Simulates, Event
<1>3. CASE r # NoId
  <2>1. /\ r \in RequestIds /\ r \notin DOMAIN cache'
        /\ \A q \in DOMAIN cache' : q \in DOMAIN cache /\ cache'[q] = cache[q]
    BY <1>1, <1>3 DEF Ids, PrunedForAsync, Restrict, Fresh
  <2>2. /\ ServeInv' /\ Gone \in SUBSET Service!DoneIds
        /\ Service!Forgotten(Gone)[r] = Service!Free
        /\ Requests' = [Service!Forgotten(Gone) EXCEPT ![r] = Service!Running(p)]
    BY <1>1, <1>3, <2>1, Starts
  <2>3. event' = Service!Event("started", r, p, "none")
    BY <1>1, <1>3 DEF Event, Service!Event
  <2>4. Service!Start(Gone, r, p)
    BY <2>2, <2>3 DEF Service!Start, Requests
  <2> QED  BY <2>1, <2>2, <2>4 DEF Simulates, Service!Next
<1> QED  BY <1>2, <1>3

LEMMA SimulateStutter ==
  ASSUME ServeInv, UNCHANGED <<memory, event>>
  PROVE  Simulates
<1>1. ServeInv'
  BY DEF ServeInv, memory
<1>2. UNCHANGED <<Requests, event>>
  BY DEF Requests, StateOf, memory
<1> QED  BY <1>1, <1>2 DEF Simulates

LEMMA SimulateDenied ==
  ASSUME ExecutorInv, ServeInv, NEW r \in Ids, NEW p \in Payloads, Denied(r, p)
  PROVE  Simulates
<1>1. UNCHANGED memory /\ event' = Event("denied", r, p, "none")
  BY DEF Denied
<1>2. ServeInv' /\ Requests' = Requests /\ Gone = {}
  BY <1>1 DEF ServeInv, memory, Requests, StateOf, Gone
<1>3. CASE r = NoId
  <2>1. Requests' = Service!Forgotten(Gone)
    BY <1>2 DEF Service!Forgotten, Requests
  <2> QED  BY <1>1, <1>2, <1>3, <2>1, SimulateOther DEF Simulates, Event
<1>4. CASE r # NoId
  <2>1. r \in RequestIds /\ event' = Service!Event("denied", r, p, "none")
    BY <1>1, <1>4 DEF Ids, Event, Service!Event
  <2>2. Service!Deny(r, p)
    BY <1>2, <2>1 DEF Service!Deny, Requests
  <2>3. {} \in SUBSET Service!DoneIds
    OBVIOUS
  <2> QED  BY <1>2, <2>1, <2>2, <2>3 DEF Simulates, Service!Next
<1> QED  BY <1>3, <1>4

LEMMA SimulateComplete ==
  ASSUME ExecutorInv, ServeInv, NEW t \in AsyncTools, active[t].busy, NEW a \in Answers,
         Complete(t, a)
  PROVE  Simulates
<1> DEFINE r == active[t].request
           p == active[t].payload
<1>1. /\ r \in Ids /\ p \in Payloads
  BY OpTyped DEF ExecutorInv
<1>2. /\ now' = now /\ event' = Event("ran", r, p, a)
      /\ IF r = NoId THEN UNCHANGED memory
         ELSE /\ inFlight' = Landed(r)
              /\ cache' \in Stored(cache, r, p, a, now)
              /\ AnsweredAt(r, now)
  BY DEF Complete
<1>3. r # NoId => r \in DOMAIN inFlight /\ inFlight[r].payload = p
  BY DEF ExecutorInv, OpInv
<1> HIDE DEF r, p
<1>4. CASE r = NoId
  <2>1. UNCHANGED memory /\ event' = [kind |-> "other"]
    BY <1>2, <1>4 DEF Event
  <2>2. ServeInv' /\ Requests' = Service!Forgotten(Gone) /\ Gone \in SUBSET Service!DoneIds
    BY <2>1, OnlyForgets, GoneAreDone DEF memory, Gone
  <2> QED  BY <2>1, <2>2, SimulateOther DEF Simulates
<1>5. CASE r # NoId
  <2>1. /\ r \in RequestIds /\ r \in DOMAIN inFlight /\ Fresh \subseteq DOMAIN cache
        /\ cache' \in Stored(cache, r, p, a, now) /\ AnsweredAt(r, now')
    BY <1>1, <1>2, <1>3, <1>5 DEF Ids, Fresh
  <2>2. now' = now + 0 /\ now' \in 0..MaxClock /\ 0 \in 0..MaxRun
    BY <1>2 DEF ExecutorInv, TypeOK
  <2>3. IsStored(r, p, a)
    BY <1>1, <2>1, <2>2, StoreStep DEF IsStored
  <2>4. /\ DOMAIN inFlight' = DOMAIN inFlight \ {r}
        /\ \A q \in DOMAIN inFlight' : inFlight'[q] = inFlight[q]
    BY <1>2, <1>5 DEF Landed, Without, Restrict
  <2>5. /\ ServeInv' /\ Gone \in SUBSET Service!DoneIds
        /\ Requests' = [Service!Forgotten(Gone) EXCEPT ![r] = Service!Done(p, a)]
    <3> DEFINE F == Gone \cup (DOMAIN cache \cap {r})
    <3>1. /\ ServeInv' /\ F \in SUBSET Service!DoneIds /\ F = Gone
          /\ Requests' = [Service!Forgotten(F) EXCEPT ![r] = Service!Done(p, a)]
      BY <2>1, <2>3, <2>4, Stores
    <3> HIDE DEF F
    <3> QED  BY <3>1
  <2>6. Requests[r] = Service!Running(p)
    BY <1>3, <1>5, <2>1, States
  <2>7. event' = Service!Event("ran", r, p, a)
    BY <1>2, <1>5 DEF Event, Service!Event
  <2>8. Service!Finish(Gone, r)
    BY <2>5, <2>6, <2>7 DEF Service!Finish, Service!Running, Requests
  <2> QED  BY <2>1, <2>5, <2>8 DEF Simulates, Service!Next
<1> QED  BY <1>4, <1>5

LEMMA SimulateNext ==
  ASSUME KindsKeptApart, ExecutorInv, ServeInv, Next
  PROVE  Simulates
<1>1. ASSUME NEW u \in Uses, Request(u[1], u[2])
      PROVE  Simulates
  <2> DEFINE r == u[1]
             p == u[2]
  <2>1. r \in Ids /\ p \in Payloads /\ <<r, p>> \in Uses
    BY DEF Ids
  <2>2. Request(r, p)
    BY <1>1
  <2> HIDE DEF r, p
  <2>3. CASE Repeated(r, p)
    <3>1. r \in RequestIds
      BY <2>3 DEF Repeated, Fresh, ExecutorInv, TypeOK
    <3> QED  BY <2>1, <2>3, <3>1, SimulateRepeated
  <2> QED  BY <2>1, <2>2, <2>3, SimulateDenied, SimulateRanSync, SimulateRefused,
              SimulateRejected, SimulateStarted DEF Request
<1>2. ASSUME NEW t \in AsyncTools, Finish(t)
      PROVE  Simulates
  BY <1>2, SimulateComplete DEF Finish, Answers
<1>3. ASSUME NEW t \in AsyncTools, CancelNext(t)
      PROVE  Simulates
  BY <1>3, SimulateComplete, SimulateStutter DEF CancelNext, Answers, OwnAnswers
<1>4. ASSUME NEW r \in RequestIds, Cancel(r)
      PROVE  Simulates
  <2> DEFINE t == ToolOf[inFlight[r].payload]
  <2>1. t \in AsyncTools /\ active[t].busy
    BY <1>4 DEF Cancel, ExecutorInv, InFlightInv, IsAsync
  <2>2. Complete(t, "cancelled") /\ "cancelled" \in Answers
    BY <1>4 DEF Cancel, Answers, OwnAnswers
  <2> HIDE DEF t
  <2> QED  BY <2>1, <2>2, SimulateComplete
<1>5. CASE CancelAll \/ Tick
  BY <1>5, SimulateStutter DEF CancelAll, Tick
<1> QED  BY <1>1, <1>2, <1>3, <1>4, <1>5 DEF Next

\* BeginExecuteAsync and the cache keep IdempotentService's promise: a requestId is
\* carried out once as long as it is remembered, repetitions get its answer, and
\* another payload is refused, if no requestId serves for synchronous and
\* asynchronous capabilities both.
THEOREM Implements ==
  ASSUME KindsKeptApart
  PROVE  Spec => ServesOnce
<1>1. ASSUME Init
      PROVE  Service!Init /\ ServeInv
  <2>1. DOMAIN cache = {} /\ DOMAIN inFlight = {}
    BY <1>1 DEF Init
  <2> QED  BY <1>1, <2>1 DEF Init, Service!Init, Service!Free, StateOf, ServeInv
<1>2. ASSUME ExecutorInv, ServeInv, [Next]_vars
      PROVE  ServeInv' /\ [Service!Next]_(Service!vars)
  <2>1. CASE Next
    BY <1>2, <2>1, SimulateNext DEF Simulates, Service!vars, Requests
  <2>2. CASE UNCHANGED vars
    <3>1. Simulates
      BY <1>2, <2>2, SimulateStutter DEF vars
    <3> QED  BY <3>1 DEF Simulates, Service!vars, Requests
  <2> QED  BY <1>2, <2>1, <2>2
<1> QED  BY <1>1, <1>2, Invariance, PTL DEF Spec, ServesOnce, Service!Spec
=============================================================================
