-------------------------- MODULE PIESessionProofs --------------------------
(***************************************************************************)
(* Theorems about PIESession, for any number of generations, waits and      *)
(* refusals, and whatever number of waits the service keeps.                *)
(***************************************************************************)
EXTENDS PIESession, FiniteSetTheorems, WellFoundedInduction, TLAPS

---------------------------------------------------------------------------
(* The inductive invariant.                                                *)

\* The tables of waits, and the service's fields, when n waits have been started.
Tables(n) == UNION {[W -> Waits] : W \in SUBSET (1..n)}
Runtime(n) ==
  [generation : Nat, prepared : BOOLEAN, active : BOOLEAN, paused : BOOLEAN,
   held : BOOLEAN, pointerActive : BOOLEAN, pointer : Nat,
   waits : Tables(n), handles : SUBSET Nat]

\* TypeOK, with the waits a table of those that were started.
Typed ==
  /\ engine \in [queued : BOOLEAN, playing : BOOLEAN, ending : BOOLEAN, paused : BOOLEAN]
  /\ {restartPending, paused} \subseteq BOOLEAN
  /\ rt \in Runtime(accepted)
  /\ Cardinality(DOMAIN rt.waits) <= MaxRetainedAsyncJobs
  /\ {accepted, refusals, worldGen, lastGen, promise} \subseteq Nat

\* What the service keeps to by itself: running waits, pointers, handles and keys are
\* of the current generation, and a session that is prepared is not active.
ServiceInv(r) ==
  /\ \A w \in Running(r) : r.waits[w].type # "generationChanged" =>
       r.waits[w].gen = r.generation
  /\ \A w \in Running(r) : r.waits[w].type = "other" => r.active
  /\ r.pointerActive <=> r.pointer # 0
  /\ r.pointerActive => r.active /\ r.pointer = r.generation
  /\ r.handles # {} => r.active /\ r.handles = {r.generation}
  /\ r.held => r.active
  /\ r.prepared => ~r.active
  /\ r.active \/ r.prepared => r.generation > 0

\* A world that ends or is paused is there.
EngineInv ==
  /\ engine.ending => engine.playing
  /\ engine.paused => engine.playing

\* No world had a generation beyond the current one, nor the one that is prepared,
\* which is the one promised.
GenerationInv ==
  /\ lastGen <= rt.generation
  /\ rt.prepared => lastGen < rt.generation
  /\ promise # 0 => rt.prepared /\ promise = rt.generation

PIEInv ==
  Typed /\ ServiceInv(rt) /\ ActiveSessionIsTheWorld /\ EngineInv /\ GenerationInv

USE PIEAssumption

---------------------------------------------------------------------------
(* The operations of the service.                                          *)

\* The waits are those of r, some of them now stale.
Aged(r, q) ==
  /\ DOMAIN q.waits = DOMAIN r.waits
  /\ \A w \in DOMAIN r.waits : q.waits[w] = r.waits[w] \/ q.waits[w].status = "stale"

LEMMA WaitTable ==
  ASSUME NEW n \in Nat, NEW f \in Tables(n)
  PROVE  /\ f \in [DOMAIN f -> Waits] /\ DOMAIN f \subseteq 1..n
         /\ IsFiniteSet(DOMAIN f)
<1>1. PICK W \in SUBSET (1..n) : f \in [W -> Waits]
  BY DEF Tables
<1>2. DOMAIN f = W
  BY <1>1
<1>3. IsFiniteSet(1..n)
  BY FS_Interval
<1> QED  BY <1>1, <1>2, <1>3, FS_Subset

LEMMA StaleTable ==
  ASSUME NEW n \in Nat, NEW r \in Runtime(n)
  PROVE  /\ Stale(r) \in Tables(n)
         /\ DOMAIN Stale(r) = DOMAIN r.waits
         /\ \A w \in DOMAIN r.waits :
              /\ Stale(r)[w].type = r.waits[w].type
              /\ Stale(r)[w] = r.waits[w] \/ Stale(r)[w].status = "stale"
              /\ Stale(r)[w].status \notin Ended => r.waits[w].type = "generationChanged"
<1>1. /\ r.waits \in [DOMAIN r.waits -> Waits] /\ DOMAIN r.waits \in SUBSET (1..n)
  BY WaitTable DEF Runtime
<1>2. ASSUME NEW w \in DOMAIN r.waits
      PROVE  /\ Stale(r)[w] \in Waits
             /\ Stale(r)[w].type = r.waits[w].type
             /\ Stale(r)[w] = r.waits[w] \/ Stale(r)[w].status = "stale"
             /\ Stale(r)[w].status \notin Ended => r.waits[w].type = "generationChanged"
  <2>1. r.waits[w] \in Waits
    BY <1>1
  <2> QED  BY <2>1 DEF Stale, Waits, Statuses, Ended, Running
<1>3. Stale(r) \in [DOMAIN r.waits -> Waits]
  BY <1>2 DEF Stale
<1> QED  BY <1>1, <1>2, <1>3 DEF Tables

\* After termination nothing runs but waits for another generation.
LEMMA TerminatedSession ==
  ASSUME NEW n \in Nat, NEW r \in Runtime(n)
  PROVE  /\ Terminated(r) \in Runtime(n) /\ Aged(r, Terminated(r))
         /\ ~Terminated(r).held /\ ~Terminated(r).pointerActive /\ Terminated(r).pointer = 0
         /\ \A w \in Running(Terminated(r)) :
              Terminated(r).waits[w].type = "generationChanged"
         /\ Terminated(r).generation = r.generation /\ Terminated(r).prepared = r.prepared
         /\ Terminated(r).active = r.active /\ Terminated(r).handles = r.handles
         /\ Terminated(r).paused = r.paused
<1>1. /\ Terminated(r) \in Runtime(n)
      /\ Terminated(r).waits = Stale(r)
      /\ ~Terminated(r).held /\ ~Terminated(r).pointerActive /\ Terminated(r).pointer = 0
      /\ Terminated(r).generation = r.generation /\ Terminated(r).prepared = r.prepared
      /\ Terminated(r).active = r.active /\ Terminated(r).handles = r.handles
      /\ Terminated(r).paused = r.paused
  BY StaleTable DEF Terminated, Runtime
<1>2. Aged(r, Terminated(r))
  BY <1>1, StaleTable DEF Aged
<1>3. ASSUME NEW w \in Running(Terminated(r))
      PROVE  Terminated(r).waits[w].type = "generationChanged"
  BY <1>1, StaleTable DEF Running
<1> QED  BY <1>1, <1>2, <1>3

LEMMA PreparedSession ==
  ASSUME NEW n \in Nat, NEW r \in Runtime(n), ServiceInv(r)
  PROVE  LET q == PrepareNextSession(r)
         IN  /\ q \in Runtime(n) /\ ServiceInv(q) /\ Aged(r, q)
             /\ q.prepared /\ ~q.active
             /\ q.generation = IF r.prepared THEN r.generation ELSE r.generation + 1
<1>1. CASE r.prepared
  BY <1>1 DEF PrepareNextSession, ServiceInv, Aged
<1>2. CASE ~r.prepared
  <2> DEFINE t == Terminated(r)
             q == PrepareNextSession(r)
  <2>1. q = [t EXCEPT !.generation = @ + 1, !.handles = {}, !.active = FALSE,
                      !.prepared = TRUE, !.paused = FALSE]
    BY <1>2 DEF PrepareNextSession
  <2> HIDE DEF t, q
  <2>2. /\ t \in Runtime(n) /\ t.generation = r.generation
        /\ \A w \in Running(t) : t.waits[w].type = "generationChanged"
        /\ ~t.held /\ ~t.pointerActive /\ t.pointer = 0 /\ Aged(r, t)
    BY TerminatedSession DEF t
  <2>a. r.generation + 1 \in Nat
    BY DEF Runtime
  <2>b. r.generation + 1 > 0
    BY DEF Runtime
  <2>3. /\ q \in Runtime(n) /\ q.waits = t.waits /\ q.prepared /\ ~q.active
        /\ q.generation = r.generation + 1 /\ q.handles = {}
        /\ ~q.held /\ ~q.pointerActive /\ q.pointer = 0
    BY <2>1, <2>2, <2>a DEF Runtime
  <2>4. ServiceInv(q)
    BY <2>2, <2>3, <2>b DEF ServiceInv, Running
  <2>5. Aged(r, q)
    BY <2>2, <2>3 DEF Aged
  <2> QED  BY <1>2, <2>3, <2>4, <2>5 DEF q
<1> QED  BY <1>1, <1>2

LEMMA BegunSession ==
  ASSUME NEW n \in Nat, NEW r \in Runtime(n), ServiceInv(r)
  PROVE  LET q == BeginSession(r)
         IN  /\ q \in Runtime(n) /\ ServiceInv(q) /\ Aged(r, q)
             /\ ~q.prepared /\ q.active
             /\ q.generation = IF r.prepared \/ r.active THEN r.generation
                                                          ELSE r.generation + 1
<1>1. CASE r.active
  BY <1>1 DEF BeginSession, ServiceInv, Aged, Runtime
<1>2. CASE ~r.active
  <2> DEFINE t == PrepareNextSession(r)
             q == BeginSession(r)
  <2>1. q = [t EXCEPT !.prepared = FALSE, !.active = TRUE, !.paused = FALSE,
                      !.handles = {}]
    BY <1>2 DEF BeginSession
  <2>2. /\ t \in Runtime(n) /\ ServiceInv(t) /\ Aged(r, t) /\ t.prepared /\ ~t.active
        /\ t.generation = IF r.prepared THEN r.generation ELSE r.generation + 1
    BY PreparedSession
  <2> HIDE DEF t, q
  <2>3. /\ q \in Runtime(n) /\ q.waits = t.waits /\ q.generation = t.generation
        /\ ~q.prepared /\ q.active /\ q.handles = {} /\ q.held = t.held
        /\ q.pointerActive = t.pointerActive /\ q.pointer = t.pointer
    BY <2>1, <2>2 DEF Runtime
  <2>4. ServiceInv(q)
    BY <2>2, <2>3 DEF ServiceInv, Running
  <2>5. Aged(r, q)
    BY <2>2, <2>3 DEF Aged
  <2> QED  BY <1>2, <2>2, <2>3, <2>4, <2>5 DEF q
<1> QED  BY <1>1, <1>2

LEMMA CancelledSession ==
  ASSUME NEW n \in Nat, NEW r \in Runtime(n), ServiceInv(r)
  PROVE  LET q == CancelPreparedSession(r)
         IN  /\ q \in Runtime(n) /\ ServiceInv(q) /\ Aged(r, q)
             /\ ~q.prepared /\ q.generation = r.generation
             /\ q.active => r.active
<1>1. CASE ~r.prepared
  BY <1>1 DEF CancelPreparedSession, Aged
<1>2. CASE r.prepared
  <2> DEFINE t == Terminated(r)
             q == CancelPreparedSession(r)
  <2>1. q = [t EXCEPT !.handles = {}, !.prepared = FALSE, !.active = FALSE,
                      !.paused = FALSE]
    BY <1>2 DEF CancelPreparedSession
  <2>2. /\ t \in Runtime(n) /\ t.generation = r.generation
        /\ \A w \in Running(t) : t.waits[w].type = "generationChanged"
        /\ ~t.held /\ ~t.pointerActive /\ t.pointer = 0 /\ Aged(r, t)
    BY TerminatedSession
  <2> HIDE DEF t, q
  <2>3. /\ q \in Runtime(n) /\ q.waits = t.waits /\ ~q.prepared /\ ~q.active
        /\ q.generation = r.generation /\ q.handles = {}
        /\ ~q.held /\ ~q.pointerActive /\ q.pointer = 0
    BY <2>1, <2>2 DEF Runtime
  <2>4. ServiceInv(q)
    BY <2>2, <2>3 DEF ServiceInv, Running
  <2>5. Aged(r, q)
    BY <2>2, <2>3 DEF Aged
  <2> QED  BY <2>3, <2>4, <2>5 DEF q
<1> QED  BY <1>1, <1>2

LEMMA EndedSession ==
  ASSUME NEW n \in Nat, NEW r \in Runtime(n), ServiceInv(r)
  PROVE  LET q == EndSession(r)
         IN  /\ q \in Runtime(n) /\ ServiceInv(q) /\ Aged(r, q) /\ ~q.active
             /\ q.prepared = r.prepared /\ q.generation = r.generation
<1> DEFINE t == Terminated(r)
           q == EndSession(r)
<1>1. q = [t EXCEPT !.handles = {}, !.active = FALSE, !.paused = FALSE]
  BY DEF EndSession
<1>2. /\ t \in Runtime(n) /\ t.generation = r.generation /\ t.prepared = r.prepared
      /\ \A w \in Running(t) : t.waits[w].type = "generationChanged"
      /\ ~t.held /\ ~t.pointerActive /\ t.pointer = 0 /\ Aged(r, t)
  BY TerminatedSession
<1> HIDE DEF t, q
<1>3. /\ q \in Runtime(n) /\ q.waits = t.waits /\ q.prepared = r.prepared /\ ~q.active
      /\ q.generation = r.generation /\ q.handles = {}
      /\ ~q.held /\ ~q.pointerActive /\ q.pointer = 0
  BY <1>1, <1>2 DEF Runtime
<1>4. ServiceInv(q)
  BY <1>2, <1>3 DEF ServiceInv, Running
<1>5. Aged(r, q)
  BY <1>2, <1>3 DEF Aged
<1> QED  BY <1>3, <1>4, <1>5 DEF q

\* Only pointers, handles and keys differ.
LEMMA SameWaits ==
  ASSUME NEW r, NEW q, ServiceInv(r), q.waits = r.waits, q.generation = r.generation,
         q.active = r.active, q.prepared = r.prepared,
         q.pointerActive <=> q.pointer # 0,
         q.pointerActive => q.active /\ q.pointer = q.generation,
         q.handles # {} => q.active /\ q.handles = {q.generation},
         q.held => q.active
  PROVE  ServiceInv(q)
<1>1. Running(q) = Running(r)
  BY DEF Running
<1> QED  BY <1>1 DEF ServiceInv

LEMMA PointerStep ==
  ASSUME NEW n \in Nat, NEW r \in Runtime(n), ServiceInv(r), NEW q \in PointerTicked(r)
  PROVE  /\ q \in Runtime(n) /\ ServiceInv(q)
         /\ q.waits = r.waits /\ q.generation = r.generation /\ q.prepared = r.prepared
         /\ q.active = r.active /\ q.paused = r.paused /\ q.handles = r.handles
<1>1. \/ q = r
      \/ \E h \in BOOLEAN : /\ r.pointerActive /\ r.active
                            /\ q = [r EXCEPT !.held = h]
      \/ \E h \in BOOLEAN : /\ ~r.active => ~h
                            /\ q = [r EXCEPT !.pointerActive = FALSE, !.pointer = 0,
                                             !.held = h]
  BY DEF PointerTicked
<1> DEFINE Shape ==
      /\ q \in Runtime(n)
      /\ q.waits = r.waits /\ q.generation = r.generation /\ q.prepared = r.prepared
      /\ q.active = r.active /\ q.paused = r.paused /\ q.handles = r.handles
      /\ \/ q.pointerActive = r.pointerActive /\ q.pointer = r.pointer
         \/ ~q.pointerActive /\ q.pointer = 0
      /\ q.held => r.held \/ r.active
<1>2. Shape
  <2>1. CASE q = r
    BY <2>1
  <2>2. ASSUME NEW h \in BOOLEAN, r.active, q = [r EXCEPT !.held = h]
        PROVE  Shape
    BY <2>2 DEF Runtime
  <2>3. ASSUME NEW h \in BOOLEAN, ~r.active => ~h,
               q = [r EXCEPT !.pointerActive = FALSE, !.pointer = 0, !.held = h]
        PROVE  Shape
    BY <2>3 DEF Runtime
  <2> QED  BY <1>1, <2>1, <2>2, <2>3
<1>3. ServiceInv(q)
  BY <1>2 DEF ServiceInv, Running
<1> QED  BY <1>2, <1>3

\* A poll leaves a wait running only if it is of the current generation or waits for
\* another, and is satisfied only by the active session's world.
LEMMA PollStep ==
  ASSUME NEW n \in Nat, NEW r \in Runtime(n), NEW w \in Running(r),
         NEW s \in Polled(r, r.waits[w])
  PROVE  /\ s \in Statuses
         /\ s \notin Ended => s = r.waits[w].status
         /\ s = "completed" /\ r.waits[w].type = "pieReady" =>
              r.active /\ engine.playing /\ r.waits[w].gen = r.generation
<1>1. r.waits[w] \in Waits /\ r.waits[w].status \notin Ended
  BY WaitTable DEF Runtime, Running
<1> QED  BY <1>1 DEF Polled, Matches, Waits, Statuses, Ended

LEMMA TickedSession ==
  ASSUME NEW n \in Nat, NEW r \in Runtime(n), ServiceInv(r), NEW q \in RuntimeTicked(r)
  PROVE  /\ q \in Runtime(n) /\ ServiceInv(q) /\ DOMAIN q.waits = DOMAIN r.waits
         /\ q.generation = r.generation /\ q.prepared = r.prepared
         /\ q.active = r.active /\ q.paused = r.paused
         /\ \A w \in DOMAIN r.waits :
              w \in Running(r) /\ q.waits[w].type = "pieReady"
                  /\ q.waits[w].status = "completed" =>
                r.active /\ engine.playing /\ q.waits[w].gen = r.generation
         /\ \A w \in DOMAIN r.waits \ Running(r) : q.waits[w] = r.waits[w]
<1>1. PICK p \in PointerTicked(r), s \in [Running(r) -> Statuses] :
        /\ \A w \in Running(r) : s[w] \in Polled(r, r.waits[w])
        /\ q = [p EXCEPT !.waits = [w \in DOMAIN r.waits |->
             IF w \in Running(r) THEN [r.waits[w] EXCEPT !.status = s[w]] ELSE r.waits[w]]]
  BY DEF RuntimeTicked
<1> DEFINE f == [w \in DOMAIN r.waits |->
             IF w \in Running(r) THEN [r.waits[w] EXCEPT !.status = s[w]] ELSE r.waits[w]]
<1>2. /\ p \in Runtime(n) /\ ServiceInv(p)
      /\ p.waits = r.waits /\ p.generation = r.generation /\ p.prepared = r.prepared
      /\ p.active = r.active /\ p.paused = r.paused /\ p.handles = r.handles
  BY PointerStep
<1>3. r.waits \in [DOMAIN r.waits -> Waits] /\ DOMAIN r.waits \in SUBSET (1..n)
  BY WaitTable DEF Runtime
<1>4. ASSUME NEW w \in DOMAIN r.waits
      PROVE  /\ f[w] \in Waits
             /\ f[w].type = r.waits[w].type /\ f[w].gen = r.waits[w].gen
             /\ f[w].status \notin Ended => r.waits[w].status \notin Ended
             /\ w \in Running(r) => f[w].status = s[w]
             /\ w \notin Running(r) => f[w] = r.waits[w]
  <2>1. CASE w \in Running(r)
    <3>1. r.waits[w] \in Waits /\ s[w] \in Statuses /\ r.waits[w].status \notin Ended
      BY <1>3, <2>1 DEF Running
    <3> QED  BY <2>1, <3>1 DEF Waits
  <2>2. CASE w \notin Running(r)
    BY <1>3, <2>2
  <2> QED  BY <2>1, <2>2
<1>5. f \in Tables(n) /\ DOMAIN f = DOMAIN r.waits
  BY <1>3, <1>4 DEF Tables
<1>6. q = [p EXCEPT !.waits = f]
  BY <1>1
<1> HIDE DEF f
<1>7. /\ q \in Runtime(n) /\ q.waits = f /\ q.generation = r.generation
      /\ q.prepared = r.prepared /\ q.active = r.active /\ q.paused = r.paused
      /\ q.handles = p.handles /\ q.held = p.held /\ q.pointer = p.pointer
      /\ q.pointerActive = p.pointerActive
  BY <1>2, <1>5, <1>6 DEF Runtime
<1>8. Running(q) \subseteq Running(r)
  BY <1>4, <1>5, <1>7 DEF Running
<1>9. ServiceInv(q)
  <2>1. /\ \A w \in Running(q) : q.waits[w].type # "generationChanged" =>
             q.waits[w].gen = q.generation
        /\ \A w \in Running(q) : q.waits[w].type = "other" => q.active
    BY <1>4, <1>7, <1>8 DEF ServiceInv, Running
  <2> QED  BY <1>2, <1>7, <2>1 DEF ServiceInv
<1>10. ASSUME NEW w \in DOMAIN r.waits, w \in Running(r), q.waits[w].type = "pieReady",
              q.waits[w].status = "completed"
       PROVE  r.active /\ engine.playing /\ q.waits[w].gen = r.generation
  <2>1. /\ s[w] \in Polled(r, r.waits[w]) /\ s[w] = "completed"
        /\ r.waits[w].type = "pieReady" /\ q.waits[w].gen = r.waits[w].gen
    BY <1>1, <1>4, <1>7, <1>10
  <2> QED  BY <1>10, <2>1, PollStep
<1> QED  BY <1>4, <1>5, <1>7, <1>9, <1>10

\* The oldest of the waits that have ended is one of them.
LEMMA OldestWait ==
  ASSUME NEW n \in Nat, NEW r \in Runtime(n), DOMAIN r.waits \ Running(r) # {}
  PROVE  Oldest(r) \in DOMAIN r.waits \ Running(r)
<1> DEFINE S == DOMAIN r.waits \ Running(r)
<1>1. S \in SUBSET Nat
  BY WaitTable DEF Runtime
<1>2. \E x \in S : \A y \in S : ~(<<y, x>> \in OpToRel(<, Nat))
  BY <1>1, NatLessThanWellFounded, WFMin
<1>3. \E x \in S : \A y \in S : x <= y
  <2>1. PICK x \in S : \A y \in S : ~(<<y, x>> \in OpToRel(<, Nat))
    BY <1>2
  <2>2. ASSUME NEW y \in S
        PROVE  x <= y
    <3>1. x \in Nat /\ y \in Nat
      BY <1>1
    <3>2. ~(y < x)
      BY <2>1, <3>1 DEF OpToRel
    <3> QED  BY <3>1, <3>2
  <2> QED  BY <2>2
<1> HIDE DEF S
<1>4. Min(S) \in S
  BY <1>3 DEF Min
<1> QED  BY <1>4 DEF Oldest, S

LEMMA RoomMade ==
  ASSUME NEW n \in Nat, NEW r \in Runtime(n),
         Cardinality(DOMAIN r.waits) <= MaxRetainedAsyncJobs,
         Cardinality(Running(r)) < MaxRetainedAsyncJobs
  PROVE  /\ Room(r) \in Tables(n) /\ DOMAIN Room(r) \subseteq DOMAIN r.waits
         /\ Running(r) \subseteq DOMAIN Room(r)
         /\ \A w \in DOMAIN Room(r) : Room(r)[w] = r.waits[w]
         /\ Cardinality(DOMAIN Room(r)) < MaxRetainedAsyncJobs
<1> DEFINE D == DOMAIN r.waits
<1>1. r.waits \in [D -> Waits] /\ D \in SUBSET (1..n) /\ IsFiniteSet(D)
  BY WaitTable DEF Runtime
<1>2. Cardinality(D) \in Nat /\ Running(r) \subseteq D
  BY <1>1, FS_CardinalityType DEF Running
<1>3. CASE Cardinality(D) < MaxRetainedAsyncJobs
  BY <1>1, <1>2, <1>3 DEF Room, Tables
<1>4. CASE ~(Cardinality(D) < MaxRetainedAsyncJobs)
  <2> DEFINE o == Oldest(r)
  <2>1. D \ Running(r) # {}
    BY <1>2, <1>4
  <2>2. o \in D \ Running(r)
    BY <2>1, OldestWait
  <2>3. Cardinality(D \ {o}) = Cardinality(D) - 1
    BY <1>1, <2>2, FS_RemoveElement
  <2>4. Room(r) = [w \in D \ {o} |-> r.waits[w]]
    BY <1>4 DEF Room, Restrict
  <2> HIDE DEF o, D
  <2>5. DOMAIN Room(r) = D \ {o} /\ \A w \in D \ {o} : Room(r)[w] = r.waits[w]
    BY <2>4
  <2>6. Room(r) \in [D \ {o} -> Waits]
    BY <1>1, <2>4
  <2>7. Room(r) \in Tables(n)
    BY <1>1, <2>6 DEF Tables
  <2>8. Cardinality(D \ {o}) < MaxRetainedAsyncJobs
    BY <1>2, <1>4, <2>3 DEF D
  <2> QED  BY <1>2, <2>2, <2>5, <2>7, <2>8 DEF D
<1> QED  BY <1>3, <1>4

---------------------------------------------------------------------------
(* The steps.                                                              *)

\* What a step has to show: the invariant, and the two action properties.
ReadyStep ==
  \A w \in DOMAIN rt'.waits :
    /\ rt'.waits[w].type = "pieReady" /\ rt'.waits[w].status = "completed"
    /\ w \in DOMAIN rt.waits => w \in Running(rt)
    => engine'.playing /\ rt'.waits[w].gen = worldGen'

PromiseStep ==
  worldGen = 0 /\ worldGen' # 0 =>
    worldGen' > lastGen /\ (promise # 0 => worldGen' = promise)

Kept == PIEInv' /\ ReadyStep /\ PromiseStep

\* An operation of the service that only ages its waits satisfies none.
LEMMA AgedReady ==
  ASSUME Aged(rt, rt')
  PROVE  ReadyStep
BY DEF ReadyStep, Aged, Running, Ended

LEMMA ServiceAgedCount ==
  ASSUME NEW r, NEW q, Aged(r, q)
  PROVE  Cardinality(DOMAIN q.waits) = Cardinality(DOMAIN r.waits)
BY DEF Aged

LEMMA TypedStep ==
  ASSUME PIEInv, rt' \in Runtime(accepted), Aged(rt, rt'), accepted' = accepted,
         engine' \in [queued : BOOLEAN, playing : BOOLEAN, ending : BOOLEAN,
                      paused : BOOLEAN],
         paused' \in BOOLEAN, restartPending' \in BOOLEAN, refusals' \in Nat,
         worldGen' \in Nat, lastGen' \in Nat, promise' \in Nat
  PROVE  Typed'
<1>1. /\ accepted \in Nat /\ Cardinality(DOMAIN rt.waits) <= MaxRetainedAsyncJobs
  BY DEF PIEInv, Typed
<1>2. Cardinality(DOMAIN rt'.waits) <= MaxRetainedAsyncJobs
  BY <1>1, ServiceAgedCount
<1> QED  BY <1>1, <1>2 DEF Typed

\* The Editor, and the controller's flag, change without the service.
LEMMA UnchangedService ==
  ASSUME PIEInv, UNCHANGED <<rt, paused, worldGen, lastGen, accepted>>,
         engine'.playing = engine.playing, engine'.paused = engine.paused,
         engine'.ending \/ ~engine.ending, engine'.ending => engine'.playing,
         engine' \in [queued : BOOLEAN, playing : BOOLEAN, ending : BOOLEAN,
                      paused : BOOLEAN],
         refusals' \in Nat, restartPending' \in BOOLEAN,
         promise' \in {0, promise}
  PROVE  Kept
<1>1. Typed' /\ ServiceInv(rt)'
  BY DEF PIEInv, Typed, ServiceInv, Running
<1>2. ActiveSessionIsTheWorld' /\ EngineInv'
  BY DEF PIEInv, ActiveSessionIsTheWorld, EngineInv
<1>3. GenerationInv'
  BY DEF PIEInv, GenerationInv
<1>4. ReadyStep
  BY AgedReady DEF Aged
<1> QED  BY <1>1, <1>2, <1>3, <1>4 DEF Kept, PIEInv, PromiseStep

LEMMA UserStep ==
  ASSUME PIEInv, PlayRefused \/ UserPlays \/ UserStops
  PROVE  Kept
<1>1. /\ engine \in [queued : BOOLEAN, playing : BOOLEAN, ending : BOOLEAN, paused : BOOLEAN]
      /\ refusals \in Nat /\ restartPending \in BOOLEAN /\ EngineInv
  BY DEF PIEInv, Typed
<1>2. CASE PlayRefused
  <2>1. /\ ~engine'.playing /\ ~engine'.ending /\ ~engine'.paused
        /\ engine' \in [queued : BOOLEAN, playing : BOOLEAN, ending : BOOLEAN,
                        paused : BOOLEAN]
    BY <1>2 DEF PlayRefused, Quiet
  <2>2. engine.playing = FALSE /\ engine.paused = FALSE /\ engine.ending = FALSE
    BY <1>1, <1>2 DEF PlayRefused, EngineInv
  <2>3. refusals' \in Nat /\ promise' = 0 /\ restartPending' \in BOOLEAN
        /\ UNCHANGED <<rt, paused, worldGen, lastGen, accepted>>
    BY <1>1, <1>2 DEF PlayRefused
  <2>4. engine'.playing = engine.playing /\ engine'.paused = engine.paused
    BY <2>1, <2>2
  <2> QED  BY <2>1, <2>2, <2>3, <2>4, UnchangedService
<1>3. CASE UserPlays
  BY <1>1, <1>3, UnchangedService DEF UserPlays, history, EngineInv
<1>4. CASE UserStops
  BY <1>1, <1>4, UnchangedService DEF UserStops, history, EngineInv
<1> QED  BY <1>2, <1>3, <1>4

LEMMA BeginStep ==
  ASSUME PIEInv, PlayWorldBegins
  PROVE  Kept
<1> DEFINE b == BeginSession(rt)
           q == BeginSession(b)
<1>1. /\ accepted \in Nat /\ rt \in Runtime(accepted) /\ ServiceInv(rt) /\ ~rt.active
      /\ rt.generation \in Nat /\ lastGen \in Nat /\ promise \in Nat
  BY DEF PIEInv, Typed, ActiveSessionIsTheWorld, PlayWorldBegins, Runtime
<1>2. /\ b \in Runtime(accepted) /\ ServiceInv(b) /\ Aged(rt, b) /\ ~b.prepared /\ b.active
      /\ b.generation = IF rt.prepared THEN rt.generation ELSE rt.generation + 1
  BY <1>1, BegunSession
<1>3. q = b
  BY <1>2 DEF BeginSession
<1> HIDE DEF b
<1>4. /\ rt' \in Runtime(accepted) /\ rt'.waits = b.waits /\ rt'.generation = b.generation
      /\ rt'.prepared = FALSE /\ rt'.active = TRUE /\ rt'.paused = FALSE
      /\ rt'.held = b.held /\ rt'.pointer = b.pointer /\ rt'.handles = b.handles
      /\ rt'.pointerActive = b.pointerActive
  BY <1>2, <1>3 DEF PlayWorldBegins, Runtime, b
<1>5. ServiceInv(rt)'
  BY <1>2, <1>4 DEF ServiceInv, Running
<1>6. Aged(rt, rt')
  BY <1>2, <1>4 DEF Aged
<1>7. /\ engine'.playing /\ ~engine'.ending /\ ~engine'.paused /\ paused' = FALSE
      /\ engine' \in [queued : BOOLEAN, playing : BOOLEAN, ending : BOOLEAN, paused : BOOLEAN]
      /\ worldGen' = rt'.generation /\ lastGen' = rt'.generation
      /\ promise' = IF promise = rt'.generation THEN 0 ELSE promise
      /\ UNCHANGED <<restartPending, accepted, refusals>>
  BY DEF PlayWorldBegins, Quiet
<1>8. rt'.generation > lastGen /\ (promise # 0 => promise = rt'.generation)
  BY <1>1, <1>2, <1>4 DEF PIEInv, GenerationInv
<1>9. Typed'
  <2>1. rt'.generation \in Nat
    BY <1>4 DEF Runtime
  <2>2. /\ paused' \in BOOLEAN /\ restartPending' \in BOOLEAN /\ refusals' \in Nat
        /\ worldGen' \in Nat /\ lastGen' \in Nat /\ promise' \in Nat /\ accepted' = accepted
    BY <1>1, <1>7, <2>1 DEF PIEInv, Typed
  <2> QED  BY <1>4, <1>6, <1>7, <2>2, TypedStep
<1>10. ActiveSessionIsTheWorld' /\ EngineInv' /\ GenerationInv'
  <2>1. rt'.generation \in Nat /\ ~rt'.prepared /\ rt'.active /\ ~rt'.paused
    BY <1>4 DEF Runtime
  <2>2. promise' = 0
    BY <1>7, <1>8
  <2>3. ActiveSessionIsTheWorld' /\ EngineInv'
    BY <1>4, <1>7 DEF ActiveSessionIsTheWorld, EngineInv
  <2>4. GenerationInv'
    BY <1>7, <2>1, <2>2 DEF GenerationInv
  <2> QED  BY <2>3, <2>4
<1>11. ReadyStep /\ PromiseStep
  BY <1>6, <1>7, <1>8, AgedReady DEF PromiseStep
<1> QED  BY <1>5, <1>9, <1>10, <1>11 DEF Kept, PIEInv

LEMMA EndStep ==
  ASSUME PIEInv, PlayWorldEnds
  PROVE  Kept
<1>1. /\ accepted \in Nat /\ rt \in Runtime(accepted) /\ ServiceInv(rt)
  BY DEF PIEInv, Typed
<1>2. /\ rt' \in Runtime(accepted) /\ ServiceInv(rt') /\ Aged(rt, rt') /\ ~rt'.active
      /\ rt'.prepared = rt.prepared /\ rt'.generation = rt.generation
  BY <1>1, EndedSession DEF PlayWorldEnds
<1>3. /\ ~engine'.playing /\ ~engine'.ending /\ ~engine'.paused /\ paused' = FALSE
      /\ engine' \in [queued : BOOLEAN, playing : BOOLEAN, ending : BOOLEAN, paused : BOOLEAN]
      /\ worldGen' = 0 /\ UNCHANGED <<restartPending, accepted, refusals, lastGen, promise>>
  BY DEF PlayWorldEnds, Quiet
<1>4. Typed'
  <2>1. /\ paused' \in BOOLEAN /\ restartPending' \in BOOLEAN /\ refusals' \in Nat
        /\ worldGen' \in Nat /\ lastGen' \in Nat /\ promise' \in Nat /\ accepted' = accepted
    BY <1>3 DEF PIEInv, Typed
  <2> QED  BY <1>2, <1>3, <2>1, TypedStep
<1>5. ActiveSessionIsTheWorld' /\ EngineInv' /\ GenerationInv'
  BY <1>2, <1>3 DEF PIEInv, ActiveSessionIsTheWorld, EngineInv, GenerationInv
<1>6. ReadyStep /\ PromiseStep
  BY <1>2, <1>3, AgedReady DEF PromiseStep
<1>7. ServiceInv(rt)'
  BY <1>2 DEF ServiceInv, Running
<1> QED  BY <1>4, <1>5, <1>6, <1>7 DEF Kept, PIEInv

\* PauseEvent and SetPaused do the same.
LEMMA PauseStep ==
  ASSUME PIEInv, NEW to \in BOOLEAN, PauseEvent(to) \/ SetPaused(to)
  PROVE  Kept
<1>1. /\ accepted \in Nat /\ rt \in Runtime(accepted) /\ ServiceInv(rt)
      /\ engine \in [queued : BOOLEAN, playing : BOOLEAN, ending : BOOLEAN, paused : BOOLEAN]
  BY DEF PIEInv, Typed
<1>2. /\ engine.playing /\ engine' = [engine EXCEPT !.paused = to] /\ paused' = to
      /\ rt' = [rt EXCEPT !.paused = to]
      /\ UNCHANGED <<restartPending, accepted, refusals, worldGen, lastGen, promise>>
  BY DEF PauseEvent, SetPaused, history
<1>3. /\ rt' \in Runtime(accepted) /\ rt'.waits = rt.waits /\ rt'.generation = rt.generation
      /\ rt'.prepared = rt.prepared /\ rt'.active = rt.active /\ rt'.paused = to
      /\ rt'.held = rt.held /\ rt'.pointer = rt.pointer /\ rt'.handles = rt.handles
      /\ rt'.pointerActive = rt.pointerActive
  BY <1>1, <1>2 DEF Runtime
<1>4. /\ engine'.playing /\ engine'.ending = engine.ending /\ engine'.paused = to
      /\ engine' \in [queued : BOOLEAN, playing : BOOLEAN, ending : BOOLEAN, paused : BOOLEAN]
  BY <1>1, <1>2
<1>5. ServiceInv(rt)'
  BY <1>1, <1>3 DEF ServiceInv, Running
<1>6. Typed'
  BY <1>2, <1>3, <1>4 DEF PIEInv, Typed
<1>7. ActiveSessionIsTheWorld' /\ EngineInv' /\ GenerationInv'
  BY <1>2, <1>3, <1>4 DEF PIEInv, ActiveSessionIsTheWorld, EngineInv, GenerationInv
<1>8. ReadyStep /\ PromiseStep
  BY <1>2, <1>3, AgedReady DEF Aged, PromiseStep
<1> QED  BY <1>5, <1>6, <1>7, <1>8 DEF Kept, PIEInv

\* A session is prepared, for a world that is asked for at once or when the present
\* one has ended.
LEMMA PrepareStep ==
  ASSUME PIEInv, rt' = PrepareNextSession(rt), promise' = rt'.generation,
         engine'.ending \/ ~engine'.playing, engine'.playing = engine.playing,
         engine'.paused = engine.paused, engine'.ending => engine'.playing,
         engine' \in [queued : BOOLEAN, playing : BOOLEAN, ending : BOOLEAN,
                      paused : BOOLEAN],
         restartPending' \in BOOLEAN,
         UNCHANGED <<paused, accepted, refusals, worldGen, lastGen>>
  PROVE  Kept
<1>1. /\ accepted \in Nat /\ rt \in Runtime(accepted) /\ ServiceInv(rt)
      /\ rt.generation \in Nat /\ lastGen \in Nat
  BY DEF PIEInv, Typed, Runtime
<1>2. /\ rt' \in Runtime(accepted) /\ ServiceInv(rt') /\ Aged(rt, rt')
      /\ rt'.prepared /\ ~rt'.active
      /\ rt'.generation = IF rt.prepared THEN rt.generation ELSE rt.generation + 1
  BY <1>1, PreparedSession
<1>3. ServiceInv(rt)'
  BY <1>2 DEF ServiceInv, Running
<1>4. Typed'
  <2>1. rt'.generation \in Nat
    BY <1>2 DEF Runtime
  <2> QED  BY <1>2, <2>1, ServiceAgedCount DEF PIEInv, Typed
<1>5. ActiveSessionIsTheWorld' /\ EngineInv' /\ GenerationInv'
  BY <1>1, <1>2 DEF PIEInv, ActiveSessionIsTheWorld, EngineInv, GenerationInv
<1>6. ReadyStep /\ PromiseStep
  BY <1>2, AgedReady DEF PromiseStep
<1> QED  BY <1>3, <1>4, <1>5, <1>6 DEF Kept, PIEInv

LEMMA StartStep ==
  ASSUME PIEInv, Start
  PROVE  Kept
<1>1. /\ engine \in [queued : BOOLEAN, playing : BOOLEAN, ending : BOOLEAN, paused : BOOLEAN]
      /\ refusals \in Nat /\ EngineInv
  BY DEF PIEInv, Typed
<1>2. CASE ~InSession /\ ~engine.ending /\ RequestStart
  BY <1>1, <1>2, PrepareStep DEF Start, RequestStart, InSession, EngineInv
<1>3. CASE /\ promise' = IF engine.ending THEN 0 ELSE promise
           /\ UNCHANGED <<engine, rt>>
  BY <1>1, <1>3, UnchangedService DEF Start, EngineInv
<1> QED  BY <1>2, <1>3 DEF Start

LEMMA RestartStep ==
  ASSUME PIEInv, Restart
  PROVE  Kept
<1>1. /\ engine \in [queued : BOOLEAN, playing : BOOLEAN, ending : BOOLEAN, paused : BOOLEAN]
      /\ restartPending \in BOOLEAN /\ EngineInv
  BY DEF PIEInv, Typed
<1>2. CASE ~engine.playing
  BY <1>1, <1>2, PrepareStep DEF Restart, RequestStart, EngineInv
<1>3. CASE engine.playing
  BY <1>1, <1>3, PrepareStep DEF Restart, EngineInv
<1> QED  BY <1>2, <1>3

LEMMA StopStep ==
  ASSUME PIEInv, Stop
  PROVE  Kept
<1>1. /\ engine \in [queued : BOOLEAN, playing : BOOLEAN, ending : BOOLEAN, paused : BOOLEAN]
      /\ accepted \in Nat /\ rt \in Runtime(accepted) /\ ServiceInv(rt) /\ EngineInv
      /\ refusals \in Nat /\ rt.generation \in Nat /\ lastGen \in Nat
  BY DEF PIEInv, Typed, Runtime
<1>2. CASE ~(engine.queued /\ ~engine.playing)
  BY <1>1, <1>2, UnchangedService DEF Stop, EngineInv
<1>3. CASE engine.queued /\ ~engine.playing
  <2>1. /\ engine'.playing = engine.playing /\ engine'.ending = engine.ending
        /\ engine'.paused = engine.paused
        /\ engine' \in [queued : BOOLEAN, playing : BOOLEAN, ending : BOOLEAN,
                        paused : BOOLEAN]
        /\ restartPending' = FALSE /\ promise' = 0
        /\ UNCHANGED <<paused, accepted, refusals, worldGen, lastGen>>
    BY <1>1, <1>3 DEF Stop
  <2>2. /\ rt' \in Runtime(accepted) /\ ServiceInv(rt') /\ Aged(rt, rt')
        /\ ~rt'.prepared /\ rt'.generation = rt.generation /\ ~rt'.active
    BY <1>1, <1>3, CancelledSession DEF Stop, PIEInv, ActiveSessionIsTheWorld
  <2>3. ServiceInv(rt)'
    BY <2>2 DEF ServiceInv, Running
  <2>4. Typed'
    <3>1. /\ paused' \in BOOLEAN /\ restartPending' \in BOOLEAN /\ refusals' \in Nat
          /\ worldGen' \in Nat /\ lastGen' \in Nat /\ promise' \in Nat
          /\ accepted' = accepted
      BY <2>1 DEF PIEInv, Typed
    <3> QED  BY <2>1, <2>2, <3>1, TypedStep
  <2>5. ActiveSessionIsTheWorld' /\ EngineInv' /\ GenerationInv'
    BY <1>3, <2>1, <2>2 DEF PIEInv, ActiveSessionIsTheWorld, EngineInv, GenerationInv
  <2>6. ReadyStep /\ PromiseStep
    BY <2>1, <2>2, AgedReady DEF PromiseStep
  <2> QED  BY <2>3, <2>4, <2>5, <2>6 DEF Kept, PIEInv
<1> QED  BY <1>2, <1>3

\* The pointer sequence and the waits make a step, and the restart that is due.
LEMMA TickStep ==
  ASSUME PIEInv, Tick
  PROVE  Kept
<1>1. /\ engine \in [queued : BOOLEAN, playing : BOOLEAN, ending : BOOLEAN, paused : BOOLEAN]
      /\ accepted \in Nat /\ rt \in Runtime(accepted) /\ ServiceInv(rt)
      /\ rt.generation \in Nat /\ lastGen \in Nat /\ promise \in Nat
  BY DEF PIEInv, Typed, Runtime
<1>2. PICK r \in RuntimeTicked(rt) :
        IF RestartDue
        THEN /\ engine' = [engine EXCEPT !.queued = TRUE]
             /\ rt' = PrepareNextSession(r)
             /\ restartPending' = FALSE
        ELSE rt' = r /\ UNCHANGED <<engine, restartPending>>
  BY DEF Tick
<1>3. /\ r \in Runtime(accepted) /\ ServiceInv(r) /\ DOMAIN r.waits = DOMAIN rt.waits
      /\ r.generation = rt.generation /\ r.prepared = rt.prepared
      /\ r.active = rt.active /\ r.paused = rt.paused
      /\ \A w \in DOMAIN rt.waits :
           w \in Running(rt) /\ r.waits[w].type = "pieReady"
               /\ r.waits[w].status = "completed" =>
             rt.active /\ engine.playing /\ r.waits[w].gen = rt.generation
      /\ \A w \in DOMAIN rt.waits \ Running(rt) : r.waits[w] = rt.waits[w]
  BY <1>1, <1>2, TickedSession
<1>4. /\ accepted' = accepted /\ worldGen' = worldGen /\ lastGen' = lastGen
      /\ promise' = promise /\ paused' = paused /\ refusals' = refusals
  BY DEF Tick, history
<1>5. /\ rt' \in Runtime(accepted) /\ ServiceInv(rt') /\ Aged(r, rt')
      /\ \/ rt' = r /\ engine' = engine /\ restartPending' = restartPending
         \/ /\ ~engine.playing /\ engine' = [engine EXCEPT !.queued = TRUE]
            /\ rt'.prepared /\ ~rt'.active /\ restartPending' = FALSE
            /\ rt'.generation = IF r.prepared THEN r.generation ELSE r.generation + 1
  <2>1. CASE RestartDue
    <3>1. /\ rt' = PrepareNextSession(r) /\ restartPending' = FALSE
          /\ engine' = [engine EXCEPT !.queued = TRUE] /\ ~engine.playing
      BY <1>2, <2>1 DEF RestartDue, InSession
    <3>2. /\ rt' \in Runtime(accepted) /\ ServiceInv(rt') /\ Aged(r, rt')
          /\ rt'.prepared /\ ~rt'.active
          /\ rt'.generation = IF r.prepared THEN r.generation ELSE r.generation + 1
      BY <1>1, <1>3, <3>1, PreparedSession
    <3> QED  BY <3>1, <3>2
  <2>2. CASE ~RestartDue
    BY <1>2, <1>3, <2>2 DEF Aged
  <2> QED  BY <2>1, <2>2
<1>6. /\ engine'.playing = engine.playing /\ engine'.ending = engine.ending
      /\ engine'.paused = engine.paused
      /\ engine' \in [queued : BOOLEAN, playing : BOOLEAN, ending : BOOLEAN, paused : BOOLEAN]
  BY <1>1, <1>5
<1>7. ServiceInv(rt)'
  BY <1>5 DEF ServiceInv, Running
<1>8. Typed'
  <2>1. restartPending' \in BOOLEAN
    BY <1>5 DEF PIEInv, Typed
  <2>2. Cardinality(DOMAIN rt'.waits) <= MaxRetainedAsyncJobs
    BY <1>3, <1>5 DEF Aged, PIEInv, Typed
  <2> QED  BY <1>4, <1>5, <1>6, <2>1, <2>2 DEF PIEInv, Typed
<1>9. ActiveSessionIsTheWorld' /\ EngineInv'
  <2>1. /\ rt'.active => rt.active /\ rt'.paused = rt.paused
                                   /\ rt'.generation = rt.generation
        /\ engine.playing => rt'.active = rt.active
    BY <1>3, <1>5
  <2> QED  BY <1>4, <1>6, <2>1 DEF PIEInv, ActiveSessionIsTheWorld, EngineInv
<1>10. GenerationInv'
  BY <1>1, <1>3, <1>4, <1>5 DEF PIEInv, GenerationInv
<1>11. ReadyStep
  <2> SUFFICES ASSUME NEW w \in DOMAIN rt'.waits,
                      rt'.waits[w].type = "pieReady", rt'.waits[w].status = "completed",
                      w \in DOMAIN rt.waits => w \in Running(rt)
               PROVE  engine'.playing /\ rt'.waits[w].gen = worldGen'
    BY DEF ReadyStep
  <2>1. rt'.waits[w] = r.waits[w] /\ w \in DOMAIN rt.waits
    BY <1>3, <1>5 DEF Aged
  <2>2. rt.active /\ engine.playing /\ r.waits[w].gen = rt.generation
    BY <1>3, <2>1
  <2> QED  BY <1>4, <1>6, <2>1, <2>2 DEF PIEInv, ActiveSessionIsTheWorld
<1> QED  BY <1>4, <1>7, <1>8, <1>9, <1>10, <1>11 DEF Kept, PIEInv, PromiseStep

LEMMA WaitStep ==
  ASSUME PIEInv, NEW type \in PredicateTypes, StartWait(type)
  PROVE  Kept
<1> DEFINE job == [type |-> type, gen |-> rt.generation, status |-> "running"]
           id == accepted + 1
           f == [w \in DOMAIN Room(rt) \cup {id} |-> IF w = id THEN job ELSE Room(rt)[w]]
           r == [rt EXCEPT !.waits = f]
<1>1. /\ accepted \in Nat /\ rt \in Runtime(accepted) /\ ServiceInv(rt)
      /\ rt.generation \in Nat
      /\ Cardinality(DOMAIN rt.waits) <= MaxRetainedAsyncJobs
      /\ Cardinality(Running(rt)) < MaxRetainedAsyncJobs
  BY DEF PIEInv, Typed, Runtime, StartWait
<1>2. /\ Room(rt) \in Tables(accepted) /\ DOMAIN Room(rt) \subseteq DOMAIN rt.waits
      /\ Running(rt) \subseteq DOMAIN Room(rt)
      /\ \A w \in DOMAIN Room(rt) : Room(rt)[w] = rt.waits[w]
      /\ Cardinality(DOMAIN Room(rt)) < MaxRetainedAsyncJobs
  BY <1>1, RoomMade
<1>3. /\ Room(rt) \in [DOMAIN Room(rt) -> Waits] /\ DOMAIN Room(rt) \in SUBSET (1..accepted)
      /\ IsFiniteSet(DOMAIN Room(rt))
  BY <1>1, <1>2, WaitTable
<1>4. job \in Waits /\ id \notin DOMAIN rt.waits
  <2>1. DOMAIN rt.waits \in SUBSET (1..accepted)
    BY <1>1, WaitTable DEF Runtime
  <2> QED  BY <1>1, <2>1 DEF Waits, Statuses, Ended
<1>5. f \in [DOMAIN Room(rt) \cup {id} -> Waits]
  BY <1>3, <1>4
<1>6. f \in Tables(id) /\ DOMAIN f = DOMAIN Room(rt) \cup {id} /\ id \in Nat
  <2>1. DOMAIN Room(rt) \cup {id} \in SUBSET (1..id)
    BY <1>1, <1>3
  <2> HIDE DEF f
  <2>2. f \in Tables(id)
    BY <1>5, <2>1 DEF Tables
  <2>3. DOMAIN f = DOMAIN Room(rt) \cup {id}
    BY <1>5
  <2> QED  BY <1>1, <2>2, <2>3
<1>7. Cardinality(DOMAIN f) <= MaxRetainedAsyncJobs
  <2>1. Cardinality(DOMAIN f) = Cardinality(DOMAIN Room(rt)) + 1
    BY <1>2, <1>3, <1>4, <1>6, FS_AddElement
  <2>2. Cardinality(DOMAIN Room(rt)) \in Nat
    BY <1>3, FS_CardinalityType
  <2> QED  BY <1>2, <2>1, <2>2
<1>8. /\ f[id] = job
      /\ \A w \in DOMAIN Room(rt) : f[w] = rt.waits[w]
  BY <1>2, <1>4
<1> DEFINE R == r
<1>9. R = [rt EXCEPT !.waits = f]
  OBVIOUS
<1> HIDE DEF f, R
<1>10. /\ R \in Runtime(id) /\ R.waits = f /\ R.generation = rt.generation
       /\ R.prepared = rt.prepared /\ R.active = rt.active /\ R.paused = rt.paused
       /\ R.held = rt.held /\ R.pointer = rt.pointer /\ R.handles = rt.handles
       /\ R.pointerActive = rt.pointerActive
  BY <1>1, <1>6, <1>9 DEF Runtime
<1>11. ASSUME NEW w \in Running(R)
       PROVE  w = id \/ (w \in Running(rt) /\ R.waits[w] = rt.waits[w])
  <2>1. w \in DOMAIN f /\ f[w].status \notin Ended /\ R.waits[w] = f[w]
    BY <1>10, <1>11 DEF Running
  <2>2. w = id \/ w \in DOMAIN Room(rt)
    BY <1>6, <2>1
  <2>3. ASSUME w \in DOMAIN Room(rt)
        PROVE  w \in DOMAIN rt.waits /\ f[w] = rt.waits[w]
    BY <1>2, <1>8, <2>3
  <2>4. CASE w \in DOMAIN Room(rt)
    <3>1. w \in DOMAIN rt.waits /\ rt.waits[w].status \notin Ended
      BY <2>1, <2>3, <2>4
    <3> QED  BY <2>1, <2>3, <2>4, <3>1 DEF Running
  <2> QED  BY <2>2, <2>4
<1>12. ServiceInv(R)
  <2>1. ASSUME NEW w \in Running(R)
        PROVE  /\ R.waits[w].type # "generationChanged" => R.waits[w].gen = R.generation
               /\ R.waits[w].type = "other" => R.active
    <3>1. CASE w = id
      <4>1. R.waits[w].type = type /\ R.waits[w].gen = rt.generation
        BY <1>8, <1>10, <3>1
      <4>2. rt.active \/ type \in {"pieReady", "generationChanged"}
        BY DEF StartWait
      <4> QED  BY <1>10, <4>1, <4>2
    <3>2. CASE w \in Running(rt) /\ R.waits[w] = rt.waits[w]
      BY <1>1, <1>10, <3>2 DEF ServiceInv
    <3> QED  BY <1>11, <3>1, <3>2
  <2> HIDE DEF job, id
  <2>2. /\ \A w \in Running(R) : R.waits[w].type # "generationChanged" =>
             R.waits[w].gen = R.generation
        /\ \A w \in Running(R) : R.waits[w].type = "other" => R.active
    BY <2>1
  <2> QED  BY <1>1, <1>10, <2>2 DEF ServiceInv
<1>13. rt' \in RuntimeTicked(R)
  BY DEF StartWait, R, f
<1>14. /\ rt' \in Runtime(id) /\ ServiceInv(rt') /\ DOMAIN rt'.waits = DOMAIN R.waits
       /\ rt'.generation = R.generation /\ rt'.prepared = R.prepared
       /\ rt'.active = R.active /\ rt'.paused = R.paused
       /\ \A w \in DOMAIN R.waits :
            w \in Running(R) /\ rt'.waits[w].type = "pieReady"
                /\ rt'.waits[w].status = "completed" =>
              R.active /\ engine.playing /\ rt'.waits[w].gen = R.generation
       /\ \A w \in DOMAIN R.waits \ Running(R) : rt'.waits[w] = R.waits[w]
  BY <1>6, <1>10, <1>12, <1>13, TickedSession
<1>15. /\ accepted' = id /\ worldGen' = worldGen /\ lastGen' = lastGen
       /\ promise' = promise /\ paused' = paused /\ refusals' = refusals
       /\ engine' = engine /\ restartPending' = restartPending
  BY DEF StartWait, history
<1>16. ServiceInv(rt)'
  BY <1>14 DEF ServiceInv, Running
<1>17. Typed'
  BY <1>6, <1>7, <1>10, <1>14, <1>15 DEF PIEInv, Typed
<1>18. ActiveSessionIsTheWorld' /\ EngineInv' /\ GenerationInv'
  BY <1>10, <1>14, <1>15 DEF PIEInv, ActiveSessionIsTheWorld, EngineInv, GenerationInv
<1>19. ReadyStep
  <2> SUFFICES ASSUME NEW w \in DOMAIN rt'.waits,
                      rt'.waits[w].type = "pieReady", rt'.waits[w].status = "completed",
                      w \in DOMAIN rt.waits => w \in Running(rt)
               PROVE  engine'.playing /\ rt'.waits[w].gen = worldGen'
    BY DEF ReadyStep
  <2>1. w \in Running(R)
    BY <1>2, <1>6, <1>8, <1>10, <1>14 DEF Running, Ended
  <2>2. rt.active /\ engine.playing /\ rt'.waits[w].gen = rt.generation
    BY <1>10, <1>14, <2>1
  <2> QED  BY <1>15, <2>2 DEF PIEInv, ActiveSessionIsTheWorld
<1> QED  BY <1>15, <1>16, <1>17, <1>18, <1>19 DEF Kept, PIEInv, PromiseStep

\* Deadlines, pointers, input and handles only touch the session that is active.
LEMMA ClientStep ==
  ASSUME PIEInv,
         \/ \E w \in DOMAIN rt.waits : DeadlinePasses(w)
         \/ StartPointerSequence \/ Input \/ MakeRef
  PROVE  Kept
<1>1. /\ accepted \in Nat /\ rt \in Runtime(accepted) /\ ServiceInv(rt)
      /\ rt.active => worldGen = rt.generation
      /\ worldGen \in Nat
  BY DEF PIEInv, Typed, ActiveSessionIsTheWorld
<1>2. UNCHANGED <<engine, restartPending, paused, accepted, refusals, worldGen, lastGen,
                  promise>>
  BY DEF DeadlinePasses, StartPointerSequence, Input, MakeRef, history
<1> DEFINE Touched ==
      /\ rt' \in Runtime(accepted) /\ ServiceInv(rt') /\ DOMAIN rt'.waits = DOMAIN rt.waits
      /\ rt'.generation = rt.generation /\ rt'.prepared = rt.prepared
      /\ rt'.active = rt.active /\ rt'.paused = rt.paused
      /\ \A w \in DOMAIN rt.waits :
           rt'.waits[w] = rt.waits[w] \/ rt'.waits[w].status = "late"
<1>3. ASSUME NEW w \in DOMAIN rt.waits, DeadlinePasses(w)
      PROVE  Touched
  <2>1. /\ rt.waits \in [DOMAIN rt.waits -> Waits] /\ DOMAIN rt.waits \in SUBSET (1..accepted)
    BY <1>1, WaitTable DEF Runtime
  <2> DEFINE f == [rt.waits EXCEPT ![w].status = "late"]
  <2>2. rt' = [rt EXCEPT !.waits = f] /\ rt.waits[w].status = "running"
    BY <1>3 DEF DeadlinePasses
  <2>3. [rt.waits[w] EXCEPT !.status = "late"] \in Waits
    BY <2>1 DEF Waits, Statuses
  <2>4. /\ f \in [DOMAIN rt.waits -> Waits] /\ f[w].status = "late"
        /\ f[w].type = rt.waits[w].type /\ f[w].gen = rt.waits[w].gen
        /\ \A v \in DOMAIN rt.waits \ {w} : f[v] = rt.waits[v]
    BY <2>1, <2>3 DEF Waits
  <2> HIDE DEF f
  <2>5. f \in Tables(accepted) /\ DOMAIN f = DOMAIN rt.waits
    BY <2>1, <2>4 DEF Tables
  <2>6. /\ rt' \in Runtime(accepted) /\ rt'.waits = f
        /\ rt'.generation = rt.generation /\ rt'.prepared = rt.prepared
        /\ rt'.active = rt.active /\ rt'.paused = rt.paused
        /\ rt'.held = rt.held /\ rt'.pointer = rt.pointer /\ rt'.handles = rt.handles
        /\ rt'.pointerActive = rt.pointerActive
    BY <1>1, <2>2, <2>5 DEF Runtime
  <2>7. Running(rt') \subseteq Running(rt)
    BY <2>2, <2>4, <2>5, <2>6 DEF Running, Ended
  <2>8. \A v \in DOMAIN rt.waits : f[v].type = rt.waits[v].type /\ f[v].gen = rt.waits[v].gen
    BY <2>4
  <2>9. ServiceInv(rt')
    BY <1>1, <2>5, <2>6, <2>7, <2>8 DEF ServiceInv, Running
  <2> QED  BY <2>4, <2>5, <2>6, <2>9
<1>4. ASSUME StartPointerSequence  PROVE Touched
  <2>1. /\ rt' \in Runtime(accepted) /\ rt'.waits = rt.waits /\ rt.active
        /\ rt'.generation = rt.generation /\ rt'.prepared = rt.prepared
        /\ rt'.active = rt.active /\ rt'.paused = rt.paused
        /\ rt'.held = rt.held /\ rt'.pointer = rt.generation /\ rt'.handles = rt.handles
        /\ rt'.pointerActive = TRUE /\ rt.generation \in Nat
    BY <1>1, <1>4 DEF StartPointerSequence, Runtime
  <2>2. /\ rt'.pointer # 0 /\ rt'.pointerActive /\ rt'.active
        /\ rt'.pointer = rt'.generation
        /\ rt'.held => rt'.active
        /\ rt'.handles # {} => rt'.handles = {rt'.generation}
    BY <1>1, <2>1 DEF ServiceInv
  <2>3. ServiceInv(rt')
    BY <1>1, <2>1, <2>2, SameWaits
  <2> QED  BY <2>1, <2>3
<1>5. ASSUME Input  PROVE Touched
  <2>1. PICK h \in BOOLEAN : rt.active /\ rt' = [rt EXCEPT !.held = h]
    BY <1>5 DEF Input
  <2>2. /\ rt' \in Runtime(accepted) /\ rt'.waits = rt.waits
        /\ rt'.generation = rt.generation /\ rt'.prepared = rt.prepared
        /\ rt'.active = rt.active /\ rt'.paused = rt.paused
        /\ rt'.pointer = rt.pointer /\ rt'.handles = rt.handles
        /\ rt'.pointerActive = rt.pointerActive
    BY <1>1, <2>1 DEF Runtime
  <2>3. /\ rt'.pointerActive <=> rt'.pointer # 0
        /\ rt'.pointerActive => rt'.active /\ rt'.pointer = rt'.generation
        /\ rt'.handles # {} => rt'.active /\ rt'.handles = {rt'.generation}
        /\ rt'.held => rt'.active
    BY <1>1, <2>1, <2>2 DEF ServiceInv
  <2>4. ServiceInv(rt')
    BY <1>1, <2>2, <2>3, SameWaits
  <2> QED  BY <2>2, <2>4
<1>6. ASSUME MakeRef  PROVE Touched
  <2>1. /\ rt' \in Runtime(accepted) /\ rt'.waits = rt.waits /\ rt.active
        /\ rt'.generation = rt.generation /\ rt'.prepared = rt.prepared
        /\ rt'.active = rt.active /\ rt'.paused = rt.paused
        /\ rt'.held = rt.held /\ rt'.pointer = rt.pointer
        /\ rt'.handles = rt.handles \cup {worldGen}
        /\ rt'.pointerActive = rt.pointerActive
    BY <1>1, <1>6 DEF MakeRef, Runtime
  <2>2. /\ rt'.pointerActive <=> rt'.pointer # 0
        /\ rt'.pointerActive => rt'.active /\ rt'.pointer = rt'.generation
        /\ rt'.handles # {} => rt'.active /\ rt'.handles = {rt'.generation}
        /\ rt'.held => rt'.active
    BY <1>1, <2>1 DEF ServiceInv
  <2>3. ServiceInv(rt')
    BY <1>1, <2>1, <2>2, SameWaits
  <2> QED  BY <2>1, <2>3
<1>7. Touched
  BY <1>3, <1>4, <1>5, <1>6
<1>8. ServiceInv(rt)'
  BY <1>7 DEF ServiceInv, Running
<1>9. Typed'
  BY <1>2, <1>7 DEF PIEInv, Typed
<1>10. ActiveSessionIsTheWorld' /\ EngineInv' /\ GenerationInv'
  BY <1>2, <1>7 DEF PIEInv, ActiveSessionIsTheWorld, EngineInv, GenerationInv
<1>11. ReadyStep
  BY <1>7 DEF ReadyStep, Running, Ended
<1> QED  BY <1>2, <1>8, <1>9, <1>10, <1>11 DEF Kept, PIEInv, PromiseStep

LEMMA InitHolds ==
  ASSUME Init
  PROVE  PIEInv
<1> DEFINE r == [generation |-> 0, prepared |-> FALSE, active |-> FALSE, paused |-> FALSE,
                 held |-> FALSE, pointerActive |-> FALSE, pointer |-> 0,
                 waits |-> << >>, handles |-> {}]
           p == PrepareNextSession(r)
           b == BeginSession(p)
<1>1. PICK playing \in BOOLEAN, isPaused \in BOOLEAN :
        /\ isPaused => playing
        /\ engine = [Quiet EXCEPT !.playing = playing, !.paused = isPaused]
        /\ paused = isPaused
        /\ rt = IF playing THEN [b EXCEPT !.paused = isPaused] ELSE r
        /\ worldGen = IF playing THEN 1 ELSE 0
        /\ lastGen = worldGen
  BY DEF Init
<1>2. restartPending = FALSE /\ accepted = 0 /\ refusals = 0 /\ promise = 0
  BY DEF Init
<1>3. /\ engine \in [queued : BOOLEAN, playing : BOOLEAN, ending : BOOLEAN, paused : BOOLEAN]
      /\ engine.playing = playing /\ engine.paused = isPaused /\ ~engine.ending
  BY <1>1 DEF Quiet
<1>4. << >> \in Tables(0) /\ DOMAIN << >> = {}
  <2>1. << >> \in [{} -> Waits] /\ {} \in SUBSET (1..0)
    OBVIOUS
  <2> QED  BY <2>1 DEF Tables
<1>5. /\ r \in Runtime(0) /\ r.generation = 0 /\ r.waits = << >> /\ ~r.prepared /\ ~r.active
      /\ ~r.held /\ ~r.pointerActive /\ r.pointer = 0 /\ r.handles = {} /\ ~r.paused
  BY <1>4 DEF Runtime
<1> HIDE DEF r
<1>6. ServiceInv(r)
  BY <1>4, <1>5 DEF ServiceInv, Running
<1>7. /\ p \in Runtime(0) /\ ServiceInv(p) /\ Aged(r, p) /\ p.prepared /\ p.generation = 1
  BY <1>5, <1>6, PreparedSession
<1> HIDE DEF p
<1>8. /\ b \in Runtime(0) /\ ServiceInv(b) /\ Aged(p, b) /\ ~b.prepared /\ b.active
      /\ b.generation = 1
  BY <1>7, BegunSession
<1> HIDE DEF b
<1>9. CASE playing
  <2>1. /\ rt \in Runtime(0) /\ rt.waits = b.waits /\ rt.generation = 1
        /\ ~rt.prepared /\ rt.active /\ rt.paused = isPaused /\ rt.held = b.held
        /\ rt.pointer = b.pointer /\ rt.handles = b.handles
        /\ rt.pointerActive = b.pointerActive
    BY <1>1, <1>8, <1>9 DEF Runtime
  <2>2. ServiceInv(rt)
    BY <1>8, <2>1 DEF ServiceInv, Running
  <2>3. Cardinality(DOMAIN rt.waits) = 0
    <3>1. DOMAIN rt.waits = {}
      BY <1>4, <1>5, <1>7, <1>8, <2>1 DEF Aged
    <3> QED  BY <3>1, FS_EmptySet
  <2>4. Typed
    <3>1. paused \in BOOLEAN /\ restartPending \in BOOLEAN
      BY <1>1, <1>2
    <3> QED  BY <1>1, <1>2, <1>3, <1>9, <2>1, <2>3, <3>1 DEF Typed
  <2>5. ActiveSessionIsTheWorld /\ EngineInv /\ GenerationInv
    BY <1>1, <1>2, <1>3, <1>9, <2>1
       DEF ActiveSessionIsTheWorld, EngineInv, GenerationInv
  <2> QED  BY <2>2, <2>4, <2>5 DEF PIEInv
<1>10. CASE ~playing
  <2>1. rt = r
    BY <1>1, <1>10
  <2>2. Cardinality(DOMAIN rt.waits) = 0
    <3>1. DOMAIN rt.waits = {}
      BY <1>4, <1>5, <2>1
    <3> QED  BY <3>1, FS_EmptySet
  <2>3. Typed
    <3>1. paused \in BOOLEAN /\ restartPending \in BOOLEAN
      BY <1>1, <1>2
    <3> QED  BY <1>1, <1>2, <1>3, <1>5, <1>10, <2>1, <2>2, <3>1 DEF Typed
  <2>4. ActiveSessionIsTheWorld /\ EngineInv /\ GenerationInv
    BY <1>1, <1>2, <1>3, <1>5, <1>10, <2>1
       DEF ActiveSessionIsTheWorld, EngineInv, GenerationInv
  <2> QED  BY <1>6, <2>1, <2>3, <2>4 DEF PIEInv
<1> QED  BY <1>9, <1>10

LEMMA NextKeeps ==
  ASSUME PIEInv, Next
  PROVE  Kept
BY UserStep, BeginStep, EndStep, PauseStep, StartStep, RestartStep, StopStep, TickStep,
   WaitStep, ClientStep DEF Next

LEMMA StutterKeeps ==
  ASSUME PIEInv, UNCHANGED vars
  PROVE  PIEInv'
<1>1. Typed' /\ ServiceInv(rt)'
  BY DEF vars, history, PIEInv, Typed, ServiceInv, Running
<1>2. ActiveSessionIsTheWorld' /\ EngineInv' /\ GenerationInv'
  BY DEF vars, history, PIEInv, ActiveSessionIsTheWorld, EngineInv, GenerationInv
<1> QED  BY <1>1, <1>2 DEF PIEInv

---------------------------------------------------------------------------
(* The theorems.                                                           *)

\* The invariant all the others rest on.
THEOREM Invariance == Spec => []PIEInv
<1>1. Init => PIEInv
  BY InitHolds
<1>2. PIEInv /\ [Next]_vars => PIEInv'
  BY NextKeeps, StutterKeeps DEF Kept
<1> QED  BY <1>1, <1>2, PTL DEF Spec

\* Every field of the Editor, the controller and the runtime service has its type, and
\* no more waits are kept than there is room for, however many clients start.
THEOREM TypeCorrect == Spec => []TypeOK
<1>1. ASSUME PIEInv  PROVE TypeOK
  <2>1. accepted \in Nat /\ rt \in Runtime(accepted) /\ rt.waits \in Tables(accepted)
    BY <1>1 DEF PIEInv, Typed, Runtime
  <2>2. rt.waits \in [DOMAIN rt.waits -> Waits] /\ DOMAIN rt.waits \subseteq 1..accepted
    BY <2>1, WaitTable
  <2>3. rt \in Fields(DOMAIN rt.waits)
    BY <2>1, <2>2 DEF Runtime, Fields
  <2> QED  BY <1>1, <2>2, <2>3 DEF PIEInv, Typed, TypeOK
<1> QED  BY <1>1, Invariance, PTL

\* Whatever the order of starts, stops, restarts, pauses and the Editor's own steps,
\* the session called active is the one of the Play World, and so is the pause.
THEOREM SessionsAreTheWorlds == Spec => []ActiveSessionIsTheWorld
<1>1. PIEInv => ActiveSessionIsTheWorld
  BY DEF PIEInv
<1> QED  BY <1>1, Invariance, PTL

\* Each way a session ends ends its waits, its pointer sequence, its object handles
\* and the input it pressed.
THEOREM NothingOutlives == Spec => []NothingOutlivesItsSession
<1>1. PIEInv => NothingOutlivesItsSession
  BY DEF PIEInv, ServiceInv, NothingOutlivesItsSession
<1> QED  BY <1>1, Invariance, PTL

\* A wait for PIE is never satisfied by the world that a restart replaces.
THEOREM WaitsAreForTheirWorld == Spec => ReadyIsOwnWorld
<1>1. PIEInv /\ [Next]_vars => [ReadyStep]_vars
  BY NextKeeps DEF Kept
<1> QED  BY <1>1, Invariance, PTL DEF Spec, ReadyIsOwnWorld, ReadyStep

\* A Play World has a generation of its own, the one that was promised for it.
THEOREM PromisesAreKept == Spec => WorldHasThePromisedGeneration
<1>1. PIEInv /\ [Next]_vars => [PromiseStep]_vars
  BY NextKeeps DEF Kept
<1> QED  BY <1>1, Invariance, PTL DEF Spec, WorldHasThePromisedGeneration, PromiseStep
=============================================================================
