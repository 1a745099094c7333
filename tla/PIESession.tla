----------------------------- MODULE PIESession -----------------------------
(***************************************************************************)
(* FPIESessionController and the sessions of FRuntimeSceneService: how the  *)
(* requests of clients to start, stop, restart and pause Play In Editor     *)
(* meet the Editor, which starts and ends Play Worlds in its own time, and  *)
(* its user, who does so too.  Each Play World is given a generation, known *)
(* to clients before the world exists; waits, pointer sequences, object     *)
(* handles and pressed keys belong to a generation.                         *)
(*                                                                         *)
(* Everything runs on the Game Thread: an action is a handler, a tick of    *)
(* the controller or a step of the Editor.  Which point of its deadline a   *)
(* wait has reached is all that is kept of the time.                        *)
(***************************************************************************)
EXTENDS Integers, FiniteSets, FiniteSetsExt, Functions

CONSTANTS
  MaxRetainedAsyncJobs, \* waits kept, the ended ones included
  MaxGeneration,        \* bound on the generations
  MaxWaits,             \* bound on the waits started
  MaxRefusals           \* bound on the play requests that the Editor drops

ASSUME PIEAssumption ==
  /\ MaxRetainedAsyncJobs \in Nat \ {0}
  /\ {MaxGeneration, MaxWaits, MaxRefusals} \subseteq Nat

VARIABLES
  engine,         \* GEditor
  restartPending, \* bRestartPending
  paused,         \* bPaused of the controller
  rt,             \* FRuntimeSceneService::FImpl
  accepted,       \* number of waits started
  refusals,       \* play requests dropped so far
  worldGen,       \* generation of the Play World, 0 if there is none (history)
  lastGen,        \* generation of the last Play World that began (history)
  promise         \* generation the last accepted start or restart answered with,
                  \* until its world begins or the request is withdrawn (history)

history == <<worldGen, lastGen, promise>>
vars == <<engine, restartPending, paused, rt, accepted, refusals, history>>

PredicateTypes == {"pieReady", "generationChanged", "other"}
Ended == {"completed", "stale", "failed"}
Statuses == Ended \cup {"running", "late"}
\* A wait runs, also past its deadline ("late") until it is polled.
Running(r) == {w \in DOMAIN r.waits : r.waits[w].status \notin Ended}

Quiet == [queued |-> FALSE, playing |-> FALSE, ending |-> FALSE, paused |-> FALSE]

---------------------------------------------------------------------------
(* The runtime service.  Its field pointer is the generation of the running  *)
(* pointer sequence, 0 if none runs; pointerActive is that there is an        *)
(* ActivePointerSequenceId; held is that input is pressed.                   *)

Stale(r) ==
  [w \in DOMAIN r.waits |->
     IF w \in Running(r) /\ r.waits[w].type # "generationChanged"
     THEN [r.waits[w] EXCEPT !.status = "stale"] ELSE r.waits[w]]

\* Mutant: a pointer sequence survives.
TerminatedButPointer(r) == [r EXCEPT !.held = FALSE, !.waits = Stale(r)]
\* TerminateAsyncForSessionEnd.
Terminated(r) ==
  [r EXCEPT !.held = FALSE, !.pointerActive = FALSE, !.pointer = 0, !.waits = Stale(r)]

PrepareNextSession(r) ==
  IF r.prepared THEN r
  ELSE [Terminated(r) EXCEPT !.generation = @ + 1, !.handles = {}, !.active = FALSE,
                             !.prepared = TRUE, !.paused = FALSE]

\* Mutant: a world that begins always gets a new generation.
BeginSessionAfresh(r) ==
  [PrepareNextSession([r EXCEPT !.prepared = FALSE])
     EXCEPT !.prepared = FALSE, !.active = TRUE, !.paused = FALSE, !.handles = {}]
BeginSession(r) ==
  IF r.active THEN r
  ELSE [PrepareNextSession(r) EXCEPT !.prepared = FALSE, !.active = TRUE,
                                     !.paused = FALSE, !.handles = {}]

CancelPreparedSession(r) ==
  IF ~r.prepared THEN r
  ELSE [Terminated(r) EXCEPT !.handles = {}, !.prepared = FALSE, !.active = FALSE,
                             !.paused = FALSE]

\* Mutant: the session stays active until the next one is prepared.
EndSessionLate(r) == [Terminated(r) EXCEPT !.handles = {}, !.paused = FALSE]
EndSession(r) == [Terminated(r) EXCEPT !.handles = {}, !.active = FALSE, !.paused = FALSE]

\* Mutant: the viewport is enough.
MatchesIgnoringSession(r, job) == job.type # "pieReady" \/ engine.playing
Matches(r, job) == job.type # "pieReady" \/ (r.active /\ engine.playing)

\* What a running wait may become when it is polled (not at all, if its poll
\* interval has not passed).  Its predicate is looked at before its deadline.
Polled(r, job) ==
  IF job.type = "generationChanged" /\ job.gen # r.generation THEN {"completed"}
  ELSE IF job.gen # r.generation THEN {"stale"}
  ELSE (IF job.type # "generationChanged" /\ Matches(r, job) THEN {"completed"} ELSE {})
       \cup (IF job.type = "other" \/ job.status = "late" THEN {"failed"} ELSE {})
       \cup ({job.status} \ {"late"})

\* The pointer sequence dispatches its steps, and ends when it has no more, when one
\* fails or when one cancels it.
PointerTicked(r) ==
  IF ~r.pointerActive THEN {r}
  ELSE IF ~r.active \/ r.pointer # r.generation
    THEN {[r EXCEPT !.pointerActive = FALSE, !.pointer = 0, !.held = FALSE]}
  ELSE {[r EXCEPT !.held = h] : h \in BOOLEAN}
       \cup {[r EXCEPT !.pointerActive = FALSE, !.pointer = 0, !.held = h] : h \in BOOLEAN}

\* FRuntimeSceneService::Tick, as the set of its outcomes.
RuntimeTicked(r) ==
  UNION {{[q EXCEPT !.waits = [w \in DOMAIN r.waits |->
             IF w \in Running(r) THEN [r.waits[w] EXCEPT !.status = s[w]] ELSE r.waits[w]]] :
           s \in {t \in [Running(r) -> Statuses] :
                    \A w \in Running(r) : t[w] \in Polled(r, r.waits[w])}} :
         q \in PointerTicked(r)}

---------------------------------------------------------------------------
(* The Editor.                                                             *)

\* A plugin reload may find a Play World running.
Init ==
  /\ \E playing \in BOOLEAN, isPaused \in BOOLEAN :
       /\ isPaused => playing
       /\ engine = [Quiet EXCEPT !.playing = playing, !.paused = isPaused]
       /\ paused = isPaused
       /\ LET r == [generation |-> 0, prepared |-> FALSE, active |-> FALSE, paused |-> FALSE,
                    held |-> FALSE, pointerActive |-> FALSE, pointer |-> 0,
                    waits |-> << >>, handles |-> {}]
          IN  rt = IF playing
                   THEN [BeginSession(PrepareNextSession(r)) EXCEPT !.paused = isPaused] ELSE r
       /\ worldGen = IF playing THEN 1 ELSE 0
       /\ lastGen = worldGen
  /\ restartPending = FALSE /\ accepted = 0 /\ refusals = 0 /\ promise = 0

InSession == engine.playing \/ engine.queued

\* The Editor takes the queued request: BeginPIE, and PostPIEStarted, after which
\* BeginSession changes nothing more.
PlayWorldBegins ==
  /\ engine.queued /\ ~engine.playing
  /\ engine' = [Quiet EXCEPT !.playing = TRUE]
  /\ rt' = [BeginSession(BeginSession(rt)) EXCEPT !.paused = FALSE]
  /\ paused' = FALSE
  /\ worldGen' = rt'.generation /\ lastGen' = rt'.generation
  /\ promise' = IF promise = rt'.generation THEN 0 ELSE promise
  /\ UNCHANGED <<restartPending, accepted, refusals>>

\* It drops the request: Blueprint errors, or the user changes their mind.
PlayRefused ==
  /\ engine.queued /\ ~engine.playing /\ refusals < MaxRefusals
  /\ engine' = Quiet /\ refusals' = refusals + 1 /\ promise' = 0
  /\ UNCHANGED <<restartPending, paused, rt, accepted, worldGen, lastGen>>

\* EndPlayMap, and EndPIE.
PlayWorldEnds ==
  /\ engine.ending
  /\ engine' = Quiet
  /\ rt' = EndSession(rt)
  /\ paused' = FALSE
  /\ worldGen' = 0
  /\ UNCHANGED <<restartPending, accepted, refusals, lastGen, promise>>

\* The user of the Editor.
UserPlays ==
  /\ ~InSession /\ rt.generation < MaxGeneration
  /\ engine' = [engine EXCEPT !.queued = TRUE]
  /\ UNCHANGED <<restartPending, paused, rt, accepted, refusals, history>>

UserStops ==
  /\ engine.playing /\ ~engine.ending
  /\ engine' = [engine EXCEPT !.ending = TRUE]
  /\ UNCHANGED <<restartPending, paused, rt, accepted, refusals, history>>

\* PausePIE and ResumePIE, whoever asked for it.
PauseEvent(to) ==
  /\ engine.playing /\ engine.paused # to
  /\ engine' = [engine EXCEPT !.paused = to]
  /\ paused' = to /\ rt' = [rt EXCEPT !.paused = to]
  /\ UNCHANGED <<restartPending, accepted, refusals, history>>

---------------------------------------------------------------------------
(* The controller.                                                         *)

RequestStart ==
  /\ engine' = [engine EXCEPT !.queued = TRUE]
  /\ rt' = PrepareNextSession(rt)
  /\ promise' = rt'.generation

MayPrepare == rt.prepared \/ rt.generation < MaxGeneration

\* Start.  While a world shuts down it only withdraws the restart.
Start ==
  /\ restartPending' = FALSE
  /\ \/ /\ ~InSession /\ ~engine.ending /\ MayPrepare
        /\ RequestStart
     \/ /\ InSession \/ engine.ending
        /\ promise' = IF engine.ending THEN 0 ELSE promise
        /\ UNCHANGED <<engine, rt>>
  /\ UNCHANGED <<paused, accepted, refusals, worldGen, lastGen>>

Stop ==
  /\ restartPending' = FALSE
  /\ promise' = 0
  /\ IF engine.queued /\ ~engine.playing
     THEN /\ engine' = [engine EXCEPT !.queued = FALSE]
          /\ rt' = CancelPreparedSession(rt)
     ELSE /\ engine' = [engine EXCEPT !.ending = engine.playing]
          /\ UNCHANGED rt
  /\ UNCHANGED <<paused, accepted, refusals, worldGen, lastGen>>

\* Mutant: the restart is not left to the tick.
RestartAtOnce ==
  /\ ~restartPending /\ MayPrepare
  /\ RequestStart
  /\ UNCHANGED <<restartPending, paused, accepted, refusals, worldGen, lastGen>>
Restart ==
  /\ ~restartPending /\ MayPrepare
  /\ IF ~engine.playing
     THEN RequestStart /\ UNCHANGED restartPending
     ELSE /\ restartPending' = TRUE
          /\ rt' = PrepareNextSession(rt)
          /\ engine' = [engine EXCEPT !.ending = TRUE]
          /\ promise' = rt'.generation
  /\ UNCHANGED <<paused, accepted, refusals, worldGen, lastGen>>

RestartDue == restartPending /\ ~InSession /\ ~engine.ending

\* Pause and Resume go by what the Editor says afterwards.
SetPaused(to) ==
  /\ engine.playing
  /\ engine' = [engine EXCEPT !.paused = to]
  /\ paused' = to /\ rt' = [rt EXCEPT !.paused = to]
  /\ UNCHANGED <<restartPending, accepted, refusals, history>>

Tick ==
  /\ \E r \in RuntimeTicked(rt) :
       IF RestartDue
       THEN /\ engine' = [engine EXCEPT !.queued = TRUE]
            /\ rt' = PrepareNextSession(r)
            /\ restartPending' = FALSE
       ELSE rt' = r /\ UNCHANGED <<engine, restartPending>>
  /\ UNCHANGED <<paused, accepted, refusals, history>>

---------------------------------------------------------------------------
(* Requests of clients on the session that is current.                     *)

\* While there are too many results the oldest that has ended is forgotten.
Oldest(r) == Min(DOMAIN r.waits \ Running(r))
\* Mutant: nothing is forgotten.
RoomNotMade(r) == r.waits
Room(r) ==
  IF Cardinality(DOMAIN r.waits) < MaxRetainedAsyncJobs THEN r.waits
  ELSE Restrict(r.waits, DOMAIN r.waits \ {Oldest(r)})

\* StartWait for the current generation, also one that only is prepared; it ticks.
StartWait(type) ==
  /\ accepted < MaxWaits /\ rt.generation > 0
  /\ rt.active \/ type \in {"pieReady", "generationChanged"}
  /\ Cardinality(Running(rt)) < MaxRetainedAsyncJobs
  /\ LET job == [type |-> type, gen |-> rt.generation, status |-> "running"]
         id == accepted + 1
         waits == Room(rt)
     IN  rt' \in RuntimeTicked(
           [rt EXCEPT !.waits = [w \in DOMAIN waits \cup {id} |->
                                   IF w = id THEN job ELSE waits[w]]])
  /\ accepted' = accepted + 1
  /\ UNCHANGED <<engine, restartPending, paused, refusals, history>>

\* The deadline of a running wait passes.
DeadlinePasses(w) ==
  /\ rt.waits[w].status = "running"
  /\ rt' = [rt EXCEPT !.waits[w].status = "late"]
  /\ UNCHANGED <<engine, restartPending, paused, accepted, refusals, history>>

StartPointerSequence ==
  /\ rt.active /\ ~rt.pointerActive
  /\ rt' = [rt EXCEPT !.pointerActive = TRUE, !.pointer = rt.generation]
  /\ UNCHANGED <<engine, restartPending, paused, accepted, refusals, history>>

\* KeyInput and the other input presses or releases.
Input ==
  /\ rt.active
  /\ \E h \in BOOLEAN : rt' = [rt EXCEPT !.held = h]
  /\ UNCHANGED <<engine, restartPending, paused, accepted, refusals, history>>

\* MakeRef, for an object of the Play World.
MakeRef ==
  /\ rt.active /\ engine.playing
  /\ rt' = [rt EXCEPT !.handles = @ \cup {worldGen}]
  /\ UNCHANGED <<engine, restartPending, paused, accepted, refusals, history>>

Next ==
  \/ PlayWorldBegins \/ PlayRefused \/ PlayWorldEnds \/ UserPlays \/ UserStops
  \/ \E to \in BOOLEAN : PauseEvent(to) \/ SetPaused(to)
  \/ Start \/ Stop \/ Restart \/ Tick
  \/ \E type \in PredicateTypes : StartWait(type)
  \/ \E w \in DOMAIN rt.waits : DeadlinePasses(w)
  \/ StartPointerSequence \/ Input \/ MakeRef

\* The Editor ticks, ends the world it was asked to end, and takes or drops the
\* request it has queued.  Nobody has to play, stop or ask.
Fairness == WF_vars(Tick) /\ WF_vars(PlayWorldEnds) /\ WF_vars(PlayWorldBegins)

Spec == Init /\ [][Next]_vars
FairSpec == Spec /\ Fairness

---------------------------------------------------------------------------
(* Properties.                                                             *)

Waits == [type : PredicateTypes, gen : Nat, status : Statuses]

\* The fields of the service when it keeps the waits W.
Fields(W) ==
  [generation : Nat, prepared : BOOLEAN, active : BOOLEAN, paused : BOOLEAN,
   held : BOOLEAN, pointerActive : BOOLEAN, pointer : Nat,
   waits : [W -> Waits], handles : SUBSET Nat]

\* The fields of the Editor, the controller and the service have their types, and no
\* more waits are kept than the service has room for.
TypeOK ==
  /\ engine \in [queued : BOOLEAN, playing : BOOLEAN, ending : BOOLEAN, paused : BOOLEAN]
  /\ {restartPending, paused} \subseteq BOOLEAN
  /\ DOMAIN rt.waits \subseteq 1..accepted
  /\ rt \in Fields(DOMAIN rt.waits)
  /\ Cardinality(DOMAIN rt.waits) <= MaxRetainedAsyncJobs
  /\ {accepted, refusals, worldGen, lastGen, promise} \subseteq Nat

\* The session the service calls active is the one of the Play World, a world that
\* is not ending always has it active, and the pause that clients are told of is
\* that world's, in whatever order the user, the clients and the Editor acted.
ActiveSessionIsTheWorld ==
  /\ rt.active => engine.playing /\ worldGen = rt.generation
  /\ engine.playing /\ ~engine.ending => rt.active
  /\ paused = engine.paused
  /\ rt.active => rt.paused = paused

\* No wait, pointer sequence, object handle or pressed key outlives the session it
\* belongs to: what still runs is of the current generation, and pointers, handles
\* and keys exist only while its world is the active one.  A running pointer
\* sequence is the one that keeps others from starting.
NothingOutlivesItsSession ==
  /\ \A w \in Running(rt) : rt.waits[w].type # "generationChanged" =>
       rt.waits[w].gen = rt.generation
  /\ \A w \in Running(rt) : rt.waits[w].type = "other" => rt.active
  /\ rt.pointerActive <=> rt.pointer # 0
  /\ rt.pointerActive => rt.active /\ rt.pointer = rt.generation
  /\ rt.handles # {} => rt.active /\ rt.handles = {rt.generation}
  /\ rt.held => rt.active

\* A wait for PIE to be ready is satisfied only by the world of the generation it
\* was started for, never by the world a restart is about to replace.
ReadyIsOwnWorld ==
  [][\A w \in DOMAIN rt'.waits :
       /\ rt'.waits[w].type = "pieReady" /\ rt'.waits[w].status = "completed"
       /\ w \in DOMAIN rt.waits => w \in Running(rt)
       => engine'.playing /\ rt'.waits[w].gen = worldGen']_vars

\* A Play World gets a generation that no world had before, and if a client was
\* answered one for the world it asked for, it gets that one.
WorldHasThePromisedGeneration ==
  [][worldGen = 0 /\ worldGen' # 0 =>
       worldGen' > lastGen /\ (promise # 0 => worldGen' = promise)]_vars

\* The world that a client was promised by an accepted start or restart begins,
\* unless a stop, a start during the shutdown or the Editor's refusal withdraws it.
PromisedWorldBegins == promise # 0 ~> promise = 0
=============================================================================
