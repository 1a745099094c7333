--------------------------- MODULE ProductionJobs ---------------------------
(***************************************************************************)
(* FProductionJobRuntime: durable jobs.  A job is a child process, a        *)
(* recording of the engine's trace, the analysis of a recording, or a       *)
(* performance run, which may own a recording.  The job table is in memory; *)
(* every change of a status or phase is followed by SaveJournal, which      *)
(* writes the job's file in place and tells nobody if it fails; and an      *)
(* Editor that starts loads the files it can read.  One heavy job runs at a *)
(* time, and the engine writes one trace at a time, not always a job's.     *)
(*                                                                         *)
(* Client requests and the tick run on the Game Thread; the tick walks the  *)
(* jobs one at a time.  Processes exit, the trace connects and deadlines    *)
(* pass at any moment, and so may the Editor crash.                         *)
(***************************************************************************)
EXTENDS Integers

CONSTANTS
  Uses,        \* <<kind, requestId, input>>: what clients start
  None,        \* the empty requestId
  Fragile,     \* the jobs whose journal may fail to be written (a bound)
  MaxJobs,     \* bound on the jobs created
  MaxRestarts  \* bound on the restarts of the Editor

Started == {"process", "trace", "performance", "ddc"}
Heavy == {"process", "performance", "traceAnalysis"}
Inputs == {"plain", "artifactOnly", "analyze", "capture", "analysis"}
Terminal == {"succeeded", "failed", "cancelled", "interrupted"}

ASSUME JobsAssumption ==
  /\ \A u \in Uses : u[1] \in Started /\ u[3] \in Inputs
  /\ MaxJobs \in Nat /\ MaxRestarts \in Nat
  /\ Fragile \subseteq 1..MaxJobs

VARIABLES
  rt,        \* the runtime, the journals it last asked for, the engine's trace (writer)
  disk,      \* job.json of each job
  procs,     \* jobs whose child process runs
  walk,      \* the tick: jobs left to visit, traces to stop at its end
  restarts,  \* number of restarts
  orphans,   \* processes whose Editor crashed (history)
  rejected,  \* jobs of refused requests, which were taken out again (history)
  abandoned  \* traces whose analysis was cancelled (history)

vars == <<rt, disk, procs, walk, restarts, orphans, rejected, abandoned>>

JobIds == 1..MaxJobs
Reqs == {u[2] : u \in Uses} \cup {None}
User == MaxJobs + 1  \* writer: a trace of the Editor's user
Running(r) == {id \in DOMAIN r.jobs : r.jobs[id].status = "running"}

---------------------------------------------------------------------------
(* The job table and the journals.                                         *)

\* f with value at key.
With(f, key, value) == [k \in DOMAIN f \cup {key} |-> IF k = key THEN value ELSE f[k]]

Journal(job) == [kind |-> job.kind, req |-> job.req, input |-> job.input,
                 status |-> job.status]
\* SaveJournal is called.
Saved(r, id) == [r EXCEPT !.asked = With(@, id, Journal(r.jobs[id]))]

\* No file, or a torn one.
Unreadable == [status |-> "unreadable"]
Readable(d) == {id \in JobIds : d[id] # Unreadable}

\* What SaveJournal makes of the files d of the jobs ids: it writes in place, and does
\* not look whether it could.  A file holds what was asked, or is left as it was, or
\* torn, or has what an earlier call of the same handler wrote (for the jobs of twice):
\* that the job has not ended.
Written(d, ids, asked, twice) ==
  LET Holds(id, how) ==
        CASE how = "whole" -> asked[id]
          [] how = "left" -> d[id]
          [] how = "torn" -> Unreadable
          [] how = "earlier" -> IF id \in twice THEN [asked[id] EXCEPT !.status = "queued"]
                                ELSE d[id]
  IN {[id \in JobIds |->
         IF id \notin ids THEN d[id]
         ELSE IF id \in Fragile THEN Holds(id, how[id]) ELSE asked[id]] :
      how \in [Fragile -> {"whole", "left", "torn", "earlier"}]}

\* The handler has saved the jobs it created, those whose status or phase it changed,
\* and also those in more.
Changed ==
  {id \in DOMAIN rt'.asked :
     \/ id \notin DOMAIN rt.asked
     \/ /\ id \in DOMAIN rt.jobs /\ id \in DOMAIN rt'.jobs
        /\ \/ rt'.jobs[id].status # rt.jobs[id].status
           \/ rt'.jobs[id].phase # rt.jobs[id].phase}
Saves(more) ==
  disk' \in Written(disk, Changed \cup more, rt'.asked,
                    {id \in DOMAIN rt'.asked : id \notin DOMAIN rt.asked
                                                \/ rt'.asked[id].kind = "trace"})

\* Mutant: the new job is not written.
CreatedUnsaved(r, kind, req, input) ==
  LET job == [kind |-> kind, req |-> req, input |-> input, status |-> "queued",
              phase |-> "queued", link |-> 0, late |-> FALSE]
  IN  [r EXCEPT !.jobs = With(@, r.next, job), !.next = @ + 1]
\* CreateJob: the next id is r.next.
Created(r, kind, req, input) ==
  LET job == [kind |-> kind, req |-> req, input |-> input, status |-> "queued",
              phase |-> "queued", link |-> 0, late |-> FALSE]
  IN  Saved([r EXCEPT !.jobs = With(@, r.next, job), !.next = @ + 1], r.next)

\* The job just created is running, in phase, about the job link.
Begun(r, phase, link) ==
  LET id == r.next - 1 IN
  Saved([r EXCEPT !.jobs[id].status = "running", !.jobs[id].phase = phase,
                  !.jobs[id].link = link], id)

\* Mutant: whoever ends, the heavy job is forgotten.
EndedForAll(r, id, status) ==
  Saved([r EXCEPT !.jobs[id].status = status, !.jobs[id].phase = "complete",
                  !.jobs[id].late = FALSE, !.heavy = 0], id)
\* FinishJob, for a job that owns no trace.
Ended(r, id, status) ==
  Saved([r EXCEPT !.jobs[id].status = status, !.jobs[id].phase = "complete",
                  !.jobs[id].late = FALSE, !.heavy = IF @ = id THEN 0 ELSE @], id)

\* FindIdempotentJob: the jobs that a requestId is bound to.  The first one is the
\* answer, or a conflict; either way nothing is started.
\* Mutant: only jobs of the same kind are looked at.
BoundToKind(r, kind, req) ==
  {id \in DOMAIN r.jobs : req # None /\ r.jobs[id].req = req /\ r.jobs[id].kind = kind}
Bound(r, kind, req) == {id \in DOMAIN r.jobs : req # None /\ r.jobs[id].req = req}

HeavyBusy(r) == r.heavy \in Running(r)
Freed(r) == [r EXCEPT !.heavy = 0]

---------------------------------------------------------------------------
(* Traces and their analysis.                                              *)

\* AnalyzeTrace of an accepted trace, when it starts an analysis, and when it does not.
AnalysisStarted(r, trace, req) ==
  IF HeavyBusy(r) \/ r.next > MaxJobs THEN {}
  ELSE {[Begun(Created(Freed(r), "traceAnalysis", req, "analysis"), "analyzing", trace)
           EXCEPT !.heavy = r.next]}
AnalysisRefused(r, trace, req) ==
  IF HeavyBusy(r) THEN {r}
  ELSE {Freed(r)} \cup
       (IF r.next > MaxJobs THEN {}
        ELSE {Ended(Begun(Created(Freed(r), "traceAnalysis", req, "analysis"),
                          "analyzing", trace), r.next, "failed")})

\* StopTrace: the outcomes.  The engine has no trace to stop, or its writer or its
\* file fails, or it never got to record; else the job has succeeded, or is analyzed.
StopTrace(r, id) ==
  IF id \notin Running(r) \/ r.jobs[id].kind # "trace" \/ id # r.active THEN {r}
  ELSE LET closed == [r EXCEPT !.handle = FALSE, !.writer = 0, !.active = 0]
           analyzing == [closed EXCEPT !.jobs[id].phase = "analyzing"]
       IN {Ended(closed, id, "failed")} \cup
          (IF r.writer = 0 \/ r.jobs[id].phase # "recording" THEN {}
           ELSE IF r.jobs[id].input # "analyze" THEN {Ended(closed, id, "succeeded")}
           ELSE AnalysisStarted(analyzing, id, None)
                \cup {Ended(q, id, "succeeded") : q \in AnalysisRefused(analyzing, id, None)})

\* CompleteParentTraceAnalysis.
\* Mutant: it is left to the next poll.
ParentLeft(r, trace) == r
ParentCompleted(r, trace) ==
  IF trace \in Running(r) /\ r.jobs[trace].phase = "analyzing"
  THEN Ended(r, trace, "succeeded") ELSE r

\* StartTrace after its checks: rejected, so that its job is taken out of the table;
\* failed by the engine; or waiting for the connection.
TraceRejected(r) == [r EXCEPT !.jobs = [id \in DOMAIN @ \ {r.next - 1} |-> @[id]]]
TraceFailed(r) == Ended([r EXCEPT !.connected = FALSE, !.handle = FALSE], r.next - 1, "failed")
TraceLoading(r) ==
  [Begun(r, "loading", 0) EXCEPT !.connected = FALSE, !.handle = TRUE,
                                 !.writer = r.next - 1, !.active = r.next - 1]
TraceBusy(r) == r.active # 0 \/ r.writer # 0

\* FinishJob of a performance run: the trace it owns is stopped, unless it succeeded.
RunEnded(r, id, status) ==
  IF status = "succeeded" THEN {Ended(r, id, status)}
  ELSE {Ended(q, id, status) : q \in StopTrace(r, r.jobs[id].link)}

\* FinishPerformanceRun: it asks StopTrace for an artifact, and one that had failed
\* before it recorded has registered its file.
RunFinished(r, id) ==
  LET link == r.jobs[id].link
      HasTrace(q) == \/ link = 0 \/ q.jobs[link].status = "succeeded"
                     \/ r.jobs[link].status = "failed"
  IN UNION {{Ended(q, id, status) :
               status \in {"failed"} \cup (IF HasTrace(q) THEN {"succeeded"} ELSE {})} :
            q \in StopTrace(r, link)}

---------------------------------------------------------------------------
(* The Editor starts, stops and crashes.                                   *)

\* Mutant: a job that ran is loaded as running.
LoadedAsItWas(status) == status
\* LoadJournals.
LoadedStatus(status) == IF status \in Terminal THEN status ELSE "interrupted"
Loaded(r, d) ==
  LET asked == [id \in DOMAIN r.asked |->
                  IF id \in Readable(d) THEN [d[id] EXCEPT !.status = LoadedStatus(@)]
                  ELSE r.asked[id]]
  IN  [jobs |-> [id \in DOMAIN r.asked \cap Readable(d) |->
                   [kind |-> asked[id].kind, req |-> asked[id].req,
                    input |-> asked[id].input, status |-> asked[id].status,
                    phase |-> "complete", link |-> 0, late |-> FALSE]],
       asked |-> asked, heavy |-> 0, active |-> 0, handle |-> FALSE,
       connected |-> FALSE, writer |-> 0, next |-> r.next]

Init ==
  /\ rt = [jobs |-> << >>, asked |-> << >>, heavy |-> 0, active |-> 0, handle |-> FALSE,
           connected |-> FALSE, writer |-> 0, next |-> 1]
  /\ disk = [id \in JobIds |-> Unreadable]
  /\ procs = {} /\ orphans = {} /\ rejected = {} /\ abandoned = {}
  /\ walk = [left |-> {}, stops |-> {}]
  /\ restarts = 0

Idle == walk.left = {} /\ walk.stops = {}

\* The runtime q is gone, and the files are d; what is loaded is saved again.
Restart(q, d) ==
  /\ restarts < MaxRestarts
  /\ restarts' = restarts + 1
  /\ rt' = Loaded(q, d)
  /\ disk' \in Written(d, DOMAIN rt'.jobs, rt'.asked, {})
  /\ walk' = [left |-> {}, stops |-> {}]
  /\ UNCHANGED <<rejected, abandoned>>

Crash == Restart(rt, disk) /\ orphans' = procs /\ UNCHANGED procs

\* The destructor: what runs is terminated and interrupted.
Interrupted(r) ==
  [r EXCEPT !.asked = [id \in DOMAIN @ |->
     IF id \in Running(r) THEN [@[id] EXCEPT !.status = "interrupted"] ELSE @[id]]]
Shutdown ==
  /\ Idle
  /\ \E d \in Written(disk, Running(rt), Interrupted(rt).asked, {}) :
       Restart(Interrupted(rt), d)
  /\ procs' = procs \ Running(rt)
  /\ UNCHANGED orphans

---------------------------------------------------------------------------
(* What happens to the runtime from outside.                               *)

ProcessExits(id) ==
  /\ id \in procs
  /\ procs' = procs \ {id} /\ orphans' = orphans \ {id}
  /\ UNCHANGED <<rt, disk, walk, restarts, rejected, abandoned>>

\* HandleTraceConnected, from another thread, whosever trace connected.
HandleTraceConnected ==
  /\ rt.handle /\ rt.writer # 0 /\ ~rt.connected
  /\ rt' = [rt EXCEPT !.connected = TRUE]
  /\ UNCHANGED <<disk, procs, walk, restarts, orphans, rejected, abandoned>>

\* The user of the Editor starts a trace, or stops the one being written.
UserTraces ==
  /\ Idle
  /\ rt' = [rt EXCEPT !.writer = IF @ = 0 THEN User ELSE 0]
  /\ UNCHANGED <<disk, procs, walk, restarts, orphans, rejected, abandoned>>

\* A deadline of a running job passes.
Deadline(id) ==
  /\ id \in Running(rt) /\ ~rt.jobs[id].late
  /\ rt' = [rt EXCEPT !.jobs[id].late = TRUE]
  /\ UNCHANGED <<disk, procs, walk, restarts, orphans, rejected, abandoned>>

---------------------------------------------------------------------------
(* Client requests.                                                        *)

MayCreate(n) == Idle /\ rt.next + n <= MaxJobs + 1
Unused == Saves({}) /\ UNCHANGED <<walk, restarts, orphans>>

\* StartProcessJob; the process may fail to start.
StartProcessJob(req, input) ==
  /\ MayCreate(1) /\ Bound(rt, "process", req) = {} /\ ~HeavyBusy(rt)
  /\ LET r == Created(Freed(rt), "process", req, input) IN
     \/ rt' = Ended(r, rt.next, "failed") /\ UNCHANGED procs
     \/ /\ rt' = [Begun(r, "running", 0) EXCEPT !.heavy = rt.next]
        /\ procs' = procs \cup {rt.next}
  /\ Unused /\ UNCHANGED <<rejected, abandoned>>

\* StartDdcJob with cleanProjectLocal, done at once.
CleanDdc(req, input) ==
  /\ MayCreate(1) /\ Bound(rt, "ddc", req) = {}
  /\ \E status \in {"succeeded", "failed"} :
       rt' = Ended(Begun(Created(rt, "ddc", req, input), "cleaning", 0), rt.next, status)
  /\ Unused /\ UNCHANGED <<procs, rejected, abandoned>>

StartTrace(req, input) ==
  /\ MayCreate(1) /\ Bound(rt, "trace", req) = {} /\ ~TraceBusy(rt)
  /\ LET r == Created(rt, "trace", req, input) IN
     \/ rt' = TraceRejected(r) /\ rejected' = rejected \cup {rt.next}
     \/ rt' \in {TraceFailed(r), TraceLoading(r)} /\ UNCHANGED rejected
  /\ Unused /\ UNCHANGED <<procs, abandoned>>

\* StartPerformanceRun; it may start a trace of its own, and then its scenario.
StartPerformanceRun(req, input) ==
  /\ MayCreate(IF input = "capture" THEN 2 ELSE 1)
  /\ Bound(rt, "performance", req) = {} /\ ~HeavyBusy(rt)
  /\ LET id == rt.next
         r == Begun(Created(Freed(rt), "performance", req, input), "running", 0)
         t == Created(r, "trace", None, "artifactOnly")
         owning == [TraceLoading(t) EXCEPT !.jobs[id].link = id + 1]
         Measured(q) == Saved([q EXCEPT !.heavy = id], id)
     IN rt' \in
          IF input # "capture" THEN {Measured(r), Ended(r, id, "failed")}
          ELSE IF TraceBusy(r) THEN {Ended(r, id, "failed")}
          ELSE {Ended(TraceFailed(t), id, "failed"), Measured(owning)}
               \cup RunEnded(owning, id, "failed")
  /\ Unused /\ UNCHANGED <<procs, rejected, abandoned>>

\* StopTrace of a client, also one that ends the trace of a performance run.
ClientStopsTrace(id) ==
  /\ Idle /\ id = rt.active
  /\ rt' \in StopTrace(rt, id)
  /\ Unused /\ UNCHANGED <<procs, rejected, abandoned>>

\* AnalyzeTrace of a client, also for the trace whose analysis was cancelled.
AnalyzeTrace(id, req) ==
  /\ Idle /\ id \in DOMAIN rt.jobs /\ rt.jobs[id].kind = "trace"
  /\ rt.jobs[id].status = "succeeded" \/ rt.jobs[id].phase = "analyzing"
  /\ rt' \in AnalysisStarted(rt, id, req) \cup AnalysisRefused(rt, id, req)
  /\ Unused /\ UNCHANGED <<procs, rejected, abandoned>>

\* CancelJob.  For a trace it stops whatever trace the engine writes.
\* Mutant: the performance run leaves its trace alone.
RunCancelledAlone(r, id) == {Ended(r, id, "cancelled")}
RunCancelled(r, id) == RunEnded(r, id, "cancelled")
CancelJob(id) ==
  /\ Idle /\ id \in Running(rt)
  /\ rt' \in
       CASE rt.jobs[id].kind = "trace" ->
              {Ended([rt EXCEPT !.handle = FALSE, !.writer = 0,
                                !.active = IF @ = id THEN 0 ELSE @], id, "cancelled")}
         [] rt.jobs[id].kind = "performance" -> RunCancelled(rt, id)
         [] OTHER -> {Ended(rt, id, "cancelled")}
  /\ procs' = procs \ {id}
  /\ abandoned' = IF rt.jobs[id].kind = "traceAnalysis"
                  THEN abandoned \cup {rt.jobs[id].link} ELSE abandoned
  /\ Unused /\ UNCHANGED rejected

---------------------------------------------------------------------------
(* The tick.                                                               *)

TickBegins ==
  /\ Idle /\ Running(rt) # {}
  /\ walk' = [walk EXCEPT !.left = Running(rt)]
  /\ UNCHANGED <<rt, disk, procs, restarts, orphans, rejected, abandoned>>

Visit(id) == id \in walk.left /\ walk' = [walk EXCEPT !.left = @ \ {id}]
Passed(more) == Saves(more) /\ UNCHANGED <<restarts, orphans, rejected, abandoned>>
IsRunning(id, kind) == id \in Running(rt) /\ rt.jobs[id].kind = kind

\* The job has ended meanwhile, with another job of the same tick.
TickEnded(id) ==
  /\ Visit(id) /\ id \notin Running(rt)
  /\ UNCHANGED <<rt, procs>> /\ Passed({})

\* Mutant: a process past its deadline is left running.
TerminatedNot(ids, id) == ids
\* TerminateProcessTree.  (What the process logs moves the job through phases that are
\* left out; its journal is saved with each.)
Terminated(ids, id) == ids \ {id}
TickProcessJob(id) ==
  /\ Visit(id) /\ IsRunning(id, "process")
  /\ IF rt.jobs[id].late
     THEN rt' = Ended(rt, id, "failed") /\ procs' = Terminated(procs, id)
     ELSE /\ IF id \in procs THEN rt' = rt
             ELSE \E status \in {"succeeded", "failed"} : rt' = Ended(rt, id, status)
          /\ UNCHANGED procs
  /\ \E logged \in SUBSET {id} : Passed(logged)

TickPerformanceJob(id) ==
  /\ Visit(id) /\ IsRunning(id, "performance")
  /\ \/ rt' \in RunEnded(rt, id, "failed")
     \/ ~rt.jobs[id].late /\ rt' \in {rt} \cup RunFinished(rt, id)
  /\ UNCHANGED procs /\ Passed({})

TickTraceAnalysisJob(id) ==
  /\ Visit(id) /\ IsRunning(id, "traceAnalysis")
  /\ LET Over(status) == ParentCompleted(Ended(rt, id, status), rt.jobs[id].link) IN
     \/ rt' = Over("failed")
     \/ ~rt.jobs[id].late /\ rt' \in {rt, Over("succeeded")}
  /\ UNCHANGED procs /\ Passed({})

\* ActivateTraceRecording, once connected; its deadline is a new one.
Activated(r, id) ==
  IF r.jobs[id].phase = "loading" /\ r.connected
  THEN Saved([r EXCEPT !.handle = FALSE, !.jobs[id].phase = "recording",
                       !.jobs[id].late = FALSE], id)
  ELSE r
\* The part of Tick for a trace: it will be stopped if its deadline has passed, and may
\* be for its size or the end of its PIE session.
TickTrace(id) ==
  /\ id \in walk.left /\ IsRunning(id, "trace")
  /\ rt' = Activated(rt, id)
  /\ \E stops \in SUBSET {id} :
       /\ rt'.jobs[id].late => stops = {id}
       /\ walk' = [left |-> walk.left \ {id}, stops |-> walk.stops \cup stops]
  /\ UNCHANGED procs /\ Passed({})

\* After the walk.
TickStopsTrace(id) ==
  /\ walk.left = {} /\ id \in walk.stops
  /\ walk' = [walk EXCEPT !.stops = @ \ {id}]
  /\ rt' \in StopTrace(rt, id)
  /\ UNCHANGED procs /\ Passed({})

Tick ==
  \/ TickBegins
  \/ \E id \in JobIds :
       TickEnded(id) \/ TickProcessJob(id) \/ TickPerformanceJob(id)
       \/ TickTraceAnalysisJob(id) \/ TickTrace(id) \/ TickStopsTrace(id)

Start ==
  \E u \in Uses :
    \/ u[1] = "process" /\ StartProcessJob(u[2], u[3])
    \/ u[1] = "ddc" /\ CleanDdc(u[2], u[3])
    \/ u[1] = "trace" /\ StartTrace(u[2], u[3])
    \/ u[1] = "performance" /\ StartPerformanceRun(u[2], u[3])

Next ==
  \/ Start \/ Tick
  \/ \E id \in JobIds : \/ ClientStopsTrace(id) \/ CancelJob(id)
                        \/ \E req \in Reqs : AnalyzeTrace(id, req)
                        \/ ProcessExits(id) \/ Deadline(id)
  \/ HandleTraceConnected \/ UserTraces
  \/ Crash \/ Shutdown

\* The subsystem ticks, and deadlines pass.  No process has to exit, no trace to
\* connect, no analysis to complete.
Fairness == WF_vars(Tick) /\ WF_vars(\E id \in JobIds : Deadline(id))

Spec == Init /\ [][Next]_vars
FairSpec == Spec /\ Fairness

---------------------------------------------------------------------------
(* Properties.                                                             *)

Kinds == Started \cup {"traceAnalysis"}
Statuses == Terminal \cup {"queued", "running"}
Phases == {"queued", "running", "cleaning", "loading", "recording", "analyzing", "complete"}
Jobs == [kind : Kinds, req : Reqs, input : Inputs, status : Statuses,
         phase : Phases, link : 0..MaxJobs, late : BOOLEAN]

\* The job table, the journals and the tick have their types; SaveJournal was called for
\* every job.
TypeOK ==
  LET Journals == [kind : Kinds, req : Reqs, input : Inputs, status : Statuses] IN
  /\ rt.next \in 1..(MaxJobs + 1)
  /\ DOMAIN rt.jobs \subseteq DOMAIN rt.asked /\ DOMAIN rt.asked = 1..(rt.next - 1)
  /\ \A id \in DOMAIN rt.jobs : rt.jobs[id] \in Jobs
  /\ \A id \in DOMAIN rt.asked : rt.asked[id] \in Journals
  /\ disk \in [JobIds -> Journals \cup {Unreadable}]
  /\ {rt.heavy, rt.active} \subseteq 0..MaxJobs /\ rt.writer \in 0..User
  /\ {rt.handle, rt.connected} \subseteq BOOLEAN
  /\ walk.left \cup walk.stops \cup procs \cup orphans \cup rejected \cup abandoned
       \subseteq DOMAIN rt.asked
  /\ restarts \in 0..MaxRestarts

\* At most one heavy job runs, the one the lock names, through ends, cancellations,
\* analyses started by a stop, and restarts.
OneHeavyJob == \A id \in Running(rt) : rt.jobs[id].kind \in Heavy => id = rt.heavy

\* A child process is that of a running job, unless its Editor crashed: timeouts,
\* cancellations and shutdown leave none behind (docs/UE_ENGINEERING_COPILOT.md:267-268).
ProcessesBelongToJobs == \A id \in procs \ orphans : IsRunning(id, "process")

\* A trace job that has not been stopped is the active one; only it waits for the
\* connection; and it does not outlive the performance run that owns it.
RecordingIsOwned ==
  LET recording == {id \in Running(rt) : rt.jobs[id].phase \in {"loading", "recording"}} IN
  /\ recording = {rt.active} \ {0}
  /\ rt.handle => rt.jobs[rt.active].phase = "loading"
  /\ \A id \in DOMAIN rt.jobs :
       rt.jobs[id].kind = "performance" /\ rt.jobs[id].link \in Running(rt) => id \in Running(rt)

\* The outcome of a job is final while the Editor runs, and over a restart if its
\* journal could be written; one that could not be costs the outcome or the job, but
\* never turns the outcome into another.  A job that ran when the Editor went away is
\* interrupted afterwards, never running or successful.
OutcomesStay ==
  [][\A id \in DOMAIN rt.jobs :
       LET ended == rt.jobs[id].status \in Terminal
           stays == id \in DOMAIN rt'.jobs
           same == stays /\ rt'.jobs[id].status = rt.jobs[id].status
       IN IF restarts' = restarts THEN stays /\ (ended => same)
          ELSE /\ ended /\ disk[id] = rt.asked[id] => same
               /\ stays => (ended /\ same) \/ rt'.jobs[id].status = "interrupted"]_vars

\* Of the jobs known to the Editor a requestId has started one, whatever the kinds and
\* inputs it is sent with, and over restarts.  (Analyses do not look for it; the
\* journal of a refused trace request stays, and comes back as a job after a restart.  A
\* job the journal of which was lost is not known any more: its requestId is free.)
OneJobPerRequest ==
  \A i, j \in DOMAIN rt.jobs \ rejected :
    /\ rt.jobs[i].req = rt.jobs[j].req /\ rt.jobs[i].req # None
    /\ "traceAnalysis" \notin {rt.jobs[i].kind, rt.jobs[j].kind}
    => i = j

\* Every job ends, except a trace the analysis of which was cancelled: nobody ends it.
JobsEnd ==
  \A id \in JobIds : (id \in Running(rt)) ~> (id \notin Running(rt) \/ id \in abandoned)

\* A cancellation stops no other job's trace, but that of the run it cancels:
\* production.json says of production.job.cancel "Cancel one active durable
\* production job."
CancelStopsItsOwnTrace ==
  [][\A id \in Running(rt) :
       /\ id \in DOMAIN rt'.jobs /\ rt'.jobs[id].status = "cancelled"
       /\ rt'.writer # rt.writer
       => rt.writer \in {id, rt.jobs[id].link, User}]_vars
=============================================================================
