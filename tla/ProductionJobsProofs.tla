------------------------ MODULE ProductionJobsProofs ------------------------
(***************************************************************************)
(* Theorems about ProductionJobs, for any uses and any number of jobs and   *)
(* restarts.                                                                *)
(***************************************************************************)
EXTENDS ProductionJobs, TLAPS

---------------------------------------------------------------------------
(* The inductive invariant.                                                *)

Journals == [kind : Kinds, req : Reqs, input : Inputs, status : Statuses]
Tables == UNION {[S -> Jobs] : S \in SUBSET JobIds}
Asked == UNION {[S -> Journals] : S \in SUBSET JobIds}
Runtimes == [jobs : Tables, asked : Asked, heavy : 0..MaxJobs, active : 0..MaxJobs,
             handle : BOOLEAN, connected : BOOLEAN, writer : 0..User,
             next : 1..(MaxJobs + 1)]

\* SaveJournal was called for every id given out, and last with what the job is.
Typed(r) ==
  /\ r \in Runtimes
  /\ DOMAIN r.asked = 1..(r.next - 1)
  /\ DOMAIN r.jobs \subseteq DOMAIN r.asked
  /\ \A id \in DOMAIN r.jobs : r.asked[id] = Journal(r.jobs[id])

\* Of what runs only the heavy job is heavy, but for X while its lock is not yet taken.
HeavyInv(r, X) == \A id \in Running(r) \ X : r.jobs[id].kind \in Heavy => id = r.heavy

Recording(r) == {id \in Running(r) : r.jobs[id].phase \in {"loading", "recording"}}
RecordingInv(r) ==
  /\ Recording(r) = {r.active} \ {0}
  /\ r.handle => r.active # 0 /\ r.jobs[r.active].phase = "loading"

\* What runs is in a phase of its kind.
PhaseInv(r) ==
  \A id \in Running(r) :
    LET job == r.jobs[id] IN
    /\ job.kind # "ddc"
    /\ job.kind \in {"process", "performance"} => job.phase = "running"
    /\ job.kind = "traceAnalysis" => job.phase = "analyzing" /\ job.link \in DOMAIN r.asked
    /\ job.kind = "trace" => \/ job.phase \in {"loading", "recording"}
                             \/ job.phase = "analyzing" /\ job.input = "analyze"

\* A performance run has no trace or one of its own, which is not analyzed.
RunInv(r) ==
  \A id \in DOMAIN r.jobs :
    LET link == r.jobs[id].link IN
    r.jobs[id].kind = "performance" /\ link # 0 =>
      /\ link \in DOMAIN r.jobs
      /\ r.jobs[link].kind = "trace" /\ r.jobs[link].input = "artifactOnly"
      /\ link \in Running(r) => id \in Running(r)

Good(r, X) ==
  Typed(r) /\ HeavyInv(r, X) /\ RecordingInv(r) /\ PhaseInv(r) /\ RunInv(r)

\* From r to q jobs are created, of which only the first may have the requestId req, and
\* jobs of X may have ended.
Keeps(r, q, X, req) ==
  /\ Typed(q) /\ r.next <= q.next
  /\ DOMAIN r.jobs \subseteq DOMAIN q.jobs
  /\ \A id \in DOMAIN r.jobs :
       /\ q.jobs[id].kind = r.jobs[id].kind /\ q.jobs[id].req = r.jobs[id].req
       /\ q.jobs[id].link = r.jobs[id].link
       /\ q.jobs[id].status = r.jobs[id].status \/ id \in Running(r) \cap X
  /\ \A id \in DOMAIN q.jobs \ DOMAIN r.jobs :
       /\ id >= r.next
       /\ q.jobs[id].kind # "traceAnalysis" /\ q.jobs[id].req # None =>
            id = r.next /\ q.jobs[id].req = req

\* And every job created stays in the table.
Grows(r, q, X, req) ==
  /\ Keeps(r, q, X, req)
  /\ \A id \in DOMAIN q.asked \ DOMAIN q.jobs : id < r.next

USE JobsAssumption

---------------------------------------------------------------------------
(* The table and the journals.                                             *)

LEMMA TableOf ==
  ASSUME NEW f \in Tables
  PROVE  f \in [DOMAIN f -> Jobs] /\ DOMAIN f \subseteq JobIds
BY DEF Tables

LEMMA TableIs ==
  ASSUME NEW S \in SUBSET JobIds, NEW f \in [S -> Jobs]
  PROVE  f \in Tables
BY DEF Tables

LEMMA AskedOf ==
  ASSUME NEW f \in Asked
  PROVE  f \in [DOMAIN f -> Journals] /\ DOMAIN f \subseteq JobIds
BY DEF Asked

LEMMA AskedIs ==
  ASSUME NEW S \in SUBSET JobIds, NEW f \in [S -> Journals]
  PROVE  f \in Asked
BY DEF Asked

LEMMA JournalIs ==
  ASSUME NEW job \in Jobs
  PROVE  Journal(job) \in Journals
BY DEF Journal, Journals, Jobs

LEMMA JournalTells ==
  ASSUME NEW job, NEW journal, journal = Journal(job)
  PROVE  journal.kind = job.kind /\ journal.req = job.req /\ journal.status = job.status
BY DEF Journal

\* q has the jobs of r, but for that of id, which is job.
Put(r, q, id, job) ==
  /\ Typed(q)
  /\ DOMAIN q.jobs = DOMAIN r.jobs \cup {id} /\ q.jobs[id] = job
  /\ \A j \in DOMAIN r.jobs : j # id => q.jobs[j] = r.jobs[j]
\* q has the engine's trace of r.
SameTrace(r, q) ==
  /\ q.active = r.active /\ q.handle = r.handle
  /\ q.connected = r.connected /\ q.writer = r.writer

\* Whatever else changes, a record with one more or another job is well formed if the
\* job is saved.
LEMMA PutTyped ==
  ASSUME NEW r, Typed(r), NEW id \in JobIds, NEW job \in Jobs,
         NEW q, q \in [jobs : {With(r.jobs, id, job)},
                       asked : {With(r.asked, id, Journal(job))}, heavy : 0..MaxJobs,
                       active : 0..MaxJobs, handle : BOOLEAN, connected : BOOLEAN,
                       writer : 0..User, next : 1..(MaxJobs + 1)],
         \/ id \in DOMAIN r.jobs /\ q.next = r.next
         \/ id = r.next /\ q.next = r.next + 1
  PROVE  Put(r, q, id, job)
<1>1. /\ r.jobs \in Tables /\ r.asked \in Asked /\ r.next \in 1..(MaxJobs + 1)
      /\ DOMAIN r.asked = 1..(r.next - 1) /\ DOMAIN r.jobs \subseteq DOMAIN r.asked
      /\ \A j \in DOMAIN r.jobs : r.asked[j] = Journal(r.jobs[j])
  BY DEF Typed, Runtimes
<1>2. /\ r.jobs \in [DOMAIN r.jobs -> Jobs] /\ DOMAIN r.jobs \subseteq JobIds
      /\ r.asked \in [DOMAIN r.asked -> Journals] /\ DOMAIN r.asked \subseteq JobIds
  BY <1>1, TableOf, AskedOf
<1> DEFINE jobs == With(r.jobs, id, job)
           journals == With(r.asked, id, Journal(job))
<1>3. q.jobs = jobs /\ q.asked = journals /\ q.next \in 1..(MaxJobs + 1)
  OBVIOUS
<1>4. /\ jobs \in [DOMAIN r.jobs \cup {id} -> Jobs] /\ jobs[id] = job
      /\ \A j \in DOMAIN r.jobs : j # id => jobs[j] = r.jobs[j]
  BY <1>2 DEF With
<1>5. Journal(job) \in Journals
  BY JournalIs
<1>6. /\ journals \in [DOMAIN r.asked \cup {id} -> Journals] /\ journals[id] = Journal(job)
      /\ \A j \in DOMAIN r.asked : j # id => journals[j] = r.asked[j]
  BY <1>2, <1>5 DEF With
<1> HIDE DEF jobs, journals
<1>7. jobs \in Tables /\ journals \in Asked
  BY <1>2, <1>4, <1>6, TableIs, AskedIs
<1>8. q \in Runtimes
  BY <1>3, <1>7 DEF Runtimes
<1>9. DOMAIN jobs = DOMAIN r.jobs \cup {id} /\ DOMAIN journals = DOMAIN r.asked \cup {id}
  BY <1>4, <1>6
<1>10. DOMAIN q.asked = 1..(q.next - 1)
  BY <1>1, <1>3, <1>9 DEF JobIds
<1>11. \A j \in DOMAIN jobs : journals[j] = Journal(jobs[j])
  BY <1>1, <1>4, <1>6, <1>9
<1> QED  BY <1>1, <1>3, <1>4, <1>8, <1>9, <1>10, <1>11 DEF Typed, Put

LEMMA TypedFields ==
  ASSUME NEW r, Typed(r)
  PROVE  /\ r = [jobs |-> r.jobs, asked |-> r.asked, heavy |-> r.heavy, active |-> r.active,
                 handle |-> r.handle, connected |-> r.connected, writer |-> r.writer,
                 next |-> r.next]
         /\ r.jobs \in [DOMAIN r.jobs -> Jobs] /\ DOMAIN r.jobs \subseteq 1..(r.next - 1)
         /\ r.asked \in [1..(r.next - 1) -> Journals] /\ r.next \in 1..(MaxJobs + 1)
         /\ r.heavy \in 0..MaxJobs /\ r.active \in 0..MaxJobs /\ r.writer \in 0..User
         /\ r.handle \in BOOLEAN /\ r.connected \in BOOLEAN
<1>1. /\ r \in Runtimes /\ r.jobs \in Tables /\ r.asked \in Asked
      /\ DOMAIN r.asked = 1..(r.next - 1) /\ DOMAIN r.jobs \subseteq DOMAIN r.asked
  BY DEF Typed, Runtimes
<1>2. /\ r.jobs \in [DOMAIN r.jobs -> Jobs] /\ r.asked \in [DOMAIN r.asked -> Journals]
  BY <1>1, TableOf, AskedOf
<1> QED  BY <1>1, <1>2 DEF Runtimes

\* The trace of the engine and the heavy job may change by themselves.
LEMMA OthersTyped ==
  ASSUME NEW r, Typed(r),
         NEW q, q \in [jobs : {r.jobs}, asked : {r.asked}, heavy : 0..MaxJobs,
                       active : 0..MaxJobs, handle : BOOLEAN, connected : BOOLEAN,
                       writer : 0..User, next : {r.next}]
  PROVE  Typed(q) /\ q.jobs = r.jobs /\ q.asked = r.asked /\ q.next = r.next
BY DEF Typed, Runtimes

New(kind, req, input) ==
  [kind |-> kind, req |-> req, input |-> input, status |-> "queued",
   phase |-> "queued", link |-> 0, late |-> FALSE]

LEMMA CreatedPut ==
  ASSUME NEW r, Typed(r), r.next # MaxJobs + 1,
         NEW kind \in Kinds, NEW req \in Reqs, NEW input \in Inputs
  PROVE  LET q == Created(r, kind, req, input) IN
         /\ Put(r, q, r.next, New(kind, req, input))
         /\ SameTrace(r, q) /\ q.heavy = r.heavy /\ q.next = r.next + 1
<1> DEFINE q == Created(r, kind, req, input)
           job == New(kind, req, input)
<1>1. job \in Jobs
  BY DEF New, Jobs, Statuses, Phases
<1>2. r.next \in JobIds
  BY TypedFields DEF JobIds
<1>3. q \in [jobs : {With(r.jobs, r.next, job)},
             asked : {With(r.asked, r.next, Journal(job))}, heavy : {r.heavy},
             active : {r.active}, handle : {r.handle}, connected : {r.connected},
             writer : {r.writer}, next : {r.next + 1}]
  <2> DEFINE c == [r EXCEPT !.jobs = With(@, r.next, job), !.next = @ + 1]
  <2>1. With(r.jobs, r.next, job)[r.next] = job
    BY DEF With
  <2>2. c \in [jobs : {With(r.jobs, r.next, job)}, asked : {r.asked}, heavy : {r.heavy},
             active : {r.active}, handle : {r.handle}, connected : {r.connected},
             writer : {r.writer}, next : {r.next + 1}]
    BY DEF Typed, Runtimes
  <2>3. q = [c EXCEPT !.asked = With(@, r.next, Journal(c.jobs[r.next]))]
    BY DEF Created, Saved, New
  <2> HIDE DEF c
  <2> QED  BY <2>1, <2>2, <2>3
<1> HIDE DEF q, job
<1>4. Put(r, q, r.next, job)
  BY <1>1, <1>2, <1>3, PutTyped, TypedFields
<1>5. SameTrace(r, q) /\ q.heavy = r.heavy /\ q.next = r.next + 1
  BY <1>3 DEF SameTrace
<1> QED  BY <1>4, <1>5 DEF q, job

LEMMA BegunPut ==
  ASSUME NEW r, Typed(r), r.next - 1 \in DOMAIN r.jobs,
         NEW phase \in Phases, NEW link \in 0..MaxJobs
  PROVE  LET q == Begun(r, phase, link) IN
         /\ Put(r, q, r.next - 1, [r.jobs[r.next - 1] EXCEPT
                 !.status = "running", !.phase = phase, !.link = link])
         /\ SameTrace(r, q) /\ q.heavy = r.heavy /\ q.next = r.next
<1> DEFINE q == Begun(r, phase, link)
           id == r.next - 1
           job == [r.jobs[id] EXCEPT !.status = "running", !.phase = phase, !.link = link]
<1>1. id \in JobIds /\ r.jobs[id] \in Jobs
  BY TypedFields DEF JobIds
<1>2. job \in Jobs
  BY <1>1 DEF Jobs, Statuses
<1>3. q \in [jobs : {With(r.jobs, id, job)}, asked : {With(r.asked, id, Journal(job))},
             heavy : {r.heavy}, active : {r.active}, handle : {r.handle},
             connected : {r.connected}, writer : {r.writer}, next : {r.next}]
  <2>1. [r.jobs EXCEPT ![id] = job] = With(r.jobs, id, job)
        /\ [r.jobs EXCEPT ![id] = job][id] = job
    BY TypedFields DEF With
  <2> DEFINE c == [r EXCEPT !.jobs[id].status = "running", !.jobs[id].phase = phase,
                            !.jobs[id].link = link]
  <2>2. c.jobs = [r.jobs EXCEPT ![id] = job]
    BY TypedFields, <1>1 DEF Typed, Runtimes, Jobs
  <2>3. c \in [jobs : {c.jobs}, asked : {r.asked}, heavy : {r.heavy},
             active : {r.active}, handle : {r.handle}, connected : {r.connected},
             writer : {r.writer}, next : {r.next}]
    BY DEF Typed, Runtimes
  <2>4. q = [c EXCEPT !.asked = With(@, id, Journal(c.jobs[id]))]
    BY DEF Begun, Saved
  <2> HIDE DEF c
  <2> QED  BY <2>1, <2>2, <2>3, <2>4
<1> HIDE DEF q, job
<1>4. Put(r, q, id, job)
  BY <1>1, <1>2, <1>3, PutTyped, TypedFields
<1>5. SameTrace(r, q) /\ q.heavy = r.heavy /\ q.next = r.next
  BY <1>3 DEF SameTrace
<1> QED  BY <1>4, <1>5 DEF q, job

EndedJob(job, status) == [job EXCEPT !.status = status, !.phase = "complete", !.late = FALSE]

LEMMA EndedPut ==
  ASSUME NEW r, Typed(r), NEW id \in DOMAIN r.jobs, NEW status \in Terminal
  PROVE  LET q == Ended(r, id, status) IN
         /\ Put(r, q, id, EndedJob(r.jobs[id], status))
         /\ SameTrace(r, q) /\ q.next = r.next
         /\ q.heavy = IF r.heavy = id THEN 0 ELSE r.heavy
<1> DEFINE q == Ended(r, id, status)
           job == EndedJob(r.jobs[id], status)
<1>1. id \in JobIds /\ r.jobs[id] \in Jobs
  BY TypedFields DEF JobIds
<1>2. job \in Jobs
  BY <1>1 DEF EndedJob, Jobs, Statuses, Phases
<1>3. q \in [jobs : {With(r.jobs, id, job)}, asked : {With(r.asked, id, Journal(job))},
             heavy : {IF r.heavy = id THEN 0 ELSE r.heavy}, active : {r.active},
             handle : {r.handle}, connected : {r.connected}, writer : {r.writer},
             next : {r.next}]
  <2>1. [r.jobs EXCEPT ![id] = job] = With(r.jobs, id, job)
        /\ [r.jobs EXCEPT ![id] = job][id] = job
    BY TypedFields DEF With
  <2> DEFINE c == [r EXCEPT !.jobs[id].status = status, !.jobs[id].phase = "complete",
                            !.jobs[id].late = FALSE, !.heavy = IF @ = id THEN 0 ELSE @]
  <2>2. c.jobs = [r.jobs EXCEPT ![id] = job]
    BY TypedFields, <1>1 DEF Typed, Runtimes, EndedJob, Jobs
  <2>3. c \in [jobs : {c.jobs}, asked : {r.asked},
             heavy : {IF r.heavy = id THEN 0 ELSE r.heavy}, active : {r.active},
             handle : {r.handle}, connected : {r.connected}, writer : {r.writer},
             next : {r.next}]
    BY DEF Typed, Runtimes
  <2>4. q = [c EXCEPT !.asked = With(@, id, Journal(c.jobs[id]))]
    BY DEF Ended, Saved
  <2> HIDE DEF c
  <2> QED  BY <2>1, <2>2, <2>3, <2>4
<1> HIDE DEF q, job
<1>4. Put(r, q, id, job)
  BY <1>1, <1>2, <1>3, PutTyped, TypedFields
<1>5. SameTrace(r, q) /\ q.next = r.next /\ q.heavy = IF r.heavy = id THEN 0 ELSE r.heavy
  BY <1>3 DEF SameTrace
<1> QED  BY <1>4, <1>5 DEF q, job

---------------------------------------------------------------------------
(* One more job, and one job that ends.                                    *)

Adds(r, q, job) ==
  /\ Put(r, q, r.next, job) /\ q.next = r.next + 1
  /\ q.handle = r.handle /\ q.active = r.active
Ends(r, q, id) ==
  /\ id \in DOMAIN r.jobs /\ q.next = r.next
  /\ \E status \in Terminal : Put(r, q, id, EndedJob(r.jobs[id], status))
  /\ q.heavy = IF r.heavy = id THEN 0 ELSE r.heavy
  /\ q.handle = r.handle /\ q.active = r.active

LEMMA GrowsTwice ==
  ASSUME NEW r, NEW q, NEW p, NEW X, NEW Y, NEW req, Typed(r),
         Grows(r, q, X, req), Grows(q, p, Y, None)
  PROVE  Grows(r, p, X \cup Y, req)
<1>1. r.next \in Nat /\ q.next \in Nat /\ p.next \in Nat
  BY TypedFields DEF Grows, Keeps
<1>2. ASSUME NEW id \in DOMAIN r.jobs
      PROVE  /\ p.jobs[id].kind = r.jobs[id].kind /\ p.jobs[id].req = r.jobs[id].req
             /\ p.jobs[id].link = r.jobs[id].link
             /\ p.jobs[id].status = r.jobs[id].status \/ id \in Running(r) \cap (X \cup Y)
  BY DEF Grows, Keeps, Running
<1>3. ASSUME NEW id \in DOMAIN p.jobs \ DOMAIN r.jobs
      PROVE  /\ id >= r.next
             /\ p.jobs[id].kind # "traceAnalysis" /\ p.jobs[id].req # None =>
                  id = r.next /\ p.jobs[id].req = req
  <2>1. CASE id \in DOMAIN q.jobs
    BY <2>1 DEF Grows, Keeps
  <2>2. CASE id \notin DOMAIN q.jobs
    <3>1. id \in Nat /\ id >= q.next
      BY <2>2, TypedFields DEF Grows, Keeps
    <3> QED  BY <1>1, <2>2, <3>1 DEF Grows, Keeps
  <2> QED  BY <2>1, <2>2
<1>4. ASSUME NEW id \in DOMAIN p.asked \ DOMAIN p.jobs  PROVE id < r.next
  <2>1. id \in DOMAIN q.asked /\ id \notin DOMAIN q.jobs
    BY <1>1 DEF Grows, Keeps, Typed
  <2> QED  BY <2>1 DEF Grows
<1> QED  BY <1>1, <1>2, <1>3, <1>4 DEF Grows, Keeps

LEMMA Same ==
  ASSUME NEW r, NEW q, NEW X, NEW req, Typed(r), Typed(q), q.jobs = r.jobs,
         q.next = r.next
  PROVE  Grows(r, q, X, req)
BY TypedFields DEF Grows, Keeps

LEMMA AddsGrows ==
  ASSUME NEW r, NEW q, NEW job, NEW req, Typed(r), Adds(r, q, job),
         job.kind = "traceAnalysis" \/ job.req \in {None, req}
  PROVE  Grows(r, q, {}, req)
<1>1. r.next \in Nat /\ r.next \notin DOMAIN r.jobs
  BY TypedFields
<1>2. DOMAIN q.asked = 1..r.next /\ r.next \in DOMAIN q.jobs
  BY <1>1 DEF Adds, Put, Typed
<1> QED  BY <1>1, <1>2 DEF Grows, Keeps, Adds, Put

LEMMA AddsGood ==
  ASSUME NEW r, NEW q, NEW job, NEW X, Typed(r), Adds(r, q, job),
         RecordingInv(r), PhaseInv(r), RunInv(r),
         job.kind = "performance" => job.link = 0,
         job.status = "running" => /\ job.phase \notin {"loading", "recording"}
                                   /\ job.kind \notin {"trace", "ddc"}
                                   /\ job.kind \in {"process", "performance"} =>
                                        job.phase = "running"
                                   /\ job.kind = "traceAnalysis" =>
                                        /\ job.phase = "analyzing"
                                        /\ job.link \in DOMAIN r.asked
  PROVE  RecordingInv(q) /\ PhaseInv(q) /\ RunInv(q)
<1>1. /\ r.next \in Nat \ {0} /\ r.next \notin DOMAIN r.jobs /\ Typed(q)
      /\ DOMAIN q.jobs = DOMAIN r.jobs \cup {r.next} /\ q.jobs[r.next] = job
      /\ \A j \in DOMAIN r.jobs : q.jobs[j] = r.jobs[j]
      /\ q.handle = r.handle /\ q.active = r.active
      /\ DOMAIN r.asked \subseteq DOMAIN q.asked
  BY TypedFields DEF Adds, Put, Typed
<1>2. Running(r) \subseteq Running(q) /\ Running(q) \subseteq Running(r) \cup {r.next}
  BY <1>1 DEF Running
<1>3. RecordingInv(q)
  <2>1. Recording(q) = Recording(r)
    BY <1>1, <1>2 DEF Recording, Running
  <2>2. r.handle => r.active \in DOMAIN r.jobs
    BY DEF RecordingInv, Recording, Running
  <2> QED  BY <1>1, <2>1, <2>2 DEF RecordingInv
<1>4. PhaseInv(q)
  <2> SUFFICES ASSUME NEW id \in Running(q)
               PROVE LET j == q.jobs[id] IN
                     /\ j.kind # "ddc"
                     /\ j.kind \in {"process", "performance"} => j.phase = "running"
                     /\ j.kind = "traceAnalysis" =>
                          j.phase = "analyzing" /\ j.link \in DOMAIN q.asked
                     /\ j.kind = "trace" => \/ j.phase \in {"loading", "recording"}
                                            \/ j.phase = "analyzing" /\ j.input = "analyze"
    BY DEF PhaseInv
  <2>1. CASE id = r.next
    BY <1>1, <2>1 DEF Running
  <2>2. CASE id \in Running(r)
    BY <1>1, <2>2 DEF PhaseInv, Running
  <2> QED  BY <1>2, <2>1, <2>2
<1>5. RunInv(q)
  BY <1>1, <1>2 DEF RunInv, Running
<1> QED  BY <1>3, <1>4, <1>5

LEMMA AddsHeavy ==
  ASSUME NEW r, NEW q, NEW job, NEW X, Typed(r), Adds(r, q, job), HeavyInv(r, X),
         \/ job.status # "running" /\ q.heavy = IF r.heavy = r.next THEN 0 ELSE r.heavy
         \/ ~HeavyBusy(r) /\ (job.status = "running" => q.heavy = r.next)
         \/ r.next \in X /\ q.heavy = r.heavy
  PROVE  HeavyInv(q, X)
<1>1. /\ r.next \notin DOMAIN r.jobs
      /\ DOMAIN q.jobs = DOMAIN r.jobs \cup {r.next} /\ q.jobs[r.next] = job
      /\ \A j \in DOMAIN r.jobs : q.jobs[j] = r.jobs[j]
  BY TypedFields DEF Adds, Put
<1> QED  BY <1>1 DEF HeavyInv, HeavyBusy, Running

LEMMA EndsGrows ==
  ASSUME NEW r, NEW q, NEW id, NEW req, Typed(r), Ends(r, q, id), id \in Running(r)
  PROVE  Grows(r, q, {id}, req)
<1>1. PICK status \in Terminal : Put(r, q, id, EndedJob(r.jobs[id], status))
  BY DEF Ends
<1>2. id \in DOMAIN r.jobs /\ q.next = r.next /\ r.next \in Nat /\ r.jobs[id] \in Jobs
  BY TypedFields DEF Ends
<1>3. /\ q.jobs[id].kind = r.jobs[id].kind /\ q.jobs[id].req = r.jobs[id].req
      /\ q.jobs[id].link = r.jobs[id].link
  BY <1>1, <1>2 DEF EndedJob, Put, Jobs
<1>4. DOMAIN q.asked = 1..(r.next - 1)
  BY <1>1, <1>2 DEF Put, Typed
<1> QED  BY <1>1, <1>2, <1>3, <1>4 DEF Put, Grows, Keeps

\* What ends is no active trace, and no performance run that has a trace running.
LEMMA EndsGood ==
  ASSUME NEW r, NEW q, NEW id, NEW X, Typed(r), Ends(r, q, id), id \in Running(r),
         HeavyInv(r, X), PhaseInv(r), RunInv(r),
         Recording(r) \ {id} = {r.active} \ {0},
         r.handle => r.active # 0 /\ r.jobs[r.active].phase = "loading",
         r.jobs[id].kind = "performance" => r.jobs[id].link \notin Running(r)
  PROVE  Good(q, X \ {id})
<1>1. PICK status \in Terminal : Put(r, q, id, EndedJob(r.jobs[id], status))
  BY DEF Ends
<1>2. id \in DOMAIN r.jobs /\ q.next = r.next /\ r.next \in Nat /\ r.jobs[id] \in Jobs
  BY TypedFields DEF Ends
<1>3. /\ q.jobs[id].kind = r.jobs[id].kind /\ q.jobs[id].link = r.jobs[id].link
      /\ q.jobs[id].input = r.jobs[id].input
      /\ q.jobs[id].status # "running"
  BY <1>1, <1>2 DEF EndedJob, Put, Jobs, Terminal
<1>4. /\ DOMAIN q.jobs = DOMAIN r.jobs /\ Typed(q)
      /\ \A j \in DOMAIN r.jobs : j # id => q.jobs[j] = r.jobs[j]
      /\ q.handle = r.handle /\ q.active = r.active
      /\ q.heavy = IF r.heavy = id THEN 0 ELSE r.heavy
      /\ DOMAIN q.asked = DOMAIN r.asked
  BY <1>1, <1>2 DEF Put, Ends, Typed
<1>5. Running(q) = Running(r) \ {id}
  BY <1>3, <1>4 DEF Running
<1>6. HeavyInv(q, X \ {id})
  BY <1>4, <1>5 DEF HeavyInv, Running
<1>7. RecordingInv(q)
  <2>1. Recording(q) = Recording(r) \ {id}
    BY <1>4, <1>5 DEF Recording, Running
  <2>2. r.handle => r.active # id /\ r.active \in DOMAIN r.jobs
    BY DEF Recording, Running
  <2> QED  BY <1>4, <2>1, <2>2 DEF RecordingInv
<1>8. PhaseInv(q)
  BY <1>4, <1>5 DEF PhaseInv, Running
<1>9. RunInv(q)
  <2> SUFFICES ASSUME NEW j \in DOMAIN q.jobs, q.jobs[j].kind = "performance",
                      q.jobs[j].link # 0
               PROVE  LET link == q.jobs[j].link IN
                      /\ link \in DOMAIN q.jobs
                      /\ q.jobs[link].kind = "trace" /\ q.jobs[link].input = "artifactOnly"
                      /\ link \in Running(q) => j \in Running(q)
    BY DEF RunInv
  <2>1. r.jobs[j].kind = "performance" /\ r.jobs[j].link = q.jobs[j].link
    BY <1>3, <1>4
  <2>2. /\ q.jobs[j].link \in DOMAIN r.jobs
        /\ r.jobs[q.jobs[j].link].kind = "trace"
        /\ r.jobs[q.jobs[j].link].input = "artifactOnly"
        /\ q.jobs[j].link \in Running(r) => j \in Running(r)
    BY <1>4, <2>1 DEF RunInv
  <2> QED  BY <1>3, <1>4, <1>5, <2>1, <2>2
<1> QED  BY <1>4, <1>6, <1>7, <1>8, <1>9 DEF Good

LEMMA PutTwice ==
  ASSUME NEW r, NEW q, NEW p, NEW id, NEW j, NEW k,
         Put(r, q, id, j), Put(q, p, id, k)
  PROVE  Put(r, p, id, k)
BY DEF Put

Begins(job, phase, link) ==
  [job EXCEPT !.status = "running", !.phase = phase, !.link = link]

LEMMA StartedAdds ==
  ASSUME NEW r, Typed(r), r.next # MaxJobs + 1,
         NEW kind \in Kinds, NEW req \in Reqs, NEW input \in Inputs,
         NEW phase \in Phases, NEW link \in 0..MaxJobs
  PROVE  LET q == Begun(Created(r, kind, req, input), phase, link) IN
         /\ Adds(r, q, Begins(New(kind, req, input), phase, link))
         /\ q.heavy = r.heavy /\ SameTrace(r, q)
<1> DEFINE c == Created(r, kind, req, input)
           q == Begun(c, phase, link)
<1>1. /\ Put(r, c, r.next, New(kind, req, input))
      /\ SameTrace(r, c) /\ c.heavy = r.heavy /\ c.next = r.next + 1
  BY CreatedPut
<1> HIDE DEF c
<1>2. Typed(c) /\ c.next - 1 = r.next /\ r.next \in DOMAIN c.jobs
      /\ c.jobs[r.next] = New(kind, req, input)
  BY <1>1, TypedFields DEF Put
<1>3. /\ Put(c, q, r.next, Begins(New(kind, req, input), phase, link))
      /\ SameTrace(c, q) /\ q.heavy = c.heavy /\ q.next = c.next
  <2>1. /\ Put(c, q, c.next - 1, Begins(c.jobs[c.next - 1], phase, link))
        /\ SameTrace(c, q) /\ q.heavy = c.heavy /\ q.next = c.next
    BY <1>2, BegunPut, Zenon DEF Begins
  <2> HIDE DEF q
  <2> QED  BY <1>2, <2>1
<1> HIDE DEF q
<1>4. Put(r, q, r.next, Begins(New(kind, req, input), phase, link))
  BY <1>1, <1>3, PutTwice
<1> QED  BY <1>1, <1>3, <1>4 DEF Adds, SameTrace, c, q

\* A job that is created, may begin and ends.
LEMMA EndedAdds ==
  ASSUME NEW r, NEW c, NEW job, Typed(r), Adds(r, c, job), NEW status \in Terminal
  PROVE  LET q == Ended(c, r.next, status) IN
         /\ Adds(r, q, EndedJob(job, status)) /\ SameTrace(c, q)
         /\ q.heavy = IF c.heavy = r.next THEN 0 ELSE c.heavy
<1> DEFINE q == Ended(c, r.next, status)
<1>1. Typed(c) /\ r.next \in DOMAIN c.jobs /\ c.jobs[r.next] = job
  BY DEF Adds, Put
<1>2. /\ Put(c, q, r.next, EndedJob(job, status)) /\ SameTrace(c, q)
      /\ q.next = c.next /\ q.heavy = IF c.heavy = r.next THEN 0 ELSE c.heavy
  BY <1>1, EndedPut
<1> HIDE DEF q
<1>3. Put(r, q, r.next, EndedJob(job, status))
  BY <1>2, PutTwice DEF Adds
<1> QED  BY <1>2, <1>3 DEF Adds, SameTrace, q

LEMMA EndedEnds ==
  ASSUME NEW r, Typed(r), NEW id \in DOMAIN r.jobs, NEW status \in Terminal
  PROVE  Ends(r, Ended(r, id, status), id)
BY EndedPut DEF Ends, SameTrace

LEMMA FreedIs ==
  ASSUME NEW r, Typed(r)
  PROVE  LET q == Freed(r) IN
         /\ Typed(q) /\ q.jobs = r.jobs /\ q.asked = r.asked /\ q.next = r.next /\ q.heavy = 0
         /\ SameTrace(r, q) /\ ~HeavyBusy(q)
<1> DEFINE q == Freed(r)
<1>1. q \in [jobs : {r.jobs}, asked : {r.asked}, heavy : {0}, active : {r.active},
             handle : {r.handle}, connected : {r.connected}, writer : {r.writer},
             next : {r.next}]
  BY DEF Freed, Typed, Runtimes
<1> HIDE DEF q
<1>2. Typed(q) /\ q.jobs = r.jobs /\ q.asked = r.asked /\ q.next = r.next
  BY <1>1, OthersTyped, TypedFields
<1>3. 0 \notin DOMAIN q.jobs
  BY <1>2, TypedFields
<1> QED  BY <1>1, <1>2, <1>3 DEF SameTrace, HeavyBusy, Running, q

LEMMA FreedGood ==
  ASSUME NEW r, NEW X, Typed(r), HeavyInv(r, X), ~HeavyBusy(r)
  PROVE  /\ HeavyInv(Freed(r), X)
         /\ RecordingInv(r) => RecordingInv(Freed(r))
         /\ PhaseInv(r) => PhaseInv(Freed(r))
         /\ RunInv(r) => RunInv(Freed(r))
<1> DEFINE q == Freed(r)
<1>1. /\ Typed(q) /\ q.jobs = r.jobs /\ q.asked = r.asked /\ q.heavy = 0
      /\ q.active = r.active /\ q.handle = r.handle
  BY FreedIs DEF SameTrace
<1> HIDE DEF q
<1>2. HeavyInv(q, X)
  BY <1>1 DEF HeavyInv, HeavyBusy, Running
<1>3. RecordingInv(r) => RecordingInv(q)
  BY <1>1 DEF RecordingInv, Recording, Running
<1>4. PhaseInv(r) => PhaseInv(q)
  BY <1>1 DEF PhaseInv, Running
<1>5. RunInv(r) => RunInv(q)
  BY <1>1 DEF RunInv, Running
<1> QED  BY <1>2, <1>3, <1>4, <1>5 DEF q

---------------------------------------------------------------------------
(* The analysis of a trace.                                                *)

LEMMA AnalysisGood ==
  ASSUME NEW r, NEW X, Good(r, X), NEW trace \in DOMAIN r.asked, NEW req \in Reqs,
         NEW q \in AnalysisStarted(r, trace, req) \cup AnalysisRefused(r, trace, req)
  PROVE  /\ Good(q, X) /\ Grows(r, q, {}, None)
         /\ \A j \in DOMAIN r.jobs : q.jobs[j] = r.jobs[j]
         /\ q.active = r.active /\ q.handle = r.handle
<1> DEFINE f == Freed(r)
           b == Begun(Created(f, "traceAnalysis", req, "analysis"), "analyzing", trace)
           job == Begins(New("traceAnalysis", req, "analysis"), "analyzing", trace)
<1>1. Typed(r) /\ r.next \in 1..(MaxJobs + 1) /\ trace \in 0..MaxJobs
      /\ DOMAIN r.asked = 1..(r.next - 1)
  <2>1. Typed(r) /\ DOMAIN r.asked = 1..(r.next - 1)
    BY DEF Good, Typed
  <2> QED  BY <2>1, TypedFields
<1>2. CASE q = r
  BY <1>1, <1>2, Same DEF Good
<1>3. ASSUME ~HeavyBusy(r)
      PROVE  /\ Good(f, X) /\ Grows(r, f, {}, None) /\ ~HeavyBusy(f)
             /\ f.jobs = r.jobs /\ f.active = r.active /\ f.handle = r.handle
             /\ f.next = r.next /\ f.heavy = 0 /\ f.asked = r.asked
  <2>1. /\ Typed(f) /\ f.jobs = r.jobs /\ f.next = r.next /\ f.heavy = 0
        /\ SameTrace(r, f) /\ ~HeavyBusy(f) /\ f.asked = r.asked
    BY <1>1, FreedIs
  <2>2. Good(f, X)
    BY <1>1, <1>3, <2>1, FreedGood DEF Good
  <2> QED  BY <1>1, <2>1, <2>2, Same DEF SameTrace
<1>4. ASSUME ~HeavyBusy(r), r.next <= MaxJobs
      PROVE  Adds(f, b, job) /\ b.heavy = 0
  <2>1. f.next # MaxJobs + 1 /\ Typed(f) /\ f.heavy = 0
    BY <1>1, <1>3, <1>4 DEF Good
  <2>2. "traceAnalysis" \in Kinds /\ "analysis" \in Inputs /\ "analyzing" \in Phases
    BY DEF Kinds, Inputs, Phases
  <2> HIDE DEF f
  <2>3. Adds(f, b, job) /\ b.heavy = f.heavy
    BY <1>1, <2>1, <2>2, StartedAdds, SMTT(20)
  <2> HIDE DEF b, job
  <2> QED  BY <2>1, <2>3
<1>5. job.kind = "traceAnalysis" /\ job.status = "running" /\ job.phase = "analyzing"
      /\ job.link = trace
  BY DEF Begins, New
<1> HIDE DEF f, b, job
<1>6. ASSUME NEW k, NEW p, ~HeavyBusy(r), r.next <= MaxJobs, Adds(f, p, k),
             k.kind = "traceAnalysis",
             \/ k = job /\ p.heavy = f.next
             \/ k.status # "running" /\ p.heavy = 0
      PROVE  /\ Good(p, X) /\ Grows(r, p, {}, None)
             /\ \A j \in DOMAIN r.jobs : p.jobs[j] = r.jobs[j]
             /\ p.active = r.active /\ p.handle = r.handle
  <2>1. Grows(f, p, {}, None)
    BY <1>3, <1>6, AddsGrows DEF Good
  <2>2. Grows(r, p, {} \cup {}, None)
    BY <1>1, <1>3, <1>6, <2>1, GrowsTwice
  <2>3. RecordingInv(p) /\ PhaseInv(p) /\ RunInv(p)
    <3>1. /\ Typed(f) /\ RecordingInv(f) /\ PhaseInv(f) /\ RunInv(f)
          /\ trace \in DOMAIN f.asked
      BY <1>3, <1>6 DEF Good
    <3> QED  BY <1>5, <1>6, <3>1, AddsGood
  <2>4. HeavyInv(p, X)
    <3>1. f.heavy # f.next /\ Typed(f) /\ HeavyInv(f, X)
      BY <1>1, <1>3, <1>6 DEF Good
    <3>2. k.status # "running" \/ p.heavy = f.next
      BY <1>6
    <3> QED  BY <1>3, <1>6, <3>1, <3>2, AddsHeavy
  <2>5. r.next \notin DOMAIN r.jobs
    BY <1>1, TypedFields
  <2> QED  BY <1>1, <1>3, <1>6, <2>2, <2>3, <2>4, <2>5 DEF Good, Adds, Put
<1>7. CASE q \in AnalysisStarted(r, trace, req)
  <2>1. ~HeavyBusy(r) /\ r.next <= MaxJobs /\ q = [b EXCEPT !.heavy = r.next]
    BY <1>1, <1>7 DEF AnalysisStarted, f, b
  <2>2. Adds(f, b, job) /\ Typed(b) /\ f.next = r.next /\ b.next = f.next + 1
    BY <1>3, <1>4, <2>1 DEF Adds, Put
  <2>3. q \in [jobs : {b.jobs}, asked : {b.asked}, heavy : {r.next}, active : {b.active},
               handle : {b.handle}, connected : {b.connected}, writer : {b.writer},
               next : {b.next}]
    BY <2>1, <2>2 DEF Typed, Runtimes
  <2>4. Typed(q) /\ q.jobs = b.jobs /\ q.next = b.next
    BY <1>1, <2>1, <2>2, <2>3, OthersTyped, TypedFields
  <2>5. Adds(f, q, job)
    BY <2>2, <2>3, <2>4 DEF Adds, Put
  <2> QED  BY <1>5, <1>6, <2>1, <2>2, <2>3, <2>5
<1>8. CASE q \in AnalysisRefused(r, trace, req) /\ q # r
  <2>1. ~HeavyBusy(r)
    BY <1>8 DEF AnalysisRefused
  <2>2. CASE q = f
    BY <1>3, <2>1, <2>2
  <2>3. CASE q # f
    <3>1. r.next <= MaxJobs /\ q = Ended(b, r.next, "failed")
      BY <1>1, <1>8, <2>3 DEF AnalysisRefused, f, b
    <3>2. Adds(f, b, job) /\ b.heavy = 0 /\ Typed(f) /\ f.next = r.next
      <4>1. Adds(f, b, job) /\ b.heavy = 0
        BY <1>4, <2>1, <3>1
      <4>2. Good(f, X) /\ f.next = r.next
        BY <1>3, <2>1
      <4> QED  BY <4>1, <4>2 DEF Good
    <3>3. Adds(f, q, EndedJob(job, "failed")) /\ q.heavy = 0
      <4>1. "failed" \in Terminal
        BY DEF Terminal
      <4>2. Adds(f, q, EndedJob(job, "failed"))
        BY <3>1, <3>2, <4>1, EndedAdds
      <4>3. q.heavy = IF b.heavy = f.next THEN 0 ELSE b.heavy
        BY <3>1, <3>2, <4>1, EndedAdds
      <4> QED  BY <3>2, <4>2, <4>3
    <3>4. EndedJob(job, "failed").kind = "traceAnalysis"
          /\ EndedJob(job, "failed").status = "failed"
      BY DEF EndedJob, job, Begins, New
    <3> QED  BY <1>6, <2>1, <3>1, <3>3, <3>4
  <2> QED  BY <2>2, <2>3
<1> QED  BY <1>2, <1>7, <1>8

---------------------------------------------------------------------------
(* Jobs end.                                                               *)

LEMMA EndGood ==
  ASSUME NEW r, NEW X, Good(r, X), NEW id \in Running(r), id \notin Recording(r),
         NEW status \in Terminal,
         r.jobs[id].kind = "performance" => r.jobs[id].link \notin Running(r)
  PROVE  /\ Good(Ended(r, id, status), X \ {id})
         /\ Grows(r, Ended(r, id, status), {id}, None)
         /\ Running(Ended(r, id, status)) = Running(r) \ {id}
<1> DEFINE q == Ended(r, id, status)
<1>1. Ends(r, q, id)
  BY EndedEnds DEF Good, Running
<1>2. Put(r, q, id, EndedJob(r.jobs[id], status))
  BY EndedPut DEF Good, Running
<1> HIDE DEF q
<1>3. Good(q, X \ {id})
  <2>1. /\ Typed(r) /\ HeavyInv(r, X) /\ PhaseInv(r) /\ RunInv(r)
        /\ Recording(r) \ {id} = {r.active} \ {0}
        /\ r.handle => r.active # 0 /\ r.jobs[r.active].phase = "loading"
    BY DEF Good, RecordingInv
  <2> QED  BY <1>1, <2>1, EndsGood
<1>4. Grows(r, q, {id}, None)
  BY <1>1, EndsGrows DEF Good
<1>5. Running(q) = Running(r) \ {id}
  <2>1. r.jobs[id] \in Jobs
    BY TypedFields DEF Good, Running
  <2>2. EndedJob(r.jobs[id], status).status # "running"
    BY <2>1 DEF EndedJob, Jobs, Terminal
  <2> QED  BY <1>2, <2>2 DEF Put, Running
<1> QED  BY <1>3, <1>4, <1>5 DEF q

LEMMA GoodMore ==
  ASSUME NEW r, NEW X, NEW Y, Good(r, X), X \subseteq Y
  PROVE  Good(r, Y)
BY DEF Good, HeavyInv

\* A change of a job that its journal does not tell.
LEMMA UnsavedPut ==
  ASSUME NEW r, Typed(r), NEW id \in DOMAIN r.jobs, NEW job \in Jobs,
         Journal(job) = Journal(r.jobs[id]),
         NEW q, q \in [jobs : {[r.jobs EXCEPT ![id] = job]}, asked : {r.asked},
                       heavy : 0..MaxJobs, active : 0..MaxJobs, handle : BOOLEAN,
                       connected : BOOLEAN, writer : 0..User, next : {r.next}]
  PROVE  Put(r, q, id, job) /\ q.asked = r.asked
<1>1. /\ q.jobs = [r.jobs EXCEPT ![id] = job] /\ q.asked = r.asked /\ q.next = r.next
      /\ r.jobs \in [DOMAIN r.jobs -> Jobs] /\ DOMAIN r.jobs \subseteq JobIds
  BY TypedFields DEF JobIds
<1>2. q.jobs \in [DOMAIN r.jobs -> Jobs]
  BY <1>1
<1>3. q.jobs \in Tables /\ r.asked \in Asked /\ r.next \in 1..(MaxJobs + 1)
  BY <1>1, <1>2, TableIs DEF Typed, Runtimes
<1>4. q \in Runtimes
  BY <1>1, <1>3 DEF Runtimes
<1> QED  BY <1>1, <1>4 DEF Typed, Put

\* The trace of r is no longer the active one, and waits for its analysis.
Analyzing(r, id) ==
  [[r EXCEPT !.handle = FALSE, !.writer = 0, !.active = 0]
     EXCEPT !.jobs[id].phase = "analyzing"]

LEMMA AnalyzingGood ==
  ASSUME NEW r, NEW X, Good(r, X), NEW id \in Running(r), id = r.active,
         r.jobs[id].kind = "trace", r.jobs[id].input = "analyze",
         NEW q, q = Analyzing(r, id)
  PROVE  /\ Good(q, X) /\ Grows(r, q, {}, None) /\ q.next = r.next /\ q.asked = r.asked
         /\ id \in Running(q) /\ q.jobs[id].phase = "analyzing"
         /\ q.jobs[id].kind = "trace"
<1> DEFINE job == [r.jobs[id] EXCEPT !.phase = "analyzing"]
<1>1. /\ Typed(r) /\ id \in DOMAIN r.jobs /\ r.jobs[id] \in Jobs
      /\ r.jobs[id].status = "running"
  BY TypedFields DEF Good, Running
<1>2. /\ job \in Jobs /\ Journal(job) = Journal(r.jobs[id]) /\ job.phase = "analyzing"
      /\ job.kind = r.jobs[id].kind /\ job.input = r.jobs[id].input
      /\ job.status = "running" /\ job.req = r.jobs[id].req /\ job.link = r.jobs[id].link
  BY <1>1 DEF Jobs, Journal, Phases
<1>3. q.jobs = [r.jobs EXCEPT ![id] = job]
  BY <1>1 DEF Typed, Runtimes, Analyzing
<1>4. q \in [jobs : {q.jobs}, asked : {r.asked}, heavy : {r.heavy}, active : {0},
             handle : {FALSE}, connected : {r.connected}, writer : {0},
             next : {r.next}]
  BY <1>1 DEF Typed, Runtimes, Analyzing
<1> HIDE DEF job
<1>5. r.heavy \in 0..MaxJobs /\ r.connected \in BOOLEAN /\ 0 \in 0..User /\ 0 \in 0..MaxJobs
  BY <1>1, TypedFields DEF User
<1>6. q \in [jobs : {[r.jobs EXCEPT ![id] = job]}, asked : {r.asked}, heavy : 0..MaxJobs,
             active : 0..MaxJobs, handle : BOOLEAN, connected : BOOLEAN,
             writer : 0..User, next : {r.next}]
  BY <1>3, <1>4, <1>5
<1>7. Put(r, q, id, job) /\ q.asked = r.asked
  BY <1>1, <1>2, <1>6, UnsavedPut
<1>8. /\ q.next = r.next /\ q.heavy = r.heavy /\ q.active = 0 /\ q.handle = FALSE
  BY <1>4
<1>9. Running(q) = Running(r)
  BY <1>1, <1>2, <1>7 DEF Put, Running
<1>10. Grows(r, q, {}, None)
  BY <1>1, <1>2, <1>7, <1>8, TypedFields, SMTT(40) DEF Put, Grows, Keeps
<1>11. HeavyInv(q, X)
  BY <1>2, <1>7, <1>8, <1>9 DEF Good, HeavyInv, Put, Running
<1>12. RecordingInv(q)
  <2>1. Recording(q) = Recording(r) \ {id}
    BY <1>2, <1>7, <1>9 DEF Recording, Put, Running
  <2> QED  BY <1>8, <2>1 DEF Good, RecordingInv
<1>13. PhaseInv(q)
  BY <1>2, <1>7, <1>9 DEF Good, PhaseInv, Put, Running
<1>14. RunInv(q)
  <2>1. DOMAIN q.jobs = DOMAIN r.jobs /\ \A j \in DOMAIN r.jobs :
          /\ q.jobs[j].kind = r.jobs[j].kind /\ q.jobs[j].input = r.jobs[j].input
          /\ q.jobs[j].link = r.jobs[j].link
    BY <1>1, <1>2, <1>7 DEF Put
  <2> QED  BY <1>9, <2>1 DEF Good, RunInv
<1> QED  BY <1>1, <1>2, <1>7, <1>8, <1>9, <1>10, <1>11, <1>12, <1>13, <1>14
         DEF Good, Put, Running

\* A trace job ends, and the engine writes no trace.
LEMMA ClosedGood ==
  ASSUME NEW r, NEW X, Good(r, X), NEW id \in Running(r), r.jobs[id].kind = "trace",
         NEW c, c \in [jobs : {r.jobs}, asked : {r.asked}, heavy : {r.heavy},
                       active : {IF r.active = id THEN 0 ELSE r.active}, handle : {FALSE},
                       connected : {r.connected}, writer : {0}, next : {r.next}],
         NEW status \in Terminal, NEW q, q = Ended(c, id, status)
  PROVE  Good(q, X) /\ Grows(r, q, {id}, None) /\ id \notin Recording(q)
<1>1. Typed(r) /\ id \in DOMAIN r.jobs
  BY DEF Good, Running
<1>2. c \in [jobs : {r.jobs}, asked : {r.asked}, heavy : 0..MaxJobs,
             active : 0..MaxJobs, handle : BOOLEAN, connected : BOOLEAN,
             writer : 0..User, next : {r.next}]
  <2>1. /\ r.heavy \in 0..MaxJobs /\ r.connected \in BOOLEAN /\ r.active \in 0..MaxJobs
        /\ 0 \in 0..User /\ 0 \in 0..MaxJobs
    BY <1>1, TypedFields DEF User
  <2> QED  BY <2>1
<1>3. /\ Typed(c) /\ c.jobs = r.jobs /\ c.asked = r.asked /\ c.next = r.next
      /\ c.heavy = r.heavy /\ c.active = (IF r.active = id THEN 0 ELSE r.active)
      /\ c.handle = FALSE
  BY <1>1, <1>2, OthersTyped
<1>4. Ends(c, q, id) /\ id \in Running(c)
  BY <1>1, <1>3, EndedEnds DEF Running
<1>5. Recording(c) = Recording(r) /\ Recording(r) = {r.active} \ {0}
  BY <1>3 DEF Recording, Running, Good, RecordingInv
<1>6. HeavyInv(c, X) /\ PhaseInv(c) /\ RunInv(c)
  BY <1>3 DEF Good, HeavyInv, PhaseInv, RunInv, Running
<1>7. Good(q, X \ {id})
  <2>1. Recording(c) \ {id} = {c.active} \ {0}
    BY <1>3, <1>5
  <2>2. c.jobs[id].kind # "performance"
    BY <1>3
  <2> QED  BY <1>3, <1>4, <1>6, <2>1, <2>2, EndsGood
<1>8. Grows(c, q, {id}, None)
  BY <1>3, <1>4, EndsGrows
<1>9. Grows(r, c, {}, None)
  BY <1>1, <1>3, Same
<1>10. Grows(r, q, {} \cup {id}, None)
  BY <1>1, <1>8, <1>9, GrowsTwice
<1>11. id \notin Recording(q)
  <2>1. PICK st \in Terminal : Put(c, q, id, EndedJob(c.jobs[id], st))
    BY <1>4 DEF Ends
  <2>2. c.jobs[id] \in Jobs
    BY <1>1, <1>3, TypedFields
  <2> QED  BY <2>1, <2>2 DEF Put, EndedJob, Jobs, Terminal, Recording, Running
<1> QED  BY <1>7, <1>10, <1>11, GoodMore

LEMMA StopTraceGood ==
  ASSUME NEW r, NEW X, Good(r, X), NEW id, NEW q \in StopTrace(r, id)
  PROVE  Good(q, X) /\ Grows(r, q, {id}, None) /\ id \notin Recording(q)
<1>0. Typed(r)
  BY DEF Good
<1>1. CASE id \notin Running(r) \/ r.jobs[id].kind # "trace" \/ id # r.active
  <2>1. q = r
    BY <1>1 DEF StopTrace
  <2>2. id \notin Recording(r)
    <3>1. CASE id \in Running(r) /\ r.jobs[id].kind # "trace"
      <4>1. r.jobs[id] \in Jobs
        BY <1>0, <3>1, TypedFields DEF Running
      <4> QED  BY <3>1, <4>1 DEF Good, PhaseInv, Recording, Jobs, Kinds, Started
    <3> QED  BY <1>1, <3>1 DEF Good, RecordingInv, Recording
  <2> QED  BY <1>0, <2>1, <2>2, Same
<1>2. CASE ~(id \notin Running(r) \/ r.jobs[id].kind # "trace" \/ id # r.active)
  <2> DEFINE closed == [r EXCEPT !.handle = FALSE, !.writer = 0, !.active = 0]
             analyzing == [closed EXCEPT !.jobs[id].phase = "analyzing"]
  <2>1. id \in Running(r) /\ r.jobs[id].kind = "trace" /\ id = r.active
        /\ id \in DOMAIN r.jobs
    BY <1>2 DEF Running
  <2>2. \/ q \in {Ended(closed, id, "failed"), Ended(closed, id, "succeeded")}
        \/ /\ r.jobs[id].input = "analyze"
           /\ \/ q \in AnalysisStarted(analyzing, id, None)
              \/ \E p \in AnalysisRefused(analyzing, id, None) : q = Ended(p, id, "succeeded")
    BY <1>2 DEF StopTrace
  <2>3. ASSUME NEW status \in Terminal, q = Ended(closed, id, status)
        PROVE  Good(q, X) /\ Grows(r, q, {id}, None) /\ id \notin Recording(q)
    <3>1. closed \in [jobs : {r.jobs}, asked : {r.asked}, heavy : {r.heavy},
                      active : {IF r.active = id THEN 0 ELSE r.active}, handle : {FALSE},
                      connected : {r.connected}, writer : {0}, next : {r.next}]
      BY <1>0, <2>1 DEF Typed, Runtimes
    <3> HIDE DEF closed
    <3> QED  BY <2>1, <2>3, <3>1, ClosedGood
  <2>4. CASE q \in {Ended(closed, id, "failed"), Ended(closed, id, "succeeded")}
    BY <2>3, <2>4 DEF Terminal
  <2>5. CASE /\ r.jobs[id].input = "analyze"
             /\ \/ q \in AnalysisStarted(analyzing, id, None)
                \/ \E p \in AnalysisRefused(analyzing, id, None) : q = Ended(p, id, "succeeded")
    <3>1. /\ Good(analyzing, X) /\ Grows(r, analyzing, {}, None)
          /\ id \in Running(analyzing) /\ analyzing.jobs[id].phase = "analyzing"
          /\ analyzing.jobs[id].kind = "trace"
      <4>1. analyzing = Analyzing(r, id)
        BY DEF Analyzing
      <4> HIDE DEF analyzing
      <4> QED  BY <2>1, <2>5, <4>1, AnalyzingGood
    <3> HIDE DEF analyzing
    <3>2. id \in DOMAIN analyzing.asked /\ None \in Reqs
      BY <3>1 DEF Good, Typed, Running, Reqs
    <3>3. ASSUME NEW p, Good(p, X), Grows(analyzing, p, {}, None),
                 \A j \in DOMAIN analyzing.jobs : p.jobs[j] = analyzing.jobs[j]
          PROVE  /\ id \in Running(p) /\ id \notin Recording(p) /\ p.jobs[id].kind = "trace"
                 /\ Grows(r, p, {}, None)
      <4>1. Grows(r, p, {} \cup {}, None)
        BY <1>0, <3>1, <3>3, GrowsTwice
      <4> QED  BY <3>1, <3>3, <4>1 DEF Running, Recording, Grows, Keeps
    <3>4. CASE q \in AnalysisStarted(analyzing, id, None)
      <4>1. /\ Good(q, X) /\ Grows(analyzing, q, {}, None)
            /\ \A j \in DOMAIN analyzing.jobs : q.jobs[j] = analyzing.jobs[j]
        BY <3>1, <3>2, <3>4, AnalysisGood
      <4>2. Grows(r, q, {}, None) /\ id \notin Recording(q)
        BY <3>3, <4>1
      <4> QED  BY <4>1, <4>2 DEF Grows, Keeps
    <3>5. ASSUME NEW p \in AnalysisRefused(analyzing, id, None), q = Ended(p, id, "succeeded")
          PROVE  Good(q, X) /\ Grows(r, q, {id}, None) /\ id \notin Recording(q)
      <4>1. /\ Good(p, X) /\ Grows(analyzing, p, {}, None)
            /\ \A j \in DOMAIN analyzing.jobs : p.jobs[j] = analyzing.jobs[j]
        BY <3>1, <3>2, <3>5, AnalysisGood
      <4>2. /\ id \in Running(p) /\ id \notin Recording(p) /\ p.jobs[id].kind = "trace"
            /\ Grows(r, p, {}, None)
        BY <3>3, <4>1
      <4>3. /\ Good(q, X \ {id}) /\ Grows(p, q, {id}, None)
            /\ Running(q) = Running(p) \ {id}
        BY <3>5, <4>1, <4>2, EndGood DEF Terminal
      <4>4. Grows(r, q, {} \cup {id}, None)
        BY <1>0, <4>2, <4>3, GrowsTwice
      <4> QED  BY <4>3, <4>4, GoodMore DEF Recording
    <3> QED  BY <2>5, <3>4, <3>5
  <2> QED  BY <2>2, <2>4, <2>5
<1> QED  BY <1>1, <1>2

\* A performance run ends when the trace it owns is stopped.
LEMMA RunOverGood ==
  ASSUME NEW r, NEW X, Good(r, X), NEW id \in Running(r), r.jobs[id].kind = "performance",
         NEW q \in StopTrace(r, r.jobs[id].link), NEW status \in Terminal
  PROVE  /\ Good(Ended(q, id, status), X \ {id})
         /\ Grows(r, Ended(q, id, status), {r.jobs[id].link, id}, None)
         /\ r.jobs[id].link \in Running(r) => r.jobs[r.jobs[id].link].kind = "trace"
<1> DEFINE link == r.jobs[id].link
<1>1. Typed(r) /\ id \in DOMAIN r.jobs /\ 0 \notin DOMAIN r.jobs
  BY TypedFields DEF Good, Running
<1>2. link \in Running(r) => link # id /\ r.jobs[link].kind = "trace"
  BY <1>1 DEF Good, RunInv, Running
<1> HIDE DEF link
<1>3. Good(q, X) /\ Grows(r, q, {link}, None) /\ link \notin Recording(q)
  BY StopTraceGood DEF link
<1>4. id \in Running(q) /\ q.jobs[id].kind = "performance" /\ q.jobs[id].link = link
  BY <1>1, <1>2, <1>3 DEF Grows, Keeps, Running, link
<1>5. id \notin Recording(q)
  BY <1>3, <1>4 DEF Good, PhaseInv, Recording
<1>6. link \notin Running(q)
  <2> SUFFICES ASSUME link \in Running(q) PROVE FALSE
    OBVIOUS
  <2>1. link # 0
    BY <1>3, TypedFields DEF Good, Running
  <2>2. q.jobs[link].kind = "trace" /\ q.jobs[link].input = "artifactOnly"
    BY <1>3, <1>4, <2>1 DEF Good, RunInv, Running
  <2> QED  BY <1>3, <2>2 DEF Good, PhaseInv, Recording
<1>7. Good(Ended(q, id, status), X \ {id}) /\ Grows(q, Ended(q, id, status), {id}, None)
  BY <1>3, <1>4, <1>5, <1>6, EndGood
<1>8. Grows(r, Ended(q, id, status), {link} \cup {id}, None)
  BY <1>1, <1>3, <1>7, GrowsTwice
<1> QED  BY <1>2, <1>7, <1>8 DEF link

LEMMA ParentGood ==
  ASSUME NEW r, NEW X, Good(r, X), NEW trace
  PROVE  LET q == ParentCompleted(r, trace) IN
         /\ Good(q, X) /\ Grows(r, q, {trace}, None)
         /\ \A j \in Running(r) : r.jobs[j].kind = "process" => j \in Running(q)
<1>1. CASE ~(trace \in Running(r) /\ r.jobs[trace].phase = "analyzing")
  BY <1>1, Same DEF ParentCompleted, Good
<1>2. CASE trace \in Running(r) /\ r.jobs[trace].phase = "analyzing"
  <2>1. r.jobs[trace].kind \notin {"process", "performance"} /\ trace \notin Recording(r)
    BY <1>2 DEF Good, PhaseInv, Recording
  <2>2. /\ Good(Ended(r, trace, "succeeded"), X \ {trace})
        /\ Grows(r, Ended(r, trace, "succeeded"), {trace}, None)
        /\ Running(Ended(r, trace, "succeeded")) = Running(r) \ {trace}
    BY <1>2, <2>1, EndGood DEF Terminal
  <2>3. Good(Ended(r, trace, "succeeded"), X)
    BY <2>2, GoodMore
  <2> QED  BY <1>2, <2>1, <2>2, <2>3 DEF ParentCompleted
<1> QED  BY <1>1, <1>2

---------------------------------------------------------------------------
(* Jobs begin.                                                             *)

\* The heavy job is the one that was excepted.
LEMMA LockGood ==
  ASSUME NEW r, NEW id \in DOMAIN r.jobs, Good(r, {id}), r.heavy = 0,
         NEW q, q \in [jobs : {r.jobs}, asked : {r.asked}, heavy : {id}, active : {r.active},
                       handle : {r.handle}, connected : {r.connected}, writer : {r.writer},
                       next : {r.next}]
  PROVE  Good(q, {}) /\ q.jobs = r.jobs /\ q.next = r.next
<1>1. Typed(r) /\ id \in 0..MaxJobs
  BY TypedFields DEF Good
<1>2. q \in [jobs : {r.jobs}, asked : {r.asked}, heavy : 0..MaxJobs, active : 0..MaxJobs,
             handle : BOOLEAN, connected : BOOLEAN, writer : 0..User, next : {r.next}]
  BY <1>1, TypedFields
<1>3. /\ Typed(q) /\ q.jobs = r.jobs /\ q.asked = r.asked /\ q.next = r.next
      /\ q.heavy = id /\ q.active = r.active /\ q.handle = r.handle
  BY <1>1, <1>2, OthersTyped
<1>4. HeavyInv(q, {})
  <2>1. 0 \notin Running(r)
    BY <1>1, TypedFields DEF Running
  <2> QED  BY <1>3, <2>1 DEF HeavyInv, Good, Running
<1> QED  BY <1>3, <1>4 DEF Good, RecordingInv, Recording, PhaseInv, RunInv, Running

LEMMA CreatedAdds ==
  ASSUME NEW r, Typed(r), r.next # MaxJobs + 1,
         NEW kind \in Kinds, NEW req \in Reqs, NEW input \in Inputs
  PROVE  LET c == Created(r, kind, req, input) IN
         /\ Adds(r, c, New(kind, req, input)) /\ SameTrace(r, c) /\ c.heavy = r.heavy
BY CreatedPut DEF Adds, SameTrace

\* A job that is created, and is over when the operation is, changes nothing else.
LEMMA OverGood ==
  ASSUME NEW r, NEW X, Good(r, X), NEW q, NEW job, NEW req, Adds(r, q, job),
         job.status # "running", job.kind = "performance" => job.link = 0,
         job.kind = "traceAnalysis" \/ job.req \in {None, req},
         q.heavy = IF r.heavy = r.next THEN 0 ELSE r.heavy
  PROVE  Good(q, X) /\ Grows(r, q, {}, req)
<1>1. Typed(r) /\ RecordingInv(r) /\ PhaseInv(r) /\ RunInv(r) /\ HeavyInv(r, X) /\ Typed(q)
  BY DEF Good, Adds, Put
<1>2. RecordingInv(q) /\ PhaseInv(q) /\ RunInv(q)
  BY <1>1, AddsGood
<1>3. HeavyInv(q, X)
  BY <1>1, AddsHeavy
<1>4. Grows(r, q, {}, req)
  BY <1>1, AddsGrows
<1> QED  BY <1>1, <1>2, <1>3, <1>4 DEF Good

\* A process or a performance run begins, and does not have the lock yet.
LEMMA BegunGood ==
  ASSUME NEW r, Good(r, {}), r.next # MaxJobs + 1,
         NEW kind \in {"process", "performance"}, NEW req \in Reqs, NEW input \in Inputs
  PROVE  LET q == Begun(Created(r, kind, req, input), "running", 0) IN
         /\ Good(q, {r.next}) /\ Grows(r, q, {}, req)
         /\ Adds(r, q, Begins(New(kind, req, input), "running", 0))
         /\ q.heavy = r.heavy /\ r.next \in Running(q) /\ q.jobs[r.next].kind = kind
         /\ q.jobs[r.next].link = 0
<1> DEFINE q == Begun(Created(r, kind, req, input), "running", 0)
           job == Begins(New(kind, req, input), "running", 0)
<1>1. Typed(r) /\ RecordingInv(r) /\ PhaseInv(r) /\ RunInv(r) /\ HeavyInv(r, {r.next})
  BY DEF Good, HeavyInv
<1>2. Adds(r, q, job) /\ q.heavy = r.heavy
  <2>1. kind \in Kinds /\ "running" \in Phases /\ 0 \in 0..MaxJobs
    BY DEF Kinds, Started, Phases
  <2> QED  BY <1>1, <2>1, StartedAdds, SMTT(20)
<1>3. /\ job.kind = kind /\ job.link = 0 /\ job.status = "running" /\ job.phase = "running"
      /\ job.req = req
  BY DEF Begins, New
<1> HIDE DEF q, job
<1>4. RecordingInv(q) /\ PhaseInv(q) /\ RunInv(q)
  BY <1>1, <1>2, <1>3, AddsGood
<1>5. HeavyInv(q, {r.next})
  BY <1>1, <1>2, AddsHeavy
<1>6. Grows(r, q, {}, req)
  BY <1>1, <1>2, <1>3, AddsGrows
<1>7. Typed(q) /\ r.next \in Running(q) /\ q.jobs[r.next] = job
  BY <1>2, <1>3 DEF Adds, Put, Running
<1> QED  BY <1>2, <1>3, <1>4, <1>5, <1>6, <1>7 DEF Good, q, job

LEMMA TraceFailedGood ==
  ASSUME NEW r, NEW X, Good(r, X), r.active = 0, r.next # MaxJobs + 1,
         NEW req \in Reqs, NEW input \in Inputs
  PROVE  LET q == TraceFailed(Created(r, "trace", req, input)) IN
         /\ Good(q, X) /\ Grows(r, q, {}, req) /\ q.heavy \in {0, r.heavy}
<1> DEFINE t == Created(r, "trace", req, input)
           c == [t EXCEPT !.connected = FALSE, !.handle = FALSE]
           q == TraceFailed(t)
           job == New("trace", req, input)
<1>1. Typed(r) /\ r.handle = FALSE
  <2>1. Typed(r) /\ r.handle \in BOOLEAN /\ (r.handle => r.active # 0)
    BY TypedFields DEF Good, RecordingInv
  <2> QED  BY <2>1
<1>2. "trace" \in Kinds
  BY DEF Kinds, Started
<1>3. Adds(r, t, job) /\ SameTrace(r, t) /\ t.heavy = r.heavy
  BY <1>1, <1>2, CreatedAdds, SMTT(20)
<1>4. Typed(t) /\ t.next = r.next + 1
  BY <1>3 DEF Adds, Put
<1>5. q = Ended(c, r.next, "failed")
  BY <1>1, <1>4, TypedFields DEF TraceFailed
<1> HIDE DEF t, job
<1>6. c \in [jobs : {t.jobs}, asked : {t.asked}, heavy : {t.heavy}, active : {t.active},
             handle : {FALSE}, connected : {FALSE}, writer : {t.writer}, next : {t.next}]
  BY <1>4 DEF Typed, Runtimes
<1> HIDE DEF c, q
<1>7. Typed(c) /\ c.jobs = t.jobs /\ c.next = t.next
  <2>1. c \in [jobs : {t.jobs}, asked : {t.asked}, heavy : 0..MaxJobs, active : 0..MaxJobs,
               handle : BOOLEAN, connected : BOOLEAN, writer : 0..User, next : {t.next}]
    BY <1>4, <1>6, TypedFields
  <2> QED  BY <1>4, <2>1, OthersTyped
<1>8. c.handle = r.handle /\ c.active = r.active /\ c.heavy = r.heavy
  BY <1>1, <1>3, <1>6 DEF SameTrace
<1>9. Adds(r, c, job)
  BY <1>3, <1>7, <1>8 DEF Adds, Put
<1>10. Adds(r, q, EndedJob(job, "failed")) /\ q.heavy = IF r.heavy = r.next THEN 0 ELSE r.heavy
  <2>1. "failed" \in Terminal
    BY DEF Terminal
  <2> QED  BY <1>1, <1>5, <1>8, <1>9, <2>1, EndedAdds
<1>11. /\ EndedJob(job, "failed").status = "failed" /\ EndedJob(job, "failed").kind = "trace"
       /\ EndedJob(job, "failed").req = req
  BY DEF EndedJob, New, job
<1>12. Good(q, X) /\ Grows(r, q, {}, req)
  BY <1>10, <1>11, OverGood
<1> QED  BY <1>10, <1>12 DEF q, t

LEMMA TraceLoadingGood ==
  ASSUME NEW r, NEW X, Good(r, X), r.active = 0, r.next # MaxJobs + 1,
         NEW req \in Reqs, NEW input \in Inputs
  PROVE  LET q == TraceLoading(Created(r, "trace", req, input)) IN
         /\ Good(q, X) /\ Grows(r, q, {}, req) /\ q.heavy = r.heavy
         /\ DOMAIN q.jobs = DOMAIN r.jobs \cup {r.next} /\ q.next = r.next + 1
         /\ q.jobs[r.next].kind = "trace" /\ q.jobs[r.next].input = input
         /\ \A j \in DOMAIN r.jobs : q.jobs[j] = r.jobs[j]
<1> DEFINE t == Created(r, "trace", req, input)
           b == Begun(t, "loading", 0)
           q == TraceLoading(t)
           job == Begins(New("trace", req, input), "loading", 0)
<1>1. /\ Typed(r) /\ r.next \in 1..MaxJobs /\ r.next \notin DOMAIN r.jobs
      /\ r.handle = FALSE /\ Recording(r) = {}
  <2>1. Typed(r) /\ r.next \in 1..(MaxJobs + 1) /\ r.next \notin DOMAIN r.jobs
    BY TypedFields DEF Good
  <2>2. r.handle \in BOOLEAN /\ (r.handle => r.active # 0)
    BY <2>1, TypedFields DEF Good, RecordingInv
  <2> QED  BY <2>1, <2>2 DEF Good, RecordingInv
<1>2. "trace" \in Kinds /\ "loading" \in Phases /\ 0 \in 0..MaxJobs
  BY DEF Kinds, Started, Phases
<1>3. Adds(r, t, New("trace", req, input)) /\ Adds(r, b, job) /\ b.heavy = r.heavy
  <2>1. Adds(r, t, New("trace", req, input))
    BY <1>1, <1>2, CreatedAdds, SMTT(20)
  <2>2. Adds(r, b, job) /\ b.heavy = r.heavy
    BY <1>1, <1>2, StartedAdds, SMTT(20)
  <2> QED  BY <2>1, <2>2
<1>4. t.next = r.next + 1 /\ Typed(b) /\ b.next = r.next + 1
  BY <1>3 DEF Adds, Put
<1>5. q = [b EXCEPT !.connected = FALSE, !.handle = TRUE, !.writer = r.next, !.active = r.next]
  <2>1. t.next - 1 = r.next
    BY <1>1, <1>4
  <2> HIDE DEF t
  <2> QED  BY <2>1, Zenon DEF TraceLoading
<1>6. /\ job.kind = "trace" /\ job.input = input /\ job.req = req /\ job.status = "running"
      /\ job.phase = "loading" /\ job.link = 0
  BY DEF Begins, New
<1> HIDE DEF t, b, q, job
<1>7. q \in [jobs : {b.jobs}, asked : {b.asked}, heavy : {b.heavy}, active : {r.next},
             handle : {TRUE}, connected : {FALSE}, writer : {r.next}, next : {b.next}]
  BY <1>4, <1>5 DEF Typed, Runtimes
<1>8. /\ Typed(q) /\ q.jobs = b.jobs /\ q.asked = b.asked /\ q.next = b.next
      /\ q.active = r.next /\ q.heavy = r.heavy /\ q.handle = TRUE
  <2>1. r.next \in 0..MaxJobs /\ r.next \in 0..User
    BY <1>1 DEF User
  <2>2. q \in [jobs : {b.jobs}, asked : {b.asked}, heavy : 0..MaxJobs, active : 0..MaxJobs,
               handle : BOOLEAN, connected : BOOLEAN, writer : 0..User, next : {b.next}]
    BY <1>4, <1>7, <2>1, TypedFields
  <2> QED  BY <1>3, <1>4, <1>7, <2>2, OthersTyped
<1>9. /\ DOMAIN q.jobs = DOMAIN r.jobs \cup {r.next} /\ q.jobs[r.next] = job
      /\ \A j \in DOMAIN r.jobs : q.jobs[j] = r.jobs[j]
      /\ DOMAIN r.asked \subseteq DOMAIN q.asked
  BY <1>1, <1>3, <1>4, <1>8 DEF Adds, Put, Typed
<1>10. Running(q) = Running(r) \cup {r.next}
  BY <1>1, <1>6, <1>9 DEF Running
<1>11. Grows(r, q, {}, req)
  BY <1>1, <1>4, <1>6, <1>8, <1>9, TypedFields DEF Grows, Keeps
<1>12. HeavyInv(q, X)
  BY <1>6, <1>8, <1>9, <1>10 DEF Good, HeavyInv, Heavy, Running
<1>13. RecordingInv(q)
  <2>1. Recording(q) = {r.next}
    BY <1>1, <1>6, <1>9, <1>10 DEF Recording, Running
  <2> QED  BY <1>1, <1>6, <1>8, <1>9, <2>1 DEF RecordingInv
<1>14. PhaseInv(q)
  <2> SUFFICES ASSUME NEW id \in Running(q)
               PROVE LET j == q.jobs[id] IN
                     /\ j.kind # "ddc"
                     /\ j.kind \in {"process", "performance"} => j.phase = "running"
                     /\ j.kind = "traceAnalysis" =>
                          j.phase = "analyzing" /\ j.link \in DOMAIN q.asked
                     /\ j.kind = "trace" => \/ j.phase \in {"loading", "recording"}
                                            \/ j.phase = "analyzing" /\ j.input = "analyze"
    BY DEF PhaseInv
  <2>1. CASE id = r.next
    BY <1>6, <1>9, <2>1
  <2>2. CASE id \in Running(r)
    BY <1>9, <2>2 DEF Good, PhaseInv, Running
  <2> QED  BY <1>10, <2>1, <2>2
<1>15. RunInv(q)
  BY <1>1, <1>6, <1>9, <1>10 DEF Good, RunInv, Running
<1> QED  BY <1>4, <1>6, <1>8, <1>9, <1>11, <1>12, <1>13, <1>14, <1>15 DEF Good, q, t

\* A refused request leaves its journal.
LEMMA TraceRejectedGood ==
  ASSUME NEW r, NEW X, Good(r, X), r.next # MaxJobs + 1,
         NEW req \in Reqs, NEW input \in Inputs
  PROVE  LET q == TraceRejected(Created(r, "trace", req, input)) IN
         /\ Good(q, X) /\ Keeps(r, q, {}, req) /\ q.next = r.next + 1
         /\ q.jobs = r.jobs
<1> DEFINE t == Created(r, "trace", req, input)
           q == TraceRejected(t)
           job == New("trace", req, input)
<1>1. /\ Typed(r) /\ r.next \in 1..MaxJobs /\ r.next \notin DOMAIN r.jobs
      /\ r.jobs \in [DOMAIN r.jobs -> Jobs]
  BY TypedFields DEF Good
<1>2. "trace" \in Kinds
  BY DEF Kinds, Started
<1>3. Adds(r, t, job) /\ SameTrace(r, t) /\ t.heavy = r.heavy
  BY <1>1, <1>2, CreatedAdds, SMTT(20)
<1>4. /\ Typed(t) /\ t.next = r.next + 1 /\ DOMAIN t.jobs = DOMAIN r.jobs \cup {r.next}
      /\ \A j \in DOMAIN r.jobs : t.jobs[j] = r.jobs[j]
  BY <1>1, <1>3 DEF Adds, Put
<1>5. DOMAIN t.jobs \ {t.next - 1} = DOMAIN r.jobs
  BY <1>1, <1>4
<1> HIDE DEF t, job
<1>6. [j \in DOMAIN t.jobs \ {t.next - 1} |-> t.jobs[j]] = r.jobs
  BY <1>1, <1>4, <1>5
<1>7. q \in [jobs : {r.jobs}, asked : {t.asked}, heavy : {r.heavy}, active : {r.active},
             handle : {r.handle}, connected : {r.connected}, writer : {r.writer},
             next : {r.next + 1}]
  <2>1. q = [t EXCEPT !.jobs = r.jobs]
    BY <1>6 DEF TraceRejected
  <2> QED  BY <1>3, <1>4, <2>1 DEF Typed, Runtimes, SameTrace
<1> HIDE DEF q
<1>8. Typed(q)
  <2>1. \A id \in DOMAIN r.jobs : t.asked[id] = Journal(r.jobs[id])
    BY <1>4 DEF Typed
  <2>2. DOMAIN t.asked = 1..r.next /\ t.asked \in Asked /\ r.jobs \in Tables
    BY <1>1, <1>4 DEF Typed, Runtimes
  <2>3. DOMAIN r.jobs \subseteq DOMAIN t.asked
    BY <1>4 DEF Typed
  <2>4. q \in Runtimes
    BY <1>1, <1>7, <2>2, TypedFields DEF Runtimes
  <2> QED  BY <1>1, <1>7, <2>1, <2>2, <2>3, <2>4 DEF Typed
<1>9. /\ q.jobs = r.jobs /\ q.next = r.next + 1 /\ q.heavy = r.heavy /\ q.active = r.active
      /\ q.handle = r.handle
  BY <1>7
<1>10. DOMAIN r.asked \subseteq DOMAIN q.asked
  BY <1>1, <1>8, <1>9 DEF Typed
<1>11. Good(q, X)
  BY <1>8, <1>9, <1>10 DEF Good, HeavyInv, RecordingInv, Recording, PhaseInv, RunInv, Running
<1>12. Keeps(r, q, {}, req)
  BY <1>1, <1>8, <1>9 DEF Keeps
<1> QED  BY <1>9, <1>11, <1>12 DEF q, t

\* A running job changes in what no other job depends on.
LEMMA AltersGood ==
  ASSUME NEW r, NEW X, Good(r, X), NEW id \in Running(r), NEW q, NEW job,
         Put(r, q, id, job), q.next = r.next, q.heavy = r.heavy, q.active = r.active,
         job.kind = r.jobs[id].kind, job.input = r.jobs[id].input,
         job.status = "running", job.req = r.jobs[id].req,
         \/ q.handle = r.handle /\ job.phase = r.jobs[id].phase
         \/ q.handle = FALSE /\ r.jobs[id].phase = "loading" /\ job.phase = "recording",
         \/ job.link = r.jobs[id].link
         \/ /\ job.kind = "performance" /\ job.link \in DOMAIN r.jobs \ {id}
            /\ r.jobs[job.link].kind = "trace" /\ r.jobs[job.link].input = "artifactOnly"
  PROVE  /\ Good(q, X) /\ Running(q) = Running(r)
         /\ job.link = r.jobs[id].link => Grows(r, q, {}, None)
<1>1. /\ Typed(r) /\ Typed(q) /\ DOMAIN q.jobs = DOMAIN r.jobs /\ q.jobs[id] = job
      /\ \A j \in DOMAIN r.jobs : j # id => q.jobs[j] = r.jobs[j]
      /\ id \in DOMAIN r.jobs /\ r.jobs[id].status = "running" /\ r.next \in Nat
      /\ DOMAIN q.asked = DOMAIN r.asked
  <2>1. Typed(r) /\ id \in DOMAIN r.jobs /\ r.jobs[id].status = "running"
    BY DEF Good, Running
  <2>2. r.next \in Nat
    BY <2>1, TypedFields
  <2>3. Typed(q) /\ DOMAIN q.asked = DOMAIN r.asked
    BY <2>1 DEF Put, Typed
  <2> QED  BY <2>1, <2>2, <2>3 DEF Put
<1>2. Running(q) = Running(r)
  BY <1>1 DEF Running
<1>3. HeavyInv(q, X)
  BY <1>1, <1>2 DEF Good, HeavyInv, Running
<1>4. RecordingInv(q)
  <2>1. Recording(q) = Recording(r)
    BY <1>1, <1>2 DEF Recording, Running
  <2>2. r.active # 0 => r.active \in DOMAIN r.jobs
    BY DEF Good, RecordingInv, Recording, Running
  <2> QED  BY <1>1, <2>1, <2>2 DEF Good, RecordingInv
<1>5. PhaseInv(q)
  <2> SUFFICES ASSUME NEW i \in Running(q)
               PROVE LET j == q.jobs[i] IN
                     /\ j.kind # "ddc"
                     /\ j.kind \in {"process", "performance"} => j.phase = "running"
                     /\ j.kind = "traceAnalysis" =>
                          j.phase = "analyzing" /\ j.link \in DOMAIN q.asked
                     /\ j.kind = "trace" => \/ j.phase \in {"loading", "recording"}
                                            \/ j.phase = "analyzing" /\ j.input = "analyze"
    BY DEF PhaseInv
  <2>1. CASE i = id
    BY <1>1, <2>1 DEF Good, PhaseInv
  <2>2. CASE i # id
    BY <1>1, <1>2, <2>2 DEF Good, PhaseInv, Running
  <2> QED  BY <2>1, <2>2
<1>6. RunInv(q)
  <2> SUFFICES ASSUME NEW j \in DOMAIN q.jobs, q.jobs[j].kind = "performance",
                      q.jobs[j].link # 0
               PROVE  LET link == q.jobs[j].link IN
                      /\ link \in DOMAIN q.jobs
                      /\ q.jobs[link].kind = "trace" /\ q.jobs[link].input = "artifactOnly"
                      /\ link \in Running(q) => j \in Running(q)
    BY DEF RunInv
  <2>1. \A i \in DOMAIN r.jobs : q.jobs[i].kind = r.jobs[i].kind /\ q.jobs[i].input = r.jobs[i].input
    BY <1>1
  <2>2. CASE q.jobs[j].link = r.jobs[j].link
    BY <1>1, <1>2, <2>1, <2>2 DEF Good, RunInv
  <2>3. CASE q.jobs[j].link # r.jobs[j].link
    BY <1>1, <1>2, <2>1, <2>3
  <2> QED  BY <2>2, <2>3
<1>7. ASSUME job.link = r.jobs[id].link  PROVE Grows(r, q, {}, None)
  <2>1. DOMAIN q.asked = 1..(r.next - 1)
    BY <1>1 DEF Typed
  <2> QED  BY <1>1, <1>7, <2>1 DEF Grows, Keeps
<1> QED  BY <1>1, <1>2, <1>3, <1>4, <1>5, <1>6, <1>7 DEF Good

LEMMA SavedSame ==
  ASSUME NEW r, NEW q, Typed(q), NEW id \in DOMAIN q.jobs, r = Saved(q, id)
  PROVE  r \in [jobs : {q.jobs}, asked : {q.asked}, heavy : {q.heavy}, active : {q.active},
                handle : {q.handle}, connected : {q.connected}, writer : {q.writer},
                next : {q.next}]
<1>1. /\ q.asked \in [DOMAIN q.asked -> Journals] /\ id \in DOMAIN q.asked
      /\ q.asked[id] = Journal(q.jobs[id])
  BY AskedOf DEF Typed, Runtimes
<1>2. With(q.asked, id, Journal(q.jobs[id])) = q.asked
  BY <1>1 DEF With
<1>3. r = [q EXCEPT !.asked = q.asked]
  BY <1>2 DEF Saved
<1> QED  BY <1>3 DEF Typed, Runtimes

\* From records with the same jobs, the same follows.
LEMMA SameBase ==
  ASSUME NEW r, NEW f, NEW q, NEW X, NEW req, f.jobs = r.jobs, f.next = r.next,
         Grows(f, q, X, req), X \cap DOMAIN r.jobs = {}
  PROVE  Grows(r, q, {}, req)
BY DEF Grows, Keeps, Running

\* The performance run that begins, with a trace of its own.
Owner(r, req, input) == Begun(Created(r, "performance", req, input), "running", 0)
Owning(r, id) ==
  [TraceLoading(Created(r, "trace", None, "artifactOnly")) EXCEPT !.jobs[id].link = id + 1]

LEMMA OwningGood ==
  ASSUME NEW r, NEW id \in Running(r), Good(r, {id}), r.next = id + 1, r.active = 0,
         r.next # MaxJobs + 1, r.heavy = 0, r.jobs[id].kind = "performance"
  PROVE  LET q == Owning(r, id) IN
         /\ Good(q, {id}) /\ q.heavy = 0 /\ id \in Running(q)
         /\ q.jobs[id].kind = "performance" /\ q.jobs[id].link = id + 1
         /\ \A f, req : Typed(f) /\ Grows(f, r, {}, req) /\ id \notin DOMAIN f.jobs
                       => Grows(f, q, {}, req)
<1> DEFINE l == TraceLoading(Created(r, "trace", None, "artifactOnly"))
           q == [l EXCEPT !.jobs[id].link = id + 1]
           job == [l.jobs[id] EXCEPT !.link = id + 1]
<1>0. /\ Typed(r) /\ id \in DOMAIN r.jobs /\ r.next \in 1..MaxJobs /\ None \in Reqs
      /\ "artifactOnly" \in Inputs /\ r.jobs[id].status = "running"
  <2>1. Typed(r)
    BY DEF Good
  <2> QED  BY <2>1, TypedFields DEF Running, Reqs, Inputs
<1>1. /\ Good(l, {id}) /\ Grows(r, l, {}, None) /\ l.heavy = 0
      /\ DOMAIN l.jobs = DOMAIN r.jobs \cup {id + 1} /\ l.next = r.next + 1
      /\ l.jobs[id + 1].kind = "trace" /\ l.jobs[id + 1].input = "artifactOnly"
      /\ \A j \in DOMAIN r.jobs : l.jobs[j] = r.jobs[j]
  <2> HIDE DEF l
  <2>1. /\ Good(l, {id}) /\ Grows(r, l, {}, None) /\ l.heavy = r.heavy
        /\ DOMAIN l.jobs = DOMAIN r.jobs \cup {r.next} /\ l.next = r.next + 1
        /\ l.jobs[r.next].kind = "trace" /\ l.jobs[r.next].input = "artifactOnly"
        /\ \A j \in DOMAIN r.jobs : l.jobs[j] = r.jobs[j]
    BY <1>0, TraceLoadingGood, SMTT(20) DEF l
  <2> QED  BY <2>1
<1> HIDE DEF l
<1>2. /\ Typed(l) /\ id \in Running(l) /\ id \in DOMAIN l.jobs /\ l.jobs[id] \in Jobs
      /\ l.jobs[id].kind = "performance" /\ id + 1 \in 0..MaxJobs
  <2>1. Typed(l) /\ id \in DOMAIN l.jobs /\ l.jobs[id] = r.jobs[id]
    BY <1>0, <1>1 DEF Good
  <2> QED  BY <1>0, <2>1, TypedFields DEF Running
<1>3. /\ job \in Jobs /\ Journal(job) = Journal(l.jobs[id]) /\ job.link = id + 1
      /\ job.kind = "performance" /\ job.input = l.jobs[id].input
      /\ job.status = l.jobs[id].status /\ job.req = l.jobs[id].req
      /\ job.phase = l.jobs[id].phase
  BY <1>2 DEF Jobs, Journal
<1>4. q \in [jobs : {[l.jobs EXCEPT ![id] = job]}, asked : {l.asked}, heavy : {l.heavy},
             active : {l.active}, handle : {l.handle}, connected : {l.connected},
             writer : {l.writer}, next : {l.next}]
  BY <1>2 DEF Typed, Runtimes
<1> HIDE DEF q, job
<1>5. Put(l, q, id, job) /\ q.asked = l.asked
  <2>1. q \in [jobs : {[l.jobs EXCEPT ![id] = job]}, asked : {l.asked}, heavy : 0..MaxJobs,
               active : 0..MaxJobs, handle : BOOLEAN, connected : BOOLEAN,
               writer : 0..User, next : {l.next}]
    BY <1>2, <1>4, TypedFields
  <2> QED  BY <1>2, <1>3, <2>1, UnsavedPut
<1>6. Good(q, {id}) /\ Running(q) = Running(l)
  <2>1. /\ q.next = l.next /\ q.heavy = l.heavy /\ q.active = l.active
        /\ q.handle = l.handle /\ job.status = "running"
        /\ job.link \in DOMAIN l.jobs \ {id}
    BY <1>0, <1>1, <1>2, <1>3, <1>4, TypedFields DEF Running
  <2>2. l.jobs[job.link].kind = "trace" /\ l.jobs[job.link].input = "artifactOnly"
    BY <1>1, <1>3
  <2>3. Good(l, {id}) /\ id \in Running(l) /\ Put(l, q, id, job)
        /\ job.kind = l.jobs[id].kind /\ job.input = l.jobs[id].input
        /\ job.req = l.jobs[id].req /\ job.phase = l.jobs[id].phase
        /\ job.kind = "performance"
    BY <1>1, <1>2, <1>3, <1>5
  <2>4. \/ q.handle = l.handle /\ job.phase = l.jobs[id].phase
        \/ q.handle = FALSE /\ l.jobs[id].phase = "loading" /\ job.phase = "recording"
    BY <2>1, <2>3
  <2>5. \/ job.link = l.jobs[id].link
        \/ /\ job.kind = "performance" /\ job.link \in DOMAIN l.jobs \ {id}
           /\ l.jobs[job.link].kind = "trace" /\ l.jobs[job.link].input = "artifactOnly"
    BY <2>1, <2>2, <2>3
  <2> QED  BY <2>1, <2>3, <2>4, <2>5, AltersGood, Zenon
<1>7. ASSUME NEW f, NEW req, Typed(f), Grows(f, r, {}, req), id \notin DOMAIN f.jobs
      PROVE  Grows(f, q, {}, req)
  <2>1. Grows(f, l, {} \cup {}, req)
    BY <1>1, <1>7, GrowsTwice
  <2>2. DOMAIN q.jobs = DOMAIN l.jobs /\ \A j \in DOMAIN l.jobs : j # id => q.jobs[j] = l.jobs[j]
    BY <1>2, <1>5 DEF Put
  <2>3. q.jobs[id].kind = l.jobs[id].kind /\ q.jobs[id].req = l.jobs[id].req
    BY <1>2, <1>3, <1>5 DEF Put
  <2> QED  BY <1>4, <1>5, <1>7, <2>1, <2>2, <2>3 DEF Grows, Keeps, Put
<1>8. q.heavy = 0 /\ id \in Running(q) /\ q.jobs[id].kind = "performance" /\ q.jobs[id].link = id + 1
  BY <1>1, <1>2, <1>3, <1>4, <1>5, <1>6 DEF Put
<1> QED  BY <1>6, <1>7, <1>8 DEF Owning, q, l

Measured(q, id) == Saved([q EXCEPT !.heavy = id], id)

LEMMA MeasuredGood ==
  ASSUME NEW r, NEW id \in Running(r), Good(r, {id}), r.heavy = 0,
         NEW f, NEW req, Typed(f), Grows(f, r, {}, req)
  PROVE  Good(Measured(r, id), {}) /\ Grows(f, Measured(r, id), {}, req)
<1> DEFINE c == [r EXCEPT !.heavy = id]
           q == Measured(r, id)
<1>1. Typed(r) /\ id \in DOMAIN r.jobs
  BY DEF Good, Running
<1>2. c \in [jobs : {r.jobs}, asked : {r.asked}, heavy : {id}, active : {r.active},
             handle : {r.handle}, connected : {r.connected}, writer : {r.writer},
             next : {r.next}]
  BY <1>1 DEF Typed, Runtimes
<1>3. q = Saved(c, id)
  BY DEF Measured
<1> HIDE DEF c, q
<1>4. Good(c, {}) /\ c.jobs = r.jobs /\ c.next = r.next
  BY <1>1, <1>2, LockGood
<1>5. q \in [jobs : {c.jobs}, asked : {c.asked}, heavy : {c.heavy}, active : {c.active},
             handle : {c.handle}, connected : {c.connected}, writer : {c.writer},
             next : {c.next}]
  BY <1>1, <1>3, <1>4, SavedSame DEF Good
<1>6. Good(q, {}) /\ q.jobs = r.jobs /\ q.next = r.next
  <2>1. q \in [jobs : {r.jobs}, asked : {r.asked}, heavy : {id}, active : {r.active},
               handle : {r.handle}, connected : {r.connected}, writer : {r.writer},
               next : {r.next}]
    BY <1>2, <1>5
  <2> QED  BY <1>1, <2>1, LockGood
<1>7. Grows(f, q, {}, req)
  <2>1. DOMAIN q.asked = DOMAIN r.asked
    BY <1>1, <1>6 DEF Good, Typed
  <2> QED  BY <1>6, <2>1 DEF Grows, Keeps, Good
<1> QED  BY <1>6, <1>7 DEF q

\* The outcomes of StartPerformanceRun.
RunStarts(r, req, input) ==
  LET id == r.next
      b == Owner(Freed(r), req, input)
      t == Created(b, "trace", None, "artifactOnly")
  IN IF input # "capture" THEN {Measured(b, id), Ended(b, id, "failed")}
     ELSE IF TraceBusy(b) THEN {Ended(b, id, "failed")}
     ELSE {Ended(TraceFailed(t), id, "failed"), Measured(Owning(b, id), id)}
          \cup RunEnded(Owning(b, id), id, "failed")

LEMMA RunStartsGood ==
  ASSUME NEW r, Good(r, {}), ~HeavyBusy(r), NEW req \in Reqs, NEW input \in Inputs,
         r.next # MaxJobs + 1, input = "capture" => r.next + 1 # MaxJobs + 1,
         NEW q \in RunStarts(r, req, input)
  PROVE  Good(q, {}) /\ Grows(r, q, {}, req)
<1> DEFINE f == Freed(r)
           id == r.next
           b == Owner(f, req, input)
           t == Created(b, "trace", None, "artifactOnly")
           o == Owning(b, id)
<1>1. Typed(r) /\ id \in Nat /\ id \notin DOMAIN r.jobs /\ HeavyInv(r, {})
  BY TypedFields DEF Good
<1>2. /\ Good(f, {}) /\ Typed(f) /\ f.jobs = r.jobs /\ f.next = id /\ f.heavy = 0
  <2>1. /\ Typed(f) /\ f.jobs = r.jobs /\ f.next = id /\ f.heavy = 0
    BY <1>1, FreedIs
  <2> QED  BY <1>1, <2>1, FreedGood DEF Good
<1> HIDE DEF f
<1>3. /\ Good(b, {id}) /\ Grows(f, b, {}, req) /\ b.heavy = 0 /\ id \in Running(b)
      /\ b.jobs[id].kind = "performance" /\ b.jobs[id].link = 0 /\ b.next = id + 1
  <2>1. "performance" \in {"process", "performance"}
    OBVIOUS
  <2>2. /\ Good(b, {f.next}) /\ Grows(f, b, {}, req) /\ b.heavy = f.heavy
        /\ f.next \in Running(b) /\ b.jobs[f.next].kind = "performance"
        /\ b.jobs[f.next].link = 0
        /\ Adds(f, b, Begins(New("performance", req, input), "running", 0))
    <3>1. Good(f, {}) /\ f.next # MaxJobs + 1
      BY <1>2
    <3> QED  BY <2>1, <3>1, BegunGood, Zenon DEF Owner
  <2> QED  BY <1>2, <2>2 DEF Adds
<1> HIDE DEF b
<1>4. /\ Typed(b) /\ id \in DOMAIN b.jobs /\ id \notin Recording(b) /\ 0 \notin Running(b)
  <2>1. Typed(b)
    BY <1>3 DEF Good
  <2> QED  BY <1>3, <2>1, TypedFields DEF Good, PhaseInv, Recording, Running
\* What holds of q with respect to f holds with respect to r, whatever of the new jobs ended.
<1>5. ASSUME NEW X, Grows(f, q, X, req), X \cap DOMAIN r.jobs = {}
      PROVE  Grows(r, q, {}, req)
  BY <1>2, <1>5, SameBase
<1>6. ASSUME q = Measured(b, id)
      PROVE  Good(q, {}) /\ Grows(f, q, {}, req)
  BY <1>2, <1>3, <1>6, MeasuredGood
<1>7. ASSUME q = Ended(b, id, "failed")
      PROVE  Good(q, {}) /\ Grows(f, q, {id}, req)
  <2>1. Good(q, {id} \ {id}) /\ Grows(b, q, {id}, None)
    BY <1>3, <1>4, <1>7, EndGood DEF Terminal
  <2>2. Grows(f, q, {} \cup {id}, req)
    BY <1>2, <1>3, <2>1, GrowsTwice
  <2>3. {id} \ {id} = {} /\ {} \cup {id} = {id}
    OBVIOUS
  <2> QED  BY <2>1, <2>2, <2>3
<1>8. CASE input # "capture" \/ TraceBusy(b)
  <2>1. q \in {Measured(b, id), Ended(b, id, "failed")}
    BY <1>8 DEF RunStarts, b, f
  <2> QED  BY <1>1, <1>5, <1>6, <1>7, <2>1
<1>9. CASE input = "capture" /\ ~TraceBusy(b)
  <2>1. b.active = 0 /\ b.next # MaxJobs + 1 /\ None \in Reqs /\ "artifactOnly" \in Inputs
    BY <1>3, <1>9 DEF TraceBusy, Reqs, Inputs
  <2>2. q \in {Ended(TraceFailed(t), id, "failed"), Measured(o, id)} \cup RunEnded(o, id, "failed")
    BY <1>9 DEF RunStarts, b, f
  <2>3. ASSUME q = Ended(TraceFailed(t), id, "failed")
        PROVE  Good(q, {}) /\ Grows(f, q, {id}, req)
    <3> DEFINE p == TraceFailed(t)
    <3>1. Good(p, {id}) /\ Grows(b, p, {}, None)
      BY <1>3, <2>1, TraceFailedGood, SMTT(20)
    <3> HIDE DEF p
    <3>2. id \in Running(p) /\ p.jobs[id].kind = "performance" /\ p.jobs[id].link = 0
      BY <1>3, <1>4, <3>1 DEF Grows, Keeps, Running
    <3>3. id \notin Recording(p) /\ 0 \notin Running(p)
      <4>1. Typed(p)
        BY <3>1 DEF Good
      <4> QED  BY <3>1, <3>2, <4>1, TypedFields DEF Good, PhaseInv, Recording, Running
    <3>4. Good(q, {id} \ {id}) /\ Grows(p, q, {id}, None)
      BY <2>3, <3>1, <3>2, <3>3, EndGood DEF Terminal, p
    <3>5. Grows(f, p, {} \cup {}, req)
      BY <1>2, <1>3, <3>1, GrowsTwice
    <3>6. {id} \ {id} = {} /\ {} \cup {} = {} /\ {} \cup {id} = {id}
      OBVIOUS
    <3>7. Grows(f, q, {} \cup {id}, req)
      BY <1>2, <3>4, <3>5, <3>6, GrowsTwice
    <3> QED  BY <3>4, <3>6, <3>7
  <2>4. /\ Good(o, {id}) /\ o.heavy = 0 /\ id \in Running(o)
        /\ o.jobs[id].kind = "performance" /\ o.jobs[id].link = id + 1
        /\ Grows(f, o, {}, req)
    <3>1. /\ Good(o, {id}) /\ o.heavy = 0 /\ id \in Running(o)
          /\ o.jobs[id].kind = "performance" /\ o.jobs[id].link = id + 1
          /\ \A g, rq : Typed(g) /\ Grows(g, b, {}, rq) /\ id \notin DOMAIN g.jobs
                        => Grows(g, o, {}, rq)
      <4>1. /\ Good(b, {id}) /\ id \in Running(b) /\ b.next = id + 1 /\ b.active = 0
            /\ b.next # MaxJobs + 1 /\ b.heavy = 0 /\ b.jobs[id].kind = "performance"
        BY <1>3, <2>1
      <4> HIDE DEF id
      <4> QED  BY <4>1, OwningGood, Zenon
    <3> HIDE DEF o
    <3> QED  BY <1>1, <1>2, <1>3, <3>1
  <2> HIDE DEF o
  <2>5. ASSUME q = Measured(o, id)
        PROVE  Good(q, {}) /\ Grows(f, q, {}, req)
    BY <1>2, <2>4, <2>5, MeasuredGood
  <2>6. ASSUME q \in RunEnded(o, id, "failed")
        PROVE  Good(q, {}) /\ Grows(f, q, {id, id + 1}, req)
    <3>1. PICK p \in StopTrace(o, o.jobs[id].link) : q = Ended(p, id, "failed")
      BY <2>6 DEF RunEnded
    <3>2. Good(q, {id} \ {id}) /\ Grows(o, q, {id + 1, id}, None)
      BY <2>4, <3>1, RunOverGood DEF Terminal
    <3>3. Grows(f, q, {} \cup {id + 1, id}, req)
      BY <1>2, <2>4, <3>2, GrowsTwice
    <3>4. {id} \ {id} = {} /\ {} \cup {id + 1, id} = {id, id + 1}
      OBVIOUS
    <3> QED  BY <3>2, <3>3, <3>4
  <2>7. {id, id + 1} \cap DOMAIN r.jobs = {}
    BY <1>1, TypedFields
  <2> QED  BY <1>1, <1>5, <2>2, <2>3, <2>5, <2>6, <2>7
<1> QED  BY <1>8, <1>9

---------------------------------------------------------------------------
(* The files.                                                              *)

\* A file that can be read is about the job, and has no other outcome.
Tells(file, job) ==
  file # Unreadable =>
    /\ file.kind = job.kind /\ file.req = job.req
    /\ file.status \in Terminal => file.status = job.status

\* Every file tells of its job, and no other can be read, but of refused requests.
Fits(d, r, refused) ==
  /\ d \in [JobIds -> Journals \cup {Unreadable}]
  /\ \A id \in DOMAIN r.jobs : Tells(d[id], r.jobs[id])
  /\ \A id \in JobIds \ DOMAIN r.jobs : id \in refused \/ d[id] = Unreadable

LEMMA NotReadable == \A file \in Journals : file # Unreadable
<1> SUFFICES ASSUME NEW file \in Journals PROVE file.status # Unreadable.status
  OBVIOUS
<1> QED  BY DEF Journals, Unreadable, Statuses, Terminal

LEMMA WrittenIs ==
  ASSUME NEW d, NEW ids, NEW asked, NEW twice, NEW e \in Written(d, ids, asked, twice)
  PROVE  /\ e = [id \in JobIds |-> e[id]]
         /\ \A id \in JobIds : IF id \notin ids THEN e[id] = d[id]
              ELSE \/ e[id] \in {asked[id], d[id], Unreadable}
                   \/ id \in twice /\ e[id] = [asked[id] EXCEPT !.status = "queued"]
<1> DEFINE Holds(id, how) ==
             CASE how = "whole" -> asked[id]
               [] how = "left" -> d[id]
               [] how = "torn" -> Unreadable
               [] how = "earlier" -> IF id \in twice THEN [asked[id] EXCEPT !.status = "queued"]
                                     ELSE d[id]
<1>1. PICK how \in [Fragile -> {"whole", "left", "torn", "earlier"}] :
        e = [id \in JobIds |->
               IF id \notin ids THEN d[id]
               ELSE IF id \in Fragile THEN Holds(id, how[id]) ELSE asked[id]]
  BY DEF Written
<1>2. ASSUME NEW id, NEW w \in {"whole", "left", "torn", "earlier"}
      PROVE  \/ Holds(id, w) \in {asked[id], d[id], Unreadable}
             \/ id \in twice /\ Holds(id, w) = [asked[id] EXCEPT !.status = "queued"]
  <2>1. CASE w = "whole"
    BY <2>1
  <2>2. CASE w = "left"
    BY <2>2
  <2>3. CASE w = "torn"
    BY <2>3
  <2>4. CASE w = "earlier"
    BY <2>4
  <2> QED  BY <1>2, <2>1, <2>2, <2>3, <2>4
<1> HIDE DEF Holds
<1> QED  BY <1>1, <1>2

\* Files that fit are written again, of jobs in the table and of refused requests.
LEMMA WrittenFits ==
  ASSUME NEW d, NEW q, NEW refused, NEW ids \in SUBSET DOMAIN q.asked, NEW twice, NEW e,
         Typed(q), Fits(d, q, refused), ids \subseteq DOMAIN q.jobs \cup refused,
         e \in Written(d, ids, q.asked, twice)
  PROVE  Fits(e, q, refused)
<1>1. /\ q.asked \in [DOMAIN q.asked -> Journals] /\ DOMAIN q.asked \subseteq JobIds
      /\ DOMAIN q.jobs \subseteq DOMAIN q.asked
      /\ \A id \in DOMAIN q.jobs : q.asked[id] = Journal(q.jobs[id])
  BY AskedOf DEF Typed, Runtimes
<1>2. /\ e = [id \in JobIds |-> e[id]]
      /\ \A id \in JobIds : IF id \notin ids THEN e[id] = d[id]
           ELSE \/ e[id] \in {q.asked[id], d[id], Unreadable}
                \/ e[id] = [q.asked[id] EXCEPT !.status = "queued"]
  BY WrittenIs
<1>3. ASSUME NEW id \in ids, e[id] = [q.asked[id] EXCEPT !.status = "queued"]
      PROVE  /\ e[id] \in Journals /\ e[id].kind = q.asked[id].kind
             /\ e[id].req = q.asked[id].req /\ e[id].status \notin Terminal
  <2>1. q.asked[id] \in Journals
    BY <1>1
  <2> QED  BY <1>3, <2>1 DEF Journals, Statuses, Terminal
<1>4. \A id \in JobIds : e[id] \in Journals \cup {Unreadable}
  BY <1>1, <1>2, <1>3 DEF Fits
<1>5. ASSUME NEW id \in DOMAIN q.jobs  PROVE Tells(e[id], q.jobs[id])
  <2>1. id \in JobIds /\ Tells(d[id], q.jobs[id])
    BY <1>1 DEF Fits
  <2>2. /\ q.asked[id].kind = q.jobs[id].kind /\ q.asked[id].req = q.jobs[id].req
        /\ q.asked[id].status = q.jobs[id].status
    BY <1>1, JournalTells
  <2>3. Tells(q.asked[id], q.jobs[id]) /\ Tells(Unreadable, q.jobs[id])
    BY <2>2 DEF Tells
  <2>4. CASE id \in ids /\ e[id] = [q.asked[id] EXCEPT !.status = "queued"]
    BY <1>3, <2>2, <2>4 DEF Tells
  <2> QED  BY <1>2, <2>1, <2>3, <2>4
<1>6. ASSUME NEW id \in JobIds \ DOMAIN q.jobs  PROVE id \in refused \/ e[id] = Unreadable
  BY <1>2 DEF Fits
<1> QED  BY <1>2, <1>4, <1>5, <1>6 DEF Fits

---------------------------------------------------------------------------
(* The Editor starts again.                                                *)

LEMMA LoadedGood ==
  ASSUME NEW r, r.asked \in Asked, DOMAIN r.asked = 1..(r.next - 1),
         r.next \in 1..(MaxJobs + 1),
         NEW d \in [JobIds -> Journals \cup {Unreadable}]
  PROVE  LET q == Loaded(r, d) IN
         /\ Good(q, {}) /\ DOMAIN q.jobs = DOMAIN r.asked \cap Readable(d)
         /\ DOMAIN q.asked = DOMAIN r.asked
         /\ \A id \in DOMAIN q.jobs :
              /\ q.jobs[id].kind = d[id].kind /\ q.jobs[id].req = d[id].req
              /\ q.jobs[id].status = LoadedStatus(d[id].status)
<1> DEFINE D == DOMAIN r.asked
           S == D \cap Readable(d)
           journals == [id \in D |->
                          IF id \in Readable(d) THEN [d[id] EXCEPT !.status = LoadedStatus(@)]
                          ELSE r.asked[id]]
           jobs == [id \in S |->
                      [kind |-> journals[id].kind, req |-> journals[id].req,
                       input |-> journals[id].input, status |-> journals[id].status,
                       phase |-> "complete", link |-> 0, late |-> FALSE]]
           q == Loaded(r, d)
<1>1. r.asked \in [D -> Journals] /\ D \subseteq JobIds
  BY AskedOf
<1>2. \A st \in Statuses : LoadedStatus(st) \in Terminal
  BY DEF LoadedStatus, Statuses, Terminal
<1>3. \A id \in S : id \in D /\ id \in Readable(d) /\ d[id] \in Journals
  BY DEF Readable
<1>4. S \subseteq D
  OBVIOUS
<1> HIDE DEF D, S
<1>5. ASSUME NEW id \in S
      PROVE  /\ journals[id] \in Journals /\ jobs[id] \in Jobs
             /\ jobs[id].kind = d[id].kind /\ jobs[id].req = d[id].req
             /\ jobs[id].status = LoadedStatus(d[id].status)
             /\ jobs[id].status \in Terminal /\ jobs[id].link = 0
             /\ journals[id] = Journal(jobs[id])
  <2>1. d[id] \in Journals /\ LoadedStatus(d[id].status) \in Terminal
    BY <1>2, <1>3, <1>5 DEF Journals
  <2>2. Terminal \subseteq Statuses /\ "complete" \in Phases /\ 0 \in 0..MaxJobs
    BY DEF Statuses, Phases
  <2>3. journals[id] = [d[id] EXCEPT !.status = LoadedStatus(@)]
    BY <1>3, <1>5
  <2>4. /\ journals[id] \in Journals
        /\ journals[id].kind = d[id].kind /\ journals[id].req = d[id].req
        /\ journals[id].status = LoadedStatus(d[id].status)
    BY <2>1, <2>2, <2>3 DEF Journals
  <2> HIDE DEF journals
  <2>5. jobs[id] \in Jobs
    BY <1>5, <2>2, <2>4 DEF Jobs, Journals
  <2>6. journals[id] = Journal(jobs[id])
    BY <1>5, <2>4 DEF Journal, Journals
  <2> QED  BY <1>5, <2>1, <2>4, <2>5, <2>6
<1>6. ASSUME NEW id \in D \ S  PROVE journals[id] \in Journals
  BY <1>1, <1>6 DEF S, D
<1>7. q = [jobs |-> jobs, asked |-> journals, heavy |-> 0, active |-> 0, handle |-> FALSE,
           connected |-> FALSE, writer |-> 0, next |-> r.next]
  BY DEF Loaded, D, S
<1>8. DOMAIN jobs = S /\ DOMAIN journals = D
  OBVIOUS
<1>9. jobs \in Tables /\ journals \in Asked
  <2>1. jobs \in [S -> Jobs] /\ journals \in [D -> Journals]
    BY <1>5, <1>6
  <2> HIDE DEF jobs, journals
  <2> QED  BY <1>1, <1>4, <2>1, TableIs, AskedIs
<1> HIDE DEF jobs, journals, q
<1>10. q \in Runtimes
  BY <1>7, <1>9 DEF Runtimes, User
<1>11. Typed(q)
  BY <1>4, <1>5, <1>7, <1>8, <1>10 DEF Typed, D
<1>12. Running(q) = {}
  BY <1>5, <1>7, <1>8 DEF Running, Terminal
<1>13. RunInv(q)
  BY <1>5, <1>7, <1>8 DEF RunInv
<1>14. HeavyInv(q, {}) /\ PhaseInv(q) /\ Recording(q) = {}
  BY <1>12 DEF HeavyInv, PhaseInv, Recording
<1>15. RecordingInv(q)
  BY <1>7, <1>14 DEF RecordingInv
<1> QED  BY <1>5, <1>7, <1>8, <1>11, <1>13, <1>14, <1>15 DEF Good, D, S, q

---------------------------------------------------------------------------
(* The invariant.                                                          *)

\* The tick, the processes and the histories are of jobs that were created.
HistoryInv ==
  /\ walk \in [left : SUBSET DOMAIN rt.asked, stops : SUBSET DOMAIN rt.asked]
  /\ procs \cup orphans \cup rejected \cup abandoned \subseteq DOMAIN rt.asked
  /\ restarts \in 0..MaxRestarts

JobsInv ==
  /\ Good(rt, {}) /\ HistoryInv /\ ProcessesBelongToJobs /\ OneJobPerRequest
  /\ Fits(disk, rt, rejected)

\* OutcomesStay of a step.
OutcomeStep ==
  \A id \in DOMAIN rt.jobs :
    LET ended == rt.jobs[id].status \in Terminal
        stays == id \in DOMAIN rt'.jobs
        same == stays /\ rt'.jobs[id].status = rt.jobs[id].status
    IN IF restarts' = restarts THEN stays /\ (ended => same)
       ELSE /\ ended /\ disk[id] = rt.asked[id] => same
            /\ stays => (ended /\ same) \/ rt'.jobs[id].status = "interrupted"

Kept == JobsInv' /\ OutcomeStep

\* A step saves what it changed, and maybe jobs of the table, or it changes no file.
Logs == disk' = disk \/ \E more \in SUBSET DOMAIN rt.jobs : Saves(more)

LEMMA SavedOnly == Saves({}) => Logs
<1>1. {} \in SUBSET DOMAIN rt.jobs
  OBVIOUS
<1> QED  BY <1>1 DEF Logs

\* The files still fit when a step has saved its jobs.
LEMMA LogsFit ==
  ASSUME JobsInv, NEW X, NEW req, Typed(rt'), Keeps(rt, rt', X, req), Logs,
         rejected \subseteq rejected',
         \A id \in DOMAIN rt'.asked \ DOMAIN rt.asked : id \in DOMAIN rt'.jobs \cup rejected'
  PROVE  Fits(disk', rt', rejected')
<1>1. /\ Typed(rt) /\ rt.next \in Nat /\ DOMAIN rt.asked = 1..(rt.next - 1)
      /\ DOMAIN rt.jobs \subseteq DOMAIN rt.asked /\ rejected \subseteq DOMAIN rt.asked
      /\ Fits(disk, rt, rejected)
  <2>1. Typed(rt) /\ rejected \subseteq DOMAIN rt.asked /\ Fits(disk, rt, rejected)
    BY DEF JobsInv, Good, HistoryInv
  <2>2. rt.next \in 1..(MaxJobs + 1)
    BY <2>1, TypedFields
  <2> QED  BY <2>1, <2>2 DEF Typed
<1>2. rt'.asked \in [DOMAIN rt'.asked -> Journals] /\ DOMAIN rt'.asked \subseteq JobIds
      /\ DOMAIN rt'.jobs \subseteq DOMAIN rt'.asked
  BY AskedOf DEF Typed, Runtimes
<1>3. ASSUME NEW id \in DOMAIN rt'.jobs  PROVE Tells(disk[id], rt'.jobs[id])
  <2>1. CASE id \in DOMAIN rt.jobs
    <3>1. /\ Tells(disk[id], rt.jobs[id])
          /\ rt'.jobs[id].kind = rt.jobs[id].kind /\ rt'.jobs[id].req = rt.jobs[id].req
          /\ rt'.jobs[id].status = rt.jobs[id].status \/ rt.jobs[id].status \notin Terminal
      BY <1>1, <2>1 DEF Fits, Keeps, Running, Terminal
    <3> QED  BY <3>1 DEF Tells
  <2>2. CASE id \notin DOMAIN rt.jobs
    <3>1. id >= rt.next /\ id \in JobIds /\ id \notin rejected
      BY <1>1, <1>2, <2>2 DEF Keeps
    <3> QED  BY <1>1, <2>2, <3>1 DEF Fits, Tells
  <2> QED  BY <2>1, <2>2
<1>4. Fits(disk, rt', rejected')
  <2>1. DOMAIN rt.jobs \subseteq DOMAIN rt'.jobs
    BY DEF Keeps
  <2> QED  BY <1>1, <1>3, <2>1 DEF Fits
<1>5. CASE disk' = disk
  BY <1>4, <1>5
<1>6. ASSUME NEW more \in SUBSET DOMAIN rt.jobs, Saves(more)
      PROVE  Fits(disk', rt', rejected')
  <2> DEFINE ids == Changed \cup more
             twice == {id \in DOMAIN rt'.asked :
                         id \notin DOMAIN rt.asked \/ rt'.asked[id].kind = "trace"}
  <2>1. disk' \in Written(disk, ids, rt'.asked, twice)
    BY <1>6 DEF Saves
  <2>2. DOMAIN rt.jobs \subseteq DOMAIN rt'.jobs
    BY DEF Keeps
  <2>3. ids \subseteq DOMAIN rt'.asked /\ ids \subseteq DOMAIN rt'.jobs \cup rejected'
    BY <1>2, <2>2 DEF Changed
  <2> HIDE DEF ids, twice
  <2> QED  BY <1>4, <2>1, <2>3, WrittenFits
<1> QED  BY <1>5, <1>6 DEF Logs

\* What every step but a restart has to show.
LEMMA StepKeeps ==
  ASSUME JobsInv, NEW X, NEW req, Good(rt', {}), Keeps(rt, rt', X, req), Logs,
         UNCHANGED <<restarts, orphans>>,
         req = None \/ \A id \in DOMAIN rt.jobs : rt.jobs[id].req # req,
         walk' \in [left : SUBSET DOMAIN rt'.asked, stops : SUBSET DOMAIN rt'.asked],
         rejected \subseteq rejected', rejected' \subseteq DOMAIN rt'.asked,
         \A id \in DOMAIN rt'.asked \ DOMAIN rt.asked : id \in DOMAIN rt'.jobs \cup rejected',
         abandoned' \subseteq DOMAIN rt'.asked,
         \A id \in procs' :
           \/ id \in procs /\ (id \in X \cap Running(rt) => rt.jobs[id].kind # "process")
           \/ id \in Running(rt') /\ rt'.jobs[id].kind = "process"
  PROVE  Kept
<1>1. /\ Typed(rt) /\ Typed(rt') /\ rt.next \in Nat /\ rt'.next \in Nat /\ rt.next <= rt'.next
      /\ DOMAIN rt.asked = 1..(rt.next - 1) /\ DOMAIN rt'.asked = 1..(rt'.next - 1)
      /\ DOMAIN rt.jobs \subseteq DOMAIN rt.asked /\ DOMAIN rt'.jobs \subseteq DOMAIN rt'.asked
  <2>1. Typed(rt) /\ Typed(rt')
    BY DEF JobsInv, Good
  <2>2. rt.next \in 1..(MaxJobs + 1) /\ rt'.next \in 1..(MaxJobs + 1)
    BY <2>1, TypedFields
  <2> QED  BY <2>1, <2>2 DEF Keeps, Typed
<1>2. DOMAIN rt.asked \subseteq DOMAIN rt'.asked
  BY <1>1
<1>3. HistoryInv'
  <2>1. procs' \subseteq DOMAIN rt'.asked
    BY <1>1, <1>2 DEF JobsInv, HistoryInv, Running
  <2> QED  BY <1>2, <2>1 DEF JobsInv, HistoryInv
<1>4. ProcessesBelongToJobs'
  <2> SUFFICES ASSUME NEW id \in procs' \ orphans'
               PROVE  id \in Running(rt') /\ rt'.jobs[id].kind = "process"
    BY DEF ProcessesBelongToJobs, IsRunning
  <2>1. CASE id \in procs /\ (id \in X \cap Running(rt) => rt.jobs[id].kind # "process")
    <3>1. id \in Running(rt) /\ rt.jobs[id].kind = "process"
      BY <2>1 DEF JobsInv, ProcessesBelongToJobs, IsRunning
    <3> QED  BY <2>1, <3>1 DEF Keeps, Running
  <2> QED  BY <2>1
<1>5. OneJobPerRequest'
  <2> SUFFICES ASSUME NEW i \in DOMAIN rt'.jobs \ rejected', NEW j \in DOMAIN rt'.jobs \ rejected',
                      rt'.jobs[i].req = rt'.jobs[j].req, rt'.jobs[i].req # None,
                      "traceAnalysis" \notin {rt'.jobs[i].kind, rt'.jobs[j].kind}
               PROVE  i = j
    BY DEF OneJobPerRequest
  <2>1. \A k \in {i, j} : \/ /\ k \in DOMAIN rt.jobs \ rejected
                             /\ rt.jobs[k].req = rt'.jobs[k].req
                             /\ rt.jobs[k].kind = rt'.jobs[k].kind
                          \/ k = rt.next /\ k \notin DOMAIN rt.jobs /\ rt'.jobs[k].req = req
    BY DEF Keeps
  <2>2. CASE i \in DOMAIN rt.jobs /\ j \in DOMAIN rt.jobs
    BY <2>1, <2>2 DEF JobsInv, OneJobPerRequest
  <2>3. CASE ~(i \in DOMAIN rt.jobs /\ j \in DOMAIN rt.jobs)
    BY <2>1, <2>3
  <2> QED  BY <2>2, <2>3
<1>6. OutcomeStep
  BY DEF OutcomeStep, Keeps, Running, Terminal
<1>7. Fits(disk, rt, rejected)'
  BY <1>1, LogsFit
<1> QED  BY <1>3, <1>4, <1>5, <1>6, <1>7 DEF Kept, JobsInv

\* An action whose jobs stay in the table, and that ends no process that runs on.
LEMMA GrowsKeeps ==
  ASSUME JobsInv, NEW X, NEW req, Good(rt', {}), Grows(rt, rt', X, req), Logs,
         UNCHANGED <<restarts, orphans, rejected>>,
         req = None \/ \A id \in DOMAIN rt.jobs : rt.jobs[id].req # req,
         walk' \in [left : SUBSET DOMAIN rt.asked, stops : SUBSET DOMAIN rt.asked],
         abandoned' \subseteq DOMAIN rt.asked,
         \A id \in procs' :
           \/ id \in procs /\ (id \in X \cap Running(rt) => rt.jobs[id].kind # "process")
           \/ id \in Running(rt') /\ rt'.jobs[id].kind = "process"
  PROVE  Kept
<1>1. /\ Typed(rt) /\ Typed(rt') /\ rt.next \in Nat /\ rt'.next \in Nat /\ rt.next <= rt'.next
      /\ DOMAIN rt.asked = 1..(rt.next - 1) /\ DOMAIN rt'.asked = 1..(rt'.next - 1)
      /\ DOMAIN rt.jobs \subseteq DOMAIN rt'.jobs
  <2>1. Typed(rt) /\ Typed(rt')
    BY DEF JobsInv, Good
  <2>2. rt.next \in 1..(MaxJobs + 1) /\ rt'.next \in 1..(MaxJobs + 1)
    BY <2>1, TypedFields
  <2> QED  BY <2>1, <2>2 DEF Grows, Keeps, Typed
<1>2. DOMAIN rt.asked \subseteq DOMAIN rt'.asked
  BY <1>1
<1>3. \A id \in DOMAIN rt'.asked \ DOMAIN rt.asked : id \in DOMAIN rt'.jobs \cup rejected'
  BY <1>1 DEF Grows
<1>4. rejected' \subseteq DOMAIN rt'.asked /\ abandoned' \subseteq DOMAIN rt'.asked
  BY <1>2 DEF JobsInv, HistoryInv
<1>5. walk' \in [left : SUBSET DOMAIN rt'.asked, stops : SUBSET DOMAIN rt'.asked]
  BY <1>2
<1> QED  BY <1>3, <1>4, <1>5, StepKeeps DEF Grows

---------------------------------------------------------------------------
(* Initial states, restarts, and what happens outside.                     *)

LEMMA InitHolds == Init => JobsInv
<1> SUFFICES ASSUME Init PROVE JobsInv
  OBVIOUS
<1>1. /\ rt = [jobs |-> << >>, asked |-> << >>, heavy |-> 0, active |-> 0, handle |-> FALSE,
               connected |-> FALSE, writer |-> 0, next |-> 1]
      /\ procs = {} /\ orphans = {} /\ rejected = {} /\ abandoned = {}
      /\ walk = [left |-> {}, stops |-> {}] /\ restarts = 0
      /\ disk = [id \in JobIds |-> Unreadable]
  BY DEF Init
<1>2. << >> \in Tables /\ << >> \in Asked
  <2>1. << >> \in [{} -> Jobs] /\ << >> \in [{} -> Journals]
    OBVIOUS
  <2> QED  BY <2>1, TableIs, AskedIs
<1>3. rt \in Runtimes
  BY <1>1, <1>2 DEF Runtimes, User
<1>4. DOMAIN rt.jobs = {} /\ DOMAIN rt.asked = {} /\ Running(rt) = {}
  BY <1>1 DEF Running
<1>5. Typed(rt)
  BY <1>1, <1>3, <1>4 DEF Typed
<1>6. Good(rt, {})
  BY <1>1, <1>4, <1>5 DEF Good, HeavyInv, RecordingInv, Recording, PhaseInv, RunInv
<1>7. HistoryInv /\ ProcessesBelongToJobs /\ OneJobPerRequest
  BY <1>1, <1>4 DEF HistoryInv, ProcessesBelongToJobs, OneJobPerRequest
<1>8. Fits(disk, rt, rejected)
  BY <1>1, <1>4 DEF Fits
<1> QED  BY <1>6, <1>7, <1>8 DEF JobsInv

\* The files d say what the Editor's files do, but that running jobs may be interrupted.
LEMMA RestartKeeps ==
  ASSUME JobsInv, NEW r, r.next = rt.next, r.asked \in Asked, DOMAIN r.asked = DOMAIN rt.asked,
         NEW d \in [JobIds -> Journals \cup {Unreadable}],
         \A id \in JobIds :
           \/ d[id] = disk[id]
           \/ d[id] = Unreadable /\ id \in Running(rt)
           \/ /\ id \in Running(rt) /\ d[id].status = "interrupted"
              /\ d[id].kind = rt.jobs[id].kind /\ d[id].req = rt.jobs[id].req,
         Restart(r, d),
         procs' \subseteq procs, orphans' \subseteq procs \cup orphans, procs' \subseteq orphans'
  PROVE  Kept
<1>1. /\ Typed(rt) /\ DOMAIN rt.asked = 1..(rt.next - 1) /\ rt.next \in 1..(MaxJobs + 1)
      /\ DOMAIN rt.jobs \subseteq DOMAIN rt.asked /\ DOMAIN rt.asked \subseteq JobIds
      /\ \A id \in DOMAIN rt.jobs : rt.asked[id] = Journal(rt.jobs[id])
      /\ rt.asked \in [DOMAIN rt.asked -> Journals]
  <2>1. Typed(rt)
    BY DEF JobsInv, Good
  <2>2. rt.next \in 1..(MaxJobs + 1)
    BY <2>1, TypedFields
  <2>3. rt.asked \in Asked
    BY <2>1 DEF Typed, Runtimes
  <2> QED  BY <2>1, <2>2, <2>3, AskedOf DEF Typed
<1>2. /\ rt' = Loaded(r, d) /\ restarts' = restarts + 1 /\ restarts < MaxRestarts
      /\ disk' \in Written(d, DOMAIN rt'.jobs, rt'.asked, {})
      /\ walk' = [left |-> {}, stops |-> {}] /\ UNCHANGED <<rejected, abandoned>>
  BY DEF Restart
<1>3. /\ Good(rt', {}) /\ DOMAIN rt'.jobs = DOMAIN rt.asked \cap Readable(d)
      /\ DOMAIN rt'.asked = DOMAIN rt.asked
      /\ \A id \in DOMAIN rt'.jobs :
           /\ rt'.jobs[id].kind = d[id].kind /\ rt'.jobs[id].req = d[id].req
           /\ rt'.jobs[id].status = LoadedStatus(d[id].status)
  BY <1>1, <1>2, LoadedGood
<1>4. ASSUME NEW id \in DOMAIN rt'.jobs, id \in DOMAIN rt.jobs
      PROVE  /\ rt'.jobs[id].kind = rt.jobs[id].kind /\ rt'.jobs[id].req = rt.jobs[id].req
             /\ \/ rt'.jobs[id].status = "interrupted"
                \/ /\ rt.jobs[id].status \in Terminal
                   /\ rt'.jobs[id].status = rt.jobs[id].status
  <2>1. id \in JobIds /\ d[id] # Unreadable
    BY <1>1, <1>3, <1>4 DEF Readable
  <2>2. CASE d[id] = disk[id]
    <3>1. Tells(d[id], rt.jobs[id])
      BY <1>4, <2>2 DEF JobsInv, Fits
    <3> QED  BY <1>3, <2>1, <3>1 DEF Tells, LoadedStatus
  <2>3. CASE /\ id \in Running(rt) /\ d[id].status = "interrupted"
             /\ d[id].kind = rt.jobs[id].kind /\ d[id].req = rt.jobs[id].req
    BY <1>3, <2>3 DEF LoadedStatus, Terminal
  <2> QED  BY <2>1, <2>2, <2>3
<1>5. ASSUME NEW id \in DOMAIN rt'.jobs \ rejected  PROVE id \in DOMAIN rt.jobs
  <2>1. id \in JobIds /\ d[id] # Unreadable
    BY <1>1, <1>3 DEF Readable
  <2> QED  BY <2>1 DEF JobsInv, Fits, Running
<1>6. HistoryInv' /\ ProcessesBelongToJobs'
  <2>1. restarts' \in 0..MaxRestarts
    BY <1>2 DEF JobsInv, HistoryInv
  <2> QED  BY <1>1, <1>2, <1>3, <2>1 DEF JobsInv, HistoryInv, ProcessesBelongToJobs
<1>7. OneJobPerRequest'
  BY <1>2, <1>4, <1>5 DEF JobsInv, OneJobPerRequest
<1>8. OutcomeStep
  <2> SUFFICES ASSUME NEW id \in DOMAIN rt.jobs
               PROVE  /\ rt.jobs[id].status \in Terminal /\ disk[id] = rt.asked[id] =>
                           id \in DOMAIN rt'.jobs /\ rt'.jobs[id].status = rt.jobs[id].status
                      /\ id \in DOMAIN rt'.jobs =>
                           \/ /\ rt.jobs[id].status \in Terminal
                              /\ rt'.jobs[id].status = rt.jobs[id].status
                           \/ rt'.jobs[id].status = "interrupted"
    <3>1. restarts' # restarts
      BY <1>2 DEF JobsInv, HistoryInv
    <3> QED  BY <3>1 DEF OutcomeStep
  <2>1. ASSUME rt.jobs[id].status \in Terminal, disk[id] = rt.asked[id]
        PROVE  id \in DOMAIN rt'.jobs /\ rt'.jobs[id].status = rt.jobs[id].status
    <3>1. /\ id \in JobIds /\ id \in DOMAIN rt.asked /\ rt.asked[id] \in Journals
          /\ rt.asked[id].status = rt.jobs[id].status
      BY <1>1, JournalTells
    <3>2. id \notin Running(rt)
      BY <2>1 DEF Running, Terminal
    <3>3. d[id] = rt.asked[id] /\ d[id] # Unreadable
      BY <2>1, <3>1, <3>2, NotReadable
    <3>4. id \in DOMAIN rt'.jobs
      BY <1>3, <3>1, <3>3 DEF Readable
    <3> QED  BY <1>3, <2>1, <3>1, <3>3, <3>4 DEF LoadedStatus
  <2> QED  BY <1>4, <2>1
<1>9. Fits(d, rt', rejected)
  <2>1. \A id \in DOMAIN rt'.jobs : Tells(d[id], rt'.jobs[id])
    BY <1>3 DEF Tells, LoadedStatus
  <2>2. ASSUME NEW id \in JobIds \ DOMAIN rt'.jobs
        PROVE  id \in rejected \/ d[id] = Unreadable
    <3>1. CASE id \in DOMAIN rt.asked
      BY <1>3, <2>2, <3>1 DEF Readable
    <3>2. CASE id \notin DOMAIN rt.asked
      BY <1>1, <2>2, <3>2 DEF JobsInv, Fits, Running
    <3> QED  BY <3>1, <3>2
  <2> QED  BY <2>1, <2>2 DEF Fits
<1>10. Fits(disk', rt', rejected')
  <2>1. Typed(rt') /\ rejected' = rejected /\ DOMAIN rt'.jobs \in SUBSET DOMAIN rt'.asked
    BY <1>2, <1>3 DEF Good, Typed
  <2> QED  BY <1>2, <1>9, <2>1, WrittenFits
<1> QED  BY <1>3, <1>6, <1>7, <1>8, <1>10 DEF Kept, JobsInv

LEMMA CrashStep == JobsInv /\ Crash => Kept
<1> SUFFICES ASSUME JobsInv, Crash PROVE Kept
  OBVIOUS
<1>1. Restart(rt, disk) /\ orphans' = procs /\ procs' = procs
  BY DEF Crash
<1>2. rt.asked \in Asked /\ disk \in [JobIds -> Journals \cup {Unreadable}]
  BY DEF JobsInv, Good, Typed, Runtimes, Fits
<1>3. \A id \in JobIds : disk[id] = disk[id]
  OBVIOUS
<1>4. procs' \subseteq procs /\ orphans' \subseteq procs \cup orphans /\ procs' \subseteq orphans'
  BY <1>1
<1>5. rt.next = rt.next /\ DOMAIN rt.asked = DOMAIN rt.asked
  OBVIOUS
<1> QED  BY <1>1, <1>2, <1>3, <1>4, <1>5, RestartKeeps, SMTT(20)

LEMMA ShutdownStep == JobsInv /\ Shutdown => Kept
<1> SUFFICES ASSUME JobsInv, Shutdown PROVE Kept
  OBVIOUS
<1> DEFINE r == Interrupted(rt)
<1>1. PICK d \in Written(disk, Running(rt), r.asked, {}) : Restart(r, d)
  BY DEF Shutdown
<1>2. procs' = procs \ Running(rt) /\ orphans' = orphans
  BY DEF Shutdown
<1>3. rt \in Runtimes /\ rt.asked \in Asked /\ Typed(rt)
  BY DEF JobsInv, Good, Typed, Runtimes
<1>4. rt.asked \in [DOMAIN rt.asked -> Journals] /\ DOMAIN rt.asked \subseteq JobIds
  BY <1>3, AskedOf
<1>5. /\ r.next = rt.next /\ DOMAIN r.asked = DOMAIN rt.asked
      /\ r.asked = [id \in DOMAIN rt.asked |->
           IF id \in Running(rt) THEN [rt.asked[id] EXCEPT !.status = "interrupted"]
                                 ELSE rt.asked[id]]
  BY <1>3 DEF Interrupted, Runtimes
<1> HIDE DEF r
<1>6. \A id \in DOMAIN rt.asked :
        /\ r.asked[id] \in Journals
        /\ r.asked[id].kind = rt.asked[id].kind /\ r.asked[id].req = rt.asked[id].req
        /\ id \in Running(rt) => r.asked[id].status = "interrupted"
  BY <1>4, <1>5 DEF Journals, Statuses, Terminal
<1>7. r.asked \in Asked
  <2>1. r.asked \in [DOMAIN rt.asked -> Journals]
    BY <1>5, <1>6
  <2> QED  BY <1>4, <2>1, AskedIs
<1>8. ASSUME NEW id \in Running(rt)
      PROVE  /\ id \in DOMAIN rt.asked
             /\ r.asked[id].kind = rt.jobs[id].kind /\ r.asked[id].req = rt.jobs[id].req
             /\ r.asked[id].status = "interrupted" /\ r.asked[id] \in Journals
  <2>1. id \in DOMAIN rt.asked /\ rt.asked[id] = Journal(rt.jobs[id])
    BY <1>3 DEF Typed, Running
  <2> QED  BY <1>6, <2>1, JournalTells
<1>9. /\ d = [id \in JobIds |-> d[id]]
      /\ \A id \in JobIds : IF id \notin Running(rt) THEN d[id] = disk[id]
           ELSE d[id] \in {r.asked[id], disk[id], Unreadable}
  <2> DEFINE twice == {}
  <2>1. d \in Written(disk, Running(rt), r.asked, twice) /\ \A id : id \notin twice
    BY <1>1
  <2> DEFINE ids == Running(rt)
             asked == r.asked
  <2>2. d \in Written(disk, ids, asked, twice)
    BY <2>1
  <2> HIDE DEF ids, asked, twice
  <2>3. /\ d = [id \in JobIds |-> d[id]]
        /\ \A id \in JobIds : IF id \notin ids THEN d[id] = disk[id]
             ELSE \/ d[id] \in {asked[id], disk[id], Unreadable}
                  \/ id \in twice /\ d[id] = [asked[id] EXCEPT !.status = "queued"]
    BY <2>2, WrittenIs
  <2> QED  BY <2>1, <2>3 DEF ids, asked
<1>10. d \in [JobIds -> Journals \cup {Unreadable}]
  BY <1>8, <1>9 DEF JobsInv, Fits
<1>11. \A id \in JobIds :
         \/ d[id] = disk[id]
         \/ d[id] = Unreadable /\ id \in Running(rt)
         \/ /\ id \in Running(rt) /\ d[id].status = "interrupted"
            /\ d[id].kind = rt.jobs[id].kind /\ d[id].req = rt.jobs[id].req
  BY <1>8, <1>9
<1>12. procs' \subseteq orphans'
  BY <1>2 DEF JobsInv, ProcessesBelongToJobs, IsRunning
<1> QED  BY <1>1, <1>2, <1>5, <1>7, <1>10, <1>11, <1>12, RestartKeeps

LEMMA ProcessExitsStep ==
  ASSUME JobsInv, NEW id \in JobIds, ProcessExits(id)
  PROVE  Kept
<1>1. /\ procs' = procs \ {id} /\ orphans' = orphans \ {id}
      /\ UNCHANGED <<rt, disk, walk, restarts, rejected, abandoned>>
  BY DEF ProcessExits
<1>2. Good(rt, {})' /\ HistoryInv' /\ OneJobPerRequest' /\ Fits(disk, rt, rejected)'
  BY <1>1 DEF JobsInv, HistoryInv, OneJobPerRequest
<1>3. ProcessesBelongToJobs'
  BY <1>1 DEF JobsInv, ProcessesBelongToJobs, IsRunning
<1> QED  BY <1>1, <1>2, <1>3 DEF Kept, JobsInv, OutcomeStep

LEMMA ScalarGood ==
  ASSUME NEW r, NEW X, Good(r, X),
         NEW q, q \in [jobs : {r.jobs}, asked : {r.asked}, heavy : {r.heavy},
                       active : {r.active}, handle : {r.handle}, connected : BOOLEAN,
                       writer : 0..User, next : {r.next}]
  PROVE  Good(q, X) /\ Grows(r, q, {}, None)
<1>1. Typed(r)
  BY DEF Good
<1>2. Typed(q) /\ q.jobs = r.jobs /\ q.asked = r.asked /\ q.next = r.next
  <2>1. q \in [jobs : {r.jobs}, asked : {r.asked}, heavy : 0..MaxJobs, active : 0..MaxJobs,
               handle : BOOLEAN, connected : BOOLEAN, writer : 0..User, next : {r.next}]
    BY <1>1, TypedFields
  <2> QED  BY <1>1, <2>1, OthersTyped
<1>3. Grows(r, q, {}, None)
  BY <1>1, <1>2, Same
<1> QED  BY <1>2, <1>3
         DEF Good, HeavyInv, RecordingInv, Recording, PhaseInv, RunInv, Running

LEMMA WalkOK ==
  JobsInv => walk \in [left : SUBSET DOMAIN rt.asked, stops : SUBSET DOMAIN rt.asked]
             /\ abandoned \subseteq DOMAIN rt.asked
BY DEF JobsInv, HistoryInv

LEMMA OutsideStep ==
  ASSUME JobsInv, HandleTraceConnected \/ UserTraces
  PROVE  Kept
<1>1. rt \in Runtimes /\ User \in 0..User /\ 0 \in 0..User
  BY DEF JobsInv, Good, Typed, User
<1>2. rt' \in [jobs : {rt.jobs}, asked : {rt.asked}, heavy : {rt.heavy}, active : {rt.active},
               handle : {rt.handle}, connected : BOOLEAN, writer : 0..User, next : {rt.next}]
  BY <1>1 DEF HandleTraceConnected, UserTraces, Runtimes
<1>3. Logs /\ UNCHANGED <<procs, walk, restarts, orphans, rejected, abandoned>>
  BY DEF HandleTraceConnected, UserTraces, Logs
<1>4. Good(rt', {}) /\ Grows(rt, rt', {}, None)
  BY <1>2, ScalarGood DEF JobsInv
<1> QED  BY <1>3, <1>4, WalkOK, GrowsKeeps

LEMMA DeadlineStep ==
  ASSUME JobsInv, NEW id \in JobIds, Deadline(id)
  PROVE  Kept
<1> DEFINE job == [rt.jobs[id] EXCEPT !.late = TRUE]
<1>1. /\ id \in Running(rt) /\ rt' = [rt EXCEPT !.jobs[id].late = TRUE]
      /\ Logs /\ UNCHANGED <<procs, walk, restarts, orphans, rejected, abandoned>>
  BY DEF Deadline, Logs
<1>2. /\ Typed(rt) /\ id \in DOMAIN rt.jobs /\ rt.jobs[id] \in Jobs
      /\ rt.jobs[id].status = "running"
  <2>1. Typed(rt) /\ id \in DOMAIN rt.jobs /\ rt.jobs[id].status = "running"
    BY <1>1 DEF JobsInv, Good, Running
  <2> QED  BY <2>1, TypedFields
<1>3. /\ job \in Jobs /\ Journal(job) = Journal(rt.jobs[id])
      /\ job.kind = rt.jobs[id].kind /\ job.input = rt.jobs[id].input
      /\ job.status = "running" /\ job.req = rt.jobs[id].req
      /\ job.phase = rt.jobs[id].phase /\ job.link = rt.jobs[id].link
  BY <1>2 DEF Jobs, Journal
<1>4. rt' \in [jobs : {[rt.jobs EXCEPT ![id] = job]}, asked : {rt.asked}, heavy : {rt.heavy},
               active : {rt.active}, handle : {rt.handle}, connected : {rt.connected},
               writer : {rt.writer}, next : {rt.next}]
  BY <1>1, <1>2 DEF Typed, Runtimes
<1> HIDE DEF job
<1>5. Put(rt, rt', id, job)
  <2>1. rt' \in [jobs : {[rt.jobs EXCEPT ![id] = job]}, asked : {rt.asked}, heavy : 0..MaxJobs,
                 active : 0..MaxJobs, handle : BOOLEAN, connected : BOOLEAN,
                 writer : 0..User, next : {rt.next}]
    BY <1>2, <1>4, TypedFields
  <2> QED  BY <1>2, <1>3, <2>1, UnsavedPut
<1>6. rt'.next = rt.next /\ rt'.heavy = rt.heavy /\ rt'.active = rt.active /\ rt'.handle = rt.handle
  BY <1>4
<1>7. Good(rt', {}) /\ Grows(rt, rt', {}, None)
  <2>1. Good(rt, {})
    BY DEF JobsInv
  <2>2. \/ rt'.handle = rt.handle /\ job.phase = rt.jobs[id].phase
        \/ rt'.handle = FALSE /\ rt.jobs[id].phase = "loading" /\ job.phase = "recording"
    BY <1>3, <1>6
  <2>3. \/ job.link = rt.jobs[id].link
        \/ /\ job.kind = "performance" /\ job.link \in DOMAIN rt.jobs \ {id}
           /\ rt.jobs[job.link].kind = "trace" /\ rt.jobs[job.link].input = "artifactOnly"
    BY <1>3
  <2> QED  BY <1>1, <1>3, <1>5, <1>6, <2>1, <2>2, <2>3, AltersGood, Zenon
<1>8. Logs /\ UNCHANGED <<procs, walk, restarts, orphans, rejected, abandoned>>
  BY <1>1
<1> HIDE DEF job
<1> QED  BY <1>7, <1>8, WalkOK, GrowsKeeps, SMTT(20)

---------------------------------------------------------------------------
(* Client requests.                                                        *)

LEMMA UnboundIs ==
  ASSUME NEW kind, NEW req, Bound(rt, kind, req) = {}
  PROVE  req = None \/ \A id \in DOMAIN rt.jobs : rt.jobs[id].req # req
BY DEF Bound

LEMMA FreedAll ==
  ASSUME NEW r, Good(r, {}), ~HeavyBusy(r)
  PROVE  /\ Good(Freed(r), {}) /\ Typed(Freed(r)) /\ Freed(r).jobs = r.jobs
         /\ Freed(r).next = r.next /\ Freed(r).heavy = 0
<1>1. Typed(r) /\ HeavyInv(r, {})
  BY DEF Good
<1>2. /\ Typed(Freed(r)) /\ Freed(r).jobs = r.jobs /\ Freed(r).next = r.next
      /\ Freed(r).heavy = 0
  BY <1>1, FreedIs
<1> QED  BY <1>1, <1>2, FreedGood DEF Good

\* A job that is created, and is over when the operation is.
LEMMA OverAdded ==
  ASSUME NEW r, Good(r, {}), r.next # MaxJobs + 1, NEW kind \in Kinds,
         NEW req \in Reqs, NEW input \in Inputs, NEW c, NEW job, NEW status \in Terminal,
         Adds(r, c, job), c.heavy = r.heavy, job \in Jobs, job.req = req, job.link = 0
  PROVE  LET q == Ended(c, r.next, status) IN Good(q, {}) /\ Grows(r, q, {}, req)
<1> DEFINE q == Ended(c, r.next, status)
           over == EndedJob(job, status)
<1>1. Typed(r)
  BY DEF Good
<1>2. Adds(r, q, over) /\ q.heavy = IF r.heavy = r.next THEN 0 ELSE r.heavy
  BY <1>1, EndedAdds
<1>3. over.status # "running" /\ over.link = 0 /\ over.req = req
  BY DEF EndedJob, Jobs, Terminal
<1> HIDE DEF q, over
<1>4. /\ over.kind = "performance" => over.link = 0
      /\ over.kind = "traceAnalysis" \/ over.req \in {None, req}
  BY <1>3
<1>5. Good(q, {}) /\ Grows(r, q, {}, req)
  BY <1>2, <1>3, <1>4, OverGood, Zenon
<1> QED  BY <1>5 DEF q

LEMMA StartProcessStep ==
  ASSUME JobsInv, NEW req \in Reqs, NEW input \in Inputs, StartProcessJob(req, input)
  PROVE  Kept
<1> DEFINE f == Freed(rt)
           r == Created(f, "process", req, input)
           b == Begun(r, "running", 0)
<1>1. /\ rt.next + 1 <= MaxJobs + 1 /\ Bound(rt, "process", req) = {} /\ ~HeavyBusy(rt)
      /\ Logs /\ UNCHANGED <<walk, restarts, orphans, rejected, abandoned>>
      /\ \/ rt' = Ended(r, rt.next, "failed") /\ UNCHANGED procs
         \/ rt' = [b EXCEPT !.heavy = rt.next] /\ procs' = procs \cup {rt.next}
  BY SavedOnly DEF StartProcessJob, MayCreate, Unused
<1>2. Good(rt, {}) /\ Typed(rt) /\ rt.next \in 1..(MaxJobs + 1)
  <2>1. Good(rt, {}) /\ Typed(rt)
    BY DEF JobsInv, Good
  <2> QED  BY <2>1, TypedFields
<1>3. Good(f, {}) /\ Typed(f) /\ f.jobs = rt.jobs /\ f.next = rt.next /\ f.heavy = 0
  BY <1>1, <1>2, FreedAll
<1>4. req = None \/ \A id \in DOMAIN rt.jobs : rt.jobs[id].req # req
  BY <1>1, UnboundIs
<1>5. f.next # MaxJobs + 1 /\ "process" \in Kinds
  BY <1>1, <1>2, <1>3 DEF Kinds, Started
<1> HIDE DEF f
<1>6. CASE rt' = Ended(r, rt.next, "failed") /\ UNCHANGED procs
  <2>1. /\ Adds(f, r, New("process", req, input)) /\ r.heavy = f.heavy
    BY <1>3, <1>5, CreatedAdds
  <2>2. /\ New("process", req, input) \in Jobs /\ New("process", req, input).req = req
        /\ New("process", req, input).link = 0
    BY <1>5 DEF New, Jobs, Statuses, Phases
  <2>3. "failed" \in Terminal
    BY DEF Terminal
  <2> HIDE DEF r
  <2>4. Good(rt', {}) /\ Grows(f, rt', {}, req)
    BY <1>3, <1>5, <1>6, <2>1, <2>2, <2>3, OverAdded
  <2>5. Grows(rt, rt', {}, req)
    BY <1>3, <2>4, SameBase
  <2>6. Logs /\ UNCHANGED <<procs, walk, restarts, orphans, rejected, abandoned>>
    BY <1>1, <1>6
  <2> QED  BY <1>4, <2>4, <2>5, <2>6, WalkOK, GrowsKeeps, SMTT(20)
<1>7. CASE rt' = [b EXCEPT !.heavy = rt.next] /\ procs' = procs \cup {rt.next}
  <2>1. "process" \in {"process", "performance"}
    OBVIOUS
  <2>2. /\ Good(b, {f.next}) /\ Grows(f, b, {}, req) /\ b.heavy = f.heavy
        /\ f.next \in Running(b) /\ b.jobs[f.next].kind = "process"
    <3>1. Good(f, {}) /\ f.next # MaxJobs + 1
      BY <1>3, <1>5
    <3> QED  BY <2>1, <3>1, BegunGood, Zenon
  <2> HIDE DEF b
  <2>3. Typed(b) /\ rt.next \in DOMAIN b.jobs
    BY <1>3, <2>2 DEF Good, Running
  <2>4. rt' \in [jobs : {b.jobs}, asked : {b.asked}, heavy : {rt.next}, active : {b.active},
                 handle : {b.handle}, connected : {b.connected}, writer : {b.writer},
                 next : {b.next}]
    BY <1>7, <2>3 DEF Typed, Runtimes
  <2>5. Good(rt', {}) /\ rt'.jobs = b.jobs /\ rt'.next = b.next
    BY <1>3, <2>2, <2>3, <2>4, LockGood
  <2>6. Grows(f, rt', {}, req)
    <3>1. DOMAIN rt'.asked = DOMAIN b.asked
      BY <2>3, <2>5 DEF Good, Typed
    <3> QED  BY <2>2, <2>5, <3>1 DEF Grows, Keeps, Good
  <2>7. Grows(rt, rt', {}, req)
    BY <1>3, <2>6, SameBase
  <2>8. rt.next \in Running(rt') /\ rt'.jobs[rt.next].kind = "process"
    BY <1>3, <2>2, <2>5 DEF Running
  <2>9. procs' = procs \cup {rt.next} /\ Logs /\ UNCHANGED <<walk, restarts, orphans, rejected, abandoned>>
    BY <1>1, <1>7
  <2> QED  BY <1>4, <2>5, <2>7, <2>8, <2>9, WalkOK, GrowsKeeps, SMTT(20)
<1> QED  BY <1>1, <1>6, <1>7

LEMMA CleanDdcStep ==
  ASSUME JobsInv, NEW req \in Reqs, NEW input \in Inputs, CleanDdc(req, input)
  PROVE  Kept
<1> DEFINE b == Begun(Created(rt, "ddc", req, input), "cleaning", 0)
           job == Begins(New("ddc", req, input), "cleaning", 0)
<1>1. PICK status \in {"succeeded", "failed"} : rt' = Ended(b, rt.next, status)
  BY DEF CleanDdc
<1>2. /\ rt.next + 1 <= MaxJobs + 1 /\ Bound(rt, "ddc", req) = {}
      /\ Logs /\ UNCHANGED <<procs, walk, restarts, orphans, rejected, abandoned>>
  BY SavedOnly DEF CleanDdc, MayCreate, Unused
<1>3. Good(rt, {}) /\ Typed(rt) /\ rt.next \in 1..(MaxJobs + 1)
  <2>1. Good(rt, {}) /\ Typed(rt)
    BY DEF JobsInv, Good
  <2> QED  BY <2>1, TypedFields
<1>4. /\ rt.next # MaxJobs + 1 /\ "ddc" \in Kinds /\ "cleaning" \in Phases
      /\ 0 \in 0..MaxJobs /\ status \in Terminal
  BY <1>2, <1>3 DEF Kinds, Started, Phases, Terminal
<1>5. Adds(rt, b, job) /\ b.heavy = rt.heavy
  BY <1>3, <1>4, StartedAdds
<1>6. job \in Jobs /\ job.req = req /\ job.link = 0
  BY <1>4 DEF Begins, New, Jobs, Statuses
<1> HIDE DEF b, job
<1>7. Good(rt', {}) /\ Grows(rt, rt', {}, req)
  BY <1>1, <1>3, <1>4, <1>5, <1>6, OverAdded
<1>8. req = None \/ \A id \in DOMAIN rt.jobs : rt.jobs[id].req # req
  BY <1>2, UnboundIs
<1> QED  BY <1>2, <1>7, <1>8, WalkOK, GrowsKeeps, SMTT(20)

LEMMA StartTraceStep ==
  ASSUME JobsInv, NEW req \in Reqs, NEW input \in Inputs, StartTrace(req, input)
  PROVE  Kept
<1> DEFINE r == Created(rt, "trace", req, input)
<1>1. /\ rt.next + 1 <= MaxJobs + 1 /\ Bound(rt, "trace", req) = {} /\ rt.active = 0
      /\ Logs /\ UNCHANGED <<procs, walk, restarts, orphans, abandoned>>
      /\ \/ rt' = TraceRejected(r) /\ rejected' = rejected \cup {rt.next}
         \/ rt' \in {TraceFailed(r), TraceLoading(r)} /\ UNCHANGED rejected
  BY SavedOnly DEF StartTrace, MayCreate, Unused, TraceBusy
<1>2. Good(rt, {}) /\ Typed(rt) /\ rt.next \in 1..(MaxJobs + 1)
  <2>1. Good(rt, {}) /\ Typed(rt)
    BY DEF JobsInv, Good
  <2> QED  BY <2>1, TypedFields
<1>3. rt.next # MaxJobs + 1
  BY <1>1, <1>2
<1>4. req = None \/ \A id \in DOMAIN rt.jobs : rt.jobs[id].req # req
  BY <1>1, UnboundIs
<1>5. CASE rt' = TraceRejected(r) /\ rejected' = rejected \cup {rt.next}
  <2>1. Good(rt', {}) /\ Keeps(rt, rt', {}, req) /\ rt'.next = rt.next + 1 /\ rt'.jobs = rt.jobs
    BY <1>2, <1>3, <1>5, TraceRejectedGood, SMTT(20)
  <2> HIDE DEF r
  <2>2. /\ DOMAIN rt'.asked = 1..(rt'.next - 1) /\ DOMAIN rt.asked = 1..(rt.next - 1)
    BY <1>2, <2>1 DEF Good, Typed
  <2>3. DOMAIN rt'.asked = DOMAIN rt.asked \cup {rt.next}
    BY <1>2, <2>1, <2>2
  <2>4. /\ walk \in [left : SUBSET DOMAIN rt'.asked, stops : SUBSET DOMAIN rt'.asked]
        /\ abandoned \subseteq DOMAIN rt'.asked
    BY <2>3, WalkOK
  <2>5. /\ rejected' \subseteq DOMAIN rt'.asked
        /\ \A id \in DOMAIN rt'.asked \ DOMAIN rt.asked : id \in DOMAIN rt'.jobs \cup rejected'
    BY <1>5, <2>1, <2>3 DEF JobsInv, HistoryInv
  <2>6. /\ Logs /\ UNCHANGED <<procs, walk, restarts, orphans, abandoned>>
        /\ rejected \subseteq rejected'
    BY <1>1, <1>5
  <2> QED  BY <1>4, <2>1, <2>4, <2>5, <2>6, StepKeeps, SMTT(20)
<1>6. CASE rt' \in {TraceFailed(r), TraceLoading(r)} /\ UNCHANGED rejected
  <2>1. Good(rt', {}) /\ Grows(rt, rt', {}, req)
    <3>1. CASE rt' = TraceFailed(r)
      BY <1>1, <1>2, <1>3, <3>1, TraceFailedGood, SMTT(20)
    <3>2. CASE rt' = TraceLoading(r)
      BY <1>1, <1>2, <1>3, <3>2, TraceLoadingGood, SMTT(20)
    <3> QED  BY <1>6, <3>1, <3>2
  <2>2. Logs /\ UNCHANGED <<procs, walk, restarts, orphans, rejected, abandoned>>
    BY <1>1, <1>6
  <2> QED  BY <1>4, <2>1, <2>2, WalkOK, GrowsKeeps, SMTT(20)
<1> QED  BY <1>1, <1>5, <1>6

LEMMA StartRunStep ==
  ASSUME JobsInv, NEW req \in Reqs, NEW input \in Inputs, StartPerformanceRun(req, input)
  PROVE  Kept
<1>1. /\ rt.next + (IF input = "capture" THEN 2 ELSE 1) <= MaxJobs + 1
      /\ Bound(rt, "performance", req) = {} /\ ~HeavyBusy(rt)
      /\ Logs /\ UNCHANGED <<procs, walk, restarts, orphans, rejected, abandoned>>
  BY SavedOnly DEF StartPerformanceRun, MayCreate, Unused
<1>2. rt' \in RunStarts(rt, req, input)
  BY DEF StartPerformanceRun, RunStarts, Owner, Owning, Measured
<1>3. Good(rt, {}) /\ Typed(rt) /\ rt.next \in 1..(MaxJobs + 1)
  <2>1. Good(rt, {}) /\ Typed(rt)
    BY DEF JobsInv, Good
  <2> QED  BY <2>1, TypedFields
<1>4. rt.next # MaxJobs + 1 /\ (input = "capture" => rt.next + 1 # MaxJobs + 1)
  BY <1>1, <1>3
<1>5. Good(rt', {}) /\ Grows(rt, rt', {}, req)
  BY <1>1, <1>2, <1>3, <1>4, RunStartsGood, Zenon
<1>6. req = None \/ \A id \in DOMAIN rt.jobs : rt.jobs[id].req # req
  BY <1>1, UnboundIs
<1> QED  BY <1>1, <1>5, <1>6, WalkOK, GrowsKeeps, SMTT(20)

LEMMA StopKeeps ==
  ASSUME JobsInv, NEW id, rt' \in StopTrace(rt, id),
         Logs, UNCHANGED <<procs, restarts, orphans, rejected, abandoned>>,
         walk' \in [left : SUBSET DOMAIN rt.asked, stops : SUBSET DOMAIN rt.asked]
  PROVE  Kept
<1>1. Good(rt', {}) /\ Grows(rt, rt', {id}, None)
  BY StopTraceGood DEF JobsInv
<1>2. CASE id \in Running(rt) => rt.jobs[id].kind = "trace"
  BY <1>1, <1>2, WalkOK, GrowsKeeps, SMTT(20)
<1>3. CASE id \in Running(rt) /\ rt.jobs[id].kind # "trace"
  <2>1. rt' = rt
    BY <1>3 DEF StopTrace
  <2>2. Grows(rt, rt', {}, None)
    BY <2>1, Same DEF JobsInv, Good
  <2> QED  BY <1>1, <2>2, WalkOK, GrowsKeeps, SMTT(20)
<1> QED  BY <1>2, <1>3

LEMMA ClientStopsStep ==
  ASSUME JobsInv, NEW id \in JobIds, ClientStopsTrace(id)
  PROVE  Kept
<1>1. rt' \in StopTrace(rt, id) /\ Logs /\ UNCHANGED <<procs, walk, restarts, orphans, rejected, abandoned>>
  BY SavedOnly DEF ClientStopsTrace, Unused
<1> QED  BY <1>1, WalkOK, StopKeeps

LEMMA AnalyzeStep ==
  ASSUME JobsInv, NEW id \in JobIds, NEW req \in Reqs, AnalyzeTrace(id, req)
  PROVE  Kept
<1>1. /\ rt' \in AnalysisStarted(rt, id, req) \cup AnalysisRefused(rt, id, req)
      /\ id \in DOMAIN rt.jobs
      /\ Logs /\ UNCHANGED <<procs, walk, restarts, orphans, rejected, abandoned>>
  BY SavedOnly DEF AnalyzeTrace, Unused
<1>2. Good(rt, {}) /\ id \in DOMAIN rt.asked
  BY <1>1 DEF JobsInv, Good, Typed
<1>3. Good(rt', {}) /\ Grows(rt, rt', {}, None)
  BY <1>1, <1>2, AnalysisGood, Zenon
<1> QED  BY <1>1, <1>3, WalkOK, GrowsKeeps, SMTT(20)

LEMMA CancelStep ==
  ASSUME JobsInv, NEW id \in JobIds, CancelJob(id)
  PROVE  Kept
<1> DEFINE c == [rt EXCEPT !.handle = FALSE, !.writer = 0, !.active = IF @ = id THEN 0 ELSE @]
<1>1. /\ id \in Running(rt) /\ procs' = procs \ {id}
      /\ Logs /\ UNCHANGED <<walk, restarts, orphans, rejected>>
      /\ abandoned' = IF rt.jobs[id].kind = "traceAnalysis"
                      THEN abandoned \cup {rt.jobs[id].link} ELSE abandoned
  BY SavedOnly DEF CancelJob, Unused
<1>2. Good(rt, {}) /\ Typed(rt) /\ PhaseInv(rt) /\ "cancelled" \in Terminal
  BY DEF JobsInv, Good, Terminal
<1>3. abandoned' \subseteq DOMAIN rt.asked
  BY <1>1, <1>2, WalkOK DEF PhaseInv
<1>4. CASE rt.jobs[id].kind = "trace"
  <2>1. rt' = Ended(c, id, "cancelled")
    BY <1>4 DEF CancelJob
  <2>2. c \in [jobs : {rt.jobs}, asked : {rt.asked}, heavy : {rt.heavy},
               active : {IF rt.active = id THEN 0 ELSE rt.active}, handle : {FALSE},
               connected : {rt.connected}, writer : {0}, next : {rt.next}]
    BY <1>2 DEF Typed, Runtimes
  <2> HIDE DEF c
  <2>3. Good(rt', {}) /\ Grows(rt, rt', {id}, None)
    BY <1>1, <1>2, <1>4, <2>1, <2>2, ClosedGood
  <2> QED  BY <1>1, <1>3, <2>3, WalkOK, GrowsKeeps, SMTT(20)
<1>5. CASE rt.jobs[id].kind = "performance"
  <2>1. PICK q \in StopTrace(rt, rt.jobs[id].link) : rt' = Ended(q, id, "cancelled")
    BY <1>5 DEF CancelJob, RunCancelled, RunEnded
  <2> DEFINE link == rt.jobs[id].link
  <2>2. /\ Good(rt', {} \ {id}) /\ Grows(rt, rt', {link, id}, None)
        /\ link \in Running(rt) => rt.jobs[link].kind = "trace"
    BY <1>1, <1>2, <1>5, <2>1, RunOverGood
  <2>3. {} \ {id} = {}
    OBVIOUS
  <2> HIDE DEF link
  <2>4. Good(rt', {})
    BY <2>2, <2>3
  <2> QED  BY <1>1, <1>3, <2>2, <2>4, WalkOK, GrowsKeeps, SMTT(20)
<1>6. CASE rt.jobs[id].kind \notin {"trace", "performance"}
  <2>1. rt' = Ended(rt, id, "cancelled")
    BY <1>6 DEF CancelJob
  <2>2. id \notin Recording(rt)
    <3>1. rt.jobs[id] \in Jobs
      BY <1>1, <1>2, TypedFields DEF Running
    <3> QED  BY <1>1, <1>2, <1>6, <3>1 DEF PhaseInv, Recording, Jobs, Kinds, Started
  <2>3. Good(rt', {} \ {id}) /\ Grows(rt, rt', {id}, None)
    BY <1>1, <1>2, <1>6, <2>1, <2>2, EndGood
  <2>4. {} \ {id} = {}
    OBVIOUS
  <2>5. Good(rt', {})
    BY <2>3, <2>4
  <2> QED  BY <1>1, <1>3, <2>3, <2>5, WalkOK, GrowsKeeps, SMTT(20)
<1> QED  BY <1>4, <1>5, <1>6

---------------------------------------------------------------------------
(* The tick.                                                               *)

Done == Logs /\ UNCHANGED <<restarts, orphans, rejected, abandoned>>

LEMMA PassedDone ==
  ASSUME NEW more \in SUBSET DOMAIN rt.jobs, Passed(more)
  PROVE  Done
BY DEF Passed, Done, Logs

LEMMA PassedIsDone == Passed({}) => Done
BY PassedDone

\* A part of the tick that ends the jobs of X; it ends no process that runs on.
LEMMA TickKeeps ==
  ASSUME JobsInv, NEW X, Good(rt', {}), Grows(rt, rt', X, None), Done,
         walk' \in [left : SUBSET DOMAIN rt.asked, stops : SUBSET DOMAIN rt.asked],
         procs' \subseteq procs,
         \A id \in procs' : /\ id \in X \cap Running(rt)
                            => \/ rt.jobs[id].kind # "process"
                               \/ id \in Running(rt') /\ rt'.jobs[id].kind = "process"
  PROVE  Kept
<1>1. Logs /\ UNCHANGED <<restarts, orphans, rejected, abandoned>>
  BY DEF Done
<1>2. abandoned' \subseteq DOMAIN rt.asked
  BY <1>1, WalkOK
<1> QED  BY <1>1, <1>2, GrowsKeeps, SMTT(20)

LEMMA VisitWalks ==
  ASSUME JobsInv, NEW id, Visit(id)
  PROVE  walk' \in [left : SUBSET DOMAIN rt.asked, stops : SUBSET DOMAIN rt.asked]
BY WalkOK DEF Visit

LEMMA RunsStill ==
  JobsInv => Good(rt, {}) /\ Typed(rt) /\ Grows(rt, rt, {}, None)
BY Same DEF JobsInv, Good

LEMMA TickBeginsStep == JobsInv /\ TickBegins => Kept
<1> SUFFICES ASSUME JobsInv, TickBegins PROVE Kept
  OBVIOUS
<1>1. Running(rt) \subseteq DOMAIN rt.asked
  BY RunsStill DEF Typed, Running
<1>2. /\ walk' \in [left : SUBSET DOMAIN rt.asked, stops : SUBSET DOMAIN rt.asked]
      /\ rt' = rt /\ procs' = procs /\ Done
  BY <1>1, WalkOK DEF TickBegins, Done, Logs
<1>3. Good(rt', {}) /\ Grows(rt, rt', {}, None)
  BY <1>2, RunsStill
<1> QED  BY <1>2, <1>3, TickKeeps

LEMMA TickEndedStep ==
  ASSUME JobsInv, NEW id \in JobIds, TickEnded(id)
  PROVE  Kept
<1>1. rt' = rt /\ procs' = procs /\ Done /\ Visit(id)
  BY PassedIsDone DEF TickEnded
<1>2. Good(rt', {}) /\ Grows(rt, rt', {}, None)
  BY <1>1, RunsStill
<1> QED  BY <1>1, <1>2, VisitWalks, TickKeeps

LEMMA TickProcessStep ==
  ASSUME JobsInv, NEW id \in JobIds, TickProcessJob(id)
  PROVE  Kept
<1>1. /\ Visit(id) /\ Done /\ id \in Running(rt) /\ rt.jobs[id].kind = "process"
      /\ \/ rt' = Ended(rt, id, "failed") /\ procs' = procs \ {id}
         \/ rt' = rt /\ procs' = procs
         \/ /\ rt' \in {Ended(rt, id, "succeeded"), Ended(rt, id, "failed")}
            /\ id \notin procs /\ procs' = procs
  <2>1. id \in DOMAIN rt.jobs /\ \E logged \in SUBSET {id} : Passed(logged)
    BY DEF TickProcessJob, IsRunning, Running
  <2>2. Done
    BY <2>1, PassedDone
  <2> QED  BY <2>2 DEF TickProcessJob, IsRunning, Terminated
<1>2. CASE rt' = rt /\ procs' = procs
  <2>1. Good(rt', {}) /\ Grows(rt, rt', {}, None)
    BY <1>2, RunsStill
  <2> QED  BY <1>1, <1>2, <2>1, VisitWalks, TickKeeps
<1>3. ASSUME NEW status \in Terminal, rt' = Ended(rt, id, status)
      PROVE  Good(rt', {}) /\ Grows(rt, rt', {id}, None)
  <2>1. id \notin Recording(rt)
    BY <1>1 DEF JobsInv, Good, PhaseInv, Recording
  <2>2. Good(rt', {} \ {id}) /\ Grows(rt, rt', {id}, None)
    BY <1>1, <1>3, <2>1, RunsStill, EndGood
  <2>3. {} \ {id} = {}
    OBVIOUS
  <2> QED  BY <2>2, <2>3
<1>4. CASE rt' \in {Ended(rt, id, "succeeded"), Ended(rt, id, "failed")} /\ id \notin procs'
  <2>1. Good(rt', {}) /\ Grows(rt, rt', {id}, None)
    BY <1>3, <1>4 DEF Terminal
  <2>2. procs' \subseteq procs
    BY <1>1
  <2> QED  BY <1>1, <1>4, <2>1, <2>2, VisitWalks, TickKeeps
<1> QED  BY <1>1, <1>2, <1>4

LEMMA TickRunStep ==
  ASSUME JobsInv, NEW id \in JobIds, TickPerformanceJob(id)
  PROVE  Kept
<1> DEFINE link == rt.jobs[id].link
<1>1. /\ Visit(id) /\ Done /\ id \in Running(rt) /\ rt.jobs[id].kind = "performance"
      /\ procs' = procs
      /\ rt' \in RunEnded(rt, id, "failed") \cup {rt} \cup RunFinished(rt, id)
  BY PassedIsDone DEF TickPerformanceJob, IsRunning
<1>2. CASE rt' = rt
  <2>1. Good(rt', {}) /\ Grows(rt, rt', {}, None)
    BY <1>2, RunsStill
  <2> QED  BY <1>1, <1>2, <2>1, VisitWalks, TickKeeps
<1>3. CASE rt' \in RunEnded(rt, id, "failed") \cup RunFinished(rt, id)
  <2>1. PICK q \in StopTrace(rt, link), status \in Terminal : rt' = Ended(q, id, status)
    BY <1>3 DEF RunEnded, RunFinished, Terminal
  <2>2. /\ Good(rt', {} \ {id}) /\ Grows(rt, rt', {link, id}, None)
        /\ link \in Running(rt) => rt.jobs[link].kind = "trace"
    BY <1>1, <2>1, RunsStill, RunOverGood
  <2>3. {} \ {id} = {}
    OBVIOUS
  <2> HIDE DEF link
  <2>4. Good(rt', {})
    BY <2>2, <2>3
  <2>5. \A j \in {link, id} \cap Running(rt) : rt.jobs[j].kind # "process"
    BY <1>1, <2>2
  <2> QED  BY <1>1, <2>2, <2>4, <2>5, VisitWalks, TickKeeps
<1> QED  BY <1>1, <1>2, <1>3

LEMMA TickAnalysisStep ==
  ASSUME JobsInv, NEW id \in JobIds, TickTraceAnalysisJob(id)
  PROVE  Kept
<1> DEFINE link == rt.jobs[id].link
<1>1. /\ Visit(id) /\ Done /\ id \in Running(rt) /\ rt.jobs[id].kind = "traceAnalysis"
      /\ procs' = procs
      /\ \/ rt' = rt
         \/ \E status \in {"succeeded", "failed"} :
              rt' = ParentCompleted(Ended(rt, id, status), link)
  BY PassedIsDone DEF TickTraceAnalysisJob, IsRunning
<1>2. CASE rt' = rt
  <2>1. Good(rt', {}) /\ Grows(rt, rt', {}, None)
    BY <1>2, RunsStill
  <2> QED  BY <1>1, <1>2, <2>1, VisitWalks, TickKeeps
<1>3. ASSUME NEW status \in {"succeeded", "failed"},
             rt' = ParentCompleted(Ended(rt, id, status), link)
      PROVE  Kept
  <2> DEFINE q == Ended(rt, id, status)
  <2>1. id \notin Recording(rt)
    BY <1>1 DEF JobsInv, Good, PhaseInv, Recording
  <2>2. status \in Terminal /\ {} \ {id} = {}
    BY DEF Terminal
  <2>3. Good(q, {}) /\ Grows(rt, q, {id}, None) /\ Running(q) = Running(rt) \ {id}
    <3>1. Good(q, {} \ {id}) /\ Grows(rt, q, {id}, None) /\ Running(q) = Running(rt) \ {id}
      BY <1>1, <2>1, <2>2, RunsStill, EndGood
    <3> QED  BY <2>2, <3>1
  <2>4. rt' = ParentCompleted(q, link)
    BY <1>3
  <2> HIDE DEF q, link
  <2>5. /\ Good(rt', {}) /\ Grows(q, rt', {link}, None)
        /\ \A j \in Running(q) : q.jobs[j].kind = "process" => j \in Running(rt')
    BY <2>3, <2>4, ParentGood
  <2>6. Grows(rt, rt', {id} \cup {link}, None)
    BY <2>3, <2>5, RunsStill, GrowsTwice
  <2>7. ASSUME NEW j \in Running(rt), rt.jobs[j].kind = "process"
        PROVE  j \in Running(rt') /\ rt'.jobs[j].kind = "process"
    <3>1. j \in Running(q) /\ q.jobs[j].kind = "process"
      BY <1>1, <2>3, <2>7 DEF Grows, Keeps, Running
    <3> QED  BY <2>5, <3>1 DEF Grows, Keeps, Running
  <2> QED  BY <1>1, <2>5, <2>6, <2>7, VisitWalks, TickKeeps
<1> QED  BY <1>1, <1>2, <1>3

LEMMA ActivatedGood ==
  ASSUME NEW r, Good(r, {}), NEW id \in Running(r)
  PROVE  Good(Activated(r, id), {}) /\ Grows(r, Activated(r, id), {}, None)
<1> DEFINE q == [r EXCEPT !.handle = FALSE, !.jobs[id].phase = "recording",
                          !.jobs[id].late = FALSE]
           job == [r.jobs[id] EXCEPT !.phase = "recording", !.late = FALSE]
<1>1. /\ Typed(r) /\ id \in DOMAIN r.jobs /\ r.jobs[id] \in Jobs
      /\ r.jobs[id].status = "running"
  <2>1. Typed(r) /\ id \in DOMAIN r.jobs /\ r.jobs[id].status = "running"
    BY DEF Good, Running
  <2> QED  BY <2>1, TypedFields
<1>2. CASE ~(r.jobs[id].phase = "loading" /\ r.connected)
  <2>1. Activated(r, id) = r
    BY <1>2 DEF Activated
  <2> QED  BY <1>1, <2>1, Same
<1>3. CASE r.jobs[id].phase = "loading" /\ r.connected
  <2>1. Activated(r, id) = Saved(q, id)
    BY <1>3 DEF Activated
  <2>2. /\ job \in Jobs /\ Journal(job) = Journal(r.jobs[id])
        /\ job.kind = r.jobs[id].kind /\ job.input = r.jobs[id].input
        /\ job.status = "running" /\ job.req = r.jobs[id].req
        /\ job.phase = "recording" /\ job.link = r.jobs[id].link
    BY <1>1 DEF Jobs, Journal, Phases
  <2>3. q \in [jobs : {[r.jobs EXCEPT ![id] = job]}, asked : {r.asked}, heavy : {r.heavy},
               active : {r.active}, handle : {FALSE}, connected : {r.connected},
               writer : {r.writer}, next : {r.next}]
    BY <1>1 DEF Typed, Runtimes
  <2> HIDE DEF q, job
  <2>4. Put(r, q, id, job)
    <3>1. q \in [jobs : {[r.jobs EXCEPT ![id] = job]}, asked : {r.asked}, heavy : 0..MaxJobs,
                 active : 0..MaxJobs, handle : BOOLEAN, connected : BOOLEAN,
                 writer : 0..User, next : {r.next}]
      BY <1>1, <2>3, TypedFields
    <3> QED  BY <1>1, <2>2, <3>1, UnsavedPut
  <2>5. /\ q.next = r.next /\ q.heavy = r.heavy /\ q.active = r.active /\ q.handle = FALSE
    BY <2>3
  <2>6. Good(q, {}) /\ Grows(r, q, {}, None)
    <3>1. \/ q.handle = r.handle /\ job.phase = r.jobs[id].phase
          \/ q.handle = FALSE /\ r.jobs[id].phase = "loading" /\ job.phase = "recording"
      BY <1>3, <2>2, <2>5
    <3>2. \/ job.link = r.jobs[id].link
          \/ /\ job.kind = "performance" /\ job.link \in DOMAIN r.jobs \ {id}
             /\ r.jobs[job.link].kind = "trace" /\ r.jobs[job.link].input = "artifactOnly"
      BY <2>2
    <3> QED  BY <2>2, <2>4, <2>5, <3>1, <3>2, AltersGood, Zenon
  <2> DEFINE p == Saved(q, id)
  <2>7. Typed(q) /\ id \in DOMAIN q.jobs
    BY <1>1, <2>4 DEF Put
  <2>8. p \in [jobs : {q.jobs}, asked : {q.asked}, heavy : {q.heavy}, active : {q.active},
               handle : {q.handle}, connected : {q.connected}, writer : {q.writer},
               next : {q.next}]
    BY <2>7, SavedSame
  <2> HIDE DEF p
  <2>9. Good(p, {}) /\ Grows(q, p, {}, None)
    <3>1. p \in [jobs : {q.jobs}, asked : {q.asked}, heavy : {q.heavy},
                 active : {q.active}, handle : {q.handle}, connected : BOOLEAN,
                 writer : 0..User, next : {q.next}]
      BY <2>7, <2>8, TypedFields
    <3> QED  BY <2>6, <3>1, ScalarGood
  <2>10. Grows(r, p, {} \cup {}, None)
    BY <1>1, <2>6, <2>9, GrowsTwice
  <2>11. Grows(r, p, {}, None)
    BY <2>10
  <2> QED  BY <2>1, <2>9, <2>11 DEF p
<1> QED  BY <1>2, <1>3

LEMMA TickTraceStep ==
  ASSUME JobsInv, NEW id \in JobIds, TickTrace(id)
  PROVE  Kept
<1>1. PICK stops \in SUBSET {id} : walk' = [left |-> walk.left \ {id}, stops |-> walk.stops \cup stops]
  BY DEF TickTrace
<1>2. /\ id \in walk.left /\ id \in Running(rt) /\ rt' = Activated(rt, id)
      /\ procs' = procs /\ Done
  BY PassedIsDone DEF TickTrace, IsRunning
<1>3. walk' \in [left : SUBSET DOMAIN rt.asked, stops : SUBSET DOMAIN rt.asked]
  BY <1>1, <1>2, WalkOK
<1>4. Good(rt', {}) /\ Grows(rt, rt', {}, None)
  BY <1>2, RunsStill, ActivatedGood
<1> QED  BY <1>2, <1>3, <1>4, TickKeeps

LEMMA TickStopsStep ==
  ASSUME JobsInv, NEW id \in JobIds, TickStopsTrace(id)
  PROVE  Kept
<1>1. /\ rt' \in StopTrace(rt, id) /\ walk' = [walk EXCEPT !.stops = @ \ {id}]
      /\ Logs /\ UNCHANGED <<procs, restarts, orphans, rejected, abandoned>>
  BY PassedIsDone DEF TickStopsTrace, Done
<1>2. walk' \in [left : SUBSET DOMAIN rt.asked, stops : SUBSET DOMAIN rt.asked]
  BY <1>1, WalkOK
<1> QED  BY <1>1, <1>2, StopKeeps

---------------------------------------------------------------------------
(* The theorems.                                                           *)

LEMMA StutterStep == JobsInv /\ UNCHANGED vars => Kept
<1> SUFFICES ASSUME JobsInv, UNCHANGED vars PROVE Kept
  OBVIOUS
<1>1. /\ rt' = rt /\ Logs /\ UNCHANGED <<procs, walk, restarts, orphans, rejected, abandoned>>
  BY DEF vars, Logs
<1>2. Good(rt', {}) /\ Grows(rt, rt', {}, None)
  BY <1>1, RunsStill
<1> QED  BY <1>1, <1>2, WalkOK, GrowsKeeps, SMTT(20)

LEMMA StartStep == JobsInv /\ Start => Kept
<1> SUFFICES ASSUME JobsInv, NEW u \in Uses,
                    \/ StartProcessJob(u[2], u[3]) \/ CleanDdc(u[2], u[3])
                    \/ StartTrace(u[2], u[3]) \/ StartPerformanceRun(u[2], u[3])
             PROVE  Kept
  BY DEF Start
<1>1. u[2] \in Reqs /\ u[3] \in Inputs
  BY DEF Reqs, JobsAssumption
<1> QED  BY <1>1, StartProcessStep, CleanDdcStep, StartTraceStep, StartRunStep

LEMMA TickStep == JobsInv /\ Tick => Kept
BY TickBeginsStep, TickEndedStep, TickProcessStep, TickRunStep, TickAnalysisStep,
   TickTraceStep, TickStopsStep DEF Tick

LEMMA NextStep == JobsInv /\ [Next]_vars => Kept
<1> SUFFICES ASSUME JobsInv, Next \/ UNCHANGED vars PROVE Kept
  OBVIOUS
<1>1. ASSUME NEW id \in JobIds,
             \/ ClientStopsTrace(id) \/ CancelJob(id) \/ ProcessExits(id) \/ Deadline(id)
             \/ \E req \in Reqs : AnalyzeTrace(id, req)
      PROVE  Kept
  BY <1>1, ClientStopsStep, CancelStep, ProcessExitsStep, DeadlineStep, AnalyzeStep
<1> QED  BY <1>1, StartStep, TickStep, OutsideStep, CrashStep, ShutdownStep, StutterStep
         DEF Next

\* The inductive invariant holds in every state.
THEOREM Invariance == Spec => []JobsInv
<1>1. JobsInv /\ [Next]_vars => JobsInv'
  BY NextStep DEF Kept
<1> QED  BY <1>1, InitHolds, PTL DEF Spec

\* The job table, the journals and the tick have their types, whichever writes fail, and
\* SaveJournal was called for every job.
THEOREM TypeCorrect == Spec => []TypeOK
<1>1. JobsInv => TypeOK
  <2> SUFFICES ASSUME JobsInv PROVE TypeOK
    OBVIOUS
  <2>1. Typed(rt)
    BY RunsStill
  <2>2. /\ DOMAIN rt.jobs \subseteq DOMAIN rt.asked /\ DOMAIN rt.asked = 1..(rt.next - 1)
    BY <2>1 DEF Typed
  <2>3. /\ walk.left \cup walk.stops \subseteq DOMAIN rt.asked
        /\ procs \cup orphans \cup rejected \cup abandoned \subseteq DOMAIN rt.asked
        /\ restarts \in 0..MaxRestarts /\ disk \in [JobIds -> Journals \cup {Unreadable}]
    BY DEF JobsInv, HistoryInv, Fits
  <2> QED  BY <2>1, <2>2, <2>3, TypedFields DEF TypeOK, Journals
<1> QED  BY <1>1, Invariance, PTL

\* At most one heavy job runs, whatever ends, is cancelled or restarts.
THEOREM OneHeavyJobRuns == Spec => []OneHeavyJob
<1>1. JobsInv => OneHeavyJob
  BY DEF JobsInv, Good, HeavyInv, OneHeavyJob
<1> QED  BY <1>1, Invariance, PTL

\* No child process survives its job, but those of an Editor that crashed.
THEOREM ProcessesHaveJobs == Spec => []ProcessesBelongToJobs
<1>1. JobsInv => ProcessesBelongToJobs
  BY DEF JobsInv
<1> QED  BY <1>1, Invariance, PTL

\* The trace being recorded is the active job's, and does not outlive the run that owns it.
THEOREM RecordingsAreOwned == Spec => []RecordingIsOwned
<1>1. JobsInv => RecordingIsOwned
  <2> SUFFICES ASSUME JobsInv PROVE RecordingIsOwned
    OBVIOUS
  <2>1. Recording(rt) = {rt.active} \ {0} /\ RecordingInv(rt) /\ RunInv(rt) /\ Typed(rt)
    BY DEF JobsInv, Good, RecordingInv
  <2>2. 0 \notin Running(rt)
    BY <2>1, TypedFields DEF Running
  <2>3. \A id \in DOMAIN rt.jobs :
          rt.jobs[id].kind = "performance" /\ rt.jobs[id].link \in Running(rt) => id \in Running(rt)
    BY <2>1, <2>2 DEF RunInv
  <2> QED  BY <2>1, <2>3 DEF RecordingIsOwned, Recording, RecordingInv
<1> QED  BY <1>1, Invariance, PTL

\* The outcome of a job is final while the Editor runs, and over a restart if its journal
\* could be written; a restart never turns an outcome into another, but may lose it or
\* the job.
THEOREM OutcomesAreFinal == Spec => OutcomesStay
<1>1. JobsInv /\ [Next]_vars =>
        [\A id \in DOMAIN rt.jobs :
           LET ended == rt.jobs[id].status \in Terminal
               stays == id \in DOMAIN rt'.jobs
               same == stays /\ rt'.jobs[id].status = rt.jobs[id].status
           IN IF restarts' = restarts THEN stays /\ (ended => same)
              ELSE /\ ended /\ disk[id] = rt.asked[id] => same
                   /\ stays => (ended /\ same) \/ rt'.jobs[id].status = "interrupted"]_vars
  BY NextStep DEF Kept, OutcomeStep
<1> QED  BY <1>1, Invariance, PTL DEF Spec, OutcomesStay

\* Of the jobs the Editor knows a requestId has started one, whatever the kinds and inputs
\* it is sent with, whichever journals could not be written, and over restarts.
THEOREM RequestsStartOneJob == Spec => []OneJobPerRequest
<1>1. JobsInv => OneJobPerRequest
  BY DEF JobsInv
<1> QED  BY <1>1, Invariance, PTL
=============================================================================
