---------------------------- MODULE WorkflowRun ----------------------------
(***************************************************************************)
(* FWorkflowRuntime: the run of an approved plan over a set of assets.  A   *)
(* run is admitted with a journal, takes its assets as they are for its     *)
(* baseline, and applies the steps of the plan to the assets in memory; at  *)
(* every boundary it serializes them to checkpoint files by way of the      *)
(* packages on disk, and writes its journal.  A step that fails rolls       *)
(* everything back; a run that an Editor left behind is resumed by          *)
(* replaying the plan, or rolled back, by the next one.                     *)
(*                                                                         *)
(* A handler runs on the Game Thread to its end unless the Editor crashes,  *)
(* so its actions are the steps between which a crash makes a difference;   *)
(* users change and save assets between handlers.  The content of an asset  *)
(* is the sequence of changes made to it.  The digests of packages and of   *)
(* memory tell any two contents apart; the structure hash, by which a       *)
(* rollback looks at memory, shows only some of the changes.                *)
(***************************************************************************)
EXTENDS Integers, FiniteSets, Sequences, SequencesExt

CONSTANTS
  AssetSet,        \* the assets of the plans, in their order
  Missing,         \* those that do not exist at first
  Requests,        \* requestIds
  Workflow,        \* their plans: the steps <<kind, asset>>, which are initializers,
                   \* operations and finalizers in this order
  Saving,          \* those of requests with saveOnSuccess
  Unseen,          \* the steps whose changes are not part of the structure of an asset
  Absent,          \* no asset
  MaxJournalScan,  \* journals that the search for a requestId looks at
  MaxRuns,         \* bound on the runs
  MaxCrashes,      \* bound on the crashes
  MaxEdits         \* bound on the edits of users

Assets == ToSet(AssetSet)
Kinds == {"init", "edit", "readBack", "compile"}

ASSUME WorkflowAssumption ==
  /\ AssetSet \in Seq(Assets) /\ Missing \subseteq Assets /\ Saving \subseteq Requests
  /\ Workflow \in [Requests -> Seq(Kinds \X Assets)]
  /\ {MaxJournalScan, MaxRuns, MaxCrashes, MaxEdits} \subseteq Nat /\ Unseen \subseteq Nat

\* No content of an asset is its absence.
ASSUME AbsentAssumption == Absent \notin Seq(Int)

VARIABLES
  inst,     \* ServerInstanceId, counted by the restarts
  mem,      \* the assets as the Editor has them
  dirty,    \* those with changes that are not saved
  pkg,      \* their packages on disk
  runs,     \* Runs
  journals, \* the journals on disk
  files,    \* <<run, checkpointId, asset>>: the checkpoint files
  at,       \* the handler: where it is, its run, its record, the assets left to treat
  edits     \* number of edits of users

vars == <<inst, mem, dirty, pkg, runs, journals, files, at, edits>>

RunIds == 1..MaxRuns
Partial == 0                   \* what a step that fails halfway leaves
Edit == -1                     \* the edit of a user
Detail == -2                   \* one that is not part of the structure of the asset
Changed(content, change) ==
  IF content = Absent THEN <<change>> ELSE Append(content, change)

\* CaptureAssetStructure: whether the asset exists, and the changes that have a place in
\* its structure, in no order of time.
Structure(content) ==
  LET changes == IF content = Absent THEN << >> ELSE content
  IN [exists |-> content # Absent,
      parts |-> [change \in ToSet(changes) \ (Unseen \cup {Detail}) |->
                   Cardinality({i \in DOMAIN changes : changes[i] = change})]]
SameStructure(one, other) == Structure(one) = Structure(other)

Terminal == {"completed", "failed", "blocked", "rolledBack"}
Idle == at.pc = "idle"

\* CheckpointIds: Snapshot is the file taken as the baseline, 0 is checkpoint-0, and
\* operation k has operation-(k-1)-prepared and operation-k.
Snapshot == -1
OperationsTo(plan, i) == Cardinality({j \in 1..i : plan[j][1] = "edit"})
CheckpointId(plan, i, prepared) == 2 * OperationsTo(plan, i) - (IF prepared THEN 1 ELSE 0)

\* LoadRun.
Known == DOMAIN runs \cup DOMAIN journals
LoadRun(r) == IF r \in DOMAIN runs THEN runs[r] ELSE journals[r]

\* FindRunByRequestId: the runs a requestId is bound to, as far as they are found.
\* Mutant: only the runs of this Editor are looked at.
BoundInMemory(req) == {r \in DOMAIN runs : runs[r].req = req}
Bound(req) ==
  {r \in DOMAIN runs : runs[r].req = req} \cup
  {r \in DOMAIN journals :
     /\ Cardinality({s \in DOMAIN journals : s <= r}) <= MaxJournalScan
     /\ journals[r].req = req}

With(f, key, value) == [k \in DOMAIN f \cup {key} |-> IF k = key THEN value ELSE f[k]]

\* SaveRun: the journal may not be published, or published without its manifest.
SaveRun(r, rec) ==
  {[ok |-> ok, journals |-> With(journals, r, rec)] : ok \in BOOLEAN}
  \cup {[ok |-> FALSE, journals |-> journals]}

Stopped == [pc |-> "idle", r |-> 0, rec |-> Absent, left |-> << >>, goal |-> "idle",
            scope |-> Absent, ok |-> TRUE, auto |-> FALSE]

Init ==
  /\ inst = 0 /\ edits = 0
  /\ mem = [a \in Assets |-> IF a \in Missing THEN Absent ELSE << >>]
  /\ pkg = mem /\ dirty = {}
  /\ runs = << >> /\ journals = << >> /\ files = << >>
  /\ at = Stopped

---------------------------------------------------------------------------
(* Users, and the crash of the Editor.                                     *)

UserEdits(a) ==
  /\ Idle /\ edits < MaxEdits
  /\ edits' = edits + 1
  /\ \E change \in {Edit, Detail} : mem' = [mem EXCEPT ![a] = Changed(@, change)]
  /\ dirty' = dirty \cup {a}
  /\ UNCHANGED <<inst, pkg, runs, journals, files, at>>

UserSaves(a) ==
  /\ Idle /\ a \in dirty
  /\ pkg' = [pkg EXCEPT ![a] = mem[a]] /\ dirty' = dirty \ {a}
  /\ UNCHANGED <<inst, mem, runs, journals, files, at, edits>>

Crash ==
  /\ inst < MaxCrashes
  /\ inst' = inst + 1
  /\ mem' = pkg /\ dirty' = {} /\ runs' = << >> /\ at' = Stopped
  /\ UNCHANGED <<pkg, journals, files, edits>>

---------------------------------------------------------------------------
(* ExecuteWorkflowV2: a run is admitted, and takes its baseline.            *)

\* The same request again is answered from the run it is bound to; a new one has a
\* plan that was prepared for the assets as they are.
Execute(req) ==
  LET r == Cardinality(Known) + 1
      rec == [req |-> req, inst |-> inst, status |-> "running", avail |-> FALSE,
              verified |-> FALSE, next |-> 1, cid |-> 0, save |-> req \in Saving,
              assets |-> << >>]
  IN
  /\ Idle /\ Bound(req) = {} /\ r \in RunIds
  /\ \E s \in SaveRun(r, rec) :
       /\ journals' = s.journals
       /\ IF s.ok
          THEN /\ runs' = With(runs, r, rec)
               /\ at' = [Stopped EXCEPT !.pc = "stage", !.r = r, !.rec = rec]
          ELSE UNCHANGED <<runs, at>>
  /\ UNCHANGED <<inst, mem, dirty, pkg, files, edits>>

\* FailAdmittedRun.
FailAdmittedRun(rec) ==
  \E s \in SaveRun(at.r, [rec EXCEPT !.status = "failed", !.verified = TRUE]) :
    /\ journals' = s.journals
    /\ runs' = With(runs, at.r, [rec EXCEPT !.status = "failed", !.verified = TRUE])
    /\ at' = Stopped

\* The baseline of an asset: its structure, its package, and what an undo goes back to.
Baseline(a) ==
  [before |-> mem[a], cur |-> mem[a], snapshot |-> pkg[a], pkgCur |-> pkg[a],
   undo |-> mem[a], ckpt |-> pkg[a], file |-> Snapshot, memo |-> FALSE]

\* An asset that exists needs its package, and has no changes that are not saved; that
\* it is what its package holds is not looked at.
Stage ==
  /\ at.pc = "stage"
  /\ LET rec == [at.rec EXCEPT !.assets = [a \in Assets |-> Baseline(a)], !.avail = TRUE] IN
     \/ FailAdmittedRun(at.rec)
     \/ /\ dirty = {} /\ \A a \in Assets : mem[a] = Absent <=> pkg[a] = Absent
        /\ \/ \E s \in SaveRun(at.r, rec) :
                /\ s.ok
                /\ journals' = s.journals /\ runs' = With(runs, at.r, rec)
                /\ at' = [at EXCEPT !.pc = "step", !.rec = rec]
           \/ FailAdmittedRun(rec)
  /\ UNCHANGED <<inst, mem, dirty, pkg, files, edits>>

---------------------------------------------------------------------------
(* ContinueWorkflowV2.                                                     *)

Plan == Workflow[at.rec.req]
Step == Plan[at.rec.next]
Steps == at.rec.next <= Len(Plan)

\* The handler goes to pc, and treats the assets left in order.
Goes(pc, rec, left) == [at EXCEPT !.pc = pc, !.rec = rec, !.left = left]
ToCapture(rec, scope, goal) ==
  [at EXCEPT !.pc = "capture", !.rec = rec, !.left = AssetSet, !.scope = scope, !.goal = goal]

\* RollbackV2 begins, with the undo of the transaction if it can be undone: nothing may
\* have been changed after it.  The undo leaves what it changes unsaved.
RollingBack(rec, r, auto) ==
  /\ at' = [at EXCEPT !.pc = "restore", !.r = r, !.rec = rec, !.left = Reverse(AssetSet),
                      !.ok = TRUE, !.auto = auto]
  /\ \/ UNCHANGED <<mem, dirty>>
     \/ /\ rec.inst = inst /\ (auto \/ \A a \in Assets : mem[a] = rec.assets[a].cur)
        /\ mem' = [a \in Assets |-> rec.assets[a].undo]
        /\ dirty' = dirty \cup {a \in Assets : mem[a] # mem'[a]}
FailRun ==
  RollingBack([at.rec EXCEPT !.status = "failed"], at.r, TRUE)

\* An operation is prepared by a checkpoint of its own.
Prepare ==
  /\ at.pc = "step" /\ Steps /\ Step[1] = "edit"
  /\ LET cid == CheckpointId(Plan, at.rec.next, TRUE)
     IN at' = ToCapture([at.rec EXCEPT !.cid = cid], Absent, "apply")
  /\ UNCHANGED <<inst, mem, dirty, pkg, runs, journals, files, edits>>

\* UpdateCheckpointHash of one asset.
Hashed(rec, a, content) ==
  [rec EXCEPT !.assets[a].cur = content,
              !.assets[a].pkgCur = IF pkg[a] = Absent THEN @ ELSE pkg[a]]

\* The step is applied, and there is a checkpoint; or it fails, perhaps halfway.  The
\* initializer of an asset that exists does nothing; finalizers change nothing.
Apply ==
  /\ \/ at.pc = "apply"
     \/ at.pc = "step" /\ Steps /\ Step[1] # "edit"
  /\ LET a == Step[2]
         acts == Step[1] = "edit" \/ (Step[1] = "init" /\ mem[a] = Absent)
         now == IF acts THEN Changed(mem[a], at.rec.next) ELSE mem[a]
         rec == [at.rec EXCEPT !.next = @ + 1,
                               !.cid = IF Step[1] = "edit"
                                       THEN CheckpointId(Plan, at.rec.next, FALSE) ELSE @]
         scope == CASE Step[1] \in {"init", "edit"} -> a
                    [] Step[1] = "readBack" -> Absent
                    [] Step[1] = "compile" -> "all"
     IN \/ /\ mem' = [mem EXCEPT ![a] = now]
           /\ dirty' = IF acts THEN dirty \cup {a} ELSE dirty
           /\ at' = ToCapture(Hashed(rec, a, now), scope, "step")
        \/ /\ FailRun
           /\ acts \/ Step[1] \in {"readBack", "compile"}
        \/ /\ acts
           /\ at' = [at EXCEPT !.pc = "fail"]
           /\ mem' = [mem EXCEPT ![a] = Changed(@, Partial)] /\ dirty' = dirty \cup {a}
  /\ UNCHANGED <<inst, pkg, runs, journals, files, edits>>

\* The handler of the step left something behind.
Fail ==
  /\ at.pc = "fail" /\ FailRun
  /\ UNCHANGED <<inst, pkg, runs, journals, files, edits>>

\* CaptureDurableCheckpoint, of the next asset.
Capturing(a) == at.pc = "capture" /\ at.left # << >> /\ a = Head(at.left)
Captured(a, ckpt, file, memo) ==
  at' = [at EXCEPT !.pc = "capture", !.left = Tail(@), !.rec.assets[a].ckpt = ckpt,
                   !.rec.assets[a].file = file, !.rec.assets[a].memo = memo]
FileIs(r, asset, a) ==
  IF asset.file = Snapshot THEN asset.ckpt = asset.snapshot
  ELSE asset.ckpt = files[<<r, asset.file, a>>]
Unchanged(a) ==
  LET asset == at.rec.assets[a] IN
  at.scope \notin {"all", a} /\ asset.memo /\ asset.ckpt # Absent /\ mem[a] = asset.ckpt

\* An absent asset has its absence for its checkpoint, an unchanged one the file it has,
\* if that is intact; otherwise its package is saved where it belongs.
Capture(a) ==
  /\ Capturing(a)
  /\ LET asset == at.rec.assets[a] IN
     \/ /\ mem[a] = Absent
        /\ Captured(a, Absent, asset.file, FALSE)
        /\ UNCHANGED <<mem, dirty, pkg>>
     \/ /\ Unchanged(a) /\ FileIs(at.r, asset, a)
        /\ Captured(a, asset.ckpt, asset.file, TRUE)
        /\ UNCHANGED <<mem, dirty, pkg>>
     \/ /\ mem[a] # Absent /\ ~Unchanged(a)
        /\ pkg' = [pkg EXCEPT ![a] = mem[a]]
        /\ at' = [at EXCEPT !.pc = "copy"]
        /\ UNCHANGED <<mem, dirty>>
     \/ FailRun /\ UNCHANGED pkg
  /\ UNCHANGED <<inst, runs, journals, files, edits>>

\* The package is copied to the checkpoint, and RestoreBaselineFile puts the baseline
\* back, whether that went well or not.
CopyAndRestore ==
  /\ at.pc = "copy"
  /\ LET a == Head(at.left)
         copied == With(files, <<at.r, at.rec.cid, a>>, mem[a])
         baseline == [pkg EXCEPT ![a] = at.rec.assets[a].snapshot]
     IN /\ files' = copied
        /\ \/ /\ pkg' = baseline
              /\ Captured(a, mem[a], at.rec.cid, TRUE)
              /\ UNCHANGED <<mem, dirty>>
           \/ pkg' \in {pkg, baseline} /\ FailRun
  /\ UNCHANGED <<inst, runs, journals, edits>>

\* SaveCheckpoint, with every asset captured.
SaveCheckpoint ==
  /\ at.pc = "capture" /\ at.left = << >>
  /\ \E s \in SaveRun(at.r, at.rec) :
       /\ journals' = s.journals
       /\ IF s.ok
          THEN /\ runs' = With(runs, at.r, at.rec)
               /\ at' = [Stopped EXCEPT !.pc = at.goal, !.r = at.r, !.rec = at.rec]
               /\ UNCHANGED <<mem, dirty>>
          ELSE FailRun /\ UNCHANGED runs
  /\ UNCHANGED <<inst, pkg, files, edits>>

\* The run is completed with its assets as they are, whether its journal says so or not.
Completed ==
  LET rec == [at.rec EXCEPT
                !.status = "completed", !.avail = TRUE,
                !.assets = [a \in Assets |-> [@[a] EXCEPT !.cur = mem[a]]]]
  IN /\ \E s \in SaveRun(at.r, rec) : journals' = s.journals
     /\ runs' = With(runs, at.r, rec) /\ at' = Stopped

\* After the last step: a change outside the assets fails the run; saveOnSuccess saves.
StepsEnd ==
  /\ at.pc = "step" /\ ~Steps
  /\ \/ FailRun /\ UNCHANGED <<runs, journals>>
     \/ ~at.rec.save /\ Completed /\ UNCHANGED <<mem, dirty>>
     \/ /\ at.rec.save /\ at' = Goes("save", at.rec, AssetSet)
        /\ UNCHANGED <<mem, dirty, runs, journals>>
  /\ UNCHANGED <<inst, pkg, files, edits>>

Save ==
  /\ at.pc = "save" /\ at.left # << >>
  /\ LET a == Head(at.left)
         rec == [at.rec EXCEPT !.assets[a].cur = mem[a], !.assets[a].pkgCur = mem[a]]
     IN \/ /\ mem[a] # Absent
           /\ pkg' = [pkg EXCEPT ![a] = mem[a]] /\ dirty' = dirty \ {a}
           /\ at' = Goes("save", rec, Tail(at.left))
           /\ UNCHANGED mem
        \/ FailRun /\ UNCHANGED pkg
  /\ UNCHANGED <<inst, runs, journals, files, edits>>

SaveEnds ==
  /\ at.pc = "save" /\ at.left = << >> /\ Completed
  /\ UNCHANGED <<inst, mem, dirty, pkg, files, edits>>

---------------------------------------------------------------------------
(* RollbackV2, and what the next Editor does with the runs it finds.       *)

\* Mutant: only the packages are compared.
CanRollbackByPackage(rec) ==
  /\ rec.assets # << >> /\ rec.status # "rolledBack" /\ rec.avail
  /\ \A a \in Assets : pkg[a] = rec.assets[a].pkgCur
\* The changes of users are not overwritten, as far as the structure shows them.
CanRollback(rec) ==
  /\ rec.assets # << >> /\ rec.status # "rolledBack" /\ rec.avail
  /\ \A a \in Assets :
       /\ rec.inst = inst \/ mem[a] = Absent \/ a \notin dirty
       /\ \/ SameStructure(mem[a], rec.assets[a].before)
          \/ SameStructure(mem[a], rec.assets[a].cur)
       /\ pkg[a] = rec.assets[a].pkgCur

RollbackRun(r) ==
  /\ Idle /\ r \in Known /\ CanRollback(LoadRun(r))
  /\ RollingBack(LoadRun(r), r, FALSE)
  /\ UNCHANGED <<inst, pkg, runs, journals, files, edits>>

\* An asset is left alone, and marked clean, if its structure and its package are what
\* they were; otherwise its package is put back and loaded again, or removed.  The package
\* may not be replaced, or not loaded; the asset whose package is not removed is found
\* there again.
\* Mutant: the package is not looked at.
KeptInMemory(a) ==
  /\ at.rec.assets[a].before # Absent
  /\ SameStructure(mem[a], at.rec.assets[a].before)
Kept(a) ==
  LET asset == at.rec.assets[a]
  IN asset.before # Absent /\ SameStructure(mem[a], asset.before) /\ pkg[a] = asset.snapshot
Treated(a, ok) ==
  at' = [at EXCEPT !.left = Tail(@), !.ok = @ /\ ok, !.rec.assets[a].cur = mem'[a],
                   !.rec.assets[a].pkgCur = pkg'[a]]
Restore(a) ==
  /\ at.pc = "restore" /\ at.left # << >> /\ a = Head(at.left)
  /\ LET before == at.rec.assets[a].before
         snapshot == at.rec.assets[a].snapshot
         restored == [pkg EXCEPT ![a] = snapshot]
     IN \/ /\ Kept(a)
           /\ dirty' = dirty \ {a} /\ UNCHANGED <<mem, pkg>>
           /\ Treated(a, TRUE)
        \/ /\ ~Kept(a)
           /\ mem' = [mem EXCEPT ![a] = snapshot] /\ pkg' = restored
           /\ dirty' = dirty \ {a}
           /\ Treated(a, SameStructure(snapshot, before))
        \/ /\ ~Kept(a) /\ before # Absent
           /\ pkg' \in {pkg, restored} /\ UNCHANGED <<mem, dirty>>
           /\ Treated(a, FALSE)
        \/ /\ before = Absent /\ pkg[a] # Absent
           /\ mem' = [mem EXCEPT ![a] = pkg[a]] /\ dirty' = dirty \ {a} /\ UNCHANGED pkg
           /\ Treated(a, FALSE)
  /\ UNCHANGED <<inst, runs, journals, files, edits>>

RolledBack ==
  [at.rec EXCEPT !.verified = at.ok, !.avail = FALSE,
                 !.status = IF ~at.ok THEN "blocked"
                            ELSE IF at.auto THEN "failed" ELSE "rolledBack"]
\* Mutant: a run whose journal is not written stays as it was.
RestoreEndsIfSaved ==
  /\ at.pc = "restore" /\ at.left = << >>
  /\ \E s \in SaveRun(at.r, RolledBack) :
       /\ journals' = s.journals
       /\ runs' = IF s.ok THEN With(runs, at.r, RolledBack) ELSE runs
  /\ at' = Stopped
  /\ UNCHANGED <<inst, mem, dirty, pkg, files, edits>>
RestoreEnds ==
  /\ at.pc = "restore" /\ at.left = << >>
  /\ \E s \in SaveRun(at.r, RolledBack) : journals' = s.journals
  /\ runs' = With(runs, at.r, RolledBack)
  /\ at' = Stopped
  /\ UNCHANGED <<inst, mem, dirty, pkg, files, edits>>

\* ResumeRunV2 of a run that another Editor left: the packages are the baseline, and the
\* checkpoint is intact.
CanResume(rec, r) ==
  /\ rec.assets # << >> /\ rec.status = "running" /\ rec.inst # inst
  /\ \A a \in Assets :
       LET asset == rec.assets[a] IN
       /\ mem[a] = Absent \/ a \notin dirty
       /\ pkg[a] = asset.snapshot
       /\ IF asset.ckpt = Absent THEN asset.before = Absent /\ mem[a] = Absent
                                 ELSE FileIs(r, asset, a)

\* The plan is replayed from the baseline, in a transaction of this Editor.
Reopened(rec) ==
  [rec EXCEPT !.inst = inst,
              !.assets = [a \in Assets |-> [@[a] EXCEPT !.undo = mem[a]]]]
\* Mutant: it goes on where the checkpoint was.
FromCheckpoint(rec) == Reopened(rec)
FromBaseline(rec) == [Reopened(rec) EXCEPT !.next = 1]
ResumeRun(r) ==
  /\ Idle /\ r \in Known /\ CanResume(LoadRun(r), r)
  /\ LET rec == FromBaseline(LoadRun(r)) IN
     /\ runs' = With(runs, r, rec)
     /\ at' = [Stopped EXCEPT !.pc = "step", !.r = r, !.rec = rec]
  /\ UNCHANGED <<inst, mem, dirty, pkg, journals, files, edits>>

\* A run that was left before it had a baseline is blocked when its status is asked for.
GetStatus(r) ==
  /\ Idle /\ r \in Known
  /\ LET rec == LoadRun(r)
         blocked == [rec EXCEPT !.status = "blocked", !.verified = FALSE]
     IN /\ rec.assets = << >> /\ rec.inst # inst /\ rec.status = "running"
        /\ \E s \in SaveRun(r, blocked) :
             /\ journals' = s.journals
             /\ runs' = IF s.ok THEN With(runs, r, blocked) ELSE runs
  /\ UNCHANGED <<inst, mem, dirty, pkg, files, at, edits>>

Next ==
  \/ \E a \in Assets : UserEdits(a) \/ UserSaves(a) \/ Capture(a) \/ Restore(a)
  \/ \E req \in Requests : Execute(req)
  \/ \E r \in RunIds : RollbackRun(r) \/ ResumeRun(r) \/ GetStatus(r)
  \/ Stage \/ Prepare \/ Apply \/ Fail \/ CopyAndRestore \/ SaveCheckpoint
  \/ StepsEnd \/ Save \/ SaveEnds \/ RestoreEnds \/ Crash
Spec == Init /\ [][Next]_vars

---------------------------------------------------------------------------
(* Properties.                                                             *)

Contents == Seq(Int) \cup {Absent}
\* The state has its types, and a run of this Editor that is not being worked on has
\* ended: no handler leaves a run it has saved to be taken for one in progress.
TypeOK ==
  /\ inst \in 0..MaxCrashes /\ edits \in 0..MaxEdits
  /\ mem \in [Assets -> Contents] /\ pkg \in [Assets -> Contents]
  /\ dirty \subseteq Assets
  /\ DOMAIN runs \cup DOMAIN journals \subseteq RunIds
  /\ at.left \in Seq(Assets)
  /\ \A r \in DOMAIN runs : r # at.r => runs[r].status \in Terminal

\* The steps of a plan that change an asset: the operations on it, and the initializer
\* that finds it absent.
ChangesOf(plan, a, before) ==
  {i \in DOMAIN plan :
     \/ plan[i] = <<"edit", a>>
     \/ /\ plan[i] = <<"init", a>> /\ before = Absent
        /\ \A j \in 1..(i - 1) : plan[j] \notin {<<"init", a>>, <<"edit", a>>}}

\* A content is what was there before and then each of some steps once, in their order.
Made(content, before, steps) ==
  LET base == IF before = Absent THEN << >> ELSE before
      new == (Len(base) + 1)..Len(content)
  IN IF steps = {} THEN content = before
     ELSE /\ content # Absent /\ Len(base) <= Len(content)
          /\ \A k \in 1..Len(base) : content[k] = base[k]
          /\ {content[k] : k \in new} = steps
          /\ \A k, l \in new : k < l => content[k] < content[l]

\* A run that becomes completed has made every change of its plan exactly once to what
\* the packages of its assets held before, and saved all of it or nothing, however often
\* it was interrupted and replayed: unless a rollback in this Editor has left an asset in
\* memory that is not what its package holds.
Becomes(r, status) ==
  /\ r \in DOMAIN runs' /\ runs'[r].status = status
  /\ (r \in DOMAIN runs => runs[r].status # status)
Estranged(rec) ==
  /\ rec.status \in {"failed", "blocked", "rolledBack"}
  /\ \E a \in DOMAIN rec.assets : rec.assets[a].cur # rec.assets[a].pkgCur
CompletedIsOnce ==
  [][\A r \in RunIds :
       Becomes(r, "completed") /\ (\A s \in DOMAIN runs : ~Estranged(runs[s])) =>
         \A a \in Assets :
           LET snapshot == runs'[r].assets[a].snapshot IN
           /\ Made(mem'[a], snapshot, ChangesOf(Workflow[runs'[r].req], a, snapshot))
           /\ pkg'[a] = IF runs'[r].save THEN mem'[a] ELSE snapshot]_vars

\* A run whose rollback is said to be verified has the packages of all its assets as they
\* were before it, and in memory their structure.
RollbackIsExact ==
  [][\A r \in DOMAIN runs' :
       runs'[r].verified /\ (r \in DOMAIN runs => ~runs[r].verified) =>
         \A a \in DOMAIN runs'[r].assets :
           /\ pkg'[a] = runs'[r].assets[a].snapshot
           /\ SameStructure(mem'[a], runs'[r].assets[a].before)]_vars

\* No run takes back an edit of a user that is part of the structure of the asset: not
\* from a package, and not from memory unless the Editor crashes.
EditsOf(content) ==
  IF content = Absent THEN 0 ELSE Cardinality({i \in DOMAIN content : content[i] = Edit})
OthersEditsStay ==
  [][\A a \in Assets :
       /\ EditsOf(pkg[a]) <= EditsOf(pkg'[a])
       /\ inst' = inst => EditsOf(mem[a]) <= EditsOf(mem'[a])]_vars

\* A requestId is bound to one run, in this Editor and the ones before it, as long as
\* there are no more journals than the search looks at.
OneRunPerRequest ==
  Cardinality(DOMAIN journals) <= MaxJournalScan =>
    \A r, s \in Known : LoadRun(r).req = LoadRun(s).req => r = s

\* A run that an Editor left behind, and whose assets nobody has edited since, can be
\* resumed or rolled back (UE_WORKFLOW_DSL.md:207-216).
InterruptedRunRecovers ==
  Idle /\ edits = 0 =>
    \A r \in DOMAIN journals :
      LET rec == LoadRun(r) IN
      rec.status = "running" /\ rec.inst # inst /\ rec.assets # << >> =>
        CanResume(rec, r) \/ CanRollback(rec)
=============================================================================
