------------------------- MODULE WorkflowRunProofs -------------------------
(***************************************************************************)
(* Theorems about WorkflowRun, for every plan, every set of assets and any  *)
(* number of runs, crashes and edits.                                       *)
(***************************************************************************)
EXTENDS WorkflowRun, FiniteSetTheorems, SequenceTheorems, TLAPS

USE WorkflowAssumption, AbsentAssumption

---------------------------------------------------------------------------
(* The types of what the handler carries, and where it can be.             *)

AssetRecord == [before : Contents, cur : Contents, snapshot : Contents, pkgCur : Contents,
                undo : Contents, ckpt : Contents, file : Int, memo : BOOLEAN]
RunRecord == [req : Requests, inst : 0..MaxCrashes, avail : BOOLEAN, verified : BOOLEAN,
              status : Terminal \cup {"running"}, next : Nat \ {0}, cid : Int,
              save : BOOLEAN, assets : {<< >>} \cup [Assets -> AssetRecord]]
Handler == [pc : {"idle", "stage", "step", "apply", "fail", "capture", "copy", "save",
                  "restore"},
            r : 0..MaxRuns, rec : RunRecord \cup {Absent}, left : Seq(Assets),
            goal : {"idle", "apply", "step"}, scope : Assets \cup {Absent, "all"},
            ok : BOOLEAN, auto : BOOLEAN]

Forward == {"stage", "step", "apply", "fail", "capture", "copy", "save"}
Staged == at.pc \notin {"idle", "stage"}
Before(a) == at.rec.assets[a].before
Source(a) == at.rec.assets[a].snapshot

\* What the record of an asset says of the baseline.
SameBaseline(one, other) ==
  one.before = other.before /\ one.snapshot = other.snapshot /\ one.undo = other.undo

\* What a handler has in hand: a run, and from its baseline on a record of each asset;
\* until it begins to roll back the run is running, and not past the end of its plan.
HandlerInv ==
  /\ at \in Handler
  /\ Idle => at.r = 0
  /\ ~Idle => at.r \in RunIds /\ at.rec \in RunRecord
  /\ at.pc = "stage" => at.rec.assets = << >>
  /\ Staged => at.rec.assets \in [Assets -> AssetRecord]
  /\ at.pc \in Forward => /\ at.rec.status = "running" /\ ~at.rec.verified
                          /\ at.rec.next <= Len(Plan) + 1
  /\ at.pc \in {"capture", "copy"} => at.goal \in {"apply", "step"}
  /\ at.pc = "copy" => at.left # << >>
  /\ (at.pc = "apply" \/ (at.pc \in {"capture", "copy"} /\ at.goal = "apply")) =>
        Steps /\ Step[1] = "edit"

\* What is true of every record: only a run that ended is verified, and a blocked
\* rollback is not tried again.
Sound(rec) ==
  /\ rec \in RunRecord
  /\ rec.status = "running" => ~rec.verified /\ rec.next <= Len(Workflow[rec.req]) + 1
  /\ rec.status = "blocked" /\ rec.assets # << >> => ~rec.avail
RecordsInv ==
  /\ \A r \in DOMAIN runs : Sound(runs[r])
  /\ \A r \in DOMAIN journals : Sound(journals[r])

TypeInv == TypeOK /\ HandlerInv /\ RecordsInv

---------------------------------------------------------------------------
(* What the operators of the model do.                                     *)

\* A key and its value are put into a function.
LEMMA WithPuts ==
  ASSUME NEW f, NEW key, NEW value
  PROVE  /\ DOMAIN With(f, key, value) = DOMAIN f \cup {key}
         /\ With(f, key, value)[key] = value
         /\ \A k \in DOMAIN f : k # key => With(f, key, value)[k] = f[k]
BY DEF With

\* A journal that is saved is the new one; one that is not may be either.
LEMMA SaveRunWrites ==
  ASSUME NEW r, NEW rec, NEW s \in SaveRun(r, rec)
  PROVE  /\ s.ok \in BOOLEAN
         /\ s.journals = With(journals, r, rec) \/ (~s.ok /\ s.journals = journals)
<1>1. CASE s \in {[ok |-> ok, journals |-> With(journals, r, rec)] : ok \in BOOLEAN}
  <2>1. PICK ok \in BOOLEAN : s = [ok |-> ok, journals |-> With(journals, r, rec)]  BY <1>1
  <2> QED BY <2>1
<1>2. CASE s = [ok |-> FALSE, journals |-> journals]  BY <1>2
<1> QED BY <1>1, <1>2 DEF SaveRun

LEMMA AssetSequence ==
  /\ Reverse(AssetSet) \in Seq(Assets) /\ ToSet(Reverse(AssetSet)) = Assets
  /\ ToSet(AssetSet) = Assets /\ AssetSet \in Seq(Assets)
<1>1. AssetSet \in Seq(Assets) /\ Len(AssetSet) \in Nat /\ DOMAIN AssetSet = 1..Len(AssetSet)
      /\ \A i \in 1..Len(AssetSet) : AssetSet[i] \in Assets
  BY LenProperties, ElementOfSeq
<1>2. Reverse(AssetSet) = [i \in 1..Len(AssetSet) |-> AssetSet[(Len(AssetSet) - i) + 1]]
  BY DEF Reverse
<1>3. \A i \in 1..Len(AssetSet) : (Len(AssetSet) - i) + 1 \in 1..Len(AssetSet)
  BY <1>1
<1>4. Reverse(AssetSet) \in Seq(Assets)
  <2>1. \A i \in 1..Len(AssetSet) : AssetSet[(Len(AssetSet) - i) + 1] \in Assets
    BY <1>1, <1>3
  <2> QED BY <1>1, <1>2, <2>1, SeqDef
<1>5. ToSet(Reverse(AssetSet)) = Assets
  <2>1. DOMAIN Reverse(AssetSet) = 1..Len(AssetSet)  BY <1>2
  <2>2. ToSet(Reverse(AssetSet)) \subseteq Assets
    BY <1>1, <1>2, <1>3, <2>1 DEF ToSet
  <2>3. ASSUME NEW a \in Assets  PROVE a \in ToSet(Reverse(AssetSet))
    <3>1. PICK i \in 1..Len(AssetSet) : AssetSet[i] = a  BY <1>1 DEF Assets, ToSet
    <3>2. (Len(AssetSet) - i) + 1 \in 1..Len(AssetSet)
          /\ (Len(AssetSet) - ((Len(AssetSet) - i) + 1)) + 1 = i
      BY <1>1
    <3>3. Reverse(AssetSet)[(Len(AssetSet) - i) + 1] = a
      BY <1>2, <3>1, <3>2
    <3> QED BY <2>1, <3>2, <3>3 DEF ToSet
  <2> QED BY <2>2, <2>3
<1> QED BY <1>1, <1>4, <1>5 DEF Assets

\* The assets left lose their first.
LEMMA LeftShrinks ==
  ASSUME NEW left \in Seq(Assets), left # << >>
  PROVE  /\ Head(left) \in Assets /\ Tail(left) \in Seq(Assets)
         /\ \A a \in ToSet(left) : a = Head(left) \/ a \in ToSet(Tail(left))
<1>1. Head(left) \in Assets /\ Tail(left) \in Seq(Assets) /\ Len(Tail(left)) = Len(left) - 1
      /\ \A i \in 1..Len(Tail(left)) : Tail(left)[i] = left[i + 1]
      /\ Len(left) \in Nat /\ Head(left) = left[1]
  BY HeadTailProperties, LenProperties
<1>2. DOMAIN left = 1..Len(left) /\ DOMAIN Tail(left) = 1..Len(Tail(left))
  BY <1>1, LenProperties
<1>3. ASSUME NEW i \in 1..Len(left), i # 1
      PROVE  i - 1 \in 1..Len(Tail(left)) /\ Tail(left)[i - 1] = left[i]
  <2>1. i - 1 \in 1..Len(Tail(left)) /\ (i - 1) + 1 = i  BY <1>1, <1>3
  <2>2. Tail(left)[i - 1] = left[(i - 1) + 1]  BY <1>1, <2>1
  <2> QED BY <2>1, <2>2
<1>4. ASSUME NEW a \in ToSet(left), a # Head(left)
      PROVE  a \in ToSet(Tail(left))
  <2>1. PICK i \in 1..Len(left) : left[i] = a  BY <1>2 DEF ToSet
  <2>2. i # 1  BY <1>1, <1>4, <2>1
  <2>3. i - 1 \in DOMAIN Tail(left) /\ Tail(left)[i - 1] = a  BY <1>2, <1>3, <2>1, <2>2
  <2> QED BY <2>3 DEF ToSet
<1> QED BY <1>1, <1>4

\* Contents.
LEMMA ChangedContent ==
  ASSUME NEW content \in Contents, NEW change \in Int
  PROVE  /\ Changed(content, change) \in Seq(Int) /\ Changed(content, change) \in Contents
         /\ Changed(content, change) # Absent
<1>1. CASE content = Absent
  <2>1. <<change>> \in Seq(Int)  OBVIOUS
  <2> QED BY <1>1, <2>1 DEF Changed, Contents
<1>2. CASE content # Absent
  <2>1. content \in Seq(Int)  BY <1>2 DEF Contents
  <2>2. Append(content, change) \in Seq(Int)  BY <2>1, AppendProperties
  <2> QED BY <1>2, <2>2 DEF Changed, Contents
<1> QED BY <1>1, <1>2

\* The handler begins to roll a run back.
LEMMA RollingBackTypes ==
  ASSUME TypeOK, at \in Handler, NEW rec \in RunRecord, NEW r \in RunIds, NEW auto \in BOOLEAN,
         rec.assets \in [Assets -> AssetRecord], RollingBack(rec, r, auto)
  PROVE  /\ at' \in Handler /\ at'.pc = "restore" /\ at'.r = r /\ at'.rec = rec
         /\ at'.left = Reverse(AssetSet) /\ at'.ok = TRUE /\ at'.auto = auto
         /\ mem' \in [Assets -> Contents] /\ dirty' \subseteq Assets
<1>1. r \in 0..MaxRuns  BY DEF RunIds
<1>2. at' = [at EXCEPT !.pc = "restore", !.r = r, !.rec = rec, !.left = Reverse(AssetSet),
                       !.ok = TRUE, !.auto = auto]
  BY DEF RollingBack
<1>3. at' \in Handler /\ at'.pc = "restore" /\ at'.r = r /\ at'.rec = rec
      /\ at'.left = Reverse(AssetSet) /\ at'.ok = TRUE /\ at'.auto = auto
  BY <1>1, <1>2, AssetSequence DEF Handler
<1>4. mem' \in [Assets -> Contents] /\ dirty' \subseteq Assets
  BY DEF RollingBack, TypeOK, AssetRecord
<1> QED BY <1>3, <1>4

\* A run is written to memory or to its journal.
LEMMA RunWritten ==
  ASSUME NEW f, DOMAIN f \subseteq RunIds, \A k \in DOMAIN f : Sound(f[k]),
         NEW r \in RunIds, NEW rec, Sound(rec)
  PROVE  /\ DOMAIN With(f, r, rec) \subseteq RunIds
         /\ \A k \in DOMAIN With(f, r, rec) : Sound(With(f, r, rec)[k])
<1>1. DOMAIN With(f, r, rec) = DOMAIN f \cup {r}  BY WithPuts
<1>2. With(f, r, rec)[r] = rec /\ \A k \in DOMAIN f : k # r => With(f, r, rec)[k] = f[k]
  BY DEF With
<1>3. ASSUME NEW k \in DOMAIN f \cup {r}  PROVE Sound(With(f, r, rec)[k])
  <2>1. CASE k = r  BY <1>2, <2>1
  <2>2. CASE k # r
    <3>1. With(f, r, rec)[k] = f[k]  BY <1>2, <1>3, <2>2
    <3> QED BY <1>3, <2>2, <3>1
  <2> QED BY <2>1, <2>2
<1> QED BY <1>1, <1>3

LEMMA JournalWritten ==
  ASSUME TypeInv, NEW r \in RunIds, NEW rec, Sound(rec), NEW s \in SaveRun(r, rec)
  PROVE  DOMAIN s.journals \subseteq RunIds /\ \A k \in DOMAIN s.journals : Sound(s.journals[k])
<1>1. DOMAIN journals \subseteq RunIds /\ \A k \in DOMAIN journals : Sound(journals[k])
  BY DEF TypeInv, TypeOK, RecordsInv
<1>2. CASE s.journals = journals  BY <1>1, <1>2
<1>3. CASE s.journals = With(journals, r, rec)
  <2>1. DOMAIN With(journals, r, rec) \subseteq RunIds
        /\ \A k \in DOMAIN With(journals, r, rec) : Sound(With(journals, r, rec)[k])
    BY <1>1, RunWritten
  <2> QED BY <1>3, <2>1
<1> QED BY <1>2, <1>3, SaveRunWrites

\* The runs in memory with one of them written: it has ended, or it is the handler's.
LEMMA RunsWritten ==
  ASSUME TypeInv, NEW r \in RunIds, NEW rec, Sound(rec), NEW hand,
         r = hand \/ rec.status \in Terminal,
         \A k \in DOMAIN runs : k # r => runs[k].status \in Terminal
  PROVE  /\ DOMAIN With(runs, r, rec) \subseteq RunIds
         /\ \A k \in DOMAIN With(runs, r, rec) : Sound(With(runs, r, rec)[k])
         /\ \A k \in DOMAIN With(runs, r, rec) :
              k # hand => With(runs, r, rec)[k].status \in Terminal
<1>1. DOMAIN runs \subseteq RunIds /\ \A k \in DOMAIN runs : Sound(runs[k])
  BY DEF TypeInv, TypeOK, RecordsInv
<1>2. DOMAIN With(runs, r, rec) \subseteq RunIds
      /\ \A k \in DOMAIN With(runs, r, rec) : Sound(With(runs, r, rec)[k])
  BY <1>1, RunWritten
<1>3. ASSUME NEW k \in DOMAIN With(runs, r, rec), k # hand
      PROVE  With(runs, r, rec)[k].status \in Terminal
  <2>1. /\ DOMAIN With(runs, r, rec) = DOMAIN runs \cup {r} /\ With(runs, r, rec)[r] = rec
        /\ \A l \in DOMAIN runs : l # r => With(runs, r, rec)[l] = runs[l]
    BY DEF With
  <2>2. CASE k = r  BY <1>3, <2>1, <2>2
  <2>3. CASE k # r
    <3>1. k \in DOMAIN runs /\ With(runs, r, rec)[k] = runs[k]  BY <1>3, <2>1, <2>3
    <3> QED BY <2>3, <3>1
  <2> QED BY <2>2, <2>3
<1> QED BY <1>2, <1>3

\* The handler ends.
LEMMA HandlerEnds ==
  ASSUME at' = Stopped  PROVE HandlerInv' /\ at'.left \in Seq(Assets) /\ at'.r = 0
<1>1. Stopped \in Handler
  BY DEF Stopped, Handler
<1>2. at'.pc = "idle" /\ at'.r = 0 /\ at'.left = << >>  BY DEF Stopped
<1> QED BY <1>1, <1>2 DEF HandlerInv, Idle, Staged, Forward

\* The plan that the handler carries out.
LEMMA PlanOf ==
  ASSUME TypeInv, ~Idle
  PROVE  /\ at.rec \in RunRecord /\ at.r \in RunIds /\ Plan \in Seq(Kinds \X Assets)
         /\ Len(Plan) \in Nat /\ Plan = Workflow[at.rec.req] /\ at.rec.req \in Requests
         /\ at.rec.next \in Nat \ {0}
         /\ Steps => at.rec.next \in 1..Len(Plan) /\ Step \in Kinds \X Assets
<1>1. at.rec \in RunRecord /\ at.r \in RunIds  BY DEF TypeInv, HandlerInv
<1>2. at.rec.req \in Requests /\ at.rec.next \in Nat \ {0}  BY <1>1 DEF RunRecord
<1>3. Plan \in Seq(Kinds \X Assets) /\ Plan = Workflow[at.rec.req]  BY <1>2 DEF Plan
<1>4. Len(Plan) \in Nat  BY <1>3, LenProperties
<1>5. ASSUME Steps  PROVE at.rec.next \in 1..Len(Plan) /\ Step \in Kinds \X Assets
  <2>1. at.rec.next \in 1..Len(Plan)  BY <1>2, <1>4, <1>5 DEF Steps
  <2>2. Plan[at.rec.next] \in Kinds \X Assets  BY <1>3, <2>1, ElementOfSeq
  <2> QED BY <2>1, <2>2 DEF Step
<1> QED BY <1>1, <1>2, <1>3, <1>4, <1>5

\* The record of a running handler is sound, and stays so when it fails.
LEMMA ForwardSound ==
  ASSUME TypeInv, at.pc \in Forward
  PROVE  ~Idle /\ Sound(at.rec) /\ at.rec.status = "running" /\ ~at.rec.verified
<1>1. ~Idle /\ at.pc # "restore"  BY DEF Forward, Idle
<1>2. at.rec \in RunRecord /\ at.rec.status = "running" /\ ~at.rec.verified
      /\ at.rec.next <= Len(Plan) + 1
  BY <1>1 DEF TypeInv, HandlerInv
<1> QED BY <1>1, <1>2 DEF Sound, Plan

\* A step that fails begins to roll the run back.
LEMMA FailRunTypes ==
  ASSUME TypeInv, at.pc \in Forward \ {"stage"}, FailRun
  PROVE  /\ HandlerInv' /\ at'.left \in Seq(Assets) /\ at'.r = at.r
         /\ mem' \in [Assets -> Contents] /\ dirty' \subseteq Assets
         /\ at'.pc = "restore"
<1> DEFINE rec == [at.rec EXCEPT !.status = "failed"]
<1>1. ~Idle /\ at.rec \in RunRecord /\ at.r \in RunIds /\ at \in Handler
      /\ at.rec.assets \in [Assets -> AssetRecord]
  BY ForwardSound DEF TypeInv, HandlerInv, Forward, Staged
<1>2. rec \in RunRecord /\ rec.assets = at.rec.assets  BY <1>1 DEF RunRecord, Terminal
<1>3. RollingBack(rec, at.r, TRUE)  BY DEF FailRun
<1>4. /\ at' \in Handler /\ at'.pc = "restore" /\ at'.r = at.r /\ at'.rec = rec
      /\ at'.left = Reverse(AssetSet)
      /\ mem' \in [Assets -> Contents] /\ dirty' \subseteq Assets
  <2> HIDE DEF rec
  <2> QED BY <1>1, <1>2, <1>3, RollingBackTypes DEF TypeInv
<1>5. HandlerInv'
  <2>1. at'.rec \in RunRecord /\ at'.rec.assets \in [Assets -> AssetRecord] /\ at'.r \in RunIds
    BY <1>1, <1>2, <1>4
  <2> QED BY <1>4, <2>1 DEF HandlerInv, Idle, Staged, Forward
<1> QED BY <1>4, <1>5, AssetSequence

\* The handler goes to capture the assets, for a record of the running run.
LEMMA ToCaptureTypes ==
  ASSUME TypeInv, ~Idle, NEW rec \in RunRecord, NEW scope \in Assets \cup {Absent, "all"},
         NEW goal \in {"apply", "step"}, at' = ToCapture(rec, scope, goal),
         rec.assets \in [Assets -> AssetRecord], rec.req = at.rec.req,
         rec.status = "running", ~rec.verified, rec.next <= Len(Plan) + 1,
         goal = "apply" => rec.next <= Len(Plan) /\ Plan[rec.next][1] = "edit"
  PROVE  HandlerInv' /\ at'.left \in Seq(Assets) /\ at'.r = at.r
<1>1. at \in Handler /\ at.r \in RunIds  BY DEF TypeInv, HandlerInv
<1>2. at' \in Handler /\ at'.pc = "capture" /\ at'.r = at.r /\ at'.rec = rec
      /\ at'.goal = goal /\ at'.left = AssetSet
  BY <1>1, AssetSequence DEF ToCapture, Handler
<1>3. Plan' = Plan  BY <1>2 DEF Plan
<1> QED BY <1>1, <1>2, <1>3, AssetSequence DEF HandlerInv, Idle, Staged, Forward, Steps, Step

\* A record with the record of one asset replaced.
LEMMA AssetReplaced ==
  ASSUME NEW rec \in RunRecord, rec.assets \in [Assets -> AssetRecord],
         NEW a \in Assets, NEW asset \in AssetRecord
  PROVE  /\ [rec EXCEPT !.assets = [@ EXCEPT ![a] = asset]] \in RunRecord
         /\ [rec EXCEPT !.assets = [@ EXCEPT ![a] = asset]].assets \in [Assets -> AssetRecord]
BY DEF RunRecord

---------------------------------------------------------------------------
(* Type correctness, action by action.                                     *)

\* What a step has to show of the runs, when it writes none of them and the handler
\* stays with its run.
LEMMA RunsStay ==
  ASSUME TypeInv, UNCHANGED <<runs, journals>>, at'.r = at.r
  PROVE  /\ RecordsInv' /\ (DOMAIN runs \cup DOMAIN journals)' \subseteq RunIds
         /\ \A r \in DOMAIN runs' : r # at'.r => runs'[r].status \in Terminal
BY DEF TypeInv, TypeOK, RecordsInv

LEMMA UsersTypes ==
  ASSUME TypeInv, NEW a \in Assets, UserEdits(a) \/ UserSaves(a)
  PROVE  TypeInv'
<1>1. mem[a] \in Contents /\ \A change \in {Edit, Detail} : Changed(mem[a], change) \in Contents
  <2>1. mem[a] \in Contents  BY DEF TypeInv, TypeOK
  <2>2. Edit \in Int /\ Detail \in Int  BY DEF Edit, Detail
  <2> QED BY <2>1, <2>2, ChangedContent
<1>2. UNCHANGED <<inst, runs, journals, at>>  BY DEF UserEdits, UserSaves
<1>3. HandlerInv'
  BY <1>2 DEF TypeInv, HandlerInv, Idle, Staged, Steps, Step, Plan
<1>4. mem' \in [Assets -> Contents] /\ pkg' \in [Assets -> Contents] /\ dirty' \subseteq Assets
  BY <1>1 DEF TypeInv, TypeOK, UserEdits, UserSaves
<1>5. edits' \in 0..MaxEdits  BY DEF TypeInv, TypeOK, UserEdits, UserSaves
<1> QED BY <1>2, <1>3, <1>4, <1>5, RunsStay DEF TypeInv, TypeOK

LEMMA CrashTypes ==
  ASSUME TypeInv, Crash  PROVE TypeInv'
<1>1. HandlerInv' /\ at'.left \in Seq(Assets)  BY HandlerEnds DEF Crash
<1>2. DOMAIN runs' = {}  BY DEF Crash
<1>3. RecordsInv'
  BY <1>2 DEF Crash, TypeInv, RecordsInv
<1>4. inst' \in 0..MaxCrashes  BY DEF Crash, TypeInv, TypeOK
<1> QED BY <1>1, <1>2, <1>3, <1>4 DEF Crash, TypeInv, TypeOK

\* A new run, and the failure of one that was admitted.
LEMMA ExecuteTypes ==
  ASSUME TypeInv, NEW req \in Requests, Execute(req)  PROVE TypeInv'
<1> DEFINE r == Cardinality(Known) + 1
           rec == [req |-> req, inst |-> inst, status |-> "running", avail |-> FALSE,
                   verified |-> FALSE, next |-> 1, cid |-> 0, save |-> req \in Saving,
                   assets |-> << >>]
           hand == [Stopped EXCEPT !.pc = "stage", !.r = r, !.rec = rec]
<1>1. PICK s \in SaveRun(r, rec) :
        /\ journals' = s.journals
        /\ IF s.ok THEN runs' = With(runs, r, rec) /\ at' = hand ELSE UNCHANGED <<runs, at>>
  BY DEF Execute
<1>2. r \in RunIds /\ Idle /\ at.r = 0 /\ UNCHANGED <<inst, mem, dirty, pkg, files, edits>>
  BY DEF Execute, TypeInv, HandlerInv
<1>3. rec \in RunRecord /\ Sound(rec) /\ rec.req = req /\ rec.next = 1
      /\ rec.assets = << >> /\ rec.status = "running" /\ ~rec.verified
  <2>1. rec \in RunRecord  BY DEF RunRecord, TypeInv, TypeOK
  <2>2. Len(Workflow[req]) \in Nat  BY LenProperties
  <2> QED BY <2>1, <2>2 DEF Sound
<1>4. hand \in Handler /\ hand.pc = "stage" /\ hand.r = r /\ hand.rec = rec /\ hand.left = << >>
  <2>1. r \in 0..MaxRuns  BY <1>2 DEF RunIds
  <2>2. Stopped \in Handler  BY DEF Stopped, Handler
  <2> HIDE DEF r, rec
  <2>3. hand = [Stopped EXCEPT !.pc = "stage", !.r = r, !.rec = rec]  OBVIOUS
  <2>4. Stopped.left = << >>  BY DEF Stopped
  <2> HIDE DEF hand
  <2> QED BY <1>3, <2>1, <2>2, <2>3, <2>4 DEF Handler
<1> HIDE DEF r, rec, hand
<1>5. DOMAIN journals' \subseteq RunIds /\ \A k \in DOMAIN journals' : Sound(journals'[k])
  BY <1>1, <1>2, <1>3, JournalWritten
<1>6. CASE s.ok
  <2>1. runs' = With(runs, r, rec) /\ at' = hand  BY <1>1, <1>6
  <2>2. \A k \in DOMAIN runs : k # r => runs[k].status \in Terminal
    <3>1. \A k \in DOMAIN runs : k # 0 /\ (k # at.r => runs[k].status \in Terminal)
      BY DEF TypeInv, TypeOK, RunIds
    <3> QED BY <1>2, <3>1
  <2>3. /\ DOMAIN runs' \subseteq RunIds /\ \A k \in DOMAIN runs' : Sound(runs'[k])
        /\ \A k \in DOMAIN runs' : k # at'.r => runs'[k].status \in Terminal
    <3>1. at'.r = r  BY <1>4, <2>1
    <3> QED BY <1>2, <1>3, <2>1, <2>2, <3>1, RunsWritten
  <2>4. HandlerInv'
    <3>1. Len(Plan') \in Nat /\ at'.rec.next <= Len(Plan') + 1
      <4>1. Plan' = Workflow[req] /\ at'.rec.next = 1  BY <1>3, <1>4, <2>1 DEF Plan
      <4>2. Len(Workflow[req]) \in Nat  BY LenProperties
      <4> QED BY <4>1, <4>2
    <3> QED BY <1>2, <1>3, <1>4, <2>1, <3>1 DEF HandlerInv, Idle, Staged, Forward
  <2> QED BY <1>2, <1>4, <1>5, <2>1, <2>3, <2>4 DEF TypeInv, TypeOK, RecordsInv, Handler
<1>7. CASE ~s.ok
  <2>1. UNCHANGED <<runs, at>>  BY <1>1, <1>7
  <2>2. HandlerInv'
    BY <2>1 DEF TypeInv, HandlerInv, Idle, Staged, Steps, Step, Plan
  <2> QED BY <1>2, <1>5, <2>1, <2>2 DEF TypeInv, TypeOK, RecordsInv
<1> QED BY <1>1, <1>6, <1>7, SaveRunWrites

\* The run ends with a record that has ended.
LEMMA RunEndsTypes ==
  ASSUME TypeInv, ~Idle, NEW rec, Sound(rec), rec.status \in Terminal,
         NEW s \in SaveRun(at.r, rec), journals' = s.journals,
         runs' = With(runs, at.r, rec), at' = Stopped
  PROVE  /\ HandlerInv' /\ RecordsInv' /\ at'.left \in Seq(Assets)
         /\ (DOMAIN runs \cup DOMAIN journals)' \subseteq RunIds
         /\ \A r \in DOMAIN runs' : r # at'.r => runs'[r].status \in Terminal
<1>1. at.r \in RunIds  BY DEF TypeInv, HandlerInv
<1>2. HandlerInv' /\ at'.left \in Seq(Assets)  BY HandlerEnds
<1>3. \A k \in DOMAIN runs : k # at.r => runs[k].status \in Terminal  BY DEF TypeInv, TypeOK
<1>4. /\ DOMAIN runs' \subseteq RunIds /\ \A k \in DOMAIN runs' : Sound(runs'[k])
      /\ \A k \in DOMAIN runs' : k # at'.r => runs'[k].status \in Terminal
  BY <1>1, <1>3, RunsWritten
<1>5. DOMAIN journals' \subseteq RunIds /\ \A k \in DOMAIN journals' : Sound(journals'[k])
  BY <1>1, JournalWritten
<1> QED BY <1>2, <1>4, <1>5 DEF RecordsInv

\* The run goes on, with its record saved.
LEMMA RunGoesOnTypes ==
  ASSUME TypeInv, ~Idle, NEW rec, Sound(rec),
         NEW s \in SaveRun(at.r, rec), journals' = s.journals,
         runs' = With(runs, at.r, rec), at'.r = at.r
  PROVE  /\ RecordsInv' /\ (DOMAIN runs \cup DOMAIN journals)' \subseteq RunIds
         /\ \A r \in DOMAIN runs' : r # at'.r => runs'[r].status \in Terminal
<1>1. at.r \in RunIds  BY DEF TypeInv, HandlerInv
<1>3. \A k \in DOMAIN runs : k # at.r => runs[k].status \in Terminal  BY DEF TypeInv, TypeOK
<1>4. /\ DOMAIN runs' \subseteq RunIds /\ \A k \in DOMAIN runs' : Sound(runs'[k])
      /\ \A k \in DOMAIN runs' : k # at'.r => runs'[k].status \in Terminal
  BY <1>1, <1>3, RunsWritten
<1>5. DOMAIN journals' \subseteq RunIds /\ \A k \in DOMAIN journals' : Sound(journals'[k])
  BY <1>1, JournalWritten
<1> QED BY <1>4, <1>5 DEF RecordsInv

\* A checkpoint id is a number.
LEMMA CheckpointIdInt ==
  ASSUME TypeInv, ~Idle, NEW prepared \in BOOLEAN
  PROVE  CheckpointId(Plan, at.rec.next, prepared) \in Int
<1>1. IsFiniteSet({j \in 1..at.rec.next : Plan[j][1] = "edit"})
  <2>1. at.rec.next \in Nat  BY PlanOf
  <2>2. IsFiniteSet(1..at.rec.next)
    <3>1. 1 \in Int /\ at.rec.next \in Int  BY <2>1
    <3> QED BY <3>1, FS_Interval
  <2> QED BY <2>2, FS_Subset
<1>2. OperationsTo(Plan, at.rec.next) \in Nat  BY <1>1, FS_CardinalityType DEF OperationsTo
<1> QED BY <1>2 DEF CheckpointId

LEMMA FailAdmittedTypes ==
  ASSUME TypeInv, ~Idle, NEW rec, Sound(rec), FailAdmittedRun(rec),
         UNCHANGED <<inst, mem, dirty, pkg, files, edits>>
  PROVE  TypeInv'
<1> DEFINE failed == [rec EXCEPT !.status = "failed", !.verified = TRUE]
<1>1. Sound(failed) /\ failed.status \in Terminal
  BY DEF Sound, RunRecord, Terminal
<1>2. PICK s \in SaveRun(at.r, failed) :
        journals' = s.journals /\ runs' = With(runs, at.r, failed) /\ at' = Stopped
  BY DEF FailAdmittedRun
<1> HIDE DEF failed
<1>3. /\ HandlerInv' /\ RecordsInv' /\ at'.left \in Seq(Assets)
      /\ (DOMAIN runs \cup DOMAIN journals)' \subseteq RunIds
      /\ \A r \in DOMAIN runs' : r # at'.r => runs'[r].status \in Terminal
  BY <1>1, <1>2, RunEndsTypes
<1> QED BY <1>3 DEF TypeInv, TypeOK

LEMMA StageTypes ==
  ASSUME TypeInv, Stage  PROVE TypeInv'
<1> DEFINE rec == [at.rec EXCEPT !.assets = [a \in Assets |-> Baseline(a)], !.avail = TRUE]
<1>1. at.pc = "stage" /\ at.pc \in Forward /\ UNCHANGED <<inst, mem, dirty, pkg, files, edits>>
  BY DEF Stage, Forward
<1>2. ~Idle /\ Sound(at.rec) /\ at.rec.status = "running" /\ ~at.rec.verified
  BY <1>1, ForwardSound
<1>3. at.rec \in RunRecord /\ at.r \in RunIds /\ at \in Handler /\ at.rec.next <= Len(Plan) + 1
  BY <1>1, <1>2 DEF TypeInv, HandlerInv
<1>4. [a \in Assets |-> Baseline(a)] \in [Assets -> AssetRecord]
  BY DEF TypeInv, TypeOK, Baseline, AssetRecord, Snapshot
<1>5. /\ rec \in RunRecord /\ rec.assets \in [Assets -> AssetRecord] /\ rec.next = at.rec.next
      /\ rec.status = "running" /\ ~rec.verified /\ rec.req = at.rec.req
  <2> DEFINE assets == [a \in Assets |-> Baseline(a)]
  <2>1. assets \in [Assets -> AssetRecord]  BY <1>4
  <2>2. rec = [at.rec EXCEPT !.assets = assets, !.avail = TRUE]  OBVIOUS
  <2> HIDE DEF assets, rec
  <2> QED BY <1>2, <1>3, <2>1, <2>2 DEF RunRecord
<1>6. Sound(rec)
  BY <1>2, <1>5 DEF Sound
<1> HIDE DEF rec
<1>7. \/ FailAdmittedRun(at.rec)
      \/ FailAdmittedRun(rec)
      \/ \E s \in SaveRun(at.r, rec) :
           /\ s.ok
           /\ journals' = s.journals /\ runs' = With(runs, at.r, rec)
           /\ at' = [at EXCEPT !.pc = "step", !.rec = rec]
  BY DEF Stage, rec
<1>8. CASE FailAdmittedRun(at.rec)  BY <1>1, <1>2, <1>8, FailAdmittedTypes
<1>9. CASE FailAdmittedRun(rec)  BY <1>1, <1>2, <1>6, <1>9, FailAdmittedTypes
<1>10. ASSUME NEW s \in SaveRun(at.r, rec), journals' = s.journals,
              runs' = With(runs, at.r, rec), at' = [at EXCEPT !.pc = "step", !.rec = rec]
       PROVE  TypeInv'
  <2>1. at' \in Handler /\ at'.pc = "step" /\ at'.rec = rec /\ at'.r = at.r /\ at'.left = at.left
    BY <1>3, <1>5, <1>10 DEF Handler
  <2>2. HandlerInv'
    <3>1. Plan' = Plan  BY <1>5, <2>1 DEF Plan
    <3> QED BY <1>3, <1>5, <2>1, <3>1 DEF HandlerInv, Idle, Staged
  <2>3. /\ RecordsInv' /\ (DOMAIN runs \cup DOMAIN journals)' \subseteq RunIds
        /\ \A r \in DOMAIN runs' : r # at'.r => runs'[r].status \in Terminal
    BY <1>2, <1>6, <1>10, <2>1, RunGoesOnTypes
  <2> QED BY <1>1, <2>1, <2>2, <2>3 DEF TypeInv, TypeOK
<1> QED BY <1>7, <1>8, <1>9, <1>10

\* The types of a state in which the handler has gone on with its run, and written none.
LEMMA GoesOnTypes ==
  ASSUME TypeInv, UNCHANGED <<runs, journals, inst, edits>>, at'.r = at.r, HandlerInv',
         at'.left \in Seq(Assets), mem' \in [Assets -> Contents],
         pkg' \in [Assets -> Contents], dirty' \subseteq Assets
  PROVE  TypeInv'
BY RunsStay DEF TypeInv, TypeOK

LEMMA PrepareTypes ==
  ASSUME TypeInv, Prepare  PROVE TypeInv'
<1> DEFINE cid == CheckpointId(Plan, at.rec.next, TRUE)
           rec == [at.rec EXCEPT !.cid = cid]
<1>1. at.pc = "step" /\ at.pc \in Forward /\ Steps /\ Step[1] = "edit"
      /\ UNCHANGED <<inst, mem, dirty, pkg, runs, journals, files, edits>>
      /\ at' = ToCapture(rec, Absent, "apply")
  BY DEF Prepare, Forward
<1>2. ~Idle /\ at.rec \in RunRecord /\ at.rec.status = "running" /\ ~at.rec.verified
      /\ at.rec.assets \in [Assets -> AssetRecord] /\ at.rec.next <= Len(Plan)
      /\ Plan[at.rec.next][1] = "edit"
  BY <1>1, ForwardSound DEF TypeInv, HandlerInv, Staged, Steps, Step
<1>3. cid \in Int
  BY <1>1, <1>2, CheckpointIdInt
<1>4. /\ rec \in RunRecord /\ rec.assets = at.rec.assets /\ rec.next = at.rec.next
      /\ rec.req = at.rec.req /\ rec.status = at.rec.status /\ rec.verified = at.rec.verified
  <2> HIDE DEF cid
  <2> QED BY <1>2, <1>3 DEF RunRecord
<1> HIDE DEF rec
<1>5. at.rec.next <= Len(Plan) + 1  BY <1>1 DEF TypeInv, HandlerInv
<1>6. HandlerInv' /\ at'.left \in Seq(Assets) /\ at'.r = at.r
  BY <1>1, <1>2, <1>4, <1>5, ToCaptureTypes
<1> QED BY <1>1, <1>6, GoesOnTypes DEF TypeInv, TypeOK

\* The hash of an asset is taken: its digests are those of what it is.
LEMMA HashedTypes ==
  ASSUME TypeInv, NEW rec \in RunRecord, rec.assets \in [Assets -> AssetRecord],
         NEW a \in Assets, NEW content \in Contents
  PROVE  /\ Hashed(rec, a, content) \in RunRecord
         /\ Hashed(rec, a, content).assets \in [Assets -> AssetRecord]
         /\ Hashed(rec, a, content) =
              [rec EXCEPT !.assets = Hashed(rec, a, content).assets]
         /\ \A b \in Assets : /\ SameBaseline(Hashed(rec, a, content).assets[b], rec.assets[b])
                              /\ b # a => Hashed(rec, a, content).assets[b] = rec.assets[b]
         /\ Hashed(rec, a, content).assets[a].cur = content
         /\ Hashed(rec, a, content).assets[a].pkgCur =
              IF pkg[a] = Absent THEN rec.assets[a].pkgCur ELSE pkg[a]
<1> DEFINE asset == [rec.assets[a] EXCEPT
                       !.cur = content,
                       !.pkgCur = IF pkg[a] = Absent THEN rec.assets[a].pkgCur ELSE pkg[a]]
<1>1. asset \in AssetRecord /\ SameBaseline(asset, rec.assets[a]) /\ asset.cur = content
      /\ asset.pkgCur = IF pkg[a] = Absent THEN rec.assets[a].pkgCur ELSE pkg[a]
  <2>1. rec.assets[a] \in AssetRecord  OBVIOUS
  <2>2. pkg[a] \in Contents  BY DEF TypeInv, TypeOK
  <2>3. ASSUME NEW old \in AssetRecord, NEW now \in Contents
        PROVE  LET new == [old EXCEPT !.cur = content, !.pkgCur = now]
               IN  /\ new \in AssetRecord /\ SameBaseline(new, old)
                   /\ new.cur = content /\ new.pkgCur = now
    BY DEF AssetRecord, SameBaseline
  <2>4. (IF pkg[a] = Absent THEN rec.assets[a].pkgCur ELSE pkg[a]) \in Contents
    BY <2>1, <2>2 DEF AssetRecord
  <2> QED BY <2>1, <2>3, <2>4
<1>2. Hashed(rec, a, content) = [rec EXCEPT !.assets = [@ EXCEPT ![a] = asset]]
  BY DEF Hashed, RunRecord, AssetRecord
<1> HIDE DEF asset
<1>3. /\ Hashed(rec, a, content) \in RunRecord
      /\ Hashed(rec, a, content).assets \in [Assets -> AssetRecord]
  BY <1>1, <1>2, AssetReplaced, SMTT(20)
<1>4. Hashed(rec, a, content).assets = [rec.assets EXCEPT ![a] = asset]
  BY <1>2 DEF RunRecord
<1>5. Hashed(rec, a, content) = [rec EXCEPT !.assets = Hashed(rec, a, content).assets]
  BY <1>2, <1>4
<1> QED BY <1>1, <1>3, <1>4, <1>5 DEF SameBaseline

LEMMA ApplyTypes ==
  ASSUME TypeInv, Apply  PROVE TypeInv'
<1> DEFINE a == Step[2]
           acts == Step[1] = "edit" \/ (Step[1] = "init" /\ mem[a] = Absent)
           now == IF acts THEN Changed(mem[a], at.rec.next) ELSE mem[a]
           cid == IF Step[1] = "edit" THEN CheckpointId(Plan, at.rec.next, FALSE) ELSE at.rec.cid
           rec == [at.rec EXCEPT !.next = @ + 1, !.cid = cid]
           scope == CASE Step[1] \in {"init", "edit"} -> a
                      [] Step[1] = "readBack" -> Absent
                      [] Step[1] = "compile" -> "all"
<1>1. at.pc \in {"step", "apply"} /\ Steps /\ UNCHANGED <<inst, pkg, runs, journals, files, edits>>
  BY DEF Apply, TypeInv, HandlerInv
<1>2. ~Idle /\ at.rec \in RunRecord /\ at.rec.status = "running" /\ ~at.rec.verified
      /\ at.rec.assets \in [Assets -> AssetRecord] /\ at.r \in RunIds /\ at \in Handler
      /\ at.pc \in Forward \ {"stage"}
  BY <1>1, ForwardSound DEF TypeInv, HandlerInv, Staged, Forward
<1>3. at.rec.next \in 1..Len(Plan) /\ Len(Plan) \in Nat /\ Step \in Kinds \X Assets
      /\ a \in Assets /\ Step[1] \in Kinds
  BY <1>1, <1>2, PlanOf
<1>4. mem[a] \in Contents /\ now \in Contents /\ Changed(mem[a], Partial) \in Contents
  <2>1. mem[a] \in Contents  BY <1>3 DEF TypeInv, TypeOK
  <2>2. at.rec.next \in Int /\ Partial \in Int  BY <1>3 DEF Partial
  <2>3. Changed(mem[a], at.rec.next) \in Contents /\ Changed(mem[a], Partial) \in Contents
    BY <2>1, <2>2, ChangedContent
  <2> QED BY <2>1, <2>3
<1>5. cid \in Int
  <2>1. CheckpointId(Plan, at.rec.next, FALSE) \in Int  BY <1>2, CheckpointIdInt
  <2>2. at.rec.cid \in Int  BY <1>2 DEF RunRecord
  <2> QED BY <2>1, <2>2
<1>6. /\ rec \in RunRecord /\ rec.assets = at.rec.assets /\ rec.next = at.rec.next + 1
      /\ rec.req = at.rec.req /\ rec.status = "running" /\ ~rec.verified
  <2>1. at.rec.next + 1 \in Nat \ {0}  BY <1>3
  <2> HIDE DEF cid
  <2> QED BY <1>2, <1>5, <2>1 DEF RunRecord
<1>7. scope \in Assets \cup {Absent, "all"}
  BY <1>3 DEF Kinds
<1>8. \/ /\ mem' = [mem EXCEPT ![a] = now]
         /\ dirty' = IF acts THEN dirty \cup {a} ELSE dirty
         /\ at' = ToCapture(Hashed(rec, a, now), scope, "step")
      \/ FailRun
      \/ /\ acts
         /\ at' = [at EXCEPT !.pc = "fail"]
         /\ mem' = [mem EXCEPT ![a] = Changed(@, Partial)] /\ dirty' = dirty \cup {a}
  BY DEF Apply
<1> HIDE DEF a, acts, now, cid, rec, scope
<1>9. CASE /\ mem' = [mem EXCEPT ![a] = now]
           /\ dirty' = IF acts THEN dirty \cup {a} ELSE dirty
           /\ at' = ToCapture(Hashed(rec, a, now), scope, "step")
  <2> DEFINE hashed == Hashed(rec, a, now)
  <2>1. /\ hashed \in RunRecord /\ hashed.assets \in [Assets -> AssetRecord]
        /\ hashed = [rec EXCEPT !.assets = hashed.assets]
    BY <1>2, <1>3, <1>4, <1>6, HashedTypes
  <2>2. /\ hashed.next = at.rec.next + 1 /\ hashed.req = at.rec.req
        /\ hashed.status = "running" /\ ~hashed.verified
    <3> HIDE DEF hashed
    <3> QED BY <1>6, <2>1 DEF RunRecord
  <2>3. at.rec.next + 1 <= Len(Plan) + 1  BY <1>3
  <2>4. at' = ToCapture(hashed, scope, "step")  BY <1>9
  <2> HIDE DEF hashed
  <2>5. HandlerInv' /\ at'.left \in Seq(Assets) /\ at'.r = at.r
    BY <1>2, <1>7, <2>1, <2>2, <2>3, <2>4, ToCaptureTypes
  <2>6. mem' \in [Assets -> Contents] /\ dirty' \subseteq Assets
    BY <1>3, <1>4, <1>9 DEF TypeInv, TypeOK
  <2> QED BY <1>1, <2>5, <2>6, GoesOnTypes DEF TypeInv, TypeOK
<1>10. CASE FailRun
  BY <1>1, <1>2, <1>10, FailRunTypes, GoesOnTypes DEF TypeInv, TypeOK
<1>11. CASE /\ at' = [at EXCEPT !.pc = "fail"]
            /\ mem' = [mem EXCEPT ![a] = Changed(@, Partial)] /\ dirty' = dirty \cup {a}
  <2>1. at' \in Handler /\ at'.pc = "fail" /\ at'.rec = at.rec /\ at'.r = at.r
        /\ at'.left = at.left
    BY <1>2, <1>11 DEF Handler
  <2>2. HandlerInv' /\ at'.left \in Seq(Assets)
    BY <1>2, <1>3, <2>1 DEF TypeInv, TypeOK, HandlerInv, Idle, Staged, Forward, Plan
  <2>3. mem' \in [Assets -> Contents] /\ dirty' \subseteq Assets
    BY <1>3, <1>4, <1>11 DEF TypeInv, TypeOK
  <2> QED BY <1>1, <2>1, <2>2, <2>3, GoesOnTypes DEF TypeInv, TypeOK
<1> QED BY <1>8, <1>9, <1>10, <1>11

LEMMA FailTypes ==
  ASSUME TypeInv, Fail  PROVE TypeInv'
<1>1. at.pc \in Forward \ {"stage"} /\ UNCHANGED <<inst, pkg, runs, journals, files, edits>>
      /\ FailRun
  BY DEF Fail, Forward
<1> QED BY <1>1, FailRunTypes, GoesOnTypes DEF TypeInv, TypeOK

\* The handler with the record of an asset replaced: the last one counts.
Put(h, a, asset) == [h EXCEPT !.rec.assets[a] = asset]
LEMMA PutTwice ==
  ASSUME NEW h, NEW a, NEW one, NEW two,
         "rec" \in DOMAIN h, "assets" \in DOMAIN h.rec, a \in DOMAIN h.rec.assets
  PROVE  Put(Put(h, a, one), a, two) = Put(h, a, two)
<1>2. \A f, k, x, y : [[f EXCEPT ![k] = x] EXCEPT ![k] = y] = [f EXCEPT ![k] = y]
  OBVIOUS
<1>3. Put(h, a, one).rec = [h.rec EXCEPT !.assets = [h.rec.assets EXCEPT ![a] = one]]
      /\ Put(h, a, one).rec.assets = [h.rec.assets EXCEPT ![a] = one]
      /\ Put(h, a, one) = [h EXCEPT !.rec = [h.rec EXCEPT !.assets = [h.rec.assets EXCEPT ![a] = one]]]
  BY DEF Put
<1>4. Put(Put(h, a, one), a, two) =
        [Put(h, a, one) EXCEPT !.rec =
           [Put(h, a, one).rec EXCEPT !.assets = [Put(h, a, one).rec.assets EXCEPT ![a] = two]]]
  BY DEF Put
<1>5. [Put(h, a, one).rec.assets EXCEPT ![a] = two] = [h.rec.assets EXCEPT ![a] = two]
  BY <1>2, <1>3
<1>6. [Put(h, a, one).rec EXCEPT !.assets = [h.rec.assets EXCEPT ![a] = two]] =
      [h.rec EXCEPT !.assets = [h.rec.assets EXCEPT ![a] = two]]
  BY <1>2, <1>3
<1>7. [Put(h, a, one) EXCEPT !.rec = [h.rec EXCEPT !.assets = [h.rec.assets EXCEPT ![a] = two]]] =
      [h EXCEPT !.rec = [h.rec EXCEPT !.assets = [h.rec.assets EXCEPT ![a] = two]]]
  BY <1>2, <1>3
<1>8. Put(h, a, two) = [h EXCEPT !.rec = [h.rec EXCEPT !.assets = [h.rec.assets EXCEPT ![a] = two]]]
  BY DEF Put
<1> QED BY <1>4, <1>5, <1>6, <1>7, <1>8

\* An asset is captured: its checkpoint is noted, and the next one is looked at.
LEMMA CapturedTypes ==
  ASSUME TypeInv, at.pc \in {"capture", "copy"}, at.left # << >>, NEW a, a = Head(at.left),
         NEW ckpt \in Contents, NEW file \in Int, NEW memo \in BOOLEAN,
         Captured(a, ckpt, file, memo)
  PROVE  /\ HandlerInv' /\ at'.left \in Seq(Assets) /\ at'.r = at.r
         /\ at'.pc = "capture" /\ at'.left = Tail(at.left) /\ at'.goal = at.goal
         /\ at'.rec = [at.rec EXCEPT !.assets = at'.rec.assets]
         /\ \A b \in Assets : /\ SameBaseline(at'.rec.assets[b], at.rec.assets[b])
                              /\ at'.rec.assets[b].cur = at.rec.assets[b].cur
                              /\ at'.rec.assets[b].pkgCur = at.rec.assets[b].pkgCur
<1> DEFINE asset == [at.rec.assets[a] EXCEPT !.ckpt = ckpt, !.file = file, !.memo = memo]
           rec == [at.rec EXCEPT !.assets = [@ EXCEPT ![a] = asset]]
<1>1. ~Idle /\ at.rec \in RunRecord /\ at.rec.status = "running" /\ ~at.rec.verified
      /\ at.rec.assets \in [Assets -> AssetRecord] /\ at.r \in RunIds /\ at \in Handler
      /\ at.rec.next <= Len(Plan) + 1 /\ at.goal \in {"apply", "step"}
  BY ForwardSound DEF TypeInv, HandlerInv, Staged, Forward
<1>2. a \in Assets /\ Tail(at.left) \in Seq(Assets)
  BY LeftShrinks DEF TypeInv, TypeOK
<1>3. asset \in AssetRecord /\ SameBaseline(asset, at.rec.assets[a])
      /\ asset.cur = at.rec.assets[a].cur /\ asset.pkgCur = at.rec.assets[a].pkgCur
  <2>1. at.rec.assets[a] \in AssetRecord  BY <1>1, <1>2
  <2>2. ASSUME NEW old \in AssetRecord
        PROVE  LET new == [old EXCEPT !.ckpt = ckpt, !.file = file, !.memo = memo]
               IN  /\ new \in AssetRecord /\ SameBaseline(new, old)
                   /\ new.cur = old.cur /\ new.pkgCur = old.pkgCur
    BY DEF AssetRecord, SameBaseline
  <2> QED BY <2>1, <2>2
<1>4. at' = [at EXCEPT !.pc = "capture", !.left = Tail(@), !.rec = rec]
  <2> DEFINE h == [at EXCEPT !.pc = "capture", !.left = Tail(@)]
             one == [at.rec.assets[a] EXCEPT !.ckpt = ckpt]
             two == [one EXCEPT !.file = file]
  <2>1. h.rec = at.rec /\ "rec" \in DOMAIN h /\ "assets" \in DOMAIN h.rec
        /\ a \in DOMAIN h.rec.assets /\ h = [at EXCEPT !.pc = "capture", !.left = Tail(@)]
    BY <1>1, <1>2 DEF Handler, RunRecord
  <2>2. at' = [[[h EXCEPT !.rec.assets[a].ckpt = ckpt] EXCEPT !.rec.assets[a].file = file]
                EXCEPT !.rec.assets[a].memo = memo]
    BY DEF Captured
  <2> HIDE DEF h
  <2>3. [h EXCEPT !.rec.assets[a].ckpt = ckpt] = Put(h, a, one)
    BY <2>1 DEF Put
  <2>4. [Put(h, a, one) EXCEPT !.rec.assets[a].file = file] = Put(Put(h, a, one), a, two)
    BY <2>1, PutTwice DEF Put
  <2>5. [Put(h, a, two) EXCEPT !.rec.assets[a].memo = memo] = Put(Put(h, a, two), a, asset)
    <3>1. asset = [two EXCEPT !.memo = memo]  OBVIOUS
    <3> HIDE DEF two, asset
    <3>2. Put(h, a, two).rec.assets[a] = two  BY <2>1 DEF Put
    <3> DEFINE g == Put(h, a, two)
    <3> HIDE DEF g
    <3>3. g.rec.assets[a] = two  BY <3>2 DEF g
    <3>4. [g EXCEPT !.rec.assets[a].memo = memo] = Put(g, a, asset)  BY <3>1, <3>3 DEF Put
    <3> QED BY <3>4 DEF g
  <2> HIDE DEF one, two, asset
  <2>6. "rec" \in DOMAIN h /\ "assets" \in DOMAIN h.rec /\ a \in DOMAIN h.rec.assets
    BY <2>1
  <2>7. Put(Put(h, a, one), a, two) = Put(h, a, two)  BY ONLY <2>6, PutTwice
  <2>8. Put(Put(h, a, two), a, asset) = Put(h, a, asset)  BY ONLY <2>6, PutTwice
  <2>9. at' = Put(h, a, asset)
    BY <2>2, <2>3, <2>4, <2>5, <2>7, <2>8
  <2> QED BY <2>1, <2>9 DEF Put
<1> HIDE DEF asset
<1>5. /\ rec \in RunRecord /\ rec.assets \in [Assets -> AssetRecord] /\ rec.req = at.rec.req
      /\ rec.status = "running" /\ ~rec.verified /\ rec.next = at.rec.next
      /\ rec.assets = [at.rec.assets EXCEPT ![a] = asset]
  <2>1. rec \in RunRecord /\ rec.assets \in [Assets -> AssetRecord]
    BY <1>1, <1>2, <1>3, AssetReplaced
  <2> QED BY <1>1, <2>1 DEF RunRecord
<1>6. rec = [at.rec EXCEPT !.assets = rec.assets]  BY <1>5
<1> HIDE DEF rec
<1>7. /\ at' \in Handler /\ at'.pc = "capture" /\ at'.r = at.r /\ at'.rec = rec
      /\ at'.goal = at.goal /\ at'.left = Tail(at.left)
  BY <1>1, <1>2, <1>4, <1>5 DEF Handler
<1>8. HandlerInv'
  <2>1. Plan' = Plan  BY <1>5, <1>7 DEF Plan
  <2>2. at.goal = "apply" => Steps /\ Step[1] = "edit"  BY DEF TypeInv, HandlerInv
  <2>3. at'.goal = "apply" => Steps' /\ Step'[1] = "edit"
    BY <1>5, <1>7, <2>1, <2>2 DEF Steps, Step
  <2> QED BY <1>1, <1>5, <1>7, <2>1, <2>3 DEF HandlerInv, Idle, Staged, Forward
<1> QED BY <1>2, <1>3, <1>5, <1>6, <1>7, <1>8 DEF SameBaseline

LEMMA CaptureTypes ==
  ASSUME TypeInv, NEW a \in Assets, Capture(a)  PROVE TypeInv'
<1> DEFINE asset == at.rec.assets[a]
<1>1. at.pc = "capture" /\ at.left # << >> /\ a = Head(at.left) /\ at.pc \in Forward \ {"stage"}
      /\ UNCHANGED <<inst, runs, journals, files, edits>>
  BY DEF Capture, Capturing, Forward
<1>2. asset \in AssetRecord /\ asset.ckpt \in Contents /\ asset.file \in Int /\ Absent \in Contents
  BY <1>1 DEF TypeInv, HandlerInv, Staged, AssetRecord, Contents
<1>3. ASSUME Captured(a, Absent, asset.file, FALSE), UNCHANGED <<mem, dirty, pkg>>
      PROVE  TypeInv'
  BY <1>1, <1>2, <1>3, CapturedTypes, GoesOnTypes DEF TypeInv, TypeOK
<1>4. ASSUME Captured(a, asset.ckpt, asset.file, TRUE), UNCHANGED <<mem, dirty, pkg>>
      PROVE  TypeInv'
  BY <1>1, <1>2, <1>4, CapturedTypes, GoesOnTypes DEF TypeInv, TypeOK
<1>5. ASSUME pkg' = [pkg EXCEPT ![a] = mem[a]], at' = [at EXCEPT !.pc = "copy"],
             UNCHANGED <<mem, dirty>>
      PROVE  TypeInv'
  <2>1. at \in Handler  BY DEF TypeInv, HandlerInv
  <2>2. /\ at' \in Handler /\ at'.pc = "copy" /\ at'.rec = at.rec /\ at'.r = at.r
        /\ at'.left = at.left /\ at'.goal = at.goal
    BY <1>5, <2>1 DEF Handler
  <2>3. HandlerInv'
    BY <1>1, <2>2 DEF TypeInv, HandlerInv, Idle, Staged, Forward, Plan, Steps, Step
  <2>4. pkg' \in [Assets -> Contents]  BY <1>5 DEF TypeInv, TypeOK
  <2> QED BY <1>1, <1>5, <2>2, <2>3, <2>4, GoesOnTypes DEF TypeInv, TypeOK
<1>6. ASSUME FailRun, UNCHANGED pkg  PROVE TypeInv'
  BY <1>1, <1>6, FailRunTypes, GoesOnTypes DEF TypeInv, TypeOK
<1> QED BY <1>3, <1>4, <1>5, <1>6 DEF Capture

LEMMA CopyTypes ==
  ASSUME TypeInv, CopyAndRestore  PROVE TypeInv'
<1> DEFINE a == Head(at.left)
           baseline == [pkg EXCEPT ![a] = at.rec.assets[a].snapshot]
<1>1. at.pc = "copy" /\ at.left # << >> /\ at.pc \in Forward \ {"stage"}
      /\ UNCHANGED <<inst, runs, journals, edits>>
  BY DEF CopyAndRestore, Forward, TypeInv, HandlerInv
<1>2. a \in Assets  BY <1>1, LeftShrinks DEF TypeInv, TypeOK
<1>3. at.rec.assets[a] \in AssetRecord /\ at.rec \in RunRecord
  BY <1>1, <1>2 DEF TypeInv, HandlerInv, Staged, Idle
<1>4. baseline \in [Assets -> Contents] /\ mem[a] \in Contents /\ at.rec.cid \in Int
  BY <1>2, <1>3 DEF TypeInv, TypeOK, AssetRecord, RunRecord
<1>5. \/ /\ pkg' = baseline
         /\ Captured(a, mem[a], at.rec.cid, TRUE)
         /\ UNCHANGED <<mem, dirty>>
      \/ pkg' \in {pkg, baseline} /\ FailRun
  BY DEF CopyAndRestore
<1> HIDE DEF baseline, a
<1>6. ASSUME pkg' = baseline, Captured(a, mem[a], at.rec.cid, TRUE), UNCHANGED <<mem, dirty>>
      PROVE  TypeInv'
  <2>1. a = Head(at.left)  BY DEF a
  <2>2. HandlerInv' /\ at'.left \in Seq(Assets) /\ at'.r = at.r
    BY <1>1, <1>4, <1>6, <2>1, CapturedTypes
  <2> QED BY <1>1, <1>4, <1>6, <2>2, GoesOnTypes DEF TypeInv, TypeOK
<1>7. ASSUME pkg' \in {pkg, baseline}, FailRun  PROVE TypeInv'
  BY <1>1, <1>4, <1>7, FailRunTypes, GoesOnTypes DEF TypeInv, TypeOK
<1> QED BY <1>5, <1>6, <1>7

LEMMA SaveCheckpointTypes ==
  ASSUME TypeInv, SaveCheckpoint  PROVE TypeInv'
<1>1. at.pc = "capture" /\ at.pc \in Forward \ {"stage"} /\ UNCHANGED <<inst, pkg, files, edits>>
  BY DEF SaveCheckpoint, Forward
<1>2. ~Idle /\ Sound(at.rec) /\ at.rec.status = "running" /\ ~at.rec.verified /\ at.r \in RunIds
  BY <1>1, ForwardSound DEF TypeInv, HandlerInv
<1>3. PICK s \in SaveRun(at.r, at.rec) :
        /\ journals' = s.journals
        /\ IF s.ok
           THEN /\ runs' = With(runs, at.r, at.rec)
                /\ at' = [Stopped EXCEPT !.pc = at.goal, !.r = at.r, !.rec = at.rec]
                /\ UNCHANGED <<mem, dirty>>
           ELSE FailRun /\ UNCHANGED runs
  BY DEF SaveCheckpoint
<1>4. CASE s.ok
  <2>1. /\ runs' = With(runs, at.r, at.rec) /\ UNCHANGED <<mem, dirty>>
        /\ at' = [Stopped EXCEPT !.pc = at.goal, !.r = at.r, !.rec = at.rec]
    BY <1>3, <1>4
  <2>2. Stopped \in Handler /\ Stopped.left = << >>  BY DEF Stopped, Handler
  <2>3. at.goal \in {"apply", "step"} /\ at.rec \in RunRecord /\ at.r \in 0..MaxRuns
    BY <1>1, <1>2 DEF TypeInv, HandlerInv, Handler
  <2>4. at' \in Handler /\ at'.pc = at.goal /\ at'.r = at.r /\ at'.rec = at.rec /\ at'.left = << >>
    BY <2>1, <2>2, <2>3 DEF Handler
  <2>5. HandlerInv' /\ at'.left \in Seq(Assets)
    BY <1>1, <1>2, <2>3, <2>4 DEF TypeInv, HandlerInv, Idle, Staged, Forward, Plan, Steps, Step
  <2>6. /\ RecordsInv' /\ (DOMAIN runs \cup DOMAIN journals)' \subseteq RunIds
        /\ \A r \in DOMAIN runs' : r # at'.r => runs'[r].status \in Terminal
    BY <1>2, <1>3, <2>1, <2>4, RunGoesOnTypes
  <2> QED BY <1>1, <2>1, <2>5, <2>6 DEF TypeInv, TypeOK
<1>5. CASE ~s.ok
  <2>1. FailRun /\ UNCHANGED runs /\ journals' = s.journals  BY <1>3, <1>5
  <2>2. /\ HandlerInv' /\ at'.left \in Seq(Assets) /\ at'.r = at.r
        /\ mem' \in [Assets -> Contents] /\ dirty' \subseteq Assets
    BY <1>1, <2>1, FailRunTypes
  <2>3. DOMAIN journals' \subseteq RunIds /\ \A k \in DOMAIN journals' : Sound(journals'[k])
    BY <1>2, <2>1, JournalWritten
  <2> QED BY <1>1, <2>1, <2>2, <2>3 DEF TypeInv, TypeOK, RecordsInv
<1> QED BY <1>3, <1>4, <1>5, SaveRunWrites

\* The run is completed.
LEMMA CompletedTypes ==
  ASSUME TypeInv, at.pc \in Forward \ {"stage"}, Completed,
         UNCHANGED <<inst, mem, dirty, pkg, files, edits>>
  PROVE  TypeInv'
<1> DEFINE assets == [a \in Assets |-> [at.rec.assets[a] EXCEPT !.cur = mem[a]]]
           rec == [at.rec EXCEPT !.status = "completed", !.avail = TRUE, !.assets = assets]
<1>1. ~Idle /\ Sound(at.rec) /\ at.rec \in RunRecord /\ ~at.rec.verified
      /\ at.rec.assets \in [Assets -> AssetRecord]
  BY ForwardSound DEF Forward, Staged, Sound, TypeInv, HandlerInv
<1>2. assets \in [Assets -> AssetRecord]
  BY <1>1 DEF TypeInv, TypeOK, AssetRecord
<1>3. PICK s \in SaveRun(at.r, rec) :
        journals' = s.journals /\ runs' = With(runs, at.r, rec) /\ at' = Stopped
  BY DEF Completed
<1> HIDE DEF assets
<1>4. Sound(rec) /\ rec.status \in Terminal
  BY <1>1, <1>2 DEF Sound, RunRecord, Terminal
<1> HIDE DEF rec
<1>5. /\ HandlerInv' /\ RecordsInv' /\ at'.left \in Seq(Assets)
      /\ (DOMAIN runs \cup DOMAIN journals)' \subseteq RunIds
      /\ \A r \in DOMAIN runs' : r # at'.r => runs'[r].status \in Terminal
  BY <1>1, <1>3, <1>4, RunEndsTypes
<1> QED BY <1>5 DEF TypeInv, TypeOK

LEMMA StepsEndTypes ==
  ASSUME TypeInv, StepsEnd  PROVE TypeInv'
<1>1. at.pc = "step" /\ at.pc \in Forward \ {"stage"} /\ UNCHANGED <<inst, pkg, files, edits>>
  BY DEF StepsEnd, Forward
<1>2. ASSUME FailRun, UNCHANGED <<runs, journals>>  PROVE TypeInv'
  BY <1>1, <1>2, FailRunTypes, GoesOnTypes DEF TypeInv, TypeOK
<1>3. ASSUME Completed, UNCHANGED <<mem, dirty>>  PROVE TypeInv'
  BY <1>1, <1>3, CompletedTypes
<1>4. ASSUME at' = Goes("save", at.rec, AssetSet), UNCHANGED <<mem, dirty, runs, journals>>
      PROVE  TypeInv'
  <2>1. at \in Handler /\ at.rec \in RunRecord  BY <1>1 DEF TypeInv, HandlerInv, Idle
  <2>2. /\ at' \in Handler /\ at'.pc = "save" /\ at'.r = at.r /\ at'.rec = at.rec
        /\ at'.left = AssetSet
    BY <1>4, <2>1, AssetSequence DEF Goes, Handler
  <2>3. HandlerInv'
    BY <1>1, <2>2 DEF TypeInv, HandlerInv, Idle, Staged, Forward, Plan
  <2> QED BY <1>1, <1>4, <2>2, <2>3, AssetSequence, GoesOnTypes DEF TypeInv, TypeOK
<1> QED BY <1>2, <1>3, <1>4 DEF StepsEnd

LEMMA SaveTypes ==
  ASSUME TypeInv, Save  PROVE TypeInv'
<1> DEFINE a == Head(at.left)
           asset == [at.rec.assets[a] EXCEPT !.cur = mem[a], !.pkgCur = mem[a]]
           rec == [at.rec EXCEPT !.assets[a].cur = mem[a], !.assets[a].pkgCur = mem[a]]
<1>1. at.pc = "save" /\ at.left # << >> /\ at.pc \in Forward \ {"stage"}
      /\ UNCHANGED <<inst, runs, journals, files, edits>>
  BY DEF Save, Forward
<1>2. a \in Assets /\ Tail(at.left) \in Seq(Assets)  BY <1>1, LeftShrinks DEF TypeInv, TypeOK
<1>3. ~Idle /\ at.rec \in RunRecord /\ at.rec.status = "running" /\ ~at.rec.verified
      /\ at.rec.assets \in [Assets -> AssetRecord] /\ at.r \in RunIds /\ at \in Handler
      /\ at.rec.next <= Len(Plan) + 1
  BY <1>1, ForwardSound DEF TypeInv, HandlerInv, Staged, Forward
<1>4. mem[a] \in Contents  BY <1>2 DEF TypeInv, TypeOK
<1>5. \/ /\ pkg' = [pkg EXCEPT ![a] = mem[a]] /\ dirty' = dirty \ {a}
         /\ at' = Goes("save", rec, Tail(at.left))
         /\ UNCHANGED mem
      \/ FailRun /\ UNCHANGED pkg
  BY DEF Save
<1>6. ASSUME FailRun, UNCHANGED pkg  PROVE TypeInv'
  BY <1>1, <1>6, FailRunTypes, GoesOnTypes DEF TypeInv, TypeOK
<1> HIDE DEF a
<1>7. rec = [at.rec EXCEPT !.assets = [@ EXCEPT ![a] = asset]]
  BY <1>2, <1>3 DEF RunRecord, AssetRecord
<1>8. asset \in AssetRecord  BY <1>2, <1>3, <1>4 DEF AssetRecord
<1> HIDE DEF asset, rec
<1>9. /\ rec \in RunRecord /\ rec.assets \in [Assets -> AssetRecord] /\ rec.req = at.rec.req
      /\ rec.status = "running" /\ ~rec.verified /\ rec.next = at.rec.next
  <2>1. rec \in RunRecord /\ rec.assets \in [Assets -> AssetRecord]
    BY <1>2, <1>3, <1>7, <1>8, AssetReplaced
  <2> QED BY <1>3, <1>7, <2>1 DEF RunRecord
<1>10. ASSUME pkg' = [pkg EXCEPT ![a] = mem[a]], dirty' = dirty \ {a},
              at' = Goes("save", rec, Tail(at.left)), UNCHANGED mem
       PROVE  TypeInv'
  <2>1. /\ at' \in Handler /\ at'.pc = "save" /\ at'.r = at.r /\ at'.rec = rec
        /\ at'.left = Tail(at.left)
    BY <1>2, <1>3, <1>9, <1>10 DEF Goes, Handler
  <2>2. HandlerInv'
    <3>1. Plan' = Plan  BY <1>9, <2>1 DEF Plan
    <3> QED BY <1>3, <1>9, <2>1, <3>1 DEF HandlerInv, Idle, Staged, Forward
  <2>3. pkg' \in [Assets -> Contents] /\ dirty' \subseteq Assets
        /\ mem' \in [Assets -> Contents]
    BY <1>2, <1>4, <1>10 DEF TypeInv, TypeOK
  <2> QED BY <1>1, <1>2, <2>1, <2>2, <2>3, GoesOnTypes
<1> QED BY <1>5, <1>6, <1>10

LEMMA SaveEndsTypes ==
  ASSUME TypeInv, SaveEnds  PROVE TypeInv'
BY CompletedTypes DEF SaveEnds, Forward

\* A run that is known, in memory or by its journal.
LEMMA LoadedRun ==
  ASSUME TypeInv, NEW r \in RunIds, r \in Known
  PROVE  Sound(LoadRun(r)) /\ LoadRun(r) \in RunRecord
BY DEF TypeInv, RecordsInv, Known, LoadRun, Sound

\* An idle handler has no run, so those in memory have ended.
LEMMA IdleRuns ==
  ASSUME TypeInv, Idle
  PROVE  at.r = 0 /\ \A k \in DOMAIN runs : runs[k].status \in Terminal
<1>1. at.r = 0 /\ \A k \in DOMAIN runs : k # 0  BY DEF TypeInv, TypeOK, HandlerInv, RunIds
<1> QED BY <1>1 DEF TypeInv, TypeOK

LEMMA RollbackRunTypes ==
  ASSUME TypeInv, NEW r \in RunIds, RollbackRun(r)  PROVE TypeInv'
<1> DEFINE rec == LoadRun(r)
<1>1. Idle /\ r \in Known /\ rec.assets # << >> /\ RollingBack(rec, r, FALSE)
      /\ UNCHANGED <<inst, pkg, runs, journals, files, edits>>
  BY DEF RollbackRun, CanRollback
<1>2. rec \in RunRecord /\ rec.assets \in [Assets -> AssetRecord]
  BY <1>1, LoadedRun DEF RunRecord
<1> HIDE DEF rec
<1>3. at \in Handler /\ TypeOK  BY DEF TypeInv, HandlerInv
<1>4. /\ at' \in Handler /\ at'.pc = "restore" /\ at'.r = r /\ at'.rec = rec
      /\ at'.left = Reverse(AssetSet)
      /\ mem' \in [Assets -> Contents] /\ dirty' \subseteq Assets
  BY <1>1, <1>2, <1>3, RollingBackTypes
<1>5. HandlerInv'
  BY <1>2, <1>4 DEF HandlerInv, Idle, Staged, Forward
<1>6. RecordsInv' /\ (DOMAIN runs \cup DOMAIN journals)' \subseteq RunIds
      /\ \A k \in DOMAIN runs' : runs'[k].status \in Terminal
  BY <1>1, IdleRuns DEF TypeInv, TypeOK, RecordsInv
<1> QED BY <1>1, <1>4, <1>5, <1>6, AssetSequence DEF TypeInv, TypeOK

\* An asset is treated: its digests are those of what it is now.
LEMMA TreatedTypes ==
  ASSUME TypeInv, at.pc = "restore", at.left # << >>, NEW a, a = Head(at.left),
         mem'[a] \in Contents, pkg'[a] \in Contents, NEW ok \in BOOLEAN, Treated(a, ok)
  PROVE  /\ HandlerInv' /\ at'.left \in Seq(Assets) /\ at'.r = at.r
         /\ at'.pc = "restore" /\ at'.left = Tail(at.left) /\ at'.ok = (at.ok /\ ok)
         /\ at'.rec = [at.rec EXCEPT !.assets = at'.rec.assets]
         /\ \A b \in Assets : /\ SameBaseline(at'.rec.assets[b], at.rec.assets[b])
                              /\ b # a => at'.rec.assets[b] = at.rec.assets[b]
         /\ at'.rec.assets[a].cur = mem'[a] /\ at'.rec.assets[a].pkgCur = pkg'[a]
<1> DEFINE one == [at.rec.assets[a] EXCEPT !.cur = mem'[a]]
           asset == [one EXCEPT !.pkgCur = pkg'[a]]
           rec == [at.rec EXCEPT !.assets = [@ EXCEPT ![a] = asset]]
           h == [at EXCEPT !.left = Tail(@), !.ok = @ /\ ok]
<1>1. ~Idle /\ at.rec \in RunRecord /\ at.rec.assets \in [Assets -> AssetRecord]
      /\ at.r \in RunIds /\ at \in Handler
  BY DEF TypeInv, HandlerInv, Staged, Idle
<1>2. a \in Assets /\ Tail(at.left) \in Seq(Assets)  BY LeftShrinks DEF TypeInv, TypeOK
<1>3. asset \in AssetRecord /\ SameBaseline(asset, at.rec.assets[a])
      /\ asset.cur = mem'[a] /\ asset.pkgCur = pkg'[a]
  <2>1. at.rec.assets[a] \in AssetRecord  BY <1>1, <1>2
  <2>2. ASSUME NEW old \in AssetRecord
        PROVE  LET new == [[old EXCEPT !.cur = mem'[a]] EXCEPT !.pkgCur = pkg'[a]]
               IN  /\ new \in AssetRecord /\ SameBaseline(new, old)
                   /\ new.cur = mem'[a] /\ new.pkgCur = pkg'[a]
    BY DEF AssetRecord, SameBaseline
  <2> QED BY <2>1, <2>2
<1>4. at' = [h EXCEPT !.rec = rec]
  <2>1. h.rec = at.rec /\ "rec" \in DOMAIN h /\ "assets" \in DOMAIN h.rec
        /\ a \in DOMAIN h.rec.assets
    BY <1>1, <1>2 DEF Handler, RunRecord
  <2>2. at' = [[h EXCEPT !.rec.assets[a].cur = mem'[a]] EXCEPT !.rec.assets[a].pkgCur = pkg'[a]]
    BY DEF Treated
  <2> HIDE DEF h
  <2>3. [h EXCEPT !.rec.assets[a].cur = mem'[a]] = Put(h, a, one)
    BY <2>1 DEF Put
  <2> HIDE DEF one
  <2>4. [Put(h, a, one) EXCEPT !.rec.assets[a].pkgCur = pkg'[a]] = Put(Put(h, a, one), a, asset)
    <3>1. Put(h, a, one).rec.assets[a] = one  BY <2>1 DEF Put
    <3> DEFINE g == Put(h, a, one)
    <3> HIDE DEF g
    <3>2. g.rec.assets[a] = one  BY <3>1 DEF g
    <3>3. [g EXCEPT !.rec.assets[a].pkgCur = pkg'[a]] = Put(g, a, asset)  BY <3>2 DEF Put
    <3> QED BY <3>3 DEF g
  <2> HIDE DEF asset
  <2>5. "rec" \in DOMAIN h /\ "assets" \in DOMAIN h.rec /\ a \in DOMAIN h.rec.assets
    BY <2>1
  <2>6. Put(Put(h, a, one), a, asset) = Put(h, a, asset)  BY ONLY <2>5, PutTwice
  <2>7. at' = Put(h, a, asset)  BY <2>2, <2>3, <2>4, <2>6
  <2> QED BY <2>1, <2>7 DEF Put
<1> HIDE DEF asset
<1>5. rec \in RunRecord /\ rec.assets \in [Assets -> AssetRecord]
      /\ rec.assets = [at.rec.assets EXCEPT ![a] = asset]
  <2>1. rec \in RunRecord /\ rec.assets \in [Assets -> AssetRecord]
    BY <1>1, <1>2, <1>3, AssetReplaced
  <2> QED BY <1>1, <2>1 DEF RunRecord
<1>6. rec = [at.rec EXCEPT !.assets = rec.assets]  BY <1>5
<1> HIDE DEF rec
<1>7. /\ at' \in Handler /\ at'.pc = "restore" /\ at'.r = at.r /\ at'.rec = rec
      /\ at'.left = Tail(at.left) /\ at'.ok = (at.ok /\ ok)
  BY <1>1, <1>2, <1>4, <1>5 DEF Handler
<1>8. HandlerInv'
  BY <1>1, <1>5, <1>7 DEF HandlerInv, Idle, Staged, Forward
<1> QED BY <1>2, <1>3, <1>5, <1>6, <1>7, <1>8 DEF SameBaseline

LEMMA RestoreTypes ==
  ASSUME TypeInv, NEW a \in Assets, Restore(a)  PROVE TypeInv'
<1> DEFINE snapshot == at.rec.assets[a].snapshot
           restored == [pkg EXCEPT ![a] = snapshot]
           now == SameStructure(snapshot, at.rec.assets[a].before)
<1>1. at.pc = "restore" /\ at.left # << >> /\ a = Head(at.left)
      /\ UNCHANGED <<inst, runs, journals, files, edits>>
  BY DEF Restore
<1>2. snapshot \in Contents /\ mem[a] \in Contents /\ pkg[a] \in Contents
      /\ restored \in [Assets -> Contents] /\ now \in BOOLEAN
  <2>1. now \in BOOLEAN  BY DEF SameStructure
  <2>2. at.rec.assets[a] \in AssetRecord
    BY <1>1 DEF TypeInv, HandlerInv, Staged
  <2>3. mem \in [Assets -> Contents] /\ pkg \in [Assets -> Contents]
    BY DEF TypeInv, TypeOK
  <2> HIDE DEF now
  <2> QED BY <2>1, <2>2, <2>3 DEF AssetRecord
<1>3. /\ mem' \in [Assets -> Contents] /\ pkg' \in [Assets -> Contents] /\ dirty' \subseteq Assets
      /\ Treated(a, TRUE) \/ Treated(a, FALSE) \/ Treated(a, now)
  BY <1>2 DEF Restore, TypeInv, TypeOK
<1>4. HandlerInv' /\ at'.left \in Seq(Assets) /\ at'.r = at.r
  <2>1. mem'[a] \in Contents /\ pkg'[a] \in Contents  BY <1>3
  <2>2. CASE Treated(a, TRUE)  BY <1>1, <2>1, <2>2, TreatedTypes
  <2>3. CASE Treated(a, FALSE)  BY <1>1, <2>1, <2>3, TreatedTypes
  <2> HIDE DEF now
  <2>4. CASE Treated(a, now)  BY <1>1, <1>2, <2>1, <2>4, TreatedTypes
  <2> QED BY <1>3, <2>2, <2>3, <2>4
<1> QED BY <1>1, <1>3, <1>4, GoesOnTypes

\* The end of a rollback is a sound record that has ended.
LEMMA RolledBackSound ==
  ASSUME TypeInv, at.pc = "restore"
  PROVE  /\ Sound(RolledBack) /\ RolledBack.status \in Terminal /\ RolledBack.avail = FALSE
         /\ RolledBack.verified = at.ok /\ RolledBack.assets = at.rec.assets
         /\ RolledBack.req = at.rec.req /\ ~Idle /\ at.r \in RunIds
         /\ at.ok => RolledBack.status # "blocked"
<1>1. ~Idle /\ at.rec \in RunRecord /\ at.ok \in BOOLEAN /\ at.r \in RunIds
  BY DEF TypeInv, HandlerInv, Idle, Handler
<1> DEFINE status == IF ~at.ok THEN "blocked" ELSE IF at.auto THEN "failed" ELSE "rolledBack"
<1>2. status \in Terminal /\ status # "running" /\ (at.ok => status # "blocked")
  BY DEF Terminal
<1>3. RolledBack = [at.rec EXCEPT !.verified = at.ok, !.avail = FALSE, !.status = status]
  BY DEF RolledBack
<1> HIDE DEF status
<1> QED BY <1>1, <1>2, <1>3 DEF Sound, RunRecord

LEMMA RestoreEndsTypes ==
  ASSUME TypeInv, RestoreEnds  PROVE TypeInv'
<1>1. at.pc = "restore" /\ UNCHANGED <<inst, mem, dirty, pkg, files, edits>>
  BY DEF RestoreEnds
<1>2. PICK s \in SaveRun(at.r, RolledBack) :
        journals' = s.journals /\ runs' = With(runs, at.r, RolledBack) /\ at' = Stopped
  BY DEF RestoreEnds
<1>3. ~Idle /\ Sound(RolledBack) /\ RolledBack.status \in Terminal
  BY <1>1, RolledBackSound
<1>4. /\ HandlerInv' /\ RecordsInv' /\ at'.left \in Seq(Assets)
      /\ (DOMAIN runs \cup DOMAIN journals)' \subseteq RunIds
      /\ \A r \in DOMAIN runs' : r # at'.r => runs'[r].status \in Terminal
  BY <1>2, <1>3, RunEndsTypes
<1> QED BY <1>1, <1>4 DEF TypeInv, TypeOK

LEMMA ResumeRunTypes ==
  ASSUME TypeInv, NEW r \in RunIds, ResumeRun(r)  PROVE TypeInv'
<1> DEFINE old == LoadRun(r)
           rec == FromBaseline(old)
           hand == [Stopped EXCEPT !.pc = "step", !.r = r, !.rec = rec]
<1>1. Idle /\ r \in Known /\ old.assets # << >> /\ old.status = "running"
      /\ runs' = With(runs, r, rec) /\ at' = hand
      /\ UNCHANGED <<inst, mem, dirty, pkg, journals, files, edits>>
  BY DEF ResumeRun, CanResume
<1>2. Sound(old) /\ old \in RunRecord  BY <1>1, LoadedRun
<1>3. inst \in 0..MaxCrashes  BY DEF TypeInv, TypeOK
<1> HIDE DEF old
<1> DEFINE assets == [a \in Assets |-> [old.assets[a] EXCEPT !.undo = mem[a]]]
<1>11. old.assets \in [Assets -> AssetRecord] /\ assets \in [Assets -> AssetRecord]
  <2>1. old.assets \in [Assets -> AssetRecord]  BY <1>1, <1>2 DEF RunRecord
  <2>2. mem \in [Assets -> Contents]  BY DEF TypeInv, TypeOK
  <2> QED BY <2>1, <2>2 DEF AssetRecord
<1>12. rec = [[old EXCEPT !.inst = inst, !.assets = assets] EXCEPT !.next = 1]
  BY <1>2 DEF FromBaseline, Reopened, RunRecord
<1> HIDE DEF assets
<1>4. /\ rec \in RunRecord /\ rec.assets = assets /\ rec.next = 1 /\ rec.inst = inst
      /\ rec.req = old.req /\ rec.status = "running" /\ ~rec.verified
  <2>1. rec = [old EXCEPT !.inst = inst, !.assets = assets, !.next = 1]  BY <1>12
  <2>2. old.status = "running" /\ ~old.verified  BY <1>1, <1>2 DEF Sound
  <2> HIDE DEF rec
  <2>3. 1 \in Nat \ {0}  OBVIOUS
  <2>4. rec \in RunRecord  BY ONLY <1>2, <1>3, <1>11, <2>1, <2>3 DEF RunRecord
  <2>5. /\ rec.assets = assets /\ rec.next = 1 /\ rec.inst = inst
        /\ rec.req = old.req /\ rec.status = old.status /\ rec.verified = old.verified
    BY ONLY <1>2, <2>1 DEF RunRecord
  <2> QED BY <2>2, <2>4, <2>5
<1>5. Len(Workflow[rec.req]) \in Nat
  <2>1. rec.req \in Requests  BY <1>4 DEF RunRecord
  <2> QED BY <2>1, LenProperties
<1>6. Sound(rec)  BY <1>4, <1>5 DEF Sound
<1>7. rec.assets \in [Assets -> AssetRecord]  BY <1>4, <1>11
<1> HIDE DEF rec
<1>8. hand \in Handler /\ hand.pc = "step" /\ hand.r = r /\ hand.rec = rec /\ hand.left = << >>
  <2>1. r \in 0..MaxRuns  BY DEF RunIds
  <2>2. Stopped \in Handler /\ Stopped.left = << >>  BY DEF Stopped, Handler
  <2>3. hand = [Stopped EXCEPT !.pc = "step", !.r = r, !.rec = rec]  OBVIOUS
  <2> HIDE DEF hand
  <2> QED BY <1>4, <2>1, <2>2, <2>3 DEF Handler
<1> HIDE DEF hand
<1>9. HandlerInv' /\ at'.left \in Seq(Assets)
  <2>1. Plan' = Workflow[rec.req]  BY <1>1, <1>8 DEF Plan
  <2>2. at'.rec.next <= Len(Plan') + 1  BY <1>1, <1>4, <1>5, <1>8, <2>1
  <2> QED BY <1>1, <1>4, <1>7, <1>8, <2>2 DEF HandlerInv, Idle, Staged
<1>10. /\ DOMAIN runs' \subseteq RunIds /\ \A k \in DOMAIN runs' : Sound(runs'[k])
       /\ \A k \in DOMAIN runs' : k # at'.r => runs'[k].status \in Terminal
  <2>1. \A k \in DOMAIN runs : k # r => runs[k].status \in Terminal  BY <1>1, IdleRuns
  <2>2. at'.r = r  BY <1>1, <1>8
  <2> QED BY <1>1, <1>6, <2>1, <2>2, RunsWritten
<1> QED BY <1>1, <1>9, <1>10 DEF TypeInv, TypeOK, RecordsInv

LEMMA GetStatusTypes ==
  ASSUME TypeInv, NEW r \in RunIds, GetStatus(r)  PROVE TypeInv'
<1> DEFINE blocked == [LoadRun(r) EXCEPT !.status = "blocked", !.verified = FALSE]
<1>1. Idle /\ r \in Known /\ LoadRun(r).assets = << >>
      /\ UNCHANGED <<inst, mem, dirty, pkg, files, at, edits>>
  BY DEF GetStatus
<1>2. PICK s \in SaveRun(r, blocked) :
        /\ journals' = s.journals
        /\ runs' = IF s.ok THEN With(runs, r, blocked) ELSE runs
  BY DEF GetStatus
<1>3. Sound(blocked) /\ blocked.status \in Terminal
  <2>1. LoadRun(r) \in RunRecord  BY <1>1, LoadedRun
  <2> QED BY <1>1, <2>1 DEF Sound, RunRecord, Terminal
<1> HIDE DEF blocked
<1>4. DOMAIN journals' \subseteq RunIds /\ \A k \in DOMAIN journals' : Sound(journals'[k])
  BY <1>2, <1>3, JournalWritten
<1>5. /\ DOMAIN runs' \subseteq RunIds /\ \A k \in DOMAIN runs' : Sound(runs'[k])
      /\ \A k \in DOMAIN runs' : k # at'.r => runs'[k].status \in Terminal
  <2>1. \A k \in DOMAIN runs : runs[k].status \in Terminal  BY <1>1, IdleRuns
  <2>2. CASE runs' = With(runs, r, blocked)
    <3>1. /\ DOMAIN With(runs, r, blocked) \subseteq RunIds
          /\ \A k \in DOMAIN With(runs, r, blocked) : Sound(With(runs, r, blocked)[k])
          /\ \A k \in DOMAIN With(runs, r, blocked) :
               k # 0 => With(runs, r, blocked)[k].status \in Terminal
      BY <1>3, <2>1, RunsWritten
    <3>2. at'.r = 0  BY <1>1, IdleRuns
    <3> QED BY <2>2, <3>1, <3>2
  <2>3. CASE runs' = runs  BY <2>1, <2>3 DEF TypeInv, TypeOK, RecordsInv
  <2> QED BY <1>2, <2>2, <2>3
<1>6. HandlerInv'
  BY <1>1 DEF TypeInv, HandlerInv, Idle, Staged, Forward, Plan, Steps, Step
<1> QED BY <1>1, <1>4, <1>5, <1>6 DEF TypeInv, TypeOK, RecordsInv

LEMMA InitTypes == Init => TypeInv
<1> SUFFICES ASSUME Init  PROVE TypeInv
  OBVIOUS
<1>1. mem \in [Assets -> Contents]
  <2>1. << >> \in Seq(Int)  OBVIOUS
  <2> QED BY <2>1 DEF Init, Contents
<1>2. DOMAIN runs = {} /\ DOMAIN journals = {}  BY DEF Init
<1>3. Stopped \in Handler /\ Stopped.pc = "idle" /\ Stopped.r = 0 /\ Stopped.left = << >>
  BY DEF Stopped, Handler
<1>4. HandlerInv  BY <1>3 DEF Init, HandlerInv, Idle, Staged, Forward
<1>5. RecordsInv  BY <1>2 DEF RecordsInv
<1> QED BY <1>1, <1>2, <1>3, <1>4, <1>5 DEF Init, TypeInv, TypeOK

LEMMA NextTypes == TypeInv /\ [Next]_vars => TypeInv'
<1> SUFFICES ASSUME TypeInv, [Next]_vars  PROVE TypeInv'
  OBVIOUS
<1>1. ASSUME NEW a \in Assets, UserEdits(a) \/ UserSaves(a)  PROVE TypeInv'
  BY <1>1, UsersTypes
<1>2. ASSUME NEW a \in Assets, Capture(a)  PROVE TypeInv'  BY <1>2, CaptureTypes
<1>3. ASSUME NEW a \in Assets, Restore(a)  PROVE TypeInv'  BY <1>3, RestoreTypes
<1>4. ASSUME NEW req \in Requests, Execute(req)  PROVE TypeInv'  BY <1>4, ExecuteTypes
<1>5. ASSUME NEW r \in RunIds, RollbackRun(r)  PROVE TypeInv'  BY <1>5, RollbackRunTypes
<1>6. ASSUME NEW r \in RunIds, ResumeRun(r)  PROVE TypeInv'  BY <1>6, ResumeRunTypes
<1>7. ASSUME NEW r \in RunIds, GetStatus(r)  PROVE TypeInv'  BY <1>7, GetStatusTypes
<1>8. CASE Stage  BY <1>8, StageTypes
<1>9. CASE Prepare  BY <1>9, PrepareTypes
<1>10. CASE Apply  BY <1>10, ApplyTypes
<1>11. CASE Fail  BY <1>11, FailTypes
<1>12. CASE CopyAndRestore  BY <1>12, CopyTypes
<1>13. CASE SaveCheckpoint  BY <1>13, SaveCheckpointTypes
<1>14. CASE StepsEnd  BY <1>14, StepsEndTypes
<1>15. CASE Save  BY <1>15, SaveTypes
<1>16. CASE SaveEnds  BY <1>16, SaveEndsTypes
<1>17. CASE RestoreEnds  BY <1>17, RestoreEndsTypes
<1>18. CASE Crash  BY <1>18, CrashTypes
<1>19. CASE UNCHANGED vars
  BY <1>19 DEF vars, TypeInv, TypeOK, HandlerInv, RecordsInv, Idle, Staged, Forward, Plan,
               Steps, Step
<1> QED
  BY <1>1, <1>2, <1>3, <1>4, <1>5, <1>6, <1>7, <1>8, <1>9, <1>10, <1>11, <1>12, <1>13, <1>14,
     <1>15, <1>16, <1>17, <1>18, <1>19
  DEF Next

LEMMA TypesAlways == Spec => []TypeInv
BY InitTypes, NextTypes, PTL DEF Spec

\* Every state has its types, and a run of this Editor that no handler is working on has
\* ended, whatever steps fail and whenever the Editor crashes.
THEOREM TypeCorrect == Spec => []TypeOK
<1>1. TypeInv => TypeOK  BY DEF TypeInv
<1> QED BY <1>1, TypesAlways, PTL

---------------------------------------------------------------------------
(* What the work on a run leaves alone.                                    *)

\* A run that fails is rolled back as it is, from its last asset to its first.
LEMMA FailRunKeeps ==
  ASSUME TypeInv, at.pc \in Forward \ {"stage"}, FailRun
  PROVE  /\ at'.pc = "restore" /\ at'.r = at.r /\ at'.left = Reverse(AssetSet)
         /\ at'.rec.req = at.rec.req /\ at'.rec.assets = at.rec.assets
         /\ at.rec.assets \in [Assets -> AssetRecord]
         /\ \/ UNCHANGED <<mem, dirty>>
            \/ /\ mem' = [a \in Assets |-> at.rec.assets[a].undo]
               /\ dirty' = dirty \cup {a \in Assets : mem[a] # mem'[a]}
<1> DEFINE rec == [at.rec EXCEPT !.status = "failed"]
<1>1. at.rec \in RunRecord /\ at \in Handler /\ at.rec.assets \in [Assets -> AssetRecord]
  BY ForwardSound DEF TypeInv, HandlerInv, Forward, Staged
<1>2. rec.assets = at.rec.assets /\ rec.req = at.rec.req  BY <1>1 DEF RunRecord
<1>3. at' = [at EXCEPT !.pc = "restore", !.r = at.r, !.rec = rec, !.left = Reverse(AssetSet),
                       !.ok = TRUE, !.auto = TRUE]
      /\ \/ UNCHANGED <<mem, dirty>>
         \/ /\ mem' = [a \in Assets |-> rec.assets[a].undo]
            /\ dirty' = dirty \cup {a \in Assets : mem[a] # mem'[a]}
  BY DEF FailRun, RollingBack
<1> HIDE DEF rec
<1>4. at'.pc = "restore" /\ at'.r = at.r /\ at'.left = Reverse(AssetSet) /\ at'.rec = rec
  BY ONLY <1>1, <1>3 DEF Handler
<1> QED BY <1>1, <1>2, <1>3, <1>4

\* The steps of the work on a run, which write neither the run nor its journal.
Works ==
  \/ Prepare \/ Apply \/ Fail \/ CopyAndRestore \/ Save
  \/ \E a \in Assets : Capture(a) \/ Restore(a)

LEMMA WorkKeeps ==
  ASSUME TypeInv, Works
  PROVE  /\ at.pc \notin {"idle", "stage"} /\ at'.pc \notin {"idle", "stage"}
         /\ at'.r = at.r /\ at'.rec.req = at.rec.req /\ UNCHANGED <<inst, runs, journals, edits>>
         /\ at.rec.assets \in [Assets -> AssetRecord]
         /\ \A b \in Assets : SameBaseline(at'.rec.assets[b], at.rec.assets[b])
<1>1. at.pc \notin {"idle", "stage"} /\ UNCHANGED <<inst, runs, journals, edits>>
  BY DEF Works, Prepare, Apply, Fail, CopyAndRestore, Save, Capture, Capturing, Restore
<1>2. at.rec \in RunRecord /\ at \in Handler /\ at.rec.assets \in [Assets -> AssetRecord]
      /\ ~Idle
  BY <1>1 DEF TypeInv, HandlerInv, Staged, Idle
<1> DEFINE Kept1 == /\ at'.pc \notin {"idle", "stage"} /\ at'.r = at.r
                    /\ at'.rec.req = at.rec.req
                    /\ \A b \in Assets : SameBaseline(at'.rec.assets[b], at.rec.assets[b])
<1>3. ASSUME FailRun, at.pc \in Forward \ {"stage"}  PROVE Kept1
  BY <1>3, FailRunKeeps DEF SameBaseline
<1>4. ASSUME NEW new, at'.rec = new, at'.pc \notin {"idle", "stage"}, at'.r = at.r,
             new = [at.rec EXCEPT !.assets = new.assets],
             \A b \in Assets : SameBaseline(new.assets[b], at.rec.assets[b])
      PROVE  Kept1
  BY <1>2, <1>4 DEF RunRecord
<1>5. ASSUME Prepare  PROVE Kept1
  <2> DEFINE cid == CheckpointId(Plan, at.rec.next, TRUE)
             new == [at.rec EXCEPT !.cid = cid]
  <2>1. at' = ToCapture(new, Absent, "apply")  BY <1>5 DEF Prepare
  <2>2. new.req = at.rec.req /\ new.assets = at.rec.assets  BY <1>2 DEF RunRecord
  <2> HIDE DEF new
  <2>3. at'.pc = "capture" /\ at'.r = at.r /\ at'.rec = new
    BY ONLY <1>2, <2>1 DEF ToCapture, Handler
  <2> QED BY <2>2, <2>3 DEF SameBaseline
<1>6. ASSUME Apply  PROVE Kept1
  <2>1. at.pc \in Forward \ {"stage"}  BY <1>6 DEF Apply, Forward
  <2> DEFINE a == Step[2]
             acts == Step[1] = "edit" \/ (Step[1] = "init" /\ mem[a] = Absent)
             now == IF acts THEN Changed(mem[a], at.rec.next) ELSE mem[a]
             cid == IF Step[1] = "edit" THEN CheckpointId(Plan, at.rec.next, FALSE) ELSE at.rec.cid
             rec == [at.rec EXCEPT !.next = @ + 1, !.cid = cid]
             scope == CASE Step[1] \in {"init", "edit"} -> a
                        [] Step[1] = "readBack" -> Absent
                        [] Step[1] = "compile" -> "all"
  <2>2. \/ at' = ToCapture(Hashed(rec, a, now), scope, "step")
        \/ FailRun
        \/ at' = [at EXCEPT !.pc = "fail"]
    BY <1>6 DEF Apply
  <2>3. a \in Assets
    <3>1. Steps  BY <1>6 DEF Apply, TypeInv, HandlerInv
    <3>2. Step \in Kinds \X Assets  BY <1>2, <3>1, PlanOf
    <3> QED BY <3>2
  <2>4. rec.req = at.rec.req /\ rec.assets = at.rec.assets /\ DOMAIN rec = DOMAIN at.rec
        /\ "assets" \in DOMAIN rec
    BY <1>2 DEF RunRecord
  <2> HIDE DEF a, now, cid, rec, scope
  <2>5. CASE at' = ToCapture(Hashed(rec, a, now), scope, "step")
    <3> DEFINE new == Hashed(rec, a, now)
    <3>1. new.req = at.rec.req
          /\ \A b \in Assets : SameBaseline(new.assets[b], at.rec.assets[b])
      BY <1>2, <2>3, <2>4 DEF Hashed, AssetRecord, SameBaseline
    <3> HIDE DEF new
    <3>2. at'.pc = "capture" /\ at'.r = at.r /\ at'.rec = new
      BY <1>2, <2>5 DEF ToCapture, Handler, new
    <3> QED BY <3>1, <3>2
  <2>6. CASE FailRun  BY <1>3, <2>1, <2>6
  <2>7. CASE at' = [at EXCEPT !.pc = "fail"]  BY <1>2, <2>7 DEF Handler, SameBaseline
  <2> QED BY <2>2, <2>5, <2>6, <2>7
<1>7. ASSUME Fail  PROVE Kept1
  <2>1. FailRun /\ at.pc \in Forward \ {"stage"}  BY <1>7 DEF Fail, Forward
  <2> QED BY <1>3, <2>1
<1>8. ASSUME CopyAndRestore  PROVE Kept1
  <2>1. at.pc = "copy" /\ at.pc \in Forward \ {"stage"} /\ at.left # << >>
    BY <1>8 DEF CopyAndRestore, Forward, TypeInv, HandlerInv
  <2>2. mem[Head(at.left)] \in Contents /\ at.rec.cid \in Int
    BY <1>2, <2>1, LeftShrinks DEF TypeInv, TypeOK, RunRecord
  <2>3. FailRun \/ Captured(Head(at.left), mem[Head(at.left)], at.rec.cid, TRUE)
    BY <1>8 DEF CopyAndRestore
  <2>4. CASE FailRun  BY <1>3, <2>1, <2>4
  <2>5. CASE Captured(Head(at.left), mem[Head(at.left)], at.rec.cid, TRUE)
    <3>1. /\ at'.r = at.r /\ at'.pc = "capture" /\ at'.rec = [at.rec EXCEPT !.assets = at'.rec.assets]
          /\ \A b \in Assets : SameBaseline(at'.rec.assets[b], at.rec.assets[b])
      BY <2>1, <2>2, <2>5, CapturedTypes
    <3> QED BY <1>4, <3>1
  <2> QED BY <2>3, <2>4, <2>5
<1>9. ASSUME Save  PROVE Kept1
  <2>1. at.pc \in Forward \ {"stage"} /\ at.left # << >>  BY <1>9 DEF Save, Forward
  <2> DEFINE a == Head(at.left)
             rec == [at.rec EXCEPT !.assets[a].cur = mem[a], !.assets[a].pkgCur = mem[a]]
  <2>2. FailRun \/ at' = Goes("save", rec, Tail(at.left))  BY <1>9 DEF Save
  <2>3. a \in Assets  BY <2>1, LeftShrinks DEF TypeInv, TypeOK
  <2> HIDE DEF a
  <2>4. rec.req = at.rec.req
        /\ \A b \in Assets : SameBaseline(rec.assets[b], at.rec.assets[b])
    BY <1>2, <2>3 DEF RunRecord, AssetRecord, SameBaseline
  <2> HIDE DEF rec
  <2>5. CASE at' = Goes("save", rec, Tail(at.left))
    BY <1>2, <2>4, <2>5 DEF Goes, Handler
  <2>6. CASE FailRun  BY <1>3, <2>1, <2>6
  <2> QED BY <2>2, <2>5, <2>6
<1>10. ASSUME NEW a \in Assets, Capture(a)  PROVE Kept1
  <2>1. at.pc = "capture" /\ at.pc \in Forward \ {"stage"} /\ at.left # << >> /\ a = Head(at.left)
    BY <1>10 DEF Capture, Capturing, Forward
  <2>2. at.rec.assets[a].ckpt \in Contents /\ at.rec.assets[a].file \in Int /\ Absent \in Contents
    BY <1>2 DEF AssetRecord, Contents
  <2>3. ASSUME NEW ckpt \in Contents, NEW memo \in BOOLEAN,
               Captured(a, ckpt, at.rec.assets[a].file, memo)
        PROVE  Kept1
    <3>1. /\ at'.r = at.r /\ at'.pc = "capture" /\ at'.rec = [at.rec EXCEPT !.assets = at'.rec.assets]
          /\ \A b \in Assets : SameBaseline(at'.rec.assets[b], at.rec.assets[b])
      BY <2>1, <2>2, <2>3, CapturedTypes
    <3> QED BY <1>4, <3>1
  <2>4. CASE FailRun  BY <1>3, <2>1, <2>4
  <2>5. CASE at' = [at EXCEPT !.pc = "copy"]  BY <1>2, <2>5 DEF Handler, SameBaseline
  <2> QED BY <1>10, <2>2, <2>3, <2>4, <2>5 DEF Capture
<1>11. ASSUME NEW a \in Assets, Restore(a)  PROVE Kept1
  <2>1. at.pc = "restore" /\ at.left # << >> /\ a = Head(at.left)  BY <1>11 DEF Restore
  <2>2. mem'[a] \in Contents /\ pkg'[a] \in Contents
    BY <1>11, RestoreTypes DEF TypeInv, TypeOK
  <2> DEFINE now == SameStructure(at.rec.assets[a].snapshot, at.rec.assets[a].before)
  <2>5. Treated(a, TRUE) \/ Treated(a, FALSE) \/ Treated(a, now)  BY <1>11 DEF Restore
  <2>6. now \in BOOLEAN  BY DEF SameStructure
  <2> HIDE DEF now
  <2>3. \E ok \in BOOLEAN : Treated(a, ok)  BY <2>5, <2>6
  <2>4. /\ at'.r = at.r /\ at'.pc = "restore" /\ at'.rec = [at.rec EXCEPT !.assets = at'.rec.assets]
        /\ \A b \in Assets : SameBaseline(at'.rec.assets[b], at.rec.assets[b])
    BY <2>1, <2>2, <2>3, TreatedTypes
  <2> QED BY <1>4, <2>4
<1> HIDE DEF Kept1
<1>12. Kept1
  BY <1>5, <1>6, <1>7, <1>8, <1>9, <1>10, <1>11 DEF Works
<1> QED BY <1>1, <1>2, <1>12 DEF Kept1

---------------------------------------------------------------------------
(* A requestId is bound to one run.                                        *)

\* The journals are numbered as they are admitted, every run in memory has one, and
\* what a run was requested by never changes.
RequestsInv ==
  /\ DOMAIN journals = 1..Cardinality(DOMAIN journals)
  /\ DOMAIN runs \subseteq DOMAIN journals
  /\ \A r \in DOMAIN runs : runs[r].req = journals[r].req
  /\ ~Idle => at.r \in DOMAIN journals /\ at.rec.req = journals[at.r].req

\* As many journals as the search looks at have different requestIds.
OneJournal ==
  Cardinality(DOMAIN journals) <= MaxJournalScan =>
    \A r, s \in DOMAIN journals : journals[r].req = journals[s].req => r = s

OneInv == RequestsInv /\ OneJournal

LEMMA KnownJournals ==
  ASSUME TypeInv, RequestsInv
  PROVE  /\ Known = DOMAIN journals /\ IsFiniteSet(DOMAIN journals)
         /\ Cardinality(DOMAIN journals) \in Nat
         /\ \A r \in Known : LoadRun(r).req = journals[r].req
<1>1. Known = DOMAIN journals  BY DEF Known, RequestsInv
<1>2. IsFiniteSet(RunIds)
  <2>1. 1 \in Int /\ MaxRuns \in Int  OBVIOUS
  <2> QED BY <2>1, FS_Interval DEF RunIds
<1>3. IsFiniteSet(DOMAIN journals)
  <2>1. DOMAIN journals \subseteq RunIds  BY DEF TypeInv, TypeOK
  <2> QED BY <1>2, <2>1, FS_Subset
<1>4. Cardinality(DOMAIN journals) \in Nat  BY <1>3, FS_CardinalityType
<1> QED BY <1>1, <1>3, <1>4 DEF LoadRun, RequestsInv

\* A journal that is written again keeps its place and its requestId.
LEMMA JournalKept ==
  ASSUME NEW r \in DOMAIN journals, NEW rec, rec.req = journals[r].req,
         NEW s \in SaveRun(r, rec)
  PROVE  /\ DOMAIN s.journals = DOMAIN journals
         /\ \A k \in DOMAIN journals : s.journals[k].req = journals[k].req
<1>1. CASE s.journals = With(journals, r, rec)
  <2>1. /\ DOMAIN With(journals, r, rec) = DOMAIN journals \cup {r}
        /\ With(journals, r, rec)[r] = rec
        /\ \A k \in DOMAIN journals : k # r => With(journals, r, rec)[k] = journals[k]
    BY DEF With
  <2> QED BY <1>1, <2>1
<1>2. CASE s.journals = journals  BY <1>2
<1> QED BY <1>1, <1>2, SaveRunWrites

\* A run that is written to memory has the requestId of its journal.
LEMMA RunKept ==
  ASSUME RequestsInv, NEW r \in DOMAIN journals, NEW rec, rec.req = journals[r].req
  PROVE  /\ DOMAIN With(runs, r, rec) \subseteq DOMAIN journals
         /\ \A k \in DOMAIN With(runs, r, rec) : With(runs, r, rec)[k].req = journals[k].req
<1>1. /\ DOMAIN With(runs, r, rec) = DOMAIN runs \cup {r}
      /\ With(runs, r, rec)[r] = rec
      /\ \A k \in DOMAIN runs : k # r => With(runs, r, rec)[k] = runs[k]
  BY DEF With
<1>2. DOMAIN runs \subseteq DOMAIN journals /\ \A k \in DOMAIN runs : runs[k].req = journals[k].req
  BY DEF RequestsInv
<1>3. ASSUME NEW k \in DOMAIN With(runs, r, rec)
      PROVE  With(runs, r, rec)[k].req = journals[k].req
  <2>1. CASE k = r  BY <1>1, <2>1
  <2>2. CASE k # r
    <3>1. k \in DOMAIN runs /\ With(runs, r, rec)[k] = runs[k]  BY <1>1, <1>3, <2>2
    <3> QED BY <1>2, <3>1
  <2> QED BY <2>1, <2>2
<1> QED BY <1>1, <1>2, <1>3

\* A step that changes no journal's requestId keeps the invariant.
LEMMA RequestsKept ==
  ASSUME OneInv, DOMAIN journals' = DOMAIN journals,
         \A k \in DOMAIN journals : journals'[k].req = journals[k].req,
         DOMAIN runs' \subseteq DOMAIN journals,
         \A k \in DOMAIN runs' : runs'[k].req = journals[k].req,
         ~Idle' => at'.r \in DOMAIN journals /\ at'.rec.req = journals[at'.r].req
  PROVE  OneInv'
<1>1. RequestsInv'
  BY DEF OneInv, RequestsInv
<1>2. OneJournal'
  BY DEF OneInv, OneJournal
<1> QED BY <1>1, <1>2 DEF OneInv

\* A new run has the next number, and a requestId that no journal has.
LEMMA ExecuteOne ==
  ASSUME TypeInv, OneInv, NEW req \in Requests, Execute(req)  PROVE OneInv'
<1> DEFINE r == Cardinality(Known) + 1
           n == Cardinality(DOMAIN journals)
           rec == [req |-> req, inst |-> inst, status |-> "running", avail |-> FALSE,
                   verified |-> FALSE, next |-> 1, cid |-> 0, save |-> req \in Saving,
                   assets |-> << >>]
           hand == [Stopped EXCEPT !.pc = "stage", !.r = r, !.rec = rec]
<1>1. PICK s \in SaveRun(r, rec) :
        /\ journals' = s.journals
        /\ IF s.ok THEN runs' = With(runs, r, rec) /\ at' = hand ELSE UNCHANGED <<runs, at>>
  BY DEF Execute
<1>2. Idle /\ Bound(req) = {}  BY DEF Execute
<1>3. /\ Known = DOMAIN journals /\ IsFiniteSet(DOMAIN journals) /\ n \in Nat
      /\ DOMAIN journals = 1..n /\ DOMAIN runs \subseteq DOMAIN journals
      /\ \A k \in DOMAIN runs : runs[k].req = journals[k].req
  BY KnownJournals DEF OneInv, RequestsInv
<1>4. r = n + 1 /\ r \notin DOMAIN journals
  <2>1. r = n + 1  BY <1>3
  <2> HIDE DEF r, n
  <2> QED BY <1>3, <2>1
<1>5. rec.req = req  OBVIOUS
<1>6. hand.pc = "stage" /\ hand.r = r /\ hand.rec = rec  BY DEF Stopped
<1> HIDE DEF r, n, rec, hand
<1>7. CASE journals' = With(journals, r, rec)
  <2>1. /\ DOMAIN journals' = DOMAIN journals \cup {r} /\ journals'[r] = rec
        /\ \A k \in DOMAIN journals : k # r => journals'[k] = journals[k]
    BY <1>7 DEF With
  <2>2. \A k \in DOMAIN journals : journals'[k] = journals[k]  BY <1>4, <2>1
  <2>3. Cardinality(DOMAIN journals') = n + 1
    <3>1. Cardinality(DOMAIN journals \cup {r}) = Cardinality(DOMAIN journals) + 1
      BY <1>3, <1>4, FS_AddElement
    <3> QED BY <2>1, <3>1 DEF n
  <2>4. DOMAIN journals' = 1..(n + 1)
    <3>1. 1..(n + 1) = (1..n) \cup {n + 1}  BY <1>3
    <3> QED BY <1>3, <1>4, <2>1, <3>1
  <2>5. DOMAIN runs' \subseteq DOMAIN journals'
        /\ \A k \in DOMAIN runs' : runs'[k].req = journals'[k].req
    <3>1. CASE runs' = With(runs, r, rec)
      <4>1. /\ DOMAIN runs' = DOMAIN runs \cup {r} /\ runs'[r] = rec
            /\ \A k \in DOMAIN runs : k # r => runs'[k] = runs[k]
        BY <3>1 DEF With
      <4>2. \A k \in DOMAIN runs : runs'[k] = runs[k]  BY <1>3, <1>4, <4>1
      <4> QED BY <1>3, <2>1, <2>2, <4>1, <4>2
    <3>2. CASE runs' = runs  BY <1>3, <2>1, <2>2, <3>2
    <3> QED BY <1>1, <3>1, <3>2
  <2>6. ~Idle' => at'.r \in DOMAIN journals' /\ at'.rec.req = journals'[at'.r].req
    <3>1. CASE at' = hand  BY <1>6, <2>1, <3>1
    <3>2. CASE at' = at  BY <1>2, <3>2 DEF Idle
    <3> QED BY <1>1, <3>1, <3>2
  <2>7. RequestsInv'  BY <2>3, <2>4, <2>5, <2>6 DEF RequestsInv
  <2>8. ASSUME n + 1 <= MaxJournalScan, NEW k \in DOMAIN journals  PROVE journals[k].req # req
    <3>1. IsFiniteSet({l \in DOMAIN journals : l <= k})
          /\ Cardinality({l \in DOMAIN journals : l <= k}) <= n
      <4>1. {l \in DOMAIN journals : l <= k} \subseteq DOMAIN journals  OBVIOUS
      <4> QED BY <1>3, <4>1, FS_Subset DEF n
    <3>2. Cardinality({l \in DOMAIN journals : l <= k}) \in Nat  BY <3>1, FS_CardinalityType
    <3>3. MaxJournalScan \in Nat  OBVIOUS
    <3>4. Cardinality({l \in DOMAIN journals : l <= k}) <= MaxJournalScan
      BY ONLY <1>3, <2>8, <3>1, <3>2, <3>3
    <3> QED BY <1>2, <2>8, <3>4 DEF Bound
  <2>9. OneJournal'
    <3> SUFFICES ASSUME n + 1 <= MaxJournalScan, NEW k \in DOMAIN journals',
                        NEW l \in DOMAIN journals', journals'[k].req = journals'[l].req
                 PROVE  k = l
      BY <2>3 DEF OneJournal
    <3>1. MaxJournalScan \in Nat  OBVIOUS
    <3>2. n <= MaxJournalScan  BY ONLY <1>3, <3>1, n + 1 <= MaxJournalScan
    <3>3. \A i, j \in DOMAIN journals : journals[i].req = journals[j].req => i = j
      BY <3>2 DEF OneInv, OneJournal, n
    <3>4. CASE k \in DOMAIN journals /\ l \in DOMAIN journals  BY <2>2, <3>3, <3>4
    <3>5. CASE k = r /\ l \in DOMAIN journals  BY <1>5, <2>1, <2>2, <2>8, <3>5
    <3>6. CASE k \in DOMAIN journals /\ l = r  BY <1>5, <2>1, <2>2, <2>8, <3>6
    <3> QED BY <2>1, <3>4, <3>5, <3>6
  <2> QED BY <2>7, <2>9 DEF OneInv
<1>8. CASE journals' = journals /\ ~s.ok
  <2>1. UNCHANGED <<runs, at>>  BY <1>1, <1>8
  <2>2. Idle'  BY <1>2, <2>1 DEF Idle
  <2> QED BY <1>3, <1>8, <2>1, <2>2, RequestsKept
<1> QED BY <1>1, <1>7, <1>8, SaveRunWrites

\* A step that does not touch the journals keeps it, if the handler has the run it had.
LEMMA UntouchedOne ==
  ASSUME OneInv, UNCHANGED journals, runs' = runs \/ DOMAIN runs' = {},
         Idle' \/ (~Idle /\ at'.r = at.r /\ at'.rec.req = at.rec.req)
  PROVE  OneInv'
<1>1. DOMAIN runs' \subseteq DOMAIN journals
      /\ \A k \in DOMAIN runs' : runs'[k].req = journals[k].req
  BY DEF OneInv, RequestsInv
<1>2. ~Idle' => at'.r \in DOMAIN journals /\ at'.rec.req = journals[at'.r].req
  BY DEF OneInv, RequestsInv
<1> QED BY <1>1, <1>2, RequestsKept

\* A step that writes the handler's run again keeps it.
LEMMA RewrittenOne ==
  ASSUME TypeInv, OneInv, ~Idle, NEW rec, rec.req = at.rec.req, NEW s \in SaveRun(at.r, rec),
         journals' = s.journals, runs' = runs \/ runs' = With(runs, at.r, rec),
         Idle' \/ (at'.r = at.r /\ at'.rec.req = at.rec.req)
  PROVE  OneInv'
<1>1. at.r \in DOMAIN journals /\ rec.req = journals[at.r].req /\ RequestsInv
  BY DEF OneInv, RequestsInv
<1>2. /\ DOMAIN journals' = DOMAIN journals
      /\ \A k \in DOMAIN journals : journals'[k].req = journals[k].req
  BY <1>1, JournalKept
<1>3. DOMAIN runs' \subseteq DOMAIN journals
      /\ \A k \in DOMAIN runs' : runs'[k].req = journals[k].req
  <2>1. CASE runs' = runs  BY <1>1, <2>1 DEF RequestsInv
  <2>2. CASE runs' = With(runs, at.r, rec)
    <3>1. /\ DOMAIN With(runs, at.r, rec) \subseteq DOMAIN journals
          /\ \A k \in DOMAIN With(runs, at.r, rec) :
               With(runs, at.r, rec)[k].req = journals[k].req
      BY <1>1, RunKept
    <3> QED BY <2>2, <3>1
  <2> QED BY <2>1, <2>2
<1>4. ~Idle' => at'.r \in DOMAIN journals /\ at'.rec.req = journals[at'.r].req
  BY <1>1
<1> QED BY <1>2, <1>3, <1>4, RequestsKept

LEMMA FailAdmittedOne ==
  ASSUME TypeInv, OneInv, ~Idle, NEW rec, rec \in RunRecord, rec.req = at.rec.req,
         FailAdmittedRun(rec)
  PROVE  OneInv'
<1> DEFINE failed == [rec EXCEPT !.status = "failed", !.verified = TRUE]
<1>1. failed.req = at.rec.req  BY DEF RunRecord
<1>2. PICK s \in SaveRun(at.r, failed) :
        journals' = s.journals /\ runs' = With(runs, at.r, failed) /\ at' = Stopped
  BY DEF FailAdmittedRun
<1>3. Idle'  BY <1>2 DEF Idle, Stopped
<1> HIDE DEF failed
<1> QED BY <1>1, <1>2, <1>3, RewrittenOne

LEMMA StageOne ==
  ASSUME TypeInv, OneInv, Stage  PROVE OneInv'
<1> DEFINE rec == [at.rec EXCEPT !.assets = [a \in Assets |-> Baseline(a)], !.avail = TRUE]
<1>1. ~Idle /\ at.rec \in RunRecord /\ at \in Handler
  BY DEF Stage, TypeInv, HandlerInv, Idle
<1>2. rec.req = at.rec.req  BY <1>1 DEF RunRecord
<1>3. \/ FailAdmittedRun(at.rec)
      \/ FailAdmittedRun(rec)
      \/ \E s \in SaveRun(at.r, rec) :
           /\ journals' = s.journals /\ runs' = With(runs, at.r, rec)
           /\ at' = [at EXCEPT !.pc = "step", !.rec = rec]
  BY DEF Stage
<1>4. rec \in RunRecord
  <2> DEFINE assets == [a \in Assets |-> Baseline(a)]
  <2>1. assets \in [Assets -> AssetRecord]
    BY DEF TypeInv, TypeOK, Baseline, AssetRecord, Snapshot
  <2>2. rec = [at.rec EXCEPT !.assets = assets, !.avail = TRUE]  OBVIOUS
  <2> HIDE DEF assets, rec
  <2> QED BY <1>1, <2>1, <2>2 DEF RunRecord
<1> HIDE DEF rec
<1>5. CASE FailAdmittedRun(at.rec)  BY <1>1, <1>5, FailAdmittedOne
<1>6. CASE FailAdmittedRun(rec)  BY <1>1, <1>2, <1>4, <1>6, FailAdmittedOne
<1>7. ASSUME NEW s \in SaveRun(at.r, rec), journals' = s.journals,
             runs' = With(runs, at.r, rec), at' = [at EXCEPT !.pc = "step", !.rec = rec]
      PROVE  OneInv'
  <2>1. at'.r = at.r /\ at'.rec = rec  BY <1>1, <1>7 DEF Handler
  <2> QED BY <1>1, <1>2, <1>7, <2>1, RewrittenOne
<1> QED BY <1>3, <1>5, <1>6, <1>7

LEMMA CompletedOne ==
  ASSUME TypeInv, OneInv, ~Idle, Completed  PROVE OneInv'
<1> DEFINE assets == [a \in Assets |-> [at.rec.assets[a] EXCEPT !.cur = mem[a]]]
           rec == [at.rec EXCEPT !.status = "completed", !.avail = TRUE, !.assets = assets]
<1>1. rec.req = at.rec.req  BY DEF TypeInv, HandlerInv, RunRecord
<1>2. PICK s \in SaveRun(at.r, rec) :
        journals' = s.journals /\ runs' = With(runs, at.r, rec) /\ at' = Stopped
  BY DEF Completed
<1>3. Idle'  BY <1>2 DEF Idle, Stopped
<1> HIDE DEF rec
<1> QED BY <1>1, <1>2, <1>3, RewrittenOne

LEMMA CheckpointOne ==
  ASSUME TypeInv, OneInv, SaveCheckpoint  PROVE OneInv'
<1>1. ~Idle /\ at.pc \in Forward \ {"stage"} /\ at.rec \in RunRecord
  BY DEF SaveCheckpoint, Idle, Forward, TypeInv, HandlerInv
<1>2. PICK s \in SaveRun(at.r, at.rec) :
        /\ journals' = s.journals
        /\ IF s.ok
           THEN /\ runs' = With(runs, at.r, at.rec)
                /\ at' = [Stopped EXCEPT !.pc = at.goal, !.r = at.r, !.rec = at.rec]
           ELSE FailRun /\ UNCHANGED runs
  BY DEF SaveCheckpoint
<1>3. CASE /\ runs' = With(runs, at.r, at.rec)
           /\ at' = [Stopped EXCEPT !.pc = at.goal, !.r = at.r, !.rec = at.rec]
  <2>1. at'.r = at.r /\ at'.rec = at.rec  BY <1>3 DEF Stopped
  <2> QED BY <1>1, <1>2, <1>3, <2>1, RewrittenOne
<1>4. CASE FailRun /\ UNCHANGED runs
  <2>1. at'.r = at.r /\ at'.rec.req = at.rec.req  BY <1>1, <1>4, FailRunKeeps
  <2> QED BY <1>1, <1>2, <1>4, <2>1, RewrittenOne
<1> QED BY <1>2, <1>3, <1>4

LEMMA StepsEndOne ==
  ASSUME TypeInv, OneInv, StepsEnd  PROVE OneInv'
<1>1. ~Idle /\ at.pc \in Forward \ {"stage"} /\ at \in Handler
  BY DEF StepsEnd, Idle, Forward, TypeInv, HandlerInv
<1>2. ASSUME FailRun, UNCHANGED <<runs, journals>>  PROVE OneInv'
  <2>1. at'.r = at.r /\ at'.rec.req = at.rec.req  BY <1>1, <1>2, FailRunKeeps
  <2> QED BY <1>1, <1>2, <2>1, UntouchedOne
<1>3. CASE Completed  BY <1>1, <1>3, CompletedOne
<1>4. ASSUME at' = Goes("save", at.rec, AssetSet), UNCHANGED <<runs, journals>>
      PROVE  OneInv'
  <2>1. at'.r = at.r /\ at'.rec = at.rec  BY <1>1, <1>4 DEF Goes, Handler
  <2> QED BY <1>1, <1>4, <2>1, UntouchedOne
<1> QED BY <1>2, <1>3, <1>4 DEF StepsEnd

\* A run that was loaded has the requestId of its journal.
LEMMA LoadedOne ==
  ASSUME TypeInv, OneInv, NEW r \in RunIds, Idle, r \in Known
  PROVE  r \in DOMAIN journals /\ LoadRun(r).req = journals[r].req
BY KnownJournals DEF OneInv

LEMMA LoadingOne ==
  ASSUME TypeInv, OneInv, NEW r \in RunIds, RollbackRun(r) \/ ResumeRun(r) \/ GetStatus(r)
  PROVE  OneInv'
<1>1. Idle /\ r \in Known  BY DEF RollbackRun, ResumeRun, GetStatus
<1>2. r \in DOMAIN journals /\ LoadRun(r).req = journals[r].req /\ RequestsInv
      /\ LoadRun(r) \in RunRecord /\ at \in Handler
  BY <1>1, LoadedOne, LoadedRun DEF OneInv, TypeInv, HandlerInv
<1>3. ASSUME RollbackRun(r)  PROVE OneInv'
  <2>1. /\ UNCHANGED <<runs, journals>>
        /\ at' = [at EXCEPT !.pc = "restore", !.r = r, !.rec = LoadRun(r),
                            !.left = Reverse(AssetSet), !.ok = TRUE, !.auto = FALSE]
    BY <1>3 DEF RollbackRun, RollingBack
  <2>2. at'.r = r /\ at'.rec = LoadRun(r)  BY <1>2, <2>1 DEF Handler
  <2> QED BY <1>2, <2>1, <2>2, RequestsKept DEF RequestsInv
<1>4. ASSUME ResumeRun(r)  PROVE OneInv'
  <2> DEFINE rec == FromBaseline(LoadRun(r))
  <2>1. /\ runs' = With(runs, r, rec) /\ UNCHANGED journals
        /\ at' = [Stopped EXCEPT !.pc = "step", !.r = r, !.rec = rec]
    BY <1>4 DEF ResumeRun
  <2>2. rec.req = journals[r].req  BY <1>2 DEF FromBaseline, Reopened, RunRecord
  <2> HIDE DEF rec
  <2>3. at'.r = r /\ at'.rec = rec  BY <2>1 DEF Stopped
  <2>4. /\ DOMAIN With(runs, r, rec) \subseteq DOMAIN journals
        /\ \A k \in DOMAIN With(runs, r, rec) : With(runs, r, rec)[k].req = journals[k].req
    BY <1>2, <2>2, RunKept
  <2> QED BY <1>2, <2>1, <2>2, <2>3, <2>4, RequestsKept
<1>5. ASSUME GetStatus(r)  PROVE OneInv'
  <2> DEFINE blocked == [LoadRun(r) EXCEPT !.status = "blocked", !.verified = FALSE]
  <2>1. PICK s \in SaveRun(r, blocked) :
          /\ journals' = s.journals /\ UNCHANGED at
          /\ runs' = IF s.ok THEN With(runs, r, blocked) ELSE runs
    BY <1>5 DEF GetStatus
  <2>2. blocked.req = journals[r].req  BY <1>2 DEF RunRecord
  <2> HIDE DEF blocked
  <2>3. /\ DOMAIN journals' = DOMAIN journals
        /\ \A k \in DOMAIN journals : journals'[k].req = journals[k].req
    BY <1>2, <2>1, <2>2, JournalKept
  <2>4. DOMAIN runs' \subseteq DOMAIN journals
        /\ \A k \in DOMAIN runs' : runs'[k].req = journals[k].req
    <3>1. /\ DOMAIN With(runs, r, blocked) \subseteq DOMAIN journals
          /\ \A k \in DOMAIN With(runs, r, blocked) :
               With(runs, r, blocked)[k].req = journals[k].req
      BY <1>2, <2>2, RunKept
    <3>2. CASE runs' = With(runs, r, blocked)  BY <3>1, <3>2
    <3>3. CASE runs' = runs  BY <1>2, <3>3 DEF RequestsInv
    <3> QED BY <2>1, <3>2, <3>3
  <2>5. Idle'  BY <1>1, <2>1 DEF Idle
  <2> QED BY <2>3, <2>4, <2>5, RequestsKept
<1> QED BY <1>3, <1>4, <1>5

LEMMA OneStep == TypeInv /\ OneInv /\ [Next]_vars => OneInv'
<1> SUFFICES ASSUME TypeInv, OneInv, [Next]_vars  PROVE OneInv'
  OBVIOUS
<1>1. ASSUME NEW a \in Assets, UserEdits(a) \/ UserSaves(a)  PROVE OneInv'
  <2>1. UNCHANGED <<runs, journals, at>> /\ Idle  BY <1>1 DEF UserEdits, UserSaves
  <2> QED BY <2>1, UntouchedOne DEF Idle
<1>2. CASE Works
  <2>1. /\ at.pc # "idle" /\ at'.r = at.r /\ at'.rec.req = at.rec.req
        /\ UNCHANGED <<runs, journals>>
    BY <1>2, WorkKeeps
  <2> QED BY <2>1, UntouchedOne DEF Idle
<1>3. ASSUME NEW req \in Requests, Execute(req)  PROVE OneInv'  BY <1>3, ExecuteOne
<1>4. ASSUME NEW r \in RunIds, RollbackRun(r) \/ ResumeRun(r) \/ GetStatus(r)  PROVE OneInv'
  BY <1>4, LoadingOne
<1>5. CASE Stage  BY <1>5, StageOne
<1>6. CASE SaveCheckpoint  BY <1>6, CheckpointOne
<1>7. CASE StepsEnd  BY <1>7, StepsEndOne
<1>8. CASE SaveEnds
  <2>1. ~Idle /\ Completed  BY <1>8 DEF SaveEnds, Idle
  <2> QED BY <2>1, CompletedOne
<1>9. CASE RestoreEnds
  <2>1. PICK s \in SaveRun(at.r, RolledBack) :
          journals' = s.journals /\ runs' = With(runs, at.r, RolledBack) /\ at' = Stopped
    BY <1>9 DEF RestoreEnds
  <2>2. Idle'  BY <2>1 DEF Stopped, Idle
  <2>3. ~Idle /\ RolledBack.req = at.rec.req  BY <1>9, RolledBackSound DEF RestoreEnds
  <2> QED BY <2>1, <2>2, <2>3, RewrittenOne
<1>10. CASE Crash
  <2>1. UNCHANGED journals /\ DOMAIN runs' = {} /\ at' = Stopped  BY <1>10 DEF Crash
  <2> QED BY <2>1, UntouchedOne DEF Idle, Stopped
<1>11. CASE UNCHANGED vars
  BY <1>11 DEF vars, OneInv, RequestsInv, OneJournal, Idle
<1> QED
  BY <1>1, <1>2, <1>3, <1>4, <1>5, <1>6, <1>7, <1>8, <1>9, <1>10, <1>11 DEF Next, Works

LEMMA OneAlways == Spec => []OneInv
<1>1. Init => OneInv
  <2> SUFFICES ASSUME Init  PROVE OneInv
    OBVIOUS
  <2>1. DOMAIN journals = {} /\ DOMAIN runs = {} /\ Idle  BY DEF Init, Idle, Stopped
  <2>2. Cardinality({}) = 0  BY FS_EmptySet
  <2>3. 1..0 = {}  OBVIOUS
  <2> QED BY <2>1, <2>2, <2>3 DEF OneInv, RequestsInv, OneJournal
<1> QED BY <1>1, OneStep, TypesAlways, PTL DEF Spec

\* A requestId is bound to one run, in this Editor and in the ones before it, for as long
\* as there are no more journals than FindRunByRequestId looks at.
THEOREM RequestsAreBoundOnce == Spec => []OneRunPerRequest
<1>1. TypeInv /\ OneInv => OneRunPerRequest
  BY KnownJournals DEF OneInv, OneJournal, OneRunPerRequest
<1> QED BY <1>1, OneAlways, TypesAlways, PTL

---------------------------------------------------------------------------
(* A rollback that is said to be verified is exact.                        *)

\* What a rollback has treated is as its record says; and if it has not failed so far, the
\* packages are the baseline, and the assets in memory have its structure.
Noted(asset, a) == asset.cur = mem[a] /\ asset.pkgCur = pkg[a]
Restored(asset, a) == pkg[a] = asset.snapshot /\ SameStructure(mem[a], asset.before)
RestoreInv ==
  at.pc = "restore" =>
    \A a \in Assets :
      a \in ToSet(at.left) \/ (/\ Noted(at.rec.assets[a], a)
                               /\ at.ok => Restored(at.rec.assets[a], a))

LEMMA RestoreKeeps ==
  ASSUME TypeInv, RestoreInv, NEW a \in Assets, Restore(a)  PROVE RestoreInv'
<1> DEFINE before == at.rec.assets[a].before
           snapshot == at.rec.assets[a].snapshot
           restored == [pkg EXCEPT ![a] = snapshot]
           now == SameStructure(snapshot, before)
<1>1. at.pc = "restore" /\ at.left # << >> /\ a = Head(at.left) /\ at.left \in Seq(Assets)
      /\ mem \in [Assets -> Contents] /\ pkg \in [Assets -> Contents] /\ at.ok \in BOOLEAN
  BY DEF Restore, TypeInv, TypeOK, HandlerInv, Handler
<1>2. mem'[a] \in Contents /\ pkg'[a] \in Contents /\ now \in BOOLEAN
  BY RestoreTypes DEF TypeInv, TypeOK, SameStructure
<1>3. \/ /\ SameStructure(mem[a], before) /\ pkg[a] = snapshot /\ UNCHANGED <<mem, pkg>>
         /\ Treated(a, TRUE)
      \/ mem' = [mem EXCEPT ![a] = snapshot] /\ pkg' = restored /\ Treated(a, now)
      \/ Treated(a, FALSE)
  BY DEF Restore, Kept
<1>4. \A b \in Assets : b # a => mem'[b] = mem[b] /\ pkg'[b] = pkg[b]
  BY <1>1 DEF Restore
<1>5. ASSUME NEW ok \in BOOLEAN, Treated(a, ok),
             ok => pkg'[a] = snapshot /\ SameStructure(mem'[a], before)
      PROVE  RestoreInv'
  <2>1. /\ at'.left = Tail(at.left) /\ at'.ok = (at.ok /\ ok)
        /\ \A b \in Assets : /\ SameBaseline(at'.rec.assets[b], at.rec.assets[b])
                             /\ b # a => at'.rec.assets[b] = at.rec.assets[b]
        /\ at'.rec.assets[a].cur = mem'[a] /\ at'.rec.assets[a].pkgCur = pkg'[a]
    BY <1>1, <1>2, <1>5, TreatedTypes
  <2>2. \A b \in ToSet(at.left) : b = a \/ b \in ToSet(Tail(at.left))
    BY <1>1, LeftShrinks
  <2> SUFFICES ASSUME NEW b \in Assets, b \notin ToSet(Tail(at.left))
               PROVE  /\ Noted(at.rec.assets[b], b)'
                      /\ at'.ok => Restored(at.rec.assets[b], b)'
    BY <2>1 DEF RestoreInv
  <2>3. CASE b = a
    BY <1>5, <2>1, <2>3 DEF Noted, Restored, SameBaseline
  <2>4. CASE b # a
    <3>1. b \notin ToSet(at.left)  BY <2>2, <2>4
    <3>2. Noted(at.rec.assets[b], b) /\ (at.ok => Restored(at.rec.assets[b], b))
      BY <1>1, <3>1 DEF RestoreInv
    <3>3. at'.rec.assets[b] = at.rec.assets[b] /\ mem'[b] = mem[b] /\ pkg'[b] = pkg[b]
      BY <1>4, <2>1, <2>4
    <3> QED BY <1>1, <1>5, <2>1, <3>2, <3>3 DEF Noted, Restored
  <2> QED BY <2>3, <2>4
<1>6. CASE Treated(a, FALSE)  BY <1>5, <1>6
<1>7. CASE /\ SameStructure(mem[a], before) /\ pkg[a] = snapshot /\ UNCHANGED <<mem, pkg>>
           /\ Treated(a, TRUE)
  BY <1>5, <1>7
<1>8. CASE mem' = [mem EXCEPT ![a] = snapshot] /\ pkg' = restored /\ Treated(a, now)
  <2>1. mem'[a] = snapshot /\ pkg'[a] = snapshot  BY <1>1, <1>8
  <2>2. now => SameStructure(mem'[a], before)  BY <2>1
  <2> HIDE DEF now
  <2> QED BY <1>2, <1>5, <1>8, <2>1, <2>2
<1> QED BY <1>3, <1>6, <1>7, <1>8

LEMMA FailRunRestore ==
  ASSUME TypeInv, at.pc \in Forward \ {"stage"}, FailRun  PROVE RestoreInv'
BY FailRunKeeps, AssetSequence DEF RestoreInv

\* Only a rollback that goes on has something to keep.
LEMMA RestoreStep == TypeInv /\ RestoreInv /\ [Next]_vars => RestoreInv'
<1> SUFFICES ASSUME TypeInv, RestoreInv, [Next]_vars  PROVE RestoreInv'
  OBVIOUS
<1>1. ASSUME at'.pc # "restore"  PROVE RestoreInv'  BY <1>1 DEF RestoreInv
<1>2. at \in Handler  BY DEF TypeInv, HandlerInv
<1>3. ASSUME at.pc \in Forward \ {"stage"}, FailRun  PROVE RestoreInv'
  BY <1>3, FailRunRestore
<1>4. ASSUME NEW a \in Assets, UserEdits(a) \/ UserSaves(a)  PROVE RestoreInv'
  BY <1>1, <1>4 DEF UserEdits, UserSaves, Idle
<1>5. ASSUME NEW a \in Assets, Capture(a)  PROVE RestoreInv'
  <2>1. at.pc = "capture" /\ at.pc \in Forward \ {"stage"}
    BY <1>5 DEF Capture, Capturing, Forward
  <2>2. FailRun \/ at'.pc # "restore"  BY <1>2, <1>5 DEF Capture, Captured, Handler
  <2> QED BY <1>1, <1>3, <2>1, <2>2
<1>6. ASSUME NEW a \in Assets, Restore(a)  PROVE RestoreInv'  BY <1>6, RestoreKeeps
<1>7. ASSUME NEW req \in Requests, Execute(req)  PROVE RestoreInv'
  <2>1. at.pc = "idle"  BY <1>7 DEF Execute, Idle
  <2>2. at'.pc = "stage" \/ at' = at
    <3> DEFINE rec == [req |-> req, inst |-> inst, status |-> "running", avail |-> FALSE,
                       verified |-> FALSE, next |-> 1, cid |-> 0, save |-> req \in Saving,
                       assets |-> << >>]
    <3>1. at' = [Stopped EXCEPT !.pc = "stage", !.r = Cardinality(Known) + 1, !.rec = rec]
          \/ at' = at
      BY <1>7 DEF Execute
    <3> HIDE DEF rec
    <3> QED BY ONLY <3>1 DEF Stopped
  <2> QED BY <1>1, <2>1, <2>2
<1>8. ASSUME NEW r \in RunIds, RollbackRun(r)  PROVE RestoreInv'
  <2>1. at'.left = Reverse(AssetSet)
    BY <1>2, <1>8 DEF RollbackRun, RollingBack, Handler
  <2> QED BY <2>1, AssetSequence DEF RestoreInv
<1>9. ASSUME NEW r \in RunIds, ResumeRun(r) \/ GetStatus(r)  PROVE RestoreInv'
  <2>1. at.pc = "idle"  BY <1>9 DEF ResumeRun, GetStatus, Idle
  <2>2. at' = at \/ at' = [Stopped EXCEPT !.pc = "step", !.r = r, !.rec = FromBaseline(LoadRun(r))]
    BY <1>9 DEF ResumeRun, GetStatus
  <2>3. at' = at \/ at'.pc = "step"  BY ONLY <2>2 DEF Stopped
  <2> QED BY <1>1, <2>1, <2>3
<1>10. CASE Stage
  <2> DEFINE rec == [at.rec EXCEPT !.assets = [a \in Assets |-> Baseline(a)], !.avail = TRUE]
  <2>1. at' = Stopped \/ at' = [at EXCEPT !.pc = "step", !.rec = rec]
    BY <1>10 DEF Stage, FailAdmittedRun
  <2> HIDE DEF rec
  <2>2. Stopped.pc = "idle" /\ [at EXCEPT !.pc = "step", !.rec = rec].pc = "step"
    BY ONLY <1>2 DEF Stopped, Handler
  <2> QED BY <1>1, <2>1, <2>2
<1>11. CASE Prepare
  BY <1>1, <1>2, <1>11 DEF Prepare, ToCapture, Handler
<1>12. CASE Apply
  <2>1. at.pc \in Forward \ {"stage"}  BY <1>12 DEF Apply, Forward
  <2>2. FailRun \/ at'.pc # "restore"  BY <1>2, <1>12 DEF Apply, ToCapture, Handler
  <2> QED BY <1>1, <1>3, <2>1, <2>2
<1>13. CASE Fail  BY <1>3, <1>13 DEF Fail, Forward
<1>14. CASE CopyAndRestore
  <2>1. at.pc \in Forward \ {"stage"}  BY <1>14 DEF CopyAndRestore, Forward
  <2>2. FailRun \/ at'.pc # "restore"  BY <1>2, <1>14 DEF CopyAndRestore, Captured, Handler
  <2> QED BY <1>1, <1>3, <2>1, <2>2
<1>15. CASE SaveCheckpoint
  <2>1. at.pc \in Forward \ {"stage"} /\ at.goal # "restore"
    BY <1>2, <1>15 DEF SaveCheckpoint, Forward, Handler
  <2>2. FailRun \/ at'.pc # "restore"  BY <1>15, <2>1 DEF SaveCheckpoint, Stopped
  <2> QED BY <1>1, <1>3, <2>1, <2>2
<1>16. CASE StepsEnd
  <2>1. at.pc \in Forward \ {"stage"}  BY <1>16 DEF StepsEnd, Forward
  <2>2. FailRun \/ at' = Stopped \/ at' = Goes("save", at.rec, AssetSet)
    BY <1>16 DEF StepsEnd, Completed
  <2>3. Stopped.pc = "idle" /\ Goes("save", at.rec, AssetSet).pc = "save"
    BY ONLY <1>2 DEF Goes, Stopped, Handler
  <2>4. FailRun \/ at'.pc # "restore"  BY <2>2, <2>3
  <2> QED BY <1>1, <1>3, <2>1, <2>4
<1>17. CASE Save
  <2>1. at.pc \in Forward \ {"stage"}  BY <1>17 DEF Save, Forward
  <2>2. FailRun \/ at'.pc # "restore"  BY <1>2, <1>17 DEF Save, Goes, Handler
  <2> QED BY <1>1, <1>3, <2>1, <2>2
<1>18. CASE SaveEnds \/ RestoreEnds \/ Crash
  <2>1. at' = Stopped  BY <1>18 DEF SaveEnds, Completed, RestoreEnds, Crash
  <2> QED BY <1>1, <2>1 DEF Stopped
<1>19. CASE UNCHANGED vars  BY <1>19 DEF vars, RestoreInv, Noted, Restored
<1> QED
  BY <1>4, <1>5, <1>6, <1>7, <1>8, <1>9, <1>10, <1>11, <1>12, <1>13, <1>14, <1>15, <1>16,
     <1>17, <1>18, <1>19
  DEF Next

\* A run that is verified by a step is the one the step writes.
Verifies(r) == runs'[r].verified /\ (r \in DOMAIN runs => ~runs[r].verified)
Exact(r) ==
  \A a \in DOMAIN runs'[r].assets :
    /\ pkg'[a] = runs'[r].assets[a].snapshot
    /\ SameStructure(mem'[a], runs'[r].assets[a].before)

LEMMA OnlyTheWrittenVerifies ==
  ASSUME NEW w, NEW rec, runs' = With(runs, w, rec), NEW r \in DOMAIN runs', Verifies(r)
  PROVE  r = w /\ runs'[r] = rec
<1>1. /\ DOMAIN runs' = DOMAIN runs \cup {w} /\ runs'[w] = rec
      /\ \A k \in DOMAIN runs : k # w => runs'[k] = runs[k]
  BY DEF With
<1> QED BY <1>1 DEF Verifies

LEMMA FailAdmittedExact ==
  ASSUME TypeInv, NEW rec \in RunRecord, FailAdmittedRun(rec),
         \A a \in DOMAIN rec.assets : /\ pkg'[a] = rec.assets[a].snapshot
                                      /\ SameStructure(mem'[a], rec.assets[a].before),
         NEW r \in DOMAIN runs', Verifies(r)
  PROVE  Exact(r)
<1> DEFINE failed == [rec EXCEPT !.status = "failed", !.verified = TRUE]
<1>1. failed.assets = rec.assets  BY DEF RunRecord
<1>2. runs' = With(runs, at.r, failed)  BY DEF FailAdmittedRun
<1> HIDE DEF failed
<1>3. runs'[r] = failed  BY <1>2, OnlyTheWrittenVerifies
<1> QED BY <1>1, <1>3 DEF Exact

LEMMA StageExact ==
  ASSUME TypeInv, Stage, NEW r \in DOMAIN runs', Verifies(r)  PROVE Exact(r)
<1> DEFINE assets == [a \in Assets |-> Baseline(a)]
           rec == [at.rec EXCEPT !.assets = assets, !.avail = TRUE]
<1>1. at.pc = "stage" /\ at.rec \in RunRecord /\ at.rec.assets = << >> /\ UNCHANGED <<mem, pkg>>
      /\ ~at.rec.verified
  BY DEF Stage, TypeInv, HandlerInv, Idle, Forward
<1>2. /\ assets \in [Assets -> AssetRecord]
      /\ \A a \in Assets : assets[a].before = mem[a] /\ assets[a].snapshot = pkg[a]
  BY DEF TypeInv, TypeOK, Baseline, AssetRecord, Snapshot
<1> HIDE DEF assets
<1>3. rec \in RunRecord /\ rec.assets = assets /\ rec.verified = at.rec.verified
  BY <1>1, <1>2 DEF RunRecord
<1>4. \/ FailAdmittedRun(at.rec)
      \/ FailAdmittedRun(rec)
      \/ runs' = With(runs, at.r, rec)
  BY DEF Stage, assets
<1> HIDE DEF rec
<1>5. CASE FailAdmittedRun(at.rec)
  <2>1. DOMAIN at.rec.assets = {}  BY <1>1
  <2> QED BY <1>1, <1>5, <2>1, FailAdmittedExact
<1>6. CASE FailAdmittedRun(rec)
  <2>1. DOMAIN rec.assets = Assets /\ mem' = mem /\ pkg' = pkg  BY <1>1, <1>2, <1>3, <1>6
  <2>2. \A a \in DOMAIN rec.assets : /\ pkg'[a] = rec.assets[a].snapshot
                                     /\ SameStructure(mem'[a], rec.assets[a].before)
    BY <1>2, <1>3, <2>1 DEF SameStructure
  <2> QED BY <1>3, <1>6, <2>2, FailAdmittedExact
<1>7. CASE runs' = With(runs, at.r, rec)
  <2>1. runs'[r] = rec  BY <1>7, OnlyTheWrittenVerifies
  <2> QED BY <1>1, <1>3, <2>1 DEF Verifies
<1> QED BY <1>4, <1>5, <1>6, <1>7

LEMMA RestoreEndsExact ==
  ASSUME TypeInv, RestoreInv, RestoreEnds, NEW r \in DOMAIN runs', Verifies(r)  PROVE Exact(r)
<1>1. at.pc = "restore" /\ at.left = << >> /\ UNCHANGED <<mem, pkg>>
      /\ runs' = With(runs, at.r, RolledBack)
  BY DEF RestoreEnds
<1>2. runs'[r] = RolledBack  BY <1>1, OnlyTheWrittenVerifies
<1>3. RolledBack.verified = at.ok /\ RolledBack.assets = at.rec.assets
      /\ at.rec.assets \in [Assets -> AssetRecord]
  BY <1>1, RolledBackSound DEF TypeInv, HandlerInv, Staged
<1>4. at.ok  BY <1>2, <1>3 DEF Verifies
<1>5. ToSet(<< >>) = {}  BY DEF ToSet
<1>6. \A a \in Assets : Restored(at.rec.assets[a], a)
  BY <1>1, <1>4, <1>5 DEF RestoreInv
<1> QED BY <1>1, <1>2, <1>3, <1>6 DEF Exact, Restored

\* A step that writes a record that is not verified verifies nothing.
LEMMA NothingVerified ==
  ASSUME \/ runs' = runs
         \/ DOMAIN runs' = {}
         \/ \E w, rec : runs' = With(runs, w, rec) /\ ~rec.verified,
         NEW r \in DOMAIN runs', Verifies(r)
  PROVE  FALSE
<1>1. CASE runs' = runs  BY <1>1 DEF Verifies
<1>2. ASSUME NEW w, NEW rec, runs' = With(runs, w, rec), ~rec.verified  PROVE FALSE
  <2>1. runs'[r] = rec  BY <1>2, OnlyTheWrittenVerifies
  <2> QED BY <1>2, <2>1 DEF Verifies
<1> QED BY <1>1, <1>2

LEMMA ExactStep ==
  ASSUME TypeInv, RestoreInv, [Next]_vars, NEW r \in DOMAIN runs', Verifies(r)
  PROVE  Exact(r)
<1>1. ASSUME runs' = runs  PROVE FALSE  BY <1>1, NothingVerified
<1>2. ASSUME NEW w, NEW rec, runs' = With(runs, w, rec), ~rec.verified  PROVE FALSE
  BY <1>2, NothingVerified
<1>3. ASSUME Completed  PROVE at.pc \notin Forward
  <2> SUFFICES ASSUME at.pc \in Forward  PROVE FALSE
    OBVIOUS
  <2> DEFINE assets == [a \in Assets |-> [at.rec.assets[a] EXCEPT !.cur = mem[a]]]
             rec == [at.rec EXCEPT !.status = "completed", !.avail = TRUE, !.assets = assets]
  <2>1. at.rec \in RunRecord /\ ~at.rec.verified  BY ForwardSound DEF Sound
  <2>2. ~rec.verified  BY <2>1 DEF RunRecord
  <2>3. runs' = With(runs, at.r, rec)  BY <1>3 DEF Completed
  <2> HIDE DEF rec
  <2> QED BY <1>2, <2>2, <2>3
<1>4. CASE Works  BY <1>1, <1>4, WorkKeeps
<1>5. ASSUME NEW a \in Assets, UserEdits(a) \/ UserSaves(a)  PROVE FALSE
  BY <1>1, <1>5 DEF UserEdits, UserSaves
<1>6. ASSUME NEW req \in Requests, Execute(req)  PROVE FALSE
  <2> DEFINE rec == [req |-> req, inst |-> inst, status |-> "running", avail |-> FALSE,
                     verified |-> FALSE, next |-> 1, cid |-> 0, save |-> req \in Saving,
                     assets |-> << >>]
  <2>1. runs' = With(runs, Cardinality(Known) + 1, rec) \/ runs' = runs
    BY <1>6 DEF Execute
  <2>2. ~rec.verified  OBVIOUS
  <2> HIDE DEF rec
  <2> QED BY <1>1, <1>2, <2>1, <2>2
<1>7. ASSUME NEW k \in RunIds, RollbackRun(k)  PROVE FALSE
  BY <1>1, <1>7 DEF RollbackRun
<1>8. ASSUME NEW k \in RunIds, ResumeRun(k)  PROVE FALSE
  <2>1. LoadRun(k).status = "running" /\ Sound(LoadRun(k))
    BY <1>8, LoadedRun DEF ResumeRun, CanResume
  <2>2. ~FromBaseline(LoadRun(k)).verified
    BY <2>1 DEF Sound, FromBaseline, Reopened, RunRecord
  <2>3. runs' = With(runs, k, FromBaseline(LoadRun(k)))  BY <1>8 DEF ResumeRun
  <2> QED BY <1>2, <2>2, <2>3
<1>9. ASSUME NEW k \in RunIds, GetStatus(k)  PROVE FALSE
  <2> DEFINE blocked == [LoadRun(k) EXCEPT !.status = "blocked", !.verified = FALSE]
  <2>1. runs' = With(runs, k, blocked) \/ runs' = runs  BY <1>9 DEF GetStatus
  <2>2. ~blocked.verified
    <3>1. LoadRun(k) \in RunRecord  BY <1>9, LoadedRun DEF GetStatus
    <3> QED BY <3>1 DEF RunRecord
  <2> HIDE DEF blocked
  <2> QED BY <1>1, <1>2, <2>1, <2>2
<1>10. CASE Stage  BY <1>10, StageExact
<1>11. CASE SaveCheckpoint
  <2>1. ~at.rec.verified  BY <1>11 DEF SaveCheckpoint, TypeInv, HandlerInv, Forward
  <2>2. runs' = With(runs, at.r, at.rec) \/ runs' = runs  BY <1>11 DEF SaveCheckpoint
  <2> QED BY <1>1, <1>2, <2>1, <2>2
<1>12. CASE StepsEnd
  <2>1. Completed \/ runs' = runs  BY <1>12 DEF StepsEnd
  <2> QED BY <1>1, <1>3, <1>12, <2>1 DEF StepsEnd, Forward
<1>13. CASE SaveEnds  BY <1>3, <1>13 DEF SaveEnds, Forward
<1>14. CASE RestoreEnds  BY <1>14, RestoreEndsExact
<1>15. CASE Crash
  <2>1. DOMAIN runs' = {}  BY <1>15 DEF Crash
  <2> QED BY <2>1
<1>16. CASE UNCHANGED vars  BY <1>1, <1>16 DEF vars
<1> QED
  BY <1>4, <1>5, <1>6, <1>7, <1>8, <1>9, <1>10, <1>11, <1>12, <1>13, <1>14, <1>15, <1>16
  DEF Next, Works

LEMMA RestoreAlways == Spec => []RestoreInv
<1>1. Init => RestoreInv  BY DEF Init, Stopped, RestoreInv
<1> QED BY <1>1, RestoreStep, TypesAlways, PTL DEF Spec

\* A run whose rollback is said to be verified has the packages of all its assets as they
\* were before it, and in memory the structure they had, whichever of them could not be put
\* back at first.  (What the structure leaves out may be different: RollbackV2 does not
\* look at it.)
THEOREM RollbackRestores == Spec => RollbackIsExact
<1>1. TypeInv /\ RestoreInv /\ [Next]_vars =>
        [\A r \in DOMAIN runs' :
           runs'[r].verified /\ (r \in DOMAIN runs => ~runs[r].verified) =>
             \A a \in DOMAIN runs'[r].assets :
               /\ pkg'[a] = runs'[r].assets[a].snapshot
               /\ SameStructure(mem'[a], runs'[r].assets[a].before)]_vars
  BY ExactStep DEF Verifies, Exact
<1> QED BY <1>1, RestoreAlways, TypesAlways, PTL DEF Spec, RollbackIsExact

---------------------------------------------------------------------------
(* The edits of users stay.                                                *)

\* The contents that a record has of an asset, but for checkpoints, have the edits that
\* it had before the run.
AssetKept(asset) ==
  \A content \in {asset.cur, asset.pkgCur, asset.snapshot, asset.undo} :
    EditsOf(content) = EditsOf(asset.before)
EditsKept(rec) == \A a \in DOMAIN rec.assets : AssetKept(rec.assets[a])

\* A handler that works on assets holds the edits in them where they are, in memory and on
\* disk; and a package has at most the edits that the asset in memory has, and all of
\* them when the asset is clean.
EditsInv ==
  /\ \A r \in DOMAIN runs : EditsKept(runs[r])
  /\ \A r \in DOMAIN journals : EditsKept(journals[r])
  /\ ~Idle => EditsKept(at.rec)
  /\ Staged => \A a \in Assets : /\ EditsOf(mem[a]) = EditsOf(Before(a))
                                 /\ EditsOf(pkg[a]) = EditsOf(Before(a))
  /\ \A a \in Assets : /\ EditsOf(pkg[a]) <= EditsOf(mem[a])
                       /\ a \notin dirty => EditsOf(pkg[a]) = EditsOf(mem[a])

\* The edits of a content are a number, and a change is one edit more if it is an edit.
LEMMA EditsOfContent ==
  ASSUME NEW content \in Contents
  PROVE  EditsOf(content) \in Nat /\ (content = Absent => EditsOf(content) = 0)
<1>1. CASE content = Absent  BY <1>1 DEF EditsOf
<1>2. CASE content # Absent
  <2>1. content \in Seq(Int)  BY <1>2 DEF Contents
  <2>2. DOMAIN content = 1..Len(content) /\ Len(content) \in Int  BY <2>1, LenProperties
  <2>3. IsFiniteSet(1..Len(content))
    <3>1. 1 \in Int  OBVIOUS
    <3> QED BY <2>2, <3>1, FS_Interval
  <2>4. IsFiniteSet({i \in DOMAIN content : content[i] = Edit})  BY <2>2, <2>3, FS_Subset
  <2> QED BY <1>2, <2>4, FS_CardinalityType DEF EditsOf
<1> QED BY <1>1, <1>2

LEMMA EditsOfChanged ==
  ASSUME NEW content \in Contents, NEW change \in Int
  PROVE  EditsOf(Changed(content, change)) =
           IF change = Edit THEN EditsOf(content) + 1 ELSE EditsOf(content)
<1> DEFINE new == Changed(content, change)
           base == IF content = Absent THEN << >> ELSE content
           Ed(c) == {i \in DOMAIN c : c[i] = Edit}
<1>1. base \in Seq(Int) /\ new = Append(base, change) /\ new # Absent
  <2>1. CASE content = Absent
    <3>1. << >> \in Seq(Int) /\ Append(<< >>, change) = <<change>>  OBVIOUS
    <3> QED BY <2>1, <3>1, ChangedContent DEF Changed
  <2>2. CASE content # Absent  BY <2>2, ChangedContent DEF Changed, Contents
  <2> QED BY <2>1, <2>2
<1>2. EditsOf(content) = Cardinality(Ed(base))
  <2>1. CASE content = Absent
    <3>1. Ed(base) = {}  BY <2>1
    <3>2. Cardinality({}) = 0  BY FS_EmptySet
    <3> QED BY <2>1, <3>1, <3>2 DEF EditsOf
  <2>2. CASE content # Absent  BY <2>2 DEF EditsOf
  <2> QED BY <2>1, <2>2
<1>3. EditsOf(new) = Cardinality(Ed(new))  BY <1>1 DEF EditsOf
<1> HIDE DEF new, base
<1>4. Len(base) \in Nat /\ DOMAIN base = 1..Len(base) /\ DOMAIN new = 1..(Len(base) + 1)
      /\ new[Len(base) + 1] = change /\ \A i \in 1..Len(base) : new[i] = base[i]
  <2>1. Len(base) \in Nat /\ DOMAIN base = 1..Len(base)  BY <1>1, LenProperties
  <2>2. new \in Seq(Int) /\ Len(new) = Len(base) + 1 /\ new[Len(new)] = change
        /\ \A i \in 1..Len(base) : new[i] = base[i]
    BY <1>1, AppendProperties
  <2>3. DOMAIN new = 1..Len(new)  BY <2>2, LenProperties
  <2> QED BY <2>1, <2>2, <2>3
<1>5. IsFiniteSet(Ed(base))
  <2>1. 1 \in Int /\ Len(base) \in Int  BY <1>4
  <2>2. IsFiniteSet(1..Len(base))  BY <2>1, FS_Interval
  <2> QED BY <1>4, <2>2, FS_Subset
<1>6. 1..(Len(base) + 1) = (1..Len(base)) \cup {Len(base) + 1} /\ Len(base) + 1 \notin 1..Len(base)
  BY <1>4
<1>7. CASE change = Edit
  <2>1. Ed(new) = Ed(base) \cup {Len(base) + 1}  BY <1>4, <1>6, <1>7
  <2>2. Len(base) + 1 \notin Ed(base)  BY <1>4, <1>6
  <2> HIDE DEF Ed
  <2>3. Cardinality(Ed(base) \cup {Len(base) + 1}) = Cardinality(Ed(base)) + 1
    BY <1>5, <2>2, FS_AddElement
  <2> QED BY <1>2, <1>3, <1>7, <2>1, <2>3 DEF new
<1>8. CASE change # Edit
  <2>1. Ed(new) = Ed(base)  BY <1>4, <1>6, <1>8
  <2> HIDE DEF Ed
  <2> QED BY <1>2, <1>3, <1>8, <2>1 DEF new
<1> QED BY <1>7, <1>8

\* A step of a plan, and one that fails halfway, makes no edit.
LEMMA EditsOfStep ==
  ASSUME TypeInv, NEW a \in Assets, NEW change \in Nat
  PROVE  EditsOf(Changed(mem[a], change)) = EditsOf(mem[a])
<1>1. mem[a] \in Contents /\ change \in Int /\ change # Edit
  BY DEF TypeInv, TypeOK, Edit
<1> QED BY <1>1, EditsOfChanged

\* The edits are part of the structure of an asset.
LEMMA EditsInStructure ==
  ASSUME NEW content \in Contents
  PROVE  EditsOf(content) = IF Edit \in DOMAIN Structure(content).parts
                            THEN Structure(content).parts[Edit] ELSE 0
<1> DEFINE changes == IF content = Absent THEN << >> ELSE content
           Count(change) == Cardinality({i \in DOMAIN changes : changes[i] = change})
           shown == ToSet(changes) \ (Unseen \cup {Detail})
<1>1. Structure(content).parts = [change \in shown |-> Count(change)]
  BY DEF Structure
<1>2. Edit \notin Unseen \cup {Detail}  BY DEF Edit, Detail
<1>3. EditsOf(content) = Count(Edit)
  <2>1. CASE content = Absent
    <3>1. {i \in DOMAIN changes : changes[i] = Edit} = {}  BY <2>1
    <3>2. Cardinality({}) = 0  BY FS_EmptySet
    <3> QED BY <2>1, <3>1, <3>2 DEF EditsOf
  <2>2. CASE content # Absent  BY <2>2 DEF EditsOf
  <2> QED BY <2>1, <2>2
<1>4. CASE Edit \in ToSet(changes)
  <2>1. Edit \in shown  BY <1>2, <1>4
  <2> HIDE DEF shown, Count
  <2> QED BY <1>1, <1>3, <2>1
<1>5. CASE Edit \notin ToSet(changes)
  <2>1. {i \in DOMAIN changes : changes[i] = Edit} = {}  BY <1>5 DEF ToSet
  <2>2. Count(Edit) = 0  BY <2>1, FS_EmptySet
  <2>3. Edit \notin shown  BY <1>5
  <2> HIDE DEF shown, Count
  <2> QED BY <1>1, <1>3, <2>2, <2>3
<1> QED BY <1>4, <1>5

LEMMA SameEdits ==
  ASSUME NEW one \in Contents, NEW other \in Contents, SameStructure(one, other)
  PROVE  EditsOf(one) = EditsOf(other)
BY EditsInStructure DEF SameStructure

\* A record is written with the edits it should have.
LEMMA KeptWritten ==
  ASSUME NEW f, \A k \in DOMAIN f : EditsKept(f[k]), NEW r, NEW rec, EditsKept(rec)
  PROVE  \A k \in DOMAIN With(f, r, rec) : EditsKept(With(f, r, rec)[k])
<1>1. /\ DOMAIN With(f, r, rec) = DOMAIN f \cup {r} /\ With(f, r, rec)[r] = rec
      /\ \A k \in DOMAIN f : k # r => With(f, r, rec)[k] = f[k]
  BY DEF With
<1>2. ASSUME NEW k \in DOMAIN With(f, r, rec)  PROVE EditsKept(With(f, r, rec)[k])
  <2>1. CASE k = r  BY <1>1, <2>1
  <2>2. CASE k # r
    <3>1. k \in DOMAIN f /\ With(f, r, rec)[k] = f[k]  BY <1>1, <1>2, <2>2
    <3> QED BY <3>1
  <2> QED BY <2>1, <2>2
<1> QED BY <1>2

LEMMA RecordsKept ==
  ASSUME EditsInv, NEW r, NEW rec, EditsKept(rec),
         \/ journals' = journals
         \/ \E s \in SaveRun(r, rec) : journals' = s.journals,
         \/ runs' = runs
         \/ runs' = With(runs, r, rec)
  PROVE  /\ \A k \in DOMAIN runs' : EditsKept(runs'[k])
         /\ \A k \in DOMAIN journals' : EditsKept(journals'[k])
<1>1. /\ \A k \in DOMAIN runs : EditsKept(runs[k])
      /\ \A k \in DOMAIN journals : EditsKept(journals[k])
  BY DEF EditsInv
<1>2. journals' = journals \/ journals' = With(journals, r, rec)  BY SaveRunWrites
<1>3. \A k \in DOMAIN journals' : EditsKept(journals'[k])
  <2>1. \A k \in DOMAIN With(journals, r, rec) : EditsKept(With(journals, r, rec)[k])
    BY <1>1, KeptWritten
  <2>2. CASE journals' = With(journals, r, rec)  BY <2>1, <2>2
  <2>3. CASE journals' = journals  BY <1>1, <2>3
  <2> QED BY <1>2, <2>2, <2>3
<1>4. \A k \in DOMAIN runs' : EditsKept(runs'[k])
  <2>1. \A k \in DOMAIN With(runs, r, rec) : EditsKept(With(runs, r, rec)[k])
    BY <1>1, KeptWritten
  <2>2. CASE runs' = With(runs, r, rec)  BY <2>1, <2>2
  <2>3. CASE runs' = runs  BY <1>1, <2>3
  <2> QED BY <2>2, <2>3
<1> QED BY <1>3, <1>4

\* A step of a handler leaves the edits in an asset as many as they are.
EditsStay(a) == EditsOf(mem'[a]) = EditsOf(mem[a]) /\ EditsOf(pkg'[a]) = EditsOf(pkg[a])

LEMMA StagedEdits ==
  ASSUME TypeInv, EditsInv, Staged
  PROVE  /\ EditsKept(at.rec) /\ at.rec.assets \in [Assets -> AssetRecord]
         /\ mem \in [Assets -> Contents] /\ pkg \in [Assets -> Contents]
         /\ \A a \in Assets : /\ EditsOf(mem[a]) = EditsOf(at.rec.assets[a].before)
                              /\ EditsOf(pkg[a]) = EditsOf(at.rec.assets[a].before)
                              /\ AssetKept(at.rec.assets[a])
<1>1. ~Idle  BY DEF Staged, Idle
<1>2. EditsKept(at.rec) /\ at.rec.assets \in [Assets -> AssetRecord]
  BY <1>1 DEF EditsInv, TypeInv, HandlerInv
<1> QED BY <1>2 DEF EditsInv, EditsKept, Before, TypeInv, TypeOK

LEMMA FailRunEdits ==
  ASSUME TypeInv, EditsInv, at.pc \in Forward \ {"stage"}, FailRun
  PROVE  /\ EditsKept(at'.rec) /\ \A a \in Assets : EditsOf(mem'[a]) = EditsOf(mem[a])
<1>1. Staged  BY DEF Staged, Forward
<1>2. EditsKept(at'.rec)  BY <1>1, FailRunKeeps, StagedEdits DEF EditsKept
<1>3. \A a \in Assets : EditsOf(mem'[a]) = EditsOf(mem[a])
  <2>1. mem' = mem \/ mem' = [a \in Assets |-> at.rec.assets[a].undo]
    BY FailRunKeeps
  <2> QED BY <1>1, <2>1, StagedEdits DEF AssetKept
<1> QED BY <1>2, <1>3

LEMMA CapturedEdits ==
  ASSUME TypeInv, EditsInv, at.pc \in {"capture", "copy"}, at.left # << >>,
         NEW a, a = Head(at.left), NEW ckpt \in Contents, NEW file \in Int, NEW memo \in BOOLEAN,
         Captured(a, ckpt, file, memo)
  PROVE  EditsKept(at'.rec)
<1>1. Staged  BY DEF Staged
<1>2. /\ at'.rec = [at.rec EXCEPT !.assets = at'.rec.assets]
      /\ \A b \in Assets : /\ SameBaseline(at'.rec.assets[b], at.rec.assets[b])
                           /\ at'.rec.assets[b].cur = at.rec.assets[b].cur
                           /\ at'.rec.assets[b].pkgCur = at.rec.assets[b].pkgCur
      /\ HandlerInv' /\ at'.pc = "capture"
  BY CapturedTypes
<1>3. at'.rec.assets \in [Assets -> AssetRecord]  BY <1>2 DEF HandlerInv, Staged
<1> QED BY <1>1, <1>2, <1>3, StagedEdits DEF EditsKept, AssetKept, SameBaseline

LEMMA ApplyEdits ==
  ASSUME TypeInv, EditsInv, Apply
  PROVE  EditsKept(at'.rec) /\ \A b \in Assets : EditsStay(b)
<1> DEFINE a == Step[2]
           acts == Step[1] = "edit" \/ (Step[1] = "init" /\ mem[a] = Absent)
           now == IF acts THEN Changed(mem[a], at.rec.next) ELSE mem[a]
           cid == IF Step[1] = "edit" THEN CheckpointId(Plan, at.rec.next, FALSE) ELSE at.rec.cid
           rec == [at.rec EXCEPT !.next = @ + 1, !.cid = cid]
           scope == CASE Step[1] \in {"init", "edit"} -> a
                      [] Step[1] = "readBack" -> Absent
                      [] Step[1] = "compile" -> "all"
<1>1. at.pc \in Forward \ {"stage"} /\ Steps /\ Staged /\ ~Idle /\ UNCHANGED pkg
  BY DEF Apply, TypeInv, HandlerInv, Forward, Staged, Idle
<1>2. at.rec \in RunRecord /\ at \in Handler /\ at.rec.next \in Nat /\ a \in Assets
  <2>1. Step \in Kinds \X Assets /\ at.rec \in RunRecord /\ at.rec.next \in Nat \ {0}
    BY <1>1, PlanOf
  <2> QED BY <2>1 DEF TypeInv, HandlerInv
<1>3. \/ /\ mem' = [mem EXCEPT ![a] = now]
         /\ at' = ToCapture(Hashed(rec, a, now), scope, "step")
      \/ FailRun
      \/ /\ at' = [at EXCEPT !.pc = "fail"]
         /\ mem' = [mem EXCEPT ![a] = Changed(@, Partial)]
  BY DEF Apply
<1>4. EditsOf(now) = EditsOf(mem[a]) /\ EditsOf(Changed(mem[a], Partial)) = EditsOf(mem[a])
      /\ now \in Contents
  <2>1. Partial \in Nat /\ at.rec.next \in Int  BY <1>2 DEF Partial
  <2>2. mem[a] \in Contents  BY <1>2 DEF TypeInv, TypeOK
  <2>3. Changed(mem[a], at.rec.next) \in Contents  BY <2>1, <2>2, ChangedContent
  <2> QED BY <1>2, <2>1, <2>2, <2>3, EditsOfStep
<1>5. rec.assets = at.rec.assets /\ DOMAIN rec = DOMAIN at.rec /\ "assets" \in DOMAIN rec
  BY <1>2 DEF RunRecord
<1> HIDE DEF a, acts, now, cid, rec, scope
<1>6. CASE /\ mem' = [mem EXCEPT ![a] = now]
           /\ at' = ToCapture(Hashed(rec, a, now), scope, "step")
  <2> DEFINE new == Hashed(rec, a, now)
             asset == [at.rec.assets[a] EXCEPT
                         !.cur = now,
                         !.pkgCur = IF pkg[a] = Absent THEN at.rec.assets[a].pkgCur ELSE pkg[a]]
  <2>1. AssetKept(asset)
    <3>1. at.rec.assets[a] \in AssetRecord  BY <1>1, <1>2, StagedEdits
    <3>2. SameBaseline(asset, at.rec.assets[a]) /\ asset.cur = now
          /\ asset.pkgCur = IF pkg[a] = Absent THEN at.rec.assets[a].pkgCur ELSE pkg[a]
      BY <3>1 DEF AssetRecord, SameBaseline
    <3> HIDE DEF asset
    <3> QED BY <1>1, <1>2, <1>4, <3>2, StagedEdits DEF AssetKept, SameBaseline
  <2>2. new.assets = [at.rec.assets EXCEPT ![a] = asset]
    BY <1>1, <1>2, <1>5, StagedEdits DEF Hashed, AssetRecord
  <2> HIDE DEF new, asset
  <2>3. EditsKept(new)
    BY <1>1, <1>2, <2>1, <2>2, StagedEdits DEF EditsKept
  <2>4. at' = ToCapture(new, scope, "step")  BY <1>6 DEF new
  <2>5. at'.rec = new  BY ONLY <1>2, <2>4 DEF ToCapture, Handler
  <2>6. \A b \in Assets : EditsStay(b)
    <3>1. mem \in [Assets -> Contents]  BY DEF TypeInv, TypeOK
    <3> QED BY <1>1, <1>2, <1>4, <1>6, <3>1 DEF EditsStay
  <2> QED BY <2>3, <2>5, <2>6
<1>7. CASE FailRun  BY <1>1, <1>7, FailRunEdits DEF EditsStay
<1>8. CASE at' = [at EXCEPT !.pc = "fail"] /\ mem' = [mem EXCEPT ![a] = Changed(@, Partial)]
  <2>1. at'.rec = at.rec  BY <1>2, <1>8 DEF Handler
  <2>2. \A b \in Assets : EditsStay(b)
    <3>1. mem \in [Assets -> Contents]  BY DEF TypeInv, TypeOK
    <3> QED BY <1>1, <1>2, <1>4, <1>8, <3>1 DEF EditsStay
  <2> QED BY <1>1, <2>1, <2>2, StagedEdits
<1> QED BY <1>3, <1>6, <1>7, <1>8

LEMMA CopyEdits ==
  ASSUME TypeInv, EditsInv, CopyAndRestore
  PROVE  EditsKept(at'.rec) /\ \A b \in Assets : EditsStay(b)
<1> DEFINE a == Head(at.left)
           baseline == [pkg EXCEPT ![a] = at.rec.assets[a].snapshot]
<1>1. at.pc = "copy" /\ at.left # << >> /\ at.pc \in Forward \ {"stage"} /\ Staged
  BY DEF CopyAndRestore, Forward, TypeInv, HandlerInv, Staged
<1>2. a \in Assets /\ mem[a] \in Contents /\ at.rec.cid \in Int
  BY <1>1, LeftShrinks DEF TypeInv, TypeOK, HandlerInv, Idle, RunRecord
<1>3. \/ /\ pkg' = baseline /\ UNCHANGED mem
         /\ Captured(a, mem[a], at.rec.cid, TRUE)
      \/ pkg' \in {pkg, baseline} /\ FailRun
  BY DEF CopyAndRestore
<1>4. \A b \in Assets : EditsOf(baseline[b]) = EditsOf(pkg[b])
  BY <1>1, <1>2, StagedEdits DEF AssetKept
<1>5. CASE pkg' = baseline /\ UNCHANGED mem /\ Captured(a, mem[a], at.rec.cid, TRUE)
  <2>1. EditsKept(at'.rec)  BY <1>1, <1>2, <1>5, CapturedEdits
  <2> QED BY <1>4, <1>5, <2>1 DEF EditsStay
<1>6. CASE pkg' \in {pkg, baseline} /\ FailRun
  BY <1>1, <1>4, <1>6, FailRunEdits DEF EditsStay
<1> QED BY <1>3, <1>5, <1>6

LEMMA SaveEdits ==
  ASSUME TypeInv, EditsInv, Save
  PROVE  EditsKept(at'.rec) /\ \A b \in Assets : EditsStay(b)
<1> DEFINE a == Head(at.left)
           asset == [at.rec.assets[a] EXCEPT !.cur = mem[a], !.pkgCur = mem[a]]
           rec == [at.rec EXCEPT !.assets[a].cur = mem[a], !.assets[a].pkgCur = mem[a]]
<1>1. at.pc = "save" /\ at.left # << >> /\ at.pc \in Forward \ {"stage"} /\ Staged
  BY DEF Save, Forward, Staged
<1>2. a \in Assets /\ at.rec \in RunRecord /\ at \in Handler
  BY <1>1, LeftShrinks DEF TypeInv, TypeOK, HandlerInv, Idle
<1>3. \/ /\ pkg' = [pkg EXCEPT ![a] = mem[a]] /\ UNCHANGED mem
         /\ at' = Goes("save", rec, Tail(at.left))
      \/ FailRun /\ UNCHANGED pkg
  BY DEF Save
<1>4. \A b \in Assets : EditsOf([pkg EXCEPT ![a] = mem[a]][b]) = EditsOf(pkg[b])
  BY <1>1, <1>2, StagedEdits
<1> HIDE DEF a
<1>5. CASE /\ pkg' = [pkg EXCEPT ![a] = mem[a]] /\ UNCHANGED mem
           /\ at' = Goes("save", rec, Tail(at.left))
  <2>1. at.rec.assets[a] \in AssetRecord /\ at.rec.assets \in [Assets -> AssetRecord]
    BY <1>1, <1>2, StagedEdits
  <2>2. rec.assets = [at.rec.assets EXCEPT ![a] = asset]
    BY <1>2, <2>1 DEF RunRecord, AssetRecord
  <2>3. SameBaseline(asset, at.rec.assets[a]) /\ asset.cur = mem[a] /\ asset.pkgCur = mem[a]
    BY <2>1 DEF AssetRecord, SameBaseline
  <2> HIDE DEF rec, asset
  <2>4. AssetKept(asset)  BY <1>1, <1>2, <2>3, StagedEdits DEF AssetKept, SameBaseline
  <2>5. EditsKept(rec)  BY <1>1, <1>2, <2>2, <2>4, StagedEdits DEF EditsKept
  <2>6. at'.rec = rec  BY <1>2, <1>5 DEF Goes, Handler
  <2> QED BY <1>4, <1>5, <2>5, <2>6 DEF EditsStay
<1>6. CASE FailRun /\ UNCHANGED pkg  BY <1>1, <1>6, FailRunEdits DEF EditsStay
<1> QED BY <1>3, <1>5, <1>6

LEMMA CaptureEdits ==
  ASSUME TypeInv, EditsInv, NEW a \in Assets, Capture(a)
  PROVE  EditsKept(at'.rec) /\ \A b \in Assets : EditsStay(b)
<1> DEFINE asset == at.rec.assets[a]
<1>1. at.pc = "capture" /\ at.left # << >> /\ a = Head(at.left) /\ at.pc \in Forward \ {"stage"}
      /\ Staged /\ at \in Handler
  BY DEF Capture, Capturing, Forward, Staged, TypeInv, HandlerInv
<1>2. asset.ckpt \in Contents /\ asset.file \in Int /\ Absent \in Contents
  BY <1>1, StagedEdits DEF AssetRecord, Contents
<1>3. ASSUME UNCHANGED <<mem, pkg>>,
             Captured(a, Absent, asset.file, FALSE) \/ Captured(a, asset.ckpt, asset.file, TRUE)
      PROVE  EditsKept(at'.rec) /\ \A b \in Assets : EditsStay(b)
  BY <1>1, <1>2, <1>3, CapturedEdits DEF EditsStay
<1>4. ASSUME pkg' = [pkg EXCEPT ![a] = mem[a]], at' = [at EXCEPT !.pc = "copy"], UNCHANGED mem
      PROVE  EditsKept(at'.rec) /\ \A b \in Assets : EditsStay(b)
  <2>1. at'.rec = at.rec  BY <1>1, <1>4 DEF Handler
  <2> QED BY <1>1, <1>4, <2>1, StagedEdits DEF EditsStay
<1>5. ASSUME FailRun, UNCHANGED pkg
      PROVE  EditsKept(at'.rec) /\ \A b \in Assets : EditsStay(b)
  BY <1>1, <1>5, FailRunEdits DEF EditsStay
<1> QED BY <1>3, <1>4, <1>5 DEF Capture

LEMMA RestoreEdits ==
  ASSUME TypeInv, EditsInv, NEW a \in Assets, Restore(a)
  PROVE  EditsKept(at'.rec) /\ \A b \in Assets : EditsStay(b)
<1> DEFINE snapshot == at.rec.assets[a].snapshot
           restored == [pkg EXCEPT ![a] = snapshot]
           now == SameStructure(snapshot, at.rec.assets[a].before)
<1>1. at.pc = "restore" /\ at.left # << >> /\ a = Head(at.left) /\ Staged
  BY DEF Restore, Staged
<1>2. mem' \in [Assets -> Contents] /\ pkg' \in [Assets -> Contents]
  BY RestoreTypes DEF TypeInv, TypeOK
<1>3. /\ mem' \in {mem, [mem EXCEPT ![a] = snapshot], [mem EXCEPT ![a] = pkg[a]]}
      /\ pkg' \in {pkg, restored}
      /\ Treated(a, TRUE) \/ Treated(a, FALSE) \/ Treated(a, now)
  BY DEF Restore
<1>4. \A b \in Assets : EditsStay(b)
  BY <1>1, <1>3, StagedEdits DEF EditsStay, AssetKept
<1>5. /\ \A b \in Assets : /\ SameBaseline(at'.rec.assets[b], at.rec.assets[b])
                           /\ b # a => at'.rec.assets[b] = at.rec.assets[b]
      /\ at'.rec.assets[a].cur = mem'[a] /\ at'.rec.assets[a].pkgCur = pkg'[a]
      /\ HandlerInv' /\ at'.pc = "restore"
  <2>1. mem'[a] \in Contents /\ pkg'[a] \in Contents  BY <1>2
  <2>3. now \in BOOLEAN  BY DEF SameStructure
  <2> HIDE DEF snapshot, restored, now
  <2>2. PICK ok \in BOOLEAN : Treated(a, ok)  BY <1>3, <2>3
  <2> QED BY <1>1, <2>1, <2>2, TreatedTypes
<1>6. at'.rec.assets \in [Assets -> AssetRecord]  BY <1>5 DEF HandlerInv, Staged
<1>7. ASSUME NEW b \in Assets  PROVE AssetKept(at'.rec.assets[b])
  <2>1. CASE b = a
    BY <1>1, <1>4, <1>5, <2>1, StagedEdits DEF AssetKept, EditsStay, SameBaseline
  <2>2. CASE b # a  BY <1>1, <1>5, <2>2, StagedEdits
  <2> QED BY <2>1, <2>2
<1> QED BY <1>4, <1>6, <1>7 DEF EditsKept

LEMMA WorkEdits ==
  ASSUME TypeInv, EditsInv, Works
  PROVE  EditsKept(at'.rec) /\ \A b \in Assets : EditsStay(b)
<1>1. CASE Prepare
  <2> DEFINE cid == CheckpointId(Plan, at.rec.next, TRUE)
             new == [at.rec EXCEPT !.cid = cid]
  <2>1. at' = ToCapture(new, Absent, "apply") /\ UNCHANGED <<mem, pkg>> /\ Staged /\ ~Idle
    BY <1>1 DEF Prepare, Staged, Idle
  <2>2. at.rec \in RunRecord /\ at \in Handler  BY <2>1 DEF TypeInv, HandlerInv
  <2>3. new.assets = at.rec.assets  BY <2>2 DEF RunRecord
  <2> HIDE DEF new
  <2>4. at'.rec = new  BY ONLY <2>1, <2>2 DEF ToCapture, Handler
  <2> QED BY <2>1, <2>3, <2>4, StagedEdits DEF EditsKept, EditsStay
<1>2. CASE Fail
  <2>1. FailRun /\ UNCHANGED pkg /\ at.pc \in Forward \ {"stage"}  BY <1>2 DEF Fail, Forward
  <2> QED BY <2>1, FailRunEdits DEF EditsStay
<1> QED
  BY <1>1, <1>2, ApplyEdits, CopyEdits, SaveEdits, CaptureEdits, RestoreEdits DEF Works

\* No edit gets lost: what the property says of a step.
EditsGrow ==
  \A a \in Assets :
    /\ EditsOf(pkg[a]) <= EditsOf(pkg'[a])
    /\ inst' = inst => EditsOf(mem[a]) <= EditsOf(mem'[a])

\* A step of a handler that works on the assets, as far as the edits go.
LEMMA StagedStep ==
  ASSUME TypeInv, EditsInv, Staged, \A b \in Assets : EditsStay(b),
         Staged' => \A b \in Assets : at'.rec.assets[b].before = at.rec.assets[b].before,
         ~Idle' => EditsKept(at'.rec),
         \A k \in DOMAIN runs' : EditsKept(runs'[k]),
         \A k \in DOMAIN journals' : EditsKept(journals'[k])
  PROVE  EditsInv' /\ EditsGrow
<1>1. \A b \in Assets : /\ EditsOf(mem'[b]) = EditsOf(at.rec.assets[b].before)
                        /\ EditsOf(pkg'[b]) = EditsOf(at.rec.assets[b].before)
                        /\ EditsOf(mem[b]) = EditsOf(at.rec.assets[b].before)
                        /\ EditsOf(pkg[b]) = EditsOf(at.rec.assets[b].before)
  BY StagedEdits DEF EditsStay
<1>2. \A b \in Assets : EditsOf(mem[b]) \in Nat
  <2>1. \A b \in Assets : mem[b] \in Contents  BY DEF TypeInv, TypeOK
  <2> QED BY <2>1, EditsOfContent
<1>3. \A b \in Assets : EditsOf(pkg'[b]) = EditsOf(mem[b]) /\ EditsOf(mem'[b]) = EditsOf(mem[b])
                        /\ EditsOf(pkg[b]) = EditsOf(mem[b])
  BY <1>1
<1>4. EditsGrow  BY <1>2, <1>3 DEF EditsGrow
<1>5. Staged' => \A b \in Assets : /\ EditsOf(mem'[b]) = EditsOf(Before(b)')
                                   /\ EditsOf(pkg'[b]) = EditsOf(Before(b)')
  BY <1>1 DEF Before
<1>6. \A b \in Assets : EditsOf(pkg'[b]) <= EditsOf(mem'[b]) /\ EditsOf(pkg'[b]) = EditsOf(mem'[b])
  BY <1>2, <1>3
<1> QED BY <1>4, <1>5, <1>6 DEF EditsInv

\* A step that changes no asset, and begins or ends no work on them.
LEMMA QuietStep ==
  ASSUME TypeInv, EditsInv, UNCHANGED <<mem, pkg, dirty>>, ~Staged',
         ~Idle' => EditsKept(at'.rec),
         \A k \in DOMAIN runs' : EditsKept(runs'[k]),
         \A k \in DOMAIN journals' : EditsKept(journals'[k])
  PROVE  EditsInv' /\ EditsGrow
<1>1. \A b \in Assets : EditsOf(mem[b]) \in Nat /\ EditsOf(pkg[b]) \in Nat
  <2>1. \A b \in Assets : mem[b] \in Contents /\ pkg[b] \in Contents  BY DEF TypeInv, TypeOK
  <2> QED BY <2>1, EditsOfContent
<1> QED BY <1>1 DEF EditsInv, EditsGrow

LEMMA UsersEdits ==
  ASSUME TypeInv, EditsInv, NEW a \in Assets, UserEdits(a) \/ UserSaves(a)
  PROVE  EditsInv' /\ EditsGrow
<1>1. Idle /\ UNCHANGED <<inst, runs, journals, at>>  BY DEF UserEdits, UserSaves
<1>2. /\ \A k \in DOMAIN runs' : EditsKept(runs'[k])
      /\ \A k \in DOMAIN journals' : EditsKept(journals'[k])
      /\ Idle' /\ ~Staged'
  BY <1>1 DEF EditsInv, Idle, Staged
<1>3. \A b \in Assets : EditsOf(mem[b]) \in Nat /\ EditsOf(pkg[b]) \in Nat
                        /\ mem[b] \in Contents
  <2>1. \A b \in Assets : mem[b] \in Contents /\ pkg[b] \in Contents  BY DEF TypeInv, TypeOK
  <2> QED BY <2>1, EditsOfContent
<1>4. mem \in [Assets -> Contents] /\ pkg \in [Assets -> Contents]  BY DEF TypeInv, TypeOK
<1>5. \A b \in Assets : /\ EditsOf(pkg[b]) <= EditsOf(mem[b])
                        /\ b \notin dirty => EditsOf(pkg[b]) = EditsOf(mem[b])
  BY DEF EditsInv
<1>6. CASE UserEdits(a)
  <2>1. PICK change \in {Edit, Detail} :
          mem' = [mem EXCEPT ![a] = Changed(@, change)] /\ dirty' = dirty \cup {a} /\ pkg' = pkg
    BY <1>6 DEF UserEdits
  <2>2. EditsOf(Changed(mem[a], change)) \in {EditsOf(mem[a]), EditsOf(mem[a]) + 1}
    <3>1. change \in Int  BY DEF Edit, Detail
    <3> QED BY <1>3, <3>1, EditsOfChanged
  <2>3. \A b \in Assets : /\ EditsOf(mem[b]) <= EditsOf(mem'[b])
                          /\ b # a => mem'[b] = mem[b]
    BY <1>3, <1>4, <2>1, <2>2
  <2>4. \A b \in Assets : EditsOf(mem'[b]) \in Nat
    BY <1>3, <1>4, <2>1, <2>2
  <2>5. \A b \in Assets : /\ EditsOf(pkg'[b]) <= EditsOf(mem'[b])
                          /\ b \notin dirty' => EditsOf(pkg'[b]) = EditsOf(mem'[b])
    BY <1>3, <1>5, <2>1, <2>3, <2>4
  <2>6. EditsGrow  BY <1>3, <2>1, <2>3 DEF EditsGrow
  <2> QED BY <1>2, <2>5, <2>6 DEF EditsInv
<1>7. CASE UserSaves(a)
  <2>1. pkg' = [pkg EXCEPT ![a] = mem[a]] /\ dirty' = dirty \ {a} /\ mem' = mem
    BY <1>7 DEF UserSaves
  <2>2. pkg'[a] = mem[a] /\ \A b \in Assets : b # a => pkg'[b] = pkg[b]  BY <1>4, <2>1
  <2>3. \A b \in Assets : /\ EditsOf(pkg'[b]) <= EditsOf(mem'[b])
                          /\ b \notin dirty' => EditsOf(pkg'[b]) = EditsOf(mem'[b])
                          /\ EditsOf(pkg[b]) <= EditsOf(pkg'[b])
    BY <1>3, <1>5, <2>1, <2>2
  <2>4. EditsGrow  BY <1>3, <2>1, <2>3 DEF EditsGrow
  <2> QED BY <1>2, <2>3, <2>4 DEF EditsInv
<1> QED BY <1>6, <1>7

LEMMA CrashEdits ==
  ASSUME TypeInv, EditsInv, Crash  PROVE EditsInv' /\ EditsGrow
<1>1. /\ inst' # inst /\ mem' = pkg /\ pkg' = pkg /\ DOMAIN runs' = {} /\ journals' = journals
      /\ at' = Stopped
  BY DEF Crash, TypeInv, TypeOK
<1>2. Idle' /\ ~Staged'  BY <1>1 DEF Idle, Staged, Stopped
<1>3. \A b \in Assets : EditsOf(pkg[b]) \in Nat
  <2>1. \A b \in Assets : pkg[b] \in Contents  BY DEF TypeInv, TypeOK
  <2> QED BY <2>1, EditsOfContent
<1> QED BY <1>1, <1>2, <1>3 DEF EditsInv, EditsGrow

LEMMA ExecuteEdits ==
  ASSUME TypeInv, EditsInv, NEW req \in Requests, Execute(req)  PROVE EditsInv' /\ EditsGrow
<1> DEFINE r == Cardinality(Known) + 1
           rec == [req |-> req, inst |-> inst, status |-> "running", avail |-> FALSE,
                   verified |-> FALSE, next |-> 1, cid |-> 0, save |-> req \in Saving,
                   assets |-> << >>]
           hand == [Stopped EXCEPT !.pc = "stage", !.r = r, !.rec = rec]
<1>1. PICK s \in SaveRun(r, rec) :
        /\ journals' = s.journals
        /\ IF s.ok THEN runs' = With(runs, r, rec) /\ at' = hand ELSE UNCHANGED <<runs, at>>
  BY DEF Execute
<1>2. Idle /\ UNCHANGED <<mem, pkg, dirty>>  BY DEF Execute
<1>3. EditsKept(rec)
  <2>1. DOMAIN rec.assets = {}  OBVIOUS
  <2> QED BY <2>1 DEF EditsKept
<1> HIDE DEF rec
<1>4. hand.pc = "stage" /\ hand.rec = rec  BY DEF Stopped
<1> HIDE DEF r, hand
<1>5. ~Staged' /\ (~Idle' => EditsKept(at'.rec))
  BY <1>1, <1>2, <1>3, <1>4 DEF Staged, Idle
<1>6. /\ \A k \in DOMAIN runs' : EditsKept(runs'[k])
      /\ \A k \in DOMAIN journals' : EditsKept(journals'[k])
  <2>1. runs' = runs \/ runs' = With(runs, r, rec)  BY <1>1
  <2> QED BY <1>1, <1>3, <2>1, RecordsKept
<1> QED BY <1>2, <1>5, <1>6, QuietStep

LEMMA FailAdmittedEdits ==
  ASSUME TypeInv, EditsInv, NEW rec \in RunRecord, EditsKept(rec), FailAdmittedRun(rec),
         UNCHANGED <<mem, pkg, dirty>>
  PROVE  EditsInv' /\ EditsGrow
<1> DEFINE failed == [rec EXCEPT !.status = "failed", !.verified = TRUE]
<1>1. failed.assets = rec.assets  BY DEF RunRecord
<1>2. PICK s \in SaveRun(at.r, failed) :
        journals' = s.journals /\ runs' = With(runs, at.r, failed) /\ at' = Stopped
  BY DEF FailAdmittedRun
<1> HIDE DEF failed
<1>3. EditsKept(failed)  BY <1>1 DEF EditsKept
<1>4. /\ \A k \in DOMAIN runs' : EditsKept(runs'[k])
      /\ \A k \in DOMAIN journals' : EditsKept(journals'[k])
  BY <1>2, <1>3, RecordsKept
<1>5. Idle' /\ ~Staged'  BY <1>2 DEF Idle, Staged, Stopped
<1> QED BY <1>4, <1>5, QuietStep

LEMMA StageEdits ==
  ASSUME TypeInv, EditsInv, Stage  PROVE EditsInv' /\ EditsGrow
<1> DEFINE assets == [a \in Assets |-> Baseline(a)]
           rec == [at.rec EXCEPT !.assets = assets, !.avail = TRUE]
<1>1. at.pc = "stage" /\ at.rec \in RunRecord /\ EditsKept(at.rec) /\ at \in Handler
      /\ UNCHANGED <<inst, mem, pkg, dirty>>
  BY DEF Stage, TypeInv, HandlerInv, Idle, EditsInv
<1>2. /\ assets \in [Assets -> AssetRecord]
      /\ \A a \in Assets : /\ assets[a].before = mem[a] /\ assets[a].cur = mem[a]
                           /\ assets[a].pkgCur = pkg[a] /\ assets[a].snapshot = pkg[a]
                           /\ assets[a].undo = mem[a]
  BY DEF TypeInv, TypeOK, Baseline, AssetRecord, Snapshot
<1>3. rec \in RunRecord /\ rec.assets = assets
  <2> HIDE DEF assets
  <2> QED BY <1>1, <1>2 DEF RunRecord
<1>4. \/ FailAdmittedRun(at.rec)
      \/ dirty = {} /\ FailAdmittedRun(rec)
      \/ /\ dirty = {}
         /\ \E s \in SaveRun(at.r, rec) :
              /\ journals' = s.journals /\ runs' = With(runs, at.r, rec)
              /\ at' = [at EXCEPT !.pc = "step", !.rec = rec]
  BY DEF Stage
<1> HIDE DEF assets, rec
<1>9. ASSUME dirty = {}  PROVE \A a \in Assets : EditsOf(pkg[a]) = EditsOf(mem[a])
  BY <1>9 DEF EditsInv
<1>5. ASSUME dirty = {}  PROVE EditsKept(rec)
  BY <1>2, <1>3, <1>5, <1>9 DEF EditsKept, AssetKept
<1>6. CASE FailAdmittedRun(at.rec)  BY <1>1, <1>6, FailAdmittedEdits
<1>7. CASE dirty = {} /\ FailAdmittedRun(rec)  BY <1>1, <1>3, <1>5, <1>7, FailAdmittedEdits
<1>8. ASSUME dirty = {}, NEW s \in SaveRun(at.r, rec), journals' = s.journals,
             runs' = With(runs, at.r, rec), at' = [at EXCEPT !.pc = "step", !.rec = rec]
      PROVE  EditsInv' /\ EditsGrow
  <2>1. at'.rec = rec  BY <1>1, <1>8 DEF Handler
  <2>2. /\ \A k \in DOMAIN runs' : EditsKept(runs'[k])
        /\ \A k \in DOMAIN journals' : EditsKept(journals'[k])
    BY <1>5, <1>8, RecordsKept
  <2>3. \A a \in Assets : Before(a)' = mem[a] /\ mem'[a] = mem[a] /\ pkg'[a] = pkg[a]
                          /\ EditsOf(pkg[a]) = EditsOf(mem[a])
    BY <1>1, <1>2, <1>3, <1>8, <1>9, <2>1 DEF Before
  <2>4. \A a \in Assets : EditsOf(mem[a]) \in Nat
    <3>1. \A a \in Assets : mem[a] \in Contents  BY DEF TypeInv, TypeOK
    <3> QED BY <3>1, EditsOfContent
  <2>5. EditsGrow  BY <2>3, <2>4 DEF EditsGrow
  <2> QED BY <1>5, <1>8, <2>1, <2>2, <2>3, <2>4, <2>5 DEF EditsInv
<1> QED BY <1>4, <1>6, <1>7, <1>8

LEMMA CompletedEdits ==
  ASSUME TypeInv, EditsInv, Staged, Completed, UNCHANGED <<mem, pkg, dirty>>
  PROVE  EditsInv' /\ EditsGrow
<1> DEFINE assets == [a \in Assets |-> [at.rec.assets[a] EXCEPT !.cur = mem[a]]]
           rec == [at.rec EXCEPT !.status = "completed", !.avail = TRUE, !.assets = assets]
<1>1. at.rec \in RunRecord  BY DEF TypeInv, HandlerInv, Staged, Idle
<1>2. \A a \in Assets : AssetKept(assets[a])
  <2> SUFFICES ASSUME NEW a \in Assets  PROVE AssetKept(assets[a])
    OBVIOUS
  <2>1. at.rec.assets[a] \in AssetRecord  BY StagedEdits
  <2>2. /\ SameBaseline(assets[a], at.rec.assets[a]) /\ assets[a].cur = mem[a]
        /\ assets[a].pkgCur = at.rec.assets[a].pkgCur
    BY <2>1 DEF AssetRecord, SameBaseline
  <2> HIDE DEF assets
  <2> QED BY <2>2, StagedEdits DEF AssetKept, SameBaseline
<1>3. PICK s \in SaveRun(at.r, rec) :
        journals' = s.journals /\ runs' = With(runs, at.r, rec) /\ at' = Stopped
  BY DEF Completed
<1>4. DOMAIN assets = Assets  OBVIOUS
<1> HIDE DEF assets
<1>5. rec.assets = assets  BY <1>1 DEF RunRecord
<1> HIDE DEF rec
<1>6. EditsKept(rec)  BY <1>2, <1>4, <1>5 DEF EditsKept
<1>7. /\ \A k \in DOMAIN runs' : EditsKept(runs'[k])
      /\ \A k \in DOMAIN journals' : EditsKept(journals'[k])
  BY <1>3, <1>6, RecordsKept
<1>8. Idle' /\ ~Staged'  BY <1>3 DEF Idle, Staged, Stopped
<1> QED BY <1>7, <1>8, QuietStep

LEMMA CheckpointEdits ==
  ASSUME TypeInv, EditsInv, SaveCheckpoint  PROVE EditsInv' /\ EditsGrow
<1>1. at.pc \in Forward \ {"stage"} /\ Staged /\ UNCHANGED pkg
  BY DEF SaveCheckpoint, Staged, Forward
<1>2. PICK s \in SaveRun(at.r, at.rec) :
        /\ journals' = s.journals
        /\ IF s.ok
           THEN /\ runs' = With(runs, at.r, at.rec) /\ UNCHANGED mem
                /\ at' = [Stopped EXCEPT !.pc = at.goal, !.r = at.r, !.rec = at.rec]
           ELSE FailRun /\ UNCHANGED runs
  BY DEF SaveCheckpoint
<1>3. /\ \A k \in DOMAIN runs' : EditsKept(runs'[k])
      /\ \A k \in DOMAIN journals' : EditsKept(journals'[k])
  <2>1. EditsKept(at.rec)  BY <1>1, StagedEdits
  <2>2. runs' = runs \/ runs' = With(runs, at.r, at.rec)  BY <1>2
  <2> QED BY <1>2, <2>1, <2>2, RecordsKept
<1>4. EditsKept(at'.rec) /\ at'.rec.assets = at.rec.assets /\ \A b \in Assets : EditsStay(b)
  <2>1. CASE /\ at' = [Stopped EXCEPT !.pc = at.goal, !.r = at.r, !.rec = at.rec]
             /\ UNCHANGED mem
    <3>1. at'.rec = at.rec  BY <2>1 DEF Stopped
    <3> QED BY <1>1, <2>1, <3>1, StagedEdits DEF EditsStay
  <2>2. CASE FailRun  BY <1>1, <2>2, FailRunEdits, FailRunKeeps DEF EditsStay
  <2> QED BY <1>2, <2>1, <2>2
<1> QED BY <1>1, <1>3, <1>4, StagedStep

LEMMA StepsEndEdits ==
  ASSUME TypeInv, EditsInv, StepsEnd  PROVE EditsInv' /\ EditsGrow
<1>1. at.pc \in Forward \ {"stage"} /\ Staged /\ UNCHANGED pkg /\ at \in Handler
  BY DEF StepsEnd, Staged, Forward, TypeInv, HandlerInv
<1>2. CASE FailRun /\ UNCHANGED <<runs, journals>>
  BY <1>1, <1>2, FailRunEdits, FailRunKeeps, StagedStep DEF EditsInv, EditsStay
<1>3. CASE Completed /\ UNCHANGED <<mem, dirty>>  BY <1>1, <1>3, CompletedEdits
<1>4. CASE at' = Goes("save", at.rec, AssetSet) /\ UNCHANGED <<mem, dirty, runs, journals>>
  <2>1. at'.rec = at.rec  BY <1>1, <1>4 DEF Goes, Handler
  <2>2. EditsKept(at.rec)  BY <1>1, StagedEdits
  <2> QED BY <1>1, <1>4, <2>1, <2>2, StagedStep DEF EditsInv, EditsStay
<1> QED BY <1>2, <1>3, <1>4 DEF StepsEnd

LEMMA RestoreEndsEdits ==
  ASSUME TypeInv, EditsInv, RestoreEnds  PROVE EditsInv' /\ EditsGrow
<1>1. at.pc = "restore" /\ Staged /\ UNCHANGED <<mem, pkg, dirty>>
  BY DEF RestoreEnds, Staged
<1>2. PICK s \in SaveRun(at.r, RolledBack) :
        journals' = s.journals /\ runs' = With(runs, at.r, RolledBack) /\ at' = Stopped
  BY DEF RestoreEnds
<1>3. RolledBack.assets = at.rec.assets  BY <1>1, RolledBackSound
<1>4. EditsKept(RolledBack)  BY <1>1, <1>3, StagedEdits DEF EditsKept
<1>5. /\ \A k \in DOMAIN runs' : EditsKept(runs'[k])
      /\ \A k \in DOMAIN journals' : EditsKept(journals'[k])
  BY <1>2, <1>4, RecordsKept
<1>6. Idle' /\ ~Staged'  BY <1>2 DEF Idle, Staged, Stopped
<1> QED BY <1>1, <1>5, <1>6, QuietStep

\* A run that is rolled back or resumed finds its assets with the edits of its record.
LEMMA LoadedEdits ==
  ASSUME TypeInv, EditsInv, NEW r \in RunIds, r \in Known
  PROVE  EditsKept(LoadRun(r)) /\ LoadRun(r) \in RunRecord
BY LoadedRun DEF EditsInv, Known, LoadRun

LEMMA RollbackRunEdits ==
  ASSUME TypeInv, EditsInv, NEW r \in RunIds, RollbackRun(r)  PROVE EditsInv' /\ EditsGrow
<1> DEFINE rec == LoadRun(r)
<1>1. /\ Idle /\ r \in Known /\ rec.assets # << >> /\ UNCHANGED <<inst, pkg, runs, journals>>
      /\ \A a \in Assets : /\ \/ SameStructure(mem[a], rec.assets[a].before)
                              \/ SameStructure(mem[a], rec.assets[a].cur)
                           /\ pkg[a] = rec.assets[a].pkgCur
  BY DEF RollbackRun, CanRollback
<1>2. EditsKept(rec) /\ rec.assets \in [Assets -> AssetRecord]
  BY <1>1, LoadedEdits DEF RunRecord
<1>3. /\ at' = [at EXCEPT !.pc = "restore", !.r = r, !.rec = rec, !.left = Reverse(AssetSet),
                          !.ok = TRUE, !.auto = FALSE]
      /\ mem' = mem \/ mem' = [a \in Assets |-> rec.assets[a].undo]
  BY DEF RollbackRun, RollingBack
<1> HIDE DEF rec
<1>4. at'.rec = rec
  <2>1. at \in Handler  BY DEF TypeInv, HandlerInv
  <2> QED BY ONLY <1>3, <2>1 DEF Handler
<1>5. \A a \in Assets : /\ EditsOf(mem[a]) = EditsOf(rec.assets[a].before)
                        /\ EditsOf(pkg[a]) = EditsOf(rec.assets[a].before)
                        /\ AssetKept(rec.assets[a])
  <2> SUFFICES ASSUME NEW a \in Assets
               PROVE  /\ EditsOf(mem[a]) = EditsOf(rec.assets[a].before)
                      /\ EditsOf(pkg[a]) = EditsOf(rec.assets[a].before)
                      /\ AssetKept(rec.assets[a])
    OBVIOUS
  <2>1. AssetKept(rec.assets[a]) /\ rec.assets[a] \in AssetRecord  BY <1>2 DEF EditsKept
  <2>2. rec.assets[a].before \in Contents /\ rec.assets[a].cur \in Contents
    BY <2>1 DEF AssetRecord
  <2>3. mem[a] \in Contents  BY DEF TypeInv, TypeOK
  <2> QED BY <1>1, <2>1, <2>2, <2>3, SameEdits DEF AssetKept
<1>6. \A a \in Assets : EditsOf(mem'[a]) = EditsOf(mem[a]) /\ EditsOf(pkg[a]) = EditsOf(mem[a])
  BY <1>3, <1>5 DEF AssetKept
<1>7. \A a \in Assets : EditsOf(mem[a]) \in Nat
  <2>1. \A a \in Assets : mem[a] \in Contents  BY DEF TypeInv, TypeOK
  <2> QED BY <2>1, EditsOfContent
<1>8. EditsGrow  BY <1>1, <1>6, <1>7 DEF EditsGrow
<1>9. \A a \in Assets : /\ EditsOf(mem'[a]) = EditsOf(Before(a)')
                        /\ EditsOf(pkg'[a]) = EditsOf(Before(a)')
  BY <1>1, <1>4, <1>5, <1>6 DEF Before
<1>10. \A a \in Assets : EditsOf(pkg'[a]) <= EditsOf(mem'[a]) /\ EditsOf(pkg'[a]) = EditsOf(mem'[a])
  BY <1>1, <1>6, <1>7
<1> QED BY <1>1, <1>2, <1>4, <1>8, <1>9, <1>10 DEF EditsInv

LEMMA ResumeRunEdits ==
  ASSUME TypeInv, EditsInv, NEW r \in RunIds, ResumeRun(r)  PROVE EditsInv' /\ EditsGrow
<1> DEFINE old == LoadRun(r)
           rec == FromBaseline(old)
<1>1. /\ Idle /\ r \in Known /\ old.assets # << >>
      /\ UNCHANGED <<inst, mem, dirty, pkg, journals>> /\ runs' = With(runs, r, rec)
      /\ at' = [Stopped EXCEPT !.pc = "step", !.r = r, !.rec = rec]
      /\ \A a \in Assets :
           (mem[a] = Absent \/ a \notin dirty) /\ pkg[a] = old.assets[a].snapshot
  BY DEF ResumeRun, CanResume
<1>2. EditsKept(old) /\ old \in RunRecord /\ old.assets \in [Assets -> AssetRecord]
  BY <1>1, LoadedEdits DEF RunRecord
<1> HIDE DEF old
<1> DEFINE assets == [a \in Assets |-> [old.assets[a] EXCEPT !.undo = mem[a]]]
<1>3. rec.assets = assets  BY <1>2 DEF FromBaseline, Reopened, RunRecord
<1>12. \A a \in Assets : /\ assets[a].before = old.assets[a].before
                         /\ assets[a].cur = old.assets[a].cur
                         /\ assets[a].pkgCur = old.assets[a].pkgCur
                         /\ assets[a].snapshot = old.assets[a].snapshot
                         /\ assets[a].undo = mem[a]
  BY <1>2 DEF AssetRecord
<1>13. DOMAIN assets = Assets  OBVIOUS
<1> HIDE DEF rec, assets
<1>14. \A a \in Assets : AssetKept(old.assets[a])  BY <1>2 DEF EditsKept
<1>5. \A a \in Assets : EditsOf(mem[a]) \in Nat /\ EditsOf(pkg[a]) \in Nat
                        /\ (mem[a] = Absent => EditsOf(mem[a]) = 0)
  <2>1. \A a \in Assets : mem[a] \in Contents /\ pkg[a] \in Contents  BY DEF TypeInv, TypeOK
  <2> QED BY <2>1, EditsOfContent
<1>6. \A a \in Assets : EditsOf(pkg[a]) = EditsOf(mem[a])
  <2>1. \A a \in Assets : /\ EditsOf(pkg[a]) <= EditsOf(mem[a])
                          /\ a \notin dirty => EditsOf(pkg[a]) = EditsOf(mem[a])
    BY DEF EditsInv
  <2> QED BY <1>1, <1>5, <2>1
<1>4. at'.rec = rec /\ EditsKept(rec)
  <2>1. \A a \in Assets : AssetKept(assets[a])
    BY <1>1, <1>6, <1>12, <1>14 DEF AssetKept
  <2> QED BY <1>1, <1>3, <1>13, <2>1 DEF Stopped, EditsKept
<1>7. \A k \in DOMAIN runs' : EditsKept(runs'[k])
  BY <1>1, <1>4, KeptWritten DEF EditsInv
<1>8. EditsGrow  BY <1>1, <1>5 DEF EditsGrow
<1>9. \A a \in Assets : /\ EditsOf(mem'[a]) = EditsOf(Before(a)')
                        /\ EditsOf(pkg'[a]) = EditsOf(Before(a)')
  BY <1>1, <1>3, <1>4, <1>6, <1>12, <1>14 DEF Before, AssetKept
<1>10. \A a \in Assets : /\ EditsOf(pkg'[a]) <= EditsOf(mem'[a])
                         /\ EditsOf(pkg'[a]) = EditsOf(mem'[a])
  BY <1>1, <1>5, <1>6
<1>11. \A k \in DOMAIN journals' : EditsKept(journals'[k])  BY <1>1 DEF EditsInv
<1> QED BY <1>4, <1>7, <1>8, <1>9, <1>10, <1>11 DEF EditsInv

LEMMA GetStatusEdits ==
  ASSUME TypeInv, EditsInv, NEW r \in RunIds, GetStatus(r)  PROVE EditsInv' /\ EditsGrow
<1> DEFINE blocked == [LoadRun(r) EXCEPT !.status = "blocked", !.verified = FALSE]
<1>1. Idle /\ r \in Known /\ UNCHANGED <<inst, mem, dirty, pkg, at>>
  BY DEF GetStatus
<1>2. PICK s \in SaveRun(r, blocked) :
        /\ journals' = s.journals
        /\ runs' = IF s.ok THEN With(runs, r, blocked) ELSE runs
  BY DEF GetStatus
<1>3. EditsKept(blocked)
  <2>1. blocked.assets = LoadRun(r).assets  BY <1>1, LoadedEdits DEF RunRecord
  <2> HIDE DEF blocked
  <2> QED BY <1>1, <2>1, LoadedEdits DEF EditsKept
<1> HIDE DEF blocked
<1>4. runs' = runs \/ runs' = With(runs, r, blocked)  BY <1>2
<1>5. /\ \A k \in DOMAIN runs' : EditsKept(runs'[k])
      /\ \A k \in DOMAIN journals' : EditsKept(journals'[k])
  BY <1>2, <1>3, <1>4, RecordsKept
<1>6. Idle' /\ ~Staged'  BY <1>1 DEF Idle, Staged
<1> QED BY <1>1, <1>5, <1>6, QuietStep

LEMMA EditsStep == TypeInv /\ EditsInv /\ [Next]_vars => EditsInv' /\ (UNCHANGED vars \/ EditsGrow)
<1> SUFFICES ASSUME TypeInv, EditsInv, [Next]_vars
             PROVE  EditsInv' /\ (UNCHANGED vars \/ EditsGrow)
  OBVIOUS
<1>1. CASE UNCHANGED vars
  BY <1>1 DEF vars, EditsInv, Idle, Staged, Before
<1>2. CASE Works
  <2>1. /\ at.pc \notin {"idle", "stage"} /\ UNCHANGED <<runs, journals>>
        /\ \A b \in Assets : at'.rec.assets[b].before = at.rec.assets[b].before
    BY <1>2, WorkKeeps DEF SameBaseline
  <2>2. EditsKept(at'.rec) /\ \A b \in Assets : EditsStay(b)  BY <1>2, WorkEdits
  <2>3. /\ \A k \in DOMAIN runs' : EditsKept(runs'[k])
        /\ \A k \in DOMAIN journals' : EditsKept(journals'[k])
    BY <2>1 DEF EditsInv
  <2>4. Staged  BY <2>1 DEF Staged
  <2> QED BY <2>1, <2>2, <2>3, <2>4, StagedStep
<1>3. CASE SaveEnds
  <2>1. Staged /\ Completed /\ UNCHANGED <<mem, pkg, dirty>>  BY <1>3 DEF SaveEnds, Staged
  <2> QED BY <2>1, CompletedEdits
<1> QED
  BY <1>1, <1>2, <1>3, UsersEdits, CrashEdits, ExecuteEdits, StageEdits, CheckpointEdits,
     StepsEndEdits, RestoreEndsEdits, RollbackRunEdits, ResumeRunEdits, GetStatusEdits
  DEF Next, Works

LEMMA EditsAlways == Spec => []EditsInv
<1>1. Init => EditsInv
  <2> SUFFICES ASSUME Init  PROVE EditsInv
    OBVIOUS
  <2>1. DOMAIN runs = {} /\ DOMAIN journals = {} /\ Idle /\ ~Staged /\ pkg = mem
    BY DEF Init, Idle, Staged, Stopped
  <2>2. \A a \in Assets : EditsOf(mem[a]) \in Nat
    <3>1. \A a \in Assets : mem[a] \in Contents  BY InitTypes DEF TypeInv, TypeOK
    <3> QED BY <3>1, EditsOfContent
  <2> QED BY <2>1, <2>2 DEF EditsInv
<1> QED BY <1>1, EditsStep, TypesAlways, PTL DEF Spec

\* No run takes back an edit of a user that is part of the structure of the asset, neither
\* from a package nor, unless the Editor crashes, from memory: however a run ends, resumes or
\* is rolled back.  (An edit that the structure leaves out has no such protection.)
THEOREM EditsAreNeverTakenBack == Spec => OthersEditsStay
<1>1. TypeInv /\ EditsInv /\ [Next]_vars =>
        [\A a \in Assets :
           /\ EditsOf(pkg[a]) <= EditsOf(pkg'[a])
           /\ inst' = inst => EditsOf(mem[a]) <= EditsOf(mem'[a])]_vars
  BY EditsStep DEF EditsGrow
<1> QED BY <1>1, EditsAlways, TypesAlways, PTL DEF Spec, OthersEditsStay

---------------------------------------------------------------------------
(* A completed run has made every change of its plan exactly once.         *)

\* The changes that were made, read off a content and the one it grew from.
MadeOn(base, content, steps) ==
  /\ Len(base) <= Len(content)
  /\ \A k \in 1..Len(base) : content[k] = base[k]
  /\ {content[k] : k \in (Len(base) + 1)..Len(content)} = steps
  /\ \A k, l \in (Len(base) + 1)..Len(content) : k < l => content[k] < content[l]

LEMMA MadeFrom ==
  ASSUME NEW content, NEW before, NEW steps, steps # {}, content # Absent,
         MadeOn(IF before = Absent THEN << >> ELSE before, content, steps)
  PROVE  Made(content, before, steps)
BY Zenon DEF Made, MadeOn

\* A change that comes after the ones that were made is made.
LEMMA MadeMore ==
  ASSUME NEW content \in Contents, NEW before \in Contents, NEW steps, NEW next \in Nat,
         \A i \in steps : i < next, Made(content, before, steps)
  PROVE  Made(Changed(content, next), before, steps \cup {next})
<1> DEFINE base == IF before = Absent THEN << >> ELSE before
           c == IF content = Absent THEN << >> ELSE content
           d == Append(c, next)
<1>1. base \in Seq(Int) /\ c \in Seq(Int) /\ d \in Seq(Int) /\ Len(base) \in Nat /\ Len(c) \in Nat
  <2>1. << >> \in Seq(Int) /\ next \in Int  OBVIOUS
  <2>2. base \in Seq(Int) /\ c \in Seq(Int)  BY <2>1 DEF Contents
  <2> HIDE DEF base, c
  <2> QED BY <2>1, <2>2, AppendProperties, LenProperties
<1>2. Changed(content, next) = d /\ d # Absent
  <2>1. Append(<< >>, next) = <<next>>  OBVIOUS
  <2>2. Changed(content, next) = d  BY <2>1 DEF Changed
  <2> QED BY <1>1, <2>2
<1>3. /\ Len(base) <= Len(c)
      /\ \A k \in 1..Len(base) : c[k] = base[k]
      /\ {c[k] : k \in (Len(base) + 1)..Len(c)} = steps
      /\ \A k, l \in (Len(base) + 1)..Len(c) : k < l => c[k] < c[l]
  <2>1. CASE steps = {}
    <3>1. content = before  BY <2>1 DEF Made
    <3>2. c = base  BY <3>1
    <3>3. (Len(base) + 1)..Len(c) = {}
      <4> HIDE DEF base, c
      <4> QED BY <1>1, <3>2
    <3> HIDE DEF base, c
    <3> QED BY <1>1, <2>1, <3>2, <3>3
  <2>2. CASE steps # {}  BY <2>2 DEF Made
  <2> QED BY <2>1, <2>2
<1> HIDE DEF base, c
<1>4. /\ Len(d) = Len(c) + 1 /\ d[Len(c) + 1] = next
      /\ \A k \in 1..Len(c) : d[k] = c[k]
  <2>1. next \in Int  OBVIOUS
  <2> QED BY <1>1, <2>1, AppendProperties
<1> HIDE DEF d
<1>5. (Len(base) + 1)..Len(d) = ((Len(base) + 1)..Len(c)) \cup {Len(c) + 1}
  BY <1>1, <1>3, <1>4
<1>6. /\ Len(base) <= Len(d)
      /\ \A k \in 1..Len(base) : d[k] = base[k]
  <2>1. \A k \in 1..Len(base) : k \in 1..Len(c)  BY <1>1, <1>3
  <2> QED BY <1>1, <1>3, <1>4, <2>1
<1>7. \A k \in (Len(base) + 1)..Len(c) : k \in 1..Len(c) /\ d[k] = c[k] /\ c[k] \in steps
  <2>1. \A k \in (Len(base) + 1)..Len(c) : k \in 1..Len(c)  BY <1>1
  <2> QED BY <1>3, <1>4, <2>1
<1>8. {d[k] : k \in (Len(base) + 1)..Len(d)} = steps \cup {next}
  <2>1. {d[k] : k \in (Len(base) + 1)..Len(d)} =
          {d[k] : k \in (Len(base) + 1)..Len(c)} \cup {d[Len(c) + 1]}
    BY <1>5
  <2>2. {d[k] : k \in (Len(base) + 1)..Len(c)} = {c[k] : k \in (Len(base) + 1)..Len(c)}
    BY <1>7
  <2> QED BY <1>3, <1>4, <2>1, <2>2
<1>9. ASSUME NEW k \in (Len(base) + 1)..Len(d), NEW l \in (Len(base) + 1)..Len(d), k < l
      PROVE  d[k] < d[l]
  <2>1. k \in (Len(base) + 1)..Len(c)  BY <1>1, <1>4, <1>9
  <2>2. CASE l = Len(c) + 1
    <3>1. d[k] \in steps  BY <1>7, <2>1
    <3> QED BY <1>4, <2>2, <3>1
  <2>3. CASE l # Len(c) + 1
    <3>1. l \in (Len(base) + 1)..Len(c)  BY <1>5, <2>3
    <3>2. c[k] < c[l]  BY <1>3, <1>9, <2>1, <3>1
    <3> QED BY <1>7, <2>1, <3>1, <3>2
  <2> QED BY <2>2, <2>3
<1>10. base = (IF before = Absent THEN << >> ELSE before)  BY DEF base
<1>11. steps \cup {next} # {}
  <2>1. next \in steps \cup {next}  BY Zenon
  <2> QED BY <2>1, Zenon
<1>12. MadeOn(base, d, steps \cup {next})
  <2>1. \A k, l \in (Len(base) + 1)..Len(d) : k < l => d[k] < d[l]  BY <1>9
  <2> HIDE DEF base
  <2> QED BY <1>6, <1>8, <2>1, Zenon DEF MadeOn
<1>13. Made(d, before, steps \cup {next})
  <2> HIDE DEF base
  <2>1. MadeOn(IF before = Absent THEN << >> ELSE before, d, steps \cup {next})
    BY <1>10, <1>12, Zenon
  <2> QED BY <1>2, <1>11, <2>1, MadeFrom, Zenon
<1> QED BY <1>2, <1>13, Zenon

\* What the steps before the n-th have made of an asset: an absent one was not touched.
ChangesTo(plan, a, before, n) == {i \in ChangesOf(plan, a, before) : i < n}
MadeTo(content, plan, a, before, n) ==
  /\ Made(content, before, ChangesTo(plan, a, before, n))
  /\ content = Absent => \A i \in 1..(n - 1) : plan[i] \notin {<<"init", a>>, <<"edit", a>>}

LEMMA MadeNothing ==
  ASSUME NEW plan \in Seq(Kinds \X Assets), NEW a, NEW before
  PROVE  MadeTo(before, plan, a, before, 1)
<1>1. DOMAIN plan = 1..Len(plan) /\ Len(plan) \in Nat  BY LenProperties
<1>2. ChangesTo(plan, a, before, 1) = {}  BY <1>1 DEF ChangesTo, ChangesOf
<1>3. 1..(1 - 1) = {}  OBVIOUS
<1> QED BY <1>2, <1>3 DEF MadeTo, Made

LEMMA MadeAll ==
  ASSUME NEW plan \in Seq(Kinds \X Assets), NEW a, NEW before, NEW content,
         MadeTo(content, plan, a, before, Len(plan) + 1)
  PROVE  Made(content, before, ChangesOf(plan, a, before))
<1>1. DOMAIN plan = 1..Len(plan) /\ Len(plan) \in Nat  BY LenProperties
<1>2. ChangesTo(plan, a, before, Len(plan) + 1) = ChangesOf(plan, a, before)
  BY <1>1 DEF ChangesTo, ChangesOf
<1> QED BY <1>2 DEF MadeTo

\* A step makes its change if it acts on the asset, and nothing otherwise.
LEMMA MadeByStep ==
  ASSUME NEW plan \in Seq(Kinds \X Assets), NEW n \in 1..Len(plan), NEW a \in Assets,
         NEW before \in Contents, NEW content \in Contents,
         MadeTo(content, plan, a, before, n),
         NEW acts \in BOOLEAN,
         acts <=> plan[n] = <<"edit", a>> \/ (plan[n] = <<"init", a>> /\ content = Absent)
  PROVE  MadeTo(IF acts THEN Changed(content, n) ELSE content, plan, a, before, n + 1)
<1>1. DOMAIN plan = 1..Len(plan) /\ Len(plan) \in Nat /\ n \in Nat /\ n \in Int
  BY LenProperties
<1> DEFINE S == ChangesTo(plan, a, before, n)
           All == ChangesOf(plan, a, before)
<1>2. \A i \in All : i \in DOMAIN plan /\ plan[i] \in {<<"init", a>>, <<"edit", a>>}
  BY DEF ChangesOf
<1>3. Made(content, before, S)
      /\ (content = Absent =>
            \A i \in 1..(n - 1) : plan[i] \notin {<<"init", a>>, <<"edit", a>>})
  BY DEF MadeTo
<1>4. \A i \in S : i < n  BY DEF ChangesTo
<1>5. ChangesTo(plan, a, before, n + 1) = IF n \in All THEN S \cup {n} ELSE S
  <2>1. \A i \in DOMAIN plan : i < n + 1 <=> i < n \/ i = n  BY <1>1
  <2> QED BY <1>2, <2>1 DEF ChangesTo
<1>6. 1..((n + 1) - 1) = 1..(n - 1) \cup {n}  BY <1>1
<1>7. (\A j \in 1..(n - 1) : plan[j] \notin {<<"init", a>>, <<"edit", a>>}) => S = {}
  <2>1. \A i \in DOMAIN plan : i < n => i \in 1..(n - 1)  BY <1>1
  <2> QED BY <1>2, <2>1 DEF ChangesTo
<1>8. content = Absent => S = {} /\ before = Absent
  BY <1>3, <1>7 DEF Made
<1>9. CASE acts
  <2>1. n \in All
    <3>1. CASE plan[n] = <<"edit", a>>  BY <1>1, <3>1 DEF ChangesOf
    <3>2. CASE plan[n] = <<"init", a>> /\ content = Absent
      BY <1>1, <1>3, <1>8, <3>2 DEF ChangesOf
    <3> QED BY <1>9, <3>1, <3>2
  <2>2. Made(Changed(content, n), before, S \cup {n})
    <3> HIDE DEF S
    <3> QED BY <1>1, <1>3, <1>4, MadeMore
  <2>3. Changed(content, n) # Absent  BY <1>1, ChangedContent
  <2> QED BY <1>5, <1>9, <2>1, <2>2, <2>3 DEF MadeTo
<1>10. CASE ~acts
  <2>1. n \notin All
    <3> SUFFICES ASSUME n \in All  PROVE FALSE
      OBVIOUS
    <3>1. plan[n] = <<"init", a>> /\ plan[n] # <<"edit", a>>  BY <1>2, <1>10
    <3>2. before = Absent /\ \A j \in 1..(n - 1) : plan[j] \notin {<<"init", a>>, <<"edit", a>>}
      BY <3>1 DEF ChangesOf
    <3>3. content = before  BY <1>3, <1>7, <3>2 DEF Made
    <3> QED BY <1>10, <3>1, <3>2, <3>3
  <2>2. content = Absent => plan[n] \notin {<<"init", a>>, <<"edit", a>>}  BY <1>10
  <2>3. content = Absent =>
          \A i \in 1..((n + 1) - 1) : plan[i] \notin {<<"init", a>>, <<"edit", a>>}
    BY <1>3, <1>6, <2>2
  <2> QED BY <1>3, <1>5, <1>10, <2>1, <2>3 DEF MadeTo
<1> QED BY <1>9, <1>10

\* A rollback of this Editor left an asset in memory that is not what its package holds.
Unrestored == \E r \in DOMAIN runs : Estranged(runs[r])

\* While the steps are made, the packages are what they were before, but for the one that
\* is being copied to a checkpoint; and the assets are, or have changes to be saved.
Working == at.pc \in {"step", "apply", "capture", "copy"}
OnDisk(a) == pkg[a] = IF at.pc = "copy" /\ a = Head(at.left) THEN mem[a] ELSE Source(a)
Unsaved(a) == mem[a] = Source(a) \/ (a \in dirty /\ mem[a] # Absent)
Settled(a) == mem[a] = pkg[a] \/ (a \in dirty /\ mem[a] # Absent)
MadeSoFar(a) == MadeTo(mem[a], Plan, a, Source(a), at.rec.next)

\* An asset of the Editor that differs from its package is dirty, and so a replay sees it,
\* unless a rollback of this Editor left it changed and clean.
MadeInv ==
  /\ at.pc \notin {"idle", "restore"} /\ at.r \in DOMAIN runs => ~Estranged(runs[at.r])
  /\ at.pc = "stage" => at.rec.next = 1
  /\ Working => \A a \in Assets : OnDisk(a)
  /\ at.pc = "save" => /\ at.rec.save /\ ~Steps
                       /\ \A a \in Assets : a \in ToSet(at.left) \/ pkg[a] = mem[a]
  /\ ~Unrestored =>
       /\ Working => \A a \in Assets : Unsaved(a) /\ MadeSoFar(a)
       /\ at.pc = "save" => \A a \in Assets : MadeSoFar(a)
       /\ at.pc \in {"idle", "stage", "save"} => \A a \in Assets : Settled(a)

\* The run that is written had left nothing like that, so one that had stays.
LEMMA StillUnrestored ==
  ASSUME NEW w, NEW rec, runs' = With(runs, w, rec), w \in DOMAIN runs => ~Estranged(runs[w]),
         ~Unrestored'
  PROVE  ~Unrestored /\ ~Estranged(rec)
<1>1. /\ DOMAIN runs' = DOMAIN runs \cup {w} /\ runs'[w] = rec
      /\ \A k \in DOMAIN runs : k # w => runs'[k] = runs[k]
  BY DEF With
<1>2. \A k \in DOMAIN runs' : ~Estranged(runs'[k])  BY DEF Unrestored, Estranged
<1>3. ~Estranged(rec)  BY <1>1, <1>2
<1>4. ASSUME NEW k \in DOMAIN runs  PROVE ~Estranged(runs[k])
  <2>1. CASE k = w  BY <2>1
  <2>2. CASE k # w
    <3>1. runs'[k] = runs[k] /\ k \in DOMAIN runs'  BY <1>1, <2>2
    <3> QED BY <1>2, <3>1
  <2> QED BY <2>1, <2>2
<1> QED BY <1>3, <1>4 DEF Unrestored, Estranged

\* The handler goes on with its run.
LEMMA RollsBackMade ==
  ASSUME MadeInv, ~Idle, UNCHANGED runs, at'.r = at.r,
         at'.pc = "restore" \/ (at'.pc = "fail" /\ at.pc # "restore")
  PROVE  MadeInv'
BY DEF MadeInv, Idle, Working

LEMMA GoesOnMade ==
  ASSUME MadeInv, at.pc \notin {"idle", "restore"}, UNCHANGED runs, at'.r = at.r, Working',
         \A a \in Assets : OnDisk(a)',
         ~Unrestored => \A a \in Assets : Unsaved(a)' /\ MadeSoFar(a)'
  PROVE  MadeInv'
<1>1. at'.pc \notin {"stage", "save", "idle"}  BY DEF Working
<1>2. Unrestored' = Unrestored  BY DEF Unrestored
<1>3. at'.r \in DOMAIN runs' => ~Estranged(runs'[at'.r])  BY DEF MadeInv
<1> QED BY <1>1, <1>2, <1>3 DEF MadeInv

\* What the work leaves alone is made as it was.
LEMMA SameMade ==
  ASSUME NEW a, Source(a)' = Source(a), Plan' = Plan, at'.rec.next = at.rec.next,
         mem'[a] = mem[a], dirty' = dirty, Unsaved(a) /\ MadeSoFar(a)
  PROVE  Unsaved(a)' /\ MadeSoFar(a)'
<1>1. Unsaved(a)'  BY DEF Unsaved
<1>2. MadeTo(mem'[a], Plan', a, Source(a)', at'.rec.next)  BY DEF MadeSoFar
<1> QED BY <1>1, <1>2 DEF MadeSoFar

LEMMA FailRunMade ==
  ASSUME TypeInv, MadeInv, at.pc \in Forward \ {"stage"}, FailRun, UNCHANGED runs
  PROVE  MadeInv'
<1>1. ~Idle  BY ForwardSound
<1> QED BY <1>1, FailRunKeeps, RollsBackMade

LEMMA PrepareMade ==
  ASSUME TypeInv, MadeInv, Prepare  PROVE MadeInv'
<1> DEFINE cid == CheckpointId(Plan, at.rec.next, TRUE)
           rec == [at.rec EXCEPT !.cid = cid]
<1>1. at.pc = "step" /\ ~Idle /\ at' = ToCapture(rec, Absent, "apply")
      /\ UNCHANGED <<mem, dirty, pkg, runs>>
  BY DEF Prepare, Idle
<1>2. at.rec \in RunRecord /\ at \in Handler  BY <1>1 DEF TypeInv, HandlerInv
<1> HIDE DEF cid
<1>3. rec.assets = at.rec.assets /\ rec.req = at.rec.req /\ rec.next = at.rec.next
  BY <1>2 DEF RunRecord
<1> HIDE DEF rec
<1>4. at'.pc = "capture" /\ at'.r = at.r /\ at'.rec = rec
  BY ONLY <1>1, <1>2 DEF ToCapture, Handler
<1>5. Plan' = Plan /\ \A a \in Assets : Source(a)' = Source(a)
  BY <1>3, <1>4 DEF Plan, Source
<1>6. \A a \in Assets : OnDisk(a)'
  BY <1>1, <1>4, <1>5 DEF MadeInv, Working, OnDisk
<1>7. ASSUME ~Unrestored, NEW a \in Assets  PROVE Unsaved(a)' /\ MadeSoFar(a)'
  <2>1. Unsaved(a) /\ MadeSoFar(a)  BY <1>1, <1>7 DEF MadeInv, Working
  <2> QED BY <1>1, <1>3, <1>4, <1>5, <2>1, SameMade
<1> QED BY <1>1, <1>4, <1>6, <1>7, GoesOnMade DEF Working

\* A step makes its change once, in memory and unsaved.
LEMMA ApplyMade ==
  ASSUME TypeInv, MadeInv, Apply  PROVE MadeInv'
<1> DEFINE a == Step[2]
           acts == Step[1] = "edit" \/ (Step[1] = "init" /\ mem[a] = Absent)
           now == IF acts THEN Changed(mem[a], at.rec.next) ELSE mem[a]
           cid == IF Step[1] = "edit" THEN CheckpointId(Plan, at.rec.next, FALSE) ELSE at.rec.cid
           rec == [at.rec EXCEPT !.next = @ + 1, !.cid = cid]
           scope == CASE Step[1] \in {"init", "edit"} -> a
                      [] Step[1] = "readBack" -> Absent
                      [] Step[1] = "compile" -> "all"
<1>1. at.pc \in {"step", "apply"} /\ Steps /\ UNCHANGED <<pkg, runs>>
      /\ at.pc \in Forward \ {"stage"} /\ ~Idle
  BY DEF Apply, TypeInv, HandlerInv, Forward, Idle
<1>2. at.rec \in RunRecord /\ at \in Handler /\ Plan \in Seq(Kinds \X Assets)
      /\ at.rec.next \in 1..Len(Plan) /\ at.rec.next \in Int
      /\ Step \in Kinds \X Assets /\ a \in Assets /\ Step = <<Step[1], a>>
      /\ at.rec.assets \in [Assets -> AssetRecord]
  <2>1. /\ at.rec \in RunRecord /\ Plan \in Seq(Kinds \X Assets) /\ at.rec.next \in Nat \ {0}
        /\ at.rec.next \in 1..Len(Plan) /\ Step \in Kinds \X Assets
    BY <1>1, PlanOf
  <2>2. at \in Handler /\ at.rec.assets \in [Assets -> AssetRecord]
    BY <1>1 DEF TypeInv, HandlerInv, Staged
  <2> QED BY <2>1, <2>2
<1>3. \/ /\ mem' = [mem EXCEPT ![a] = now]
         /\ dirty' = IF acts THEN dirty \cup {a} ELSE dirty
         /\ at' = ToCapture(Hashed(rec, a, now), scope, "step")
      \/ FailRun
      \/ at' = [at EXCEPT !.pc = "fail"]
  BY DEF Apply
<1>4. acts \in BOOLEAN  OBVIOUS
<1>5. \A b \in Assets : (b = a /\ acts) <=>
        (Step = <<"edit", b>> \/ (Step = <<"init", b>> /\ mem[b] = Absent))
  BY <1>2
<1>6. rec.assets = at.rec.assets /\ rec.next = at.rec.next + 1 /\ rec.req = at.rec.req
      /\ DOMAIN rec = DOMAIN at.rec /\ rec \in RunRecord
  <2>1. at.rec.next + 1 \in Nat \ {0} /\ at.rec.cid \in Int  BY <1>2, SMTT(20) DEF RunRecord
  <2>2. CheckpointId(Plan, at.rec.next, FALSE) \in Int  BY <1>1, CheckpointIdInt
  <2>3. cid \in Int  BY <2>1, <2>2
  <2> HIDE DEF cid
  <2> QED BY <1>2, <2>1, <2>3 DEF RunRecord
<1>7. mem \in [Assets -> Contents] /\ pkg \in [Assets -> Contents] /\ now \in Contents
      /\ (acts => now # Absent)
  <2>1. mem \in [Assets -> Contents] /\ pkg \in [Assets -> Contents]  BY DEF TypeInv, TypeOK
  <2>2. mem[a] \in Contents  BY <1>2, <2>1
  <2>3. Changed(mem[a], at.rec.next) \in Contents /\ Changed(mem[a], at.rec.next) # Absent
    BY <1>2, <2>2, ChangedContent
  <2> QED BY <2>1, <2>2, <2>3
<1>8. CASE FailRun  BY <1>1, <1>8, FailRunMade
<1>9. CASE at' = [at EXCEPT !.pc = "fail"]
  <2>1. at'.pc = "fail" /\ at'.r = at.r  BY <1>2, <1>9 DEF Handler
  <2> QED BY <1>1, <2>1, RollsBackMade
<1>10. now = IF acts THEN Changed(mem[a], at.rec.next) ELSE mem[a]
  OBVIOUS
<1> HIDE DEF a, acts, now, cid, rec, scope
<1>11. CASE /\ mem' = [mem EXCEPT ![a] = now]
            /\ dirty' = IF acts THEN dirty \cup {a} ELSE dirty
            /\ at' = ToCapture(Hashed(rec, a, now), scope, "step")
  <2> DEFINE new == Hashed(rec, a, now)
  <2>1. new = [rec EXCEPT !.assets = new.assets]
        /\ \A b \in Assets : new.assets[b].snapshot = at.rec.assets[b].snapshot
    <3> DEFINE asset == [at.rec.assets[a] EXCEPT
                           !.cur = now,
                           !.pkgCur = IF pkg[a] = Absent THEN at.rec.assets[a].pkgCur ELSE pkg[a]]
    <3>1. rec.assets \in [Assets -> AssetRecord]  BY <1>2, <1>6
    <3>2. new = [rec EXCEPT !.assets = new.assets]
      <4>1. rec \in RunRecord /\ a \in Assets /\ now \in Contents  BY <1>2, <1>6, <1>7
      <4> HIDE DEF asset
      <4> QED BY <3>1, <4>1, HashedTypes
    <3>3. new.assets = [at.rec.assets EXCEPT ![a] = asset]
      BY <1>2, <1>6 DEF Hashed, AssetRecord, RunRecord
    <3>4. asset.snapshot = at.rec.assets[a].snapshot  BY <1>2 DEF AssetRecord
    <3> HIDE DEF new, asset
    <3> QED BY <1>2, <3>2, <3>3, <3>4
  <2> HIDE DEF new
  <2>2. new.next = at.rec.next + 1 /\ new.req = at.rec.req  BY <1>6, <2>1 DEF RunRecord
  <2>3. at'.pc = "capture" /\ at'.r = at.r /\ at'.rec = new
    <3>1. at' = ToCapture(new, scope, "step")  BY <1>11 DEF new
    <3> QED BY ONLY <1>2, <3>1 DEF ToCapture, Handler
  <2>4. Plan' = Plan /\ \A b \in Assets : Source(b)' = Source(b)
    BY <2>1, <2>2, <2>3 DEF Plan, Source
  <2>5. \A b \in Assets : OnDisk(b)'
    BY <1>1, <2>3, <2>4 DEF MadeInv, Working, OnDisk
  <2>6. ASSUME ~Unrestored, NEW b \in Assets  PROVE Unsaved(b)' /\ MadeSoFar(b)'
    <3> DEFINE act == b = a /\ acts
    <3>1. Unsaved(b) /\ MadeSoFar(b)  BY <1>1, <2>6 DEF MadeInv, Working
    <3>2. Source(b) \in Contents /\ mem[b] \in Contents  BY <1>2, <1>7 DEF Source, AssetRecord
    <3>3. act \in BOOLEAN /\
          (act <=> Plan[at.rec.next] = <<"edit", b>> \/
                   (Plan[at.rec.next] = <<"init", b>> /\ mem[b] = Absent))
      BY <1>4, <1>5 DEF Step
    <3>4. mem'[b] = IF act THEN Changed(mem[b], at.rec.next) ELSE mem[b]
      BY <1>2, <1>7, <1>10, <1>11
    <3>5. Unsaved(b)'
      <4>1. act => mem'[b] # Absent /\ b \in dirty'  BY <1>2, <1>7, <1>11
      <4>2. ~act => mem'[b] = mem[b] /\ (b \in dirty => b \in dirty')  BY <1>11, <3>4
      <4> QED BY <2>4, <3>1, <4>1, <4>2 DEF Unsaved
    <3> HIDE DEF act
    <3>6. MadeTo(mem[b], Plan, b, Source(b), at.rec.next)  BY <3>1 DEF MadeSoFar
    <3>7. MadeTo(mem'[b], Plan, b, Source(b), at.rec.next + 1)
      BY <1>2, <3>2, <3>3, <3>4, <3>6, MadeByStep
    <3> QED BY <2>2, <2>3, <2>4, <3>5, <3>7 DEF MadeSoFar
  <2> QED BY <1>1, <2>3, <2>5, <2>6, GoesOnMade DEF Working
<1> QED BY <1>3, <1>8, <1>9, <1>11

LEMMA WaitsMade ==
  ASSUME TypeInv, MadeInv, Working, Working', at'.r = at.r, UNCHANGED <<mem, dirty, runs>>,
         at'.rec = [at.rec EXCEPT !.assets = at'.rec.assets],
         \A a \in Assets : Source(a)' = Source(a), \A a \in Assets : OnDisk(a)'
  PROVE  MadeInv'
<1>1. ~Idle /\ at.rec \in RunRecord  BY DEF TypeInv, HandlerInv, Working, Idle
<1>2. at'.rec.next = at.rec.next /\ at'.rec.req = at.rec.req  BY <1>1 DEF RunRecord
<1>3. Plan' = Plan  BY <1>2 DEF Plan
<1>4. ASSUME ~Unrestored, NEW a \in Assets  PROVE Unsaved(a)' /\ MadeSoFar(a)'
  <2>1. Unsaved(a) /\ MadeSoFar(a)  BY <1>4 DEF MadeInv
  <2>2. Source(a)' = Source(a) /\ mem'[a] = mem[a]  OBVIOUS
  <2> QED BY <1>2, <1>3, <2>1, <2>2, SameMade
<1>5. at.pc \notin {"idle", "restore"} /\ UNCHANGED runs  BY DEF Working
<1>6. ~Unrestored => \A a \in Assets : Unsaved(a)' /\ MadeSoFar(a)'  BY <1>4
<1> QED BY <1>5, <1>6, GoesOnMade

\* A checkpoint goes by way of the package.
LEMMA CaptureMade ==
  ASSUME TypeInv, MadeInv, NEW a \in Assets, Capture(a)  PROVE MadeInv'
<1> DEFINE asset == at.rec.assets[a]
<1>1. at.pc = "capture" /\ at.left # << >> /\ a = Head(at.left) /\ at.pc \in Forward \ {"stage"}
      /\ UNCHANGED runs /\ ~Idle /\ Working
  BY DEF Capture, Capturing, Forward, Idle, Working
<1>2. at \in Handler /\ at.rec \in RunRecord /\ at.rec.assets \in [Assets -> AssetRecord]
      /\ pkg \in [Assets -> Contents]
  BY <1>1 DEF TypeInv, TypeOK, HandlerInv, Staged
<1>3. asset.ckpt \in Contents /\ asset.file \in Int /\ Absent \in Contents
  BY <1>2 DEF AssetRecord, Contents
<1>4. \A b \in Assets : pkg[b] = Source(b)  BY <1>1 DEF MadeInv, OnDisk
<1>5. ASSUME NEW ckpt \in Contents, NEW memo \in BOOLEAN, Captured(a, ckpt, asset.file, memo),
             UNCHANGED <<mem, dirty, pkg>>
      PROVE  MadeInv'
  <2>1. /\ at'.r = at.r /\ at'.pc = "capture" /\ at'.rec = [at.rec EXCEPT !.assets = at'.rec.assets]
        /\ \A b \in Assets : Source(b)' = Source(b)
    BY <1>1, <1>3, <1>5, CapturedTypes DEF Source, SameBaseline
  <2>2. \A b \in Assets : OnDisk(b)'  BY <1>4, <1>5, <2>1 DEF OnDisk
  <2> QED BY <1>1, <1>5, <2>1, <2>2, WaitsMade DEF Working
<1>6. CASE /\ pkg' = [pkg EXCEPT ![a] = mem[a]] /\ at' = [at EXCEPT !.pc = "copy"]
           /\ UNCHANGED <<mem, dirty>>
  <2>1. at'.pc = "copy" /\ at'.r = at.r /\ at'.rec = at.rec /\ at'.left = at.left
    BY <1>2, <1>6 DEF Handler
  <2>2. at'.rec = [at.rec EXCEPT !.assets = at'.rec.assets]
    BY <1>2, <2>1 DEF RunRecord
  <2>3. \A b \in Assets : Source(b)' = Source(b)  BY <2>1 DEF Source
  <2>4. \A b \in Assets : OnDisk(b)'
    BY <1>1, <1>2, <1>4, <1>6, <2>1, <2>3 DEF OnDisk
  <2> QED BY <1>1, <1>6, <2>1, <2>2, <2>3, <2>4, WaitsMade DEF Working
<1>7. CASE FailRun  BY <1>1, <1>7, FailRunMade
<1> QED BY <1>3, <1>5, <1>6, <1>7 DEF Capture

LEMMA CopyMade ==
  ASSUME TypeInv, MadeInv, CopyAndRestore  PROVE MadeInv'
<1> DEFINE a == Head(at.left)
           baseline == [pkg EXCEPT ![a] = at.rec.assets[a].snapshot]
<1>1. at.pc = "copy" /\ at.left # << >> /\ at.pc \in Forward \ {"stage"} /\ UNCHANGED runs
      /\ ~Idle /\ Working
  BY DEF CopyAndRestore, Forward, Idle, Working, TypeInv, HandlerInv
<1>2. a \in Assets /\ mem[a] \in Contents /\ at.rec.cid \in Int /\ pkg \in [Assets -> Contents]
  BY <1>1, LeftShrinks DEF TypeInv, TypeOK, HandlerInv, Idle, RunRecord
<1>3. \/ pkg' = baseline /\ UNCHANGED <<mem, dirty>> /\ Captured(a, mem[a], at.rec.cid, TRUE)
      \/ FailRun
  BY DEF CopyAndRestore
<1>4. \A b \in Assets : baseline[b] = Source(b)
  BY <1>1, <1>2 DEF MadeInv, Working, OnDisk, Source
<1>5. CASE pkg' = baseline /\ UNCHANGED <<mem, dirty>> /\ Captured(a, mem[a], at.rec.cid, TRUE)
  <2>1. /\ at'.r = at.r /\ at'.pc = "capture" /\ at'.rec = [at.rec EXCEPT !.assets = at'.rec.assets]
        /\ \A b \in Assets : Source(b)' = Source(b)
    BY <1>1, <1>2, <1>5, CapturedTypes DEF Source, SameBaseline
  <2> HIDE DEF baseline
  <2>2. \A b \in Assets : OnDisk(b)'  BY <1>4, <1>5, <2>1 DEF OnDisk
  <2> QED BY <1>1, <1>5, <2>1, <2>2, WaitsMade DEF Working
<1>6. CASE FailRun  BY <1>1, <1>6, FailRunMade
<1> QED BY <1>3, <1>5, <1>6

\* An asset that is saved is in its package as it is in memory.
LEMMA SaveMade ==
  ASSUME TypeInv, MadeInv, Save  PROVE MadeInv'
<1> DEFINE a == Head(at.left)
           asset == [at.rec.assets[a] EXCEPT !.cur = mem[a], !.pkgCur = mem[a]]
           rec == [at.rec EXCEPT !.assets[a].cur = mem[a], !.assets[a].pkgCur = mem[a]]
<1>1. at.pc = "save" /\ at.left # << >> /\ at.pc \in Forward \ {"stage"} /\ ~Idle /\ UNCHANGED runs
  BY DEF Save, Forward, Idle
<1>2. a \in Assets /\ at.rec \in RunRecord /\ at \in Handler /\ Tail(at.left) \in Seq(Assets)
      /\ at.rec.assets \in [Assets -> AssetRecord] /\ pkg \in [Assets -> Contents]
      /\ \A b \in ToSet(at.left) : b = a \/ b \in ToSet(Tail(at.left))
  BY <1>1, LeftShrinks DEF TypeInv, TypeOK, HandlerInv, Idle, Staged
<1>3. \/ /\ pkg' = [pkg EXCEPT ![a] = mem[a]] /\ dirty' = dirty \ {a} /\ UNCHANGED mem
         /\ at' = Goes("save", rec, Tail(at.left))
      \/ FailRun
  BY DEF Save
<1> HIDE DEF a
<1>4. CASE /\ pkg' = [pkg EXCEPT ![a] = mem[a]] /\ dirty' = dirty \ {a} /\ UNCHANGED mem
           /\ at' = Goes("save", rec, Tail(at.left))
  <2>1. rec.req = at.rec.req /\ rec.next = at.rec.next /\ rec.save = at.rec.save
        /\ \A b \in Assets : rec.assets[b].snapshot = at.rec.assets[b].snapshot
    BY <1>2 DEF RunRecord, AssetRecord
  <2> HIDE DEF rec
  <2>2. at'.pc = "save" /\ at'.r = at.r /\ at'.rec = rec /\ at'.left = Tail(at.left)
    BY <1>2, <1>4 DEF Goes, Handler
  <2>3. Plan' = Plan /\ \A b \in Assets : Source(b)' = Source(b)
    BY <2>1, <2>2 DEF Plan, Source
  <2>4. at'.rec.save /\ ~Steps'  BY <1>1, <2>1, <2>2, <2>3 DEF MadeInv, Steps
  <2>5. pkg'[a] = mem'[a] /\ \A b \in Assets : b # a => pkg'[b] = pkg[b] /\ mem'[b] = mem[b]
    BY <1>2, <1>4
  <2>6. ASSUME NEW b \in Assets  PROVE b \in ToSet(at'.left) \/ pkg'[b] = mem'[b]
    <3>1. CASE b = a  BY <2>5, <3>1
    <3>2. CASE b # a  BY <1>1, <1>2, <2>2, <2>5, <3>2 DEF MadeInv
    <3> QED BY <3>1, <3>2
  <2>7. ASSUME ~Unrestored, NEW b \in Assets  PROVE MadeSoFar(b)' /\ Settled(b)'
    <3>1. MadeSoFar(b) /\ Settled(b)  BY <1>1, <2>7 DEF MadeInv
    <3>2. MadeTo(mem'[b], Plan', b, Source(b)', at'.rec.next)
      BY <1>4, <2>1, <2>2, <2>3, <3>1 DEF MadeSoFar
    <3>3. Settled(b)'
      <4>1. CASE b = a  BY <2>5, <4>1 DEF Settled
      <4>2. CASE b # a  BY <1>4, <2>5, <3>1, <4>2 DEF Settled
      <4> QED BY <4>1, <4>2
    <3> QED BY <3>2, <3>3 DEF MadeSoFar
  <2>8. Unrestored' = Unrestored  BY <1>1 DEF Unrestored
  <2>9. at'.r \in DOMAIN runs' => ~Estranged(runs'[at'.r])  BY <1>1, <2>2 DEF MadeInv
  <2> QED BY <2>2, <2>4, <2>6, <2>7, <2>8, <2>9 DEF MadeInv, Working
<1>5. CASE FailRun  BY <1>1, <1>5, FailRunMade
<1> QED BY <1>3, <1>4, <1>5

LEMMA WorkMade ==
  ASSUME TypeInv, MadeInv, Works  PROVE MadeInv'
<1>1. CASE Fail
  <2>1. at.pc \in Forward \ {"stage"} /\ FailRun /\ UNCHANGED runs  BY <1>1 DEF Fail, Forward
  <2> QED BY <2>1, FailRunMade
<1>2. ASSUME NEW a \in Assets, Restore(a)  PROVE MadeInv'
  <2>1. at.pc = "restore" /\ at.left # << >> /\ a = Head(at.left) /\ UNCHANGED runs /\ ~Idle
    BY <1>2 DEF Restore, Idle
  <2>2. mem'[a] \in Contents /\ pkg'[a] \in Contents
    BY <1>2, RestoreTypes DEF TypeInv, TypeOK
  <2> DEFINE now == SameStructure(at.rec.assets[a].snapshot, at.rec.assets[a].before)
  <2>3. Treated(a, TRUE) \/ Treated(a, FALSE) \/ Treated(a, now)  BY <1>2 DEF Restore
  <2>5. now \in BOOLEAN  BY DEF SameStructure
  <2> HIDE DEF now
  <2>4. at'.r = at.r /\ at'.pc = "restore"  BY <2>1, <2>2, <2>3, <2>5, TreatedTypes
  <2> QED BY <2>1, <2>4, RollsBackMade
<1> QED
  BY <1>1, <1>2, PrepareMade, ApplyMade, CaptureMade, CopyMade, SaveMade DEF Works

\* The steps that write the run, or end with it.
LEMMA QuietMade ==
  ASSUME at'.pc = "idle", ~Unrestored' => \A a \in Assets : Settled(a)'
  PROVE  MadeInv'
BY DEF MadeInv, Idle, Working

LEMMA StartsMade ==
  ASSUME NEW r, NEW rec, rec.status = "running", at'.r = r, at'.rec = rec,
         at'.pc \in {"step", "apply"}, runs' = With(runs, r, rec), UNCHANGED pkg,
         r \in DOMAIN runs => ~Estranged(runs[r]), \A a \in Assets : pkg[a] = rec.assets[a].snapshot,
         ~Unrestored => \A a \in Assets : Unsaved(a)' /\ MadeSoFar(a)'
  PROVE  MadeInv'
<1>1. ~Estranged(rec) /\ runs'[r] = rec  BY DEF Estranged, With
<1>2. \A a \in Assets : OnDisk(a)'  BY DEF OnDisk, Source
<1>3. ~Unrestored' => ~Unrestored  BY StillUnrestored
<1> QED BY <1>1, <1>2, <1>3 DEF MadeInv, Working

LEMMA UsersMade ==
  ASSUME TypeInv, MadeInv, NEW a \in Assets, UserEdits(a) \/ UserSaves(a)  PROVE MadeInv'
<1>1. at.pc = "idle" /\ UNCHANGED <<runs, at>> /\ mem \in [Assets -> Contents]
      /\ pkg \in [Assets -> Contents]
  BY DEF UserEdits, UserSaves, Idle, TypeInv, TypeOK
<1>2. ASSUME ~Unrestored, NEW b \in Assets  PROVE Settled(b)'
  <2>1. Settled(b)  BY <1>1, <1>2 DEF MadeInv
  <2>2. CASE UserEdits(a)
    <3>1. \A change \in {Edit, Detail} : Changed(mem[a], change) # Absent
      <4>1. Edit \in Int /\ Detail \in Int  BY DEF Edit, Detail
      <4> QED BY <1>1, <4>1, ChangedContent
    <3>2. CASE b = a  BY <1>1, <2>2, <3>1, <3>2 DEF UserEdits, Settled
    <3>3. CASE b # a  BY <1>1, <2>1, <2>2, <3>3 DEF UserEdits, Settled
    <3> QED BY <3>2, <3>3
  <2>3. CASE UserSaves(a)
    <3>2. CASE b = a  BY <1>1, <2>3, <3>2 DEF UserSaves, Settled
    <3>3. CASE b # a  BY <1>1, <2>1, <2>3, <3>3 DEF UserSaves, Settled
    <3> QED BY <3>2, <3>3
  <2> QED BY <2>2, <2>3
<1>3. Unrestored' = Unrestored  BY <1>1 DEF Unrestored
<1> QED BY <1>1, <1>2, <1>3, QuietMade

LEMMA CrashMade ==
  ASSUME Crash  PROVE MadeInv'
BY QuietMade DEF Crash, Settled, Stopped

LEMMA ExecuteMade ==
  ASSUME TypeInv, OneInv, MadeInv, NEW req \in Requests, Execute(req)  PROVE MadeInv'
<1> DEFINE r == Cardinality(Known) + 1
           rec == [req |-> req, inst |-> inst, status |-> "running", avail |-> FALSE,
                   verified |-> FALSE, next |-> 1, cid |-> 0, save |-> req \in Saving,
                   assets |-> << >>]
           hand == [Stopped EXCEPT !.pc = "stage", !.r = r, !.rec = rec]
<1>1. \/ runs' = With(runs, r, rec) /\ at' = hand
      \/ UNCHANGED <<runs, at>>
  BY DEF Execute
<1>2. at.pc = "idle" /\ UNCHANGED <<mem, pkg, dirty>>  BY DEF Execute, Idle
<1>3. r \notin DOMAIN runs
  <2>1. Known = DOMAIN journals /\ Cardinality(DOMAIN journals) \in Nat
    BY KnownJournals DEF OneInv
  <2>2. DOMAIN journals = 1..Cardinality(DOMAIN journals) /\ DOMAIN runs \subseteq DOMAIN journals
    BY DEF OneInv, RequestsInv
  <2> QED BY <2>1, <2>2
<1>4. rec.status = "running" /\ rec.next = 1  OBVIOUS
<1> HIDE DEF rec
<1>5. hand.pc = "stage" /\ hand.rec = rec /\ hand.r = r  BY DEF Stopped
<1> HIDE DEF r, hand
<1>6. \A a \in Assets : Settled(a)' = Settled(a)  BY <1>2 DEF Settled
<1>7. CASE runs' = With(runs, r, rec) /\ at' = hand
  <2>1. ~Unrestored' => ~Unrestored  BY <1>3, <1>7, StillUnrestored
  <2>2. ~Estranged(runs'[r])  BY <1>4, <1>7 DEF Estranged, With
  <2> QED BY <1>2, <1>4, <1>5, <1>6, <1>7, <2>1, <2>2 DEF MadeInv, Working
<1>8. CASE UNCHANGED <<runs, at>>
  <2>1. Unrestored' = Unrestored  BY <1>8 DEF Unrestored
  <2> QED BY <1>2, <1>6, <1>8, <2>1, QuietMade DEF MadeInv
<1> QED BY <1>1, <1>7, <1>8

LEMMA FailAdmittedMade ==
  ASSUME MadeInv, at.pc = "stage", NEW rec, FailAdmittedRun(rec), UNCHANGED <<mem, pkg, dirty>>
  PROVE  MadeInv'
<1> DEFINE failed == [rec EXCEPT !.status = "failed", !.verified = TRUE]
<1>1. runs' = With(runs, at.r, failed) /\ at'.pc = "idle"
  BY DEF FailAdmittedRun, Stopped
<1> HIDE DEF failed
<1>2. at.r \in DOMAIN runs => ~Estranged(runs[at.r])  BY DEF MadeInv, Idle
<1>3. ~Unrestored' => ~Unrestored  BY <1>1, <1>2, StillUnrestored
<1>4. ~Unrestored => \A a \in Assets : Settled(a)'  BY DEF MadeInv, Settled
<1> QED BY <1>1, <1>3, <1>4, QuietMade

\* The baseline is what the assets are, and nothing is made yet.
LEMMA StageMade ==
  ASSUME TypeInv, MadeInv, Stage  PROVE MadeInv'
<1> DEFINE assets == [a \in Assets |-> Baseline(a)]
           rec == [at.rec EXCEPT !.assets = assets, !.avail = TRUE]
<1>1. at.pc = "stage" /\ at.rec \in RunRecord /\ at \in Handler /\ at.rec.next = 1
      /\ UNCHANGED <<mem, pkg, dirty>> /\ ~Idle /\ at.rec.status = "running"
  BY DEF Stage, TypeInv, HandlerInv, Idle, MadeInv, Forward
<1>2. \A a \in Assets : assets[a].snapshot = pkg[a]
  BY DEF Baseline
<1>3. \/ FailAdmittedRun(at.rec)
      \/ FailAdmittedRun(rec)
      \/ /\ dirty = {}
         /\ runs' = With(runs, at.r, rec)
         /\ at' = [at EXCEPT !.pc = "step", !.rec = rec]
  BY DEF Stage
<1> HIDE DEF assets
<1>4. rec.assets = assets /\ rec.next = 1 /\ rec.req = at.rec.req /\ rec.status = "running"
  BY <1>1 DEF RunRecord
<1> HIDE DEF rec
<1>5. CASE FailAdmittedRun(at.rec) \/ FailAdmittedRun(rec)  BY <1>1, <1>5, FailAdmittedMade
<1>6. CASE /\ dirty = {}
           /\ runs' = With(runs, at.r, rec)
           /\ at' = [at EXCEPT !.pc = "step", !.rec = rec]
  <2>1. at'.pc = "step" /\ at'.r = at.r /\ at'.rec = rec  BY <1>1, <1>6 DEF Handler
  <2>2. at.r \in DOMAIN runs => ~Estranged(runs[at.r])  BY <1>1 DEF MadeInv
  <2>3. Plan' = Plan /\ Plan \in Seq(Kinds \X Assets)
    <3>1. Plan \in Seq(Kinds \X Assets)  BY <1>1, PlanOf
    <3> QED BY <1>4, <2>1, <3>1 DEF Plan
  <2>4. ASSUME ~Unrestored, NEW a \in Assets  PROVE Unsaved(a)' /\ MadeSoFar(a)'
    <3>3. mem[a] = pkg[a]  BY <1>1, <1>6, <2>4 DEF MadeInv, Settled
    <3>1. Source(a)' = mem[a] /\ mem'[a] = mem[a]  BY <1>1, <1>2, <1>4, <2>1, <3>3 DEF Source
    <3>2. MadeTo(mem'[a], Plan', a, Source(a)', at'.rec.next)
      BY <1>4, <2>1, <2>3, <3>1, MadeNothing
    <3> QED BY <3>1, <3>2 DEF Unsaved, MadeSoFar
  <2>5. \A a \in Assets : pkg[a] = rec.assets[a].snapshot  BY <1>2, <1>4, <1>6
  <2> QED BY <1>1, <1>4, <1>6, <2>1, <2>2, <2>4, <2>5, StartsMade
<1> QED BY <1>3, <1>5, <1>6

LEMMA CheckpointMade ==
  ASSUME TypeInv, MadeInv, SaveCheckpoint  PROVE MadeInv'
<1>1. at.pc = "capture" /\ ~Idle /\ Working /\ UNCHANGED pkg /\ at.pc \in Forward \ {"stage"}
      /\ at.goal \in {"apply", "step"} /\ at.rec.status = "running"
  BY DEF SaveCheckpoint, Idle, Working, Forward, TypeInv, HandlerInv
<1>2. \/ /\ runs' = With(runs, at.r, at.rec) /\ UNCHANGED <<mem, dirty>>
         /\ at' = [Stopped EXCEPT !.pc = at.goal, !.r = at.r, !.rec = at.rec]
      \/ FailRun /\ UNCHANGED runs
  BY DEF SaveCheckpoint
<1>3. CASE /\ runs' = With(runs, at.r, at.rec) /\ UNCHANGED <<mem, dirty>>
           /\ at' = [Stopped EXCEPT !.pc = at.goal, !.r = at.r, !.rec = at.rec]
  <2>1. at'.pc = at.goal /\ at'.r = at.r /\ at'.rec = at.rec
    BY ONLY <1>3 DEF Stopped
  <2>2. Plan' = Plan /\ \A a \in Assets : Source(a)' = Source(a)  BY <2>1 DEF Plan, Source
  <2>3. at.r \in DOMAIN runs => ~Estranged(runs[at.r])  BY <1>1 DEF MadeInv
  <2>4. \A a \in Assets : pkg[a] = at.rec.assets[a].snapshot
    BY <1>1 DEF MadeInv, OnDisk, Source
  <2>5. ASSUME ~Unrestored, NEW a \in Assets  PROVE Unsaved(a)' /\ MadeSoFar(a)'
    <3>1. Unsaved(a) /\ MadeSoFar(a)  BY <1>1, <2>5 DEF MadeInv
    <3>2. Source(a)' = Source(a) /\ mem'[a] = mem[a] /\ dirty' = dirty
          /\ at'.rec.next = at.rec.next
      BY <1>3, <2>1, <2>2
    <3> QED BY <2>2, <3>1, <3>2, SameMade
  <2> QED BY <1>1, <1>3, <2>1, <2>3, <2>4, <2>5, StartsMade
<1>4. CASE FailRun /\ UNCHANGED runs  BY <1>1, <1>4, FailRunMade
<1> QED BY <1>2, <1>3, <1>4

LEMMA RollbackRunMade ==
  ASSUME TypeInv, NEW r \in RunIds, RollbackRun(r)  PROVE MadeInv'
<1>1. at \in Handler /\ RollingBack(LoadRun(r), r, FALSE)
  BY DEF RollbackRun, TypeInv, HandlerInv
<1>2. at'.pc = "restore"
  BY <1>1 DEF RollingBack, Handler
<1> QED BY <1>2 DEF MadeInv, Working

\* The assets that a replay begins with are what they were before the run.
LEMMA ResumeRunMade ==
  ASSUME TypeInv, MadeInv, NEW r \in RunIds, ResumeRun(r)  PROVE MadeInv'
<1> DEFINE old == LoadRun(r)
           rec == FromBaseline(old)
           hand == [Stopped EXCEPT !.pc = "step", !.r = r, !.rec = rec]
<1>1. Idle /\ r \in Known /\ old.status = "running" /\ UNCHANGED <<mem, dirty, pkg>>
      /\ runs' = With(runs, r, rec) /\ at' = hand
  BY DEF ResumeRun, CanResume
<1>2. \A a \in Assets : pkg[a] = old.assets[a].snapshot /\ (mem[a] = Absent \/ a \notin dirty)
  BY DEF ResumeRun, CanResume
<1>3. old \in RunRecord /\ old.assets \in [Assets -> AssetRecord]
  BY <1>1, LoadedRun DEF ResumeRun, CanResume, RunRecord
<1>4. r \in DOMAIN runs => ~Estranged(runs[r])  BY <1>1 DEF LoadRun, Estranged
<1> HIDE DEF old
<1>5. /\ \A a \in Assets : rec.assets[a].snapshot = old.assets[a].snapshot
      /\ rec.next = 1 /\ rec.req = old.req /\ rec.status = "running"
  <2> DEFINE assets == [a \in Assets |-> [old.assets[a] EXCEPT !.undo = mem[a]]]
  <2>1. rec.assets = assets /\ rec.next = 1 /\ rec.req = old.req /\ rec.status = "running"
    BY <1>1, <1>3 DEF FromBaseline, Reopened, RunRecord
  <2>2. \A a \in Assets : assets[a].snapshot = old.assets[a].snapshot
    BY <1>3 DEF AssetRecord
  <2> HIDE DEF assets, rec
  <2> QED BY <2>1, <2>2
<1> HIDE DEF rec
<1>6. at'.pc = "step" /\ at'.r = r /\ at'.rec = rec
  BY ONLY <1>1 DEF Stopped
<1>7. ASSUME ~Unrestored, NEW a \in Assets  PROVE Unsaved(a)' /\ MadeSoFar(a)'
  <2>1. Settled(a)  BY <1>1, <1>7 DEF MadeInv, Idle
  <2>2. mem[a] = old.assets[a].snapshot  BY <1>2, <2>1 DEF Settled
  <2>3. Source(a)' = mem[a] /\ mem'[a] = mem[a]  BY <1>1, <1>5, <1>6, <2>2 DEF Source
  <2>4. Plan' \in Seq(Kinds \X Assets)
    <3>1. old.req \in Requests  BY <1>3 DEF RunRecord
    <3> QED BY <1>5, <1>6, <3>1 DEF Plan
  <2>5. MadeTo(mem'[a], Plan', a, Source(a)', at'.rec.next)
    BY <1>5, <1>6, <2>3, <2>4, MadeNothing
  <2> QED BY <2>3, <2>5 DEF Unsaved, MadeSoFar
<1>8. \A a \in Assets : pkg[a] = rec.assets[a].snapshot  BY <1>2, <1>5
<1> QED BY <1>1, <1>4, <1>5, <1>6, <1>7, <1>8, StartsMade

LEMMA GetStatusMade ==
  ASSUME TypeInv, MadeInv, NEW r \in RunIds, GetStatus(r)  PROVE MadeInv'
<1> DEFINE blocked == [LoadRun(r) EXCEPT !.status = "blocked", !.verified = FALSE]
<1>1. at.pc = "idle" /\ LoadRun(r).status = "running" /\ UNCHANGED <<mem, dirty, pkg, at>>
      /\ (runs' = With(runs, r, blocked) \/ runs' = runs)
  BY DEF GetStatus, Idle
<1>2. r \in DOMAIN runs => ~Estranged(runs[r])  BY <1>1 DEF LoadRun, Estranged
<1> HIDE DEF blocked
<1>3. ~Unrestored' => ~Unrestored
  <2>1. CASE runs' = With(runs, r, blocked)  BY <1>2, <2>1, StillUnrestored
  <2>2. CASE runs' = runs  BY <2>2 DEF Unrestored
  <2> QED BY <1>1, <2>1, <2>2
<1>4. ~Unrestored => \A a \in Assets : Settled(a)'  BY <1>1 DEF MadeInv, Settled
<1> QED BY <1>1, <1>3, <1>4, QuietMade

\* A rollback that is not blocked leaves the assets as they are on disk.
LEMMA RestoreEndsMade ==
  ASSUME TypeInv, RestoreInv, MadeInv, RestoreEnds  PROVE MadeInv'
<1>1. at.pc = "restore" /\ at.left = << >> /\ UNCHANGED <<mem, dirty, pkg>> /\ at'.pc = "idle"
      /\ runs' = With(runs, at.r, RolledBack)
      /\ at.rec.assets \in [Assets -> AssetRecord] /\ at.rec \in RunRecord
  BY DEF RestoreEnds, Stopped, TypeInv, HandlerInv, Staged, Idle
<1>2. RolledBack.status \in {"failed", "blocked", "rolledBack"}
      /\ RolledBack.assets = at.rec.assets
  BY <1>1 DEF RolledBack, RunRecord
<1>3. ASSUME ~Unrestored', NEW a \in Assets  PROVE Settled(a)'
  <2>1. ~Estranged(RolledBack)  BY <1>1, <1>3 DEF Unrestored, With
  <2>2. at.rec.assets[a].cur = at.rec.assets[a].pkgCur  BY <1>1, <1>2, <2>1 DEF Estranged
  <2>3. ToSet(<< >>) = {}  BY DEF ToSet
  <2>4. Noted(at.rec.assets[a], a)  BY <1>1, <2>3 DEF RestoreInv
  <2> QED BY <1>1, <2>2, <2>4 DEF Settled, Noted
<1> QED BY <1>1, <1>3, QuietMade

\* What a completed run has made and saved.
Once(r) ==
  \A a \in Assets :
    LET snapshot == runs'[r].assets[a].snapshot IN
    /\ Made(mem'[a], snapshot, ChangesOf(Workflow[runs'[r].req], a, snapshot))
    /\ pkg'[a] = IF runs'[r].save THEN mem'[a] ELSE snapshot

LEMMA CompletedMade ==
  ASSUME TypeInv, MadeInv, at.pc \in {"step", "save"}, ~Steps, Completed,
         UNCHANGED <<mem, dirty, pkg>>,
         \A a \in Assets : pkg[a] = IF at.rec.save THEN mem[a] ELSE Source(a),
         ~Unrestored => \A a \in Assets : Settled(a) /\ MadeSoFar(a)
  PROVE  /\ MadeInv'
         /\ \A r \in RunIds : Becomes(r, "completed") /\ ~Unrestored => Once(r)
<1> DEFINE assets == [a \in Assets |-> [at.rec.assets[a] EXCEPT !.cur = mem[a]]]
           rec == [at.rec EXCEPT !.status = "completed", !.avail = TRUE, !.assets = assets]
<1>1. ~Idle /\ at.rec \in RunRecord /\ at.rec.assets \in [Assets -> AssetRecord]
      /\ at.rec.next <= Len(Plan) + 1
  BY DEF TypeInv, HandlerInv, Idle, Forward, Staged
<1>2. runs' = With(runs, at.r, rec) /\ at'.pc = "idle"
  BY DEF Completed, Stopped
<1>3. \A a \in Assets : assets[a].snapshot = Source(a)
  BY <1>1 DEF AssetRecord, Source
<1> HIDE DEF assets
<1>4. rec.assets = assets /\ rec.req = at.rec.req /\ rec.save = at.rec.save
  BY <1>1 DEF RunRecord
<1> HIDE DEF rec
<1>5. MadeInv'
  <2>1. at.r \in DOMAIN runs => ~Estranged(runs[at.r])  BY <1>1 DEF MadeInv
  <2>2. ~Unrestored' => ~Unrestored  BY <1>2, <2>1, StillUnrestored
  <2>3. \A a \in Assets : Settled(a)' = Settled(a)  BY DEF Settled
  <2> QED BY <1>2, <2>2, <2>3, QuietMade
<1>6. Plan \in Seq(Kinds \X Assets) /\ at.rec.next = Len(Plan) + 1 /\ Plan = Workflow[at.rec.req]
  <2>1. Plan \in Seq(Kinds \X Assets) /\ Len(Plan) \in Nat /\ at.rec.next \in Nat
        /\ Plan = Workflow[at.rec.req]
    BY <1>1, PlanOf
  <2> QED BY <1>1, <2>1 DEF Steps
<1>7. ASSUME NEW r \in RunIds, Becomes(r, "completed"), ~Unrestored  PROVE Once(r)
  <2>1. runs'[r] = rec
    <3>1. /\ DOMAIN runs' = DOMAIN runs \cup {at.r} /\ runs'[at.r] = rec
          /\ \A k \in DOMAIN runs : k # at.r => runs'[k] = runs[k]
      BY <1>2 DEF With
    <3> QED BY <1>7, <3>1 DEF Becomes
  <2>2. ASSUME NEW a \in Assets
        PROVE  /\ Made(mem[a], Source(a), ChangesOf(Workflow[at.rec.req], a, Source(a)))
               /\ pkg[a] = IF at.rec.save THEN mem[a] ELSE Source(a)
    <3>1. MadeTo(mem[a], Plan, a, Source(a), Len(Plan) + 1)  BY <1>6, <1>7 DEF MadeSoFar
    <3>2. Made(mem[a], Source(a), ChangesOf(Plan, a, Source(a)))  BY <1>6, <3>1, MadeAll
    <3> QED BY <1>6, <3>2
  <2>3. \A a \in Assets : rec.assets[a].snapshot = Source(a)  BY <1>3, <1>4
  <2> QED BY <1>4, <2>1, <2>2, <2>3 DEF Once
<1> QED BY <1>5, <1>7

\* The end of the steps: nothing is saved yet.
LEMMA StepsEndMade ==
  ASSUME TypeInv, MadeInv, StepsEnd
  PROVE  /\ MadeInv'
         /\ \A r \in RunIds : Becomes(r, "completed") /\ ~Unrestored => Once(r)
<1>1. at.pc = "step" /\ ~Steps /\ UNCHANGED pkg /\ at.pc \in Forward \ {"stage"} /\ ~Idle
      /\ Working /\ at \in Handler
  BY DEF StepsEnd, Forward, Idle, Working, TypeInv, HandlerInv
<1>2. \A a \in Assets : pkg[a] = Source(a)  BY <1>1 DEF MadeInv, OnDisk
<1>3. ~Unrestored => \A a \in Assets : Settled(a) /\ MadeSoFar(a)
  BY <1>1, <1>2 DEF MadeInv, Unsaved, Settled
<1>4. ASSUME runs' = runs, NEW r \in RunIds  PROVE ~Becomes(r, "completed")
  BY <1>4 DEF Becomes
<1>5. CASE FailRun /\ UNCHANGED runs  BY <1>1, <1>4, <1>5, FailRunMade
<1>6. CASE ~at.rec.save /\ Completed /\ UNCHANGED <<mem, dirty>>
  BY <1>1, <1>2, <1>3, <1>6, CompletedMade
<1>7. CASE at.rec.save /\ at' = Goes("save", at.rec, AssetSet) /\ UNCHANGED <<mem, dirty, runs>>
  <2>1. at'.pc = "save" /\ at'.r = at.r /\ at'.rec = at.rec /\ at'.left = AssetSet
    BY <1>1, <1>7 DEF Goes, Handler
  <2>2. Plan' = Plan /\ \A a \in Assets : Source(a)' = Source(a)  BY <2>1 DEF Plan, Source
  <2>3. ASSUME ~Unrestored, NEW a \in Assets  PROVE MadeSoFar(a)' /\ Settled(a)'
    <3>1. MadeSoFar(a) /\ Settled(a)  BY <1>3, <2>3
    <3>2. MadeTo(mem'[a], Plan', a, Source(a)', at'.rec.next)
      BY <1>7, <2>1, <2>2, <3>1 DEF MadeSoFar
    <3>3. Settled(a)'  BY <1>1, <1>7, <3>1 DEF Settled
    <3> QED BY <3>2, <3>3 DEF MadeSoFar
  <2>4. Unrestored' = Unrestored  BY <1>7 DEF Unrestored
  <2>5. at'.r \in DOMAIN runs' => ~Estranged(runs'[at'.r])  BY <1>1, <1>7, <2>1 DEF MadeInv
  <2>6. ~Steps'  BY <1>1, <2>1, <2>2 DEF Steps
  <2>7. MadeInv'
    BY <1>7, <2>1, <2>3, <2>4, <2>5, <2>6, AssetSequence DEF MadeInv, Working
  <2> QED BY <1>4, <1>7, <2>7
<1> QED BY <1>5, <1>6, <1>7 DEF StepsEnd

LEMMA SaveEndsMade ==
  ASSUME TypeInv, MadeInv, SaveEnds
  PROVE  /\ MadeInv'
         /\ \A r \in RunIds : Becomes(r, "completed") /\ ~Unrestored => Once(r)
<1>1. at.pc = "save" /\ at.left = << >> /\ Completed /\ UNCHANGED <<mem, dirty, pkg>>
  BY DEF SaveEnds
<1>2. ToSet(<< >>) = {}  BY DEF ToSet
<1>3. at.rec.save /\ ~Steps /\ \A a \in Assets : pkg[a] = mem[a]
  BY <1>1, <1>2 DEF MadeInv
<1>4. ~Unrestored => \A a \in Assets : Settled(a) /\ MadeSoFar(a)
  BY <1>1 DEF MadeInv
<1> QED BY <1>1, <1>3, <1>4, CompletedMade

\* No other step completes a run.
LEMMA NotCompleted ==
  ASSUME \/ runs' = runs
         \/ DOMAIN runs' = {}
         \/ \E w, rec : runs' = With(runs, w, rec) /\ rec.status # "completed",
         NEW r
  PROVE  ~Becomes(r, "completed")
<1>1. CASE runs' = runs  BY <1>1 DEF Becomes
<1>2. CASE DOMAIN runs' = {}  BY <1>2 DEF Becomes
<1>3. ASSUME NEW w, NEW rec, runs' = With(runs, w, rec), rec.status # "completed"
      PROVE  ~Becomes(r, "completed")
  <2>1. /\ DOMAIN runs' = DOMAIN runs \cup {w} /\ runs'[w] = rec
        /\ \A k \in DOMAIN runs : k # w => runs'[k] = runs[k]
    BY <1>3 DEF With
  <2> QED BY <1>3, <2>1 DEF Becomes
<1> QED BY <1>1, <1>2, <1>3

Others ==
  \/ Works \/ Stage \/ SaveCheckpoint \/ RestoreEnds \/ Crash \/ UNCHANGED vars
  \/ \E a \in Assets : UserEdits(a) \/ UserSaves(a)
  \/ \E req \in Requests : Execute(req)
  \/ \E k \in RunIds : RollbackRun(k) \/ ResumeRun(k) \/ GetStatus(k)

LEMMA OthersDoNotComplete ==
  ASSUME TypeInv, Others, NEW r  PROVE ~Becomes(r, "completed")
<1>1. ASSUME runs' = runs  PROVE ~Becomes(r, "completed")  BY <1>1, NotCompleted
<1>2. ASSUME NEW w, NEW rec, runs' = With(runs, w, rec), rec.status # "completed"
      PROVE  ~Becomes(r, "completed")
  BY <1>2, NotCompleted
<1>3. CASE Works  BY <1>1, <1>3, WorkKeeps
<1>4. CASE \E a \in Assets : UserEdits(a) \/ UserSaves(a)
  BY <1>1, <1>4 DEF UserEdits, UserSaves
<1>5. ASSUME NEW req \in Requests, Execute(req)  PROVE ~Becomes(r, "completed")
  <2> DEFINE rec == [req |-> req, inst |-> inst, status |-> "running", avail |-> FALSE,
                     verified |-> FALSE, next |-> 1, cid |-> 0, save |-> req \in Saving,
                     assets |-> << >>]
  <2>1. runs' = With(runs, Cardinality(Known) + 1, rec) \/ runs' = runs
    BY <1>5 DEF Execute
  <2>2. rec.status # "completed"  OBVIOUS
  <2> HIDE DEF rec
  <2> QED BY <1>1, <1>2, <2>1, <2>2
<1>6. ASSUME NEW k \in RunIds, RollbackRun(k)  PROVE ~Becomes(r, "completed")
  BY <1>1, <1>6 DEF RollbackRun
<1>7. ASSUME NEW k \in RunIds, ResumeRun(k)  PROVE ~Becomes(r, "completed")
  <2>1. LoadRun(k).status = "running" /\ LoadRun(k) \in RunRecord
    BY <1>7, LoadedRun DEF ResumeRun, CanResume
  <2>2. FromBaseline(LoadRun(k)).status = "running"  BY <2>1 DEF FromBaseline, Reopened, RunRecord
  <2>3. runs' = With(runs, k, FromBaseline(LoadRun(k)))  BY <1>7 DEF ResumeRun
  <2> QED BY <1>2, <2>2, <2>3
<1>8. ASSUME NEW k \in RunIds, GetStatus(k)  PROVE ~Becomes(r, "completed")
  <2> DEFINE blocked == [LoadRun(k) EXCEPT !.status = "blocked", !.verified = FALSE]
  <2>1. runs' = With(runs, k, blocked) \/ runs' = runs  BY <1>8 DEF GetStatus
  <2>2. blocked.status = "blocked"
    <3>1. LoadRun(k) \in RunRecord  BY <1>8, LoadedRun DEF GetStatus
    <3> QED BY <3>1 DEF RunRecord
  <2> HIDE DEF blocked
  <2> QED BY <1>1, <1>2, <2>1, <2>2
<1>9. CASE Stage
  <2> DEFINE assets == [a \in Assets |-> Baseline(a)]
             rec == [at.rec EXCEPT !.assets = assets, !.avail = TRUE]
             Failed(old) == [old EXCEPT !.status = "failed", !.verified = TRUE]
  <2>1. at.rec \in RunRecord /\ at.rec.status = "running"
    BY <1>9 DEF Stage, TypeInv, HandlerInv, Idle, Forward
  <2>2. \/ runs' = With(runs, at.r, Failed(at.rec))
        \/ runs' = With(runs, at.r, Failed(rec))
        \/ runs' = With(runs, at.r, rec)
    BY <1>9 DEF Stage, FailAdmittedRun
  <2>3. rec.status = "running" /\ Failed(at.rec).status = "failed" /\ Failed(rec).status = "failed"
    <3> HIDE DEF assets
    <3> QED BY <2>1 DEF RunRecord
  <2> HIDE DEF rec, Failed
  <2> QED BY <1>2, <2>2, <2>3
<1>10. CASE SaveCheckpoint
  <2>1. at.rec.status # "completed"  BY <1>10 DEF SaveCheckpoint, TypeInv, HandlerInv, Forward
  <2>2. runs' = With(runs, at.r, at.rec) \/ runs' = runs  BY <1>10 DEF SaveCheckpoint
  <2> QED BY <1>1, <1>2, <2>1, <2>2
<1>11. CASE RestoreEnds
  <2>1. runs' = With(runs, at.r, RolledBack) /\ at.rec \in RunRecord
    BY <1>11 DEF RestoreEnds, TypeInv, HandlerInv, Idle
  <2>2. RolledBack.status # "completed"  BY <2>1 DEF RolledBack, RunRecord
  <2> QED BY <1>2, <2>1, <2>2
<1>12. CASE Crash
  <2>1. DOMAIN runs' = {}  BY <1>12 DEF Crash
  <2> QED BY <2>1, NotCompleted
<1>13. CASE UNCHANGED vars  BY <1>1, <1>13 DEF vars
<1> QED
  BY <1>3, <1>4, <1>5, <1>6, <1>7, <1>8, <1>9, <1>10, <1>11, <1>12, <1>13 DEF Others

LEMMA MadeStep ==
  ASSUME TypeInv, OneInv, RestoreInv, MadeInv, [Next]_vars
  PROVE  /\ MadeInv'
         /\ \A r \in RunIds : Becomes(r, "completed") /\ ~Unrestored => Once(r)
<1>1. Others \/ StepsEnd \/ SaveEnds  BY DEF Next, Works, Others
<1>2. CASE StepsEnd  BY <1>2, StepsEndMade
<1>3. CASE SaveEnds  BY <1>3, SaveEndsMade
<1>4. CASE Others
  <2>1. \A r \in RunIds : ~Becomes(r, "completed")  BY <1>4, OthersDoNotComplete
  <2>2. ASSUME Works  PROVE MadeInv'  BY <2>2, WorkMade
  <2>3. ASSUME UNCHANGED vars  PROVE MadeInv'
    <3>1. UNCHANGED <<mem, dirty, pkg, runs, at>>  BY <2>3 DEF vars
    <3>2. Unrestored' = Unrestored  BY <3>1 DEF Unrestored
    <3>3. Plan' = Plan /\ Working' = Working /\ Idle' = Idle  BY <3>1 DEF Plan, Working, Idle
    <3>4. Steps' = Steps  BY <3>1, <3>3 DEF Steps
    <3>5. ASSUME NEW a \in Assets
          PROVE  /\ OnDisk(a)' = OnDisk(a) /\ Unsaved(a)' = Unsaved(a)
                 /\ Settled(a)' = Settled(a) /\ MadeSoFar(a)' = MadeSoFar(a)
      <4>1. Source(a)' = Source(a)  BY <3>1 DEF Source
      <4>2. MadeSoFar(a)' = MadeSoFar(a)  BY <3>1, <3>3, <4>1 DEF MadeSoFar
      <4> QED BY <3>1, <4>1, <4>2 DEF OnDisk, Unsaved, Settled
    <3> QED BY <3>1, <3>2, <3>3, <3>4, <3>5 DEF MadeInv
  <2>4. MadeInv'
    BY <1>4, <2>2, <2>3, StageMade, CheckpointMade, RestoreEndsMade, CrashMade, UsersMade,
       ExecuteMade, RollbackRunMade, ResumeRunMade, GetStatusMade DEF Others
  <2> QED BY <2>1, <2>4
<1> QED BY <1>1, <1>2, <1>3, <1>4

LEMMA MadeAlways == Spec => []MadeInv
<1>1. Init => MadeInv
  <2> SUFFICES ASSUME Init  PROVE MadeInv
    OBVIOUS
  <2>1. at.pc = "idle" /\ mem = pkg  BY DEF Init, Stopped
  <2> QED BY <2>1 DEF MadeInv, Idle, Working, Settled
<1>2. TypeInv /\ OneInv /\ RestoreInv /\ MadeInv /\ [Next]_vars => MadeInv'  BY MadeStep
<1> QED BY <1>1, <1>2, TypesAlways, OneAlways, RestoreAlways, PTL DEF Spec

\* A run that becomes completed has made every change of its plan exactly once to what the
\* packages of its assets held before, and saved all of it or nothing, however often it was
\* interrupted and replayed: unless a rollback in this Editor has left an asset in memory
\* that is not what its package holds.
THEOREM CompletedRunsAreExact == Spec => CompletedIsOnce
<1>1. TypeInv /\ OneInv /\ RestoreInv /\ MadeInv /\ [Next]_vars =>
        [\A r \in RunIds :
           Becomes(r, "completed") /\ (\A s \in DOMAIN runs : ~Estranged(runs[s])) =>
             \A a \in Assets :
               LET snapshot == runs'[r].assets[a].snapshot IN
               /\ Made(mem'[a], snapshot, ChangesOf(Workflow[runs'[r].req], a, snapshot))
               /\ pkg'[a] = IF runs'[r].save THEN mem'[a] ELSE snapshot]_vars
  BY MadeStep DEF Once, Unrestored
<1> QED
  BY <1>1, MadeAlways, RestoreAlways, OneAlways, TypesAlways, PTL DEF Spec, CompletedIsOnce

---------------------------------------------------------------------------
(* A run that an Editor left can be rolled back from its baseline.          *)

\* A running run that has its baseline can be rolled back, and its record has the packages
\* as they were before it, whatever its assets and its checkpoints are.
Based(rec) ==
  rec.status = "running" /\ rec.assets # << >> =>
    rec.avail /\ \A a \in Assets : rec.assets[a].pkgCur = rec.assets[a].snapshot
BaseInv ==
  /\ \A r \in DOMAIN runs : Based(runs[r])
  /\ \A r \in DOMAIN journals : Based(journals[r])
  /\ Working => Based(at.rec)

LEMMA BasedWritten ==
  ASSUME NEW f, \A k \in DOMAIN f : Based(f[k]), NEW r, NEW rec, Based(rec)
  PROVE  \A k \in DOMAIN With(f, r, rec) : Based(With(f, r, rec)[k])
<1>1. /\ DOMAIN With(f, r, rec) = DOMAIN f \cup {r} /\ With(f, r, rec)[r] = rec
      /\ \A k \in DOMAIN f : k # r => With(f, r, rec)[k] = f[k]
  BY DEF With
<1>2. ASSUME NEW k \in DOMAIN With(f, r, rec)  PROVE Based(With(f, r, rec)[k])
  <2>1. CASE k = r  BY <1>1, <2>1
  <2>2. CASE k # r
    <3>1. k \in DOMAIN f /\ With(f, r, rec)[k] = f[k]  BY <1>1, <1>2, <2>2
    <3> QED BY <3>1
  <2> QED BY <2>1, <2>2
<1> QED BY <1>2

\* A record is written to the runs and the journals, or not.
LEMMA RecordsBased ==
  ASSUME BaseInv, NEW r, NEW rec, Based(rec),
         \/ journals' = journals
         \/ \E s \in SaveRun(r, rec) : journals' = s.journals,
         \/ runs' = runs
         \/ runs' = With(runs, r, rec),
         Working' => Based(at'.rec)
  PROVE  BaseInv'
<1>1. journals' = journals \/ journals' = With(journals, r, rec)  BY SaveRunWrites
<1>2. \A k \in DOMAIN journals' : Based(journals'[k])
  <2>1. CASE journals' = With(journals, r, rec)  BY <2>1, BasedWritten DEF BaseInv
  <2>2. CASE journals' = journals  BY <2>2 DEF BaseInv
  <2> QED BY <1>1, <2>1, <2>2
<1>3. \A k \in DOMAIN runs' : Based(runs'[k])
  <2>1. CASE runs' = With(runs, r, rec)  BY <2>1, BasedWritten DEF BaseInv
  <2>2. CASE runs' = runs  BY <2>2 DEF BaseInv
  <2> QED BY <2>1, <2>2
<1> QED BY <1>2, <1>3 DEF BaseInv

\* A record with the same packages is based, if it was, or if it ended.
LEMMA SameBased ==
  ASSUME NEW old, Based(old), NEW rec, rec.avail = old.avail, rec.status = old.status,
         old.assets = << >> => rec.assets = << >>,
         \A a \in Assets : /\ rec.assets[a].pkgCur = old.assets[a].pkgCur
                           /\ rec.assets[a].snapshot = old.assets[a].snapshot
  PROVE  Based(rec)
BY DEF Based

LEMMA EndedBased ==
  ASSUME NEW rec, rec.status # "running"  PROVE Based(rec)
BY DEF Based

\* The work on a run leaves the packages in its record as they were.
LEMMA ApplyBased ==
  ASSUME TypeInv, MadeInv, BaseInv, Apply, at'.pc = "capture"  PROVE Based(at'.rec)
<1> DEFINE a == Step[2]
           acts == Step[1] = "edit" \/ (Step[1] = "init" /\ mem[a] = Absent)
           now == IF acts THEN Changed(mem[a], at.rec.next) ELSE mem[a]
           cid == IF Step[1] = "edit" THEN CheckpointId(Plan, at.rec.next, FALSE) ELSE at.rec.cid
           rec == [at.rec EXCEPT !.next = @ + 1, !.cid = cid]
           scope == CASE Step[1] \in {"init", "edit"} -> a
                      [] Step[1] = "readBack" -> Absent
                      [] Step[1] = "compile" -> "all"
<1>1. at.pc \in {"step", "apply"} /\ at.pc \in Forward \ {"stage"} /\ Steps /\ ~Idle
  BY DEF Apply, TypeInv, HandlerInv, Forward, Idle
<1>2. /\ at.rec \in RunRecord /\ at \in Handler /\ at.rec.status = "running" /\ a \in Assets
      /\ at.rec.assets \in [Assets -> AssetRecord]
  <2>1. Step \in Kinds \X Assets /\ at.rec \in RunRecord  BY <1>1, PlanOf
  <2> QED BY <1>1, <2>1, ForwardSound DEF TypeInv, HandlerInv, Staged
<1>3. at' = ToCapture(Hashed(rec, a, now), scope, "step")
  <2>1. FailRun => at'.pc = "restore"  BY <1>1, FailRunKeeps
  <2>2. at' = [at EXCEPT !.pc = "fail"] => at'.pc = "fail"  BY <1>2 DEF Handler
  <2> QED BY <2>1, <2>2 DEF Apply
<1>4. rec.assets = at.rec.assets /\ rec.status = "running" /\ rec.avail = at.rec.avail
      /\ DOMAIN rec = DOMAIN at.rec
  BY <1>2 DEF RunRecord
<1>5. pkg[a] = at.rec.assets[a].snapshot  BY <1>1, <1>2 DEF MadeInv, Working, OnDisk, Source
<1>6. at.rec.avail /\ \A b \in Assets : at.rec.assets[b].pkgCur = at.rec.assets[b].snapshot
  <2>1. at.rec.assets # << >>
    <3>1. DOMAIN at.rec.assets = Assets /\ DOMAIN << >> = {}  BY <1>2
    <3> QED BY <1>2, <3>1
  <2> QED BY <1>1, <1>2, <2>1 DEF BaseInv, Working, Based
<1> HIDE DEF a, acts, now, cid, rec, scope
<1> DEFINE new == Hashed(rec, a, now)
           asset == [at.rec.assets[a] EXCEPT
                       !.cur = now,
                       !.pkgCur = IF pkg[a] = Absent THEN at.rec.assets[a].pkgCur ELSE pkg[a]]
<1>7. asset.snapshot = at.rec.assets[a].snapshot /\ asset.pkgCur = at.rec.assets[a].snapshot
  <2>1. at.rec.assets[a] \in AssetRecord  BY <1>2
  <2>2. asset.snapshot = at.rec.assets[a].snapshot
        /\ asset.pkgCur = IF pkg[a] = Absent THEN at.rec.assets[a].pkgCur ELSE pkg[a]
    BY <2>1 DEF AssetRecord
  <2> HIDE DEF asset
  <2> QED BY <1>2, <1>5, <1>6, <2>2
<1>8. new.assets = [at.rec.assets EXCEPT ![a] = asset] /\ new.avail = at.rec.avail
  BY <1>2, <1>4 DEF Hashed, AssetRecord, RunRecord
<1> HIDE DEF new, asset
<1>9. at'.rec = new
  <2>1. at' = ToCapture(new, scope, "step")  BY <1>3 DEF new
  <2> QED BY ONLY <1>2, <2>1 DEF ToCapture, Handler
<1> QED BY <1>2, <1>6, <1>7, <1>8, <1>9 DEF Based

LEMMA CapturedBased ==
  ASSUME TypeInv, BaseInv, at.pc \in {"capture", "copy"}, at.left # << >>,
         NEW a, a = Head(at.left), NEW ckpt \in Contents, NEW file \in Int, NEW memo \in BOOLEAN,
         Captured(a, ckpt, file, memo)
  PROVE  Based(at'.rec)
<1>1. /\ at'.rec = [at.rec EXCEPT !.assets = at'.rec.assets]
      /\ \A b \in Assets : /\ at'.rec.assets[b].snapshot = at.rec.assets[b].snapshot
                           /\ at'.rec.assets[b].pkgCur = at.rec.assets[b].pkgCur
  BY CapturedTypes DEF SameBaseline
<1>2. /\ Based(at.rec) /\ at.rec \in RunRecord /\ at.rec.assets \in [Assets -> AssetRecord]
      /\ at.rec.status = "running"
  BY ForwardSound DEF BaseInv, Working, TypeInv, HandlerInv, Staged, Forward, Sound
<1>3. at'.rec.avail = at.rec.avail  BY <1>1, <1>2 DEF RunRecord
<1>4. at.rec.assets = << >> => Assets = {}
  <2>1. DOMAIN at.rec.assets = Assets /\ DOMAIN << >> = {}  BY <1>2
  <2> QED BY <2>1
<1>5. Head(at.left) \in Assets  BY LeftShrinks DEF TypeInv, TypeOK
<1> QED BY <1>1, <1>2, <1>3, <1>4, <1>5 DEF Based

LEMMA CaptureBased ==
  ASSUME TypeInv, BaseInv, NEW a \in Assets, Capture(a), Working'  PROVE Based(at'.rec)
<1> DEFINE asset == at.rec.assets[a]
<1>1. at.pc = "capture" /\ at.left # << >> /\ a = Head(at.left) /\ at.pc \in Forward \ {"stage"}
      /\ at \in Handler /\ at.rec.assets \in [Assets -> AssetRecord]
  BY DEF Capture, Capturing, Forward, Staged, TypeInv, HandlerInv
<1>2. asset.ckpt \in Contents /\ asset.file \in Int /\ Absent \in Contents
  BY <1>1 DEF AssetRecord, Contents
<1>3. ASSUME Captured(a, Absent, asset.file, FALSE) \/ Captured(a, asset.ckpt, asset.file, TRUE)
      PROVE  Based(at'.rec)
  BY <1>1, <1>2, <1>3, CapturedBased
<1>4. ASSUME at' = [at EXCEPT !.pc = "copy"]  PROVE Based(at'.rec)
  <2>1. at'.rec = at.rec  BY <1>1, <1>4 DEF Handler
  <2> QED BY <1>1, <2>1 DEF BaseInv, Working
<1>5. ~FailRun  BY <1>1, FailRunKeeps DEF Working
<1> QED BY <1>3, <1>4, <1>5 DEF Capture

LEMMA CopyBased ==
  ASSUME TypeInv, BaseInv, CopyAndRestore, Working'  PROVE Based(at'.rec)
<1> DEFINE a == Head(at.left)
<1>1. at.pc = "copy" /\ at.left # << >> /\ at.pc \in Forward \ {"stage"}
  BY DEF CopyAndRestore, Forward, TypeInv, HandlerInv
<1>2. mem[a] \in Contents /\ at.rec.cid \in Int
  BY <1>1, LeftShrinks DEF TypeInv, TypeOK, HandlerInv, Idle, RunRecord
<1>3. ~FailRun  BY <1>1, FailRunKeeps DEF Working
<1>4. Captured(a, mem[a], at.rec.cid, TRUE)  BY <1>3 DEF CopyAndRestore
<1> QED BY <1>1, <1>2, <1>4, CapturedBased

LEMMA WorkBased ==
  ASSUME TypeInv, MadeInv, BaseInv, Works, Working'  PROVE Based(at'.rec)
<1>1. CASE Prepare
  <2> DEFINE cid == CheckpointId(Plan, at.rec.next, TRUE)
             new == [at.rec EXCEPT !.cid = cid]
  <2>1. at' = ToCapture(new, Absent, "apply") /\ at.pc = "step" /\ ~Idle
    BY <1>1 DEF Prepare, Idle
  <2>2. at.rec \in RunRecord /\ at \in Handler /\ Based(at.rec)
    BY <2>1 DEF TypeInv, HandlerInv, BaseInv, Working
  <2>3. new.assets = at.rec.assets /\ new.avail = at.rec.avail /\ new.status = at.rec.status
    BY <2>2 DEF RunRecord
  <2> HIDE DEF new
  <2>4. at'.rec = new  BY ONLY <2>1, <2>2 DEF ToCapture, Handler
  <2> QED BY <2>2, <2>3, <2>4, SameBased
<1>2. CASE Apply
  <2>1. at.pc \in Forward \ {"stage"} /\ at \in Handler
    BY <1>2 DEF Apply, Forward, TypeInv, HandlerInv
  <2>2. at'.pc \in {"capture", "restore", "fail"}
    <3>1. FailRun => at'.pc = "restore"  BY <2>1, FailRunKeeps
    <3>2. at' = [at EXCEPT !.pc = "fail"] => at'.pc = "fail"  BY <2>1 DEF Handler
    <3>3. \A rec, scope, goal : at' = ToCapture(rec, scope, goal) => at'.pc = "capture"
      BY <2>1 DEF ToCapture, Handler
    <3> QED BY <1>2, <3>1, <3>2, <3>3 DEF Apply
  <2> QED BY <1>2, <2>2, ApplyBased DEF Working
<1>3. CASE Fail
  <2>1. at.pc \in Forward \ {"stage"} /\ FailRun  BY <1>3 DEF Fail, Forward
  <2> QED BY <2>1, FailRunKeeps DEF Working
<1>4. CASE Save
  <2>1. at.pc = "save" /\ at \in Handler /\ at.pc \in Forward \ {"stage"}
    BY <1>4 DEF Save, TypeInv, HandlerInv, Forward
  <2>2. FailRun => at'.pc = "restore"  BY <2>1, FailRunKeeps
  <2>3. \A rec, left : at' = Goes("save", rec, left) => at'.pc = "save"
    BY <2>1 DEF Goes, Handler
  <2> QED BY <1>4, <2>2, <2>3 DEF Save, Working
<1>5. ASSUME NEW a \in Assets, Restore(a)  PROVE FALSE
  <2>1. at.pc = "restore" /\ at \in Handler  BY <1>5 DEF Restore, TypeInv, HandlerInv
  <2>2. PICK ok : Treated(a, ok)  BY <1>5 DEF Restore
  <2>3. at'.pc = at.pc  BY <2>1, <2>2 DEF Treated, Handler
  <2> QED BY <2>1, <2>3 DEF Working
<1> QED BY <1>1, <1>2, <1>3, <1>4, <1>5, CaptureBased, CopyBased DEF Works

\* A handler that ended leaves nothing to be based.
LEMMA RunEndsBased ==
  ASSUME BaseInv, NEW rec, rec.status # "running", at' = Stopped,
         \E s \in SaveRun(at.r, rec) : journals' = s.journals, runs' = With(runs, at.r, rec)
  PROVE  BaseInv'
<1>1. ~Working'  BY DEF Working, Stopped
<1> QED BY <1>1, EndedBased, RecordsBased

LEMMA ExecuteBased ==
  ASSUME TypeInv, BaseInv, NEW req \in Requests, Execute(req)  PROVE BaseInv'
<1> DEFINE r == Cardinality(Known) + 1
           rec == [req |-> req, inst |-> inst, status |-> "running", avail |-> FALSE,
                   verified |-> FALSE, next |-> 1, cid |-> 0, save |-> req \in Saving,
                   assets |-> << >>]
           hand == [Stopped EXCEPT !.pc = "stage", !.r = r, !.rec = rec]
<1>1. PICK s \in SaveRun(r, rec) :
        /\ journals' = s.journals
        /\ IF s.ok THEN runs' = With(runs, r, rec) /\ at' = hand ELSE UNCHANGED <<runs, at>>
  BY DEF Execute
<1>2. Idle  BY DEF Execute
<1>3. Based(rec)  BY DEF Based
<1> HIDE DEF rec
<1>4. hand.pc = "stage"  BY DEF Stopped
<1> HIDE DEF r, hand
<1>5. ~Working'  BY <1>1, <1>2, <1>4 DEF Working, Idle
<1>6. runs' = runs \/ runs' = With(runs, r, rec)  BY <1>1
<1> QED BY <1>1, <1>3, <1>5, <1>6, RecordsBased

LEMMA FailAdmittedBased ==
  ASSUME BaseInv, NEW rec \in RunRecord, FailAdmittedRun(rec)  PROVE BaseInv'
<1> DEFINE failed == [rec EXCEPT !.status = "failed", !.verified = TRUE]
<1>1. failed.status = "failed"  BY DEF RunRecord
<1>2. /\ \E s \in SaveRun(at.r, failed) : journals' = s.journals
      /\ runs' = With(runs, at.r, failed) /\ at' = Stopped
  BY DEF FailAdmittedRun
<1> HIDE DEF failed
<1> QED BY <1>1, <1>2, RunEndsBased

\* A baseline is taken with the packages as they are.
LEMMA StageBased ==
  ASSUME TypeInv, BaseInv, Stage  PROVE BaseInv'
<1> DEFINE assets == [a \in Assets |-> Baseline(a)]
           rec == [at.rec EXCEPT !.assets = assets, !.avail = TRUE]
<1>1. at.rec \in RunRecord /\ at \in Handler
  BY DEF Stage, TypeInv, HandlerInv, Idle
<1>2. /\ assets \in [Assets -> AssetRecord]
      /\ \A a \in Assets : assets[a].snapshot = pkg[a] /\ assets[a].pkgCur = pkg[a]
  BY DEF TypeInv, TypeOK, Baseline, AssetRecord, Snapshot
<1>3. rec \in RunRecord /\ rec.assets = assets /\ rec.avail
  <2> HIDE DEF assets
  <2> QED BY <1>1, <1>2 DEF RunRecord
<1>4. \/ FailAdmittedRun(at.rec)
      \/ FailAdmittedRun(rec)
      \/ /\ \E s \in SaveRun(at.r, rec) : journals' = s.journals
         /\ runs' = With(runs, at.r, rec)
         /\ at' = [at EXCEPT !.pc = "step", !.rec = rec]
  BY DEF Stage
<1> HIDE DEF assets, rec
<1>5. Based(rec)  BY <1>2, <1>3 DEF Based
<1>6. ASSUME \E s \in SaveRun(at.r, rec) : journals' = s.journals,
             runs' = With(runs, at.r, rec), at' = [at EXCEPT !.pc = "step", !.rec = rec]
      PROVE  BaseInv'
  <2>1. at'.rec = rec  BY <1>1, <1>6 DEF Handler
  <2> QED BY <1>5, <1>6, <2>1, RecordsBased
<1> QED BY <1>1, <1>3, <1>4, <1>6, FailAdmittedBased

LEMMA CheckpointBased ==
  ASSUME TypeInv, BaseInv, SaveCheckpoint  PROVE BaseInv'
<1>1. at.pc = "capture" /\ at.pc \in Forward \ {"stage"}
  BY DEF SaveCheckpoint, Forward
<1>2. PICK s \in SaveRun(at.r, at.rec) :
        /\ journals' = s.journals
        /\ IF s.ok
           THEN /\ runs' = With(runs, at.r, at.rec)
                /\ at' = [Stopped EXCEPT !.pc = at.goal, !.r = at.r, !.rec = at.rec]
           ELSE FailRun /\ UNCHANGED runs
  BY DEF SaveCheckpoint
<1>3. Based(at.rec)  BY <1>1 DEF BaseInv, Working
<1>4. at'.rec = at.rec \/ ~Working'
  <2>1. FailRun => at'.pc = "restore"  BY <1>1, FailRunKeeps
  <2>2. at' = [Stopped EXCEPT !.pc = at.goal, !.r = at.r, !.rec = at.rec] => at'.rec = at.rec
    BY DEF Stopped
  <2> QED BY <1>2, <2>1, <2>2 DEF Working
<1>5. runs' = runs \/ runs' = With(runs, at.r, at.rec)  BY <1>2
<1>6. \E s2 \in SaveRun(at.r, at.rec) : journals' = s2.journals  BY <1>2
<1> QED BY <1>3, <1>4, <1>5, <1>6, RecordsBased

LEMMA CompletedBased ==
  ASSUME TypeInv, BaseInv, Staged, Completed  PROVE BaseInv'
<1> DEFINE assets == [a \in Assets |-> [at.rec.assets[a] EXCEPT !.cur = mem[a]]]
           rec == [at.rec EXCEPT !.status = "completed", !.avail = TRUE, !.assets = assets]
<1>1. at.rec \in RunRecord  BY DEF TypeInv, HandlerInv, Staged, Idle
<1>2. /\ \E s \in SaveRun(at.r, rec) : journals' = s.journals
      /\ runs' = With(runs, at.r, rec) /\ at' = Stopped
  BY DEF Completed
<1> HIDE DEF assets
<1>3. rec.status = "completed"  BY <1>1 DEF RunRecord
<1> HIDE DEF rec
<1> QED BY <1>2, <1>3, RunEndsBased

LEMMA StepsEndBased ==
  ASSUME TypeInv, BaseInv, StepsEnd  PROVE BaseInv'
<1>1. at.pc \in Forward \ {"stage"} /\ Staged /\ at \in Handler
  BY DEF StepsEnd, Staged, Forward, TypeInv, HandlerInv
<1>2. CASE FailRun /\ UNCHANGED <<runs, journals>>
  <2>1. ~Working'  BY <1>1, <1>2, FailRunKeeps DEF Working
  <2> QED BY <1>2, <2>1 DEF BaseInv
<1>3. CASE Completed  BY <1>1, <1>3, CompletedBased
<1>4. CASE at' = Goes("save", at.rec, AssetSet) /\ UNCHANGED <<runs, journals>>
  <2>1. at'.pc = "save"  BY <1>1, <1>4 DEF Goes, Handler
  <2> QED BY <1>4, <2>1 DEF BaseInv, Working
<1> QED BY <1>2, <1>3, <1>4 DEF StepsEnd

LEMMA RestoreEndsBased ==
  ASSUME TypeInv, BaseInv, RestoreEnds  PROVE BaseInv'
<1>1. at.rec \in RunRecord  BY DEF RestoreEnds, TypeInv, HandlerInv, Idle
<1>2. /\ \E s \in SaveRun(at.r, RolledBack) : journals' = s.journals
      /\ runs' = With(runs, at.r, RolledBack) /\ at' = Stopped
  BY DEF RestoreEnds
<1>3. RolledBack.status # "running"  BY <1>1 DEF RolledBack, RunRecord
<1> QED BY <1>2, <1>3, RunEndsBased

LEMMA RollbackRunBased ==
  ASSUME TypeInv, BaseInv, NEW r \in RunIds, RollbackRun(r)  PROVE BaseInv'
<1>1. at \in Handler /\ RollingBack(LoadRun(r), r, FALSE) /\ UNCHANGED <<runs, journals>>
  BY DEF RollbackRun, TypeInv, HandlerInv
<1>2. at'.pc = "restore"  BY <1>1 DEF RollingBack, Handler
<1> QED BY <1>1, <1>2 DEF BaseInv, Working

LEMMA ResumeRunBased ==
  ASSUME TypeInv, BaseInv, NEW r \in RunIds, ResumeRun(r)  PROVE BaseInv'
<1> DEFINE old == LoadRun(r)
           rec == FromBaseline(old)
<1>1. /\ r \in Known /\ UNCHANGED journals /\ runs' = With(runs, r, rec)
      /\ at' = [Stopped EXCEPT !.pc = "step", !.r = r, !.rec = rec]
  BY DEF ResumeRun
<1>2. Based(old) /\ old \in RunRecord
  BY <1>1, LoadedRun DEF BaseInv, Known, LoadRun, Sound
<1>7. old.assets # << >>  BY DEF ResumeRun, CanResume
<1> HIDE DEF old
<1> DEFINE assets == [a \in Assets |-> [old.assets[a] EXCEPT !.undo = mem[a]]]
<1>3. rec.assets = assets /\ rec.avail = old.avail /\ rec.status = old.status
  BY <1>2 DEF FromBaseline, Reopened, RunRecord
<1>6. \A a \in Assets : /\ assets[a].pkgCur = old.assets[a].pkgCur
                        /\ assets[a].snapshot = old.assets[a].snapshot
  <2>1. old.assets \in [Assets -> AssetRecord]  BY <1>2, <1>7 DEF RunRecord
  <2> QED BY <2>1 DEF AssetRecord
<1> HIDE DEF rec, assets
<1>4. Based(rec)  BY <1>2, <1>3, <1>6, <1>7, SameBased
<1>5. at'.rec = rec  BY ONLY <1>1 DEF Stopped
<1> QED BY <1>1, <1>4, <1>5, RecordsBased

LEMMA GetStatusBased ==
  ASSUME TypeInv, BaseInv, NEW r \in RunIds, GetStatus(r)  PROVE BaseInv'
<1> DEFINE blocked == [LoadRun(r) EXCEPT !.status = "blocked", !.verified = FALSE]
<1>1. Idle /\ r \in Known /\ UNCHANGED at  BY DEF GetStatus
<1>2. PICK s \in SaveRun(r, blocked) :
        /\ journals' = s.journals
        /\ runs' = IF s.ok THEN With(runs, r, blocked) ELSE runs
  BY DEF GetStatus
<1>3. blocked.status = "blocked"
  <2>1. LoadRun(r) \in RunRecord  BY <1>1, LoadedRun DEF Sound
  <2> QED BY <2>1 DEF RunRecord
<1> HIDE DEF blocked
<1>4. runs' = runs \/ runs' = With(runs, r, blocked)  BY <1>2
<1>5. ~Working'  BY <1>1 DEF Working, Idle
<1>6. Based(blocked)  BY <1>3, EndedBased
<1> QED BY <1>2, <1>4, <1>5, <1>6, RecordsBased

LEMMA BaseStep == TypeInv /\ MadeInv /\ BaseInv /\ [Next]_vars => BaseInv'
<1> SUFFICES ASSUME TypeInv, MadeInv, BaseInv, [Next]_vars  PROVE BaseInv'
  OBVIOUS
<1>1. CASE UNCHANGED vars  BY <1>1 DEF vars, BaseInv, Working
<1>2. CASE Works
  <2>1. UNCHANGED <<runs, journals>>  BY <1>2, WorkKeeps
  <2> QED BY <1>2, <2>1, WorkBased DEF BaseInv
<1>3. ASSUME NEW a \in Assets, UserEdits(a) \/ UserSaves(a)  PROVE BaseInv'
  BY <1>3 DEF UserEdits, UserSaves, BaseInv, Working
<1>4. CASE Crash
  <2>1. DOMAIN runs' = {} /\ UNCHANGED journals /\ ~Working'
    BY <1>4 DEF Crash, Working, Stopped
  <2> QED BY <2>1 DEF BaseInv
<1>5. CASE SaveEnds  BY <1>5, CompletedBased DEF SaveEnds, Staged
<1> QED
  BY <1>1, <1>2, <1>3, <1>4, <1>5, ExecuteBased, StageBased, CheckpointBased, StepsEndBased,
     RestoreEndsBased, RollbackRunBased, ResumeRunBased, GetStatusBased
  DEF Next, Works

\* An interrupted run whose assets have the packages they had before it, and in memory the
\* structure, with nothing to save, can be rolled back: InterruptedRunRecovers fails in no
\* other state than one where an asset has something else, in memory or in its package.
AtBaseline(rec) ==
  \A a \in Assets : /\ a \notin dirty /\ SameStructure(mem[a], rec.assets[a].before)
                    /\ pkg[a] = rec.assets[a].snapshot
BaselineRollsBack ==
  Idle =>
    \A r \in Known :
      LET rec == LoadRun(r) IN
      rec.status = "running" /\ rec.assets # << >> /\ AtBaseline(rec) => CanRollback(rec)

\* A run that an Editor left in the middle of its plan does not get stuck as long as its
\* packages are the baseline: the rollback that the next Editor offers is not refused,
\* whatever happened to the checkpoints of the run.
THEOREM LeftRunsRollBack == Spec => []BaselineRollsBack
<1>1. Init => BaseInv  BY DEF Init, BaseInv, Working, Stopped
<1>2. TypeInv /\ BaseInv => BaselineRollsBack
  <2> SUFFICES ASSUME TypeInv, BaseInv, NEW r \in Known, LoadRun(r).status = "running",
                      LoadRun(r).assets # << >>, AtBaseline(LoadRun(r))
               PROVE  CanRollback(LoadRun(r))
    BY DEF BaselineRollsBack
  <2>1. Based(LoadRun(r))  BY DEF BaseInv, Known, LoadRun
  <2> QED BY <2>1 DEF Based, AtBaseline, CanRollback
<1> QED BY <1>1, <1>2, BaseStep, MadeAlways, TypesAlways, PTL DEF Spec
=============================================================================
