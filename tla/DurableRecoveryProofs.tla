------------------------ MODULE DurableRecoveryProofs ------------------------
(***************************************************************************)
(* Theorems about DurableRecovery, for every set of change sets and files.  *)
(***************************************************************************)
EXTENDS DurableRecovery, SequenceTheorems, TLAPS

---------------------------------------------------------------------------
(* The inductive invariant.                                                *)

\* The files of c are as recorded, whether they can be read or not.
AsRecorded(c, recorded) == \A f \in Covered(c) : disk[f] = recorded[f]

\* A handler at a change works on a manifest that is not sealed yet, and one at a
\* rollback on a manifest that is not rolled back; every file it has to do with is
\* as before or as sealed, and those it is through with are as before.
HandlerInv ==
  /\ handler.at = "change" => manifest[handler.set].status = "prepared"
  /\ handler.at = "rollback" =>
       /\ manifest[handler.set].status \in {"prepared", "sealed"}
       /\ \A f \in Covered(handler.set) :
            disk[f] \in {manifest[handler.set].before[f], manifest[handler.set].after[f]}
       /\ \A f \in Covered(handler.set) \ Range(handler.left) :
            disk[f] = manifest[handler.set].before[f]
       /\ Range(handler.left) \subseteq Covered(handler.set)
       /\ Len(handler.left) <= Len(FilesOf[handler.set])
       /\ Len(handler.left) = Len(FilesOf[handler.set]) =>
            AsRecorded(handler.set, manifest[handler.set].after)

\* The snapshots are the files as they were.
SnapshotsInv == \A c \in ChangeSets : Recorded(c) => manifest[c].before = original[c]

\* A sealed change set nobody else touched, and no rollback of which is under way or
\* was broken off between two files, is as sealed or as before.
WholeInv ==
  \A c \in ChangeSets :
    manifest[c].status = "sealed" /\ touched[c] = {} /\ c \notin halfway /\ ~RollingBack(c) =>
      AsRecorded(c, manifest[c].after) \/ AsRecorded(c, manifest[c].before)

DurableInv == TypeOK /\ HandlerInv /\ SnapshotsInv /\ RolledBackStays /\ WholeInv

USE RecoveryAssumption

---------------------------------------------------------------------------
(* Facts the steps share.                                                  *)

LEMMA CoveredFiles ==
  ASSUME NEW c \in ChangeSets
  PROVE  Covered(c) \subseteq Files
BY DEF Covered, Range

\* The first of the files left, and the rest.
LEMMA LeftFiles ==
  ASSUME NEW q \in Seq(Files), q # << >>
  PROVE  /\ Head(q) \in Files /\ Tail(q) \in Seq(Files) /\ Len(Tail(q)) = Len(q) - 1
         /\ Len(q) \in Nat \ {0} /\ Head(q) \in Range(q)
         /\ Range(q) = Range(Tail(q)) \cup {Head(q)}
<1>1. /\ Head(q) \in Files /\ Tail(q) \in Seq(Files) /\ Len(Tail(q)) = Len(q) - 1
      /\ \A i \in 1..Len(Tail(q)) : Tail(q)[i] = q[i + 1]
  BY HeadTailProperties
<1>2. /\ Len(q) \in Nat \ {0} /\ DOMAIN q = 1..Len(q)
      /\ DOMAIN Tail(q) = 1..Len(Tail(q)) /\ Head(q) = q[1]
  BY <1>1, EmptySeq, LenProperties
<1>3. Head(q) \in Range(q)  BY <1>2 DEF Range
<1>4. Range(Tail(q)) \subseteq Range(q)  BY <1>1, <1>2 DEF Range
<1>5. ASSUME NEW x \in Range(q)  PROVE x \in Range(Tail(q)) \cup {Head(q)}
  <2>1. PICK i \in 1..Len(q) : x = q[i]  BY <1>2 DEF Range
  <2>2. CASE i = 1  BY <1>2, <2>1, <2>2
  <2>3. CASE i # 1
    <3>1. i - 1 \in 1..Len(Tail(q)) /\ Tail(q)[i - 1] = q[i]  BY <1>1, <1>2, <2>3
    <3> QED BY <1>2, <2>1, <3>1 DEF Range
  <2> QED BY <2>2, <2>3
<1> QED BY <1>1, <1>2, <1>3, <1>4, <1>5

\* Put changes one file, and marks it touched for every other recorded change set.
LEMMA PutFile ==
  ASSUME TypeOK, NEW f \in Files, NEW content \in Contents, NEW by, Put(f, content, by)
  PROVE  /\ disk' \in [Files -> Contents] /\ touched' \in [ChangeSets -> SUBSET Files]
         /\ disk'[f] = content /\ \A g \in Files : g # f => disk'[g] = disk[g]
         /\ \A c \in ChangeSets : touched[c] \subseteq touched'[c]
         /\ \A c \in ChangeSets :
              Recorded(c) /\ f \in Covered(c) /\ c # by /\ disk'[f] # disk[f] =>
                f \in touched'[c]
BY DEF Put, TypeOK

\* A step that puts a file keeps RolledBackStays, if the change set it works for is
\* not rolled back.
LEMMA PutKeepsRolledBack ==
  ASSUME DurableInv, NEW f \in Files, NEW content \in Contents, NEW by,
         Put(f, content, by), UNCHANGED <<manifest, original>>,
         by \in ChangeSets => manifest[by].status # "rolledBack"
  PROVE  RolledBackStays'
<1> SUFFICES ASSUME NEW c \in ChangeSets, manifest[c].status = "rolledBack",
                    NEW g \in Covered(c) \ touched'[c]
             PROVE  disk'[g] = original[c][g]
  BY DEF RolledBackStays
<1>1. TypeOK /\ RolledBackStays  BY DEF DurableInv
<1>2. g \in Files  BY CoveredFiles
<1>3. g \notin touched[c]  BY <1>1, PutFile
<1>4. disk'[g] = disk[g]
  <2>1. CASE g = f
    <3>1. Recorded(c) /\ c # by  BY DEF Recorded
    <3> QED BY <1>1, <2>1, <3>1, PutFile
  <2>2. CASE g # f  BY <1>1, <1>2, <2>2, PutFile
  <2> QED BY <2>1, <2>2
<1> QED BY <1>1, <1>3, <1>4 DEF RolledBackStays

---------------------------------------------------------------------------
(* Type correctness.                                                       *)

\* The parts of TypeOK.
ManifestsOK ==
  /\ DOMAIN manifest = ChangeSets
  /\ \A c \in ChangeSets : manifest[c] \in ManifestsOf(c)
OriginalsOK ==
  /\ DOMAIN original = {c \in ChangeSets : Recorded(c)}
  /\ \A c \in DOMAIN original : original[c] \in [Covered(c) -> Contents]
AnswersOK ==
  answer = NoAnswer \/ answer \in
    [kind : {"alreadyRolledBack", "conflict", "failed", "rolledBack"}, set : ChangeSets]
WorldOK == hindered \subseteq ChangeSets /\ locked \subseteq Files
FilesOK == disk \in [Files -> Contents] /\ touched \in [ChangeSets -> SUBSET Files]

\* A manifest replaced by another one of its change set.
LEMMA ManifestReplaced ==
  ASSUME ManifestsOK, NEW c \in ChangeSets, NEW m \in ManifestsOf(c),
         manifest' = [manifest EXCEPT ![c] = m]
  PROVE  ManifestsOK'
BY DEF ManifestsOK, ManifestsOf

\* A manifest that gets another status.
LEMMA StatusReplaced ==
  ASSUME ManifestsOK, NEW c \in ChangeSets, Recorded(c),
         NEW status \in {"prepared", "sealed", "rolledBack"},
         NEW after \in [Covered(c) -> Contents]
  PROVE  /\ [manifest[c] EXCEPT !.status = status] \in ManifestsOf(c)
         /\ [manifest[c] EXCEPT !.status = status, !.after = after] \in ManifestsOf(c)
<1> DEFINE M == [status : {"prepared", "sealed", "rolledBack"},
                 before : [Covered(c) -> Contents], after : [Covered(c) -> Contents]]
<1>1. manifest[c] \in M  BY DEF ManifestsOK, ManifestsOf, Recorded, NoManifest
<1>2. \A m \in M : /\ [m EXCEPT !.status = status] \in M
                    /\ [m EXCEPT !.status = status, !.after = after] \in M
  OBVIOUS
<1>3. M \subseteq ManifestsOf(c)  BY DEF ManifestsOf
<1> HIDE DEF M
<1> QED BY <1>1, <1>2, <1>3

\* What a recorded manifest holds.
LEMMA ManifestFields ==
  ASSUME ManifestsOK, NEW c \in ChangeSets, Recorded(c)
  PROVE  /\ manifest[c].status \in {"prepared", "sealed", "rolledBack"}
         /\ manifest[c].before \in [Covered(c) -> Contents]
         /\ manifest[c].after \in [Covered(c) -> Contents]
<1>1. manifest[c] \in ManifestsOf(c)  BY DEF ManifestsOK
<1> QED BY <1>1 DEF ManifestsOf, Recorded, NoManifest

\* The files of a change set as they are now.
LEMMA SnapshotType ==
  ASSUME disk \in [Files -> Contents], NEW c \in ChangeSets
  PROVE  Restrict(disk, Covered(c)) \in [Covered(c) -> Contents]
BY CoveredFiles DEF Restrict

\* The handler, by what it does.
LEMMA HandlerFields ==
  ASSUME TypeOK
  PROVE  /\ handler.at \in {"idle", "change", "rollback"}
         /\ handler.at # "idle" => handler.set \in ChangeSets
         /\ handler.at = "rollback" =>
              /\ handler.left \in Seq(Files)
              /\ handler = [at |-> "rollback", set |-> handler.set, left |-> handler.left]
         /\ handler.at = "idle" => handler = Idle
<1>1. CASE handler = Idle  BY <1>1 DEF Idle
<1>2. CASE handler \in [at : {"change"}, set : ChangeSets]  BY <1>2
<1>3. CASE handler \in [at : {"rollback"}, set : ChangeSets, left : Seq(Files)]  BY <1>3
<1> QED BY <1>1, <1>2, <1>3 DEF TypeOK, Handlers

\* What a rollback step knows of its change set.
LEMMA RollbackFacts ==
  ASSUME TypeOK, HandlerInv, NEW c \in ChangeSets, RollingBack(c)
  PROVE  /\ manifest[c].status \in {"prepared", "sealed"} /\ Recorded(c)
         /\ manifest[c].before \in [Covered(c) -> Contents]
         /\ handler.left \in Seq(Files)
<1>1. manifest[c].status \in {"prepared", "sealed"} /\ Recorded(c)
  BY DEF RollingBack, HandlerInv, Recorded
<1>2. handler.left \in Seq(Files)  BY HandlerFields DEF RollingBack
<1> QED BY <1>1, <1>2, ManifestFields DEF TypeOK, ManifestsOK

\* A file is in its place: one step of Restore as a Put.
LEMMA RestorePuts ==
  ASSUME TypeOK, HandlerInv, NEW c \in ChangeSets, Restore(c)
  PROVE  /\ Head(Left) \in Files /\ Head(Left) \in Covered(c)
         /\ manifest[c].before[Head(Left)] \in Contents
         /\ Put(Head(Left), manifest[c].before[Head(Left)], c)
<1>1. handler.left \in Seq(Files) /\ handler.left # << >> /\ handler.set = c
      /\ manifest[c].before \in [Covered(c) -> Contents]
      /\ Put(Head(Left), manifest[c].before[Head(Left)], c)
  BY RollbackFacts DEF Restore, RollingBack, Left
<1>2. Head(Left) \in Files /\ Head(Left) \in Range(Left)  BY <1>1, LeftFiles DEF Left
<1>3. Head(Left) \in Covered(c)
  BY <1>1, <1>2 DEF HandlerInv, Restore, RollingBack, Left
<1> QED BY <1>1, <1>2, <1>3

\* A file a handler writes.
LEMMA WritePuts ==
  ASSUME TypeOK, HandlerInv, NEW c \in ChangeSets, NEW f \in Files, Write(c, f)
  PROVE  /\ manifest[c].status = "prepared" /\ handler.at = "change" /\ handler.set = c
         /\ \E content \in Contents : Put(f, content, c)
<1>1. handler.at = "change" /\ handler.set = c /\ f \in Covered(c)  BY DEF Write
<1>2. manifest[c].status = "prepared"  BY <1>1 DEF HandlerInv
<1>3. Recorded(c)  BY <1>2 DEF Recorded
<1>4. original[c][f] \in Contents  BY <1>1, <1>3 DEF TypeOK
<1>5. {c, Absent, original[c][f]} \subseteq Contents  BY <1>4 DEF Contents
<1> QED BY <1>1, <1>2, <1>5 DEF Write

LEMMA EditPuts ==
  ASSUME NEW f \in Files, Edit(f)
  PROVE  \E content \in Contents : Put(f, content, Absent)
BY DEF Edit, Contents

\* A rollback that ends, by a crash or an error, leaves a set of change sets.
LEMMA StrandedSets ==
  ASSUME TypeOK, NEW c \in ChangeSets
  PROVE  Stranded(c) \subseteq ChangeSets
BY DEF TypeOK, Stranded

LEMMA TypeInductive ==
  ASSUME TypeOK, HandlerInv, Next
  PROVE  TypeOK'
<1>0. /\ FilesOK /\ ManifestsOK /\ handler \in Handlers /\ AnswersOK
      /\ edits \in 0..MaxEdits /\ OriginalsOK /\ halfway \subseteq ChangeSets /\ WorldOK
  BY DEF TypeOK, FilesOK, ManifestsOK, AnswersOK, OriginalsOK, WorldOK
<1>1. ASSUME FilesOK', ManifestsOK', handler' \in Handlers, AnswersOK', WorldOK',
             edits' \in 0..MaxEdits, OriginalsOK', halfway' \subseteq ChangeSets
      PROVE  TypeOK'
  BY <1>1 DEF TypeOK, FilesOK, ManifestsOK, AnswersOK, OriginalsOK, WorldOK
<1>2. UNCHANGED <<disk, touched>> => FilesOK'  BY <1>0 DEF FilesOK
<1>3. UNCHANGED manifest => ManifestsOK'  BY <1>0 DEF ManifestsOK
<1>4. /\ answer' = NoAnswer => AnswersOK'
      /\ UNCHANGED world => WorldOK'
  BY <1>0 DEF AnswersOK, WorldOK, world
<1>5. \A c \in ChangeSets :
        \A kind \in {"alreadyRolledBack", "conflict", "failed", "rolledBack"} :
          Answered(c, kind) => AnswersOK'
  BY DEF Answered, AnswersOK
<1>6. ASSUME UNCHANGED original, \A c \in ChangeSets : Recorded(c)' = Recorded(c)
      PROVE  OriginalsOK'
  BY <1>0, <1>6 DEF OriginalsOK
<1>7. UNCHANGED <<original, manifest>> => OriginalsOK'  BY <1>0 DEF OriginalsOK, Recorded
<1>8. Idle \in Handlers  BY DEF Handlers
<1>9. ASSUME NEW c \in ChangeSets, Prepare(c)  PROVE TypeOK'
  <2> DEFINE m == [status |-> "prepared", before |-> Snapshot(c),
                   after |-> [f \in Covered(c) |-> Absent]]
  <2>1. Snapshot(c) \in [Covered(c) -> Contents]  BY <1>0, SnapshotType DEF FilesOK, Snapshot
  <2>2. m \in ManifestsOf(c)  BY <2>1 DEF ManifestsOf, Contents
  <2>3. manifest' = [manifest EXCEPT ![c] = m]  BY <1>9 DEF Prepare
  <2>4. ManifestsOK'
    <3> HIDE DEF m
    <3> QED BY <1>0, <2>2, <2>3, ManifestReplaced
  <2>5. \A d \in ChangeSets : Recorded(d)' <=> d = c \/ Recorded(d)
    BY <1>0, <2>3 DEF Recorded, ManifestsOK
  <2>6. /\ DOMAIN original' = DOMAIN original \cup {c}
        /\ original'[c] = Snapshot(c)
        /\ \A d \in DOMAIN original : d # c => original'[d] = original[d]
    BY <1>9 DEF Prepare, Snapshot
  <2>7. OriginalsOK'  BY <1>0, <2>1, <2>5, <2>6 DEF OriginalsOK
  <2>8. handler' \in Handlers  BY <1>9 DEF Prepare, Handlers
  <2> QED BY <1>0, <1>1, <1>2, <1>4, <1>9, <2>4, <2>7, <2>8 DEF Prepare
<1>10. ASSUME NEW c \in ChangeSets, Seal(c)  PROVE TypeOK'
  <2>1. Recorded(c)  BY <1>10 DEF Seal, HandlerInv, Recorded
  <2>2. Hashed(c) \in [Covered(c) -> Contents]  BY <1>0, SnapshotType DEF FilesOK, Hashed
  <2>3. manifest' = [manifest EXCEPT ![c] = [@ EXCEPT !.status = "sealed", !.after = Hashed(c)]]
    BY <1>10 DEF Seal
  <2>4. [manifest[c] EXCEPT !.status = "sealed", !.after = Hashed(c)] \in ManifestsOf(c)
    BY <1>0, <2>1, <2>2, StatusReplaced
  <2>5. ManifestsOK'  BY <1>0, <2>3, <2>4, ManifestReplaced
  <2>6. manifest[c] \in ManifestsOf(c) /\ manifest'[c].status = "sealed"
        /\ \A d \in ChangeSets : d # c => manifest'[d] = manifest[d]
    BY <1>0, <2>1, <2>3 DEF ManifestsOK, ManifestsOf, Recorded, NoManifest
  <2>7. OriginalsOK'  BY <1>6, <1>10, <2>1, <2>6 DEF Seal, history, Recorded
  <2> QED BY <1>0, <1>1, <1>2, <1>4, <1>8, <1>10, <2>5, <2>7 DEF Seal, history
<1>11. ASSUME NEW c \in ChangeSets, LeaveUnsealed(c)  PROVE TypeOK'
  BY <1>0, <1>1, <1>2, <1>3, <1>4, <1>7, <1>8, <1>11 DEF LeaveUnsealed, history
<1>12. ASSUME NEW c \in ChangeSets, NEW f \in Files, Write(c, f)  PROVE TypeOK'
  <2>1. FilesOK'  BY <1>12, WritePuts, PutFile DEF FilesOK
  <2> QED BY <1>0, <1>1, <1>3, <1>4, <1>7, <1>12, <2>1 DEF Write
<1>13. ASSUME NEW c \in ChangeSets, AlreadyRolledBack(c) \/ Conflict(c)
       PROVE TypeOK'
  BY <1>0, <1>1, <1>2, <1>3, <1>4, <1>5, <1>7, <1>13
  DEF AlreadyRolledBack, Conflict, history
<1>14. ASSUME NEW c \in ChangeSets, BeginRollback(c)  PROVE TypeOK'
  <2>1. UNCHANGED manifest  BY <1>14 DEF BeginRollback
  <2>2. handler' \in Handlers  BY <1>14 DEF BeginRollback, Handlers
  <2> QED BY <1>0, <1>1, <1>2, <1>3, <1>4, <1>7, <1>14, <2>1, <2>2 DEF BeginRollback, history
<1>15. ASSUME NEW c \in ChangeSets, Restore(c)  PROVE TypeOK'
  <2>1. FilesOK'  BY <1>15, RestorePuts, PutFile DEF FilesOK
  <2>2. handler' \in Handlers
    <3>1. PICK q : q = handler.left  OBVIOUS
    <3>2. q \in Seq(Files) /\ q # << >>
          /\ handler = [at |-> "rollback", set |-> c, left |-> q]
      BY <1>15, <3>1, HandlerFields DEF Restore, RollingBack, Left
    <3>3. Tail(q) \in Seq(Files)
      <4>1. q \in Seq(Files) /\ q # << >>  BY <3>2
      <4> QED BY <4>1, LeftFiles
    <3>4. handler' = [at |-> "rollback", set |-> c, left |-> Tail(q)]
      <4>1. handler' = [handler EXCEPT !.left = Tail(q)]  BY <1>15, <3>1 DEF Restore, Left
      <4>2. handler = [at |-> "rollback", set |-> c, left |-> q]  BY <3>2
      <4> QED BY <4>1, <4>2
    <3> QED BY <3>3, <3>4 DEF Handlers
  <2> QED BY <1>0, <1>1, <1>3, <1>4, <1>7, <1>15, <2>1, <2>2 DEF Restore
<1>16. ASSUME NEW c \in ChangeSets, RollbackFails(c)  PROVE TypeOK'
  BY <1>0, <1>1, <1>2, <1>3, <1>4, <1>5, <1>7, <1>8, <1>16, StrandedSets DEF RollbackFails
<1>17. ASSUME NEW c \in ChangeSets, Publish(c)  PROVE TypeOK'
  <2>1. Recorded(c)  BY <1>17, RollbackFacts DEF Publish
  <2>2. manifest' = [manifest EXCEPT ![c] = [@ EXCEPT !.status = "rolledBack"]]
    BY <1>17 DEF Publish
  <2>3. manifest[c].after \in [Covered(c) -> Contents]  BY <1>0, <2>1, ManifestFields
  <2>4. [manifest[c] EXCEPT !.status = "rolledBack"] \in ManifestsOf(c)
    BY <1>0, <2>1, <2>3, StatusReplaced
  <2>5. ManifestsOK'  BY <1>0, <2>2, <2>4, ManifestReplaced
  <2>6. manifest'[c].status = "rolledBack"
        /\ \A d \in ChangeSets : d # c => manifest'[d] = manifest[d]
    BY <1>0, <2>1, <2>2 DEF ManifestsOK, ManifestsOf, Recorded, NoManifest
  <2>7. OriginalsOK'  BY <1>6, <1>17, <2>1, <2>6 DEF Publish, Recorded
  <2>8. FilesOK'  BY <1>0, <1>17 DEF Publish, FilesOK
  <2> QED BY <1>0, <1>1, <1>4, <1>5, <1>8, <1>17, <2>5, <2>7, <2>8 DEF Publish
<1>18. CASE Crash
  <2>1. halfway' \subseteq ChangeSets
    BY <1>0, <1>18, HandlerFields, StrandedSets DEF Crash
  <2> QED BY <1>0, <1>1, <1>2, <1>3, <1>4, <1>7, <1>8, <1>18, <2>1 DEF Crash
<1>19. ASSUME NEW f \in Files, Edit(f)  PROVE TypeOK'
  <2>1. FilesOK'  BY <1>19, EditPuts, PutFile DEF FilesOK
  <2>2. edits' \in 0..MaxEdits  BY <1>0, <1>19 DEF Edit
  <2> QED BY <1>0, <1>1, <1>3, <1>4, <1>7, <1>19, <2>1, <2>2 DEF Edit
<1>20. ASSUME \/ \E c \in ChangeSets : Hinder(c)
              \/ \E f \in Files : Lock(f)
       PROVE  TypeOK'
  <2>1. WorldOK'  BY <1>0, <1>20 DEF Hinder, Lock, WorldOK
  <2> QED BY <1>0, <1>1, <1>2, <1>3, <1>4, <1>7, <1>20, <2>1 DEF Hinder, Lock, history
<1> QED
  BY <1>9, <1>10, <1>11, <1>12, <1>13, <1>14, <1>15, <1>16, <1>17, <1>18, <1>19, <1>20
  DEF Next

---------------------------------------------------------------------------
(* The other parts of the invariant.                                       *)

\* What sealing and publishing leave of the manifests.
LEMMA ManifestSteps ==
  ASSUME TypeOK, HandlerInv, NEW c \in ChangeSets
  PROVE  /\ Prepare(c) => /\ manifest'[c].status = "prepared"
                          /\ manifest'[c].before = Restrict(disk, Covered(c))
                          /\ \A d \in ChangeSets : d # c => manifest'[d] = manifest[d]
         /\ Seal(c) => /\ manifest[c].status = "prepared"
                       /\ manifest'[c].status = "sealed"
                       /\ manifest'[c].before = manifest[c].before
                       /\ manifest'[c].after = Restrict(disk, Covered(c))
                       /\ \A d \in ChangeSets : d # c => manifest'[d] = manifest[d]
         /\ Publish(c) => /\ manifest'[c].status = "rolledBack"
                          /\ manifest'[c].before = manifest[c].before
                          /\ \A d \in ChangeSets : d # c => manifest'[d] = manifest[d]
<1>0. ManifestsOK  BY DEF TypeOK, ManifestsOK
<1>1. Prepare(c) => /\ manifest'[c].status = "prepared"
                    /\ manifest'[c].before = Restrict(disk, Covered(c))
                    /\ \A d \in ChangeSets : d # c => manifest'[d] = manifest[d]
  BY <1>0 DEF Prepare, Snapshot, ManifestsOK
<1>2. ASSUME Recorded(c)
      PROVE  \A status, after :
               /\ [manifest[c] EXCEPT !.status = status].status = status
               /\ [manifest[c] EXCEPT !.status = status].before = manifest[c].before
               /\ [manifest[c] EXCEPT !.status = status, !.after = after].status = status
               /\ [manifest[c] EXCEPT !.status = status, !.after = after].after = after
               /\ [manifest[c] EXCEPT !.status = status, !.after = after].before
                    = manifest[c].before
  BY <1>0, <1>2 DEF ManifestsOK, ManifestsOf, Recorded, NoManifest
<1>3. ASSUME Seal(c)
      PROVE  /\ manifest[c].status = "prepared"
             /\ manifest'[c].status = "sealed"
             /\ manifest'[c].before = manifest[c].before
             /\ manifest'[c].after = Restrict(disk, Covered(c))
             /\ \A d \in ChangeSets : d # c => manifest'[d] = manifest[d]
  <2>1. manifest[c].status = "prepared" /\ Recorded(c)
    BY <1>3 DEF Seal, HandlerInv, Recorded
  <2>2. manifest' = [manifest EXCEPT ![c] =
                       [manifest[c] EXCEPT !.status = "sealed", !.after = Hashed(c)]]
    BY <1>3 DEF Seal
  <2> QED BY <1>0, <1>2, <2>1, <2>2 DEF ManifestsOK, Hashed
<1>4. ASSUME Publish(c)
      PROVE  /\ manifest'[c].status = "rolledBack"
             /\ manifest'[c].before = manifest[c].before
             /\ \A d \in ChangeSets : d # c => manifest'[d] = manifest[d]
  <2>1. Recorded(c)  BY <1>4, RollbackFacts DEF Publish
  <2>2. manifest' = [manifest EXCEPT ![c] = [manifest[c] EXCEPT !.status = "rolledBack"]]
    BY <1>4 DEF Publish
  <2> QED BY <1>0, <1>2, <2>1, <2>2 DEF ManifestsOK
<1> QED BY <1>1, <1>3, <1>4

LEMMA HandlerInductive ==
  ASSUME TypeOK, HandlerInv, Next
  PROVE  HandlerInv'
<1>0. handler' = Idle => HandlerInv'  BY DEF HandlerInv, Idle
<1>1. ASSUME UNCHANGED <<disk, manifest, handler>>  PROVE HandlerInv'
  BY <1>1 DEF HandlerInv, AsRecorded
<1>2. ASSUME NEW c \in ChangeSets, Prepare(c)  PROVE HandlerInv'
  <2>1. manifest'[c].status = "prepared"  BY <1>2, ManifestSteps
  <2>2. handler' = [at |-> "change", set |-> c]  BY <1>2 DEF Prepare
  <2> QED BY <2>1, <2>2 DEF HandlerInv
<1>3. ASSUME NEW c \in ChangeSets,
             Seal(c) \/ LeaveUnsealed(c) \/ RollbackFails(c) \/ Publish(c)
      PROVE HandlerInv'
  BY <1>0, <1>3 DEF Seal, LeaveUnsealed, RollbackFails, Publish
<1>4. ASSUME NEW c \in ChangeSets, NEW f \in Files, Write(c, f)  PROVE HandlerInv'
  BY <1>4 DEF Write, HandlerInv
<1>5. ASSUME NEW c \in ChangeSets, AlreadyRolledBack(c) \/ Conflict(c)
      PROVE HandlerInv'
  BY <1>1, <1>5 DEF AlreadyRolledBack, Conflict
<1>6. ASSUME NEW c \in ChangeSets, BeginRollback(c)  PROVE HandlerInv'
  <2>1. UNCHANGED <<disk, manifest>>  BY <1>6 DEF BeginRollback
  <2>2. handler' = [at |-> "rollback", set |-> c, left |-> FilesOf[c]]
    BY <1>6 DEF BeginRollback
  <2>3. Recorded(c) /\ manifest[c].status # "rolledBack" /\ SealHolds(c)
    BY <1>6 DEF BeginRollback, ToUndo, RecordedAsRolledBack
  <2>4. manifest[c].status \in {"prepared", "sealed"}
    BY <2>3, ManifestFields DEF TypeOK, ManifestsOK
  <2>5. \A f \in Covered(c) : disk[f] = manifest[c].after[f]
    BY <2>3 DEF SealHolds, Matches
  <2>6. handler'.at = "rollback" /\ handler'.set = c /\ handler'.left = FilesOf[c]
    BY <2>2
  <2>7. Range(FilesOf[c]) = Covered(c)  BY DEF Covered
  <2>8. AsRecorded(c, manifest[c].after)'  BY <2>1, <2>5 DEF AsRecorded
  <2>9. Len(FilesOf[c]) \in Nat  BY LenProperties
  <2> QED BY <2>1, <2>4, <2>5, <2>6, <2>7, <2>8, <2>9 DEF HandlerInv
<1>7. ASSUME NEW c \in ChangeSets, Restore(c)  PROVE HandlerInv'
  <2>0. PICK q : q = handler.left  OBVIOUS
  <2>1. q \in Seq(Files) /\ q # << >> /\ handler.at = "rollback" /\ handler.set = c
    BY <1>7, <2>0, HandlerFields DEF Restore, RollingBack, Left
  <2>2. PICK f : f = Head(q)  OBVIOUS
  <2>3. /\ f \in Files /\ Tail(q) \in Seq(Files) /\ Len(Tail(q)) = Len(q) - 1
        /\ Len(q) \in Nat \ {0} /\ f \in Range(q) /\ Range(q) = Range(Tail(q)) \cup {f}
    BY <2>1, <2>2, LeftFiles
  <2>4. handler'.at = "rollback" /\ handler'.set = c /\ handler'.left = Tail(q)
    <3>1. handler' = [handler EXCEPT !.left = Tail(q)]  BY <1>7, <2>0 DEF Restore, Left
    <3>2. handler = [at |-> "rollback", set |-> c, left |-> q]
      BY <2>0, <2>1, HandlerFields
    <3> QED BY <3>1, <3>2
  <2>5. /\ f \in Covered(c) /\ manifest[c].before[f] \in Contents
        /\ Put(f, manifest[c].before[f], c)
    BY <1>7, <2>0, <2>2, RestorePuts DEF Left
  <2>6. disk'[f] = manifest[c].before[f] /\ \A g \in Files : g # f => disk'[g] = disk[g]
    BY <2>3, <2>5, PutFile
  <2>7. manifest' = manifest  BY <1>7 DEF Restore
  <2>8. /\ manifest[c].status \in {"prepared", "sealed"}
        /\ \A g \in Covered(c) : disk[g] \in {manifest[c].before[g], manifest[c].after[g]}
        /\ \A g \in Covered(c) \ Range(q) : disk[g] = manifest[c].before[g]
        /\ Range(q) \subseteq Covered(c)
        /\ Len(q) <= Len(FilesOf[c])
    BY <2>0, <2>1 DEF HandlerInv
  <2>9. \A g \in Covered(c) : disk'[g] \in {manifest[c].before[g], manifest[c].after[g]}
    BY <2>6, <2>8, CoveredFiles
  <2>10. \A g \in Covered(c) \ Range(Tail(q)) : disk'[g] = manifest[c].before[g]
    BY <2>3, <2>6, <2>8, CoveredFiles
  <2>11. Len(FilesOf[c]) \in Nat  BY LenProperties
  <2>12. Len(Tail(q)) <= Len(FilesOf[c]) /\ Len(Tail(q)) # Len(FilesOf[c])
    <3>1. Len(Tail(q)) = Len(q) - 1 /\ Len(q) \in Nat  BY <2>3
    <3>2. Len(q) <= Len(FilesOf[c])  BY <2>8
    <3> HIDE RecoveryAssumption
    <3> QED BY <2>11, <3>1, <3>2
  <2>13. Range(Tail(q)) \subseteq Covered(c)  BY <2>3, <2>8
  <2> QED BY <2>4, <2>7, <2>8, <2>9, <2>10, <2>12, <2>13 DEF HandlerInv
<1>8. CASE Crash  BY <1>0, <1>8 DEF Crash
<1>9. ASSUME NEW f \in Files, Edit(f)  PROVE HandlerInv'
  BY <1>0, <1>9 DEF Edit
<1>10. ASSUME (\E c \in ChangeSets : Hinder(c)) \/ (\E f \in Files : Lock(f))
       PROVE  HandlerInv'
  BY <1>1, <1>10 DEF Hinder, Lock
<1> QED BY <1>2, <1>3, <1>4, <1>5, <1>6, <1>7, <1>8, <1>9, <1>10 DEF Next

LEMMA SnapshotsInductive ==
  ASSUME TypeOK, HandlerInv, SnapshotsInv, Next
  PROVE  SnapshotsInv'
<1>1. ASSUME UNCHANGED <<manifest, original>>  PROVE SnapshotsInv'
  BY <1>1 DEF SnapshotsInv, Recorded
<1>2. ASSUME NEW c \in ChangeSets, Prepare(c)  PROVE SnapshotsInv'
  <2>1. /\ manifest'[c].before = Restrict(disk, Covered(c))
        /\ \A d \in ChangeSets : d # c => manifest'[d] = manifest[d]
    BY <1>2, ManifestSteps
  <2>2. original'[c] = Restrict(disk, Covered(c))
        /\ \A d \in DOMAIN original : d # c => original'[d] = original[d]
    BY <1>2 DEF Prepare
  <2>3. \A d \in ChangeSets : Recorded(d) => d \in DOMAIN original  BY DEF TypeOK
  <2> QED BY <2>1, <2>2, <2>3 DEF SnapshotsInv, Recorded
<1>3. ASSUME NEW c \in ChangeSets, Seal(c) \/ Publish(c)  PROVE SnapshotsInv'
  <2>1. /\ manifest'[c].before = manifest[c].before /\ Recorded(c)
        /\ \A d \in ChangeSets : d # c => manifest'[d] = manifest[d]
    BY <1>3, ManifestSteps, RollbackFacts DEF Publish, Recorded
  <2>2. UNCHANGED original  BY <1>3 DEF Seal, Publish, history
  <2> QED BY <2>1, <2>2 DEF SnapshotsInv, Recorded
<1>4. ASSUME NEW c \in ChangeSets, BeginRollback(c)  PROVE SnapshotsInv'
  BY <1>1, <1>4 DEF BeginRollback, history
<1>5. ASSUME NEW c \in ChangeSets,
             LeaveUnsealed(c) \/ AlreadyRolledBack(c) \/ Conflict(c)
             \/ Restore(c) \/ RollbackFails(c)
      PROVE SnapshotsInv'
  BY <1>1, <1>5 DEF LeaveUnsealed, AlreadyRolledBack, Conflict, Restore,
                    RollbackFails, history
<1>6. ASSUME NEW c \in ChangeSets, NEW f \in Files, Write(c, f)  PROVE SnapshotsInv'
  BY <1>1, <1>6 DEF Write
<1>7. CASE Crash  BY <1>1, <1>7 DEF Crash
<1>8. ASSUME NEW f \in Files, Edit(f)  PROVE SnapshotsInv'  BY <1>1, <1>8 DEF Edit
<1>9. ASSUME (\E c \in ChangeSets : Hinder(c)) \/ (\E f \in Files : Lock(f))
      PROVE  SnapshotsInv'
  BY <1>1, <1>9 DEF Hinder, Lock, history
<1> QED BY <1>2, <1>3, <1>4, <1>5, <1>6, <1>7, <1>8, <1>9 DEF Next

LEMMA RolledBackInductive ==
  ASSUME DurableInv, Next
  PROVE  RolledBackStays'
<1>0. TypeOK /\ HandlerInv /\ SnapshotsInv /\ RolledBackStays  BY DEF DurableInv
<1>1. ASSUME UNCHANGED <<disk, manifest, original, touched>>  PROVE RolledBackStays'
  BY <1>0, <1>1 DEF RolledBackStays
<1>2. ASSUME NEW c \in ChangeSets, Prepare(c)  PROVE RolledBackStays'
  <2>1. /\ manifest'[c].status = "prepared"
        /\ \A d \in ChangeSets : d # c => manifest'[d] = manifest[d]
    BY <1>0, <1>2, ManifestSteps
  <2>2. /\ UNCHANGED <<disk, touched>>
        /\ \A d \in DOMAIN original : d # c => original'[d] = original[d]
    BY <1>2 DEF Prepare
  <2>3. \A d \in ChangeSets : manifest[d].status = "rolledBack" => d \in DOMAIN original
    BY <1>0 DEF TypeOK, Recorded
  <2> QED BY <1>0, <2>1, <2>2, <2>3 DEF RolledBackStays
<1>3. ASSUME NEW c \in ChangeSets, Seal(c)  PROVE RolledBackStays'
  <2>1. /\ manifest'[c].status = "sealed"
        /\ \A d \in ChangeSets : d # c => manifest'[d] = manifest[d]
    BY <1>0, <1>3, ManifestSteps
  <2>2. UNCHANGED <<disk, original, touched>>  BY <1>3 DEF Seal, history
  <2> QED BY <1>0, <2>1, <2>2 DEF RolledBackStays
<1>4. ASSUME NEW c \in ChangeSets, Publish(c)  PROVE RolledBackStays'
  <2>1. \A d \in ChangeSets : d # c => manifest'[d] = manifest[d]
    BY <1>0, <1>4, ManifestSteps
  <2>2. UNCHANGED <<disk, original>> /\ \A d \in ChangeSets : d # c => touched'[d] = touched[d]
    BY <1>0, <1>4 DEF Publish, TypeOK
  <2>3. \A f \in Covered(c) : disk[f] = original[c][f]
    BY <1>0, <1>4, RollbackFacts DEF Publish, Matches, SnapshotsInv
  <2> QED BY <1>0, <2>1, <2>2, <2>3 DEF RolledBackStays
<1>5. ASSUME NEW c \in ChangeSets, NEW f \in Files, Write(c, f)  PROVE RolledBackStays'
  <2>1. PICK content \in Contents : Put(f, content, c)  BY <1>0, <1>5, WritePuts
  <2>2. manifest[c].status # "rolledBack"  BY <1>0, <1>5, WritePuts
  <2>3. UNCHANGED <<manifest, original>>  BY <1>5 DEF Write
  <2> QED BY <2>1, <2>2, <2>3, PutKeepsRolledBack
<1>6. ASSUME NEW c \in ChangeSets, Restore(c)  PROVE RolledBackStays'
  <2>1. PICK f \in Files, content \in Contents : Put(f, content, c)
    BY <1>0, <1>6, RestorePuts
  <2>2. manifest[c].status # "rolledBack"  BY <1>0, <1>6, RollbackFacts DEF Restore
  <2>3. UNCHANGED <<manifest, original>>  BY <1>6 DEF Restore
  <2> QED BY <2>1, <2>2, <2>3, PutKeepsRolledBack
<1>7. ASSUME NEW f \in Files, Edit(f)  PROVE RolledBackStays'
  <2>1. PICK content \in Contents : Put(f, content, Absent)  BY <1>7, EditPuts
  <2>2. Absent \notin ChangeSets  OBVIOUS
  <2>3. UNCHANGED <<manifest, original>>  BY <1>7 DEF Edit
  <2> QED BY <2>1, <2>2, <2>3, PutKeepsRolledBack
<1>8. ASSUME NEW c \in ChangeSets,
             LeaveUnsealed(c) \/ AlreadyRolledBack(c) \/ Conflict(c)
             \/ BeginRollback(c) \/ RollbackFails(c)
      PROVE RolledBackStays'
  BY <1>1, <1>8 DEF LeaveUnsealed, AlreadyRolledBack, Conflict, BeginRollback,
                    RollbackFails, history
<1>9. CASE Crash  BY <1>1, <1>9 DEF Crash
<1>10. ASSUME (\E c \in ChangeSets : Hinder(c)) \/ (\E f \in Files : Lock(f))
       PROVE  RolledBackStays'
  BY <1>1, <1>10 DEF Hinder, Lock, history
<1> QED BY <1>2, <1>3, <1>4, <1>5, <1>6, <1>7, <1>8, <1>9, <1>10 DEF Next

\* A rollback that ends before it is published, and is not counted as broken off, has
\* restored no file or every file.
LEMMA EndedWhole ==
  ASSUME TypeOK, HandlerInv, NEW c \in ChangeSets, RollingBack(c), c \notin Stranded(c)
  PROVE  AsRecorded(c, manifest[c].after) \/ AsRecorded(c, manifest[c].before)
<1>1. handler.at = "rollback" /\ handler.set = c  BY DEF RollingBack
<1>2. Left = << >> \/ Left = FilesOf[c]  BY DEF Stranded
<1>3. CASE Left = << >>
  <2>1. Range(Left) = {}  BY <1>3 DEF Range
  <2> QED BY <1>1, <2>1 DEF HandlerInv, AsRecorded, Left
<1>4. CASE Left = FilesOf[c]
  BY <1>1, <1>4 DEF HandlerInv, Left
<1> QED BY <1>2, <1>3, <1>4

\* A file put for one change set leaves the others whole, or touched.
LEMMA PutKeepsWhole ==
  ASSUME TypeOK, NEW f \in Files, NEW content \in Contents, NEW by, Put(f, content, by),
         NEW c \in ChangeSets, Recorded(c), c # by, touched'[c] = {}, NEW recorded,
         AsRecorded(c, recorded)
  PROVE  touched[c] = {} /\ \A g \in Covered(c) : disk'[g] = recorded[g]
<1>1. touched[c] = {}  BY PutFile
<1>2. \A g \in Covered(c) : disk'[g] = disk[g]
  BY PutFile, CoveredFiles
<1> QED BY <1>1, <1>2 DEF AsRecorded

LEMMA WholeInductive ==
  ASSUME DurableInv, Next
  PROVE  WholeInv'
<1> SUFFICES ASSUME NEW c \in ChangeSets,
                    manifest'[c].status = "sealed", touched'[c] = {}, c \notin halfway',
                    ~RollingBack(c)'
             PROVE  \/ \A g \in Covered(c) : disk'[g] = manifest'[c].after[g]
                    \/ \A g \in Covered(c) : disk'[g] = manifest'[c].before[g]
  BY DEF WholeInv, AsRecorded
<1>0. TypeOK /\ HandlerInv /\ WholeInv  BY DEF DurableInv
<1>1. ASSUME manifest'[c] = manifest[c], disk' = disk, touched[c] = {}, c \notin halfway,
             ~RollingBack(c)
      PROVE  \/ \A g \in Covered(c) : disk'[g] = manifest'[c].after[g]
             \/ \A g \in Covered(c) : disk'[g] = manifest'[c].before[g]
  BY <1>0, <1>1 DEF WholeInv, AsRecorded
<1>2. ASSUME NEW f \in Files, NEW content \in Contents, NEW by, Put(f, content, by),
             c # by, UNCHANGED manifest, c \notin halfway, ~RollingBack(c)
      PROVE  \/ \A g \in Covered(c) : disk'[g] = manifest'[c].after[g]
             \/ \A g \in Covered(c) : disk'[g] = manifest'[c].before[g]
  <2>1. manifest[c].status = "sealed" /\ Recorded(c)  BY <1>2 DEF Recorded
  <2>2. touched[c] = {}  BY <1>0, <1>2, PutFile
  <2>3. AsRecorded(c, manifest[c].after) \/ AsRecorded(c, manifest[c].before)
    BY <1>0, <1>2, <2>1, <2>2 DEF WholeInv
  <2> QED BY <1>0, <1>2, <2>1, <2>3, PutKeepsWhole
<1>3. ASSUME NEW d \in ChangeSets, Prepare(d)  PROVE c # d /\ manifest'[c] = manifest[c]
  BY <1>0, <1>3, ManifestSteps
<1>4. ASSUME NEW d \in ChangeSets, Publish(d)
      PROVE  c # d /\ manifest'[c] = manifest[c] /\ touched'[c] = touched[c]
  <2>1. c # d /\ manifest'[c] = manifest[c]  BY <1>0, <1>4, ManifestSteps
  <2> QED BY <1>0, <1>4, <2>1 DEF Publish, TypeOK
<1>5. CASE \E d \in ChangeSets : Prepare(d)
  BY <1>1, <1>3, <1>5 DEF Prepare, RollingBack, Idle
<1>6. ASSUME NEW d \in ChangeSets, Seal(d)
      PROVE  \/ \A g \in Covered(c) : disk'[g] = manifest'[c].after[g]
             \/ \A g \in Covered(c) : disk'[g] = manifest'[c].before[g]
  <2>1. CASE d = c
    <3>1. manifest'[c].after = Restrict(disk, Covered(c)) /\ disk' = disk
      BY <1>0, <1>6, <2>1, ManifestSteps DEF Seal
    <3> QED BY <3>1 DEF Restrict
  <2>2. CASE d # c
    <3>1. manifest'[c] = manifest[c]  BY <1>0, <1>6, <2>2, ManifestSteps
    <3> QED BY <1>1, <1>6, <3>1 DEF Seal, history, RollingBack
  <2> QED BY <2>1, <2>2
<1>7. ASSUME NEW d \in ChangeSets,
             LeaveUnsealed(d) \/ AlreadyRolledBack(d) \/ Conflict(d)
             \/ BeginRollback(d)
      PROVE  \/ \A g \in Covered(c) : disk'[g] = manifest'[c].after[g]
             \/ \A g \in Covered(c) : disk'[g] = manifest'[c].before[g]
  <2>1. ~RollingBack(c)
    BY <1>7 DEF LeaveUnsealed, AlreadyRolledBack, Conflict, ToUndo, BeginRollback,
                RollingBack, Idle
  <2>2. UNCHANGED <<disk, manifest, touched, halfway>>
    BY <1>7 DEF LeaveUnsealed, AlreadyRolledBack, Conflict, BeginRollback,
                history
  <2> QED BY <1>1, <2>1, <2>2
<1>8. ASSUME NEW d \in ChangeSets, NEW f \in Files, Write(d, f)
      PROVE  \/ \A g \in Covered(c) : disk'[g] = manifest'[c].after[g]
             \/ \A g \in Covered(c) : disk'[g] = manifest'[c].before[g]
  <2>1. manifest[d].status = "prepared" /\ handler.at = "change"
    BY <1>0, <1>8, WritePuts
  <2>2. PICK content \in Contents : Put(f, content, d)  BY <1>0, <1>8, WritePuts
  <2>3. UNCHANGED <<manifest, halfway>>  BY <1>8 DEF Write
  <2>4. c # d /\ ~RollingBack(c)  BY <2>1, <2>3 DEF RollingBack
  <2> QED BY <1>2, <2>2, <2>3, <2>4
<1>9. ASSUME NEW d \in ChangeSets, Restore(d)
      PROVE  \/ \A g \in Covered(c) : disk'[g] = manifest'[c].after[g]
             \/ \A g \in Covered(c) : disk'[g] = manifest'[c].before[g]
  <2>1. handler.at = "rollback" /\ handler.set = d  BY <1>9 DEF Restore, RollingBack
  <2>2. handler'.at = "rollback" /\ handler'.set = d
    <3>1. PICK q : q = handler.left  OBVIOUS
    <3>2. handler = [at |-> "rollback", set |-> d, left |-> q]
      BY <1>0, <2>1, <3>1, HandlerFields
    <3>3. handler' = [handler EXCEPT !.left = Tail(q)]  BY <1>9, <3>1 DEF Restore, Left
    <3> QED BY <3>2, <3>3
  <2>3. c # d  BY <2>2 DEF RollingBack
  <2>4. ~RollingBack(c)  BY <2>1, <2>3 DEF RollingBack
  <2>5. PICK f \in Files, content \in Contents : Put(f, content, d)
    BY <1>0, <1>9, RestorePuts
  <2>6. UNCHANGED <<manifest, halfway>>  BY <1>9 DEF Restore
  <2> QED BY <1>2, <2>3, <2>4, <2>5, <2>6
<1>10. ASSUME NEW d \in ChangeSets, RollbackFails(d)
       PROVE  \/ \A g \in Covered(c) : disk'[g] = manifest'[c].after[g]
              \/ \A g \in Covered(c) : disk'[g] = manifest'[c].before[g]
  <2>1. UNCHANGED <<disk, manifest, touched>> /\ halfway' = Stranded(d) /\ RollingBack(d)
    BY <1>10 DEF RollbackFails
  <2>2. CASE d = c  BY <1>0, <2>1, <2>2, EndedWhole DEF AsRecorded
  <2>3. CASE d # c  BY <1>1, <2>1, <2>3 DEF Stranded, RollingBack
  <2> QED BY <2>2, <2>3
<1>11. CASE \E d \in ChangeSets : Publish(d)
  <2>1. PICK d \in ChangeSets : Publish(d)  BY <1>11
  <2>2. c # d /\ manifest'[c] = manifest[c] /\ touched'[c] = touched[c]  BY <1>4, <2>1
  <2>3. disk' = disk /\ halfway' = halfway /\ RollingBack(d)  BY <2>1 DEF Publish
  <2> QED BY <1>1, <2>2, <2>3 DEF RollingBack
<1>12. CASE Crash
  <2>1. UNCHANGED <<disk, manifest, touched>>  BY <1>12 DEF Crash
  <2>2. CASE RollingBack(c)
    <3>1. halfway' = Stranded(c)  BY <1>12, <2>2 DEF Crash, RollingBack
    <3> QED BY <1>0, <2>1, <2>2, <3>1, EndedWhole DEF AsRecorded
  <2>3. CASE ~RollingBack(c)
    <3>1. halfway \subseteq halfway'  BY <1>12 DEF Crash, Stranded
    <3> QED BY <1>1, <2>1, <2>3, <3>1
  <2> QED BY <2>2, <2>3
<1>13. ASSUME NEW f \in Files, Edit(f)
       PROVE  \/ \A g \in Covered(c) : disk'[g] = manifest'[c].after[g]
              \/ \A g \in Covered(c) : disk'[g] = manifest'[c].before[g]
  <2>1. PICK content \in Contents : Put(f, content, Absent)  BY <1>13, EditPuts
  <2>2. Absent # c /\ UNCHANGED <<manifest, halfway>> /\ ~RollingBack(c)
    BY <1>13 DEF Edit, RollingBack, Idle
  <2> QED BY <1>2, <2>1, <2>2
<1>14. ASSUME (\E d \in ChangeSets : Hinder(d)) \/ (\E f \in Files : Lock(f))
       PROVE  \/ \A g \in Covered(c) : disk'[g] = manifest'[c].after[g]
              \/ \A g \in Covered(c) : disk'[g] = manifest'[c].before[g]
  <2>1. UNCHANGED <<disk, manifest, handler, touched, halfway>>
    BY <1>14 DEF Hinder, Lock, history
  <2> QED BY <1>1, <2>1 DEF RollingBack
<1> QED
  BY <1>5, <1>6, <1>7, <1>8, <1>9, <1>10, <1>11, <1>12, <1>13, <1>14 DEF Next

---------------------------------------------------------------------------
(* Theorems.                                                               *)

LEMMA DurableInvariant == Spec => []DurableInv
<1>1. Init => DurableInv
  <2> SUFFICES ASSUME Init  PROVE DurableInv  OBVIOUS
  <2>1. \A c \in ChangeSets : manifest[c] = NoManifest /\ ~Recorded(c)
    BY DEF Init, Recorded, NoManifest
  <2>2. TypeOK
    <3>1. disk \in [Files -> Contents]  BY DEF Init, Contents
    <3>2. DOMAIN original = {}  BY DEF Init
    <3> QED BY <2>1, <3>1, <3>2 DEF Init, TypeOK, ManifestsOf, Handlers
  <2>3. HandlerInv  BY DEF Init, HandlerInv, Idle
  <2>4. SnapshotsInv /\ RolledBackStays /\ WholeInv
    BY <2>1 DEF SnapshotsInv, RolledBackStays, WholeInv, NoManifest
  <2> QED BY <2>2, <2>3, <2>4 DEF DurableInv
<1>2. DurableInv /\ [Next]_vars => DurableInv'
  <2>1. DurableInv /\ Next => DurableInv'
    BY TypeInductive, HandlerInductive, SnapshotsInductive, RolledBackInductive,
       WholeInductive DEF DurableInv
  <2>2. DurableInv /\ UNCHANGED vars => DurableInv'
    <3> SUFFICES ASSUME DurableInv, UNCHANGED vars  PROVE DurableInv'  OBVIOUS
    <3>1. TypeOK'
      BY DEF DurableInv, vars, history, world, TypeOK, Recorded
    <3>2. HandlerInv'
      BY DEF DurableInv, vars, history, HandlerInv, AsRecorded
    <3>3. SnapshotsInv' /\ RolledBackStays'
      BY DEF DurableInv, vars, history, SnapshotsInv, RolledBackStays, Recorded
    <3>4. WholeInv'
      BY DEF DurableInv, vars, history, WholeInv, AsRecorded, RollingBack
    <3> QED BY <3>1, <3>2, <3>3, <3>4 DEF DurableInv
  <2> QED BY <2>1, <2>2
<1> QED BY <1>1, <1>2, PTL DEF Spec

\* Every variable keeps its type: a manifest always covers the files of its change
\* set, and a recorded change set has its history.
THEOREM TypeCorrect == Spec => []TypeOK
<1>1. DurableInv => TypeOK  BY DEF DurableInv
<1> QED BY <1>1, DurableInvariant, PTL

\* What a manifest calls rolled back is as it was, but for edits of somebody else.
THEOREM RolledBackIsRestored == Spec => []RolledBackStays
<1>1. DurableInv => RolledBackStays  BY DEF DurableInv
<1> QED BY <1>1, DurableInvariant, PTL

\* No rollback overwrites a file that is not what its change set left there.
THEOREM RollbackReplacesOnlyTheSealed == Spec => ReplacesOnlyTheSealed
<1>1. DurableInv /\ [Next]_vars =>
        [\A f \in Files : handler.at = "rollback" /\ disk'[f] # disk[f] =>
           disk[f] = manifest[handler.set].after[f]]_vars
  <2> SUFFICES ASSUME DurableInv, Next, NEW f \in Files, handler.at = "rollback",
                      disk'[f] # disk[f]
               PROVE  disk[f] = manifest[handler.set].after[f]
    OBVIOUS
  <2>0. TypeOK /\ HandlerInv  BY DEF DurableInv
  <2>1. handler # Idle /\ handler.at # "change"  BY DEF Idle
  <2>2. ASSUME NEW c \in ChangeSets, Restore(c)
        PROVE  disk[f] = manifest[handler.set].after[f]
    <3>1. handler.set = c  BY <2>2 DEF Restore, RollingBack
    <3>2. PICK g : g = Head(Left)  OBVIOUS
    <3>3. /\ g \in Files /\ g \in Covered(c) /\ manifest[c].before[g] \in Contents
          /\ Put(g, manifest[c].before[g], c)
      BY <2>0, <2>2, <3>2, RestorePuts
    <3>4. disk'[g] = manifest[c].before[g] /\ \A x \in Files : x # g => disk'[x] = disk[x]
      BY <2>0, <3>3, PutFile
    <3>5. f = g  BY <3>4
    <3>6. disk[g] \in {manifest[c].before[g], manifest[c].after[g]}
      BY <2>0, <3>1, <3>3 DEF HandlerInv
    <3> QED BY <3>1, <3>4, <3>5, <3>6
  <2>3. \A c \in ChangeSets : ~Prepare(c) /\ ~Seal(c) /\ ~LeaveUnsealed(c)
    BY <2>1 DEF Prepare, Seal, LeaveUnsealed
  <2>4. \A c \in ChangeSets, x \in Files : ~Write(c, x)  BY <2>1 DEF Write
  <2>5. \A c \in ChangeSets :
          /\ ~AlreadyRolledBack(c) /\ ~Conflict(c) /\ ~BeginRollback(c)
          /\ ~RollbackFails(c) /\ ~Publish(c)
    BY <2>1 DEF AlreadyRolledBack, Conflict, BeginRollback, ToUndo, RollbackFails,
                Publish
  <2>6. ~Crash /\ \A x \in Files : ~Edit(x)  BY <2>1 DEF Crash, Edit
  <2>7. (\A c \in ChangeSets : ~Hinder(c)) /\ (\A x \in Files : ~Lock(x))
    BY <2>1 DEF Hinder, Lock
  <2> QED BY <2>2, <2>3, <2>4, <2>5, <2>6, <2>7 DEF Next
<1> QED BY <1>1, DurableInvariant, PTL DEF Spec, ReplacesOnlyTheSealed

\* Only the four answering steps answer.
LEMMA AnsweringSteps ==
  ASSUME Next, answer' # NoAnswer
  PROVE  \E c \in ChangeSets :
           AlreadyRolledBack(c) \/ Conflict(c) \/ RollbackFails(c) \/ Publish(c)
<1>1. \A c \in ChangeSets :
        /\ ~Prepare(c) /\ ~Seal(c) /\ ~LeaveUnsealed(c) /\ ~BeginRollback(c) /\ ~Restore(c)
        /\ ~Hinder(c)
        /\ \A f \in Files : ~Write(c, f)
  BY DEF Prepare, Seal, LeaveUnsealed, BeginRollback, Restore, Hinder, Write
<1>2. ~Crash /\ \A f \in Files : ~Edit(f) /\ ~Lock(f)  BY DEF Crash, Edit, Lock
<1> QED BY <1>1, <1>2 DEF Next

\* A rollback that answers success says so of files that are as they were when the
\* change set was prepared, but for those that somebody changed since an earlier
\* rollback of it was published.
THEOREM RollbackAnswersAreExact == Spec => RollbackIsExact
<1>1. DurableInv /\ [Next]_vars =>
        [\A c \in ChangeSets : Succeeded(c) =>
           \A f \in Covered(c) :
              \/ disk'[f] = original[c][f]
              \/ manifest[c].status = "rolledBack" /\ f \in touched[c]]_vars
  <2> SUFFICES ASSUME DurableInv, Next, NEW c \in ChangeSets, Succeeded(c),
                      NEW f \in Covered(c),
                      ~(manifest[c].status = "rolledBack" /\ f \in touched[c])
               PROVE  disk'[f] = original[c][f]
    OBVIOUS
  <2>0. TypeOK /\ HandlerInv /\ SnapshotsInv /\ RolledBackStays  BY DEF DurableInv
  <2>1. ASSUME Recorded(c), Matches(c, manifest[c].before), disk' = disk
        PROVE  disk'[f] = original[c][f]
    BY <2>0, <2>1 DEF Matches, SnapshotsInv
  <2>2. answer' # NoAnswer /\ answer'.set = c
        /\ answer'.kind \in {"alreadyRolledBack", "rolledBack"}
    BY DEF Succeeded, NoAnswer
  <2>3. PICK d \in ChangeSets :
          AlreadyRolledBack(d) \/ Conflict(d) \/ RollbackFails(d) \/ Publish(d)
    BY <2>2, AnsweringSteps
  <2>4. CASE AlreadyRolledBack(d)
    <3>1. /\ d = c /\ Recorded(c) /\ disk' = disk
          /\ manifest[c].status = "rolledBack" \/ Matches(c, manifest[c].before)
      BY <2>2, <2>4 DEF AlreadyRolledBack, RecordedAsRolledBack, Answered
    <3>2. CASE manifest[c].status = "rolledBack"
      BY <2>0, <3>1, <3>2 DEF RolledBackStays
    <3> QED BY <2>1, <3>1, <3>2
  <2>5. CASE Publish(d)
    <3>1. d = c /\ Recorded(c) /\ Matches(c, manifest[c].before) /\ disk' = disk
      BY <2>0, <2>2, <2>5, RollbackFacts DEF Publish, Answered
    <3> QED BY <2>1, <3>1
  <2>6. ~Conflict(d) /\ ~RollbackFails(d)
    BY <2>2 DEF Conflict, RollbackFails, Answered
  <2> QED BY <2>3, <2>4, <2>5, <2>6
<1> QED BY <1>1, DurableInvariant, PTL DEF Spec, RollbackIsExact

\* A sealed change set with nothing in the way of its packages, sources and files is
\* never refused as a conflict without somebody's edit or a rollback broken off
\* between two files.
THEOREM ConflictsHaveCauses == Spec => ConflictHasCause
<1>1. DurableInv /\ [Next]_vars =>
        [\A c \in ChangeSets : Refused(c) =>
           \/ manifest[c].status = "prepared"
           \/ ~Unhindered(c)
           \/ touched[c] # {}
           \/ c \in halfway]_vars
  <2> SUFFICES ASSUME DurableInv, Next, NEW c \in ChangeSets, Refused(c), Unhindered(c),
                      touched[c] = {}, c \notin halfway
               PROVE  manifest[c].status = "prepared"
    OBVIOUS
  <2>0. TypeOK /\ HandlerInv /\ WholeInv  BY DEF DurableInv
  <2>1. answer' # NoAnswer /\ answer'.set = c /\ answer'.kind = "conflict"
    BY DEF Refused, NoAnswer
  <2>2. PICK d \in ChangeSets :
          AlreadyRolledBack(d) \/ Conflict(d) \/ RollbackFails(d) \/ Publish(d)
    BY <2>1, AnsweringSteps
  <2>3. Conflict(d) /\ d = c
    BY <2>1, <2>2 DEF AlreadyRolledBack, Conflict, RollbackFails, Publish, Answered
  <2>4. /\ Recorded(c) /\ manifest[c].status # "rolledBack" /\ handler = Idle
        /\ ~Matches(c, manifest[c].before) /\ ~Matches(c, manifest[c].after)
    BY <2>3 DEF Conflict, ToUndo, RecordedAsRolledBack, SealHolds, Unhindered
  <2>5. ~AsRecorded(c, manifest[c].before) /\ ~AsRecorded(c, manifest[c].after)
    BY <2>4 DEF Matches, AsRecorded, Unhindered
  <2>6. ~RollingBack(c)  BY <2>4 DEF RollingBack, Idle
  <2>7. manifest[c].status # "sealed"  BY <2>0, <2>5, <2>6 DEF WholeInv
  <2> QED BY <2>0, <2>4, <2>7, ManifestFields DEF TypeOK, ManifestsOK
<1> QED BY <1>1, DurableInvariant, PTL DEF Spec, ConflictHasCause
==============================================================================
