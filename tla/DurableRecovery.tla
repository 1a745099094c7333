--------------------------- MODULE DurableRecovery ---------------------------
(***************************************************************************)
(* FDurablePackageRecovery: raw-file recovery of change sets.  A handler    *)
(* prepares (snapshots every file of its packages and publishes a           *)
(* manifest), changes the files, and seals (records what the files have     *)
(* become).  A rollback, in this Editor process or a later one, puts the    *)
(* snapshots back, file by file, if the files are still as they were        *)
(* sealed.                                                                  *)
(*                                                                         *)
(* Handlers run on the Game Thread and so one at a time, but the process    *)
(* may die between any two file operations.  Manifests are replaced         *)
(* atomically (temporary file and rename), and so is each package file.     *)
(***************************************************************************)
EXTENDS Integers, Sequences, FiniteSets, Functions

CONSTANTS
  ChangeSets,  \* change set ids; as contents, what the change set writes
  Files,       \* package files and sidecars
  FilesOf,     \* the files of each change set, in the manifest's order
  Absent,      \* the file does not exist
  Old,         \* what a file holds at first, if it exists
  Foreign,     \* what somebody else writes
  MaxEdits,    \* bound on the edits of somebody else
  MaxHindered  \* bound on the hindered change sets and locked files at one time

ASSUME RecoveryAssumption ==
  /\ FilesOf \in [ChangeSets -> Seq(Files)]
  /\ MaxEdits \in Nat /\ MaxHindered \in Nat
  /\ {Absent, Old, Foreign} \cap ChangeSets = {}

VARIABLES
  disk,      \* contents of the files
  manifest,  \* recovery.manifest.json of each change set
  handler,   \* what the Game Thread is doing
  answer,    \* the answer to a rollback, if the last step gave one
  hindered,  \* change sets with a changed import source, or a package that is dirty
             \* or cannot be unloaded
  locked,    \* files that cannot be read while they exist
  edits,     \* edits of somebody else so far
  original,  \* the files as they were when the change set was prepared (history)
  touched,   \* files others changed since the seal or the rollback (history)
  halfway    \* change sets a rollback of which ended with files not restored (history)

history == <<original, touched, halfway>>
world == <<hindered, locked>>
vars == <<disk, manifest, handler, answer, world, edits, history>>

Contents == ChangeSets \cup {Absent, Old, Foreign}
Covered(c) == Range(FilesOf[c])
Idle == [at |-> "idle"]
NoManifest == [status |-> "none"]
NoAnswer == [kind |-> "none"]
Recorded(c) == manifest[c].status # "none"

Init ==
  /\ disk \in [Files -> {Absent, Old}]
  /\ manifest = [c \in ChangeSets |-> NoManifest]
  /\ handler = Idle
  /\ answer = NoAnswer
  /\ hindered = {} /\ locked = {}
  /\ edits = 0
  /\ original = << >>
  /\ touched = [c \in ChangeSets |-> {}]
  /\ halfway = {}

\* File f becomes content; the recorded change sets but by have been touched.
Put(f, content, by) ==
  /\ disk' = [disk EXCEPT ![f] = content]
  /\ touched' = [c \in ChangeSets |->
                   IF Recorded(c) /\ f \in Covered(c) /\ c # by /\ content # disk[f]
                   THEN touched[c] \cup {f} ELSE touched[c]]

\* AllFilesMatch, for the files before or after the change: a file recorded as absent
\* must not exist, another must be readable and have the recorded contents.
Matches(c, recorded) ==
  \A f \in Covered(c) : disk[f] = recorded[f] /\ (f \in locked => disk[f] = Absent)

---------------------------------------------------------------------------
(* The handler of a change.                                                *)

\* Mutant: files outside the change set are recorded too.
SnapshotOfAll(c) == disk
Snapshot(c) == Restrict(disk, Covered(c))

\* The files of c that exist can be copied and hashed.
Readable(c) == \A f \in Covered(c) \cap locked : disk[f] = Absent

\* Prepare.  Until it is sealed, the manifest has no afterExists, which reads false.
\* (With a file it cannot read, or a snapshot it cannot verify, it publishes nothing.)
Prepare(c) ==
  /\ handler = Idle /\ ~Recorded(c) /\ Readable(c)
  /\ manifest' = [manifest EXCEPT ![c] =
       [status |-> "prepared", before |-> Snapshot(c),
        after |-> [f \in Covered(c) |-> Absent]]]
  /\ handler' = [at |-> "change", set |-> c]
  /\ original' = [d \in DOMAIN original \cup {c} |->
                    IF d = c THEN Restrict(disk, Covered(c)) ELSE original[d]]
  /\ answer' = NoAnswer
  /\ UNCHANGED <<disk, world, edits, touched, halfway>>

\* The handler saves, deletes or, when an action fails, restores a file.
Write(c, f) ==
  /\ handler = [at |-> "change", set |-> c] /\ f \in Covered(c)
  /\ \E content \in {c, Absent, original[c][f]} : Put(f, content, c)
  /\ answer' = NoAnswer
  /\ UNCHANGED <<manifest, handler, world, edits, original, halfway>>

\* Mutant: the hashes from before the change are kept.
HashedEarly(c) == manifest[c].before
Hashed(c) == Restrict(disk, Covered(c))

\* Seal, also of a change that failed.
Seal(c) ==
  /\ handler = [at |-> "change", set |-> c] /\ Readable(c)
  /\ manifest' = [manifest EXCEPT ![c].status = "sealed", ![c].after = Hashed(c)]
  /\ handler' = Idle
  /\ answer' = NoAnswer
  /\ UNCHANGED <<disk, world, edits, history>>

\* The handler returns an error and does not seal (a save that failed), or the seal
\* fails (a file cannot be hashed, the manifest cannot be written).
LeaveUnsealed(c) ==
  /\ handler = [at |-> "change", set |-> c]
  /\ handler' = Idle
  /\ answer' = NoAnswer
  /\ UNCHANGED <<disk, manifest, world, edits, history>>

---------------------------------------------------------------------------
(* Rollback.                                                               *)

Answered(c, kind) == answer' = [kind |-> kind, set |-> c]

\* Mutant: a manifest that is sealed is enough.
RecordedAsRolledBackAny(c) == manifest[c].status # "prepared"
RecordedAsRolledBack(c) == manifest[c].status = "rolledBack"

\* The manifest says rolledBack, or the files are as before: one answer of success,
\* given in the first case without a look at the files.
AlreadyRolledBack(c) ==
  /\ handler = Idle /\ Recorded(c)
  /\ RecordedAsRolledBack(c) \/ Matches(c, manifest[c].before)
  /\ Answered(c, "alreadyRolledBack")
  /\ UNCHANGED <<disk, manifest, handler, world, edits, history>>

\* Mutant: the files may be as they like.
SealHoldsAlways(c) == TRUE
SealHolds(c) == Matches(c, manifest[c].after)

ToUndo(c) ==
  /\ handler = Idle /\ Recorded(c)
  /\ ~RecordedAsRolledBack(c) /\ ~Matches(c, manifest[c].before)

\* The files are not as sealed, ValidateExternalSources finds an import source
\* changed, or UnloadRecoveryPackages a package dirty or not to be unloaded.
Conflict(c) ==
  /\ ToUndo(c)
  /\ ~SealHolds(c) \/ c \in hindered
  /\ Answered(c, "conflict")
  /\ UNCHANGED <<disk, manifest, handler, world, edits, history>>

BeginRollback(c) ==
  /\ ToUndo(c) /\ SealHolds(c) /\ c \notin hindered
  /\ handler' = [at |-> "rollback", set |-> c, left |-> FilesOf[c]]
  /\ answer' = NoAnswer
  /\ UNCHANGED <<disk, manifest, world, edits, history>>

Left == handler.left
RollingBack(c) == handler.at = "rollback" /\ handler.set = c

\* RestoreFileAtomically from the snapshot, or deletion of a file that was not there.
Restore(c) ==
  /\ RollingBack(c) /\ Left # << >>
  /\ Put(Head(Left), manifest[c].before[Head(Left)], c)
  /\ handler' = [handler EXCEPT !.left = Tail(Left)]
  /\ answer' = NoAnswer
  /\ UNCHANGED <<manifest, world, edits, original, halfway>>

Stranded(c) == IF Left # << >> /\ Left # FilesOf[c] THEN halfway \cup {c} ELSE halfway

\* A file cannot be restored, or the manifest cannot be written: the rollback ends.
RollbackFails(c) ==
  /\ RollingBack(c)
  /\ Answered(c, "failed")
  /\ handler' = Idle
  /\ halfway' = Stranded(c)
  /\ UNCHANGED <<disk, manifest, world, edits, original, touched>>

\* All files verified: the manifest says so.
Publish(c) ==
  /\ RollingBack(c) /\ Left = << >>
  /\ Matches(c, manifest[c].before)
  /\ manifest' = [manifest EXCEPT ![c].status = "rolledBack"]
  /\ handler' = Idle
  /\ touched' = [touched EXCEPT ![c] = {}]
  /\ Answered(c, "rolledBack")
  /\ UNCHANGED <<disk, world, edits, original, halfway>>

---------------------------------------------------------------------------
(* The world around.                                                       *)

\* The Editor process dies and is started again.
Crash ==
  /\ handler # Idle
  /\ handler' = Idle
  /\ halfway' = IF handler.at = "rollback" THEN Stranded(handler.set) ELSE halfway
  /\ answer' = NoAnswer
  /\ UNCHANGED <<disk, manifest, world, edits, original, touched>>

\* Somebody saves, deletes or brings back a file, while no handler is at work.
Edit(f) ==
  /\ handler = Idle /\ edits < MaxEdits
  /\ edits' = edits + 1
  /\ \E content \in {Foreign, Absent, Old} \ {disk[f]} : Put(f, content, Absent)
  /\ answer' = NoAnswer
  /\ UNCHANGED <<manifest, handler, world, original, halfway>>

HindranceLeft == Cardinality(hindered) + Cardinality(locked) < MaxHindered

\* A package becomes dirty or an import source changes, or that is put right.
Hinder(c) ==
  /\ handler = Idle
  /\ \/ HindranceLeft /\ hindered' = hindered \cup {c}
     \/ hindered' = hindered \ {c}
  /\ answer' = NoAnswer
  /\ UNCHANGED <<disk, manifest, handler, locked, edits, history>>

\* Another process opens a file for itself, or closes it, while no handler is at work.
\* (Under a handler it makes a step fail that may fail in any case.)
Lock(f) ==
  /\ handler = Idle
  /\ \/ HindranceLeft /\ locked' = locked \cup {f}
     \/ locked' = locked \ {f}
  /\ answer' = NoAnswer
  /\ UNCHANGED <<disk, manifest, handler, hindered, edits, history>>

Next ==
  \/ \E c \in ChangeSets :
       \/ Prepare(c) \/ Seal(c) \/ LeaveUnsealed(c)
       \/ \E f \in Files : Write(c, f)
       \/ AlreadyRolledBack(c) \/ Conflict(c)
       \/ BeginRollback(c) \/ Restore(c) \/ RollbackFails(c) \/ Publish(c)
  \/ Crash
  \/ \E f \in Files : Edit(f) \/ Lock(f)
  \/ \E c \in ChangeSets : Hinder(c)

Spec == Init /\ [][Next]_vars

---------------------------------------------------------------------------
(* Properties.                                                             *)

ManifestsOf(c) ==
  {NoManifest} \cup
  [status : {"prepared", "sealed", "rolledBack"},
   before : [Covered(c) -> Contents], after : [Covered(c) -> Contents]]

Handlers ==
  {Idle} \cup [at : {"change"}, set : ChangeSets]
    \cup [at : {"rollback"}, set : ChangeSets, left : Seq(Files)]

\* The variables have their types.
TypeOK ==
  /\ disk \in [Files -> Contents]
  /\ DOMAIN manifest = ChangeSets
  /\ \A c \in ChangeSets : manifest[c] \in ManifestsOf(c)
  /\ handler \in Handlers
  /\ answer = NoAnswer \/ answer \in
       [kind : {"alreadyRolledBack", "conflict", "failed", "rolledBack"}, set : ChangeSets]
  /\ hindered \subseteq ChangeSets /\ locked \subseteq Files
  /\ edits \in 0..MaxEdits
  /\ DOMAIN original = {c \in ChangeSets : Recorded(c)}
  /\ \A c \in DOMAIN original : original[c] \in [Covered(c) -> Contents]
  /\ touched \in [ChangeSets -> SUBSET Files]
  /\ halfway \subseteq ChangeSets

\* A rollback loses nothing but what its change set left behind: a file it replaces
\* still is what was sealed, whoever edited it, changed it again or rolled it back
\* in the meantime, and however often the rollback was tried.
ReplacesOnlyTheSealed ==
  [][\A f \in Files : handler.at = "rollback" /\ disk'[f] # disk[f] =>
       disk[f] = manifest[handler.set].after[f]]_vars

Succeeded(c) == answer' \in [kind : {"alreadyRolledBack", "rolledBack"}, set : {c}]

\* When a rollback answers success, the files are what they were when the change set
\* was prepared: also the files the change created are gone.  The one exception is the
\* answer to a repeated rollback: it is given from the manifest, and a file that
\* somebody else changed since the rollback is as that left it.
RollbackIsExact ==
  [][\A c \in ChangeSets : Succeeded(c) =>
       \A f \in Covered(c) : \/ disk'[f] = original[c][f]
                             \/ manifest[c].status = "rolledBack" /\ f \in touched[c]]_vars

\* What is recorded as rolled back is, until somebody else changes it: a rollback
\* that was interrupted is never taken for one that was done.
RolledBackStays ==
  \A c \in ChangeSets : manifest[c].status = "rolledBack" =>
    \A f \in Covered(c) \ touched[c] : disk[f] = original[c][f]

Refused(c) == answer' = [kind |-> "conflict", set |-> c]

\* What the refusals for a conflict test for: packages and import sources as they
\* should be, and files that can be read.
Unhindered(c) == c \notin hindered /\ Covered(c) \cap locked = {}

\* A sealed change set whose packages, sources and files can be worked on is refused
\* as a conflict only if somebody else changed one of its files or a rollback of it
\* stopped halfway.
ConflictHasCause ==
  [][\A c \in ChangeSets : Refused(c) =>
       \/ manifest[c].status = "prepared"
       \/ ~Unhindered(c)
       \/ touched[c] # {}
       \/ c \in halfway]_vars

\* Recovery is restart-durable: what was sealed and left alone by others can be
\* rolled back, now or after any number of restarts; while its packages, sources and
\* files can be worked on, it is never refused as a conflict.
RestartDurable ==
  [][\A c \in ChangeSets : Refused(c) =>
       \/ manifest[c].status = "prepared"
       \/ ~Unhindered(c)
       \/ touched[c] # {}]_vars
==============================================================================
