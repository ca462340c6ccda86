----------------------------- MODULE LocalApply -----------------------------
(***************************************************************************)
(* How a device makes one file equal to an accepted snapshot while its     *)
(* owner may edit the file at any moment and the app may stop at any       *)
(* moment: SyncEngine.stageAndApply, resumePendingApplication and restore. *)
(*                                                                         *)
(* The apply journal (pendingApply... in the settings) is saved before the *)
(* file is touched.  Each operation on the file is identified by target    *)
(* and prior content and has its own record and backup below               *)
(* .gib-sync/apply.  The original is renamed to the backup, the verified   *)
(* stage is copied to the free path, and only when the whole snapshot is   *)
(* applied are originals archived in the recovery folder and the journal   *)
(* cleared.  Every await lets the editor run; a file's content may change  *)
(* between any check and the native call behind it.                        *)
(*                                                                         *)
(* Abstractions.  One file of one accepted snapshot: files are applied one *)
(* after another and share only the journal.  Content is its hash; Torn is *)
(* the prefix an interrupted native copy leaves.  The stage is not a       *)
(* variable: every attempt writes it again and verifies it.  A pause, a    *)
(* network error and the refusal of canApplyLocalMutation are all the same *)
(* failure of a session, which can come at any step.                       *)
(***************************************************************************)
EXTENDS Naturals, FiniteSets

CONSTANTS
    Original,   \* the content before the snapshot
    Incoming,   \* the content of the file in a snapshot that holds it
    Drafts,     \* what the owner may write
    Torn,       \* the prefix left by an interrupted copy
    Absent,     \* no file
    None,       \* no record, journal or operation
    MaxEdits,   \* bound on the owner's edits
    MaxFaults   \* bound on failed sessions, crashes and repairs

ASSUME BoundsAssumption == MaxEdits \in Nat /\ MaxFaults \in Nat

VARIABLES
    target,     \* the file in the accepted snapshot; Absent if it is deleted there
    file,       \* the content at the path
    records,    \* journal record of the operation with each prior content
    backups,    \* its backup file
    recovery,   \* contents archived in the recovery folder
    journal,    \* pendingApplyPriorHashes of the path, None when nothing is pending
    operation,  \* pendingApplyOperations of the path: the prior it is known by
    session,    \* the sync in progress
    applied,    \* lastSnapshotId is the snapshot
    held,       \* the last session refused to go on without an explicit repair
    draft,      \* history: what the owner last left at the path
    owner,      \* history: what the owner did since the sync looked at the file
    torn,       \* history: a copy was interrupted
    edits, faults

disk == <<file, records, backups, recovery>>
settings == <<journal, operation, applied>>
history == <<draft, owner, torn, edits, faults>>
vars == <<target, disk, settings, session, held, history>>

Contents == {Original, Incoming, Torn} \cup Drafts
Local == Contents \cup {Absent}
Phases == {"planned", "staged", "backed-up", "promoting", "applied"}
ASSUME ContentsAssumption ==
    /\ Original \notin {Incoming, Torn, Absent} /\ Incoming \notin {Torn, Absent}
    /\ Torn # Absent
    /\ Drafts \cap {Original, Incoming, Torn, Absent} = {}
    /\ None \notin Local \cup Phases
TryStep == {"stage", "archive", "rename", "backup", "promote", "copy", "check"}
Steps == TryStep \cup {"idle", "apply", "rollback", "undo", "recover", "undoThenDecide",
                       "decide", "finish", "forget", "save", "setAside", "restart"}
Sessions == [step : Steps, prior : Local]
Idle == [step |-> "idle", prior |-> Absent]

TypeOK ==
    /\ target \in {Incoming, Absent}
    /\ file \in Local
    /\ records \in [Local -> Phases \cup {None}]
    /\ backups \in [Local -> Local]
    /\ recovery \subseteq Contents
    /\ journal \in Local \cup {None}
    /\ operation \in Local \cup {None}
    /\ session \in Sessions
    /\ applied \in BOOLEAN /\ held \in BOOLEAN /\ torn \in BOOLEAN
    /\ owner \in {"away", "editing", "repairing"}
    /\ draft \in Local
    /\ edits \in 0..MaxEdits /\ faults \in 0..MaxFaults

Init ==
    /\ target \in {Incoming, Absent}
    /\ file \in {Original, Absent} \ {target}
    /\ records = [p \in Local |-> None]
    /\ backups = [p \in Local |-> Absent]
    /\ recovery = {}
    /\ journal = None /\ operation = None
    /\ session = Idle
    /\ applied = FALSE /\ held = FALSE /\ torn = FALSE
    /\ owner = "away"
    /\ draft = file
    /\ edits = 0 /\ faults = 0

-----------------------------------------------------------------------------
\* The owner, in the editor or through the file system.
Touch(content) ==
    /\ edits < MaxEdits
    /\ file # content
    /\ file' = content /\ draft' = content
    /\ owner' = "editing"
    /\ edits' = edits + 1
    /\ UNCHANGED <<target, records, backups, recovery, settings, session, held,
                   torn, faults>>

-----------------------------------------------------------------------------
At(step) == session.step = step
Prior == session.prior
Go(step) == session' = [step |-> step, prior |-> Prior]

\* Where an exception raised in a step leads: the try blocks of replaceFile and
\* deleteFile roll back, anything else ends the session.
Failed == IF session.step \in TryStep THEN "rollback" ELSE "idle"
End(step) == session' = [step |-> step, prior |-> IF step = "idle" THEN Absent ELSE Prior]

\* stageAndApply, after a scan that saw the file as it is: the journal is saved.
BeginApply ==
    /\ At("idle") /\ journal = None /\ ~applied
    /\ file # target
    /\ journal' = file
    /\ session' = [step |-> "apply", prior |-> file]
    /\ owner' = "away"
    /\ UNCHANGED <<target, disk, operation, applied, held, draft, torn, edits, faults>>

\* replaceFile and deleteFile up to their try: assertLocalUnchanged, operationFor.
LocalUnchanged(content) == file = content

PrepareOperation ==
    /\ At("apply")
    /\ IF LocalUnchanged(Prior)
       THEN /\ records' = [records EXCEPT ![Prior] = IF @ = None THEN "planned" ELSE @]
            /\ operation' = Prior
            /\ Go(IF target = Absent THEN "archive" ELSE "stage")
       ELSE End("idle") /\ UNCHANGED <<records, operation>>
    /\ UNCHANGED <<target, file, backups, recovery, journal, applied, held, history>>

\* The stage is written and verified; applyVerifiedStage starts.
Stage ==
    /\ At("stage")
    /\ records' = [records EXCEPT ![Prior] = "staged"]
    /\ Go(IF ~LocalUnchanged(Prior) THEN Failed
          ELSE IF Prior = Absent THEN "backup" ELSE "archive")
    /\ UNCHANGED <<target, file, backups, recovery, settings, held, history>>

\* archiveOperationBackup: what an earlier attempt backed up.
Archive(p) == recovery' = recovery \cup ({backups[p]} \ {Absent})

ArchiveEarlierBackup ==
    /\ At("archive")
    /\ IF backups[Prior] \in {Absent, Prior}
       THEN /\ Archive(Prior)
            /\ backups' = [backups EXCEPT ![Prior] = Absent]
            /\ Go("rename")
       ELSE Go(Failed) /\ UNCHANGED <<recovery, backups>>
    /\ UNCHANGED <<target, file, records, settings, held, history>>

\* The original becomes the backup, whatever it is by then; a deletion is
\* complete when the backup has the expected content.
RenameToBackup ==
    /\ At("rename")
    /\ IF file = Absent THEN Go(Failed) /\ UNCHANGED <<file, backups, records>>
       ELSE /\ backups' = [backups EXCEPT ![Prior] = file]
            /\ file' = Absent
            /\ IF file # Prior THEN Go(Failed) /\ UNCHANGED records
               ELSE IF target # Absent THEN Go("backup") /\ UNCHANGED records
               ELSE /\ records' = [records EXCEPT ![Prior] = "applied"]
                    /\ Go("finish")
    /\ UNCHANGED <<target, recovery, settings, held, history>>

BackUp ==
    /\ At("backup")
    /\ records' = [records EXCEPT ![Prior] = "backed-up"]
    /\ Go(IF LocalUnchanged(Absent) THEN "promote" ELSE Failed)
    /\ UNCHANGED <<target, file, backups, recovery, settings, held, history>>

Promote ==
    /\ At("promote")
    /\ records' = [records EXCEPT ![Prior] = "promoting"]
    /\ Go("copy")
    /\ UNCHANGED <<target, file, backups, recovery, settings, held, history>>

\* adapter.copy fails if the destination exists.
Clobbering == TRUE  \* mutant: adapter.rename, which replaces the destination
DestinationFree == file = Absent

CopyStage ==
    /\ At("copy")
    /\ IF DestinationFree THEN file' = target /\ Go("check")
       ELSE Go(Failed) /\ UNCHANGED file
    /\ UNCHANGED <<target, records, backups, recovery, settings, held, history>>

CheckApplied ==
    /\ At("check")
    /\ IF file = target
       THEN records' = [records EXCEPT ![Prior] = "applied"] /\ Go("finish")
       ELSE Go(Failed) /\ UNCHANGED records
    /\ UNCHANGED <<target, file, backups, recovery, settings, held, history>>

\* rollbackMissingDestination
CanUndo(p) == backups[p] # Absent /\ file = Absent

RollBack ==
    /\ At("rollback")
    /\ IF CanUndo(Prior)
       THEN records' = [records EXCEPT ![Prior] = "promoting"] /\ Go("undo")
       ELSE End("idle") /\ UNCHANGED records
    /\ UNCHANGED <<target, file, backups, recovery, settings, held, history>>

CopyBackup(p, next) ==
    /\ file' = IF DestinationFree THEN backups[p] ELSE file
    /\ End(next)
    /\ UNCHANGED <<target, records, backups, recovery, settings, held, history>>

Undo == At("undo") /\ CopyBackup(Prior, "idle")

-----------------------------------------------------------------------------
\* resumePendingApplication, in the next sync or after a restart.
Resume ==
    /\ At("idle") /\ journal # None
    /\ session' = [step |-> "recover", prior |-> journal]
    /\ UNCHANGED <<target, disk, settings, held, history>>

\* recoverOperationBoundary
BackupChanged(p) == backups[p] \notin {Absent, p}
CopyTrusted(p) == FALSE  \* mutant: a promoting record is not looked at
CopyNeverUndone(p) ==    \* mutant: a rolled back original counts as unverified
    records[p] = "promoting" /\ file \notin {Absent, target}
CopyUncertain(p) == records[p] = "promoting" /\ file \notin {Absent, target, p}
MustHold(p) == BackupChanged(p) \/ CopyUncertain(p)

Hold ==
    /\ At("recover")
    /\ records[Prior] # None /\ MustHold(Prior)
    /\ held' = TRUE
    /\ operation' = Prior
    /\ End("idle")
    /\ UNCHANGED <<target, disk, journal, applied, history>>

Recover ==
    /\ At("recover")
    /\ records[Prior] = None \/ ~MustHold(Prior)
    /\ held' = FALSE
    /\ IF records[Prior] = None
       THEN Go("decide") /\ UNCHANGED <<records, operation>>
       ELSE /\ operation' = Prior
            /\ IF CanUndo(Prior) /\ target # Absent
               THEN /\ records' = [records EXCEPT ![Prior] = "promoting"]
                    /\ Go("undoThenDecide")
               ELSE Go("decide") /\ UNCHANGED records
    /\ UNCHANGED <<target, file, backups, recovery, journal, applied, history>>

UndoAndDecide == At("undoThenDecide") /\ CopyBackup(Prior, "decide")

\* What is neither the journal's prior nor the target is the owner's: it stays,
\* with the prior entry as the base of its reconciliation.
LocalChange == file \notin {Absent, target, journal}

Decide ==
    /\ At("decide")
    /\ IF file = target \/ LocalChange THEN Go("finish")
       ELSE session' = [step |-> "apply", prior |-> file]
    /\ UNCHANGED <<target, disk, settings, held, history>>

-----------------------------------------------------------------------------
\* finishOperations, once every file of the snapshot is done.
Known == operation # None

FinishArchive ==
    /\ At("finish")
    /\ IF ~Known THEN Go("save") /\ UNCHANGED <<recovery, backups>>
       ELSE IF BackupChanged(operation) THEN End("idle") /\ UNCHANGED <<recovery, backups>>
       ELSE /\ Archive(operation)
            /\ backups' = [backups EXCEPT ![operation] = Absent]
            /\ Go("forget")
    /\ UNCHANGED <<target, file, records, settings, held, history>>

FinishForget ==
    /\ At("forget")
    /\ records' = [records EXCEPT ![operation] = None]
    /\ Go("save")
    /\ UNCHANGED <<target, file, backups, recovery, settings, held, history>>

\* lastSnapshotId and an empty journal are saved together.
Save ==
    /\ At("save")
    /\ applied' = TRUE
    /\ journal' = None /\ operation' = None
    /\ End("idle")
    /\ UNCHANGED <<target, disk, held, history>>

-----------------------------------------------------------------------------
\* restore, when the owner asks for the accepted snapshot: the file is scanned,
\* what an interrupted apply set aside is archived whatever it is, and the
\* snapshot is applied to what was scanned.
Fault == faults < MaxFaults /\ faults' = faults + 1
NotReloaded == operation  \* mutant: the record on disk is not loaded again
Reloaded == IF records[journal] # None THEN journal ELSE operation

Repair ==
    /\ At("idle") /\ journal # None
    /\ Fault
    /\ session' = [step |-> "setAside", prior |-> file]
    /\ operation' = Reloaded
    /\ owner' = "repairing"
    /\ UNCHANGED <<target, disk, journal, applied, held, draft, torn, edits>>

SetAside ==
    /\ At("setAside")
    /\ IF Known THEN /\ Archive(operation)
                     /\ backups' = [backups EXCEPT ![operation] = Absent]
       ELSE UNCHANGED <<recovery, backups>>
    /\ Go("restart")
    /\ UNCHANGED <<target, file, records, settings, held, history>>

Restart ==
    /\ At("restart")
    /\ records' = IF Known THEN [records EXCEPT ![operation] = None] ELSE records
    /\ operation' = None
    /\ journal' = Prior
    /\ held' = FALSE
    /\ owner' = IF file = Prior THEN "away" ELSE "editing"
    /\ Go(IF Prior = target THEN "finish" ELSE "apply")
    /\ UNCHANGED <<target, file, backups, recovery, applied, draft, torn, edits, faults>>

-----------------------------------------------------------------------------
\* A pause, an error, or an editor event seen by canApplyLocalMutation.
Stop ==
    /\ session.step \notin {"idle", "rollback", "undo"}
    /\ Fault
    /\ End(Failed)
    /\ UNCHANGED <<target, disk, settings, held, draft, owner, torn, edits>>

\* The app is gone; the settings on disk may be older than the operation.
LoseProcess ==
    /\ session' = Idle
    /\ operation' \in {operation, None}
    /\ UNCHANGED <<target, records, backups, recovery, journal, applied, held, draft,
                   owner, edits>>
Crash ==
    /\ ~At("idle")
    /\ Fault
    /\ LoseProcess
    /\ UNCHANGED <<file, torn>>

\* A native copy is interrupted after it has created its destination.
TearCopy ==
    /\ session.step \in {"copy", "undo", "undoThenDecide"} /\ file = Absent
    /\ Fault
    /\ file' = Torn /\ torn' = TRUE
    /\ LoseProcess

Engine ==
    \/ BeginApply \/ PrepareOperation \/ Stage \/ ArchiveEarlierBackup
    \/ RenameToBackup \/ BackUp \/ Promote \/ CopyStage \/ CheckApplied
    \/ RollBack \/ Undo
    \/ Resume \/ Hold \/ Recover \/ UndoAndDecide \/ Decide
    \/ FinishArchive \/ FinishForget \/ Save
    \/ SetAside \/ Restart

Next ==
    \/ Engine
    \/ \E content \in Drafts \cup {Absent} : Touch(content)
    \/ Repair
    \/ Stop
    \/ Crash
    \/ TearCopy

\* The engine runs to the end of a session, and the plugin starts another sync
\* while the journal is not empty.
Spec == Init /\ [][Next]_vars /\ WF_vars(Engine)

-----------------------------------------------------------------------------
(* Properties *)

\* What the owner last left at the path is never destroyed: it is there, in a
\* backup or in the recovery folder, whatever was interrupted or raced.
OwnerVersionKept ==
    draft # Absent =>
        draft \in {file} \cup recovery \cup {backups[p] : p \in Local}

\* The device counts the snapshot as applied only over what it should: a file
\* its owner left alone is what the snapshot says, never a prefix or the old
\* version, and a version she wrote meanwhile is still there.
AppliedMeansDone ==
    [][ applied' /\ ~applied =>
          /\ owner = "away" => file = target
          /\ owner = "editing" /\ draft \notin {Absent, journal} => file = draft ]_vars

\* When the snapshot counts as applied to a file its owner left alone, every
\* original that was set aside, by this session or by the ones that failed, has
\* reached the recovery folder: nothing is stranded below .gib-sync/apply.
OriginalsArchived ==
    applied /\ owner = "away" => \A p \in Local : backups[p] = Absent

\* A file its owner leaves alone gets there: failures, pauses and crashes do not
\* make the device refuse it, unless a native copy was itself interrupted.
QuietCompletes == journal # None ~> applied \/ owner # "away" \/ torn

=============================================================================
