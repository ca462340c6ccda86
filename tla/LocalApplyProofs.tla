-------------------------- MODULE LocalApplyProofs --------------------------
(***************************************************************************)
(* Proofs about LocalApply for any set of drafts and any bounds: the types *)
(* and its three safety properties.  OwnerVersionKept is inductive because *)
(* the rename, the one native call that could overwrite a backup, is       *)
(* reached only with a free backup.  OriginalsArchived and                 *)
(* AppliedMeansDone need the whole course of a session, stated by          *)
(* Accounted.                                                              *)
(***************************************************************************)
EXTENDS LocalApply, Sequences, TLAPS

-----------------------------------------------------------------------------
(* Type correctness *)

\* Types in the beginning.
LEMMA TypeInit == Init => TypeOK
<1> SUFFICES ASSUME Init PROVE TypeOK
  OBVIOUS
<1>1. session \in Sessions
  BY DEF Init, Idle, Sessions, Steps, Local
<1>2. edits \in 0..MaxEdits /\ faults \in 0..MaxFaults
  BY BoundsAssumption DEF Init
<1>3. file \in Local /\ Absent \in Local
  BY DEF Init, Local, Contents
<1> QED
  BY <1>1, <1>2, <1>3 DEF Init, TypeOK

\* A session of the right type stays so under the operators that move it on.
LEMMA SessionType ==
    ASSUME TypeOK
    PROVE  /\ session.step \in Steps /\ Prior \in Local /\ Absent \in Local
           /\ Failed \in Steps
           /\ Idle \in Sessions
           /\ \A s \in Steps, p \in Local : [step |-> s, prior |-> p] \in Sessions
           /\ \A s \in Steps : Go(s) => session' \in Sessions
           /\ \A s \in Steps : End(s) => session' \in Sessions
<1>1. session.step \in Steps /\ Prior \in Local /\ Absent \in Local
  BY DEF TypeOK, Sessions, Prior, Local
<1>2. Failed \in Steps
  BY DEF Failed, Steps
<1>3. Idle \in Sessions
  BY <1>1 DEF Idle, Sessions, Steps
<1>4. ASSUME NEW s \in Steps PROVE (Go(s) => session' \in Sessions)
                                /\ (End(s) => session' \in Sessions)
  BY <1>1 DEF Go, End, Sessions
<1>5. \A s \in Steps, p \in Local : [step |-> s, prior |-> p] \in Sessions
  BY DEF Sessions
<1> QED
  BY <1>1, <1>2, <1>3, <1>4, <1>5

\* The places of a session.
LEMMA StepNames ==
    \A s \in {"idle", "stage", "archive", "rename", "backup", "promote", "copy", "check",
              "apply", "rollback", "undo", "recover", "undoThenDecide", "decide",
              "finish", "forget", "save", "setAside", "restart"} : s \in Steps
BY DEF Steps, TryStep

\* The accepted file is a file.
LEMMA Targets == ASSUME TypeOK PROVE target \in Local
BY DEF TypeOK, Local, Contents

\* The recovery folder holds contents.
LEMMA ArchiveType == ASSUME TypeOK, NEW p \in Local, Archive(p)
                     PROVE  recovery' \subseteq Contents
BY DEF TypeOK, Archive, Local

\* The count of faults.
LEMMA FaultType == ASSUME TypeOK, Fault PROVE faults' \in 0..MaxFaults
BY BoundsAssumption DEF TypeOK, Fault

\* Every step keeps the types.
LEMMA TypeNext == TypeOK /\ [Next]_vars => TypeOK'
<1> SUFFICES ASSUME TypeOK, [Next]_vars PROVE TypeOK'
  OBVIOUS
<1> USE SessionType, StepNames, Targets DEF TypeOK, Phases, disk, settings, history
<1>1. CASE BeginApply
  BY <1>1 DEF BeginApply
<1>2. CASE PrepareOperation
  BY <1>2 DEF PrepareOperation
<1>3. CASE Stage
  BY <1>3 DEF Stage
<1>4. CASE ArchiveEarlierBackup
  BY <1>4, ArchiveType DEF ArchiveEarlierBackup
<1>5. CASE RenameToBackup
  BY <1>5 DEF RenameToBackup
<1>6. CASE BackUp
  BY <1>6 DEF BackUp
<1>7. CASE Promote
  BY <1>7 DEF Promote
<1>8. CASE CopyStage
  BY <1>8 DEF CopyStage
<1>9. CASE CheckApplied
  BY <1>9 DEF CheckApplied
<1>10. CASE RollBack
  BY <1>10 DEF RollBack
<1>11. CASE Undo
  BY <1>11 DEF Undo, CopyBackup
<1>12. CASE Resume
  BY <1>12 DEF Resume
<1>13. CASE Hold
  BY <1>13 DEF Hold
<1>14. CASE Recover
  BY <1>14 DEF Recover
<1>15. CASE UndoAndDecide
  BY <1>15 DEF UndoAndDecide, CopyBackup
<1>16. CASE Decide
  BY <1>16 DEF Decide
<1>17. CASE FinishArchive
  BY <1>17, ArchiveType DEF FinishArchive, Known
<1>18. CASE FinishForget
  BY <1>18 DEF FinishForget
<1>19. CASE Save
  BY <1>19 DEF Save
<1>20. CASE SetAside
  BY <1>20, ArchiveType DEF SetAside, Known
<1>21. CASE Restart
  BY <1>21 DEF Restart, Known
<1>22. CASE Repair
  BY <1>22, FaultType DEF Repair, Reloaded
<1>23. CASE Stop
  BY <1>23, FaultType DEF Stop
<1>24. CASE Crash
  BY <1>24, FaultType DEF Crash, LoseProcess
<1>25. CASE TearCopy
  <2>1. Torn \in Local
    BY DEF Local, Contents
  <2>2. session' \in Sessions /\ operation' \in Local \cup {None}
    BY <1>25 DEF TearCopy, LoseProcess
  <2>3. faults' \in 0..MaxFaults
    BY <1>25, FaultType DEF TearCopy
  <2> QED
    BY <1>25, <2>1, <2>2, <2>3 DEF TearCopy, LoseProcess
<1>26. ASSUME NEW content \in Drafts \cup {Absent}, Touch(content) PROVE TypeOK'
  <2>1. content \in Local
    BY DEF Local, Contents
  <2>2. edits' \in 0..MaxEdits
    <3> HIDE SessionType, StepNames
    <3> QED
      BY <1>26, BoundsAssumption DEF Touch
  <2> QED
    BY <1>26, <2>1, <2>2 DEF Touch
<1>27. CASE UNCHANGED vars
  BY <1>27 DEF vars
<1> HIDE DEF TypeOK
<1> QED
  BY <1>1, <1>2, <1>3, <1>4, <1>5, <1>6, <1>7, <1>8, <1>9, <1>10, <1>11, <1>12, <1>13, <1>14,
     <1>15, <1>16, <1>17, <1>18, <1>19, <1>20, <1>21, <1>22, <1>23, <1>24, <1>25, <1>26, <1>27
     DEF Next, Engine

\* The types of every variable, on every run.
THEOREM TypeCorrect == Spec => []TypeOK
BY TypeInit, TypeNext, PTL DEF Spec

-----------------------------------------------------------------------------
(* No version of the owner is destroyed *)

BackupFreeForRename == At("rename") => backups[Prior] = Absent
Safe == TypeOK /\ OwnerVersionKept /\ BackupFreeForRename

\* Where the owner's last version may be.
Versions == {file} \cup recovery \cup {backups[p] : p \in Local}

\* A step keeps Safe that keeps the owner's version where it was, unless it
\* leads to the rename.
LEMMA Undisturbed ==
    ASSUME Safe, TypeOK', draft' = draft,
           Versions \ {Absent} \subseteq Versions',
           session'.step # "rename"
    PROVE  Safe'
BY DEF Safe, OwnerVersionKept, BackupFreeForRename, At, Versions

\* Archiving a backup and freeing it moves its content to the recovery folder.
LEMMA ArchiveKeeps ==
    ASSUME TypeOK, NEW k \in Local, Archive(k), file' = file,
           backups' = [backups EXCEPT ![k] = Absent]
    PROVE  Versions \ {Absent} \subseteq Versions'
<1>1. \A p \in Local : p # k => backups'[p] = backups[p]
  BY DEF TypeOK
<1>2. ASSUME NEW p \in Local, backups[p] # Absent
      PROVE  backups[p] \in Versions'
  <2>1. CASE p = k
    BY <1>2, <2>1 DEF Archive, Versions
  <2>2. CASE p # k
    BY <1>1, <2>2 DEF Versions
  <2> QED
    BY <2>1, <2>2
<1> QED
  BY <1>2 DEF Archive, Versions

\* A step that writes to the path writes to a free path.
LEMMA FreePathKeeps ==
    ASSUME file = Absent, UNCHANGED <<recovery, backups>>
    PROVE  Versions \ {Absent} \subseteq Versions'
BY DEF Versions

\* No step loses a version of the owner.
LEMMA SafeNext == Safe /\ [Next]_vars => Safe'
<1> SUFFICES ASSUME Safe, [Next]_vars PROVE Safe'
  OBVIOUS
<1>t. TypeOK /\ TypeOK' /\ Prior \in Local
  BY TypeNext, SessionType DEF Safe
<1>f. Failed \in {"rollback", "idle"}
  BY DEF Failed
<1> USE <1>t
<1>1. CASE BeginApply
  BY <1>1, Undisturbed DEF BeginApply, Go, End, disk, history, Versions
<1>2. CASE PrepareOperation
  BY <1>2, Undisturbed DEF PrepareOperation, Go, End, disk, history, Versions
<1>3. CASE Stage
  BY <1>3, Undisturbed DEF Stage, Go, End, disk, history, Versions, Failed
<1>4. CASE BackUp
  BY <1>4, Undisturbed DEF BackUp, Go, End, disk, history, Versions, Failed
<1>5. CASE Promote
  BY <1>5, Undisturbed DEF Promote, Go, End, disk, history, Versions
<1>6. CASE CheckApplied
  BY <1>6, Undisturbed DEF CheckApplied, Go, End, disk, history, Versions, TypeOK, Failed
<1>7. CASE RollBack
  BY <1>7, Undisturbed DEF RollBack, Go, End, disk, history, Versions, TypeOK
<1>8. CASE Resume
  BY <1>8, Undisturbed DEF Resume, Go, End, disk, history, Versions
<1>9. CASE Hold
  BY <1>9, Undisturbed DEF Hold, Go, End, disk, history, Versions
<1>10. CASE Recover
  BY <1>10, Undisturbed DEF Recover, Go, End, disk, history, Versions, TypeOK
<1>11. CASE Decide
  BY <1>11, Undisturbed DEF Decide, Go, End, disk, history, Versions
<1>12. CASE FinishForget
  BY <1>12, Undisturbed DEF FinishForget, Go, End, disk, history, Versions
<1>13. CASE Save
  BY <1>13, Undisturbed DEF Save, Go, End, disk, history, Versions
<1>14. CASE Restart
  BY <1>14, Undisturbed DEF Restart, Go, End, disk, history, Versions
<1>15. CASE Repair
  BY <1>15, Undisturbed DEF Repair, Go, End, disk, history, Versions
<1>16. CASE Stop
  BY <1>16, Undisturbed DEF Stop, Go, End, disk, history, Versions, Fault, Failed
<1>17. CASE Crash
  BY <1>17, Undisturbed DEF Crash, Go, End, disk, history, Versions, Fault, LoseProcess, Idle
<1>18. CASE ArchiveEarlierBackup
  <2>1. CASE backups[Prior] \in {Absent, Prior}
    <3>1. Versions \ {Absent} \subseteq Versions'
      BY <1>18, <2>1, ArchiveKeeps DEF ArchiveEarlierBackup
    <3>2. OwnerVersionKept'
      BY <1>18, <3>1 DEF ArchiveEarlierBackup, Safe, OwnerVersionKept, Versions, history
    <3>3. BackupFreeForRename'
      BY <1>18, <2>1 DEF ArchiveEarlierBackup, BackupFreeForRename, Go, Prior, TypeOK
    <3> QED
      BY <3>2, <3>3 DEF Safe
  <2>2. CASE backups[Prior] \notin {Absent, Prior}
    BY <1>18, <2>2, <1>f, Undisturbed DEF ArchiveEarlierBackup, Go, history, Versions, TypeOK
  <2> QED
    BY <2>1, <2>2
<1>19. CASE RenameToBackup
  <2>1. session'.step # "rename" /\ draft' = draft
    BY <1>19, <1>f DEF RenameToBackup, Go, history, TypeOK
  <2>2. CASE file = Absent
    BY <1>19, <2>1, <2>2, Undisturbed DEF RenameToBackup, Versions
  <2>3. CASE file # Absent
    <3>1. /\ backups' = [backups EXCEPT ![Prior] = file]
          /\ recovery' = recovery /\ file \in Local
      BY <1>19, <2>3 DEF RenameToBackup, TypeOK
    <3>2. backups'[Prior] = file /\ \A p \in Local : p # Prior => backups'[p] = backups[p]
      BY <3>1 DEF TypeOK
    <3>3. backups[Prior] = Absent
      BY <1>19 DEF RenameToBackup, Safe, BackupFreeForRename
    <3>4. ASSUME NEW p \in Local, backups[p] # Absent PROVE backups[p] \in Versions'
      BY <3>2, <3>3, <3>4 DEF Versions
    <3>5. file \in Versions'
      BY <3>2 DEF Versions
    <3>6. Versions \ {Absent} \subseteq Versions'
      BY <3>1, <3>4, <3>5 DEF Versions
    <3> QED
      BY <2>1, <3>6, Undisturbed
  <2> QED
    BY <2>2, <2>3
<1>20. CASE CopyStage
  <2>1. session'.step # "rename" /\ draft' = draft /\ UNCHANGED <<recovery, backups>>
    BY <1>20, <1>f DEF CopyStage, Go, history, TypeOK
  <2>2. CASE file = Absent
    BY <2>1, <2>2, Undisturbed, FreePathKeeps
  <2>3. CASE file # Absent
    BY <1>20, <2>1, <2>3, Undisturbed DEF CopyStage, CopyBackup, DestinationFree, Versions
  <2> QED
    BY <2>2, <2>3
<1>21. CASE Undo
  <2>1. session'.step # "rename" /\ draft' = draft /\ UNCHANGED <<recovery, backups>>
    BY <1>21 DEF Undo, CopyBackup, Go, End, Failed, TryStep, At, history
  <2>2. CASE file = Absent
    BY <2>1, <2>2, Undisturbed, FreePathKeeps
  <2>3. CASE file # Absent
    BY <1>21, <2>1, <2>3, Undisturbed DEF Undo, CopyBackup, DestinationFree, Versions
  <2> QED
    BY <2>2, <2>3
<1>22. CASE UndoAndDecide
  <2>1. session'.step # "rename" /\ draft' = draft /\ UNCHANGED <<recovery, backups>>
    BY <1>22 DEF UndoAndDecide, CopyBackup, Go, End, Failed, TryStep, At, history
  <2>2. CASE file = Absent
    BY <2>1, <2>2, Undisturbed, FreePathKeeps
  <2>3. CASE file # Absent
    BY <1>22, <2>1, <2>3, Undisturbed DEF UndoAndDecide, CopyBackup, DestinationFree, Versions
  <2> QED
    BY <2>2, <2>3
<1>23. CASE FinishArchive
  <2>1. session'.step # "rename" /\ draft' = draft
    BY <1>23 DEF FinishArchive, Go, End, history
  <2>2. CASE Known /\ ~BackupChanged(operation)
    <3>1. operation \in Local
      BY <2>2 DEF Known, TypeOK
    <3> QED
      BY <1>23, <2>1, <2>2, <3>1, ArchiveKeeps, Undisturbed DEF FinishArchive
  <2>3. CASE ~(Known /\ ~BackupChanged(operation))
    BY <1>23, <2>1, <2>3, Undisturbed DEF FinishArchive, Versions
  <2> QED
    BY <2>2, <2>3
<1>24. CASE SetAside
  <2>1. session'.step # "rename" /\ draft' = draft
    BY <1>24 DEF SetAside, Go, history
  <2>2. CASE Known
    <3>1. operation \in Local
      BY <2>2 DEF Known, TypeOK
    <3> QED
      BY <1>24, <2>1, <2>2, <3>1, ArchiveKeeps, Undisturbed DEF SetAside
  <2>3. CASE ~Known
    BY <1>24, <2>1, <2>3, Undisturbed DEF SetAside, Versions
  <2> QED
    BY <2>2, <2>3
<1>25. CASE TearCopy
  BY <1>25, FreePathKeeps, Undisturbed DEF TearCopy, LoseProcess, Idle
<1>26. ASSUME NEW content \in Drafts \cup {Absent}, Touch(content) PROVE Safe'
  BY <1>26 DEF Touch, Safe, OwnerVersionKept, BackupFreeForRename, At, Prior
<1>27. CASE UNCHANGED vars
  BY <1>27
     DEF vars, disk, settings, history, Safe, OwnerVersionKept, BackupFreeForRename, At, Prior
<1> QED
  BY <1>1, <1>2, <1>3, <1>4, <1>5, <1>6, <1>7, <1>8, <1>9, <1>10, <1>11, <1>12, <1>13, <1>14,
     <1>15, <1>16, <1>17, <1>18, <1>19, <1>20, <1>21, <1>22, <1>23, <1>24, <1>25, <1>26, <1>27
     DEF Next, Engine

\* What the owner last left at the path is never destroyed, for any number of
\* edits, failures, crashes, torn copies and repairs.
THEOREM OwnerKept == Spec => []OwnerVersionKept
<1>1. Init => Safe
  BY TypeInit DEF Init, Safe, OwnerVersionKept, BackupFreeForRename, At, Idle
<1>2. Safe => OwnerVersionKept
  BY DEF Safe
<1> QED
  BY <1>1, <1>2, SafeNext, PTL DEF Spec

-----------------------------------------------------------------------------
(* What a snapshot that counts as applied has done. The session is followed *)
(* through its steps: which backup there is, who knows it, and what is at   *)
(* the path as long as the owner leaves it alone.                           *)

Trying      == session.step \in TryStep
Undoing     == session.step \in {"undo", "undoThenDecide"}
Finishing   == session.step \in {"finish", "forget", "save"}
SettingAside == session.step \in {"setAside", "restart"}
Away        == owner = "away"
BackedUp(p) == backups[p] # Absent

\* The only backup is that of the content the journal names, and its record is
\* on disk. A recorded snapshot is finished.
BackupJournaled ==
    /\ \A p \in Local : BackedUp(p) => (p = journal \/ applied) /\ records[p] # None
    /\ applied => At("idle") /\ journal = None
    /\ ~At("idle") => journal # None

\* The content a session works on is the journal's, or none; an original is
\* never renamed under another name.
PriorJournaled ==
    /\ Trying \/ At("apply") \/ At("rollback") => Prior \in {journal, Absent} /\ Prior # target
    /\ session.step \in {"archive", "rename"} => Prior = journal /\ Prior # Absent
    /\ Undoing \/ At("recover") \/ At("decide") => Prior = journal
    /\ Trying => operation = Prior /\ records[Prior] # None
    /\ At("rollback") => operation = Prior
    /\ Undoing => records[Prior] = "promoting" /\ BackedUp(Prior)
    /\ At("copy") \/ At("check") => records[Prior] = "promoting"

\* Whoever is to archive the backup knows it.
BackupKnown ==
    /\ At("decide") \/ At("undoThenDecide") \/ At("setAside")
         => \A p \in Local : BackedUp(p) => operation = p
    /\ At("restart") => \A p \in Local : ~BackedUp(p)
    /\ At("forget") => Known /\ ~BackedUp(operation)
    /\ Away /\ (Trying \/ At("apply")) => \A p \in Local : BackedUp(p) => Prior = p
    /\ Away /\ At("decide") /\ target # Absent /\ file = Absent => \A p \in Local : ~BackedUp(p)
    /\ Away /\ At("finish") => \A p \in Local : BackedUp(p) => operation = p
    /\ Away /\ (At("forget") \/ At("save") \/ applied) => \A p \in Local : ~BackedUp(p)

\* A backup that is not what the journal names stops every session.
ChangedStops ==
    \A p \in Local :
        BackupChanged(p) => session.step \in {"idle", "rollback", "undo", "recover", "setAside"}

\* A file the owner leaves alone is the old one, the new one, or away in its
\* backup; what an interrupted copy left is never taken for any of these.
FileAccounted ==
    (Away /\ journal # None) =>
        /\ \A p \in Local : ~BackupChanged(p)
        /\ \/ file \in {Absent, target, journal}
           \/ file = Torn /\ records[journal] = "promoting" /\ session.step \in {"idle", "recover"}
        /\ file = Absent /\ target # Absent /\ journal # Absent => BackedUp(journal)
        /\ session.step \in {"stage", "archive", "rename"} => file = Prior
        /\ Finishing => file = target

\* What the owner wrote while a session ran is at the path or, if the rename
\* took it, in the backup.
DraftAccounted ==
    /\ (owner = "editing" /\ journal # None /\ draft \notin {Absent, journal})
         => file = draft \/ backups[journal] = draft
    /\ SettingAside => /\ owner = "editing" => file = draft
                       /\ owner = "repairing" => file = Prior
                       /\ ~Away

Accounted ==
    /\ Safe
    /\ BackupJournaled /\ PriorJournaled /\ BackupKnown /\ ChangedStops
    /\ FileAccounted /\ DraftAccounted

\* What every step may start from and ends in.
LEMMA AccountedFacts ==
    ASSUME Accounted, [Next]_vars
    PROVE  /\ TypeOK /\ TypeOK' /\ Prior \in Local /\ Absent \in Local
           /\ None \notin Local \cup Phases
           /\ BackupJournaled /\ PriorJournaled /\ BackupKnown /\ ChangedStops
           /\ FileAccounted /\ DraftAccounted /\ BackupFreeForRename
BY SafeNext, SessionType, ContentsAssumption DEF Accounted, Safe

\* Backups are made under the name the journal gives, with their record, and are
\* gone from it only into the recovery folder.
LEMMA BackupJournaledNext == Accounted /\ [Next]_vars => BackupJournaled'
<1> SUFFICES ASSUME Accounted, [Next]_vars PROVE BackupJournaled'
  OBVIOUS
<1> USE AccountedFacts
    DEF BackupJournaled, PriorJournaled, BackupKnown, Trying, BackedUp, At, End,
        TryStep, disk, settings, TypeOK, Phases
<1>1. CASE BeginApply
  BY <1>1 DEF BeginApply
<1>2. CASE PrepareOperation
  BY <1>2 DEF PrepareOperation, LocalUnchanged
<1>3. CASE Stage
  BY <1>3 DEF Stage, LocalUnchanged
<1>4. CASE ArchiveEarlierBackup
  BY <1>4 DEF ArchiveEarlierBackup
<1>5. CASE RenameToBackup
  BY <1>5 DEF RenameToBackup
<1>6. CASE BackUp
  BY <1>6 DEF BackUp, LocalUnchanged
<1>7. CASE Promote
  BY <1>7 DEF Promote
<1>8. CASE CopyStage
  BY <1>8 DEF CopyStage, DestinationFree
<1>9. CASE CheckApplied
  BY <1>9 DEF CheckApplied
<1>10. CASE RollBack
  BY <1>10 DEF RollBack, CanUndo
<1>11. CASE Undo
  BY <1>11 DEF Undo, CopyBackup, DestinationFree
<1>12. CASE Resume
  BY <1>12 DEF Resume
<1>13. CASE Hold
  BY <1>13 DEF Hold
<1>14. CASE Recover
  BY <1>14 DEF Recover, CanUndo, MustHold, CopyUncertain
<1>15. CASE UndoAndDecide
  BY <1>15 DEF UndoAndDecide, CopyBackup, DestinationFree
<1>16. CASE Decide
  BY <1>16 DEF Decide, LocalChange
<1>17. CASE FinishArchive
  BY <1>17 DEF FinishArchive
<1>18. CASE FinishForget
  BY <1>18 DEF FinishForget
<1>19. CASE Save
  BY <1>19 DEF Save
<1>20. CASE SetAside
  BY <1>20 DEF SetAside
<1>21. CASE Restart
  BY <1>21 DEF Restart
<1>22. CASE Repair
  BY <1>22 DEF Repair, Reloaded, Fault
<1>23. CASE Stop
  BY <1>23 DEF Stop, Fault
<1>24. CASE Crash
  BY <1>24 DEF Crash, LoseProcess, Fault, Idle
<1>25. CASE TearCopy
  BY <1>25 DEF TearCopy, LoseProcess, Fault, Idle
<1>26. ASSUME NEW content \in Drafts \cup {Absent}, Touch(content) PROVE BackupJournaled'
  BY <1>26 DEF Touch
<1>27. CASE UNCHANGED vars
  BY <1>27 DEF vars
<1> QED
  BY ONLY [Next]_vars, <1>1, <1>2, <1>3, <1>4, <1>5, <1>6, <1>7, <1>8, <1>9, <1>10, <1>11,
     <1>12, <1>13, <1>14, <1>15, <1>16, <1>17, <1>18, <1>19, <1>20, <1>21, <1>22, <1>23, <1>24,
     <1>25, <1>26, <1>27
     DEF Next, Engine

\* A session works on the journal's content from its first step to its last.
LEMMA PriorJournaledNext == Accounted /\ [Next]_vars => PriorJournaled'
<1> SUFFICES ASSUME Accounted, [Next]_vars PROVE PriorJournaled'
  OBVIOUS
<1> USE AccountedFacts
    DEF BackupJournaled, PriorJournaled, Trying, Undoing, BackedUp, At, Prior, Go,
        End, Failed, TryStep, disk, settings, TypeOK, Phases
<1>1. CASE BeginApply
  BY <1>1 DEF BeginApply
<1>2. CASE PrepareOperation
  BY <1>2 DEF PrepareOperation, LocalUnchanged
<1>3. CASE Stage
  BY <1>3 DEF Stage, LocalUnchanged
<1>4. CASE ArchiveEarlierBackup
  BY <1>4 DEF ArchiveEarlierBackup
<1>5. CASE RenameToBackup
  BY <1>5 DEF RenameToBackup
<1>6. CASE BackUp
  BY <1>6 DEF BackUp, LocalUnchanged
<1>7. CASE Promote
  BY <1>7 DEF Promote
<1>8. CASE CopyStage
  BY <1>8 DEF CopyStage, DestinationFree
<1>9. CASE CheckApplied
  BY <1>9 DEF CheckApplied
<1>10. CASE RollBack
  BY <1>10 DEF RollBack, CanUndo
<1>11. CASE Undo
  BY <1>11 DEF Undo, CopyBackup, DestinationFree
<1>12. CASE Resume
  BY <1>12 DEF Resume
<1>13. CASE Hold
  BY <1>13 DEF Hold
<1>14. CASE Recover
  BY <1>14 DEF Recover, CanUndo, MustHold, CopyUncertain
<1>15. CASE UndoAndDecide
  BY <1>15 DEF UndoAndDecide, CopyBackup, DestinationFree
<1>16. CASE Decide
  BY <1>16 DEF Decide, LocalChange
<1>17. CASE FinishArchive
  BY <1>17 DEF FinishArchive
<1>18. CASE FinishForget
  BY <1>18 DEF FinishForget
<1>19. CASE Save
  BY <1>19 DEF Save
<1>20. CASE SetAside
  BY <1>20 DEF SetAside
<1>21. CASE Restart
  BY <1>21 DEF Restart
<1>22. CASE Repair
  BY <1>22 DEF Repair, Reloaded, Fault
<1>23. CASE Stop
  BY <1>23 DEF Stop, Fault
<1>24. CASE Crash
  BY <1>24 DEF Crash, LoseProcess, Fault, Idle
<1>25. CASE TearCopy
  BY <1>25 DEF TearCopy, LoseProcess, Fault, Idle
<1>26. ASSUME NEW content \in Drafts \cup {Absent}, Touch(content) PROVE PriorJournaled'
  BY <1>26 DEF Touch
<1>27. CASE UNCHANGED vars
  BY <1>27 DEF vars
<1> QED
  BY ONLY [Next]_vars, <1>1, <1>2, <1>3, <1>4, <1>5, <1>6, <1>7, <1>8, <1>9, <1>10, <1>11,
     <1>12, <1>13, <1>14, <1>15, <1>16, <1>17, <1>18, <1>19, <1>20, <1>21, <1>22, <1>23, <1>24,
     <1>25, <1>26, <1>27
     DEF Next, Engine

\* A session that reaches its end has met every backup there is.
LEMMA BackupKnownNext == Accounted /\ [Next]_vars => BackupKnown'
<1> SUFFICES ASSUME Accounted, [Next]_vars PROVE BackupKnown'
  OBVIOUS
<1> USE AccountedFacts
    DEF BackupJournaled, PriorJournaled, BackupKnown, Trying, Undoing, Away,
        BackedUp, At, Prior, Go, End, Failed, TryStep, Known, disk, settings,
        history, TypeOK
<1>1. CASE BeginApply
  BY <1>1 DEF BeginApply
<1>2. CASE PrepareOperation
  BY <1>2 DEF PrepareOperation, LocalUnchanged
<1>3. CASE Stage
  BY <1>3 DEF Stage, LocalUnchanged
<1>4. CASE ArchiveEarlierBackup
  BY <1>4 DEF ArchiveEarlierBackup
<1>5. CASE RenameToBackup
  BY <1>5 DEF RenameToBackup
<1>6. CASE BackUp
  BY <1>6 DEF BackUp, LocalUnchanged
<1>7. CASE Promote
  BY <1>7 DEF Promote
<1>8. CASE CopyStage
  BY <1>8 DEF CopyStage, DestinationFree
<1>9. CASE CheckApplied
  BY <1>9 DEF CheckApplied
<1>10. CASE RollBack
  BY <1>10 DEF RollBack, CanUndo
<1>11. CASE Undo
  BY <1>11 DEF Undo, CopyBackup, DestinationFree
<1>12. CASE Resume
  BY <1>12 DEF Resume
<1>13. CASE Hold
  BY <1>13 DEF Hold
<1>14. CASE Recover
  BY <1>14 DEF Recover, CanUndo, MustHold, CopyUncertain
<1>15. CASE UndoAndDecide
  BY <1>15 DEF UndoAndDecide, CopyBackup, DestinationFree
<1>16. CASE Decide
  BY <1>16 DEF Decide, LocalChange
<1>17. CASE FinishArchive
  BY <1>17 DEF FinishArchive
<1>18. CASE FinishForget
  BY <1>18 DEF FinishForget
<1>19. CASE Save
  BY <1>19 DEF Save
<1>20. CASE SetAside
  BY <1>20 DEF SetAside
<1>21. CASE Restart
  BY <1>21 DEF Restart
<1>22. CASE Repair
  BY <1>22 DEF Repair, Reloaded, Fault
<1>23. CASE Stop
  BY <1>23 DEF Stop, Fault
<1>24. CASE Crash
  BY <1>24 DEF Crash, LoseProcess, Fault, Idle
<1>25. CASE TearCopy
  BY <1>25 DEF TearCopy, LoseProcess, Fault, Idle
<1>26. ASSUME NEW content \in Drafts \cup {Absent}, Touch(content) PROVE BackupKnown'
  BY <1>26 DEF Touch
<1>27. CASE UNCHANGED vars
  BY <1>27 DEF vars
<1> QED
  BY ONLY [Next]_vars, <1>1, <1>2, <1>3, <1>4, <1>5, <1>6, <1>7, <1>8, <1>9, <1>10, <1>11,
     <1>12, <1>13, <1>14, <1>15, <1>16, <1>17, <1>18, <1>19, <1>20, <1>21, <1>22, <1>23, <1>24,
     <1>25, <1>26, <1>27
     DEF Next, Engine

\* A backup of other content ends the session in every step that could meet it.
LEMMA ChangedStopsNext == Accounted /\ [Next]_vars => ChangedStops'
<1> SUFFICES ASSUME Accounted, [Next]_vars PROVE ChangedStops'
  OBVIOUS
<1> USE AccountedFacts
    DEF BackupJournaled, PriorJournaled, BackupKnown, ChangedStops, BackedUp,
        BackupChanged, At, Go, End, Failed, Known, disk, TypeOK
<1>1. CASE BeginApply
  BY <1>1 DEF BeginApply
<1>2. CASE PrepareOperation
  BY <1>2 DEF PrepareOperation, LocalUnchanged
<1>3. CASE Stage
  BY <1>3 DEF Stage, LocalUnchanged
<1>4. CASE ArchiveEarlierBackup
  BY <1>4 DEF ArchiveEarlierBackup
<1>5. CASE RenameToBackup
  BY <1>5 DEF RenameToBackup
<1>6. CASE BackUp
  BY <1>6 DEF BackUp, LocalUnchanged
<1>7. CASE Promote
  BY <1>7 DEF Promote
<1>8. CASE CopyStage
  BY <1>8 DEF CopyStage, DestinationFree
<1>9. CASE CheckApplied
  BY <1>9 DEF CheckApplied
<1>10. CASE RollBack
  BY <1>10 DEF RollBack, CanUndo
<1>11. CASE Undo
  BY <1>11 DEF Undo, CopyBackup, DestinationFree
<1>12. CASE Resume
  BY <1>12 DEF Resume
<1>13. CASE Hold
  BY <1>13 DEF Hold
<1>14. CASE Recover
  BY <1>14 DEF Recover, CanUndo, MustHold, CopyUncertain
<1>15. CASE UndoAndDecide
  BY <1>15 DEF UndoAndDecide, CopyBackup, DestinationFree
<1>16. CASE Decide
  BY <1>16 DEF Decide, LocalChange
<1>17. CASE FinishArchive
  BY <1>17 DEF FinishArchive
<1>18. CASE FinishForget
  BY <1>18 DEF FinishForget
<1>19. CASE Save
  BY <1>19 DEF Save
<1>20. CASE SetAside
  BY <1>20 DEF SetAside
<1>21. CASE Restart
  BY <1>21 DEF Restart
<1>22. CASE Repair
  BY <1>22 DEF Repair, Reloaded, Fault
<1>23. CASE Stop
  BY <1>23 DEF Stop, Fault
<1>24. CASE Crash
  BY <1>24 DEF Crash, LoseProcess, Fault, Idle
<1>25. CASE TearCopy
  BY <1>25 DEF TearCopy, LoseProcess, Fault, Idle
<1>26. ASSUME NEW content \in Drafts \cup {Absent}, Touch(content) PROVE ChangedStops'
  BY <1>26 DEF Touch
<1>27. CASE UNCHANGED vars
  BY <1>27 DEF vars
<1> QED
  BY ONLY [Next]_vars, <1>1, <1>2, <1>3, <1>4, <1>5, <1>6, <1>7, <1>8, <1>9, <1>10, <1>11,
     <1>12, <1>13, <1>14, <1>15, <1>16, <1>17, <1>18, <1>19, <1>20, <1>21, <1>22, <1>23, <1>24,
     <1>25, <1>26, <1>27
     DEF Next, Engine

\* No step of a session puts anything but the old or the new version at the path
\* of a file its owner leaves alone.
LEMMA FileAccountedNext == Accounted /\ [Next]_vars => FileAccounted'
<1> SUFFICES ASSUME Accounted, [Next]_vars PROVE FileAccounted'
  OBVIOUS
<1> USE AccountedFacts
    DEF BackupJournaled, PriorJournaled, BackupKnown, FileAccounted,
        DraftAccounted, Trying, Undoing, Finishing, SettingAside, Away, BackedUp,
        BackupChanged, At, Prior, Go, End, Failed, TryStep, disk, settings,
        history, TypeOK, Phases
<1>1. CASE BeginApply
  BY <1>1 DEF BeginApply
<1>2. CASE PrepareOperation
  BY <1>2 DEF PrepareOperation, LocalUnchanged
<1>3. CASE Stage
  BY <1>3 DEF Stage, LocalUnchanged
<1>4. CASE ArchiveEarlierBackup
  BY <1>4 DEF ArchiveEarlierBackup
<1>5. CASE RenameToBackup
  BY <1>5 DEF RenameToBackup
<1>6. CASE BackUp
  BY <1>6 DEF BackUp, LocalUnchanged
<1>7. CASE Promote
  BY <1>7 DEF Promote
<1>8. CASE CopyStage
  BY <1>8 DEF CopyStage, DestinationFree
<1>9. CASE CheckApplied
  BY <1>9 DEF CheckApplied
<1>10. CASE RollBack
  BY <1>10 DEF RollBack, CanUndo
<1>11. CASE Undo
  BY <1>11 DEF Undo, CopyBackup, DestinationFree
<1>12. CASE Resume
  BY <1>12 DEF Resume
<1>13. CASE Hold
  BY <1>13 DEF Hold
<1>14. CASE Recover
  BY <1>14 DEF Recover, CanUndo, MustHold, CopyUncertain
<1>15. CASE UndoAndDecide
  BY <1>15 DEF UndoAndDecide, CopyBackup, DestinationFree
<1>16. CASE Decide
  BY <1>16 DEF Decide, LocalChange
<1>17. CASE FinishArchive
  BY <1>17 DEF FinishArchive
<1>18. CASE FinishForget
  BY <1>18 DEF FinishForget
<1>19. CASE Save
  BY <1>19 DEF Save
<1>20. CASE SetAside
  BY <1>20 DEF SetAside
<1>21. CASE Restart
  BY <1>21 DEF Restart
<1>22. CASE Repair
  BY <1>22 DEF Repair, Reloaded, Fault
<1>23. CASE Stop
  BY <1>23 DEF Stop, Fault
<1>24. CASE Crash
  BY <1>24 DEF Crash, LoseProcess, Fault, Idle
<1>25. CASE TearCopy
  BY <1>25 DEF TearCopy, LoseProcess, Fault, Idle
<1>26. ASSUME NEW content \in Drafts \cup {Absent}, Touch(content) PROVE FileAccounted'
  BY <1>26 DEF Touch
<1>27. CASE UNCHANGED vars
  BY <1>27 DEF vars
<1> QED
  BY ONLY [Next]_vars, <1>1, <1>2, <1>3, <1>4, <1>5, <1>6, <1>7, <1>8, <1>9, <1>10, <1>11,
     <1>12, <1>13, <1>14, <1>15, <1>16, <1>17, <1>18, <1>19, <1>20, <1>21, <1>22, <1>23, <1>24,
     <1>25, <1>26, <1>27
     DEF Next, Engine

\* No step of a session takes what the owner writes but into the backup.
LEMMA DraftAccountedNext == Accounted /\ [Next]_vars => DraftAccounted'
<1> SUFFICES ASSUME Accounted, [Next]_vars PROVE DraftAccounted'
  OBVIOUS
<1> USE AccountedFacts
    DEF PriorJournaled, ChangedStops, DraftAccounted, SettingAside, Away,
        BackupChanged, At, Prior, Go, End, Failed, disk, settings, history, TypeOK
<1>1. CASE BeginApply
  BY <1>1 DEF BeginApply
<1>2. CASE PrepareOperation
  BY <1>2 DEF PrepareOperation, LocalUnchanged
<1>3. CASE Stage
  BY <1>3 DEF Stage, LocalUnchanged
<1>4. CASE ArchiveEarlierBackup
  BY <1>4 DEF ArchiveEarlierBackup
<1>5. CASE RenameToBackup
  BY <1>5 DEF RenameToBackup
<1>6. CASE BackUp
  BY <1>6 DEF BackUp, LocalUnchanged
<1>7. CASE Promote
  BY <1>7 DEF Promote
<1>8. CASE CopyStage
  BY <1>8 DEF CopyStage, DestinationFree
<1>9. CASE CheckApplied
  BY <1>9 DEF CheckApplied
<1>10. CASE RollBack
  BY <1>10 DEF RollBack, CanUndo
<1>11. CASE Undo
  BY <1>11 DEF Undo, CopyBackup, DestinationFree
<1>12. CASE Resume
  BY <1>12 DEF Resume
<1>13. CASE Hold
  BY <1>13 DEF Hold
<1>14. CASE Recover
  BY <1>14 DEF Recover, CanUndo, MustHold, CopyUncertain
<1>15. CASE UndoAndDecide
  BY <1>15 DEF UndoAndDecide, CopyBackup, DestinationFree
<1>16. CASE Decide
  BY <1>16 DEF Decide, LocalChange
<1>17. CASE FinishArchive
  BY <1>17 DEF FinishArchive
<1>18. CASE FinishForget
  BY <1>18 DEF FinishForget
<1>19. CASE Save
  BY <1>19 DEF Save
<1>20. CASE SetAside
  BY <1>20 DEF SetAside
<1>21. CASE Restart
  BY <1>21 DEF Restart
<1>22. CASE Repair
  BY <1>22 DEF Repair, Reloaded, Fault
<1>23. CASE Stop
  BY <1>23 DEF Stop, Fault
<1>24. CASE Crash
  BY <1>24 DEF Crash, LoseProcess, Fault, Idle
<1>25. CASE TearCopy
  BY <1>25 DEF TearCopy, LoseProcess, Fault, Idle
<1>26. ASSUME NEW content \in Drafts \cup {Absent}, Touch(content) PROVE DraftAccounted'
  BY <1>26 DEF Touch
<1>27. CASE UNCHANGED vars
  BY <1>27 DEF vars
<1> QED
  BY ONLY [Next]_vars, <1>1, <1>2, <1>3, <1>4, <1>5, <1>6, <1>7, <1>8, <1>9, <1>10, <1>11,
     <1>12, <1>13, <1>14, <1>15, <1>16, <1>17, <1>18, <1>19, <1>20, <1>21, <1>22, <1>23, <1>24,
     <1>25, <1>26, <1>27
     DEF Next, Engine

\* Nothing is under way in the beginning.
LEMMA AccountedInit == Init => Accounted
<1> SUFFICES ASSUME Init PROVE Accounted
  OBVIOUS
<1>1. Safe
  BY TypeInit DEF Init, Safe, OwnerVersionKept, BackupFreeForRename, At, Idle
<1>2. /\ session.step = "idle" /\ journal = None /\ ~applied
      /\ \A p \in Local : backups[p] = Absent
  BY DEF Init, Idle
<1> QED
  BY <1>1, <1>2, TypeInit
     DEF Accounted, BackupJournaled, PriorJournaled, BackupKnown, ChangedStops, FileAccounted,
         DraftAccounted, Trying, Undoing, Finishing, SettingAside, BackedUp, BackupChanged,
         TryStep, At

\* The invariant is inductive.
LEMMA AccountedNext == Accounted /\ [Next]_vars => Accounted'
BY SafeNext, BackupJournaledNext, PriorJournaledNext, BackupKnownNext, ChangedStopsNext,
   FileAccountedNext, DraftAccountedNext DEF Accounted

\* At each point of a session, for any drafts, faults and repairs, what the file, its
\* backup and the journal hold is accounted for (stageAndApply, resumePendingApplication).
THEOREM Invariance == Spec => []Accounted
BY AccountedInit, AccountedNext, PTL DEF Spec

\* When the snapshot counts as applied to a file its owner left alone, no original
\* is stranded in a backup.
THEOREM ArchivedWhenApplied == Spec => []OriginalsArchived
<1>1. Accounted => OriginalsArchived
  BY DEF Accounted, BackupKnown, OriginalsArchived, Away, BackedUp
<1> QED
  BY <1>1, Invariance, PTL

\* The device counts the snapshot as applied only over what it should.
THEOREM AppliedTruly == Spec => AppliedMeansDone
<1> DEFINE Done == applied' /\ ~applied =>
                     /\ owner = "away" => file = target
                     /\ owner = "editing" /\ draft \notin {Absent, journal} => file = draft
<1>1. ASSUME Accounted, [Next]_vars PROVE Done
  <2>1. CASE applied' = applied
    BY <2>1
  <2>2. CASE Save
    <3>1. journal # None /\ session.step = "save"
      BY <1>1, <2>2, ContentsAssumption DEF Save, At, Accounted, BackupJournaled
    <3>2. Away => file = target
      BY <1>1, <3>1 DEF Accounted, FileAccounted, Finishing
    <3>3. ~BackupChanged(journal) /\ journal \in Local
      BY <1>1, <3>1, AccountedFacts DEF ChangedStops, TypeOK
    <3>4. owner = "editing" /\ draft \notin {Absent, journal} => file = draft
      BY <1>1, <3>1, <3>3 DEF Accounted, DraftAccounted, BackupChanged
    <3> QED
      BY <3>2, <3>4 DEF Away
  <2>3. Engine => Save \/ applied' = applied
    BY
       DEF Engine, BeginApply, PrepareOperation, Stage, ArchiveEarlierBackup, RenameToBackup,
           BackUp, Promote, CopyStage, CheckApplied, RollBack, Undo, Resume, Hold, Recover,
           UndoAndDecide, Decide, FinishArchive, FinishForget, SetAside, Restart,
           CopyBackup, settings
  <2>4. [Next]_vars => Engine \/ applied' = applied
    BY DEF Next, Touch, Repair, Stop, Crash, TearCopy, LoseProcess, vars, settings
  <2> QED
    BY <1>1, <2>1, <2>2, <2>3, <2>4
<1> QED
  BY <1>1, Invariance, PTL DEF Spec, AppliedMeansDone

-----------------------------------------------------------------------------
(***************************************************************************)
(* The scheduler, whose sessions apply: proofs about SyncScheduler for any *)
(* bounds.  It is instantiated here under the variable names version and   *)
(* syncTask for its disk and session.  The types, that a cancelled         *)
(* operation does no more work (CancelledStaysCancelled) and that sessions *)
(* do not overlap in the queue (OneSession).                               *)
(*                                                                         *)
(* A generation that ends cancels the whole queue, so an operation of the  *)
(* present one was asked for since (FreshIsAsked); a session waits for the *)
(* one operation it asked for (OneSession).  Both are statements about the *)
(* queue: each action either leaves it, cancels it, adds to its end, moves *)
(* its first operation on or takes that away, which are the five lemmas    *)
(* after the invariant.                                                    *)
(***************************************************************************)
CONSTANTS MaxRemote
VARIABLES gate, owned, queue, syncTask, running, debounce, armed, again, version, known, seen,
          owes, event, expected, verify, recent, dirty, read, count, unsaid

Sync == INSTANCE SyncScheduler WITH disk <- version, session <- syncTask

\* An operation in the queue: who asked, whether its generation is the engine's, where it is.
Kinds   == {"sync", "exclusive", "inventory"}
Results == {"none", "ok", "cancelled", "transient", "error", "changed", "found", "nothing"}
Ops     == [kind : Kinds, fresh : BOOLEAN, asked : BOOLEAN,
            at : {"queued", "scan", "expect", "write", "final", "done"}, result : Results]
Maybe   == Nat \cup {None}

\* The types, in parts.
TypeGates == /\ gate \in [stopped : BOOLEAN, paused : BOOLEAN, blocked : BOOLEAN, hold : BOOLEAN]
             /\ armed \in BOOLEAN /\ owned \in BOOLEAN
TypeTask  == /\ syncTask \in {"none", "settle", "try", "engine", "transient", "ok", "cancelled",
                             "changed", "error", "end", "again", "exclusive"}
             /\ running \in BOOLEAN /\ debounce \in BOOLEAN /\ again \in BOOLEAN
TypeQueue == queue \in Seq(Ops)
TypeTracking ==
    /\ event \in BOOLEAN /\ recent \in BOOLEAN /\ dirty \in {"no", "before", "since"}
    /\ expected \in Maybe /\ verify \in Maybe
TypeFile  == /\ version \in Nat /\ known \in Nat /\ seen \in Nat
             /\ owes \in BOOLEAN /\ unsaid \in BOOLEAN
TypeRead  == read \in [disk : Maybe, target : Maybe]
TypeCount == count \in [edits : Nat, remote : Nat, faults : Nat]
SyncTypeOK    == /\ TypeGates /\ TypeTask /\ TypeQueue /\ TypeTracking /\ TypeFile
                 /\ TypeRead /\ TypeCount

\* An operation of the present generation has not been cancelled.
FreshIsAsked == \A i \in 1 .. Len(queue) : queue[i].fresh => queue[i].asked

\* Only the first operation is at work.
OneAtWork == \A i \in 2 .. Len(queue) : queue[i].at = "queued"

\* One operation of the queue is a session's, and only while the session waits for it.
OneSession ==
    /\ \A i \in 1 .. Len(queue) : queue[i].kind = "sync" => syncTask = "engine"
    /\ \A i \in 1 .. Len(queue) : queue[i].kind = "exclusive" => syncTask = "exclusive"
    /\ \A i, j \in 1 .. Len(queue) : queue[i].kind # "inventory"
         /\ queue[j].kind # "inventory" => i = j

\* What an operation has found out by the time it is where it is.
PlacesSound ==
    \A i \in 1 .. Len(queue) :
        /\ queue[i].at \in {"expect", "write"} =>
              /\ queue[i].kind = "sync" /\ read.target \in Nat /\ read.disk \in Nat
        /\ queue[i].kind = "sync" /\ queue[i].at = "done" =>
              queue[i].result \in {"ok", "cancelled", "transient", "error", "changed"}
        /\ queue[i].kind = "inventory" => queue[i].result \in {"none", "found", "nothing",
             "cancelled"}

\* The inductive invariant ...
SyncInv == SyncTypeOK /\ FreshIsAsked /\ OneAtWork /\ OneSession /\ PlacesSound

\* ... in two parts: what is said of the queue, and the types of the rest.
QueueSound == TypeQueue /\ FreshIsAsked /\ OneAtWork /\ OneSession /\ PlacesSound
RestSound  == TypeGates /\ TypeTask /\ TypeTracking /\ TypeFile /\ TypeRead /\ TypeCount

\* The queue and what is said of it stay.
LEMMA QueueStays ==
  ASSUME QueueSound, UNCHANGED <<queue, syncTask, read>>
  PROVE  QueueSound'
BY DEF QueueSound, TypeQueue, FreshIsAsked, OneAtWork, OneSession, PlacesSound

\* A new generation cancels every operation of the queue.
LEMMA QueueCancelled ==
  ASSUME QueueSound, Sync!Cancel, UNCHANGED <<syncTask, read>>
  PROVE  QueueSound'
<1>1. /\ queue \in Seq(Ops) /\ Len(queue) \in Nat
      /\ \A i \in 1 .. Len(queue) : queue[i] \in Ops
  BY DEF QueueSound, TypeQueue
<1> DEFINE cancelled(i) == [queue[i] EXCEPT !.fresh = FALSE, !.asked = FALSE]
<1>2. queue' = [i \in 1 .. Len(queue) |-> cancelled(i)] BY DEF Sync!Cancel
<1>3. \A i \in 1 .. Len(queue) :
        /\ cancelled(i) \in Ops /\ cancelled(i).kind = queue[i].kind
             /\ cancelled(i).at = queue[i].at
        /\ cancelled(i).result = queue[i].result /\ ~cancelled(i).fresh
  BY <1>1 DEF Ops
<1> HIDE DEF cancelled
<1>4. queue' \in Seq(Ops) /\ Len(queue') = Len(queue) BY <1>1, <1>2, <1>3
<1>5. \A i \in 1 .. Len(queue) : queue'[i] = cancelled(i) BY <1>2
<1>6. TypeQueue' BY <1>4 DEF TypeQueue
<1>7. FreshIsAsked' BY <1>3, <1>4, <1>5 DEF FreshIsAsked
<1>8. OneAtWork' BY <1>1, <1>3, <1>4, <1>5 DEF QueueSound, OneAtWork
<1>9. OneSession' BY <1>1, <1>3, <1>4, <1>5 DEF QueueSound, OneSession
<1>10. PlacesSound' BY <1>1, <1>3, <1>4, <1>5 DEF QueueSound, PlacesSound
<1> QED BY <1>6, <1>7, <1>8, <1>9, <1>10 DEF QueueSound

\* An operation is added at the end, by a session that begins to wait or by the check.
LEMMA QueueAsked ==
  ASSUME QueueSound, NEW kind \in Kinds, Sync!Ask(kind), read' = read,
         \/ kind = "inventory" /\ syncTask' = syncTask
         \/ /\ syncTask \notin {"engine", "exclusive"}
            /\ \/ kind = "sync" /\ syncTask' = "engine"
               \/ kind = "exclusive" /\ syncTask' = "exclusive"
  PROVE  QueueSound'
<1> DEFINE n == Len(queue)
           op == [kind |-> kind, fresh |-> TRUE, asked |-> TRUE, at |-> "queued", result |-> "none"]
           before == IF kind = "inventory" THEN queue ELSE [i \in 1 .. n |-> Sync!Yield(queue[i])]
<1>1. /\ queue \in Seq(Ops) /\ n \in Nat
      /\ \A i \in 1 .. n : queue[i] \in Ops
  BY DEF QueueSound, TypeQueue
<1>2. queue' = Append(before, op) BY DEF Sync!Ask
<1>3. op \in Ops BY DEF Ops, Results
<1>4. \A i \in 1 .. n :
        /\ before[i] \in Ops /\ before[i].kind = queue[i].kind /\ before[i].at = queue[i].at
        /\ before[i].result = queue[i].result
        /\ before[i].fresh => queue[i].fresh
        /\ before[i].asked = queue[i].asked
  BY <1>1 DEF Sync!Yield, Ops
<1>5. before \in Seq(Ops) /\ Len(before) = n BY <1>1, <1>4
<1>6. op.kind = kind /\ op.at = "queued" /\ op.result = "none" /\ op.asked OBVIOUS
<1> HIDE DEF before, op
<1>7. /\ queue' \in Seq(Ops) /\ Len(queue') = n + 1 /\ queue'[n + 1] = op
      /\ \A i \in 1 .. n : queue'[i] = before[i]
  BY <1>2, <1>3, <1>5
<1>8. \A i \in 1 .. n + 1 : i \in 1 .. n \/ i = n + 1 BY <1>1
<1> HIDE DEF n
<1>9. TypeQueue' BY <1>7 DEF TypeQueue
<1>10. FreshIsAsked' BY <1>4, <1>6, <1>7, <1>8 DEF FreshIsAsked, QueueSound, n
<1>11. OneAtWork' BY <1>1, <1>4, <1>6, <1>7, <1>8 DEF OneAtWork, QueueSound, n
<1>12. \A i \in 1 .. n : kind # "inventory" => queue[i].kind = "inventory"
  BY <1>1 DEF QueueSound, OneSession, n, Ops, Kinds
<1>13. OneSession' BY <1>4, <1>6, <1>7, <1>8, <1>12 DEF OneSession, QueueSound, n
<1>14. PlacesSound' BY <1>4, <1>6, <1>7, <1>8 DEF PlacesSound, QueueSound, n
<1> QED BY <1>9, <1>10, <1>11, <1>13, <1>14 DEF QueueSound

\* The first operation has ended and leaves the queue.
LEMMA QueuePopped ==
  ASSUME QueueSound, NEW kind \in Kinds, Sync!Settled(kind), queue' = Tail(queue),
         \/ kind = "inventory" /\ syncTask' = syncTask
         \/ kind # "inventory",
         read' = read
  PROVE  /\ QueueSound'
         /\ Head(queue) \in Ops /\ Head(queue) = queue[1] /\ 1 \in 1 .. Len(queue)
<1> DEFINE n == Len(queue)
<1>1. /\ queue \in Seq(Ops) /\ n \in Nat /\ n # 0
      /\ \A i \in 1 .. n : queue[i] \in Ops
  BY DEF QueueSound, TypeQueue, Sync!Settled
<1>2. Head(queue) = queue[1] /\ queue[1].kind = kind /\ 1 \in 1 .. n BY <1>1 DEF Sync!Settled
<1>3. /\ queue' \in Seq(Ops) /\ Len(queue') = n - 1
      /\ \A i \in 1 .. n - 1 : queue'[i] = queue[i + 1]
  BY <1>1
<1>4. \A i \in 1 .. n - 1 : i + 1 \in 2 .. n /\ i + 1 \in 1 .. n /\ i + 1 # 1 BY <1>1
<1>5. \A i, j \in 1 .. n - 1 : i + 1 = j + 1 => i = j BY <1>1
<1> HIDE DEF n
<1>6. TypeQueue' BY <1>3 DEF TypeQueue
<1>7. FreshIsAsked' BY <1>3, <1>4 DEF FreshIsAsked, QueueSound, n
<1>8. OneAtWork'
  <2>1. \A i \in 2 .. n - 1 : i \in 1 .. n - 1 BY <1>1
  <2> QED BY <1>3, <1>4, <2>1 DEF OneAtWork, QueueSound, n
<1>9. OneSession'
  <2>1. CASE kind = "inventory" BY <1>3, <1>4, <1>5, <2>1 DEF OneSession, QueueSound, n
  <2>2. CASE kind # "inventory"
    <3>1. \A i \in 1 .. n - 1 : queue[i + 1].kind = "inventory"
      BY <1>2, <1>4, <2>2 DEF OneSession, QueueSound, n
    <3> QED BY <1>3, <1>4, <3>1 DEF OneSession, n
  <2> QED BY <2>1, <2>2
<1>10. PlacesSound' BY <1>3, <1>4 DEF PlacesSound, QueueSound, n
<1> QED BY <1>1, <1>2, <1>6, <1>7, <1>8, <1>9, <1>10 DEF QueueSound, n

\* The first operation moves on.
LEMMA QueueWorks ==
  ASSUME QueueSound, queue # <<>>, NEW op \in Ops, queue' = [queue EXCEPT ![1] = op],
         op.kind = Head(queue).kind, op.fresh => op.asked, syncTask' = syncTask,
         Head(queue).kind = "sync" \/ read' = read,
         op.at \in {"expect", "write"} =>
              op.kind = "sync" /\ read'.target \in Nat /\ read'.disk \in Nat,
         op.kind = "sync" /\ op.at = "done" =>
              op.result \in {"ok", "cancelled", "transient", "error", "changed"},
         op.kind = "inventory" => op.result \in {"none", "found", "nothing", "cancelled"}
  PROVE  QueueSound'
<1> DEFINE n == Len(queue)
<1>1. /\ queue \in Seq(Ops) /\ n \in Nat /\ n # 0
      /\ \A i \in 1 .. n : queue[i] \in Ops
  BY DEF QueueSound, TypeQueue
<1>2. Head(queue) = queue[1] /\ 1 \in 1 .. n BY <1>1
<1>3. /\ queue' \in Seq(Ops) /\ Len(queue') = n /\ queue'[1] = op
      /\ \A i \in 1 .. n : i # 1 => queue'[i] = queue[i]
  BY <1>1, <1>2
<1>4. \A i \in 2 .. n : i # 1 /\ i \in 1 .. n BY <1>1
<1>5. \A i \in 1 .. n : i # 1 => i \in 2 .. n BY <1>1
<1> HIDE DEF n
<1>6. TypeQueue' BY <1>3 DEF TypeQueue
<1>7. FreshIsAsked' BY <1>3 DEF FreshIsAsked, QueueSound, n
<1>8. OneAtWork' BY <1>3, <1>4 DEF OneAtWork, QueueSound, n
<1>9. OneSession'
  <2>1. \A i \in 1 .. n : queue'[i].kind = queue[i].kind BY <1>2, <1>3
  <2> QED BY <1>3, <2>1 DEF OneSession, QueueSound, n
<1>10. PlacesSound'
  <2>1. \A i \in 2 .. n : queue[i].at = "queued" BY DEF OneAtWork, QueueSound, n
  <2> QED BY <1>3, <1>5, <2>1 DEF PlacesSound, QueueSound, n
<1> QED BY <1>6, <1>7, <1>8, <1>9, <1>10 DEF QueueSound

\* The invariant is its two parts, before a step and after it.
LEMMA InvIs == (SyncInv <=> RestSound /\ QueueSound) /\ (SyncInv' <=> RestSound' /\ QueueSound')
BY DEF SyncInv, SyncTypeOK, RestSound, QueueSound

\* The owner edits the file.
LEMMA EditStep == ASSUME SyncInv, Sync!Edit PROVE SyncInv'
<1>1. RestSound'
  <2>1. TypeGates' BY DEF Sync!Edit, Sync!Version, SyncInv, SyncTypeOK, Sync!gates, TypeGates
  <2>2. TypeTask' BY DEF Sync!Edit, Sync!Version, SyncInv, SyncTypeOK, Sync!task, TypeTask
  <2>3. TypeTracking'
    BY DEF Sync!Edit, Sync!Version, SyncInv, SyncTypeOK, Sync!tracking, TypeTracking
  <2>4. TypeFile'
    <3>1. version' \in Nat BY DEF Sync!Edit, Sync!Version, SyncInv, SyncTypeOK, TypeCount
    <3> QED BY <3>1 DEF Sync!Edit, SyncInv, SyncTypeOK, TypeFile
  <2>5. TypeRead' BY DEF Sync!Edit, Sync!Version, SyncInv, SyncTypeOK, TypeRead
  <2>6. TypeCount' BY DEF Sync!Edit, Sync!Version, SyncInv, SyncTypeOK, TypeCount
  <2> QED BY <2>1, <2>2, <2>3, <2>4, <2>5, <2>6 DEF RestSound
<1>2. QueueSound' BY InvIs, QueueStays DEF Sync!Edit, Sync!task, Sync!gates, Sync!file
<1> QED BY <1>1, <1>2, InvIs

\* A vault event is heard.
LEMMA HearStep == ASSUME SyncInv, Sync!Hear PROVE SyncInv'
<1>1. RestSound'
  <2>1. TypeGates'
    BY DEF Sync!Hear, Sync!Note, Sync!NoNote, Maybe, SyncInv, SyncTypeOK, Sync!gates, TypeGates
  <2>2. TypeTask'
    BY DEF Sync!Hear, Sync!Note, Sync!NoNote, Maybe, SyncInv, SyncTypeOK, Sync!task, TypeTask
  <2>3. TypeTracking'
    BY DEF Sync!Hear, Sync!Note, Sync!NoNote, Maybe, SyncInv, SyncTypeOK, Sync!tracking,
           TypeTracking
  <2>4. TypeFile'
    BY DEF Sync!Hear, Sync!Note, Sync!NoNote, Maybe, SyncInv, SyncTypeOK, Sync!file, TypeFile
  <2>5. TypeRead' BY DEF Sync!Hear, Sync!Note, Sync!NoNote, Maybe, SyncInv, SyncTypeOK, TypeRead
  <2>6. TypeCount' BY DEF Sync!Hear, Sync!Note, Sync!NoNote, Maybe, SyncInv, SyncTypeOK, TypeCount
  <2> QED BY <2>1, <2>2, <2>3, <2>4, <2>5, <2>6 DEF RestSound
<1>2. QueueSound' BY InvIs, QueueStays DEF Sync!Hear, Sync!task, Sync!gates, Sync!file
<1> QED BY <1>1, <1>2, InvIs

\* An expected write is verified.
LEMMA VerifyStep == ASSUME SyncInv, Sync!Verify PROVE SyncInv'
<1>1. RestSound'
  <2>1. TypeGates'
    BY DEF Sync!Verify, Sync!Taken, Sync!Note, Sync!NoNote, Maybe, SyncInv, SyncTypeOK,
           Sync!gates, TypeGates
  <2>2. TypeTask'
    BY DEF Sync!Verify, Sync!Taken, Sync!Note, Sync!NoNote, Maybe, SyncInv, SyncTypeOK,
           Sync!task, TypeTask
  <2>3. TypeTracking'
    BY DEF Sync!Verify, Sync!Taken, Sync!Note, Sync!NoNote, Maybe, SyncInv, SyncTypeOK,
           Sync!tracking, TypeTracking
  <2>4. TypeFile'
    BY DEF Sync!Verify, Sync!Taken, Sync!Note, Sync!NoNote, Maybe, SyncInv, SyncTypeOK,
           Sync!file, TypeFile
  <2>5. TypeRead'
    BY DEF Sync!Verify, Sync!Taken, Sync!Note, Sync!NoNote, Maybe, SyncInv, SyncTypeOK, TypeRead
  <2>6. TypeCount'
    BY DEF Sync!Verify, Sync!Taken, Sync!Note, Sync!NoNote, Maybe, SyncInv, SyncTypeOK,
           TypeCount
  <2> QED BY <2>1, <2>2, <2>3, <2>4, <2>5, <2>6 DEF RestSound
<1>2. QueueSound' BY InvIs, QueueStays DEF Sync!Verify, Sync!Taken, Sync!task, Sync!gates, Sync!file
<1> QED BY <1>1, <1>2, InvIs

\* The settle window passes.
LEMMA QuietStep == ASSUME SyncInv, Sync!Quiet PROVE SyncInv'
<1>1. RestSound'
  <2>1. TypeGates' BY DEF Sync!Quiet, SyncInv, SyncTypeOK, Sync!gates, TypeGates
  <2>2. TypeTask' BY DEF Sync!Quiet, SyncInv, SyncTypeOK, Sync!task, TypeTask
  <2>3. TypeTracking' BY DEF Sync!Quiet, SyncInv, SyncTypeOK, Sync!tracking, TypeTracking
  <2>4. TypeFile' BY DEF Sync!Quiet, SyncInv, SyncTypeOK, Sync!file, TypeFile
  <2>5. TypeRead' BY DEF Sync!Quiet, SyncInv, SyncTypeOK, TypeRead
  <2>6. TypeCount' BY DEF Sync!Quiet, SyncInv, SyncTypeOK, TypeCount
  <2> QED BY <2>1, <2>2, <2>3, <2>4, <2>5, <2>6 DEF RestSound
<1>2. QueueSound' BY InvIs, QueueStays DEF Sync!Quiet, Sync!task, Sync!gates, Sync!file
<1> QED BY <1>1, <1>2, InvIs

\* The owner pauses: what runs is cancelled.
LEMMA PauseStep == ASSUME SyncInv, Sync!Pause PROVE SyncInv'
<1>1. RestSound'
  <2>1. TypeGates'
    BY DEF Sync!Pause, Sync!Block, Sync!Raise, Sync!Cancel, SyncInv, SyncTypeOK, Sync!gates,
           TypeGates
  <2>2. TypeTask'
    BY DEF Sync!Pause, Sync!Block, Sync!Raise, SyncInv, SyncTypeOK, Sync!task, TypeTask
  <2>3. TypeTracking'
    BY DEF Sync!Pause, Sync!Block, Sync!Raise, SyncInv, SyncTypeOK, Sync!tracking, TypeTracking
  <2>4. TypeFile'
    BY DEF Sync!Pause, Sync!Block, Sync!Raise, SyncInv, SyncTypeOK, Sync!file, TypeFile
  <2>5. TypeRead' BY DEF Sync!Pause, Sync!Block, Sync!Raise, SyncInv, SyncTypeOK, TypeRead
  <2>6. TypeCount' BY DEF Sync!Pause, Sync!Block, Sync!Raise, SyncInv, SyncTypeOK, TypeCount
  <2> QED BY <2>1, <2>2, <2>3, <2>4, <2>5, <2>6 DEF RestSound
<1>2. QueueSound' BY InvIs, QueueCancelled DEF Sync!Pause, Sync!Block, Sync!Raise
<1> QED BY <1>1, <1>2, InvIs

\* Obsidian Sync or the server forbids work: what runs is cancelled.
LEMMA ProtectStep == ASSUME SyncInv, Sync!Protect PROVE SyncInv'
<1>1. RestSound'
  <2>1. TypeGates'
    BY DEF Sync!Protect, Sync!Block, Sync!Raise, Sync!Cancel, SyncInv, SyncTypeOK, Sync!gates,
           TypeGates
  <2>2. TypeTask'
    BY DEF Sync!Protect, Sync!Block, Sync!Raise, SyncInv, SyncTypeOK, Sync!task, TypeTask
  <2>3. TypeTracking'
    BY DEF Sync!Protect, Sync!Block, Sync!Raise, SyncInv, SyncTypeOK, Sync!tracking,
           TypeTracking
  <2>4. TypeFile'
    BY DEF Sync!Protect, Sync!Block, Sync!Raise, SyncInv, SyncTypeOK, Sync!file, TypeFile
  <2>5. TypeRead' BY DEF Sync!Protect, Sync!Block, Sync!Raise, SyncInv, SyncTypeOK, TypeRead
  <2>6. TypeCount' BY DEF Sync!Protect, Sync!Block, Sync!Raise, SyncInv, SyncTypeOK, TypeCount
  <2> QED BY <2>1, <2>2, <2>3, <2>4, <2>5, <2>6 DEF RestSound
<1>2. QueueSound' BY InvIs, QueueCancelled DEF Sync!Protect, Sync!Block, Sync!Raise
<1> QED BY <1>1, <1>2, InvIs

\* The plugin is unloaded: what runs is cancelled.
LEMMA StopStep == ASSUME SyncInv, Sync!Stop PROVE SyncInv'
<1>1. RestSound'
  <2>1. TypeGates'
    BY DEF Sync!Stop, Sync!Block, Sync!Raise, Sync!Cancel, SyncInv, SyncTypeOK, Sync!gates,
           TypeGates
  <2>2. TypeTask' BY DEF Sync!Stop, Sync!Block, Sync!Raise, SyncInv, SyncTypeOK, Sync!task, TypeTask
  <2>3. TypeTracking'
    BY DEF Sync!Stop, Sync!Block, Sync!Raise, SyncInv, SyncTypeOK, Sync!tracking, TypeTracking,
           Maybe
  <2>4. TypeFile' BY DEF Sync!Stop, Sync!Block, Sync!Raise, SyncInv, SyncTypeOK, Sync!file, TypeFile
  <2>5. TypeRead' BY DEF Sync!Stop, Sync!Block, Sync!Raise, SyncInv, SyncTypeOK, TypeRead
  <2>6. TypeCount' BY DEF Sync!Stop, Sync!Block, Sync!Raise, SyncInv, SyncTypeOK, TypeCount
  <2> QED BY <2>1, <2>2, <2>3, <2>4, <2>5, <2>6 DEF RestSound
<1>2. QueueSound' BY InvIs, QueueCancelled DEF Sync!Stop, Sync!Block, Sync!Raise
<1> QED BY <1>1, <1>2, InvIs

\* A safeguard or a containment holds the vault; what runs goes on.
LEMMA HoldStep == ASSUME SyncInv, Sync!Hold PROVE SyncInv'
<1>1. RestSound'
  <2>1. TypeGates' BY DEF Sync!Hold, Sync!Raise, SyncInv, SyncTypeOK, Sync!gates, TypeGates
  <2>2. TypeTask' BY DEF Sync!Hold, Sync!Raise, SyncInv, SyncTypeOK, Sync!task, TypeTask
  <2>3. TypeTracking' BY DEF Sync!Hold, Sync!Raise, SyncInv, SyncTypeOK, Sync!tracking, TypeTracking
  <2>4. TypeFile' BY DEF Sync!Hold, Sync!Raise, SyncInv, SyncTypeOK, Sync!file, TypeFile
  <2>5. TypeRead' BY DEF Sync!Hold, Sync!Raise, SyncInv, SyncTypeOK, TypeRead
  <2>6. TypeCount' BY DEF Sync!Hold, Sync!Raise, SyncInv, SyncTypeOK, TypeCount
  <2> QED BY <2>1, <2>2, <2>3, <2>4, <2>5, <2>6 DEF RestSound
<1>2. QueueSound' BY InvIs, QueueStays DEF Sync!Hold, Sync!Raise
<1> QED BY <1>1, <1>2, InvIs

\* A gate opens again.
LEMMA OpenStep ==
  ASSUME SyncInv, NEW g \in {"paused", "blocked", "hold"}, Sync!Open(g)
  PROVE  SyncInv'
<1>1. RestSound'
  <2>1. TypeGates' BY DEF Sync!Open, SyncInv, SyncTypeOK, Sync!gates, TypeGates
  <2>2. TypeTask' BY DEF Sync!Open, SyncInv, SyncTypeOK, Sync!task, TypeTask
  <2>3. TypeTracking' BY DEF Sync!Open, SyncInv, SyncTypeOK, Sync!tracking, TypeTracking
  <2>4. TypeFile' BY DEF Sync!Open, SyncInv, SyncTypeOK, Sync!file, TypeFile
  <2>5. TypeRead' BY DEF Sync!Open, SyncInv, SyncTypeOK, TypeRead
  <2>6. TypeCount' BY DEF Sync!Open, SyncInv, SyncTypeOK, TypeCount
  <2> QED BY <2>1, <2>2, <2>3, <2>4, <2>5, <2>6 DEF RestSound
<1>2. QueueSound' BY InvIs, QueueStays DEF Sync!Open
<1> QED BY <1>1, <1>2, InvIs

\* A session is asked for; the queue is as it was.
LEMMA RunStays ==
  ASSUME QueueSound, Sync!RunSync, UNCHANGED <<queue, read>>
  PROVE  QueueSound'
<1>1. CASE syncTask' = syncTask BY <1>1, QueueStays
<1>2. CASE syncTask = "none" /\ syncTask' = "settle"
  BY <1>2 DEF QueueSound, TypeQueue, FreshIsAsked, OneAtWork, OneSession, PlacesSound
<1> QED BY <1>1, <1>2 DEF Sync!RunSync

\* A queued sync is due.
LEMMA DebounceFiresStep == ASSUME SyncInv, Sync!DebounceFires PROVE SyncInv'
<1>1. RestSound'
  <2>1. TypeGates'
    BY DEF Sync!DebounceFires, Sync!RunSync, SyncInv, SyncTypeOK, Sync!gates, TypeGates
  <2>2. TypeTask' BY DEF Sync!DebounceFires, Sync!RunSync, SyncInv, SyncTypeOK, Sync!task, TypeTask
  <2>3. TypeTracking'
    BY DEF Sync!DebounceFires, Sync!RunSync, SyncInv, SyncTypeOK, Sync!tracking, TypeTracking
  <2>4. TypeFile' BY DEF Sync!DebounceFires, Sync!RunSync, SyncInv, SyncTypeOK, Sync!file, TypeFile
  <2>5. TypeRead' BY DEF Sync!DebounceFires, Sync!RunSync, SyncInv, SyncTypeOK, TypeRead
  <2>6. TypeCount' BY DEF Sync!DebounceFires, Sync!RunSync, SyncInv, SyncTypeOK, TypeCount
  <2> QED BY <2>1, <2>2, <2>3, <2>4, <2>5, <2>6 DEF RestSound
<1>2. QueueSound' BY InvIs, RunStays DEF Sync!DebounceFires
<1> QED BY <1>1, <1>2, InvIs

\* The interval has passed.
LEMMA TimerFiresStep == ASSUME SyncInv, Sync!TimerFires PROVE SyncInv'
<1>1. RestSound'
  <2>1. TypeGates' BY DEF Sync!TimerFires, Sync!RunSync, SyncInv, SyncTypeOK, Sync!gates, TypeGates
  <2>2. TypeTask' BY DEF Sync!TimerFires, Sync!RunSync, SyncInv, SyncTypeOK, Sync!task, TypeTask
  <2>3. TypeTracking'
    BY DEF Sync!TimerFires, Sync!RunSync, SyncInv, SyncTypeOK, Sync!tracking, TypeTracking
  <2>4. TypeFile' BY DEF Sync!TimerFires, Sync!RunSync, SyncInv, SyncTypeOK, Sync!file, TypeFile
  <2>5. TypeRead' BY DEF Sync!TimerFires, Sync!RunSync, SyncInv, SyncTypeOK, TypeRead
  <2>6. TypeCount' BY DEF Sync!TimerFires, Sync!RunSync, SyncInv, SyncTypeOK, TypeCount
  <2> QED BY <2>1, <2>2, <2>3, <2>4, <2>5, <2>6 DEF RestSound
<1>2. QueueSound' BY InvIs, RunStays DEF Sync!TimerFires
<1> QED BY <1>1, <1>2, InvIs

\* The session is not waiting for the engine, before or after.
LEMMA SessionMoves ==
  ASSUME QueueSound, syncTask \notin {"engine", "exclusive"}, UNCHANGED queue,
         \/ read' = read
         \/ syncTask' \notin {"engine", "exclusive"}
  PROVE  QueueSound'
<1>1. TypeQueue' /\ FreshIsAsked' /\ OneAtWork'
  BY DEF QueueSound, TypeQueue, FreshIsAsked, OneAtWork
<1>2. \A i \in 1 .. Len(queue) : queue[i].kind = "inventory"
  <2>1. \A i \in 1 .. Len(queue) : queue[i] \in Ops BY DEF QueueSound, TypeQueue
  <2> QED BY <2>1 DEF QueueSound, OneSession, Ops, Kinds
<1>3. OneSession' BY <1>2 DEF OneSession
<1>4. PlacesSound' BY <1>2 DEF QueueSound, PlacesSound
<1> QED BY <1>1, <1>3, <1>4 DEF QueueSound

\* The session waits for the owner to stop typing ...
LEMMA SettleStep == ASSUME SyncInv, Sync!Settle PROVE SyncInv'
<1>1. RestSound'
  <2>1. TypeGates' BY DEF Sync!Settle, SyncInv, SyncTypeOK, Sync!gates, TypeGates
  <2>2. TypeTask' BY DEF Sync!Settle, SyncInv, SyncTypeOK, Sync!task, TypeTask
  <2>3. TypeTracking' BY DEF Sync!Settle, SyncInv, SyncTypeOK, Sync!tracking, TypeTracking
  <2>4. TypeFile' BY DEF Sync!Settle, SyncInv, SyncTypeOK, Sync!file, TypeFile
  <2>5. TypeRead' BY DEF Sync!Settle, SyncInv, SyncTypeOK, TypeRead
  <2>6. TypeCount' BY DEF Sync!Settle, SyncInv, SyncTypeOK, TypeCount
  <2> QED BY <2>1, <2>2, <2>3, <2>4, <2>5, <2>6 DEF RestSound
<1>2. QueueSound' BY InvIs, SessionMoves DEF Sync!Settle
<1> QED BY <1>1, <1>2, InvIs

\* ... goes on waiting, ...
LEMMA NotQuietStep == ASSUME SyncInv, Sync!NotQuiet PROVE SyncInv'
<1>1. RestSound'
  <2>1. TypeGates' BY DEF Sync!NotQuiet, Sync!Queued, SyncInv, SyncTypeOK, Sync!gates, TypeGates
  <2>2. TypeTask' BY DEF Sync!NotQuiet, Sync!Queued, SyncInv, SyncTypeOK, Sync!task, TypeTask
  <2>3. TypeTracking'
    BY DEF Sync!NotQuiet, Sync!Queued, SyncInv, SyncTypeOK, Sync!tracking, TypeTracking
  <2>4. TypeFile' BY DEF Sync!NotQuiet, Sync!Queued, SyncInv, SyncTypeOK, Sync!file, TypeFile
  <2>5. TypeRead' BY DEF Sync!NotQuiet, Sync!Queued, SyncInv, SyncTypeOK, TypeRead
  <2>6. TypeCount' BY DEF Sync!NotQuiet, Sync!Queued, SyncInv, SyncTypeOK, TypeCount
  <2> QED BY <2>1, <2>2, <2>3, <2>4, <2>5, <2>6 DEF RestSound
<1>2. QueueSound' BY InvIs, SessionMoves DEF Sync!NotQuiet
<1> QED BY <1>1, <1>2, InvIs

\* ... tries again after a transient failure, ...
LEMMA RetryStep == ASSUME SyncInv, Sync!Retry PROVE SyncInv'
<1>1. RestSound'
  <2>1. TypeGates' BY DEF Sync!Retry, SyncInv, SyncTypeOK, Sync!gates, TypeGates
  <2>2. TypeTask' BY DEF Sync!Retry, SyncInv, SyncTypeOK, Sync!task, TypeTask
  <2>3. TypeTracking' BY DEF Sync!Retry, SyncInv, SyncTypeOK, Sync!tracking, TypeTracking
  <2>4. TypeFile' BY DEF Sync!Retry, SyncInv, SyncTypeOK, Sync!file, TypeFile
  <2>5. TypeRead' BY DEF Sync!Retry, SyncInv, SyncTypeOK, TypeRead
  <2>6. TypeCount' BY DEF Sync!Retry, SyncInv, SyncTypeOK, TypeCount
  <2> QED BY <2>1, <2>2, <2>3, <2>4, <2>5, <2>6 DEF RestSound
<1>2. QueueSound' BY InvIs, SessionMoves DEF Sync!Retry
<1> QED BY <1>1, <1>2, InvIs

\* ... ends well ...
LEMMA SucceedStep == ASSUME SyncInv, Sync!Succeed PROVE SyncInv'
<1>1. RestSound'
  <2>1. TypeGates' BY DEF Sync!Succeed, SyncInv, SyncTypeOK, Sync!gates, TypeGates
  <2>2. TypeTask' BY DEF Sync!Succeed, SyncInv, SyncTypeOK, Sync!task, TypeTask
  <2>3. TypeTracking' BY DEF Sync!Succeed, SyncInv, SyncTypeOK, Sync!tracking, TypeTracking
  <2>4. TypeFile' BY DEF Sync!Succeed, SyncInv, SyncTypeOK, Sync!file, TypeFile
  <2>5. TypeRead' BY DEF Sync!Succeed, SyncInv, SyncTypeOK, TypeRead
  <2>6. TypeCount' BY DEF Sync!Succeed, SyncInv, SyncTypeOK, TypeCount
  <2> QED BY <2>1, <2>2, <2>3, <2>4, <2>5, <2>6 DEF RestSound
<1>2. QueueSound' BY InvIs, SessionMoves DEF Sync!Succeed
<1> QED BY <1>1, <1>2, InvIs

\* ... or not ...
LEMMA FailStep == ASSUME SyncInv, Sync!Fail PROVE SyncInv'
<1>1. RestSound'
  <2>1. TypeGates' BY DEF Sync!Fail, SyncInv, SyncTypeOK, Sync!gates, TypeGates
  <2>2. TypeTask' BY DEF Sync!Fail, SyncInv, SyncTypeOK, Sync!task, TypeTask
  <2>3. TypeTracking' BY DEF Sync!Fail, SyncInv, SyncTypeOK, Sync!tracking, TypeTracking
  <2>4. TypeFile' BY DEF Sync!Fail, SyncInv, SyncTypeOK, Sync!file, TypeFile
  <2>5. TypeRead' BY DEF Sync!Fail, SyncInv, SyncTypeOK, TypeRead
  <2>6. TypeCount' BY DEF Sync!Fail, SyncInv, SyncTypeOK, TypeCount
  <2> QED BY <2>1, <2>2, <2>3, <2>4, <2>5, <2>6 DEF RestSound
<1>2. QueueSound' BY InvIs, SessionMoves DEF Sync!Fail
<1> QED BY <1>1, <1>2, InvIs

\* ... and makes room for the next.
LEMMA EndStep == ASSUME SyncInv, Sync!End PROVE SyncInv'
<1>1. RestSound'
  <2>1. TypeGates' BY DEF Sync!End, Sync!Unread, Maybe, SyncInv, SyncTypeOK, Sync!gates, TypeGates
  <2>2. TypeTask' BY DEF Sync!End, Sync!Unread, Maybe, SyncInv, SyncTypeOK, Sync!task, TypeTask
  <2>3. TypeTracking'
    BY DEF Sync!End, Sync!Unread, Maybe, SyncInv, SyncTypeOK, Sync!tracking, TypeTracking
  <2>4. TypeFile' BY DEF Sync!End, Sync!Unread, Maybe, SyncInv, SyncTypeOK, Sync!file, TypeFile
  <2>5. TypeRead' BY DEF Sync!End, Sync!Unread, Maybe, SyncInv, SyncTypeOK, TypeRead
  <2>6. TypeCount' BY DEF Sync!End, Sync!Unread, Maybe, SyncInv, SyncTypeOK, TypeCount
  <2> QED BY <2>1, <2>2, <2>3, <2>4, <2>5, <2>6 DEF RestSound
<1>2. QueueSound' BY InvIs, SessionMoves DEF Sync!End
<1> QED BY <1>1, <1>2, InvIs

\* The session asks the engine.
LEMMA TryEngineStep == ASSUME SyncInv, Sync!Try PROVE SyncInv'
<1>1. RestSound'
  <2>1. TypeGates' BY DEF Sync!Try, SyncInv, SyncTypeOK, Sync!gates, TypeGates
  <2>2. TypeTask' BY DEF Sync!Try, SyncInv, SyncTypeOK, Sync!task, TypeTask
  <2>3. TypeTracking' BY DEF Sync!Try, SyncInv, SyncTypeOK, Sync!tracking, TypeTracking
  <2>4. TypeFile' BY DEF Sync!Try, SyncInv, SyncTypeOK, Sync!file, TypeFile
  <2>5. TypeRead' BY DEF Sync!Try, SyncInv, SyncTypeOK, TypeRead
  <2>6. TypeCount' BY DEF Sync!Try, SyncInv, SyncTypeOK, TypeCount
  <2> QED BY <2>1, <2>2, <2>3, <2>4, <2>5, <2>6 DEF RestSound
<1>2. QueueSound'  
  <2>1. CASE Sync!CanContinueOperation
    BY <2>1, InvIs, QueueAsked DEF Sync!Try, Kinds
  <2>2. CASE ~Sync!CanContinueOperation
    BY <2>2, InvIs, SessionMoves DEF Sync!Try
  <2> QED BY <2>1, <2>2
<1> QED BY <1>1, <1>2, InvIs

\* The engine has answered the session.
LEMMA ReturnStep == ASSUME SyncInv, Sync!Return PROVE SyncInv'
<1>0. Sync!Return => /\ QueueSound' /\ Head(queue) = queue[1] /\ 1 \in 1 .. Len(queue)
               /\ Head(queue).kind = "sync" /\ Head(queue).at = "done"
  BY InvIs, QueuePopped DEF Sync!Return, Kinds, Sync!Settled
<1>1. RestSound'
  <2>1. TypeGates' BY <1>0 DEF Sync!Return, SyncInv, SyncTypeOK, Sync!gates, TypeGates
  <2>2. TypeTask'
    BY <1>0
       DEF Sync!Return, SyncInv, SyncTypeOK, Sync!task, TypeTask, PlacesSound, QueueSound,
           Sync!Settled
  <2>3. TypeTracking' BY <1>0 DEF Sync!Return, SyncInv, SyncTypeOK, Sync!tracking, TypeTracking
  <2>4. TypeFile' BY <1>0 DEF Sync!Return, SyncInv, SyncTypeOK, Sync!file, TypeFile
  <2>5. TypeRead' BY <1>0 DEF Sync!Return, SyncInv, SyncTypeOK, TypeRead
  <2>6. TypeCount' BY <1>0 DEF Sync!Return, SyncInv, SyncTypeOK, TypeCount
  <2> QED BY <2>1, <2>2, <2>3, <2>4, <2>5, <2>6 DEF RestSound
<1>2. QueueSound' BY InvIs, QueuePopped DEF Sync!Return, Kinds
<1> QED BY <1>1, <1>2, InvIs

\* An operation that must run alone is asked for ...
LEMMA ExcludeStep == ASSUME SyncInv, Sync!Exclude PROVE SyncInv'
<1>1. RestSound'
  <2>1. TypeGates' BY DEF Sync!Exclude, SyncInv, SyncTypeOK, Sync!gates, TypeGates
  <2>2. TypeTask' BY DEF Sync!Exclude, SyncInv, SyncTypeOK, Sync!task, TypeTask
  <2>3. TypeTracking' BY DEF Sync!Exclude, SyncInv, SyncTypeOK, Sync!tracking, TypeTracking
  <2>4. TypeFile' BY DEF Sync!Exclude, SyncInv, SyncTypeOK, Sync!file, TypeFile
  <2>5. TypeRead' BY DEF Sync!Exclude, SyncInv, SyncTypeOK, TypeRead
  <2>6. TypeCount' BY DEF Sync!Exclude, SyncInv, SyncTypeOK, TypeCount
  <2> QED BY <2>1, <2>2, <2>3, <2>4, <2>5, <2>6 DEF RestSound
<1>2. QueueSound' BY InvIs, QueueAsked DEF Sync!Exclude, Kinds
<1> QED BY <1>1, <1>2, InvIs

\* ... and has run.
LEMMA ExcludedStep == ASSUME SyncInv, Sync!Excluded PROVE SyncInv'
<1>1. RestSound'
  <2>1. TypeGates' BY DEF Sync!Excluded, SyncInv, SyncTypeOK, Sync!gates, TypeGates
  <2>2. TypeTask' BY DEF Sync!Excluded, SyncInv, SyncTypeOK, Sync!task, TypeTask
  <2>3. TypeTracking' BY DEF Sync!Excluded, SyncInv, SyncTypeOK, Sync!tracking, TypeTracking
  <2>4. TypeFile' BY DEF Sync!Excluded, SyncInv, SyncTypeOK, Sync!file, TypeFile
  <2>5. TypeRead' BY DEF Sync!Excluded, SyncInv, SyncTypeOK, TypeRead
  <2>6. TypeCount' BY DEF Sync!Excluded, SyncInv, SyncTypeOK, TypeCount
  <2> QED BY <2>1, <2>2, <2>3, <2>4, <2>5, <2>6 DEF RestSound
<1>2. QueueSound' BY InvIs, QueuePopped DEF Sync!Excluded, Kinds
<1> QED BY <1>1, <1>2, InvIs

\* The check of the inventory is asked for ...
LEMMA CheckInventoryStep == ASSUME SyncInv, Sync!CheckInventory PROVE SyncInv'
<1>1. RestSound'
  <2>1. TypeGates' BY DEF Sync!CheckInventory, SyncInv, SyncTypeOK, Sync!gates, TypeGates
  <2>2. TypeTask' BY DEF Sync!CheckInventory, SyncInv, SyncTypeOK, Sync!task, TypeTask
  <2>3. TypeTracking' BY DEF Sync!CheckInventory, SyncInv, SyncTypeOK, Sync!tracking, TypeTracking
  <2>4. TypeFile' BY DEF Sync!CheckInventory, SyncInv, SyncTypeOK, Sync!file, TypeFile
  <2>5. TypeRead' BY DEF Sync!CheckInventory, SyncInv, SyncTypeOK, TypeRead
  <2>6. TypeCount' BY DEF Sync!CheckInventory, SyncInv, SyncTypeOK, TypeCount
  <2> QED BY <2>1, <2>2, <2>3, <2>4, <2>5, <2>6 DEF RestSound
<1>2. QueueSound' BY InvIs, QueueAsked DEF Sync!CheckInventory, Kinds, Sync!task
<1> QED BY <1>1, <1>2, InvIs

\* ... and has told what it found.
LEMMA InventoriedStep == ASSUME SyncInv, Sync!Inventoried PROVE SyncInv'
<1>1. RestSound'
  <2>1. TypeGates'
    BY DEF Sync!Inventoried, Sync!Note, Sync!NoNote, Maybe, SyncInv, SyncTypeOK, Sync!gates,
           TypeGates
  <2>2. TypeTask'
    BY DEF Sync!Inventoried, Sync!Note, Sync!NoNote, Maybe, SyncInv, SyncTypeOK, Sync!task,
           TypeTask
  <2>3. TypeTracking'
    BY DEF Sync!Inventoried, Sync!Note, Sync!NoNote, Maybe, SyncInv, SyncTypeOK, Sync!tracking,
           TypeTracking
  <2>4. TypeFile'
    BY DEF Sync!Inventoried, Sync!Note, Sync!NoNote, Maybe, SyncInv, SyncTypeOK, Sync!file,
           TypeFile
  <2>5. TypeRead'
    BY DEF Sync!Inventoried, Sync!Note, Sync!NoNote, Maybe, SyncInv, SyncTypeOK, TypeRead
  <2>6. TypeCount'
    BY DEF Sync!Inventoried, Sync!Note, Sync!NoNote, Maybe, SyncInv, SyncTypeOK, TypeCount
  <2> QED BY <2>1, <2>2, <2>3, <2>4, <2>5, <2>6 DEF RestSound
<1>2. QueueSound' BY InvIs, QueuePopped DEF Sync!Inventoried, Kinds, Sync!Note, Sync!NoNote
<1> QED BY <1>1, <1>2, InvIs

\* What the queue's first operation is.
LEMMA HeadFacts ==
  ASSUME QueueSound, queue # <<>>
  PROVE  /\ Head(queue) \in Ops /\ Head(queue) = queue[1] /\ 1 \in 1 .. Len(queue)
         /\ Head(queue).fresh => Head(queue).asked
         /\ Head(queue).at \in {"expect", "write"} =>
               Head(queue).kind = "sync" /\ read.target \in Nat /\ read.disk \in Nat
         /\ Head(queue).kind = "inventory" => Head(queue).result \in {"none", "found", "nothing",
              "cancelled"}
<1>1. queue \in Seq(Ops) /\ Head(queue) = queue[1] /\ 1 \in 1 .. Len(queue) /\ queue[1] \in Ops
  BY DEF QueueSound, TypeQueue
<1> QED BY <1>1 DEF QueueSound, FreshIsAsked, PlacesSound

\* The first operation goes to its next place ...
LEMMA Becomes ==
  ASSUME QueueSound, queue # <<>>, NEW at \in {"scan", "expect", "write", "final", "done"},
         Sync!Became(at),
         syncTask' = syncTask, Head(queue).kind = "sync" \/ read' = read,
         at \in {"expect", "write"} =>
              Head(queue).kind = "sync" /\ read'.target \in Nat /\ read'.disk \in Nat,
         at = "done" => Head(queue).kind # "sync"
  PROVE  QueueSound'
<1> DEFINE op == [Head(queue) EXCEPT !.at = at]
<1>1. Head(queue) \in Ops /\ Head(queue) = queue[1] BY HeadFacts
<1>2. /\ op \in Ops /\ op.kind = Head(queue).kind /\ op.fresh = Head(queue).fresh
      /\ op.asked = Head(queue).asked /\ op.at = at /\ op.result = Head(queue).result
  BY <1>1 DEF Ops
<1>3. queue' = [queue EXCEPT ![1] = op] BY <1>1 DEF Sync!Became
<1> HIDE DEF op
<1> QED BY <1>2, <1>3, HeadFacts, QueueWorks

\* ... or ends with a result.
LEMMA EndsWith ==
  ASSUME QueueSound, queue # <<>>,
         NEW result \in {"ok", "cancelled", "transient", "error", "changed"},
         Sync!Ends(result), syncTask' = syncTask, Head(queue).kind = "sync" \/ read' = read,
         Head(queue).kind = "inventory" => result = "cancelled"
  PROVE  QueueSound'
<1> DEFINE op == [Head(queue) EXCEPT !.at = "done", !.result = result]
<1>1. Head(queue) \in Ops /\ Head(queue) = queue[1] BY HeadFacts
<1>2. /\ op \in Ops /\ op.kind = Head(queue).kind /\ op.fresh = Head(queue).fresh
      /\ op.asked = Head(queue).asked /\ op.at = "done" /\ op.result = result
  BY <1>1 DEF Ops, Results
<1>3. queue' = [queue EXCEPT ![1] = op] BY <1>1 DEF Sync!Ends
<1> HIDE DEF op
<1> QED BY <1>2, <1>3, HeadFacts, QueueWorks

\* The first operation of the queue starts, ...
LEMMA StartStep == ASSUME SyncInv, Sync!Start PROVE SyncInv'
<1>0. QueueSound /\ queue # <<>> BY InvIs DEF Sync!Start, Sync!Current
<1>1. RestSound'
  <2>1. TypeGates' BY DEF Sync!Start, Sync!EngineFrame, SyncInv, SyncTypeOK, Sync!gates, TypeGates
  <2>2. TypeTask' BY DEF Sync!Start, Sync!EngineFrame, SyncInv, SyncTypeOK, Sync!task, TypeTask
  <2>3. TypeTracking'
    BY DEF Sync!Start, Sync!EngineFrame, SyncInv, SyncTypeOK, Sync!tracking, TypeTracking
  <2>4. TypeFile' BY DEF Sync!Start, Sync!EngineFrame, SyncInv, SyncTypeOK, Sync!file, TypeFile
  <2>5. TypeRead' BY DEF Sync!Start, Sync!EngineFrame, SyncInv, SyncTypeOK, TypeRead
  <2>6. TypeCount' BY DEF Sync!Start, Sync!EngineFrame, SyncInv, SyncTypeOK, TypeCount
  <2> QED BY <2>1, <2>2, <2>3, <2>4, <2>5, <2>6 DEF RestSound
<1>2. QueueSound'
  <2>1. syncTask' = syncTask /\ read' = read BY DEF Sync!Start, Sync!EngineFrame, Sync!task
  <2> QED BY <1>0, <2>1, Becomes, EndsWith DEF Sync!Start
<1> QED BY <1>1, <1>2, InvIs

\* ... is found to be cancelled, ...
LEMMA CancelledStep == ASSUME SyncInv, Sync!Cancelled PROVE SyncInv'
<1>0. QueueSound /\ queue # <<>> BY InvIs DEF Sync!Cancelled, Sync!Current
<1>1. RestSound'
  <2>1. TypeGates'
    BY DEF Sync!Cancelled, Sync!EngineFrame, SyncInv, SyncTypeOK, Sync!gates, TypeGates
  <2>2. TypeTask' BY DEF Sync!Cancelled, Sync!EngineFrame, SyncInv, SyncTypeOK, Sync!task, TypeTask
  <2>3. TypeTracking'
    BY DEF Sync!Cancelled, Sync!EngineFrame, SyncInv, SyncTypeOK, Sync!tracking, TypeTracking
  <2>4. TypeFile' BY DEF Sync!Cancelled, Sync!EngineFrame, SyncInv, SyncTypeOK, Sync!file, TypeFile
  <2>5. TypeRead' BY DEF Sync!Cancelled, Sync!EngineFrame, SyncInv, SyncTypeOK, TypeRead
  <2>6. TypeCount' BY DEF Sync!Cancelled, Sync!EngineFrame, SyncInv, SyncTypeOK, TypeCount
  <2> QED BY <2>1, <2>2, <2>3, <2>4, <2>5, <2>6 DEF RestSound
<1>2. QueueSound'
  <2>1. syncTask' = syncTask /\ read' = read BY DEF Sync!Cancelled, Sync!EngineFrame, Sync!task
  <2> QED BY <1>0, <2>1, EndsWith DEF Sync!Cancelled
<1> QED BY <1>1, <1>2, InvIs

\* ... a session's reads what it is about, ...
LEMMA ScanSessionStep == ASSUME SyncInv, Sync!ScanSession PROVE SyncInv'
<1>0. QueueSound /\ queue # <<>> BY InvIs DEF Sync!ScanSession, Sync!Current
<1>1. RestSound'
  <2>1. TypeGates'
    BY DEF Sync!ScanSession, Sync!EngineFrame, SyncInv, SyncTypeOK, Sync!gates, TypeGates
  <2>2. TypeTask'
    BY DEF Sync!ScanSession, Sync!EngineFrame, SyncInv, SyncTypeOK, Sync!task, TypeTask
  <2>3. TypeTracking'
    BY DEF Sync!ScanSession, Sync!EngineFrame, SyncInv, SyncTypeOK, Sync!tracking, TypeTracking
  <2>4. TypeFile'
    <3>1. read'.disk # None => read'.disk \in Nat
      BY DEF Sync!ScanSession, SyncInv, SyncTypeOK, TypeFile, TypeRead, Maybe
    <3>2. seen' \in Nat BY <3>1 DEF Sync!ScanSession, SyncInv, SyncTypeOK, TypeFile
    <3> QED BY <3>2 DEF Sync!ScanSession, SyncInv, SyncTypeOK, TypeFile
  <2>5. TypeRead'
    BY DEF Sync!ScanSession, Sync!EngineFrame, SyncInv, SyncTypeOK, TypeRead, TypeFile,
           TypeCount, Sync!Version, Maybe
  <2>6. TypeCount' BY DEF Sync!ScanSession, Sync!EngineFrame, SyncInv, SyncTypeOK, TypeCount
  <2> QED BY <2>1, <2>2, <2>3, <2>4, <2>5, <2>6 DEF RestSound
<1>2. QueueSound'
  <2>1. syncTask' = syncTask /\ Head(queue).kind = "sync"
    BY DEF Sync!ScanSession, Sync!EngineFrame, Sync!task
  <2>2. version \in Nat /\ Sync!Version + 1 \in Nat
    BY DEF SyncInv, SyncTypeOK, TypeFile, TypeCount, Sync!Version
  <2>3. CASE Sync!Became("final") BY <1>0, <2>1, <2>3, Becomes
  <2>4. CASE Sync!Became("expect") /\ read' = [disk |-> version, target |-> Sync!Version + 1]
    BY <1>0, <2>1, <2>2, <2>4, Becomes
  <2>5. CASE \E r \in {"transient", "error", "changed"} : Sync!Ends(r) BY <1>0, <2>1, <2>5, EndsWith
  <2> QED BY <2>3, <2>4, <2>5 DEF Sync!ScanSession
<1> QED BY <1>1, <1>2, InvIs

\* ... the check's compares what is there with the inventory, ...
LEMMA InspectStep == ASSUME SyncInv, Sync!Inspect PROVE SyncInv'
<1>0. QueueSound /\ queue # <<>> BY InvIs DEF Sync!Inspect, Sync!Current
<1>1. RestSound'
  <2>1. TypeGates' BY DEF Sync!Inspect, Sync!EngineFrame, SyncInv, SyncTypeOK, Sync!gates, TypeGates
  <2>2. TypeTask' BY DEF Sync!Inspect, Sync!EngineFrame, SyncInv, SyncTypeOK, Sync!task, TypeTask
  <2>3. TypeTracking'
    BY DEF Sync!Inspect, Sync!EngineFrame, SyncInv, SyncTypeOK, Sync!tracking, TypeTracking
  <2>4. TypeFile' BY DEF Sync!Inspect, Sync!EngineFrame, SyncInv, SyncTypeOK, Sync!file, TypeFile
  <2>5. TypeRead' BY DEF Sync!Inspect, Sync!EngineFrame, SyncInv, SyncTypeOK, TypeRead
  <2>6. TypeCount' BY DEF Sync!Inspect, Sync!EngineFrame, SyncInv, SyncTypeOK, TypeCount
  <2> QED BY <2>1, <2>2, <2>3, <2>4, <2>5, <2>6 DEF RestSound
<1>2. QueueSound'
  <2> DEFINE result == IF version # seen THEN "found" ELSE "nothing"
             op == [Head(queue) EXCEPT !.at = "final", !.result = result]
  <2>1. Head(queue) \in Ops /\ Head(queue) = queue[1] BY <1>0, HeadFacts
  <2>2. /\ op \in Ops /\ op.kind = "inventory" /\ op.fresh = Head(queue).fresh
        /\ op.asked = Head(queue).asked /\ op.at = "final" /\ op.result \in {"found", "nothing"}
    BY <2>1 DEF Ops, Results, Sync!Inspect
  <2>3. queue' = [queue EXCEPT ![1] = op] BY <2>1 DEF Sync!Inspect
  <2>4. syncTask' = syncTask /\ read' = read /\ Head(queue).kind = "inventory"
    BY DEF Sync!Inspect, Sync!EngineFrame, Sync!task
  <2> HIDE DEF op
  <2> QED BY <1>0, <2>2, <2>3, <2>4, HeadFacts, QueueWorks
<1> QED BY <1>1, <1>2, InvIs

\* ... decides what is to be done, ...
LEMMA DecideStep == ASSUME SyncInv, Sync!Decide PROVE SyncInv'
<1>0. QueueSound /\ queue # <<>> BY InvIs DEF Sync!Decide, Sync!Current
<1>1. RestSound'
  <2>1. TypeGates' BY DEF Sync!Decide, Sync!EngineFrame, SyncInv, SyncTypeOK, Sync!gates, TypeGates
  <2>2. TypeTask' BY DEF Sync!Decide, Sync!EngineFrame, SyncInv, SyncTypeOK, Sync!task, TypeTask
  <2>3. TypeTracking'
    BY DEF Sync!Decide, Sync!EngineFrame, SyncInv, SyncTypeOK, Sync!tracking, TypeTracking
  <2>4. TypeFile' BY DEF Sync!Decide, Sync!EngineFrame, SyncInv, SyncTypeOK, Sync!file, TypeFile
  <2>5. TypeRead' BY DEF Sync!Decide, Sync!EngineFrame, SyncInv, SyncTypeOK, TypeRead
  <2>6. TypeCount' BY DEF Sync!Decide, Sync!EngineFrame, SyncInv, SyncTypeOK, TypeCount
  <2> QED BY <2>1, <2>2, <2>3, <2>4, <2>5, <2>6 DEF RestSound
<1>2. QueueSound'
  <2>1. syncTask' = syncTask /\ read' = read /\ Head(queue).kind = "exclusive"
    BY DEF Sync!Decide, Sync!EngineFrame, Sync!task
  <2> QED BY <1>0, <2>1, EndsWith DEF Sync!Decide
<1> QED BY <1>1, <1>2, InvIs

\* ... says what it is about to write, ...
LEMMA ExpectStep == ASSUME SyncInv, Sync!Expect PROVE SyncInv'
<1>0. QueueSound /\ queue # <<>> BY InvIs DEF Sync!Expect, Sync!Current
<1>1. RestSound'
  <2>1. TypeGates' BY DEF Sync!Expect, Sync!EngineFrame, SyncInv, SyncTypeOK, Sync!gates, TypeGates
  <2>2. TypeTask' BY DEF Sync!Expect, Sync!EngineFrame, SyncInv, SyncTypeOK, Sync!task, TypeTask
  <2>3. TypeTracking'
    BY <1>0, HeadFacts
       DEF Sync!Expect, Sync!EngineFrame, SyncInv, SyncTypeOK, Sync!tracking, TypeTracking,
           Maybe
  <2>4. TypeFile' BY DEF Sync!Expect, Sync!EngineFrame, SyncInv, SyncTypeOK, Sync!file, TypeFile
  <2>5. TypeRead' BY DEF Sync!Expect, Sync!EngineFrame, SyncInv, SyncTypeOK, TypeRead
  <2>6. TypeCount' BY DEF Sync!Expect, Sync!EngineFrame, SyncInv, SyncTypeOK, TypeCount
  <2> QED BY <2>1, <2>2, <2>3, <2>4, <2>5, <2>6 DEF RestSound
<1>2. QueueSound'
  <2>1. syncTask' = syncTask /\ read' = read BY DEF Sync!Expect, Sync!EngineFrame, Sync!task
  <2> QED BY <1>0, <2>1, HeadFacts, Becomes DEF Sync!Expect
<1> QED BY <1>1, <1>2, InvIs

\* ... writes it ...
LEMMA WriteStep == ASSUME SyncInv, Sync!Write PROVE SyncInv'
<1>0. QueueSound /\ queue # <<>> BY InvIs DEF Sync!Write, Sync!Current
<1>1. RestSound'
  <2>1. TypeGates' BY DEF Sync!Write, Sync!EngineFrame, SyncInv, SyncTypeOK, Sync!gates, TypeGates
  <2>2. TypeTask' BY DEF Sync!Write, Sync!EngineFrame, SyncInv, SyncTypeOK, Sync!task, TypeTask
  <2>3. TypeTracking'
    BY DEF Sync!Write, Sync!EngineFrame, SyncInv, SyncTypeOK, Sync!tracking, TypeTracking
  <2>4. TypeFile'
    BY <1>0, HeadFacts
       DEF Sync!Write, Sync!EngineFrame, SyncInv, SyncTypeOK, Sync!file, TypeFile
  <2>5. TypeRead'
    BY <1>0, HeadFacts
       DEF Sync!Write, Sync!EngineFrame, SyncInv, SyncTypeOK, TypeRead, Maybe
  <2>6. TypeCount' BY DEF Sync!Write, Sync!EngineFrame, SyncInv, SyncTypeOK, TypeCount
  <2> QED BY <2>1, <2>2, <2>3, <2>4, <2>5, <2>6 DEF RestSound
<1>2. QueueSound'
  <2>1. syncTask' = syncTask /\ Head(queue).kind = "sync"
    BY <1>0, HeadFacts DEF Sync!Write, Sync!EngineFrame, Sync!task
  <2> QED BY <1>0, <2>1, HeadFacts, Becomes, EndsWith DEF Sync!Write
<1> QED BY <1>1, <1>2, InvIs

\* ... and records it.
LEMMA FinishStep == ASSUME SyncInv, Sync!Finish PROVE SyncInv'
<1>0. QueueSound /\ queue # <<>> BY InvIs DEF Sync!Finish, Sync!Current
<1>1. RestSound'
  <2>1. TypeGates' BY DEF Sync!Finish, Sync!EngineFrame, SyncInv, SyncTypeOK, Sync!gates, TypeGates
  <2>2. TypeTask' BY DEF Sync!Finish, Sync!EngineFrame, SyncInv, SyncTypeOK, Sync!task, TypeTask
  <2>3. TypeTracking'
    BY DEF Sync!Finish, Sync!EngineFrame, SyncInv, SyncTypeOK, Sync!tracking, TypeTracking
  <2>4. TypeFile'
    BY DEF Sync!Finish, Sync!EngineFrame, SyncInv, SyncTypeOK, Sync!file, TypeFile, TypeRead,
           Maybe
  <2>5. TypeRead' BY DEF Sync!Finish, Sync!EngineFrame, SyncInv, SyncTypeOK, TypeRead
  <2>6. TypeCount' BY DEF Sync!Finish, Sync!EngineFrame, SyncInv, SyncTypeOK, TypeCount
  <2> QED BY <2>1, <2>2, <2>3, <2>4, <2>5, <2>6 DEF RestSound
<1>2. QueueSound'
  <2>1. syncTask' = syncTask /\ read' = read BY DEF Sync!Finish, Sync!EngineFrame, Sync!task
  <2> QED BY <1>0, <2>1, Becomes, EndsWith DEF Sync!Finish
<1> QED BY <1>1, <1>2, InvIs

\* The invariant holds at first, ...
LEMMA InitInv == ASSUME Sync!Init PROVE SyncInv
<1>1. TypeGates /\ TypeTask /\ TypeFile /\ TypeCount
  BY DEF Sync!Init, TypeGates, TypeTask, TypeFile, TypeCount
<1>3. TypeQueue /\ TypeTracking /\ TypeRead
  <2>1. TypeQueue BY DEF Sync!Init, TypeQueue
  <2>2. TypeTracking BY DEF Sync!Init, Maybe, TypeTracking
  <2>3. TypeRead BY DEF Sync!Init, Sync!Unread, Maybe, TypeRead
  <2> QED BY <2>1, <2>2, <2>3
<1>2. Len(queue) = 0 BY DEF Sync!Init
<1> QED
  BY <1>1, <1>2, <1>3
     DEF SyncInv, SyncTypeOK, FreshIsAsked, OneAtWork, OneSession, PlacesSound

\* ... when nothing happens ...
LEMMA Stutter == ASSUME SyncInv, UNCHANGED Sync!vars PROVE SyncInv'
<1>1. RestSound'
  BY DEF Sync!vars, Sync!gates, Sync!task, Sync!tracking, Sync!file, SyncInv, SyncTypeOK,
         RestSound, TypeGates, TypeTask, TypeTracking, TypeFile, TypeRead, TypeCount
<1>2. QueueSound' BY InvIs, QueueStays DEF Sync!vars, Sync!task
<1> QED BY <1>1, <1>2, InvIs

\* ... and after every step.
LEMMA NextInv == ASSUME SyncInv, [Sync!Next]_(Sync!vars) PROVE SyncInv'
<1>1. CASE Sync!Edit \/ Sync!Hear \/ Sync!Verify BY <1>1, EditStep, HearStep, VerifyStep
<1>2. CASE Sync!Pause \/ Sync!Protect \/ Sync!Stop \/ Sync!Hold
             \/ \E g \in {"paused", "blocked", "hold"} : Sync!Open(g)
  BY <1>2, PauseStep, ProtectStep, StopStep, HoldStep, OpenStep
<1>3. CASE Sync!DebounceFires \/ Sync!TimerFires \/ Sync!Exclude \/ Sync!CheckInventory
  BY <1>3, DebounceFiresStep, TimerFiresStep, ExcludeStep, CheckInventoryStep
<1>4. CASE Sync!Quiet \/ Sync!Inventoried BY <1>4, QuietStep, InventoriedStep
<1>5. CASE Sync!Session
  BY <1>5, SettleStep, NotQuietStep, TryEngineStep, ReturnStep, RetryStep, SucceedStep, FailStep,
     EndStep, ExcludedStep DEF Sync!Session
<1>6. CASE Sync!Engine
  BY <1>6, StartStep, CancelledStep, ScanSessionStep, InspectStep, DecideStep, ExpectStep,
     WriteStep, FinishStep DEF Sync!Engine, Sync!Work
<1>7. CASE UNCHANGED Sync!vars BY <1>7, Stutter
<1> QED BY <1>1, <1>2, <1>3, <1>4, <1>5, <1>6, <1>7 DEF Sync!Next

\* In every behaviour of the scheduler the invariant holds.
THEOREM SyncInvariance == Sync!Spec => []SyncInv
BY InitInv, NextInv, PTL DEF Sync!Spec

\* Every variable of the scheduler keeps its type.
THEOREM SyncTypeCorrect == Sync!Spec => []SyncTypeOK
<1>1. SyncInv => SyncTypeOK BY DEF SyncInv
<1> QED BY <1>1, SyncInvariance, PTL

\* What is at work is of the present generation, so it has not been cancelled.
LEMMA WorkAsked == ASSUME SyncInv, Sync!Work PROVE Head(queue).asked
<1>1. queue # <<>> /\ Head(queue).fresh
  BY DEF Sync!Work, Sync!ScanSession, Sync!Inspect, Sync!Decide, Sync!Expect, Sync!Write,
         Sync!Finish, Sync!Current, Sync!Checkpoint
<1> QED BY <1>1, InvIs, HeadFacts

\* Once cancelled, an operation of the queue does nothing more than end: no step of the engine's
\* work is taken for it (the generation is asked at each await of engine.ts).
THEOREM CancelledStays == Sync!Spec => Sync!CancelledStaysCancelled
<1>1. SyncInv /\ [Sync!Next]_(Sync!vars) => [Sync!Work => Head(queue).asked]_(Sync!vars)
  BY WorkAsked
<1> QED BY <1>1, SyncInvariance, PTL DEF Sync!Spec, Sync!CancelledStaysCancelled

\* The queue never holds two operations of sessions, so a sync never runs beside another sync or
\* beside an operation that must run alone (main.ts syncTask and operationTail).
THEOREM OneSessionAlone == Sync!Spec => []OneSession
<1>1. SyncInv => OneSession BY DEF SyncInv
<1> QED BY <1>1, SyncInvariance, PTL
=============================================================================
