--------------------------- MODULE PackageInstall ---------------------------
(***************************************************************************)
(* How a device exchanges one plugin package for another                   *)
(* (plugin/src/atomic-package.ts): the new directory is filled beside the  *)
(* old one, the old one is renamed away, the device's caches are moved     *)
(* over and the new one is renamed into place, each step after a journal   *)
(* entry. The process may end at every step; the plugin and its owner go   *)
(* on writing, also into the directory that was renamed away.              *)
(*                                                                         *)
(* A directory is [code, cache]: the managed files as one version, and the *)
(* device-local entries. A rename onto an existing directory fails         *)
(* (qualify proves it of the adapter before the first one).                *)
(***************************************************************************)
EXTENDS Naturals, FiniteSets

CONSTANTS None,
          NoCode,       \* no managed file is there
          First,        \* the version in place at the start
          Versions,     \* versions of the package in the accepted history
          Edits,        \* what the plugin or its owner writes, each once (bound)
          Caches,       \* device-local entries the plugin creates, each once (bound)
          MaxInstalls,  \* bound: installations on this device
          MaxStops      \* bound: ends of the process and cancelled checkpoints

Ids     == 1 .. MaxInstalls
Codes   == Versions \cup Edits \cup {First, NoCode}
Dirs    == [code : Codes, cache : SUBSET Caches]
Records == [phase : {"prepared", "backed-up", "promoting", "installed", "local-changed"},
            prior : Codes, target : Versions \cup {NoCode}, unmanaged : SUBSET Caches]

\* What is written on the device is none of the versions of the history.
ASSUME CodesAssumption == /\ NoCode \notin Versions \cup Edits \cup {First}
                          /\ Edits \cap (Versions \cup {First}) = {}
ASSUME NoneAssumption  == None \notin Dirs \cup Records
ASSUME BoundAssumption == MaxInstalls \in Nat

VARIABLES deviceLocal, \* the package is never synchronized (Gib Sync, BRAT)
          root,        \* the directory the plugin is loaded from
          stage,       \* per installation: the directory being filled
          backup,      \* per installation: the renamed original
          journal,     \* per installation: the last record on disk, or None
          run,         \* the operation under way
          audited,     \* a recovery went through all records after the last write
          used,        \* edits that were made
          stops,       \* ends of the process so far
          written,     \* device-local entries made in the package's directory
          tampered     \* the owner reinstalled, or an entry was made in an original

disk   == <<root, stage, backup>>
writes == <<used, written, tampered>>
vars   == <<deviceLocal, disk, journal, run, audited, stops, writes>>

Dir(code, cache) == [code |-> code, cache |-> cache]
Code(d)          == IF d = None THEN NoCode ELSE d.code
CacheOf(d)       == IF d = None THEN {} ELSE d.cache

Record(phase, prior, target, unmanaged) ==
    [phase |-> phase, prior |-> prior, target |-> target, unmanaged |-> unmanaged]

\* todo: records the recovery has yet to look at; back: where a retraction
\* returns to; clean: no write since the recovery started.
Idle == [pc |-> "idle", id |-> 0, j |-> None, recovering |-> FALSE, todo |-> {},
         back |-> "fail", clean |-> TRUE]

At(pc)        == run.pc = pc
Go(pc)        == run' = [run EXCEPT !.pc = pc]
GoWith(pc, j) == run' = [run EXCEPT !.pc = pc, !.j = j]
\* An error leaves everything where it is and ends the operation.
Fail          == run' = Idle

Persist(j)    == journal' = [journal EXCEPT ![run.id] = j]
Original      == backup[run.id]
Staged        == stage[run.id]
Changed       == Original # None /\ Code(Original) # run.j.prior

\* A shared package with one version in place, or a device-local one that an
\* earlier release had retired, perhaps twice.
Init ==
    /\ deviceLocal \in BOOLEAN
    /\ stage = [i \in Ids |-> None]
    /\ \E retired \in SUBSET Ids :
          /\ deviceLocal <=> retired # {}
          /\ root = IF deviceLocal THEN None ELSE Dir(First, {})
          /\ backup = [i \in Ids |-> IF i \in retired THEN Dir(First, {}) ELSE None]
          /\ journal = [i \in Ids |-> IF i \in retired THEN Record("installed", First, NoCode, {}) ELSE None]
    /\ run = Idle /\ audited = FALSE
    /\ used = {} /\ stops = 0 /\ written = {} /\ tampered = FALSE

-----------------------------------------------------------------------------
(* install: fill, set aside, promote.                                       *)

\* A synchronization that found nothing to recover installs another version
\* (NoCode: retires the package) in place of the one its scan saw.
Install ==
    /\ At("idle") /\ audited /\ ~deviceLocal
    /\ \E id \in Ids, target \in Versions \cup {NoCode} :
          /\ stage[id] = None /\ journal[id] = None
          /\ \A o \in 1 .. id - 1 : stage[o] # None \/ journal[o] # None
          /\ target # Code(root)
          /\ stage' = [stage EXCEPT ![id] = Dir(NoCode, {})]
          /\ run' = [Idle EXCEPT !.pc = "inspect", !.id = id, !.j = Record("prepared", Code(root), target, {})]
    /\ audited' = FALSE
    /\ UNCHANGED <<root, backup, journal>>

Inspect ==
    /\ At("inspect")
    /\ IF Code(root) # run.j.prior THEN Fail
       ELSE GoWith("fill", [run.j EXCEPT !.unmanaged = CacheOf(root)])
    /\ UNCHANGED <<disk, journal, audited>>

Fill ==
    /\ At("fill") /\ Go("prepare")
    /\ stage' = [stage EXCEPT ![run.id].code = run.j.target]
    /\ UNCHANGED <<root, backup, journal, audited>>

\* Mutant: the original is set aside before the record is on disk.
PrepareUnsaved ==
    /\ At("prepare")
    /\ IF Code(root) # run.j.prior THEN Fail ELSE Go("set-aside")
    /\ UNCHANGED <<disk, journal, audited>>

Prepare ==
    /\ At("prepare")
    /\ IF Code(root) # run.j.prior THEN Fail /\ UNCHANGED journal
       ELSE Persist(run.j) /\ Go("set-aside")
    /\ UNCHANGED <<disk, audited>>

SetAside ==
    /\ At("set-aside")
    /\ IF root = None THEN Go("collect") /\ UNCHANGED <<root, backup>>
       ELSE /\ backup' = [backup EXCEPT ![run.id] = root]
            /\ root' = None
            /\ Go("verify-original")
    /\ UNCHANGED <<stage, journal, audited>>

\* A package that was changed at the last moment goes back.
VerifyOriginal ==
    /\ At("verify-original")
    /\ IF ~Changed THEN Go("collect") /\ UNCHANGED <<root, backup>>
       ELSE /\ Fail
            /\ IF root = None
               THEN root' = Original /\ backup' = [backup EXCEPT ![run.id] = None]
               ELSE UNCHANGED <<root, backup>>
    /\ UNCHANGED <<stage, journal, audited>>

Collected(unmanaged) ==
    LET j == [run.j EXCEPT !.phase = "backed-up", !.unmanaged = unmanaged]
    IN  Persist(j) /\ GoWith(IF j.target = NoCode THEN "finish" ELSE "move", j)

\* Mutant: the enumeration before the rename is trusted.
CollectHint ==
    /\ At("collect") /\ Collected(run.j.unmanaged)
    /\ UNCHANGED <<disk, audited>>

Collect ==
    /\ At("collect") /\ Collected(run.j.unmanaged \cup CacheOf(Original))
    /\ UNCHANGED <<disk, audited>>

-----------------------------------------------------------------------------
(* Steps of install and of recover.                                         *)

ToMove == run.j.unmanaged \ (CacheOf(Staged) \ CacheOf(Original))

\* moveUnmanaged: one rename per entry; an entry in both places or in neither
\* holds the activation.
MoveEntry ==
    /\ At("move")
    /\ IF ToMove = {} THEN Persist(run.j) /\ Go("guard-promotion") /\ UNCHANGED disk
       ELSE /\ \E c \in ToMove :
                  IF c \in CacheOf(Original) \ CacheOf(Staged)
                  THEN /\ stage' = [stage EXCEPT ![run.id].cache = @ \cup {c}]
                       /\ backup' = [backup EXCEPT ![run.id].cache = @ \ {c}]
                       /\ UNCHANGED run
                  ELSE Fail /\ UNCHANGED <<stage, backup>>
            /\ UNCHANGED <<root, journal>>
    /\ UNCHANGED audited

Retract(back) == run' = [run EXCEPT !.pc = "retract", !.back = back]

\* guardOriginal: a change that reached the original after it was renamed
\* takes the operation back and ends it.
Guard(at, next) ==
    /\ At(at)
    /\ IF Changed THEN Retract("fail") ELSE Go(next)
    /\ UNCHANGED <<disk, journal, audited>>

\* Only install looks once more for a directory that has appeared.
Promoting ==
    /\ At("promoting")
    /\ IF root # None /\ ~run.recovering THEN Fail /\ UNCHANGED journal
       ELSE LET j == [run.j EXCEPT !.phase = "promoting"] IN Persist(j) /\ GoWith("promote", j)
    /\ UNCHANGED <<disk, audited>>

Promote ==
    /\ At("promote")
    /\ IF root # None THEN Fail /\ UNCHANGED <<root, stage>>
       ELSE /\ root' = Staged
            /\ stage' = [stage EXCEPT ![run.id] = None]
            /\ Go("verify-promoted")
    /\ UNCHANGED <<backup, journal, audited>>

VerifyPromoted ==
    /\ At("verify-promoted")
    /\ IF Code(root) = run.j.target THEN Go("guard-finish") ELSE Fail
    /\ UNCHANGED <<disk, journal, audited>>

Finish ==
    /\ At("finish")
    /\ Persist([run.j EXCEPT !.phase = "installed"])
    /\ IF run.recovering THEN Go("next") ELSE run' = Idle
    /\ UNCHANGED <<disk, audited>>

-----------------------------------------------------------------------------
(* restoreChangedOriginal: the changed original becomes the package again.  *)

\* The change of authority is on disk before any directory moves.
TakeBack ==
    /\ At("retract")
    /\ LET j == [run.j EXCEPT !.phase = "local-changed"] IN Persist(j) /\ GoWith("reverse", j)
    /\ UNCHANGED <<disk, audited>>

Return == IF run.back = "fail" THEN Fail ELSE Go("next")

Reverse ==
    /\ At("reverse")
    /\ CASE Original = None -> IF root # None THEN Return ELSE Fail
         [] Original # None /\ root = None -> Go("move-back")
         [] OTHER -> IF Code(root) # run.j.target \/ Staged # None THEN Fail ELSE Go("unpromote")
    /\ UNCHANGED <<disk, journal, audited>>

Unpromote ==
    /\ At("unpromote") /\ Go("verify-unpromoted")
    /\ stage' = [stage EXCEPT ![run.id] = root]
    /\ root' = None
    /\ UNCHANGED <<backup, journal, audited>>

VerifyUnpromoted ==
    /\ At("verify-unpromoted")
    /\ IF Code(Staged) = run.j.target THEN Go("move-back") ELSE Fail
    /\ UNCHANGED <<disk, journal, audited>>

MoveBack ==
    /\ At("move-back")
    /\ LET here == run.j.unmanaged \cap CacheOf(Staged)
       IN  IF here = {} THEN Go("restore") /\ UNCHANGED disk
           ELSE \E c \in here :
                  IF c \in CacheOf(Original) THEN Fail /\ UNCHANGED disk
                  ELSE /\ stage' = [stage EXCEPT ![run.id].cache = @ \ {c}]
                       /\ backup' = [backup EXCEPT ![run.id].cache = @ \cup {c}]
                       /\ UNCHANGED <<root, run>>
    /\ UNCHANGED <<journal, audited>>

RestoreOriginal ==
    /\ At("restore")
    /\ IF root # None THEN Fail /\ UNCHANGED <<root, backup, journal>>
       ELSE /\ root' = Original
            /\ backup' = [backup EXCEPT ![run.id] = None]
            /\ Persist(run.j) /\ Return
    /\ UNCHANGED <<stage, audited>>

-----------------------------------------------------------------------------
(* recover                                                                  *)

Recover ==
    /\ At("idle")
    /\ run' = [Idle EXCEPT !.pc = "next", !.recovering = TRUE, !.todo = {i \in Ids : journal[i] # None}]
    /\ audited' = FALSE
    /\ UNCHANGED <<disk, journal>>

Recovered ==
    /\ At("next") /\ run.todo = {}
    /\ Fail /\ audited' = run.clean
    /\ UNCHANGED <<disk, journal>>

Late(i) == backup[i] # None /\ Code(backup[i]) # journal[i].prior

\* The next record: what its phase and the directories say is still to be done.
Examine(i) ==
    LET j       == journal[i]
        here    == [run EXCEPT !.id = i, !.j = j, !.todo = @ \ {i}]
        skip    == run' = [here EXCEPT !.pc = "next"]
        goto(pc) == run' = [here EXCEPT !.pc = pc]
    IN  CASE deviceLocal -> skip /\ UNCHANGED journal
          [] ~deviceLocal /\ j.phase = "local-changed" ->
               /\ IF backup[i] # None THEN run' = [here EXCEPT !.pc = "retract", !.back = "next"] ELSE skip
               /\ UNCHANGED journal
          [] ~deviceLocal /\ j.phase = "installed" ->
               /\ IF Late(i) THEN run' = [here EXCEPT !.pc = "retract", !.back = "fail"] ELSE skip
               /\ UNCHANGED journal
          [] OTHER ->
               IF root # None /\ Code(root) = j.target THEN goto("guard-finish") /\ UNCHANGED journal
               ELSE IF root # None /\ j.phase = "prepared" /\ backup[i] = None
               THEN skip /\ journal' = [journal EXCEPT ![i] = None]
               ELSE IF root # None THEN Fail /\ UNCHANGED journal
               ELSE IF Late(i) THEN run' = [here EXCEPT !.pc = "retract", !.back = "fail"] /\ UNCHANGED journal
               ELSE IF Code(backup[i]) # j.prior \/ Code(stage[i]) # j.target THEN Fail /\ UNCHANGED journal
               ELSE IF j.target = NoCode THEN goto("finish") /\ UNCHANGED journal
               ELSE LET all == [j EXCEPT !.unmanaged = @ \cup CacheOf(backup[i])]
                    IN  /\ journal' = [journal EXCEPT ![i] = all]
                        /\ run' = [here EXCEPT !.pc = "move", !.j = all]

ExamineRecord ==
    /\ At("next") /\ \E i \in run.todo : Examine(i)
    /\ UNCHANGED <<disk, audited>>

-----------------------------------------------------------------------------
(* restoreDeviceLocalRetirements: a device-local plugin that an earlier     *)
(* release retired comes back, if there is one verified original for it.    *)

Candidates == {i \in Ids : journal[i] # None /\ backup[i] # None}

RestoreRetired ==
    /\ At("idle") /\ deviceLocal /\ root = None
    /\ Cardinality(Candidates) = 1
    /\ \E i \in Candidates :
          /\ journal[i].target = NoCode /\ Code(backup[i]) = journal[i].prior
          /\ run' = [Idle EXCEPT !.pc = "recheck", !.id = i, !.j = journal[i]]
    /\ UNCHANGED <<disk, journal, audited>>

Recheck ==
    /\ At("recheck")
    /\ IF root # None \/ Changed THEN Fail /\ UNCHANGED journal
       ELSE LET j == [run.j EXCEPT !.phase = "local-changed"] IN Persist(j) /\ GoWith("bring-back", j)
    /\ UNCHANGED <<disk, audited>>

BringBack ==
    /\ At("bring-back") /\ Fail
    /\ IF root # None THEN UNCHANGED <<root, backup>>
       ELSE root' = Original /\ backup' = [backup EXCEPT ![run.id] = None]
    /\ UNCHANGED <<stage, journal, audited>>

-----------------------------------------------------------------------------
(* The rest of the device.                                                  *)

\* The process ends, or a checkpoint finds the operation cancelled.
Stop ==
    /\ stops < MaxStops /\ ~At("idle")
    /\ stops' = stops + 1
    /\ Fail
    /\ UNCHANGED <<deviceLocal, disk, journal, audited, writes>>

Disturb == audited' = FALSE /\ run' = [run EXCEPT !.clean = FALSE]
Unused  == Edits \ used

\* The plugin saves its settings, or its owner changes it.
EditRoot(e) ==
    /\ root # None
    /\ root' = [root EXCEPT !.code = e] /\ UNCHANGED <<backup, tampered>>

\* A writer that had the directory open finishes after it was renamed.
EditOriginal(e) ==
    /\ \E i \in Ids : backup[i] # None /\ backup' = [backup EXCEPT ![i].code = e]
    /\ UNCHANGED <<root, tampered>>

\* The owner installs the plugin anew while its directory is away.
Reinstall(e) ==
    /\ root = None
    /\ root' = Dir(e, {}) /\ tampered' = TRUE /\ UNCHANGED backup

Edit ==
    /\ \E e \in Unused : used' = used \cup {e} /\ (EditRoot(e) \/ EditOriginal(e) \/ Reinstall(e))
    /\ Disturb
    /\ UNCHANGED <<deviceLocal, stage, journal, stops, written>>

\* The plugin creates a device-local entry, or finishes one in the original.
NewEntry ==
    /\ \E c \in Caches \ written :
          /\ written' = written \cup {c}
          /\ \/ /\ root # None /\ root' = [root EXCEPT !.cache = @ \cup {c}]
                /\ UNCHANGED <<backup, tampered>>
             \/ /\ \E i \in Ids : backup[i] # None /\ backup' = [backup EXCEPT ![i].cache = @ \cup {c}]
                /\ tampered' = TRUE /\ UNCHANGED root
    /\ UNCHANGED <<deviceLocal, stage, journal, run, audited, used, stops>>

Installer ==
    /\ \/ Install \/ Inspect \/ Fill \/ Prepare \/ SetAside \/ VerifyOriginal \/ Collect
       \/ MoveEntry \/ Guard("guard-promotion", "promoting") \/ Promoting \/ Promote
       \/ VerifyPromoted \/ Guard("guard-finish", "finish") \/ Finish
       \/ TakeBack \/ Reverse \/ Unpromote \/ VerifyUnpromoted \/ MoveBack \/ RestoreOriginal
       \/ Recover \/ ExamineRecord \/ Recovered \/ RestoreRetired \/ Recheck \/ BringBack
    /\ UNCHANGED <<deviceLocal, stops, writes>>

Next == Installer \/ Stop \/ Edit \/ NewEntry

\* An operation under way goes on, and every synchronization recovers first.
Spec == /\ Init /\ [][Next]_vars
        /\ WF_vars(Installer /\ ~At("idle")) /\ WF_vars(Recover /\ UNCHANGED <<deviceLocal, stops, writes>>)

-----------------------------------------------------------------------------

Retired     == \E i \in Ids : journal[i] # None /\ journal[i].target = NoCode

LateChangeReturns ==
    (audited /\ ~deviceLocal) =>
        \A i \in Ids : (journal[i] # None /\ backup[i] # None) => Code(backup[i]) = journal[i].prior

CacheFollowsPackage ==
    (audited /\ ~deviceLocal /\ ~tampered /\ ~Retired) =>
        \A c \in written :
            \/ c \in CacheOf(root)
            \/ \E i \in Ids : /\ c \in CacheOf(stage[i])
                              /\ journal[i].phase = "local-changed" /\ c \notin journal[i].unmanaged

RetirementIsCertain ==
    (deviceLocal /\ root' # root /\ used' = used /\ written' = written) =>
        /\ root = None
        /\ Cardinality(Candidates) = 1

\* What the owner or the plugin wrote survives every crash and recovery. When a
\* recovery ends without an error and nothing is written meanwhile, no renamed
\* original is left that differs from what the installation recorded: a change
\* that reached it late is the package again (guardOriginal,
\* restoreChangedOriginal, recover). Every device-local entry is then with the
\* package in use, whichever of the two that is; what a version created that was
\* taken back stays with that version (moveUnmanaged). And a device-local plugin
\* comes back only while exactly one original is left of it, and never over what
\* the owner has put in its place since (restoreDeviceLocalRetirements).
RecoveryLosesNothing ==
    [][LateChangeReturns' /\ CacheFollowsPackage' /\ RetirementIsCertain]_vars

Unfinished == {i \in Ids : /\ journal[i] # None
                           /\ \/ journal[i].phase \in {"prepared", "backed-up", "promoting"}
                              \/ journal[i].phase = "local-changed" /\ backup[i] # None}

\* However often the process ends and whatever is written late: the plugin is
\* back in its directory in the end, unless it was to be retired, the device
\* has two copies of one entry, or two installations are open at once, when
\* the one can stop the other's recovery (recover).
PackageComesBack ==
    <>[](deviceLocal \/ tampered \/ Retired \/ root # None \/ Cardinality(Unfinished) > 1)

=============================================================================
