---------------------------- MODULE FolderTopology ----------------------------
(***************************************************************************)
(* Folders of one device: how accepted folders, the folders on the disk    *)
(* and the traces of retired files are brought together by SyncEngine      *)
(* (plugin/src/engine.ts), while the owner works in the same folders.      *)
(* Every await that hands control back is a step boundary, so the owner    *)
(* may act between the check of a file and its move, and between the       *)
(* listing of a folder and its removal.                                    *)
(***************************************************************************)
EXTENDS Naturals, Sequences, SequencesExt, FiniteSetsExt

CONSTANTS Folders,       \* paths, sequences of names, with every parent
          Files,         \* [dir, kind]: kind "note" is synchronised,
                         \* "ignored" and "meta" (.DS_Store) are not
          None,
          MaxOwn,        \* bound on the owner's actions
          MaxElsewhere   \* bound on what other devices have accepted

Notes == {x \in Files : x.kind = "note"}

Contents == {"base", "own", "far"}
Trees    == [dirs : SUBSET Folders, notes : [Notes -> Contents \cup {None}]]
Marks    == [hash : Contents, at : Nat]
Targets  == [dirs : SUBSET Folders, notes : [Notes -> Contents \cup {None}],
             prior : [Notes -> Contents \cup {None}]]

ASSUME PathsAssumption == \A f \in Folders : f \in Seq({f[i] : i \in DOMAIN f})
ASSUME FilesAssumption == Files \subseteq [dir : Folders, kind : {"note", "ignored", "meta"}]
ASSUME BoundsAssumption == MaxOwn \in Nat /\ MaxElsewhere \in Nat
ASSUME NoneAssumption == /\ None \notin Contents /\ None \notin Files
                         /\ None \notin Trees /\ None \notin Marks /\ None \notin Targets

Under(f, top) == IsStrictPrefix(top, f)
Within(f, top) == f = top \/ Under(f, top)
Above(S) == {f \in Folders : \E s \in S : Under(s, f)}
ParentsOf(notes) == {f \in Folders : \E x \in notes : Within(x.dir, f)}
Topmost(S) == {f \in S : ~\E g \in S : Under(f, g)}
Deepest(S) == {f \in S : \A g \in S : Len(g) <= Len(f)}

VARIABLES
    dirs, file,        \* the disk: folders, and each file's content or None
    trash,             \* <<file, content>> in the trash or local recovery
    head, base,        \* accepted tree, and the one this device has: [dirs, notes]
    retired,           \* settings.retiredPaths: note -> [hash, at] or None
    created,           \* settings.folderCreateTimes: folder -> time, 0 if none
    last, count, error, \* lastFolderCleanupAt, retiredFolderCount > 0,
                       \* lastFolderCleanupError is set
    full, pending,     \* fullScanRequired, pendingPaths
    target,            \* the pending application: [dirs, notes, prior] or None
    made,              \* unacknowledged create intents: [folders, notes]
    pass,              \* the run: [pc, ...], see Begin
    clock, own, far,   \* time of the last event, actions left
    unsent, sent, raced, gone, scanGone  \* ghosts, see the properties

settings == <<retired, created, last, count, error, full, pending, target>>
tree  == <<head, base>>
ghost == <<unsent, sent, raced, gone, scanGone>>
vars == <<dirs, file, trash, head, base, settings, made, pass, clock, own, far, ghost>>

NotesOn == [x \in Notes |-> file[x]]
Absent  == [x \in Notes |-> None]
Present(notes) == {x \in Notes : notes[x] # None}

Init ==
    /\ dirs = Folders
    /\ file = [x \in Files |-> IF x.kind = "note" THEN "base" ELSE None]
    /\ trash = {}
    /\ head = [dirs |-> Folders, notes |-> [x \in Notes |-> "base"]] /\ base = head
    /\ retired = [x \in Notes |-> None] /\ created = [f \in Folders |-> 0]
    /\ last = 0 /\ count = FALSE /\ error = FALSE /\ full = FALSE /\ pending = {} /\ target = None
    /\ made = [folders |-> {}, notes |-> {}] /\ pass = [pc |-> "idle"]
    /\ clock = 1 /\ own = MaxOwn /\ far = MaxElsewhere
    /\ unsent = {} /\ sent = {} /\ raced = {} /\ gone = {} /\ scanGone = {}

-----------------------------------------------------------------------------
(* The owner, whose folder and note events are journaled at once, and the   *)
(* operating system, whose files nobody tells the plugin about.             *)

Retiring(x) == pass.pc = "walk" /\ Last(pass.stack).moving = x

Owner ==
    /\ own > 0 /\ own' = own - 1
    /\ UNCHANGED <<trash, tree, retired, last, count, error, target, far, sent, scanGone>>

Noted(notes) ==
    /\ pending' = pending \cup notes
    /\ pass' = IF "touched" \in DOMAIN pass THEN [pass EXCEPT !.touched = @ \cup notes] ELSE pass

FolderEvent(notes) ==
    /\ full' = TRUE
    /\ pending' = pending \cup notes
    /\ pass' = IF "touched" \in DOMAIN pass
               THEN [pass EXCEPT !.touched = @ \cup notes, !.refull = TRUE] ELSE pass

MakeFolder(f) ==
    /\ f \in Folders \ dirs /\ Above({f}) \subseteq dirs
    /\ dirs' = dirs \cup {f}
    /\ clock' = clock + 1 /\ created' = [created EXCEPT ![f] = clock + 1]
    /\ made' = [made EXCEPT !.folders = @ \cup {f}] /\ gone' = gone \ {f}
    /\ FolderEvent({})
    /\ UNCHANGED <<file, unsent, raced>>

RemoveFolder(f) ==
    /\ f \in dirs
    /\ dirs' = {g \in dirs : ~Within(g, f)}
    /\ file' = [x \in Files |-> IF Within(x.dir, f) THEN None ELSE file[x]]
    /\ LET lost == {x \in Notes : Within(x.dir, f) /\ file[x] # None}
       IN  /\ made' = [folders |-> {g \in made.folders : ~Within(g, f)}, notes |-> made.notes \ lost]
           /\ unsent' = unsent \ lost
           /\ FolderEvent(lost)
    /\ gone' = gone \cup {g \in dirs : Within(g, f)}
    /\ UNCHANGED <<created, clock, raced>>

WriteNote(x) ==
    /\ x.dir \in dirs
    /\ \E v \in {"own", "base"} \ {file[x]} :
          /\ file' = [file EXCEPT ![x] = v]
          /\ unsent' = IF v = "own" THEN unsent \cup {x} ELSE unsent \ {x}
          /\ raced' = IF v = "own" /\ Retiring(x) THEN raced \cup {x} ELSE raced \ {x}
    /\ made' = IF file[x] = None THEN [made EXCEPT !.notes = @ \cup {x}] ELSE made
    /\ Noted({x})
    /\ UNCHANGED <<dirs, created, full, clock, gone>>

DeleteNote(x) ==
    /\ file[x] # None
    /\ file' = [file EXCEPT ![x] = None]
    /\ unsent' = unsent \ {x} /\ made' = [made EXCEPT !.notes = @ \ {x}]
    /\ Noted({x})
    /\ UNCHANGED <<dirs, created, full, clock, raced, gone>>

LeaveFile(x) ==
    /\ x.dir \in dirs /\ file[x] = None
    /\ file' = [file EXCEPT ![x] = "own"]
    /\ UNCHANGED <<dirs, created, full, pending, made, pass, clock, unsent, raced, gone>>

OwnerActs ==
    /\ Owner
    /\ \/ \E f \in Folders : MakeFolder(f) \/ RemoveFolder(f)
       \/ \E x \in Notes : WriteNote(x) \/ DeleteNote(x)
       \/ \E x \in Files \ Notes : LeaveFile(x)

(* Other devices: the server accepts a tree of theirs.                      *)
Elsewhere ==
    /\ far > 0 /\ far' = far - 1
    /\ \/ \E f \in head.dirs :
             head' = [dirs  |-> {g \in head.dirs : ~Within(g, f)},
                      notes |-> [x \in Notes |-> IF Within(x.dir, f) THEN None ELSE head.notes[x]]]
       \/ \E f \in Folders \ head.dirs : head' = [head EXCEPT !.dirs = @ \cup {f} \cup Above({f})]
       \/ \E x \in Notes : /\ head.notes[x] # None
                           /\ head' = [head EXCEPT !.notes[x] = None]
       \/ \E x \in Notes : head' = [dirs  |-> head.dirs \cup ParentsOf({x}),
                                    notes |-> [head.notes EXCEPT ![x] = "far"]]
    /\ UNCHANGED <<dirs, file, trash, base, settings, made, pass, clock, own, ghost>>

-----------------------------------------------------------------------------
(* What the clean-up asks of the disk and of the journal.                   *)

\* hasLocalFolderIntent: an event at this folder, above or below it.
FolderIntent(f, after) ==
    \E g \in Folders : created[g] > after /\ (Within(g, f) \/ Within(f, g))

\* Mutant: any note with a retirement on record may go.
CurrentFileByName(x) == x.kind = "note" /\ retired[x] = None

\* currentFolderFile: a synchronised file that is not the retired version.
CurrentFile(x) ==
    x.kind = "note" /\ (retired[x] = None \/ retired[x].hash # file[x])

FilesIn(f)    == {x \in Files : x.dir = f /\ file[x] # None}
FilesBelow(f) == {x \in Files : Within(x.dir, f) /\ file[x] # None}
Empty(f)      == FilesIn(f) = {} /\ ~\E g \in dirs : Under(g, f)

\* inspectRetiredFolder: does anything below belong to the vault?
Canonical(f)       == \E x \in FilesBelow(f) : CurrentFile(x)
\* folderHasSyncableFile, in the accepted-folder comparison.
HasSyncableFile(f) == \E x \in FilesBelow(f) : x.kind = "note"

-----------------------------------------------------------------------------
(* Emptying one folder, pruneRetiredTree: a stack of folders being walked,  *)
(* each with the children and files its listing showed. Only the top one    *)
(* moves. A failure gives up the whole root.                                *)

Frame(f) == [dir |-> f, folders |-> {g \in dirs : Under(g, f) /\ Len(g) = Len(f) + 1},
             files |-> FilesIn(f), moving |-> None, seen |-> 0]

Top == Last(pass.stack)
SetTop(frame) == [pass EXCEPT !.stack = Append(Front(@), frame)]
Pop     == [pass EXCEPT !.stack = Front(@), !.pc = IF Len(pass.stack) = 1 THEN pass.loop ELSE "walk"]
GiveUp  == [pass EXCEPT !.stack = <<>>, !.pc = pass.loop, !.failed = TRUE]
Push(f) == [pass EXCEPT !.stack = Append(@, Frame(f)), !.pc = "walk"]

Rest == UNCHANGED <<tree, settings, made, clock, own, far, unsent, sent, scanGone>>
Kept == Rest /\ UNCHANGED <<raced, gone>>

Descend ==
    /\ Top.folders # {}
    /\ \E g \in Top.folders :
          LET rest == SetTop([Top EXCEPT !.folders = @ \ {g}])
          IN  pass' = IF g \in dirs THEN [rest EXCEPT !.stack = Append(@, Frame(g))] ELSE rest
    /\ UNCHANGED <<dirs, file, trash>> /\ Kept

CheckFile ==
    /\ Top.folders = {} /\ Top.moving = None /\ Top.files # {}
    /\ \E x \in Top.files :
          pass' = SetTop([Top EXCEPT !.files = @ \ {x},
                                     !.moving = IF CurrentFile(x) THEN None ELSE x])
    /\ UNCHANGED <<dirs, file, trash>> /\ Kept

\* retireFolderFile: metadata goes, anything else to the trash or recovery.
RetireFile ==
    /\ Top.moving # None
    /\ LET x == Top.moving
       IN  IF file[x] = None
           THEN /\ pass' = IF x.kind = "meta" THEN GiveUp ELSE SetTop([Top EXCEPT !.moving = None])
                /\ UNCHANGED <<file, trash, raced>>
           ELSE /\ file' = [file EXCEPT ![x] = None]
                /\ trash' = IF x.kind = "meta" THEN trash ELSE trash \cup {<<x, file[x]>>}
                /\ raced' = IF x \in Notes /\ retired[x] # None /\ retired[x].hash = file[x]
                            THEN raced \cup {x} ELSE raced
                /\ pass' = SetTop([Top EXCEPT !.moving = None])
    /\ UNCHANGED <<dirs, gone>> /\ Rest

Walked == Top.folders = {} /\ Top.files = {} /\ Top.moving = None

\* Two listings with a pause between them, then the removal of an empty folder.
ListAgain ==
    /\ Walked /\ Top.seen < 2
    /\ pass' = IF Top.dir \in dirs /\ Empty(Top.dir) THEN SetTop([Top EXCEPT !.seen = @ + 1]) ELSE Pop
    /\ UNCHANGED <<dirs, file, trash>> /\ Kept

RemoveEmpty ==
    /\ Walked /\ Top.seen = 2
    /\ IF Top.dir \in dirs /\ Empty(Top.dir)
       THEN dirs' = dirs \ {Top.dir} /\ gone' = gone \cup {Top.dir} /\ pass' = Pop
       ELSE pass' = GiveUp /\ UNCHANGED <<dirs, gone>>
    /\ UNCHANGED <<file, trash, raced>> /\ Rest

Prune == pass.pc = "walk" /\ (Descend \/ CheckFile \/ RetireFile \/ ListAgain \/ RemoveEmpty)

-----------------------------------------------------------------------------
(* A run. stage says where it is, before resuming an interrupted            *)
(* application, in it, or in its own.                                       *)

Begin ==
    /\ pass.pc = "idle"
    /\ pass' = [pc |-> "retired", stage |-> "before", loop |-> "", stack |-> <<>>, todo |-> {},
                eligible |-> {}, before |-> {}, relist |-> FALSE, chosen |-> 0, failed |-> FALSE, desired |-> {}, remote |-> None, scan |-> None,
                plan |-> None, full |-> FALSE, intents |-> made, touched |-> {}, refull |-> FALSE]
    /\ UNCHANGED <<dirs, file, trash>> /\ Kept

Go(pc) == [pass EXCEPT !.pc = pc]
Idle   == [pc |-> "idle"]

(* pruneRetiredEmptyFolders: the folders above retired notes.               *)

Times  == {retired[x].at : x \in {y \in Notes : retired[y] # None}}
Newest == IF Times = {} THEN 0 ELSE Max(Times)
RetiredUnder(f) == {retired[x].at : x \in {y \in Notes : retired[y] # None /\ Within(y.dir, f)}}

AfterRetired == Go(IF pass.stage = "before" THEN "head" ELSE "make")

StartRetired ==
    /\ pass.pc = "retired"
    /\ IF Newest = 0 THEN pass' = AfterRetired /\ count' = FALSE
       ELSE /\ UNCHANGED count
            /\ IF Newest <= last /\ ~count THEN pass' = AfterRetired
               ELSE LET old == {f \in dirs : RetiredUnder(f) # {} /\ ~FolderIntent(f, Max(RetiredUnder(f)))}
                    IN  pass' = [Go("shells") EXCEPT !.eligible = old, !.todo = old, !.chosen = clock,
                                      !.failed = FALSE, !.loop = "shells"]
    /\ UNCHANGED <<dirs, file, trash, tree, retired, created, last, error, full, pending, target, made, clock, own, far, ghost>>

PruneShell ==
    /\ pass.pc = "shells" /\ pass.todo # {}
    /\ \E f \in Deepest(pass.todo) :
          LET rest == [pass EXCEPT !.todo = @ \ {f}]
          IN  pass' = IF Canonical(f) \/ f \notin dirs THEN rest
                      ELSE [rest EXCEPT !.stack = <<Frame(f)>>, !.pc = "walk"]
    /\ UNCHANGED <<dirs, file, trash>> /\ Kept

EndRetired ==
    /\ pass.pc = "shells" /\ pass.todo = {}
    /\ count' = \E f \in pass.eligible \cap dirs : ~Canonical(f)
    /\ last' = IF pass.failed THEN last ELSE Newest
    /\ error' = pass.failed
    /\ pass' = AfterRetired
    /\ UNCHANGED <<dirs, file, trash, tree, retired, created, full, pending, target, made, clock, own, far, ghost>>

(* reconcileFolderTopology: the disk against the accepted folders.          *)

Unwanted(present) == Topmost({f \in present \ pass.desired : ~FolderIntent(f, 0)})

MakeMissing ==
    /\ pass.pc = "make"
    /\ dirs' = dirs \cup pass.desired \cup Above(pass.desired)
    /\ pass' = [Go("roots") EXCEPT !.failed = FALSE, !.loop = "extra", !.before = dirs \cup pass.desired]
    /\ UNCHANGED <<file, trash>> /\ Kept

ChooseRoots ==
    /\ pass.pc = "roots"
    /\ pass' = [Go("extra") EXCEPT !.chosen = clock, !.todo = Unwanted(pass.before), !.relist = Unwanted(pass.before) # {}]
    /\ UNCHANGED <<dirs, file, trash>> /\ Kept

PruneExtra ==
    /\ pass.pc = "extra" /\ pass.todo # {}
    /\ \E f \in pass.todo :
          LET rest == [pass EXCEPT !.todo = @ \ {f}]
          IN  pass' = IF HasSyncableFile(f) \/ f \notin dirs THEN rest
                      ELSE [rest EXCEPT !.stack = <<Frame(f)>>, !.pc = "walk"]
    /\ UNCHANGED <<dirs, file, trash>> /\ Kept

EndTopology ==
    /\ pass.pc = "extra" /\ pass.todo = {}
    /\ LET after     == IF pass.relist THEN dirs ELSE pass.before
           remaining == Unwanted(after) # {} \/ ~(pass.desired \subseteq after)
       IN  /\ count' = remaining
           /\ full' = (full \/ remaining)
           /\ created' = [f \in Folders |-> IF f \in after /\ f \notin pass.desired THEN created[f] ELSE 0]
    /\ last' = IF pass.failed THEN last ELSE clock
    /\ error' = pass.failed
    /\ pass' = IF pass.stage = "before" THEN Idle ELSE Go("finish")
    /\ UNCHANGED <<dirs, file, trash, tree, retired, pending, target, made, clock, own, far, ghost>>

-----------------------------------------------------------------------------
(* SyncEngine.run around the two clean-ups.                                 *)

\* Mutant: a listing that is due does not keep the run from ending here.
ReadHeadLight ==
    /\ pass.pc = "head"
    /\ LET light == target = None /\ pending = {} /\ head = base
       IN  pass' = IF light THEN (IF count \/ error THEN [Go("make") EXCEPT !.desired = base.dirs] ELSE Idle)
                   ELSE [Go(IF target = None THEN "scan" ELSE "apply") EXCEPT
                            !.stage = IF target = None THEN "before" ELSE "resume", !.remote = head]
    /\ UNCHANGED <<dirs, file, trash>> /\ Kept

\* The accepted tree is read. If nothing is pending and the device has it,
\* the folders are compared where a clean-up was left unfinished.
ReadHead ==
    /\ pass.pc = "head"
    /\ LET light == target = None /\ ~full /\ pending = {} /\ head = base
       IN  pass' = IF light THEN (IF count \/ error THEN [Go("make") EXCEPT !.desired = base.dirs] ELSE Idle)
                   ELSE [Go(IF target = None THEN "scan" ELSE "apply") EXCEPT
                            !.stage = IF target = None THEN "before" ELSE "resume", !.remote = head]
    /\ UNCHANGED <<dirs, file, trash>> /\ Kept

\* A full listing, or the changed notes over the accepted tree.
Scan ==
    /\ pass.pc = "scan"
    /\ LET incremental == [dirs  |-> base.dirs,
                           notes |-> [x \in Notes |-> IF x \in pending THEN file[x] ELSE base.notes[x]]]
       IN  pass' = [Go("plan") EXCEPT !.stage = "own", !.full = full, !.intents = made, !.touched = {},
                       !.refull = FALSE,
                       !.scan = IF full THEN [dirs |-> dirs, notes |-> NotesOn] ELSE incremental]
    /\ scanGone' = gone
    /\ UNCHANGED <<dirs, file, trash, tree, settings, made, clock, own, far, unsent, sent, raced, gone>>

\* A note that came back with the bytes of its retirement is the old file,
\* unless the owner was seen creating it.
Stale(x) == /\ retired[x] # None /\ pass.remote.notes[x] = None
            /\ pass.scan.notes[x] = retired[x].hash /\ x \notin pass.intents.notes

LocalNote(x) == IF Stale(x) THEN None ELSE pass.scan.notes[x]

Merge(b, l, r) == IF l = b THEN r ELSE IF r = b THEN l ELSE IF l = None THEN r ELSE l

\* Mutant: the listing alone decides.
FolderKeptHere(f) ==
    f \in pass.scan.dirs \cup ParentsOf(Present([x \in Notes |-> LocalNote(x)]))

\* A folder is there when both sides say so or one side put it there; one
\* the owner made anew has its own identity.
FolderKept(f) ==
    LET b == f \in base.dirs
        l == f \in pass.scan.dirs \cup ParentsOf(Present([x \in Notes |-> LocalNote(x)]))
        r == f \in pass.remote.dirs
    IN  (f \in pass.intents.folders /\ l) \/ (IF l = b THEN r ELSE l)

\* The merge. wanted are the folders the batch leaves on the server, which
\* never lacks a parent; desired is what the device compares its disk with.
Plan ==
    /\ pass.pc = "plan"
    /\ LET notes  == [x \in Notes |-> Merge(base.notes[x], LocalNote(x), pass.remote.notes[x])]
           kept   == {f \in Folders : FolderKept(f)}
           parents == ParentsOf(Present(notes))
           same   == notes = pass.remote.notes /\ kept \ parents = pass.remote.dirs \ parents
                       /\ pass.intents.folders \cap pass.remote.dirs = {}
       IN  pass' = [Go(IF same THEN "stage" ELSE "commit") EXCEPT
                       !.plan = [dirs |-> IF same THEN pass.remote.dirs ELSE kept \cup parents \cup Above(kept), notes |-> notes],
                       !.desired = kept \cup parents]
    /\ retired' = [x \in Notes |-> IF Stale(x) \/ (pass.remote.notes[x] = None /\ pass.scan.notes[x] = None)
                                  THEN retired[x] ELSE None]
    /\ UNCHANGED <<dirs, file, trash, tree, created, last, count, error, full, pending, target, made, clock, own, far, ghost>>

Planned == [dirs |-> pass.plan.dirs, notes |-> pass.plan.notes, prior |-> pass.scan.notes]

\* The operation batch, refused when the server has moved on. Its record makes
\* the result pending even if the run ends here (recoverPendingBatch).
Commit ==
    /\ pass.pc = "commit"
    /\ IF head # pass.remote
       THEN pass' = Idle /\ UNCHANGED <<head, target, sent, gone>>
       ELSE /\ head' = pass.plan
            /\ target' = Planned
            /\ sent' = sent \cup {x \in Notes : pass.plan.notes[x] = "own"}
            /\ gone' = gone \ (scanGone \ dirs)
            /\ pass' = Go("stage")
    /\ UNCHANGED <<dirs, file, trash, base, retired, created, last, count, error, full, pending,
                   made, clock, own, far, unsent, raced, scanGone>>

Retire(notes, was) ==
    /\ retired' = [x \in Notes |-> IF x \in notes THEN [hash |-> was[x], at |-> clock + 1] ELSE retired[x]]
    /\ clock' = IF notes = {} THEN clock ELSE clock + 1

\* stageAndApply: the deletions are recorded as retirements before the disk
\* is touched.
Stage ==
    /\ pass.pc = "stage"
    /\ LET removed == {x \in Notes : pass.scan.notes[x] # None /\ pass.plan.notes[x] = None}
       IN  Retire(removed, pass.scan.notes)
    /\ target' = Planned
    /\ pass' = Go("apply")
    /\ UNCHANGED <<dirs, file, trash, tree, created, last, count, error, full, pending, made, own, far, ghost>>

\* Each note that is still as it was seen gets its accepted content (the
\* work of LocalApply); in an application of its own the first that is not
\* ends the run, and the next one resumes.
Apply ==
    /\ pass.pc = "apply"
    /\ LET changed == {x \in Notes : target.prior[x] # target.notes[x]}
           ready   == {x \in changed : file[x] = target.prior[x]}
           blocked == {x \in changed \ ready : file[x] # target.notes[x]}
       IN  /\ file' = [x \in Files |-> IF x \in ready THEN target.notes[x] ELSE file[x]]
           /\ dirs' = dirs \cup ParentsOf({x \in ready : target.notes[x] # None})
           /\ IF pass.stage = "resume"
              THEN /\ pass' = [Go("retired") EXCEPT !.desired = target.dirs]
                   /\ pending' = pending \cup blocked
                  /\ Retire({x \in changed : target.notes[x] = None /\ base.notes[x] # None}, base.notes)
              ELSE /\ pass' = IF blocked # {} THEN Idle ELSE Go("retired")
                   /\ UNCHANGED <<pending, retired, clock>>
    /\ UNCHANGED <<trash, tree, created, last, count, error, full, target, made, own, far, ghost>>

\* The checkpoint moves. What the run took in is acknowledged, save what
\* happened after it looked.
Finish ==
    /\ pass.pc = "finish"
    /\ base' = [dirs |-> target.dirs, notes |-> target.notes]
    /\ target' = None
    /\ IF pass.stage = "resume"
       THEN /\ pass' = Go("scan") /\ UNCHANGED <<full, pending, made>>
       ELSE /\ full' = IF pass.full /\ ~count THEN pass.refull ELSE full
            /\ pending' = pending \cap pass.touched
            /\ made' = [folders |-> made.folders \ pass.intents.folders, notes |-> made.notes \ pass.intents.notes]
            /\ pass' = Idle
    /\ UNCHANGED <<dirs, file, trash, head, retired, created, last, count, error, clock, own, far, ghost>>

\* Six hours after the last full listing another is due.
Audit ==
    /\ pass.pc = "idle" /\ ~full
    /\ full' = TRUE
    /\ UNCHANGED <<dirs, file, trash, tree, retired, created, last, count, error, pending, target,
                   made, pass, clock, own, far, ghost>>

\* A run is cancelled, or the application closed, at any await; the settings
\* it changed are saved.
Stop ==
    /\ pass.pc # "idle"
    /\ own > 0 /\ own' = own - 1
    /\ pass' = Idle
    /\ UNCHANGED <<dirs, file, trash, tree, settings, made, clock, far, ghost>>

Run == \/ Begin \/ StartRetired \/ PruneShell \/ EndRetired
       \/ MakeMissing \/ ChooseRoots \/ PruneExtra \/ EndTopology \/ Prune
       \/ ReadHead \/ Scan \/ Plan \/ Commit \/ Stage \/ Apply \/ Finish

Next == OwnerActs \/ Elsewhere \/ Stop \/ Audit \/ Run

\* Runs are started by events and by a timer, and the audit comes round.
Spec == Init /\ [][Next]_vars /\ WF_vars(Run) /\ SF_vars(Audit)

-----------------------------------------------------------------------------

\* What the owner wrote and the server has never accepted is where it was
\* written, or in the trash when it was written between the check of the
\* retired file and its move.
OwnTextStays ==
    \A x \in unsent \ sent : \/ file[x] = "own"
                             \/ x \in raced /\ <<x, "own">> \in trash

FolderRemovalIsWanted ==
    [][Commit => head.dirs \ head'.dirs \subseteq scanGone]_vars

NewFolderStays ==
    [][Prune => \A f \in dirs \ dirs' :
           \/ created[f] = 0 \/ created[f] > pass.chosen
           \/ pass.loop = "shells" /\ created[f] <= Newest]_vars

\* No folder goes that somebody wants. What a run publishes as removed was on
\* this disk and went: the owner removed it, or the clean-up did; folders of
\* others that this device has not met yet, and those it is told of while it
\* looks, are never removed. And the clean-up leaves a folder the owner was seen
\* to make before its roots were chosen, unless a later retirement is what it
\* acts on (pruneRetiredTree, reconcileFolderTopology).
WantedFoldersStay == FolderRemovalIsWanted /\ NewFolderStays

\* Once owner and server are quiet the device comes to the accepted folders
\* and notes, with no clean-up left to do.
FoldersSettle ==
    <>[](dirs = head.dirs /\ base = head /\ NotesOn = head.notes /\ ~count)
=============================================================================
