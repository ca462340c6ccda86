--------------------------- MODULE ReadableMirror ----------------------------
(***************************************************************************)
(* The readable copy of one file in Seafile, seen from the server: the     *)
(* mirror job that projects the accepted head onto it (app.ts              *)
(* reconcileReadableMirror, jobs.ts), the projection journal that keeps    *)
(* what a write may cover (projection-journal.ts), the importer that       *)
(* brings external edits into accepted history (external.ts), and the      *)
(* checkpoint repair that rebuilds the copy (checkpoint-repair.ts and the  *)
(* /v1/health/repair route).  Seafile has no conditional write: an editor  *)
(* may save between any two steps of the server.                           *)
(*                                                                         *)
(* Content is the set of edits it incorporates, as in DeviceJournal; an    *)
(* edit builds on what its author sees.  The file always exists, its size  *)
(* tells versions apart, and the later save carries the later mtime.       *)
(***************************************************************************)
EXTENDS Naturals, Sequences, SequencesExt

CONSTANTS Drafts,      \* edits made directly in Seafile
          Foreign,     \* edits devices commit
          MaxHeads,    \* bound: accepted snapshots
          MaxRepairs,  \* bound: repair requests that start
          MaxLocks,    \* bound: changes of the owner's write lock
          MaxFaults,   \* bound: storage failures and restarts
          Mark,        \* the 'repair:<time>' hash of mirror_entries
          Owner, Repair, None

(* What a file may hold, a row of external_revisions, the intent of a       *)
(* repair, and the prepared mutation, over the contents V.                  *)
Content      == SUBSET (Drafts \cup Foreign)
Rows(V)      == [val : V, read : BOOLEAN, later : BOOLEAN]
Intents      == [target : Nat, prior : {None, Owner}]
Mutations(V) == [expected : V \cup {Mark}, target : V, since : Seq(V)]

ASSUME Disjoint == Drafts \cap Foreign = {}
ASSUME MarkAssumption == \A c \in Content : Mark # c
ASSUME LocksAssumption == Owner # None /\ Repair \notin {Owner, None}
ASSUME NoneAssumption == None \notin Intents /\ None \notin Mutations(Content)

VARIABLES
    accepted,    \* contents of the accepted snapshots; head_id is the last
    generation,  \* mirror_head_id = mirror_generation_id, 0 for NULL
    record,      \* checkpoint_repair_json: [target, prior] or None
    lock,        \* write_locked_by: None, Owner or Repair
    entry,       \* mirror_entries: [hash, fresh]; fresh: storage_id is current
    pending,     \* external_revisions not yet imported, in causal order
    archive,     \* edits in any row of external_revisions
    mutation,    \* the prepared row of mirror_mutations or None
    due,         \* mirror_jobs: work enqueued since the last claim
    readable,    \* Seafile: the visible content
    made,        \* Seafile: edits its editors have saved
    up,          \* the process is running
    held,        \* healthRepairLocks
    requested,   \* healthRepairRequests
    approved,    \* restoreApprovedVaults
    skip,        \* skipExternalOnce
    draining,    \* externalScanRequests
    job,         \* the mirror job
    scan,        \* the importer
    route,       \* the repair request
    manual,      \* the lock the owner last asked for
    counts       \* repairs, lock changes and faults so far

database == <<accepted, generation, record, lock, entry, pending, archive,
              mutation, due>>
seafile  == <<readable, made>>
process  == <<up, held, requested, approved, skip, draining>>
actors   == <<job, scan, route>>
outside  == <<manual, counts>>
vars     == <<accepted, generation, record, lock, entry, pending, archive,
              mutation, due, readable, made, up, held, requested, approved,
              skip, draining, job, scan, route, manual, counts>>

Latest     == Len(accepted)
LatestVal  == accepted[Latest]
NoJob      == [pc |-> "idle", target |-> 0, repair |-> FALSE, current |-> FALSE]
NoScan     == [pc |-> "idle", head |-> 0, base |-> {}, val |-> {},
               live |-> FALSE, current |-> FALSE, timer |-> FALSE]
NoRoute    == [pc |-> "idle", job |-> FALSE, scan |-> FALSE]

(* A vault in step, or one an older release left in the middle of a repair. *)
Init ==
    /\ accepted = <<{}>>
    /\ lock = None /\ record = None
    /\ \/ generation = 1 /\ entry = [hash |-> {}, fresh |-> TRUE]
       \/ generation = 0 /\ entry = [hash |-> Mark, fresh |-> FALSE]
    /\ pending = <<>> /\ archive = {} /\ mutation = None /\ due = FALSE
    /\ readable = {} /\ made = {}
    /\ up = FALSE /\ held = FALSE /\ requested = FALSE /\ approved = FALSE
    /\ skip = FALSE /\ draining = FALSE
    /\ job = NoJob /\ scan = NoScan /\ route = NoRoute
    /\ manual = None
    /\ counts = [repairs |-> 0, locks |-> 0, faults |-> 0]

-----------------------------------------------------------------------------
(* Rows of external_revisions.                                              *)

Row(v, r) == [val |-> v, read |-> r, later |-> mutation # None]

(* INSERT OR IGNORE of what is visible now, the latest row there is.        *)
Observe(rows, v, r) ==
    IF rows # <<>> /\ Last(rows).val = v
    THEN [rows EXCEPT ![Len(rows)].read = r]
    ELSE Append(rows, Row(v, r))

(* The rows at some of their places, in the order they have.               *)
Those(rows, places) ==
    LET those[n \in 0 .. Len(rows)] ==
            IF n = 0 THEN <<>>
            ELSE IF n \in places THEN Append(those[n - 1], rows[n])
            ELSE those[n - 1]
    IN  those[Len(rows)]

Unread(rows) == Those(rows, {i \in DOMAIN rows : ~rows[i].read})
Forget(rows) == [i \in DOMAIN rows |-> [rows[i] EXCEPT !.read = FALSE]]
Drawn(vals)  == (UNION vals) \cap Drafts

(* ProjectionJournal.finish: every revision since the baseline is kept, the *)
(* unknown ones as pending, in the place their operation has in time.       *)
Captured(m) ==
    LET plain(row) == [row EXCEPT !.later = FALSE]
        after == {i \in DOMAIN pending : pending[i].later}
        early == Those(pending, DOMAIN pending \ after)
        late  == Those(pending, after)
        rows  == early \o [i \in DOMAIN m.since |->
                              [val |-> m.since[i], read |-> FALSE, later |-> FALSE]]
                       \o late
    IN  [i \in DOMAIN rows |-> plain(rows[i])]

\* Mutant: the revisions since the baseline are not preserved.
CaptureLeavesArchive ==
    IF mutation = None
    THEN UNCHANGED <<pending, archive, mutation>>
    ELSE pending' = Captured(mutation) /\ mutation' = None /\ UNCHANGED archive

Capture ==
    IF mutation = None
    THEN UNCHANGED <<pending, archive, mutation>>
    ELSE /\ pending' = Captured(mutation)
         /\ archive' = archive \cup Drawn(Range(mutation.since))
         /\ mutation' = None

(* A write to the readable file by anyone: its storage id changes, history  *)
(* gets a commit, a scan that has listed the file holds the old id.         *)
Written(v) ==
    /\ readable' = v
    /\ scan' = [scan EXCEPT !.current = FALSE]

Since(v) ==
    IF mutation # None /\ v \notin {mutation.expected, mutation.target}
    THEN [mutation EXCEPT !.since = Append(@, v)]
    ELSE mutation

-----------------------------------------------------------------------------
(* Editors in Seafile, devices and the owner's lock.                        *)

ExternalEdit(d) ==
    /\ d \notin made
    /\ Written(readable \cup {d})
    /\ mutation' = Since(readable \cup {d})
    /\ entry' = [entry EXCEPT !.fresh = FALSE]
    /\ made' = made \cup {d}
    /\ UNCHANGED <<accepted, generation, record, lock, pending, archive, due,
                   process, job, route, outside>>

Writable == up /\ ~held /\ record = None    \* assertWritable

(* A device's snapshot is accepted; it edits this file or another one.      *)
DeviceCommit(v) ==
    /\ Writable /\ lock = None /\ Latest < MaxHeads
    /\ v \ LatestVal \subseteq Foreign /\ LatestVal \subseteq v
    /\ accepted' = Append(accepted, v)
    /\ due' = TRUE
    /\ UNCHANGED <<generation, record, lock, entry, pending, archive, mutation,
                   seafile, process, actors, outside>>

SetLock(l) ==
    /\ Writable /\ counts.locks < MaxLocks /\ l # lock
    /\ lock' = l /\ manual' = l
    /\ counts' = [counts EXCEPT !.locks = @ + 1]
    /\ UNCHANGED <<accepted, generation, record, entry, pending, archive,
                   mutation, due, seafile, process, actors>>

-----------------------------------------------------------------------------
(* CheckpointRepairs.                                                       *)

Begun(rec) ==
    IF rec # None THEN rec ELSE [target |-> Latest, prior |-> lock]

(* recover: a saved repair, or the marks an older release left behind.      *)
Recovered ==
    IF record = None /\ generation = 0 /\ entry.hash = Mark
    THEN Begun(None) ELSE record

Holding(rec) == /\ record' = rec
                /\ lock' = IF record = None /\ rec # None THEN Repair ELSE lock

(* finish, with the current row: false while the copy is not the target's.  *)
Finishes(gen, s) == record = None \/ (record.target = s /\ gen = s)
Finish(gen, s) ==
    IF record # None /\ Finishes(gen, s)
    THEN record' = None /\ lock' = IF lock = Repair THEN record.prior ELSE lock
    ELSE UNCHANGED <<record, lock>>

-----------------------------------------------------------------------------
(* The process: buildApp and onReady, and a crash.                          *)

Start ==
    /\ ~up
    /\ up' = TRUE
    /\ Holding(Recovered)
    /\ held' = (Recovered # None) /\ approved' = (Recovered # None)
    /\ due' = TRUE
    /\ UNCHANGED <<accepted, generation, entry, pending, archive, mutation,
                   seafile, requested, skip, draining, actors, outside>>

Crash ==
    /\ up /\ counts.faults < MaxFaults
    /\ counts' = [counts EXCEPT !.faults = @ + 1]
    /\ up' = FALSE /\ held' = FALSE /\ requested' = FALSE /\ approved' = FALSE
    /\ skip' = FALSE /\ draining' = FALSE
    /\ job' = NoJob /\ scan' = NoScan /\ route' = NoRoute
    /\ pending' = Forget(pending)
    /\ UNCHANGED <<accepted, generation, record, lock, entry, archive,
                   mutation, due, seafile, manual>>

-----------------------------------------------------------------------------
(* The importer: ingestExternalChanges and ExternalImporter.run.            *)

Merge(base, ours, theirs) ==
    (ours \cap theirs) \cup (ours \ base) \cup (theirs \ base)

ToImport == ~entry.fresh \/ pending # <<>>

(* What the three-way merge takes as the last common state.                 *)
MergeBase == IF generation = Latest THEN entry.hash
             ELSE IF generation = 0 THEN {} ELSE accepted[generation]

(* List the readable tree and the pending revisions, keep what is visible,  *)
(* and choose one version: the visible one when it differs from the head,   *)
(* else the latest pending one.                                             *)
Listed(timer) ==
    LET live == ~entry.fresh /\ (readable # LatestVal \/ pending = <<>>)
        seen == [i \in DOMAIN pending |-> [pending[i] EXCEPT !.read = TRUE]]
    IN  /\ scan' = [pc |-> "import", head |-> Latest, base |-> MergeBase,
                    val |-> IF live THEN readable ELSE Last(pending).val,
                    live |-> live, current |-> TRUE, timer |-> timer]
        /\ pending' = IF entry.fresh THEN seen ELSE Observe(seen, readable, TRUE)
        /\ archive' = IF entry.fresh THEN archive
                      ELSE archive \cup Drawn({readable})

Behind == generation # Latest    \* the scan reports a generation mismatch

(* Every three seconds.  A scan that finds the copy behind wakes the job.   *)
TimerScan ==
    /\ up /\ scan.pc = "idle" /\ job.pc = "idle" /\ ~held /\ ~draining
    /\ \/ ToImport /\ Listed(TRUE) /\ UNCHANGED due
       \/ /\ ~ToImport /\ Behind /\ due' = TRUE
          /\ UNCHANGED <<pending, archive, scan>>
    /\ UNCHANGED <<accepted, generation, record, lock, entry, mutation,
                   seafile, process, job, route, outside>>

(* The scan is over; a mirror job that waited for it goes on at "next".     *)
ScanOver(next) ==
    /\ scan' = NoScan
    /\ job' = IF job.pc = "importing" THEN [job EXCEPT !.pc = next] ELSE job
    /\ route' = [route EXCEPT !.scan = FALSE]
    /\ UNCHANGED <<generation, record, lock, archive, mutation, seafile,
                   process>>

Merged == Merge(scan.base, accepted[scan.head], scan.val)

(* equal, unchanged or local-only: Seafile brings nothing to decide.        *)
Decided == scan.val \in {accepted[scan.head], scan.base}

(* No content stands behind a repair mark: to read it as a base throws.     *)
Mergeable == scan.base # Mark \/ Decided

(* Nothing new: what was read is taken as imported.                         *)
ScanUnchanged ==
    /\ scan.pc = "import" /\ Decided
    /\ pending' = Unread(pending)
    /\ entry' = IF scan.live THEN [entry EXCEPT !.fresh = scan.current] ELSE entry
    /\ due' = (due \/ (scan.timer /\ Behind))
    /\ ScanOver("read")
    /\ UNCHANGED <<accepted, outside>>

(* Refused: the vault is held or locked, or the head moved under the scan.  *)
ScanRefused ==
    /\ scan.pc = "import" /\ Mergeable /\ ~Decided
    /\ held \/ lock # None \/ Latest # scan.head
    /\ pending' = Forget(pending)
    /\ ScanOver(IF ~held /\ lock # None THEN "done" ELSE "read")
    /\ UNCHANGED <<accepted, entry, due, outside>>

ScanImports ==
    /\ scan.pc = "import" /\ Mergeable /\ ~Decided
    /\ ~held /\ lock = None /\ Latest = scan.head /\ Latest < MaxHeads
    /\ accepted' = Append(accepted, Merged)
    /\ pending' = Unread(pending)
    /\ entry' = IF scan.live THEN [hash |-> scan.val, fresh |-> scan.current]
                ELSE entry
    /\ due' = TRUE
    /\ ScanOver("read")
    /\ UNCHANGED outside

ScanEndsBadly ==
    /\ scan.pc = "import"
    /\ pending' = Forget(pending)
    /\ ScanOver("retry")
    /\ UNCHANGED <<accepted, entry, due, manual>>

ScanThrows == ~Mergeable /\ ScanEndsBadly /\ UNCHANGED counts

ScanFails ==
    /\ counts.faults < MaxFaults
    /\ counts' = [counts EXCEPT !.faults = @ + 1]
    /\ ScanEndsBadly

ScanStep == ScanUnchanged \/ ScanRefused \/ ScanImports \/ ScanThrows

-----------------------------------------------------------------------------
(* The mirror job: reconcileReadableMirror.                                 *)

Target      == accepted[job.target]
MayContinue == Latest = job.target /\ ~draining
At(pc)      == job.pc = pc
Goto(pc)    == job' = [job EXCEPT !.pc = pc]

(* A newer head, or somebody waiting for the job to stop.                   *)
Superseded ==
    /\ ~MayContinue
    /\ draining' = FALSE
    /\ due' = (due \/ draining)
    /\ skip' = (skip \/ ~draining)
    /\ Goto(IF draining THEN "done" ELSE "recover")

Claimed == [NoJob EXCEPT !.pc = "recover"]

JobStart ==
    /\ up /\ At("idle") /\ due
    /\ job' = Claimed /\ due' = FALSE
    /\ UNCHANGED <<accepted, generation, record, lock, entry, pending, archive,
                   mutation, seafile, process, scan, route, outside>>

JobRecover ==
    /\ At("recover")
    /\ Capture
    /\ Holding(Recovered)
    /\ LET repair == Recovered # None IN
       /\ held' = (held \/ repair) /\ approved' = (approved \/ repair)
       /\ skip' = FALSE
       /\ job' = [job EXCEPT !.pc = IF repair \/ skip THEN "read" ELSE "ingest",
                             !.repair = repair]
    /\ UNCHANGED <<accepted, generation, entry, due, seafile, up, requested,
                   draining, scan, route, outside>>

JobIngest ==
    /\ At("ingest")
    /\ \/ /\ held \/ draining \/ (scan.pc = "idle" /\ ~ToImport)
          /\ Goto("read")
          /\ UNCHANGED <<scan, pending, archive>>
       \/ /\ ~held /\ ~draining /\ scan.pc # "idle"
          /\ Goto("importing")
          /\ UNCHANGED <<scan, pending, archive>>
       \/ /\ ~held /\ ~draining /\ scan.pc = "idle" /\ ToImport
          /\ Goto("importing")
          /\ Listed(FALSE)
    /\ UNCHANGED <<accepted, generation, record, lock, entry, mutation, due,
                   seafile, process, route, outside>>

JobRead ==
    /\ At("read")
    /\ IF draining
       THEN due' = TRUE /\ Goto("done")
       ELSE /\ UNCHANGED due
            /\ job' = [job EXCEPT !.pc = "plan", !.target = Latest,
                                  !.current = (generation = Latest)]
    /\ UNCHANGED <<accepted, generation, record, lock, entry, pending, archive,
                   mutation, seafile, process, scan, route, outside>>

(* A repair that ends gives up the hold, unless its request still runs.     *)
EndRepair(gen) ==
    IF job.repair
    THEN /\ Finish(gen, job.target)
         /\ held' = (held /\ (requested \/ ~Finishes(gen, job.target)))
    ELSE UNCHANGED <<record, lock, held>>

JobCurrent ==
    /\ At("plan") /\ job.current
    /\ EndRepair(generation)
    /\ Goto("done")
    /\ UNCHANGED <<accepted, generation, entry, pending, archive, mutation,
                   due, seafile, up, requested, approved, skip, draining, scan,
                   route, outside>>

(* The copy already shows the target; a repair proves it by reading it.     *)
JobShown ==
    /\ At("plan") /\ ~job.current /\ MayContinue
    /\ readable = Target /\ (entry.hash = Target \/ approved)
    /\ entry' = IF entry.hash = Target THEN entry
                ELSE [hash |-> Target, fresh |-> TRUE]
    /\ Goto("verify")
    /\ UNCHANGED <<accepted, generation, record, lock, pending, archive,
                   mutation, due, seafile, process, scan, route, outside>>

(* ProjectionJournal.prepare: what is visible is kept before it is covered; *)
(* a version nobody knows stops the job.                                    *)
JobPrepare ==
    /\ At("plan") /\ ~job.current /\ MayContinue
    /\ ~(readable = Target /\ (entry.hash = Target \/ approved))
    /\ archive' = archive \cup Drawn({readable})
    /\ LET expected == IF approved THEN readable ELSE entry.hash
       IN  IF readable \in {expected, Target}
           THEN /\ mutation' = [expected |-> expected, target |-> Target,
                                since |-> <<>>]
                /\ Goto("put")
                /\ UNCHANGED pending
           ELSE /\ pending' = Observe(pending, readable, FALSE)
                /\ Goto("retry")
                /\ UNCHANGED mutation
    /\ UNCHANGED <<accepted, generation, record, lock, entry, due, seafile,
                   process, scan, route, outside>>

JobPut ==
    /\ At("put") /\ MayContinue
    /\ Written(Target)
    /\ entry' = [entry EXCEPT !.fresh = FALSE]
    /\ Goto("finish")
    /\ UNCHANGED <<accepted, generation, record, lock, pending, archive,
                   mutation, due, made, process, route, outside>>

\* Mutant: the row of the copy is not rewritten.
JobFinishKeepsRow ==
    /\ At("finish") /\ MayContinue
    /\ Capture
    /\ Goto(IF mutation.since # <<>> THEN "retry" ELSE "verify")
    /\ UNCHANGED <<accepted, generation, record, lock, entry, due, seafile,
                   process, scan, route, outside>>

JobFinish ==
    /\ At("finish") /\ MayContinue
    /\ Capture
    /\ entry' = [hash |-> Target, fresh |-> FALSE]
    /\ Goto(IF mutation.since # <<>> THEN "retry" ELSE "verify")
    /\ UNCHANGED <<accepted, generation, record, lock, due, seafile, process,
                   scan, route, outside>>

(* The last check of the copy, by content when its storage id has changed.  *)
JobVerify ==
    /\ At("verify")
    /\ \/ readable # Target /\ Goto("retry") /\ UNCHANGED entry
       \/ /\ readable = Target /\ MayContinue
          /\ entry' = IF entry.hash = Target THEN [entry EXCEPT !.fresh = TRUE]
                      ELSE entry
          /\ Goto("complete")
    /\ UNCHANGED <<accepted, generation, record, lock, pending, archive,
                   mutation, due, seafile, process, scan, route, outside>>

(* The generation marker is written, then the row if the head has not moved.*)
JobComplete ==
    /\ At("complete")
    /\ IF Latest = job.target
       THEN /\ generation' = job.target
            /\ EndRepair(job.target)
            /\ Goto("done")
            /\ UNCHANGED skip
       ELSE /\ skip' = TRUE
            /\ Goto("recover")
            /\ UNCHANGED <<generation, record, lock, held>>
    /\ UNCHANGED <<accepted, entry, pending, archive, mutation, due, seafile,
                   up, requested, approved, draining, scan, route, outside>>

JobSuperseded ==
    /\ \/ At("plan") /\ ~job.current /\ UNCHANGED <<pending, archive, mutation>>
       \/ At("put") /\ UNCHANGED <<pending, archive, mutation>>
       \/ At("finish") /\ Capture
       \/ At("verify") /\ readable = Target
          /\ UNCHANGED <<pending, archive, mutation>>
    /\ Superseded
    /\ UNCHANGED <<accepted, generation, record, lock, entry, seafile, up, held,
                   requested, approved, scan, route, outside>>

\* Mutant: a failed job loses its row of mirror_jobs.
JobFinallyForgets ==
    /\ job.pc \in {"done", "retry"}
    /\ job' = NoJob
    /\ approved' = FALSE
    /\ route' = [route EXCEPT !.job = FALSE]
    /\ UNCHANGED <<accepted, generation, record, lock, entry, pending, archive,
                   mutation, due, seafile, up, held, requested, skip, draining,
                   scan, outside>>

(* catch and finally: a failed job keeps its row, any job drops its permit. *)
JobFinally ==
    /\ job.pc \in {"done", "retry"}
    /\ job' = NoJob
    /\ approved' = FALSE
    /\ due' = (due \/ job.pc = "retry")
    /\ route' = [route EXCEPT !.job = FALSE]
    /\ UNCHANGED <<accepted, generation, record, lock, entry, pending, archive,
                   mutation, seafile, up, held, requested, skip, draining, scan,
                   outside>>

JobFails ==
    /\ job.pc \in {"recover", "plan", "put", "finish", "verify", "complete"}
    /\ counts.faults < MaxFaults
    /\ counts' = [counts EXCEPT !.faults = @ + 1]
    /\ Goto("retry")
    /\ UNCHANGED <<accepted, generation, record, lock, entry, pending, archive,
                   mutation, due, seafile, process, scan, route, manual>>

JobStep == \/ JobStart \/ JobRecover \/ JobIngest \/ JobRead \/ JobCurrent
           \/ JobShown \/ JobPrepare \/ JobPut \/ JobFinish \/ JobVerify
           \/ JobComplete \/ JobSuperseded \/ JobFinally

-----------------------------------------------------------------------------
(* The repair request: /v1/health/repair.                                   *)

RepairBusy ==
    /\ up /\ (held \/ record # None) /\ ~due
    /\ due' = TRUE
    /\ UNCHANGED <<accepted, generation, record, lock, entry, pending, archive,
                   mutation, seafile, process, actors, outside>>

RepairRequest ==
    /\ Writable /\ route.pc = "idle" /\ counts.repairs < MaxRepairs
    /\ counts' = [counts EXCEPT !.repairs = @ + 1]
    /\ held' = TRUE /\ requested' = TRUE /\ draining' = TRUE
    /\ route' = [pc |-> "drain", job |-> job.pc # "idle",
                 scan |-> scan.pc # "idle"]
    /\ UNCHANGED <<database, seafile, up, approved, skip, job, scan, manual>>

(* await reconcileReadableMirror: join the job that runs or start one.      *)
Project(pc) ==
    /\ route' = [pc |-> pc, job |-> TRUE, scan |-> FALSE]
    /\ job' = IF At("idle") THEN Claimed ELSE job
    /\ due' = ~At("idle")
    /\ skip' = TRUE

(* Pending external edits are set aside, and no row of the copy is trusted. *)
Rebuild ==
    /\ pending' = <<>>
    /\ entry' = [entry EXCEPT !.hash = Mark]
    /\ generation' = 0
    /\ approved' = TRUE
    /\ Project("first")

RepairBegin ==
    /\ route.pc = "drain" /\ ~route.job /\ ~route.scan
    /\ draining' = FALSE
    /\ Holding(Begun(record))
    /\ \/ Rebuild
       \/ /\ Latest < MaxHeads    \* redundant conflict copies to remove
          /\ route' = [route EXCEPT !.pc = "clean"]
          /\ UNCHANGED <<pending, entry, generation, approved, job, due, skip>>
    /\ UNCHANGED <<accepted, archive, mutation, seafile, up, held, requested,
                   scan, outside>>

\* Mutant: the cleaned snapshot is accepted and setTarget is not called.
RepairCleanKeepsTarget ==
    /\ route.pc = "clean" /\ record # None
    /\ accepted' = Append(accepted, LatestVal)
    /\ Rebuild
    /\ UNCHANGED <<record, lock, archive, mutation, seafile, up, held, requested,
                   draining, scan, outside>>

(* The cleaned snapshot and the repair's new target are one transaction.    *)
RepairClean ==
    /\ route.pc = "clean" /\ record # None
    /\ accepted' = Append(accepted, LatestVal)
    /\ record' = [record EXCEPT !.target = Latest + 1]
    /\ Rebuild
    /\ UNCHANGED <<lock, archive, mutation, seafile, up, held, requested,
                   draining, scan, outside>>

Leave ==
    /\ route' = NoRoute
    /\ requested' = FALSE
    /\ held' = (held /\ record # None)
    /\ due' = (due \/ record # None)

(* The intent is gone (setTarget throws) or the sidecar PUT fails.          *)
RepairAborts ==
    /\ route.pc = "clean"
    /\ \/ record = None /\ UNCHANGED counts
       \/ /\ record # None /\ counts.faults < MaxFaults
          /\ counts' = [counts EXCEPT !.faults = @ + 1]
    /\ Leave
    /\ UNCHANGED <<accepted, generation, record, lock, entry, pending, archive,
                   mutation, seafile, up, approved, skip, draining, job, scan,
                   manual>>

RepairChecks ==
    /\ route.pc \in {"first", "second"} /\ ~route.job
    /\ IF route.pc = "second" \/ generation = Latest
       THEN Leave /\ UNCHANGED <<job, skip>>
       ELSE Project("second") /\ UNCHANGED <<requested, held>>
    /\ UNCHANGED <<accepted, generation, record, lock, entry, pending, archive,
                   mutation, seafile, up, approved, draining, scan, outside>>

RouteStep == RepairBegin \/ RepairClean \/ RepairAborts \/ RepairChecks

-----------------------------------------------------------------------------
(* What a request awaited is settled: it goes on in the same turn of the    *)
(* event loop, before any timer, answer or other request.                   *)
RequestTurn ==
    \/ route.pc = "drain" /\ ~route.job /\ ~route.scan
    \/ route.pc \in {"first", "second"} /\ ~route.job

ServerStep == \/ \E v \in Content : DeviceCommit(v)
              \/ \E l \in {None, Owner} : SetLock(l)
              \/ TimerScan \/ ScanStep \/ ScanFails
              \/ JobStep \/ JobFails
              \/ RepairBusy \/ RepairRequest

Next == \/ \E d \in Drafts : ExternalEdit(d)
        \/ Start \/ Crash
        \/ ~RequestTurn /\ ServerStep
        \/ RouteStep

Fairness == /\ WF_vars(Start) /\ WF_vars(TimerScan) /\ WF_vars(ScanStep)
            /\ WF_vars(JobStep) /\ WF_vars(RouteStep)

Spec == Init /\ [][Next]_vars /\ Fairness
-----------------------------------------------------------------------------
(* No write of the server destroys an edit made in Seafile: it stands in    *)
(* the visible file, in accepted history, in the encrypted revision         *)
(* history, or in the immutable history an unfinished operation still has   *)
(* to read, whatever editor, job, scan, repair and restart do in between.   *)
NothingDestroyed ==
    \A d \in made :
        \/ d \in readable \/ d \in archive
        \/ \E s \in DOMAIN accepted : d \in accepted[s]
        \/ mutation # None /\ \E i \in DOMAIN mutation.since : d \in mutation.since[i]

(* A repair keeps what it borrows until it is done, whatever crash, commit, *)
(* clean-up or owner's request comes between: its target is the accepted    *)
(* head, so that no read of the record refuses and leaves the vault held    *)
(* for good; the owner's own freeze is kept in the record and stands again, *)
(* as it was, when the record is gone; and a running server lets no writer  *)
(* into a vault whose repair is on record or whose copy a repair has given  *)
(* up.                                                                      *)
RepairKeepsItsHold ==
    /\ IF record = None
       THEN lock = manual
       ELSE record.target = Latest /\ lock = Repair /\ record.prior = manual
    /\ up /\ (record # None \/ (generation = 0 /\ entry.hash = Mark))
           => held /\ record # None

(* A vault that says its copy shows the head has, in the row the importer   *)
(* merges against, the head's own content or a mark that merges with        *)
(* nothing: an edit of Seafile is never compared with an older version.     *)
BaseIsHead == generation = Latest => entry.hash \in {LatestVal, Mark}

(* Nothing the background does is left half done: again and again the copy  *)
(* shows the head, nothing waits for import and no repair holds the vault,  *)
(* unless the owner's freeze or the bound on heads keeps an edit out, or a  *)
(* mark has survived its repair (see the README).                           *)
Settled ==
    up /\ generation = Latest /\ readable = LatestVal /\ record = None /\ ~held
       /\ pending = <<>>
MarkSurvives == entry.hash = Mark /\ generation # 0
OutOfHeads   == Latest = MaxHeads /\ scan.pc = "import"
Converges    == []<>(Settled \/ lock = Owner \/ OutOfHeads \/ MarkSurvives)
=============================================================================
