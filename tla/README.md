# Verification of Gib Sync

TLA+ modules, TLC runs and TLAPS proofs for Gib Sync, a self-hosted
synchronization server for Obsidian vaults with an Obsidian plugin. All source
paths are relative to the repository; `app.ts`, `engine.ts` and the like stand
for `apps/server/src/app.ts` and `plugin/src/engine.ts`.

`PROJECT.json` holds the same information in machine-readable form: the
components, the runs with their properties, one mutant of the modelled code per
property, the lines every definition stands for, hazards, theorems.

Running it, in this directory:

    tlc -workers 2 -config ReadableMirror.cfg ReadableMirror
    tlc -workers 2 -config OperationCommitter.cfg MCOperationCommitter
    tlapm OperationCommitterProofs.tla

A run named `x` in the tables below is the module and `.cfg` `PROJECT.json`
gives for `x`.

## 1. The system

    owner's editor                                 other editors
          |                                              |
      vault files                                  Seafile library
          |                                       (readable copy)
    +-----------+   HTTP    +---------------------------+     |
    | plugin    | <-------> | server (one process)      | <---+
    | engine,   |  batches  |  safety center            |  importer,
    | journals, |  receipts |  operation committer      |  mirror job,
    | local     |  blobs    |  repair, jobs             |  repair
    | apply     |           |  SQLite | object storage  |
    +-----------+           +---------------------------+

A *vault* is a linear history of accepted snapshots. Devices publish batches of
operations against the snapshot they last saw; edits made directly in Seafile
are imported; every writer goes through one function,
`OperationSnapshotCommitter.accept`. The accepted head flows out again twice: to
the devices, which apply it to the files their owners are editing, and to a
readable copy of the vault in Seafile, which other people edit with any tool.

The server is one Node process: the code between two `await`s is one atomic
step, and whatever is awaited (object storage, Seafile, hashing) lets every
other handler, timer and job run. SQLite transactions are synchronous. The
plugin runs in Obsidian: the owner's editor runs between any two of its awaits,
and on a phone the process may be killed at any of them.

### Inventory

| Component | State | Operations | What makes it hard | What makes it correct |
|---|---|---|---|---|
| Write authority (`operation-committer.ts`, `operation-state.ts`, `snapshot-bridge.ts`) | head, snapshots, entity table, state row, receipts, operation rows (SQLite); sidecar objects | `accept` of a batch or a bridged full snapshot, preview, replay | plans, awaits a PUT, commits; retries, concurrent copies of a batch, repair holds, crashes | one linear durable history; a batch takes effect once, and only on the revisions its author saw |
| Safety center (`safeguards.ts`, handlers of `app.ts`) | write lock, maintenance window, quarantine rows | assess and propose, hold, approve, reject, expire, lock, maintenance | decisions, locks and heads change while a request awaits | a destructive or external change needs the decision that was taken about that very change |
| Mirror job, jobs table (`app.ts`, `jobs.ts`, `mirror-generation.ts`) | mirror generation, `mirror_entries`, `mirror_jobs`, in-memory flags | claim, recover, ingest, write, verify, complete, retry | Seafile has no conditional write; supersession; restarts | the copy converges on the head; nothing an editor saved is destroyed |
| External importer (`external.ts`) | `external_revisions` | scan, merge, import, archive | base, local and remote version are read at different times | an external edit is merged into the head it was written on top of |
| Projection journal (`projection-journal.ts`) | `mirror_mutations` | prepare, acknowledge, finish, recover | a crash between prepare and finish | whatever a PUT may have covered is captured |
| Checkpoint repair (`checkpoint-repair.ts`, route in `app.ts`) | repair record, write lock | begin, recover, setTarget, finish | borrows the owner's lock; jobs, scans and restarts meet it in the middle | the vault is held from first to last, and the owner's lock comes back |
| Device journal (`engine.ts run`, `operation-journal.ts`, `intent-journal.ts`, `main.ts`) | prepared batch, intents, changed-path versions, baseline, pending apply | recover, scan, plan, submit, stage, apply, acknowledge, finish | lost replies, restarts between any two saves, edits during a session | no edit lost, none published over another, the checkpoint never ahead of the disk |
| Local apply (`engine.ts` `stageAndApply`, `resumePendingApplication`, `restore`) | stage, backup, operation record, apply journal, recovery folder | stage, back up, promote, roll back, resume, archive, repair | native copies are not atomic; the owner edits between every check and the call behind it | no version of the owner is destroyed; an untouched file becomes the accepted one |
| Content upload (`content-upload.ts`) | session rows, chunk receipts, staged bytes, leases | append, complete, cancel, recover, expire | concurrent requests, leases that run out | staged bytes are what the receipts say; only the declared content is registered |
| Device access (`trusted-pairing.ts`, `containment.ts`, `vault-retirement.ts`) | pairings, claims, devices, the state of a vault | invite, claim, decide, poll, cancel, revoke, retire, contain | lost replies, cancellation after approval, trust withdrawn meanwhile | one device per approved claim, none after a cancellation |
| Sync scheduler (`main.ts`, `vault-inventory.ts`, queue of `engine.ts`) | gates, timers, queue of operations, expected writes, changed paths | queue, start, cancel, retry, verify, check the inventory | events of own writes, pauses in the middle, sessions and checks that cancel one another | a cancelled operation does nothing more; no edit is overlooked |
| Reconciliation (`packages/protocol`, `engine.ts`, `operation-plan.ts`, `operation-state.ts`) | none | move detection and alignment, decision per file, merges, package and folder choice, operation plan | case analysis over three trees; order of operations | both sides' changes are in the result, both devices get the same one, and the server accepts the plan |
| Folder topology (`engine.ts`, `main.ts`) | retired paths, folder create times, clean-up counters | scan, apply, prune, make, retire | the owner makes and fills the folders that are being cleaned up | no unsent text and no wanted folder goes; the clean-up ends |
| Package installer (`atomic-package.ts`) | phase record, three directories per installation | install, reverse, recover, restore | crash between renames, late writes into renamed directories | old or new package, never neither; what was written late comes back |
| Plugin runtime (`plugin-runtime.ts`) | guards, components, wrappers of `saveData` | quiesce, unload, load, activate, recover, dispose | operations that outlive their wait, saves of old instances | one operation at a time; incoming settings stand |
| Conflict inbox (`conflict-inbox.ts`) | records, resolution events | publish, resolve, undo | undo after later edits, retries | an undo restores exactly what was resolved, or is refused |
| Reconciliation rollout (`reconciliation-rollout.ts`) | mode, comparisons, observations, reviews | observe, review, authorize, activate, demote | many rows decide one mode | no vault active with an unreviewed discrepancy |
| Setup, admission, budgets, blob store, backup, folder migration, UI, release scripts | | | counters, I/O, presentation | not modelled, see section 7 |

### Hazards

`PROJECT.json` lists forty, each at the line where it bites. They fall into
six families:

1. **Plan, await, commit** in the committer, in approvals and in the importer:
   authority read before an await and used after it.
2. **No conditional write** on either end: an editor saves between the check
   and the rename (device) or the PUT (Seafile).
3. **Lost and repeated messages**: a batch whose reply was lost is sent again
   while its first copy still waits.
4. **Crash between two saves**: apply journal, batch journal, intents,
   projection mutation, repair record.
5. **Flags and durable rows that wake one another**: jobs, scans, supersession
   and repair, timers and sessions; a lost wake-up leaves the copy behind, the
   vault held or an edit unsent.
6. **Case analysis over three trees**: merges, moves and plans whose rare
   combinations no test lists.

## 2. Modules

| Module | Models | Checked by | Proved |
|---|---|---|---|
| `AcceptedHistory` | what the write authority promises: a register of revisions changed by compare-and-swap | as a property of `committer` | |
| `OperationCommitter` | `accept`, its PUT and its transaction, replay, bridging, repair hold, crash | `committer` | |
| `OperationCommitterProofs` | | | `TypeOK`, `IInv`, all properties of the run; implements `AcceptedHistory` |
| `WriteSafeguards` | `propose`, lock, maintenance window, quarantine decisions and the handlers around them | `safeguards` | |
| `WriteSafeguardsProofs` | | | `TypeOK`, all properties of the run; the decisions of `Decisions` |
| `LocalApply` | how one file becomes the accepted one on a device | `local_apply` | |
| `LocalApplyProofs` | | | `TypeOK`, all safety properties of the run; the same for `SyncScheduler` |
| `DeviceJournal` | the sync session of one device against an abstract server | `device_journal` | |
| `DeviceJournalProofs` | | | types, all safety properties of the run |
| `ReadableMirror` | mirror job, importer, projection journal and repair against Seafile | `readable_mirror` | |
| `ReadableMirrorProofs` | | | types, all safety properties of the run |
| `ContentUpload` | one resumable upload: server session, completion job and device | `content_upload` | in `DeviceAccessProofs` |
| `Absence` | the one value for "not there" that the policy and the safety center share | | |
| `ReconcilePolicy`, `MoveDetection` | the decisions of `packages/protocol` that merge nothing | through `Decisions` | |
| `MoveAlignment` | how a run aligns moved files | through `Decisions` | |
| `Decisions` | one decision at a time (a file, a package, folders, moves, an alignment) and what each is compared with | through `Reconciliation` | in `WriteSafeguardsProofs` |
| `TextMerge`, `SettingsMerge` | the merges of `packages/protocol` | through `Reconciliation` | |
| `OperationPlan` | what operations a run sends and what the server makes of them | through `Reconciliation` | |
| `Reconciliation` | `Decisions` and one merge or plan at a time, and the reference each is compared with | `reconciliation` | |
| `FolderTopology` | folders of one device: apply, clean-up and retirement while the owner works in them | `folder_topology` | |
| `FolderTopologyProofs` | | | types, all safety properties of the run |
| `SyncScheduler` | when a device works and when it must not | `sync_scheduler` | in `LocalApplyProofs` |
| `PackageInstall` | exchange of a plugin's directory, its reversal and recovery | `package_install` | in `PluginRuntimeProofs` |
| `PluginRuntime` | unloading, updating and loading a running plugin | `plugin_runtime` | |
| `PluginRuntimeProofs` | | | types, all properties of the run; types and safety of `PackageInstall` |
| `DeviceAccess` | joining by invitation, revocation, retirement, containment | `device_access` | |
| `DeviceAccessProofs` | | | types, all safety properties of the run; the same for `ContentUpload` |
| `MCOperationCommitter`, `MCWriteSafeguards`, `MCReconciliation`, `MCFolderTopology` | symmetry sets and bounded inputs for TLC | | |

The modules meet at interfaces each side states for itself. `WriteSafeguards`,
`DeviceJournal` and `ReadableMirror` take acceptance as one compare-and-swap on
the head; `OperationCommitter` shows, and `Refinement` proves, that the
committer is that. `DeviceJournal` takes the application of a snapshot to an
untouched file as one step that may fail; `LocalApply` opens that step.
`SyncScheduler` takes a session as a reader and writer of one file;
`DeviceJournal` opens it. The merges `DeviceJournal` and `ReadableMirror` take as
keeping both sides are the ones `Reconciliation` checks, and the tree effects the
committer abstracts to revisions are `ApplyOperations` of `OperationPlan`.

### OperationCommitter

The variables are the tables (`headId`, `snapshots`, `syncState`,
`syncEntities`, `syncBatches`, `syncOperations`), the stored `sidecars`, the
repair hold, the calls in progress and a history of `answers`. `AcceptBatch`
and `AcceptSnapshot` are the part of `accept` before the PUT
(operation-committer.ts:32-51, with `bridgeSnapshot`), `StoreSidecar` the PUT,
`AnswerAfterPut`, `HeldAfterPut`, `RefuseMoved` and `CommitTransaction` what may
follow it (:53-73), `AnswerReplay` the receipt of a repeated batch (:36),
`AbandonCall` an abort, `Crash` the loss of the process. A file is the revision
that produced it, since acceptance compares nothing else; the path effects of
the operation kinds are in `OperationPlan`.

### WriteSafeguards

A request is `Begin` (head read, then an await), `Allow`, `Hold` or
`RefuseLocked` (`propose`, safeguards.ts:92-113), then `Commit` or `Fail`.
Approval is `BeginApprove`, then `FinishApprove`, `ApproveMoved` or
`ApproveFails` (app.ts:597-611); `Reject`, `Expire`, `List`, `SetLock` and the
window are the other handlers. `Crash` has two outcomes during an approval,
because the transaction and the statement that sets `approved` are two steps.
The reasons of `assessChanges` are reduced to the two sorts the handlers
distinguish: those a window may wave through and those it may not.

### LocalApply

One file, one accepted snapshot. `session.step` is the place in
`stageAndApply` or `resumePendingApplication`; the disk is the file, the backups
and records below `.gib-sync/apply` (one per prior content, since the prior
hash is part of an operation's identity) and the recovery folder; the settings
are the apply journal. `Touch` is the owner saving, deleting or re-creating the
file at any moment; `TearCopy` is the process lost in the middle of a native
copy; `Stop` any failure of the session; `Repair` the explicit repair.

### DeviceJournal

Content is the set of edits it incorporates, so that a lost edit, an edit
published over another and a divergence are all visible as sets. The session
(`Begin` ... `Finish`) follows `engine.ts run`: adopt or discard a prepared
batch, ask for its receipt, resume a pending application, check the remote,
scan, plan, submit, stage, apply, acknowledge. `Serve`, `Refuse` and `Drop` are
the server and the network; a request looks up its receipt and is accepted in
two steps, as in operation-routes.ts:31-46. `Edit` and `Notice` separate an
edit from the vault event that reports it.

### ReadableMirror

One file in Seafile. The database part holds the head, the mirror generation,
the `mirror_entries` row, external revisions, the prepared mutation, the durable
job row, the repair record and the lock; the process part holds the flags of
`app.ts:101-107`, lost at a restart. `job`, `scan` and `route` are the three
asynchronous actors. `JobPrepare`, `JobPut` and `JobFinish` are the window in
which an editor's save may be covered; `Captured` is what `finish` recovers from
the immutable history. `RequestTurn` says that the repair route goes on in the
turn of the event loop in which what it awaited settled.

### ContentUpload

One session of `content-upload.ts` and the device that drives it
(`outbound-stream.ts`). `row`, `receipts` and `lease` are its tables, `staged`
the clear staging file, `object` and `blob` what was stored and registered.
`calls` holds the requests and the completion job, each at its place between
two awaits: `Stat`, `Read`, `Record`, `Trim` are `recover`; `Chunk`, `Write`,
`Receipt` a chunk; `Complete` to `Unlink` the job. A request nobody waits for
any more goes on (`live` is false); for the job, `live` says that it was not
cancelled. `verified`, `failure` and `known` are memory, lost at a restart. A
chunk has the declared content, that of an edit made while the device reads, or
`Torn`, which matches no hash. Left out: quotas, disk reservations, the removal
of sessions older than seven days, the orderly close.

### Reconciliation and the policy modules

Every initial state holds one job, every behaviour is one step: the outcome.
`TextMerge` follows `text-merge.ts` from the hunks of the comparison (the
library is external) through the groups of touching changes to the assembled
text; `SettingsMerge` is `mergeJsonValues` and the two callers of
`system-merge.ts`, `ReconcilePolicy` the decisions of `operations.ts`,
`MoveDetection` `detectMoves`. `MoveAlignment` is `canonicalizeMoves`
(engine.ts:729-768). `OperationPlan` has both ends of a batch: `Build` is
`buildOperationBatch` with its phases in order (destinations cleared, folders
moved, files moved and written, folders made anew), `ApplyOperations` is what the
server does with each operation, in order, or refuses. `Decisions` carries out the
decision for a file as `engine.ts` 1303-1412 does and has the jobs that decide
(`DecideFile`, `ChoosePackage`, `PlaceFolders`, `FindMoves`, `AlignPaths`);
`Reconciliation` extends it with those that merge and plan. The two state what each
outcome is compared with: single changes of a text, single facts of a settings
file, sides of a file, pairs of a move, and the tree a run wanted. What goes through
a list in `MoveDetection` and `MoveAlignment` is a function of the number of steps,
which a proof can unfold; the merge of nested JSON values is a `RECURSIVE` operator
of `SettingsMerge`, and stays with `Reconciliation`, outside the theorems' reach.

### FolderTopology

`dirs` and `file` are the disk, `head` and `base` the accepted tree and the one
the device has; `settings` are the plugin's own (retired paths with hash and
time, folder create times, counters of the last clean-up). `pass` is the run with
its place between two awaits: `StartRetired`, `PruneShell`, `EndRetired` clean up
the traces of retired files (engine.ts:424-511), `MakeMissing`, `ChooseRoots`,
`PruneExtra`, `EndTopology` bring the folders to the accepted ones (:577-602),
`Prune` is one frame of `pruneRetiredTree`, `ReadHead`, `Scan`, `Plan`, `Commit`,
`Stage`, `Apply`, `Finish` the rest of `run` as far as folders and notes go.
`OwnerActs` makes and removes folders and writes and deletes files between any
two of them, `Elsewhere` is what other devices have accepted, `Stop` a run that
ends at an await, `Audit` the full listing that is due every six hours.

### SyncScheduler

`gate` has everything that forbids work, `queue` the engine's operations
(`operationTail`, with the generations that cancel them), `session` the place in
`performSync`; `expected` and `verify` are the writes of Gib Sync's own and the
check that tells their events from the owner's. `Edit` and `Hear` separate a
change from its event; a change whose event never comes is found by
`CheckInventory` and `Inspect`. What a session does with the file is in
`DeviceJournal`.

### PackageInstall

A directory is its managed files as one version and the device-local entries in
it. `Install` to `Finish` are `install`; `TakeBack` to `RestoreOriginal` the way
back (`restoreChangedOriginal` and `moveUnmanaged` in reverse); `Recover`,
`ExamineRecord`, `Recovered` are `recover`; `RestoreRetired`, `Recheck`,
`BringBack` are `restoreDeviceLocalRetirements`. `Stop` ends the process, or the
operation at a checkpoint, at any step. `Edit` and `NewEntry` write into the
directory in use, and into the renamed original, whose writers still have it
open.

### PluginRuntime

One plugin, two coordinators of which the second starts after the first was
disposed. `comp` is the protected component with its guard, `fence` says through
whose wrapper an instance saves, `ops` are the operations of Obsidian's plugin
manager, which go on when the wait for them has run out. `Quiesce`, `Unload*`,
`Install`, `Load*`, `Check`, `Activate`, `Recover*` and `Finish` follow
`plugin-runtime.ts` await by await; `Save`, `Written`, `WriteFails` and
`WritePast` are the plugin's saves, with and without `saveData`.

### DeviceAccess

The tables of pairing (`invitation`, `claim`), the devices in the order they were
registered, and the vault with its retirement and containment. `new` is the
attempt on the new device: where its dialog is, its poll and its cancellation,
each of which may be lost. `Ask`, `Serve`, `Wait`, `GiveUp`, `Lose` are the
exchange, `Invite`, `Decide`, `Revoke`, `Retire`, `Contain` what owners and
operator do, `Expire` and `ExpireClaim` the passing of time.

## 3. Runs

| Run | Instance | Distinct states | What it shows |
|---|---|---|---|
| `committer` | 2 devices, 2 batch ids, 2 operation ids, 3 snapshot ids, 2 files, 2 concurrent calls; symmetry | 123,574 | one linear durable history under every interleaving of two calls, PUTs, retries, aborts, holds and crashes; answers stay true; it implements `AcceptedHistory` |
| `safeguards` | 2 devices, 1 file, 1 quarantine item, 2 calls, 3 snapshots; symmetry | 3,414,540 | no risky change becomes the head without the grounds its risk needs; a proposal is accepted once, and shown as approved only if it was |
| `local_apply` | 2 drafts, 3 edits, 4 faults | 649,996 | no version of the owner is destroyed; nothing else counts as applied; an untouched file gets there |
| `device_journal` | 2 own edits, the second a re-creation, 1 foreign edit, 2 faults | 771,059 | no edit lost by device or server; checkpoint never ahead of the disk; the two agree in the end |
| `readable_mirror` | 2 Seafile edits, 1 device edit, 4 heads, 1 repair, 1 lock change, 1 fault | 2,243,018 | nothing destroyed, a repair holds and gives back the lock, base always the head's content, copy converges |
| `content_upload` | 2 chunks, 2 requests and the job, 2 edits, 2 faults, 1 lease that runs out | 1,113,448 | only the declared content is registered; acknowledged chunks stay; the upload gets there |
| `reconciliation` | every edit pair of a note of 5 tokens, settings two levels deep, 7 lists of plugins, file states over 3 hashes and 2 ids, package copies, 2 folders at 3 places, listings of up to 3 files, trees of 2 or 3 folders with files below | 591,698 | both sides' changes are in the merge, both devices merge alike, no edit dropped, packages whole, moves sound, the server accepts the plan and it makes the tree |
| `folder_topology` | 2 nested folders, a note, an ignored file, platform metadata; 3 actions of the owner, 1 elsewhere | 659,040 | no unsent text and no wanted folder goes; device and server agree on folders in the end |
| `sync_scheduler` | 1 edit, 1 arriving version, 1 failure | 637,590 | a cancelled operation does nothing more; every noticed edit is reconciled |
| `package_install` | 2 installations, 2 late writes, 1 cache entry, 2 ends of the process | 522,190 | what was written late comes back with the package; the plugin is in its place in the end |
| `plugin_runtime` | 3 instances, 2 updates, 5 operations, 1 save, 1 write past `saveData`, 1 fault | 2,883,935 | one operation at a time; what is active loaded the incoming settings; they stand |
| `device_access` | 2 attempts, 1 invitation, 2 devices, 1 lost message | 603,076 | joining needs a standing approval; a cancelled attempt is out; an approved one connects |

**Bounds.** Each hazard needs at most two concurrent requests (one that
read something and one that changes it), one retry of one batch, and a third
head to be stale twice; hence two calls, two batches, three or four snapshots.
In `LocalApply` three edits allow an edit before the session, one in each of two
windows, and four faults allow a fault in the apply, in the recovery, in the
recovery of the recovery, and one repair. In `DeviceJournal` two faults allow
the loss of a reply and a restart during its recovery. In `ReadableMirror` one
fault may fall at any step of job, scan and repair, and the initial states
include a vault an older release left in the middle of a repair, which is a
second crash in effect. In `FolderTopology` three actions let the owner make a
folder, fill it and empty it in three different windows of one run. In
`SyncScheduler` one edit and one arriving version meet in every order, and
pauses, blocks, checks and exclusive operations are not bounded. In
`PackageInstall` the second crash falls into the recovery of the first. In
`PluginRuntime` five operations allow an update, a recovery and the second
coordinator's update; in `DeviceAccess` two attempts compete for one invitation.
In `Reconciliation` a text of five tokens has two words, a sentence break and a
line break between them, so that changes may touch, chain and overlap; three
folders allow a rotation. Between them the runs take every action; each property
fails for one mutated definition listed under `mutants`.

**Deadlock** is checked in `folder_topology`, `package_install` and
`device_access`, where something can always go on. The other configurations say
`CHECK_DEADLOCK FALSE`: a job of `Reconciliation` ends, and the other bounded
models stop when edits, faults and ids are used up while the system itself rests
because there is nothing to do. That it does not rest too early is what the
liveness properties say.

**Symmetry** is used only in runs without liveness properties, over sets of
model values no definition distinguishes.

**Types.** The type invariants of the eleven concurrent state machines are proved, not run:
`TypeOK` stands in `OperationCommitter`, `LocalApply` and `WriteSafeguards`, and for
the other eight in the module of the proofs (`SyncTypeOK`, `UploadTypeOK` and
`PackageTypeOK` for the three that are instantiated there). The two variables of
`Reconciliation`, a job and its result, are described in its comments.

### Fairness

* `LocalApply`: `WF(Engine)`. A session's steps are awaited one after the
  other, and the plugin schedules another sync while the apply journal is not
  empty. Nothing is assumed of the owner, of faults or of the repair.
* `DeviceJournal`: `WF(Session)` (change- and timer-triggered syncs,
  `main.ts` `configureTimer` and `queueSync`, with awaited steps), `WF(Serve)`
  (the server handles what it received), `WF(Notice(d))` (the vault's events
  are delivered). Requests may be dropped up to the fault bound.
* `ReadableMirror`: `WF(Start)` (the process is restarted), `WF(TimerScan)` (the
  3 s timer, app.ts:828-829), `WF(ScanStep)`, `WF(JobStep)` (a scheduled job
  with a durable row and retries), `WF(RouteStep)` (awaited steps).
* `ContentUpload`: `WF(Work(w))` (awaited steps settle), `WF(Sync)` (the plugin
  syncs again after an error and polls), `WF(Expire)` (time passes for the lease
  of a dead process). Faults, edits and stalls are not assumed.
* `FolderTopology`: `WF(Run)` (runs are started by events and a timer, and their
  steps are awaited), `SF(Audit)` (the six-hour full listing, engine.ts:1173,
  depends on nothing but the clock, and is asked about at the start of a run).
* `SyncScheduler`: `WF` of promises, timers and events. `SF` of the inventory
  check, of its start in the queue and of the verification of expected writes:
  the check comes round every two seconds and takes milliseconds, the
  verification follows a tenth of a second after an event, and sessions, which
  cancel or delay both, come every fifteen seconds at most.
* `PackageInstall`: `WF` of the operation under way (awaited steps) and of
  `Recover` (each sync begins with it, and the timer starts syncs).
* `DeviceAccess`: `WF(Serve)`, `WF(Wait)` (the server answers, the dialog polls
  again). Nobody has to invite, decide or give up, and only finitely many
  messages are lost.
* `OperationCommitter`, `WriteSafeguards`, `PluginRuntime` and `Reconciliation`
  state safety only.

Liveness is conditional where the code's promise is. `Converges` of
`ReadableMirror` does not ask for progress while the owner's own lock is set,
when the bound on heads leaves no snapshot for an import (`OutOfHeads`), or in
the state `MarkSurvives` described in section 5. `Uploaded` of `ContentUpload`
admits the two states a session cannot leave, `EditReachesSync` the edits called
`unsaid`, `PackageComesBack` two open installations, all described there.

## 4. Proofs

Proved are the types and every safety property the runs check of
all eleven concurrent state machines, that is of every module with a run except
`Reconciliation`: for any number of devices, files, folders, chunks, packages,
edits, requests, heads and faults, with the bounds of the runs as parameters. For
each of them one theorem (`Invariance`, `SyncInvariance`, `UploadInvariance`,
`PackageInvariance`) states the inductive invariant, from which the others follow.
All of them were checked by TLC as invariants before they were proved. Of
`Reconciliation`, everything about decisions is proved, for listings, trees and
copies of any size; its merges and plans are checked by TLC only.

Four of the proof modules have two parts. After the component they are named for,
three instantiate a second one that meets it in the code (a session of the
scheduler runs the local apply, uploads are those of a connected device, packages
are what the runtime coordinator exchanges) and prove about that one. An
assumption of an instantiated module is a hypothesis of its theorems, as in
`ASSUME Upload!ChunksAssumption ... PROVE Upload!Spec => ...`; its own run evaluates
it. `WriteSafeguardsProofs` extends `Decisions` besides `WriteSafeguards`: what the
safety center assesses is what a device has decided.

The assumptions are those named in the modules. `None`, `Mark` and the like are
values of their own (`NoneAssumption`, `NullAssumption`, `MarkAssumption`,
`LocksAssumption`); ids that callers supply and ids the server makes are disjoint
(`IdsAssumption`), and so are the contents that `LocalApply` tells apart
(`ContentsAssumption`) and the edits of the owner and of others (`Named`,
`Disjoint`); there are finitely many edits (`DraftsAssumption`); folders are
sequences of names (`PathsAssumption`) and files lie in them (`FilesAssumption`);
thresholds are positive (`PolicyAssumption`), a file has at least one chunk
(`ChunksAssumption`), and bounds are numbers (`BoundsAssumption`, `BoundAssumption`).
The completion job of an upload is none of its requests (`JobAssumption`). In
`PackageInstall` the contents written on the device are none of the versions of the
history (`CodesAssumption`): an owner who types exactly the incoming version is
left out, since nothing tells the two apart. In `Decisions`, `None` is no version
(`AbsenceAssumption`); a copy of a package counts as complete only with a manifest
and a program (`PackagesAssumption`); folders are listed by identity, two paths are in
one order, and the accepted side has one folder at a place (`FoldersAssumption`,
which is what the server admits); a listing has one entry to a path, and the
baseline is gone through once (`ListingsAssumption`, since the code keeps both in a
`Map`).

**The write authority.** A call plans its result before its PUT and commits
after it, so no property is inductive by itself: what was planned must be tied
to the authority at the time of the commit. `IInv` adds

* `SnapshotsRooted`: the parent of an accepted snapshot is accepted;
* `ReceiptsGrounded`, `ReceiptsComplete`: what a receipt refers to is accepted,
  its operations are recorded under it, and no sequence number is skipped;
* `CallsPlanned`: the snapshot id of a waiting call is unused, and if the head
  is still the parent it planned against, everything it planned (sequence, tree,
  revisions seen, operation id) is still what it would plan now;
* `CallsDistinct`: two waiting calls never carry the same snapshot id.

The argument turns on the last two. An id is never reused, so *head unmoved*
means *no commit since*; hence at the moment of the compare-and-swap
`CallsPlanned` gives the transaction everything it needs, and any other commit
makes the antecedent of `CallsPlanned` false for the calls still waiting.
`AuthorityAgreement`, `AcceptedAncestry`, `ReceiptsLine`, `UpdatesKept`,
`AnswersDurable` and `OperationsOnce` follow, `MovedUnaccepted` is an action
property from the same invariant. `OneLine` and `AnswersStand` put them together
to two properties of the run, and `Refinement` maps `CommitTransaction` to one
atomic `Accept` of `AcceptedHistory` and every other step to a stutter.

**The safety center.** `RiskyDecided` and `ApprovedOnce`. A request is assessed
before its PUT, against a tree that is no longer the head's when the head moves.
The history only grows (`HistoryStays`) and a proposal never changes what it asks
for (`RowsStay`), so what was assessed against a parent stays true of that
parent: `CallsGrounded` keeps it for the requests that wait, and the
compare-and-swap makes the parent the head it replaces. `HistoryGrounded` says
that an accepted proposal stands behind the parent its row names, hence at one
place; `TrustGrounded` that an import is always to be reviewed, so that no
approval opens a window for it.

**The local apply.** `OwnerKept`: no version the owner left at the path is ever
destroyed, for any number of edits, faults and repairs. The strengthening is
`BackupFreeForRename`: when the engine is about to rename the file to its backup,
nothing is there that the rename would replace. `ArchivedWhenApplied` and
`AppliedTruly` need the whole course of a session, `Accounted`: the journal, the
operation record and the one backup agree on the content they name
(`BackupJournaled`, `PriorJournaled`), whoever is to archive the backup knows it
(`BackupKnown`), a backup of an unexpected content stops every session
(`ChangedStops`), a file left alone is the old one, the new one or away in its
backup (`FileAccounted`), and a new version of the owner is at the path or in the
backup (`DraftAccounted`).

**The device's session.** `CheckpointIsApplied` and `WorkStays`. A session ends
what an earlier one, perhaps of a process long dead, has begun, while requests of
several batches are on the wire. `Inv` therefore says of every batch, in the
journal or on the wire, that what it adds to its base is on the disk and that its
receipt, if it has one, is for its content (`WireProposes`, `JournalProposes`);
of a pending application and of the base kept for an interrupted one what they
have to do with the checkpoint (`TransferSound`, `ReplaySound`); of each place in
a session what has been established there (`AtScan`, `AtResume`, `AtSubmit`,
`AtApply`); and of the intents which of them a plan has read (`Frozen`,
`JournalSeen`, `RunSeen`), the last only while the journal is of this process,
for the reason in section 5. The checkpoint may skip a line of the device's own
snapshots: that their contents are on its disk is an induction along the line
(`OwnRun`, from `OwnOnDisk`).

**The readable copy.** `EditsPreserved`, `BaseStaysHead` and `RepairHolds`. What
a PUT may cover is what stood in the file since the job read it. `CoveredIsKept`
says that whatever is visible when a PUT is under way is in the archive, in
accepted history or in the history the prepared mutation still has to read, for
every edit, and `OneMutation` that no mutation is prepared over another;
`RowOfTheHead` ties the row a job has written to the head for as long as its
target may be called current; `HoldOfTheRepair` gives the record, the lock and
the process's own holds one story, over restarts too.

**The plugin runtime.** `OneAtATime`, `ActiveAsVerified` and `SavesOfThePackage`.
Operations of the plugin manager outlive the wait for them, and a second
coordinator takes over what the first left. `Kept` says who has the component and
what its guard vouches for: a coordinator at work has it alone (`Alone`, `Placed`),
the operation under way is the one the guard is pending, instances are approved
only during a load (`Sound`), a guard that is let go promises nothing (`Free`),
and the package is replaced only while nothing runs (`Vacant`).

**Folders.** `TextStays` and `WantedStay`. For the owner's text, `SentOwn` says that
whatever of it a tree, a checkpoint, a retirement or a pending application holds
has been accepted, `SentPlans` that a merge replaces text of the owner only by what
keeps it or by the result of an acceptance, and `MovingKnown` that the walk moves
only the file it has looked at: text written since is raced. For the folders, what
is being cleaned up was chosen before the owner's last event there
(`ChosenBefore`), and every folder the walk goes into is within one of them
(`Nested`). What a run publishes as removed is traced back: an accepted folder the
device has been through is on the disk or went from it (`BaseMet`, `TargetMet`), so
one that a listing lacks has gone, and so has one that the merge drops (`ScanMet`).

**Device access.** `JoinApproved`, an action property, and `CancelledOut`. Both
follow from the books the server keeps (`Booked`): an invitation is consumed by
one claim, a claim has one device, and that device names the claim; a poll that
is answered again finds them as they are.

**Uploads.** `StoredAsDeclared` and `AcknowledgedIsKept`. What is stored needs no
lease at all: only the job encrypts (`JobAlone`), it encrypts what it has compared
with the declaration and stores what it has encrypted, and each later place rests
on the one before (`StoredSound`), so that two workers under one expired lease
cannot make it wrong. What was acknowledged does need leases, hence two conditional
parts. While none has run out, one worker is past its arrival (`LeaseExclusive`) and
what it read of the session is still so (`SessionKnown`). While the file is not
damaged either, it holds every chunk with a receipt, and the holder knows how much
of it there is (`Staged`); the offset a recovery writes is therefore never lower
than the one it found.

**The scheduler.** `CancelledStays` and `OneSessionAlone`. A generation that ends
cancels the whole queue, so an operation of the present one was asked for since
(`FreshIsAsked`), and only the first is at work (`OneAtWork`). A session waits for
the one operation it has asked for (`OneSession`), which carries what it has read
(`PlacesSound`). Each action leaves the queue, cancels it, adds to its end, moves
its first operation on or takes that away: five lemmas say that these keep the
four parts, and the actions are instances of them.

**Packages.** `NothingLost`. A directory is renamed, never copied, so the argument
is a ledger of directories. The record of the run says what is in the three places
at each step (`RunIsOfTheRecord`, `DirectoriesInPlace`), one installation is open at
a time (`OneOpen`), an original has the recorded content or a late edit
(`Originals`), and device-local entries are where the phase says (`Somewhere`,
`Moved`). A recovery has every record before it or has settled it (`Pending`,
`Reviewed`). `NotYet` is the part easy to miss: a recovery takes an installation
for done when the package has its version, so until the stage is renamed the
package must not have it; this is where `CodesAssumption` enters.

**Decisions.** `EditsKept`, `FoldersPlacedAlike`, `OneFolderToAPlace`,
`PackagesWhole` and `MovesSound`, all from `DecisionInv`: an outcome is what the
policy computes of the job. The theorems are about `DecisionSpec`, whose steps are
those of `Reconciliation` that decide; the jobs that merge or plan satisfy these
properties because each of them speaks of its own jobs only. For a file the argument
is the case analysis itself (`FileResolved`), with no bound on hashes or identities.
Folders have one holder to a place (`Placing`, `PlaceKept`), and the choice between
two placements of one folder is the same from either side (`ChosenAlike`). For
packages, the order of versions must be the same from either side
(`VersionsCompare`): the first part in which two pre-releases differ decides
(`FirstDifference`), for pre-releases of any length.

`MovesSound` is the deep one. Moves by identity are pairs, one path to one path
(`IdentityPairs`), and stay so when each rename the owner made is followed
(`FollowingsPair`). The alignment then takes one source after the other and deletes
and sets paths in three maps as it goes. Its invariant `Aligned` says, after each
step, that a side has the versions it had, one to a path, and that the sources still
to come are where they were; so the next step finds what it expects (`Ready`) and
overwrites nothing (`AlignStep`). `Arrives` follows one file that one side renamed
and the other edited until its source's turn, when both versions come to the same
path (`ArrivesStep`, `RenamesMeet`). That the alignment gets from the first step to
the last, and that the recursive functions exist at all (`FollowingsUnfold`,
`AlignmentsUnfold`), is shown by the least step at which it would fail.

Some proofs need an induction over numbers. The library's induction theorems take
an operator as a parameter, which the provers cannot instantiate; the proofs use
the least counterexample instead (`LeastNumber`, from the well-foundedness of the
naturals; `DeviceAccessProofs` has it for the first chunk without a receipt,
`WriteSafeguardsProofs` as `LeastMember` for steps through a list): `OwnRun` and `GreatestNumber` of `DeviceJournalProofs`,
`GreatestNumber` of `FolderTopologyProofs` for the time of the last retirement, and
`ThoseType` of `ReadableMirrorProofs`, where it shows that a recursive selection
from a sequence has a value and what type it has.

**Only model-checked**: the liveness properties, which are out of the proof
system's reach, and of `Reconciliation` the merges and plans
(`MergesKeepBothSides`, `BatchMakesTheTree`, and `DevicesAgree` but for its part about
folders, `FoldersAgree`). A merge of settings recurses over nested values with
`RECURSIVE` operators, which the provers do not take; the merge of a note and the
plan of a batch fold over hunks and operations in several passes, and what they come
to for every input would need an induction over data for each pass.

## 5. Behaviour met on the way

The properties say what the code does. In the following places it does less than
a comment, a document or a reader expects; the models reach these states, and
the properties are stated so as to admit exactly them. Where a run was made for a
promise that does not hold, "refuted" names the promise; TLC found each of these
counterexamples.

Server:

* **Freeze** (refuted: README.md:42). The write lock is read in `propose`
  (safeguards.ts:96) and not again in the transaction of `accept`
  (operation-committer.ts:51 ff.): a commit already past `propose` moves the head
  of a frozen vault.
* **Reject** (refuted: README.md:36). `approve` reads `pending` once
  (app.ts:600) and then awaits `acceptSnapshot` (:607): a rejection answered
  meanwhile does not keep the change out. A crash between the transaction and the
  statement that sets `approved` (:609) leaves an accepted proposal `stale`.
* **Superseded mirror job** (refuted: README.md:67). An edit E saved in Seafile
  between `prepare` and the PUT of a job is captured by `finish`. If another
  commit was accepted meanwhile, the job returns (app.ts:310) before it throws
  the race (:311), `skipExternalOnce` (:313) lets the next attempt finish first,
  and the later scan merges E against a base that already holds the device's edit
  (external.ts:175): E replaces it in the head, without a conflict.
* The drain request of a repair is a flag that the first superseded job deletes
  (app.ts:313) although a slow scan is still awaited (:353). Another job may then
  complete after the rows were marked, and the repair ends with `repair:` rows
  in place. An external edit of such a file throws when it is merged.
  `BaseIsHead` and `Converges` admit this state (`MarkSurvives`).
* A background job that runs while the repair cleans up conflict copies may
  finish the repair record (app.ts:287); the repair then answers an error
  without having rebuilt anything.
* The `finally` of any job deletes `restoreApprovedVaults` (app.ts:326), also
  when a rejection set it while the job ran.
* Only the latest pending revision of a path is merged (external.ts:158, 164);
  an older one it does not build on stays in the encrypted history. This is why
  `NothingDestroyed` promises preservation and not merging.
* A chunk edited while the device streams it is acknowledged under the hash the
  session declares; the device notices and starts another session for the new
  content. If the owner takes the edit back, the old session is used again, its
  receipts agree with its bytes, and each completion fails its integrity check
  (content-upload.ts:247). `recover` renews `updated_at` (:126), so the session
  does not age while the device retries. `Uploaded` admits this (`Poisoned`).
* `assertLease` compares the process, not the request (:87-90). If the process
  sleeps beyond its lease, a second request takes the lease and the first goes on
  under it, although line 93 says that requests of one process must not write
  the same staging file concurrently. No wrong content is ever registered
  (`OnlyTheDeclaredIsStored` holds with such a stall), but one chunk may cut off
  another and leave a later receipt in place, on which every retry fails until
  the server restarts or the session is seven days old. `Uploaded` and
  `AcknowledgedStays` admit stalls.
* A commit in flight can be accepted after its device was revoked or its vault
  retired. Closing the entry dialog while the envelope is opened (ui.ts:493)
  sends no cancellation and leaves a registered device nobody uses. Containment
  does not gate the poll. The documentation says "single-use delivery", the
  credentials are delivered again until the claim expires, which is what makes
  `ApprovedConnects` hold with lost answers.

Device:

* **Torn copy** (refuted: the comment "This uncertain content was not uploaded").
  If the owner deletes the file during an apply, the operation record has no prior
  hash while recovery looks it up under the journal's (engine.ts:950-953,
  1093-1107): the prefix of an interrupted copy passes as the owner's edit.
* **Held file** (refuted: README.md:32). An edit saved between
  `assertLocalUnchanged` and the rename to the backup (engine.ts:952) makes every
  later sync refuse the file until an explicit repair.
* **Intent numbers** (refuted: docs/architecture-and-migration.md:32). After a
  restart between the acknowledgement and the removal of the batch journal intents
  are numbered from 0 again (intent-journal.ts:18), and the recovered batch
  acknowledges events its plan has not read (engine.ts:1150, 1512). The next scan
  still finds their content (`OwnersWorkStays`).
* **Unrecorded promotion** (refuted: README.md:89). If the process ends after the
  rename of the staged package and before its record, and the plugin then saves
  its settings, every later recovery throws `AdapterFileChangedError`
  (atomic-package.ts:68), and with it every sync, although the plugin works.
* With two open installation records the first one listed can fail every
  recovery, so that the second is never looked at; and a late write into the
  original of an installation a newer one has superseded blocks every recovery.
  `PackageComesBack` admits two open records.
* A stale save under way when a later quiesce replaces the guard
  (plugin-runtime.ts:181, 70) is not awaited (116-123) and may land over incoming
  settings, though docs/architecture-and-migration.md:50 says that stale saves
  are preserved privately; `IncomingStands` is about the guard in place. A disposed
  coordinator stays attached while another plugin's operation is pending.
* A change without an event that an inventory check has recorded
  (vault-inventory.ts:64) goes unnoticed until the next full scan if the check is
  cancelled before it returns (engine.ts:132-145): `unsaid`. An exclusive operation
  (main.ts:396-403) does not queue `fileChangePending` again, and when a hold or an
  incompatibility clears only the interval is left, which is why `EditReachesSync`
  needs the interval to be on.

Plans and folders:

* Two devices make a folder of the same name independently. The plan of the second
  keeps the other's folder and removes and makes its own at the same place, which
  the server refuses (409); `convergeAfterConflict` plans the same again, and
  intents are acknowledged only after a success (engine.ts:1205-1212, 1447).
* A folder moved below a new folder at its own former place (A renamed to Z, a new
  A made, Z moved into it) is refused each time: "A folder cannot move inside
  itself".
* A folder deleted after its note was moved out, with another folder renamed to its
  place in the same sync, makes the plan throw "An independently occupied folder
  destination was retained" each time.
  `BatchMakesTheTree` excludes these inputs (`Refusable`, `gaveUp`).
* A file in a folder made anew at an old folder's place starts a new history
  although its identity exists (`MadeAnew`).
* If one side deletes A and moves Z to A while the other renames A to C, the
  moved Z is aligned at C: all contents are kept, the name surprises.
* `versionOrder` (operations.ts:84) compares numeric parts of a pre-release by
  value and, where they are equal but not written alike (`01` and `1`), answers -1
  from either side. Each device then takes the other's copy for the newer one. Such
  versions are no semantic versions; the model has one form of a number, and
  `VersionsCompare` is about that.
* The union of two packages of one version brings back an ancillary file that one
  side deleted (operations.ts:86-100).
* The first clean-up with retired paths removes an accepted empty folder above an
  old retired note, and the next full scan publishes its removal
  (engine.ts:463-511, 1169).
* A note re-created with exactly the retired bytes between deletion and clean-up
  goes to the trash; excluded files of a removed folder go to trash or local
  recovery, where README.md:83 says they are preserved.
* A folder made after the roots were chosen may be removed as empty, with its
  create time (engine.ts:596-597). Deleting a folder does not clear its create time
  (main.ts:107-110), so that a parent removed elsewhere stays protected and the
  audit publishes it again.

## 6. Plan

Done, in this order: `OperationCommitter` with its abstract specification,
`WriteSafeguards`, `LocalApply`, `DeviceJournal`, `ReadableMirror`,
`ContentUpload`; then `Reconciliation` with the policy modules,
`PackageInstall`, `PluginRuntime`, `SyncScheduler`, `DeviceAccess`,
`FolderTopology`, `MoveAlignment` and `OperationPlan`; then the proofs of section 4,
for which the decisions were made a module of their own.

Next, most important first:

1. `OperationPlan`'s tree refining the revision tree of `OperationCommitter`, and
   `WriteSafeguards` with the compare-and-swap refining `AcceptedHistory`.
2. `ConflictInbox`; the modes of the reconciliation rollout.
3. That a merge of notes has every change, as a theorem: `TextMerge` written as a
   function of the number of groups, like the alignment.
4. Deletions and their confirmation, quarantined imports and the rejection of an
   external change in `ReadableMirror`; leases of the job row between processes.

## 7. What is not modelled, and what is abstracted

* **`TextMerge`** takes the edits of the comparison library as given; texts are
  tokens. **`SettingsMerge`** has two levels and a few values. Names of conflict
  copies and the schemas of `packages/protocol` are left out.
* **`OperationPlan`** has managed folders at the top level and below each other,
  but none inside an unmanaged one.
* **`DeviceJournal`** leaves out the publication of conflicts, the legacy full
  snapshot commit, the push of the readable copy by devices, and intents that
  are pending in memory only.
* **`FolderTopology`** leaves out the folder repair a snapshot may carry
  (engine.ts:534-545, 1438-1440) and the tombstones of :1287.
* **`SyncScheduler`** leaves out the six-hour audit, which `FolderTopology` has.
* **`PluginRuntime`** leaves out the list of wanted plugins and
  `confirmRetirement` (plugin-runtime.ts:186-191).
* **`DeviceAccess`** leaves out what the credentials contain, how they are sealed
  and the routes that list devices; rate limits; the first device's setup
  invitation.
* **`ReadableMirror`** leaves out deletions and their confirmation, moves,
  folders and packages, quarantined imports, leases between server processes
  (one process is deployed), the 5 s settling window, forced scans, the bound of
  three attempts, and editors that save a stale buffer. Sizes tell versions
  apart; rows of equal content count as one.
* **`OperationCommitter`** leaves out calls that throw before the PUT, since they
  change nothing, and the shape of paths.
* **`ContentUpload`** leaves out quotas and expiry, as said above; a chunk is
  written by one step.
* **`WriteSafeguards`** takes thresholds as constants over a small tree.
* **Not modelled at all**: setup and downloads, the conflict inbox and the rollout
  (planned above); blob store, backup and integrity checks (hashing and I/O);
  admission and request budgets (counters around requests); folder migration (run
  once); caches, cryptography, user interface, mail and diagnostics, release
  scripts.
