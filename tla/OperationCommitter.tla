------------------------- MODULE OperationCommitter -------------------------
(***************************************************************************)
(* The write authority of one vault: OperationSnapshotCommitter.           *)
(*                                                                         *)
(* Every writer (a device's operation batch, a legacy full snapshot, the   *)
(* importer of Seafile edits, an approved proposal, a repair) goes through *)
(* accept.  accept reads the authority, plans the result, awaits the PUT   *)
(* of an immutable sidecar object, and then commits everything it planned  *)
(* in one SQLite transaction.  The server is one process, so the code      *)
(* between two awaits is one atomic step; calls interleave at the await.   *)
(*                                                                         *)
(* Abstractions.  A vault's content is the revision of each file: an       *)
(* operation names the revision it was planned against and installs a new  *)
(* one, which is all that acceptance compares.  What the eight operation   *)
(* kinds do to paths is not modelled here.  A revision is identified by    *)
(* the batch that produced it.  A payload (what batchHash covers) is the   *)
(* identity of its operations, its baseline and the files it changes.      *)
(* Calls that throw before the PUT change nothing and are left out.        *)
(***************************************************************************)
EXTENDS Naturals, FiniteSets

CONSTANTS
    Devices,       \* device ids that own batches
    BatchIds,      \* ids of batches supplied by callers
    OperationIds,  \* identities of the operations in a batch
    SnapshotIds,   \* the supply of randomUUID() snapshot ids; bounds the history
    Files,         \* entity ids
    Calls,         \* slots for concurrent calls of accept
    None           \* SQL NULL / JavaScript null

\* stableUuid derives the batch id of a bridged snapshot from the snapshot id,
\* so the two spaces of ids never meet.
ASSUME IdsAssumption == BatchIds \cap SnapshotIds = {}

VARIABLES
    headId,          \* vaults.head_id
    snapshots,       \* table snapshots: [parentId, tree] of each accepted id
    syncState,       \* table sync_vault_state: [snapshotId, sequence]
    syncEntities,    \* table sync_entities: current revision of each file
    syncBatches,     \* table sync_batches: the receipt of each accepted batch
    syncOperations,  \* table sync_operations: the batch of each operation id
    sidecars,        \* snapshots/<id>.json objects the storage holds
    repairHold,      \* assertWritable refuses calls that carry no permit
    calls,           \* the calls of accept in progress
    answers          \* history: every snapshot accept returned, and for what

database == <<headId, snapshots, syncState, syncEntities, syncBatches,
              syncOperations>>
vars == <<database, sidecars, repairHold, calls, answers>>

-----------------------------------------------------------------------------
Revisions == BatchIds \cup SnapshotIds
Trees == [Files -> Revisions \cup {None}]
Payloads == [operationId : OperationIds \cup {None},
             baseSnapshotId : SnapshotIds \cup {None},
             changes : SUBSET Files]

SnapshotRows == [parentId : SnapshotIds \cup {None}, tree : Trees]
BatchRows == [deviceId : Devices, payload : Payloads,
              parentId : SnapshotIds \cup {None},
              resultSnapshotId : SnapshotIds, sequence : Nat]

\* NULL is neither an id nor a row.
ASSUME NoneAssumption ==
    None \notin Revisions \cup Devices \cup OperationIds \cup SnapshotRows \cup BatchRows

\* A device call is refused while a repair holds the vault; the repair's own
\* call carries the permit; the importer's committer has no assertWritable.
CallKinds == {"device", "permit", "importer"}
ActivePhases == {"putting", "stored"}
CallRecords == [phase : ActivePhases, kind : CallKinds,
                batchId : BatchIds \cup {None}, deviceId : Devices,
                parentId : SnapshotIds \cup {None}, payload : Payloads,
                snapshotId : SnapshotIds, sequence : Nat, tree : Trees]
Idle == [phase |-> "idle"]
Moved == [phase |-> "moved"]  \* accept resolved to null: "Head moved", 409

AnswerRecords == [batchId : BatchIds, deviceId : Devices, payload : Payloads,
                  snapshotId : SnapshotIds]

TypeOK ==
    /\ headId \in SnapshotIds \cup {None}
    /\ snapshots \in [SnapshotIds -> SnapshotRows \cup {None}]
    /\ syncState \in [snapshotId : SnapshotIds \cup {None}, sequence : Nat]
    /\ syncEntities \in Trees
    /\ syncBatches \in [Revisions -> BatchRows \cup {None}]
    /\ syncOperations \in [OperationIds -> BatchIds \cup {None}]
    /\ sidecars \subseteq SnapshotIds
    /\ repairHold \in BOOLEAN
    /\ calls \in [Calls -> CallRecords \cup {Idle, Moved}]
    /\ answers \subseteq AnswerRecords

-----------------------------------------------------------------------------
Accepted == {s \in SnapshotIds : snapshots[s] # None}
AcceptedBatches == {b \in Revisions : syncBatches[b] # None}
Active == {c \in Calls : calls[c].phase \in ActivePhases}

EmptyTree == [f \in Files |-> None]
TreeOf(s) == IF s = None THEN EmptyTree ELSE snapshots[s].tree

\* The walk of previewBatch from the head through parent ids, as the least set
\* that holds s and is closed under the parent of an accepted snapshot.
ParentClosed(S) ==
    \A s \in S \cap Accepted : snapshots[s].parentId \in S \cup {None}
Lineage(s) ==
    {x \in SnapshotIds : \A S \in SUBSET SnapshotIds :
                             s \in S /\ ParentClosed(S) => x \in S}

\* The revision id accept gives what a call changes: derived from the batch,
\* and for a bridged snapshot from the new snapshot's id.
BatchKey(batchId, snapshotId) == IF batchId = None THEN snapshotId ELSE batchId

\* applyOperations, as far as acceptance depends on it: every operation must
\* name the current revision of its target, and only its target changes.
RevisionsUnchecked(payload) ==  \* mutant: expectLive without matchesBase
    payload.changes \subseteq Files
RevisionsMatch(payload) ==
    \A f \in payload.changes :
        syncEntities[f] = TreeOf(payload.baseSnapshotId)[f]
ApplyOperations(changes, key) ==
    [f \in Files |-> IF f \in changes THEN key ELSE syncEntities[f]]

BaselineAccepted(base) ==
    IF base = None THEN headId = None ELSE base \in Lineage(headId)
OperationUnchecked(operationId) ==  \* mutant: no sync_operations lookup
    operationId \in OperationIds
OperationUnused(operationId) == syncOperations[operationId] = None

PreviewBatch(payload) ==
    /\ syncState.snapshotId = headId
    /\ BaselineAccepted(payload.baseSnapshotId)
    /\ OperationUnused(payload.operationId)
    /\ RevisionsMatch(payload)

\* The receipt of a batch answers only the owner of the same content.
HasReceipt(batchId) == batchId # None /\ syncBatches[batchId] # None
OwnerOnlyAnswers(batchId, deviceId, payload) ==  \* mutant: hash not compared
    syncBatches[batchId].deviceId = deviceId
ReceiptAnswers(batchId, deviceId, payload) ==
    /\ syncBatches[batchId].deviceId = deviceId
    /\ syncBatches[batchId].payload = payload

AssertWritable(kind) == repairHold => kind # "device"

Answer(batchId, deviceId, payload, snapshotId) ==
    [batchId |-> batchId, deviceId |-> deviceId, payload |-> payload,
     snapshotId |-> snapshotId]

-----------------------------------------------------------------------------
\* bootstrapSyncState: a new vault starts with nothing; a vault from before the
\* operation tables starts at its accepted head, at sequence 0.
Init ==
    /\ headId \in SnapshotIds \cup {None}
    /\ syncEntities = [f \in Files |-> headId]
    /\ syncState = [snapshotId |-> headId, sequence |-> 0]
    /\ snapshots = [s \in SnapshotIds |->
                       IF s = headId
                       THEN [parentId |-> None, tree |-> syncEntities]
                       ELSE None]
    /\ syncBatches = [b \in Revisions |-> None]
    /\ syncOperations = [o \in OperationIds |-> None]
    /\ sidecars = {headId} \ {None}
    /\ repairHold = FALSE
    /\ calls = [c \in Calls |-> Idle]
    /\ answers = {}

\* accept up to the await of the sidecar PUT, for a call that passes every
\* check: it keeps what it planned from the authority it has just read.
StartPut(c, kind, batchId, deviceId, parentId, payload) ==
    /\ c \notin Active
    /\ AssertWritable(kind)
    /\ headId = parentId
    /\ syncState.snapshotId = headId
    /\ \E id \in SnapshotIds \ (Accepted \cup sidecars
                                \cup {calls[x].snapshotId : x \in Active}) :
         calls' = [calls EXCEPT ![c] =
            [phase |-> "putting", kind |-> kind, batchId |-> batchId,
             deviceId |-> deviceId, parentId |-> parentId, payload |-> payload,
             snapshotId |-> id, sequence |-> syncState.sequence + 1,
             tree |-> ApplyOperations(payload.changes, BatchKey(batchId, id))]]
    /\ UNCHANGED <<database, sidecars, repairHold, answers>>

\* accept for a batch that is not accepted yet.
AcceptBatch(c, batchId, deviceId, parentId, payload) ==
    /\ ~HasReceipt(batchId)
    /\ PreviewBatch(payload)
    /\ StartPut(c, "device", batchId, deviceId, parentId, payload)

\* accept for a batch that already has a receipt.
AnswerReplay(c, batchId, deviceId, payload) ==
    /\ c \notin Active
    /\ HasReceipt(batchId)
    /\ ReceiptAnswers(batchId, deviceId, payload)
    /\ calls' = [calls EXCEPT ![c] = Idle]
    /\ answers' = answers \cup {Answer(batchId, deviceId, payload,
                                       syncBatches[batchId].resultSnapshotId)}
    /\ UNCHANGED <<database, sidecars, repairHold>>

\* accept for a full snapshot, which is bridged into operations against the
\* entities just read; only the parent id ties it to what its author saw.
BridgedPayload(parentId, changes) ==
    [operationId |-> None, baseSnapshotId |-> parentId, changes |-> changes]
AcceptSnapshot(c, kind, deviceId, parentId, changes) ==
    StartPut(c, kind, None, deviceId, parentId, BridgedPayload(parentId, changes))

\* The storage has the object; the PUT may still fail for the caller.
StoreSidecar(c) ==
    /\ calls[c].phase = "putting"
    /\ sidecars' = sidecars \cup {calls[c].snapshotId}
    /\ calls' = [calls EXCEPT ![c].phase = "stored"]
    /\ UNCHANGED <<database, repairHold, answers>>

\* The PUT is rejected, or the caller's signal aborts before the transaction.
AbandonCall(c) ==
    /\ c \in Active
    /\ calls' = [calls EXCEPT ![c] = Idle]
    /\ UNCHANGED <<database, sidecars, repairHold, answers>>

-----------------------------------------------------------------------------
\* accept resumed after the PUT.  Its outcomes, in the order of the code: a
\* receipt written meanwhile (an answer, or a conflict when it is another
\* caller's), a repair begun meanwhile, and the transaction, which either finds
\* the authority moved or commits.
ReceiptMeanwhile(call) == HasReceipt(call.batchId)
MayWrite(call) == ~ReceiptMeanwhile(call) /\ AssertWritable(call.kind)

\* UPDATE vaults SET head_id ... WHERE head_id IS parentId, and the sequence
\* check behind it: either failing rolls the transaction back, the first with a
\* null answer and the second with an OperationConflict.
AuthorityAssumed(call) == call.phase = "stored"  \* mutant: UPDATE without its predicate
AuthorityUnmoved(call) ==
    /\ headId = call.parentId
    /\ syncState.sequence + 1 = call.sequence

AnswerAfterPut(c) ==
    /\ calls[c].phase = "stored"
    /\ ReceiptMeanwhile(calls[c])
    /\ calls' = [calls EXCEPT ![c] = Idle]
    /\ answers' =
         IF ReceiptAnswers(calls[c].batchId, calls[c].deviceId, calls[c].payload)
         THEN answers \cup {Answer(calls[c].batchId, calls[c].deviceId,
                              calls[c].payload,
                              syncBatches[calls[c].batchId].resultSnapshotId)}
         ELSE answers
    /\ UNCHANGED <<database, sidecars, repairHold>>

HeldAfterPut(c) ==
    /\ calls[c].phase = "stored"
    /\ ~ReceiptMeanwhile(calls[c])
    /\ ~AssertWritable(calls[c].kind)
    /\ calls' = [calls EXCEPT ![c] = Idle]
    /\ UNCHANGED <<database, sidecars, repairHold, answers>>

RefuseMoved(c) ==
    /\ calls[c].phase = "stored"
    /\ MayWrite(calls[c])
    /\ ~AuthorityUnmoved(calls[c])
    /\ calls' = [calls EXCEPT ![c] =
                    IF headId = calls[c].parentId THEN Idle ELSE Moved]
    /\ UNCHANGED <<database, sidecars, repairHold, answers>>

\* The rows one transaction writes for the planned call.
WriteWithoutTree(call) ==  \* mutant: sync_entities is not rewritten
    LET key == BatchKey(call.batchId, call.snapshotId) IN
    /\ headId' = call.snapshotId
    /\ snapshots' = [snapshots EXCEPT ![call.snapshotId] =
                        [parentId |-> call.parentId, tree |-> call.tree]]
    /\ syncState' = [snapshotId |-> call.snapshotId, sequence |-> call.sequence]
    /\ syncBatches' = [syncBatches EXCEPT ![key] =
                          [deviceId |-> call.deviceId, payload |-> call.payload,
                           parentId |-> call.parentId,
                           resultSnapshotId |-> call.snapshotId,
                           sequence |-> call.sequence]]
    /\ UNCHANGED <<syncEntities, syncOperations>>
WriteAuthority(call) ==
    LET key == BatchKey(call.batchId, call.snapshotId) IN
    /\ headId' = call.snapshotId
    /\ snapshots' = [snapshots EXCEPT ![call.snapshotId] =
                        [parentId |-> call.parentId, tree |-> call.tree]]
    /\ syncEntities' = call.tree
    /\ syncState' = [snapshotId |-> call.snapshotId, sequence |-> call.sequence]
    /\ syncBatches' = [syncBatches EXCEPT ![key] =
                          [deviceId |-> call.deviceId, payload |-> call.payload,
                           parentId |-> call.parentId,
                           resultSnapshotId |-> call.snapshotId,
                           sequence |-> call.sequence]]
    /\ syncOperations' =
         IF call.batchId = None THEN syncOperations
         ELSE [syncOperations EXCEPT ![call.payload.operationId] = call.batchId]

CommitTransaction(c) ==
    /\ calls[c].phase = "stored"
    /\ MayWrite(calls[c])
    /\ AuthorityUnmoved(calls[c])
    /\ WriteAuthority(calls[c])
    /\ calls' = [calls EXCEPT ![c] = Idle]
    /\ answers' = IF calls[c].batchId = None THEN answers
                  ELSE answers \cup {Answer(calls[c].batchId, calls[c].deviceId,
                                      calls[c].payload, calls[c].snapshotId)}
    /\ UNCHANGED <<sidecars, repairHold>>

-----------------------------------------------------------------------------
\* CheckpointRepairs.begin and finish, as assertWritable sees them.
HoldForRepair ==
    /\ ~repairHold
    /\ repairHold' = TRUE
    /\ UNCHANGED <<database, sidecars, calls, answers>>

ReleaseRepair ==
    /\ repairHold
    /\ repairHold' = FALSE
    /\ UNCHANGED <<database, sidecars, calls, answers>>

\* The process dies: calls in progress are gone, rows and objects stay, and the
\* durable repair record keeps the vault held.
Crash ==
    /\ Active # {}
    /\ calls' = [c \in Calls |-> Idle]
    /\ UNCHANGED <<database, sidecars, repairHold, answers>>

BatchPayloads == [operationId : OperationIds,
                  baseSnapshotId : Accepted \cup {None}, changes : SUBSET Files]

Next ==
    \/ \E c \in Calls, b \in BatchIds, d \in Devices, p \in BatchPayloads :
         \/ \E parent \in Accepted \cup {None} : AcceptBatch(c, b, d, parent, p)
         \/ AnswerReplay(c, b, d, p)
    \/ \E c \in Calls, kind \in CallKinds, d \in Devices,
          parent \in Accepted \cup {None}, changes \in SUBSET Files :
         AcceptSnapshot(c, kind, d, parent, changes)
    \/ \E c \in Calls : StoreSidecar(c) \/ AbandonCall(c)
    \/ \E c \in Calls : AnswerAfterPut(c) \/ HeldAfterPut(c)
    \/ \E c \in Calls : RefuseMoved(c) \/ CommitTransaction(c)
    \/ HoldForRepair
    \/ ReleaseRepair
    \/ Crash

Spec == Init /\ [][Next]_vars

-----------------------------------------------------------------------------
(* Properties *)

\* The head, the materialized tree and the sequence are one authority: what
\* sync_vault_state, sync_entities and the head snapshot say never differs.
AuthorityAgrees ==
    /\ syncState.snapshotId = headId
    /\ syncEntities = TreeOf(headId)
    /\ headId # None => headId \in Accepted

\* Receipts form one line: a sequence number names one receipt, each receipt's
\* parent is the result of the one before it, and the last one is the head.
ReceiptsLinear ==
    \A a \in AcceptedBatches :
        /\ syncBatches[a].sequence \in 1..syncState.sequence
        /\ syncBatches[a].sequence = syncState.sequence =>
             syncBatches[a].resultSnapshotId = headId
        /\ \A b \in AcceptedBatches :
             /\ syncBatches[a].sequence = syncBatches[b].sequence => a = b
             /\ syncBatches[a].sequence + 1 = syncBatches[b].sequence =>
                  syncBatches[b].parentId = syncBatches[a].resultSnapshotId

\* Accepted work is never dropped: every accepted snapshot is an ancestor of
\* the head, so no acceptance, planned however long ago, forks away from it.
AcceptedIsAncestry == Accepted = IF headId = None THEN {} ELSE Lineage(headId)


\* An answer is a durable promise to the batch's owner: whatever retries, lost
\* replies, concurrent calls and crashes do, the one receipt of the batch has
\* the content the caller sent, and the snapshot named in the answer.
AnswersAreDurable ==
    \A x \in answers :
        /\ x.batchId \in AcceptedBatches
        /\ syncBatches[x.batchId].deviceId = x.deviceId
        /\ syncBatches[x.batchId].payload = x.payload
        /\ syncBatches[x.batchId].resultSnapshotId = x.snapshotId
        /\ x.snapshotId \in Accepted

\* No update is lost: a receipt's snapshot differs from its parent in exactly
\* the files its batch changed, and the batch saw the revision it replaced.
NoLostUpdate ==
    \A b \in AcceptedBatches :
        LET row == syncBatches[b]
            before == TreeOf(row.parentId)
            after == TreeOf(row.resultSnapshotId)
        IN \A f \in Files :
             IF f \in row.payload.changes
             THEN /\ after[f] = b
                  /\ TreeOf(row.payload.baseSnapshotId)[f] = before[f]
             ELSE after[f] = before[f]

\* An operation takes effect in at most one accepted batch: a device that plans
\* the same intent again under a new batch id cannot apply it twice.
OperationAcceptedOnce ==
    \A a, b \in AcceptedBatches \cap BatchIds :
        syncBatches[a].payload.operationId = syncBatches[b].payload.operationId
            => a = b

\* The accepted history is one line that ends at the head, the receipts by
\* their numbers and parents and every accepted snapshot an ancestor, and no
\* operation is in it twice.
HistoryIsOneLine == ReceiptsLinear /\ AcceptedIsAncestry /\ OperationAcceptedOnce

\* A caller told that the head moved must not have been accepted: it will plan
\* the same work again under a new batch id.
MovedMeansUnaccepted ==
    \A c \in Calls :
        calls[c].phase = "stored" /\ calls'[c].phase = "moved"
            => ~HasReceipt(calls[c].batchId)

\* What a caller is told is true and stays true: an answer names its own durable
\* receipt, and only one without a receipt hears that the head moved (accept,
\* which looks for the receipt again after the PUT). A wrong answer either way
\* makes a device send the same work twice or drop it.
AnswersHold == [][AnswersAreDurable' /\ MovedMeansUnaccepted]_vars

\* Each call commits in one indivisible step although it plans, awaits the
\* storage and writes at different times: the receipts are a history of atomic
\* compare-and-swap writes to the tree (AcceptedHistory).
ReceiptAt(n) == CHOOSE b \in AcceptedBatches : syncBatches[b].sequence = n
HistoryEntry(b) ==
    [key |-> b,
     seen |-> [f \in syncBatches[b].payload.changes |->
                  TreeOf(syncBatches[b].payload.baseSnapshotId)[f]]]
History == INSTANCE AcceptedHistory
    WITH history <- [n \in 1..syncState.sequence |-> HistoryEntry(ReceiptAt(n))],
         tree <- syncEntities,
         Keys <- Revisions
AtomicHistory == History!Spec
=============================================================================
