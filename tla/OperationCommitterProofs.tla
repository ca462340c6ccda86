---------------------- MODULE OperationCommitterProofs ----------------------
(***************************************************************************)
(* Proofs about OperationCommitter, for any number of devices, batches,    *)
(* operations, snapshots, files and concurrent calls.                      *)
(*                                                                         *)
(* The argument: an accepted snapshot id is never handed out again, so a   *)
(* call that finds the head equal to the parent it planned against knows   *)
(* that nothing at all was accepted while it awaited its PUT.  Everything  *)
(* it planned (the next sequence number, the next tree, that its operation *)
(* is unused and its revisions are current) is then still true, and the    *)
(* transaction may write it without reading it again.  Planned states      *)
(* this; it is what the invariants of OperationCommitter lack to be        *)
(* inductive.                                                              *)
(***************************************************************************)
EXTENDS OperationCommitter, Sequences, SequenceTheorems, TLAPS

-----------------------------------------------------------------------------
(* Type correctness *)

\* A call under way is a full record.
LEMMA ActiveRecords == ASSUME TypeOK, NEW c \in Calls, calls[c].phase \in ActivePhases
                       PROVE  calls[c] \in CallRecords
BY DEF TypeOK, Idle, Moved, ActivePhases

\* The step before the PUT keeps the types.
LEMMA StartPutType ==
    ASSUME TypeOK, NEW c \in Calls, NEW kind \in CallKinds,
           NEW batchId \in BatchIds \cup {None}, NEW deviceId \in Devices,
           NEW parentId \in SnapshotIds \cup {None}, NEW payload \in Payloads,
           StartPut(c, kind, batchId, deviceId, parentId, payload)
    PROVE  TypeOK'
<1>1. PICK id \in SnapshotIds :
        calls' = [calls EXCEPT ![c] =
            [phase |-> "putting", kind |-> kind, batchId |-> batchId,
             deviceId |-> deviceId, parentId |-> parentId, payload |-> payload,
             snapshotId |-> id, sequence |-> syncState.sequence + 1,
             tree |-> ApplyOperations(payload.changes, BatchKey(batchId, id))]]
  BY DEF StartPut
<1>2. ApplyOperations(payload.changes, BatchKey(batchId, id)) \in Trees
  BY DEF TypeOK, ApplyOperations, BatchKey, Trees, Revisions
<1>3. syncState.sequence + 1 \in Nat
  BY DEF TypeOK
<1>4. calls' \in [Calls -> CallRecords \cup {Idle, Moved}]
  BY <1>1, <1>2, <1>3 DEF TypeOK, CallRecords, ActivePhases
<1>5. QED
  BY <1>4 DEF StartPut, TypeOK, database

\* The transaction keeps the types.
LEMMA CommitType ==
    ASSUME TypeOK, NEW c \in Calls, CommitTransaction(c)
    PROVE  TypeOK'
<1> DEFINE call == calls[c]
           key == BatchKey(call.batchId, call.snapshotId)
           row == [deviceId |-> call.deviceId, payload |-> call.payload,
                   parentId |-> call.parentId,
                   resultSnapshotId |-> call.snapshotId,
                   sequence |-> call.sequence]
<1>1. call \in CallRecords
  BY ActiveRecords DEF CommitTransaction, ActivePhases
<1>2. /\ call.snapshotId \in SnapshotIds
      /\ call.parentId \in SnapshotIds \cup {None}
      /\ call.batchId \in BatchIds \cup {None}
      /\ call.deviceId \in Devices
      /\ call.payload \in Payloads
      /\ call.tree \in Trees
      /\ call.sequence \in Nat
  BY <1>1 DEF CallRecords
<1>3. snapshots' \in [SnapshotIds -> SnapshotRows \cup {None}]
  BY <1>2 DEF CommitTransaction, WriteAuthority, TypeOK, SnapshotRows
<1>4. key \in Revisions /\ row \in BatchRows
  BY <1>2 DEF BatchKey, Revisions, BatchRows
<1>5. syncBatches' \in [Revisions -> BatchRows \cup {None}]
  BY <1>4 DEF CommitTransaction, WriteAuthority, TypeOK
<1>6. syncOperations' \in [OperationIds -> BatchIds \cup {None}]
  BY <1>2 DEF CommitTransaction, WriteAuthority, TypeOK, Payloads
<1>7. syncState' \in [snapshotId : SnapshotIds \cup {None}, sequence : Nat]
  BY <1>2 DEF CommitTransaction, WriteAuthority
<1>8. answers' \subseteq AnswerRecords
  BY <1>2 DEF CommitTransaction, TypeOK, Answer, AnswerRecords
<1>9. calls' \in [Calls -> CallRecords \cup {Idle, Moved}]
  BY DEF CommitTransaction, TypeOK
<1>10. headId' \in SnapshotIds \cup {None} /\ syncEntities' \in Trees
  BY <1>2 DEF CommitTransaction, WriteAuthority
<1>11. QED
  BY <1>3, <1>5, <1>6, <1>7, <1>8, <1>9, <1>10 DEF TypeOK, CommitTransaction

\* A bridged snapshot is a batch of changes.
LEMMA BridgedPayloadType ==
    ASSUME NEW parentId \in SnapshotIds \cup {None}, NEW changes \in SUBSET Files
    PROVE  BridgedPayload(parentId, changes) \in Payloads
BY DEF BridgedPayload, Payloads

\* The calls of accept other than the one the transaction commits keep every
\* row of the database.
LEMMA TypeStep == TypeOK /\ [Next]_vars => TypeOK'
<1> SUFFICES ASSUME TypeOK, [Next]_vars PROVE TypeOK'
  OBVIOUS
<1> USE DEF database
<1>1. ASSUME NEW c \in Calls, NEW b \in BatchIds, NEW d \in Devices,
             NEW p \in BatchPayloads, NEW parent \in Accepted \cup {None},
             AcceptBatch(c, b, d, parent, p)
      PROVE  TypeOK'
  <2>1. p \in Payloads /\ parent \in SnapshotIds \cup {None} /\ "device" \in CallKinds
    BY DEF BatchPayloads, Payloads, Accepted, CallKinds
  <2>2. QED
    BY <1>1, <2>1, StartPutType DEF AcceptBatch
<1>2. ASSUME NEW c \in Calls, NEW b \in BatchIds, NEW d \in Devices,
             NEW p \in BatchPayloads, AnswerReplay(c, b, d, p)
      PROVE  TypeOK'
  <2>1. p \in Payloads
    BY DEF BatchPayloads, Payloads, Accepted
  <2>2. Answer(b, d, p, syncBatches[b].resultSnapshotId) \in AnswerRecords
    BY <1>2, <2>1 DEF AnswerReplay, HasReceipt, TypeOK, Revisions, BatchRows,
                      Answer, AnswerRecords
  <2>3. calls' \in [Calls -> CallRecords \cup {Idle, Moved}]
    BY <1>2 DEF AnswerReplay, TypeOK
  <2>4. QED
    BY <1>2, <2>2, <2>3 DEF AnswerReplay, TypeOK
<1>3. ASSUME NEW c \in Calls, NEW kind \in CallKinds, NEW d \in Devices,
             NEW parent \in Accepted \cup {None}, NEW changes \in SUBSET Files,
             AcceptSnapshot(c, kind, d, parent, changes)
      PROVE  TypeOK'
  <2>1. parent \in SnapshotIds \cup {None}
    BY DEF Accepted
  <2>2. QED
    BY <1>3, <2>1, BridgedPayloadType, StartPutType DEF AcceptSnapshot
<1>4. ASSUME NEW c \in Calls, StoreSidecar(c)
      PROVE  TypeOK'
  <2>1. calls[c] \in CallRecords
    BY <1>4, ActiveRecords DEF StoreSidecar, ActivePhases
  <2>2. [calls[c] EXCEPT !.phase = "stored"] \in CallRecords
    BY <2>1 DEF CallRecords, ActivePhases
  <2>3. calls' \in [Calls -> CallRecords \cup {Idle, Moved}]
    BY <1>4, <2>2 DEF StoreSidecar, TypeOK
  <2>4. calls[c].snapshotId \in SnapshotIds
    BY <2>1 DEF CallRecords
  <2>5. QED
    BY <1>4, <2>3, <2>4 DEF StoreSidecar, TypeOK
<1>5. ASSUME NEW c \in Calls, AbandonCall(c) \/ HeldAfterPut(c) \/ RefuseMoved(c)
      PROVE  TypeOK'
  <2>1. calls' \in [Calls -> CallRecords \cup {Idle, Moved}]
    BY <1>5 DEF AbandonCall, HeldAfterPut, RefuseMoved, TypeOK
  <2>2. QED
    BY <1>5, <2>1 DEF AbandonCall, HeldAfterPut, RefuseMoved, TypeOK
<1>6. ASSUME NEW c \in Calls, AnswerAfterPut(c)
      PROVE  TypeOK'
  <2>1. calls[c] \in CallRecords
    BY <1>6, ActiveRecords DEF AnswerAfterPut, ActivePhases
  <2>2. Answer(calls[c].batchId, calls[c].deviceId, calls[c].payload,
               syncBatches[calls[c].batchId].resultSnapshotId) \in AnswerRecords
    BY <1>6, <2>1 DEF AnswerAfterPut, ReceiptMeanwhile, HasReceipt, TypeOK,
                      CallRecords, Revisions, BatchRows, Answer, AnswerRecords
  <2>3. calls' \in [Calls -> CallRecords \cup {Idle, Moved}]
    BY <1>6 DEF AnswerAfterPut, TypeOK
  <2>4. QED
    BY <1>6, <2>2, <2>3 DEF AnswerAfterPut, TypeOK
<1>7. ASSUME NEW c \in Calls, CommitTransaction(c)
      PROVE  TypeOK'
  BY <1>7, CommitType
<1>8. CASE HoldForRepair \/ ReleaseRepair
  BY <1>8 DEF HoldForRepair, ReleaseRepair, TypeOK
<1>9. CASE Crash
  BY <1>9 DEF Crash, TypeOK
<1>10. CASE UNCHANGED vars
  BY <1>10 DEF vars, TypeOK
<1>11. QED
  BY <1>1, <1>2, <1>3, <1>4, <1>5, <1>6, <1>7, <1>8, <1>9, <1>10 DEF Next

\* Every reachable state is well typed: a call in progress is a whole plan and
\* every row names ids of its kind.
THEOREM TypeCorrect == Spec => []TypeOK
<1>1. Init => TypeOK
  <2> SUFFICES ASSUME Init PROVE TypeOK
    OBVIOUS
  <2>1. syncEntities \in Trees
    BY DEF Init, Trees, Revisions
  <2>2. snapshots \in [SnapshotIds -> SnapshotRows \cup {None}]
    BY <2>1 DEF Init, SnapshotRows
  <2>3. QED
    BY <2>1, <2>2 DEF Init, TypeOK
<1>2. QED
  BY <1>1, TypeStep, PTL DEF Spec

-----------------------------------------------------------------------------
(* The inductive invariant *)

\* The plan a call made is still true as long as the head is the parent it was
\* planned against.
Current(call) ==
    /\ call.sequence = syncState.sequence + 1
    /\ call.tree = ApplyOperations(call.payload.changes,
                                   BatchKey(call.batchId, call.snapshotId))
    /\ RevisionsMatch(call.payload)
    /\ call.batchId # None => OperationUnused(call.payload.operationId)
Planned(call) ==
    /\ call.snapshotId \notin Accepted
    /\ call.parentId \in Accepted \cup {None}
    /\ call.payload.baseSnapshotId \in Accepted \cup {None}
    /\ call.batchId # None => call.payload.operationId # None
    /\ call.parentId = headId => Current(call)
CallsPlanned == \A c \in Active : Planned(calls[c])

\* randomUUID() gives no two calls the same snapshot id.
CallsDistinct ==
    \A c, d \in Active : calls[c].snapshotId = calls[d].snapshotId => c = d

SnapshotsRooted ==
    \A s \in Accepted : snapshots[s].parentId \in Accepted \cup {None}

\* What a receipt refers to is accepted, the operations it holds are recorded,
\* and a bridged batch is named after its own result.
ReceiptsGrounded ==
    \A b \in AcceptedBatches :
        /\ syncBatches[b].resultSnapshotId \in Accepted
        /\ syncBatches[b].parentId \in Accepted \cup {None}
        /\ syncBatches[b].payload.baseSnapshotId \in Accepted \cup {None}
        /\ b \in SnapshotIds => syncBatches[b].resultSnapshotId = b
        /\ b \in BatchIds => /\ syncBatches[b].payload.operationId # None
                             /\ syncOperations[syncBatches[b].payload.operationId] = b

\* No sequence number is skipped.
ReceiptsComplete ==
    \A n \in 1..syncState.sequence :
        \E b \in AcceptedBatches : syncBatches[b].sequence = n

IInv ==
    /\ TypeOK
    /\ AuthorityAgrees
    /\ SnapshotsRooted
    /\ AcceptedIsAncestry
    /\ ReceiptsGrounded
    /\ ReceiptsLinear
    /\ ReceiptsComplete
    /\ NoLostUpdate
    /\ AnswersAreDurable
    /\ CallsPlanned
    /\ CallsDistinct

\* Only the transaction changes the database.
LEMMA DatabaseSteps ==
    [Next]_vars => \/ UNCHANGED database
                   \/ \E c \in Calls : CommitTransaction(c)
BY DEF Next, vars, AcceptBatch, AnswerReplay, AcceptSnapshot, StartPut, StoreSidecar,
       AbandonCall, AnswerAfterPut, HeldAfterPut, RefuseMoved, HoldForRepair,
       ReleaseRepair, Crash

\* What is true of a call when its transaction commits, and what it adds.
LEMMA CommitFacts ==
    ASSUME IInv, NEW c \in Calls, CommitTransaction(c),
           NEW call, call = calls[c],
           NEW key, key = BatchKey(call.batchId, call.snapshotId)
    PROVE  /\ call \in CallRecords
           /\ c \in Active
           /\ Planned(call) /\ Current(call)
           /\ headId = call.parentId
           /\ key \in Revisions \ AcceptedBatches
           /\ call.snapshotId \in SnapshotIds \ Accepted
           /\ snapshots' = [snapshots EXCEPT ![call.snapshotId] =
                               [parentId |-> call.parentId, tree |-> call.tree]]
           /\ syncBatches' = [syncBatches EXCEPT ![key] =
                                 [deviceId |-> call.deviceId, payload |-> call.payload,
                                  parentId |-> call.parentId,
                                  resultSnapshotId |-> call.snapshotId,
                                  sequence |-> call.sequence]]
           /\ Accepted' = Accepted \cup {call.snapshotId}
           /\ AcceptedBatches' = AcceptedBatches \cup {key}
<1>1. call \in CallRecords /\ c \in Active
  BY ActiveRecords DEF IInv, CommitTransaction, ActivePhases, Active
<1>2. Planned(call) /\ headId = call.parentId /\ Current(call)
  BY <1>1 DEF IInv, CallsPlanned, CommitTransaction, AuthorityUnmoved, Planned
<1>3. /\ call.snapshotId \in SnapshotIds \ Accepted
      /\ call.batchId \in BatchIds \cup {None}
      /\ call.parentId \in SnapshotIds \cup {None}
      /\ call.tree \in Trees
      /\ call.deviceId \in Devices /\ call.payload \in Payloads /\ call.sequence \in Nat
  BY <1>1, <1>2 DEF CallRecords, Planned
<1>4. key \in Revisions \ AcceptedBatches
  <2>1. CASE call.batchId = None
    <3>1. key = call.snapshotId
      BY <2>1 DEF BatchKey
    <3>2. key \notin AcceptedBatches
      BY <3>1, <1>3 DEF IInv, ReceiptsGrounded
    <3>3. QED
      BY <3>1, <3>2, <1>3 DEF Revisions
  <2>2. CASE call.batchId # None
    BY <2>2, <1>3 DEF BatchKey, CommitTransaction, MayWrite, ReceiptMeanwhile,
                      HasReceipt, AcceptedBatches, Revisions
  <2>3. QED
    BY <2>1, <2>2
<1>5. /\ snapshots' = [snapshots EXCEPT ![call.snapshotId] =
                          [parentId |-> call.parentId, tree |-> call.tree]]
      /\ syncBatches' = [syncBatches EXCEPT ![key] =
                            [deviceId |-> call.deviceId, payload |-> call.payload,
                             parentId |-> call.parentId,
                             resultSnapshotId |-> call.snapshotId,
                             sequence |-> call.sequence]]
  BY DEF CommitTransaction, WriteAuthority
<1>6. Accepted' = Accepted \cup {call.snapshotId}
  <2>1. [parentId |-> call.parentId, tree |-> call.tree] \in SnapshotRows
    BY <1>3 DEF SnapshotRows
  <2>2. [parentId |-> call.parentId, tree |-> call.tree] # None
    BY <2>1, NoneAssumption
  <2>3. QED
    BY <2>2, <1>3, <1>5 DEF Accepted, IInv, TypeOK
<1>7. AcceptedBatches' = AcceptedBatches \cup {key}
  <2> DEFINE row == [deviceId |-> call.deviceId, payload |-> call.payload,
                     parentId |-> call.parentId,
                     resultSnapshotId |-> call.snapshotId,
                     sequence |-> call.sequence]
  <2>1. row \in BatchRows
    BY <1>3 DEF BatchRows
  <2>2. row # None
    BY <2>1, NoneAssumption
  <2>3. QED
    BY <2>2, <1>4, <1>5 DEF AcceptedBatches, IInv, TypeOK
<1>8. QED
  BY <1>1, <1>2, <1>3, <1>4, <1>5, <1>6, <1>7

\* The parent of what is committed is accepted.
LEMMA RootedStep == ASSUME IInv, NEW c \in Calls, CommitTransaction(c)
                    PROVE  SnapshotsRooted' /\ AuthorityAgrees'
<1> DEFINE call == calls[c]
           key == BatchKey(call.batchId, call.snapshotId)
<1> HIDE DEF call, key
<1>1. /\ call.snapshotId \in SnapshotIds \ Accepted
      /\ Planned(call)
      /\ headId = call.parentId
      /\ snapshots' = [snapshots EXCEPT ![call.snapshotId] =
                          [parentId |-> call.parentId, tree |-> call.tree]]
      /\ Accepted' = Accepted \cup {call.snapshotId}
  BY CommitFacts DEF call, key
<1>2. SnapshotsRooted'
  <2> SUFFICES ASSUME NEW s \in Accepted'
               PROVE  snapshots'[s].parentId \in Accepted' \cup {None}
    BY DEF SnapshotsRooted
  <2>1. CASE s = call.snapshotId
    BY <1>1, <2>1 DEF IInv, TypeOK, Planned
  <2>2. CASE s # call.snapshotId
    BY <1>1, <2>2 DEF IInv, TypeOK, SnapshotsRooted
  <2>3. QED
    BY <2>1, <2>2
<1>3. AuthorityAgrees'
  <2>1. /\ headId' = call.snapshotId
        /\ syncState' = [snapshotId |-> call.snapshotId, sequence |-> call.sequence]
        /\ syncEntities' = call.tree
    BY DEF CommitTransaction, WriteAuthority, call
  <2>2. TreeOf(headId)' = call.tree
    <3>1. headId' # None
      BY <2>1, <1>1, NoneAssumption DEF Revisions
    <3>2. snapshots'[headId'].tree = call.tree
      BY <1>1, <2>1 DEF IInv, TypeOK
    <3>3. QED
      BY <3>1, <3>2 DEF TreeOf
  <2>3. QED
    BY <1>1, <2>1, <2>2 DEF AuthorityAgrees
<1>4. QED
  BY <1>2, <1>3

\* A transaction changes the content of no snapshot that was already accepted.
NextTreeOf(s) == IF s = None THEN EmptyTree ELSE snapshots'[s].tree
\* A commit leaves the trees of the snapshots before it.
LEMMA TreesKept ==
    ASSUME IInv, NEW c \in Calls, CommitTransaction(c)
    PROVE  \A s \in Accepted \cup {None} : NextTreeOf(s) = TreeOf(s)
<1> DEFINE call == calls[c]
           key == BatchKey(call.batchId, call.snapshotId)
<1> HIDE DEF call, key
<1>1. /\ call.snapshotId \in SnapshotIds \ Accepted
      /\ snapshots' = [snapshots EXCEPT ![call.snapshotId] =
                          [parentId |-> call.parentId, tree |-> call.tree]]
  BY CommitFacts DEF call, key
<1>2. \A s \in Accepted : snapshots'[s] = snapshots[s]
  BY <1>1 DEF IInv, TypeOK
<1>3. QED
  BY <1>2 DEF TreeOf, NextTreeOf

\* The new head reaches its parent, hence all that the parent reached; and the
\* accepted snapshots are themselves a set closed under parents.
LEMMA AncestryStep == ASSUME IInv, NEW c \in Calls, CommitTransaction(c)
                      PROVE  AcceptedIsAncestry'
<1> DEFINE call == calls[c]
           key == BatchKey(call.batchId, call.snapshotId)
           new == call.snapshotId
<1> HIDE DEF call, key
<1>1. /\ new \in SnapshotIds \ Accepted
      /\ headId = call.parentId
      /\ snapshots' = [snapshots EXCEPT ![new] =
                          [parentId |-> call.parentId, tree |-> call.tree]]
      /\ Accepted' = Accepted \cup {new}
  BY CommitFacts DEF call, key
<1>2. headId' = new /\ new # None
  BY <1>1, NoneAssumption DEF CommitTransaction, WriteAuthority, call, Revisions
<1>3. ASSUME NEW S \in SUBSET SnapshotIds, new \in S, ParentClosed(S)'
      PROVE  Accepted' \subseteq S
  <2>1. snapshots'[new].parentId = headId
    BY <1>1 DEF IInv, TypeOK
  <2>2. headId \in S \cup {None}
    BY <1>1, <1>3, <2>1 DEF ParentClosed
  <2>3. ParentClosed(S)
    <3> SUFFICES ASSUME NEW s \in S \cap Accepted
                 PROVE  snapshots[s].parentId \in S \cup {None}
      BY DEF ParentClosed
    <3>1. s # new /\ s \in SnapshotIds /\ s \in Accepted'
      BY <1>1 DEF Accepted
    <3>2. snapshots'[s] = snapshots[s]
      BY <1>1, <3>1 DEF IInv, TypeOK
    <3>3. QED
      BY <1>3, <3>1, <3>2 DEF ParentClosed
  <2>4. CASE headId = None
    BY <1>1, <1>3, <2>4 DEF IInv, AcceptedIsAncestry
  <2>5. CASE headId # None
    <3>1. Accepted = Lineage(headId)
      BY <2>5 DEF IInv, AcceptedIsAncestry
    <3>2. Lineage(headId) \subseteq S
      BY <2>2, <2>3, <2>5 DEF Lineage
    <3>3. QED
      BY <1>1, <1>3, <3>1, <3>2
  <2>6. QED
    BY <2>4, <2>5
<1>4. ParentClosed(Accepted)'
  BY RootedStep DEF SnapshotsRooted, ParentClosed
<1>5. Accepted' = Lineage(headId)'
  <2>1. Lineage(headId)' = {x \in SnapshotIds : \A S \in SUBSET SnapshotIds :
                               new \in S /\ ParentClosed(S)' => x \in S}
    BY <1>2 DEF Lineage
  <2>2. Accepted' \subseteq SnapshotIds
    BY DEF Accepted
  <2>3. Accepted' \subseteq Lineage(headId)'
    BY <1>3, <2>1, <2>2
  <2>4. Lineage(headId)' \subseteq Accepted'
    BY <1>1, <1>4, <2>1, <2>2
  <2>5. QED
    BY <2>3, <2>4
<1>6. QED
  BY <1>2, <1>5 DEF AcceptedIsAncestry

\* A commit writes the next receipt of the line.
LEMMA ReceiptsStep == ASSUME IInv, NEW c \in Calls, CommitTransaction(c)
                      PROVE  ReceiptsGrounded' /\ ReceiptsLinear' /\ ReceiptsComplete'
<1> DEFINE call == calls[c]
           key == BatchKey(call.batchId, call.snapshotId)
<1> HIDE DEF call, key
<1>1. /\ call \in CallRecords
      /\ Planned(call) /\ Current(call)
      /\ headId = call.parentId
      /\ key \in Revisions \ AcceptedBatches
      /\ call.snapshotId \in SnapshotIds \ Accepted
      /\ syncBatches' = [syncBatches EXCEPT ![key] =
                            [deviceId |-> call.deviceId, payload |-> call.payload,
                             parentId |-> call.parentId,
                             resultSnapshotId |-> call.snapshotId,
                             sequence |-> call.sequence]]
      /\ Accepted' = Accepted \cup {call.snapshotId}
      /\ AcceptedBatches' = AcceptedBatches \cup {key}
  BY CommitFacts DEF call, key
<1>2. /\ syncState' = [snapshotId |-> call.snapshotId, sequence |-> call.sequence]
      /\ headId' = call.snapshotId
      /\ syncOperations' =
           IF call.batchId = None THEN syncOperations
           ELSE [syncOperations EXCEPT ![call.payload.operationId] = call.batchId]
  BY DEF CommitTransaction, WriteAuthority, call
<1>3. syncState.sequence \in Nat /\ call.sequence = syncState.sequence + 1
  BY <1>1 DEF IInv, TypeOK, Current
<1>4. /\ syncBatches'[key].deviceId = call.deviceId
      /\ syncBatches'[key].payload = call.payload
      /\ syncBatches'[key].parentId = call.parentId
      /\ syncBatches'[key].resultSnapshotId = call.snapshotId
      /\ syncBatches'[key].sequence = call.sequence
  BY <1>1 DEF IInv, TypeOK
<1>5. \A b \in AcceptedBatches : b # key /\ syncBatches'[b] = syncBatches[b]
  BY <1>1 DEF IInv, TypeOK
<1>6. \A b \in AcceptedBatches : syncBatches[b] \in BatchRows
  BY DEF IInv, TypeOK, AcceptedBatches
<1>7. ReceiptsGrounded'
  <2> SUFFICES ASSUME NEW b \in AcceptedBatches'
               PROVE  /\ syncBatches'[b].resultSnapshotId \in Accepted'
                      /\ syncBatches'[b].parentId \in Accepted' \cup {None}
                      /\ syncBatches'[b].payload.baseSnapshotId \in Accepted' \cup {None}
                      /\ b \in SnapshotIds => syncBatches'[b].resultSnapshotId = b
                      /\ b \in BatchIds =>
                           /\ syncBatches'[b].payload.operationId # None
                           /\ syncOperations'[syncBatches'[b].payload.operationId] = b
    BY DEF ReceiptsGrounded
  <2>1. CASE b = key
    <3>0. /\ syncBatches'[b].resultSnapshotId = call.snapshotId
          /\ syncBatches'[b].resultSnapshotId \in Accepted'
          /\ syncBatches'[b].parentId \in Accepted' \cup {None}
          /\ syncBatches'[b].payload.baseSnapshotId \in Accepted' \cup {None}
      BY <2>1, <1>1, <1>4 DEF Planned
    <3>1. call.batchId \in BatchIds \cup {None} /\ call.payload \in Payloads
      BY <1>1 DEF CallRecords
    <3>2. CASE call.batchId = None
      <4>1. b = call.snapshotId /\ b \notin BatchIds
        BY <2>1, <3>2, <1>1, IdsAssumption DEF BatchKey, key
      <4>2. QED
        BY <4>1, <3>0
    <3>3. CASE call.batchId # None
      <4>1. b = call.batchId /\ b \notin SnapshotIds
        BY <2>1, <3>1, <3>3, IdsAssumption DEF BatchKey, key
      <4>2. call.payload.operationId \in OperationIds
        BY <1>1, <3>1, <3>3 DEF Planned, Payloads
      <4>3. syncOperations'[call.payload.operationId] = b
        BY <1>2, <3>3, <4>1, <4>2 DEF IInv, TypeOK
      <4>4. QED
        BY <4>1, <4>2, <4>3, <3>0, <2>1, <1>1, <1>4, <3>3 DEF Planned
    <3>4. QED
      BY <3>2, <3>3
  <2>2. CASE b \in AcceptedBatches
    <3>1. syncBatches'[b] = syncBatches[b]
      BY <1>5, <2>2
    <3>2. b \in BatchIds =>
            syncOperations'[syncBatches[b].payload.operationId] = b
      <4> SUFFICES ASSUME b \in BatchIds
                   PROVE  syncOperations'[syncBatches[b].payload.operationId] = b
        OBVIOUS
      <4> DEFINE operationId == syncBatches[b].payload.operationId
      <4>1. /\ operationId # None
            /\ syncOperations[operationId] = b
            /\ operationId \in OperationIds
        BY <2>2, <1>6 DEF IInv, ReceiptsGrounded, BatchRows, Payloads
      <4>2. b # None
        BY NoneAssumption DEF Revisions
      <4>3. call.batchId # None => operationId # call.payload.operationId
        BY <1>1, <4>1, <4>2 DEF Current, OperationUnused
      <4>4. QED
        BY <1>2, <4>1, <4>3 DEF IInv, TypeOK
    <3>3. QED
      BY <3>1, <3>2, <2>2, <1>1 DEF IInv, ReceiptsGrounded
  <2>3. QED
    BY <2>1, <2>2, <1>1
<1>8. \A b \in AcceptedBatches :
        /\ syncBatches[b].sequence \in Nat
        /\ syncBatches[b].sequence \in 1..syncState.sequence
  BY <1>6 DEF IInv, ReceiptsLinear, BatchRows
<1>9. ReceiptsLinear'
  <2>1. ASSUME NEW a \in AcceptedBatches'
        PROVE  /\ syncBatches'[a].sequence \in 1..syncState'.sequence
               /\ syncBatches'[a].sequence = syncState'.sequence =>
                    syncBatches'[a].resultSnapshotId = headId'
    <3>1. CASE a = key
      BY <3>1, <1>2, <1>3, <1>4
    <3>2. CASE a \in AcceptedBatches
      BY <3>2, <1>2, <1>3, <1>5, <1>8
    <3>3. QED
      BY <3>1, <3>2, <1>1
  <2>2. ASSUME NEW a \in AcceptedBatches', NEW b \in AcceptedBatches'
        PROVE  /\ syncBatches'[a].sequence = syncBatches'[b].sequence => a = b
               /\ syncBatches'[a].sequence + 1 = syncBatches'[b].sequence =>
                    syncBatches'[b].parentId = syncBatches'[a].resultSnapshotId
    <3>1. CASE a \in AcceptedBatches /\ b \in AcceptedBatches
      BY <3>1, <1>5 DEF IInv, ReceiptsLinear
    <3>2. CASE a \in AcceptedBatches /\ b = key
      <4>1. syncBatches[a].sequence + 1 = call.sequence =>
              syncBatches[a].resultSnapshotId = headId
        BY <3>2, <1>3, <1>8 DEF IInv, ReceiptsLinear
      <4>2. QED
        BY <3>2, <4>1, <1>1, <1>3, <1>4, <1>5, <1>8
    <3>3. CASE a = key /\ b \in AcceptedBatches
      BY <3>3, <1>3, <1>4, <1>5, <1>8
    <3>4. CASE a = key /\ b = key
      BY <3>4, <1>3, <1>4
    <3>5. QED
      BY <3>1, <3>2, <3>3, <3>4, <1>1
  <2>3. QED
    BY <2>1, <2>2 DEF ReceiptsLinear
<1>10. ReceiptsComplete'
  <2> SUFFICES ASSUME NEW n \in 1..syncState'.sequence
               PROVE  \E b \in AcceptedBatches' : syncBatches'[b].sequence = n
    BY DEF ReceiptsComplete
  <2>1. CASE n = call.sequence
    BY <2>1, <1>1, <1>4
  <2>2. CASE n # call.sequence
    <3>1. n \in 1..syncState.sequence
      BY <2>2, <1>2, <1>3
    <3>2. PICK b \in AcceptedBatches : syncBatches[b].sequence = n
      BY <3>1 DEF IInv, ReceiptsComplete
    <3>3. QED
      BY <3>2, <1>1, <1>5
  <2>3. QED
    BY <2>1, <2>2
<1>11. QED
  BY <1>7, <1>9, <1>10

\* A commit replaces the revisions its author saw.
LEMMA NoLostUpdateStep == ASSUME IInv, NEW c \in Calls, CommitTransaction(c)
                          PROVE  NoLostUpdate'
<1> DEFINE call == calls[c]
           key == BatchKey(call.batchId, call.snapshotId)
<1> HIDE DEF call, key
<1>1. /\ call \in CallRecords
      /\ Planned(call) /\ Current(call)
      /\ headId = call.parentId
      /\ key \in Revisions \ AcceptedBatches
      /\ call.snapshotId \in SnapshotIds \ Accepted
      /\ syncBatches' = [syncBatches EXCEPT ![key] =
                            [deviceId |-> call.deviceId, payload |-> call.payload,
                             parentId |-> call.parentId,
                             resultSnapshotId |-> call.snapshotId,
                             sequence |-> call.sequence]]
      /\ snapshots' = [snapshots EXCEPT ![call.snapshotId] =
                          [parentId |-> call.parentId, tree |-> call.tree]]
      /\ AcceptedBatches' = AcceptedBatches \cup {key}
  BY CommitFacts DEF call, key
<1> SUFFICES ASSUME NEW b \in AcceptedBatches', NEW f \in Files
             PROVE  LET row == syncBatches'[b]
                        before == NextTreeOf(row.parentId)
                        after == NextTreeOf(row.resultSnapshotId)
                    IN IF f \in row.payload.changes
                       THEN /\ after[f] = b
                            /\ NextTreeOf(row.payload.baseSnapshotId)[f] = before[f]
                       ELSE after[f] = before[f]
  BY DEF NoLostUpdate, TreeOf, NextTreeOf, EmptyTree
<1>2. CASE b = key
  <2>1. /\ syncBatches'[b].payload = call.payload
        /\ syncBatches'[b].parentId = call.parentId
        /\ syncBatches'[b].resultSnapshotId = call.snapshotId
    BY <1>1, <1>2 DEF IInv, TypeOK
  <2>2. NextTreeOf(call.snapshotId) = call.tree
    <3>1. call.snapshotId # None
      BY <1>1, NoneAssumption DEF Revisions
    <3>2. snapshots'[call.snapshotId].tree = call.tree
      BY <1>1 DEF IInv, TypeOK
    <3>3. QED
      BY <3>1, <3>2 DEF NextTreeOf
  <2>3. NextTreeOf(call.parentId) = syncEntities
    BY <1>1, TreesKept DEF Planned, IInv, AuthorityAgrees
  <2>4. NextTreeOf(call.payload.baseSnapshotId) = TreeOf(call.payload.baseSnapshotId)
    BY <1>1, TreesKept DEF Planned
  <2>5. call.tree[f] = IF f \in call.payload.changes THEN b ELSE syncEntities[f]
    BY <1>1, <1>2 DEF Current, ApplyOperations, key
  <2>6. f \in call.payload.changes =>
          syncEntities[f] = TreeOf(call.payload.baseSnapshotId)[f]
    BY <1>1 DEF Current, RevisionsMatch
  <2>7. QED
    BY <2>1, <2>2, <2>3, <2>4, <2>5, <2>6
<1>3. CASE b \in AcceptedBatches
  <2>1. b # key /\ syncBatches'[b] = syncBatches[b]
    BY <1>1, <1>3 DEF IInv, TypeOK
  <2> DEFINE row == syncBatches[b]
  <2>2. /\ NextTreeOf(row.parentId) = TreeOf(row.parentId)
        /\ NextTreeOf(row.resultSnapshotId) = TreeOf(row.resultSnapshotId)
        /\ NextTreeOf(row.payload.baseSnapshotId) = TreeOf(row.payload.baseSnapshotId)
    BY <1>3, TreesKept DEF IInv, ReceiptsGrounded
  <2>3. QED
    BY <2>1, <2>2, <1>3 DEF IInv, NoLostUpdate
<1>4. QED
  BY <1>1, <1>2, <1>3

\* An answer names the receipt of its batch, and no receipt is ever rewritten.
LEMMA AnswersStep == ASSUME IInv, TypeOK', [Next]_vars
                     PROVE  AnswersAreDurable'
<1>1. ASSUME NEW c \in Calls, CommitTransaction(c)
      PROVE  AnswersAreDurable'
  <2> DEFINE call == calls[c]
             key == BatchKey(call.batchId, call.snapshotId)
  <2> HIDE DEF call, key
  <2>1. /\ key \in Revisions \ AcceptedBatches
        /\ syncBatches' = [syncBatches EXCEPT ![key] =
                              [deviceId |-> call.deviceId, payload |-> call.payload,
                               parentId |-> call.parentId,
                               resultSnapshotId |-> call.snapshotId,
                               sequence |-> call.sequence]]
        /\ Accepted' = Accepted \cup {call.snapshotId}
        /\ AcceptedBatches' = AcceptedBatches \cup {key}
    BY <1>1, CommitFacts DEF call, key
  <2>2. answers' = IF call.batchId = None THEN answers
                   ELSE answers \cup {Answer(call.batchId, call.deviceId,
                                             call.payload, call.snapshotId)}
    BY <1>1 DEF CommitTransaction, call
  <2> SUFFICES ASSUME NEW x \in answers'
               PROVE  /\ x.batchId \in AcceptedBatches'
                      /\ syncBatches'[x.batchId].deviceId = x.deviceId
                      /\ syncBatches'[x.batchId].payload = x.payload
                      /\ syncBatches'[x.batchId].resultSnapshotId = x.snapshotId
                      /\ x.snapshotId \in Accepted'
    BY DEF AnswersAreDurable
  <2>3. CASE x \in answers
    <3>1. x.batchId # key /\ syncBatches'[x.batchId] = syncBatches[x.batchId]
      BY <2>1, <2>3 DEF IInv, TypeOK, AnswersAreDurable, AcceptedBatches
    <3>2. QED
      BY <3>1, <2>1, <2>3 DEF IInv, AnswersAreDurable
  <2>4. CASE /\ call.batchId # None
             /\ x = Answer(call.batchId, call.deviceId, call.payload, call.snapshotId)
    <3>1. x.batchId = key
      BY <2>4 DEF Answer, BatchKey, key
    <3>2. QED
      BY <3>1, <2>1, <2>4 DEF Answer, IInv, TypeOK
  <2>5. QED
    BY <2>2, <2>3, <2>4
<1>2. ASSUME UNCHANGED database,
             NEW x \in answers', x \notin answers,
             NEW batchId \in BatchIds, HasReceipt(batchId),
             x = Answer(batchId, x.deviceId, x.payload,
                        syncBatches[batchId].resultSnapshotId),
             ReceiptAnswers(batchId, x.deviceId, x.payload)
      PROVE  /\ x.batchId \in AcceptedBatches'
             /\ syncBatches'[x.batchId].deviceId = x.deviceId
             /\ syncBatches'[x.batchId].payload = x.payload
             /\ syncBatches'[x.batchId].resultSnapshotId = x.snapshotId
             /\ x.snapshotId \in Accepted'
  <2>1. batchId \in AcceptedBatches
    BY <1>2 DEF HasReceipt, AcceptedBatches, Revisions
  <2>2. x.batchId = batchId /\ x.snapshotId = syncBatches[batchId].resultSnapshotId
    BY <1>2 DEF Answer
  <2>3. AcceptedBatches' = AcceptedBatches /\ Accepted' = Accepted
    BY <1>2 DEF database, AcceptedBatches, Accepted
  <2>4. QED
    BY <1>2, <2>1, <2>2, <2>3 DEF database, ReceiptAnswers, IInv, ReceiptsGrounded
<1>3. ASSUME UNCHANGED database, NEW x \in answers
      PROVE  /\ x.batchId \in AcceptedBatches'
             /\ syncBatches'[x.batchId].deviceId = x.deviceId
             /\ syncBatches'[x.batchId].payload = x.payload
             /\ syncBatches'[x.batchId].resultSnapshotId = x.snapshotId
             /\ x.snapshotId \in Accepted'
  BY <1>3 DEF database, AcceptedBatches, Accepted, IInv, AnswersAreDurable
<1>4. ASSUME NEW c \in Calls, NEW b \in BatchIds, NEW d \in Devices,
             NEW p \in BatchPayloads, AnswerReplay(c, b, d, p)
      PROVE  AnswersAreDurable'
  <2>1. UNCHANGED database /\ HasReceipt(b) /\ ReceiptAnswers(b, d, p)
    BY <1>4 DEF AnswerReplay
  <2>2. \A x \in answers' \ answers :
          /\ x = Answer(b, d, p, syncBatches[b].resultSnapshotId)
          /\ x.deviceId = d /\ x.payload = p
    BY <1>4 DEF AnswerReplay, Answer
  <2>3. QED
    BY <1>2, <1>3, <2>1, <2>2 DEF AnswersAreDurable
<1>5. ASSUME NEW c \in Calls, AnswerAfterPut(c)
      PROVE  AnswersAreDurable'
  <2>1. calls[c] \in CallRecords
    BY <1>5, ActiveRecords DEF AnswerAfterPut, ActivePhases, IInv
  <2>2. UNCHANGED database /\ HasReceipt(calls[c].batchId) /\ calls[c].batchId \in BatchIds
    BY <1>5, <2>1 DEF AnswerAfterPut, ReceiptMeanwhile, HasReceipt, CallRecords
  <2>3. \A x \in answers' \ answers :
          /\ x = Answer(calls[c].batchId, x.deviceId, x.payload,
                        syncBatches[calls[c].batchId].resultSnapshotId)
          /\ ReceiptAnswers(calls[c].batchId, x.deviceId, x.payload)
    BY <1>5 DEF AnswerAfterPut, Answer
  <2>4. QED
    BY <1>2, <1>3, <2>2, <2>3 DEF AnswersAreDurable
<1>6. ASSUME UNCHANGED <<database, answers>>
      PROVE  AnswersAreDurable'
  BY <1>3, <1>6 DEF AnswersAreDurable
<1>7. QED
  BY <1>1, <1>4, <1>5, <1>6
     DEF Next, vars, AcceptBatch, AcceptSnapshot, StartPut, StoreSidecar, AbandonCall,
         HeldAfterPut, RefuseMoved, HoldForRepair, ReleaseRepair, Crash

\* A call that goes on with the plan it had keeps it, as long as nothing is
\* committed.
SamePlan(x, y) ==
    /\ x.batchId = y.batchId
    /\ x.parentId = y.parentId
    /\ x.payload = y.payload
    /\ x.snapshotId = y.snapshotId
    /\ x.sequence = y.sequence
    /\ x.tree = y.tree

\* What a call planned stays true while the authority it planned on does not move.
LEMMA PlanKept ==
    ASSUME UNCHANGED database, NEW x, NEW y, SamePlan(x, y), Planned(y)
    PROVE  Planned(x)'
BY DEF SamePlan, Planned, Current, database, Accepted, ApplyOperations, RevisionsMatch,
       TreeOf, EmptyTree, OperationUnused, BatchKey

\* The calls that wait keep what they planned.
LEMMA CallsKept ==
    ASSUME IInv, UNCHANGED database,
           \A c \in Active' : c \in Active /\ SamePlan(calls'[c], calls[c])
    PROVE  CallsPlanned' /\ CallsDistinct'
<1>1. ASSUME NEW c \in Active' PROVE Planned(calls[c])'
  <2>1. PICK x, y : x = calls'[c] /\ y = calls[c]
    OBVIOUS
  <2>2. Planned(x)'
    BY <2>1, PlanKept DEF IInv, CallsPlanned
  <2>3. QED
    BY <2>1, <2>2 DEF Planned, Current, ApplyOperations, RevisionsMatch, OperationUnused
<1>2. CallsDistinct'
  BY DEF IInv, CallsDistinct, SamePlan
<1>3. QED
  BY <1>1, <1>2 DEF CallsPlanned

\* A call plans from the authority as it is: its plan is current.
LEMMA CallsStart ==
    ASSUME IInv, NEW c \in Calls, NEW kind \in CallKinds,
           NEW batchId \in BatchIds \cup {None}, NEW deviceId \in Devices,
           NEW parentId \in Accepted \cup {None}, NEW payload \in Payloads,
           StartPut(c, kind, batchId, deviceId, parentId, payload),
           payload.baseSnapshotId \in Accepted \cup {None},
           RevisionsMatch(payload),
           batchId # None => /\ payload.operationId # None
                             /\ OperationUnused(payload.operationId)
    PROVE  CallsPlanned' /\ CallsDistinct'
<1>1. PICK id \in SnapshotIds \ (Accepted \cup {calls[x].snapshotId : x \in Active}) :
        calls' = [calls EXCEPT ![c] =
            [phase |-> "putting", kind |-> kind, batchId |-> batchId,
             deviceId |-> deviceId, parentId |-> parentId, payload |-> payload,
             snapshotId |-> id, sequence |-> syncState.sequence + 1,
             tree |-> ApplyOperations(payload.changes, BatchKey(batchId, id))]]
  BY DEF StartPut
<1> DEFINE plan == [phase |-> "putting", kind |-> kind, batchId |-> batchId,
                    deviceId |-> deviceId, parentId |-> parentId, payload |-> payload,
                    snapshotId |-> id, sequence |-> syncState.sequence + 1,
                    tree |-> ApplyOperations(payload.changes, BatchKey(batchId, id))]
<1>2. UNCHANGED database /\ c \notin Active
  BY DEF StartPut
<1>3. Planned(plan)
  BY <1>1 DEF Planned, Current
<1>4. calls'[c] = plan /\ \A d \in Calls \ {c} : calls'[d] = calls[d]
  BY <1>1 DEF IInv, TypeOK
<1>5. \A d \in Active' : d = c \/ d \in Active
  BY <1>4 DEF Active
<1>6. ASSUME NEW d \in Active' PROVE Planned(calls[d])'
  <2>1. PICK x, y : x = calls'[d] /\ y = IF d = c THEN plan ELSE calls[d]
    OBVIOUS
  <2>2. SamePlan(x, y)
    BY <1>4, <2>1 DEF SamePlan, Active
  <2>3. Planned(y)
    BY <1>3, <1>5, <2>1 DEF IInv, CallsPlanned
  <2>4. Planned(x)'
    BY <1>2, <2>2, <2>3, PlanKept
  <2>5. QED
    BY <2>1, <2>4 DEF Planned, Current, ApplyOperations, RevisionsMatch, OperationUnused
<1>7. CallsDistinct'
  <2> SUFFICES ASSUME NEW d \in Active', NEW e \in Active',
                      calls'[d].snapshotId = calls'[e].snapshotId
               PROVE  d = e
    BY DEF CallsDistinct
  <2>1. plan.snapshotId = id /\ \A x \in Active : calls[x].snapshotId # id
    BY <1>1
  <2>2. QED
    BY <2>1, <1>4, <1>5 DEF IInv, CallsDistinct, Active
<1>8. QED
  BY <1>6, <1>7 DEF CallsPlanned

\* A transaction makes every other plan stale, and takes the id it used.
LEMMA CallsCommit ==
    ASSUME IInv, NEW c \in Calls, CommitTransaction(c)
    PROVE  CallsPlanned' /\ CallsDistinct'
<1> DEFINE call == calls[c]
           key == BatchKey(call.batchId, call.snapshotId)
<1> HIDE DEF call, key
<1>1. /\ c \in Active
      /\ call.snapshotId \in SnapshotIds \ Accepted
      /\ Accepted' = Accepted \cup {call.snapshotId}
  BY CommitFacts DEF call, key
<1>2. headId' = call.snapshotId /\ headId' \notin Accepted \cup {None}
  BY <1>1, NoneAssumption DEF CommitTransaction, WriteAuthority, call, Revisions
<1>3. \A d \in Active' : d \in Active /\ d # c /\ calls'[d] = calls[d]
  BY DEF CommitTransaction, IInv, TypeOK, Active, Idle, ActivePhases
<1>4. ASSUME NEW d \in Active' PROVE Planned(calls[d])'
  <2>1. /\ calls'[d].snapshotId \notin Accepted'
        /\ calls'[d].parentId \in Accepted' \cup {None}
        /\ calls'[d].payload.baseSnapshotId \in Accepted' \cup {None}
        /\ calls'[d].batchId # None => calls'[d].payload.operationId # None
    BY <1>1, <1>3 DEF IInv, CallsPlanned, CallsDistinct, Planned, call
  <2>2. calls'[d].parentId # headId'
    BY <1>2, <1>3 DEF IInv, CallsPlanned, Planned
  <2>3. QED
    BY <2>1, <2>2 DEF Planned
<1>5. CallsDistinct'
  BY <1>3 DEF IInv, CallsDistinct
<1>6. QED
  BY <1>4, <1>5 DEF CallsPlanned

\* Every step leaves the waiting calls planned and distinct.
LEMMA CallsStep == ASSUME IInv, [Next]_vars
                   PROVE  CallsPlanned' /\ CallsDistinct'
<1>1. ASSUME NEW c \in Calls, NEW b \in BatchIds, NEW d \in Devices,
             NEW p \in BatchPayloads, NEW parent \in Accepted \cup {None},
             AcceptBatch(c, b, d, parent, p)
      PROVE  CallsPlanned' /\ CallsDistinct'
  <2>1. /\ p \in Payloads
        /\ p.baseSnapshotId \in Accepted \cup {None}
        /\ p.operationId # None
    BY NoneAssumption DEF BatchPayloads, Payloads, Accepted
  <2>2. RevisionsMatch(p) /\ OperationUnused(p.operationId)
    BY <1>1 DEF AcceptBatch, PreviewBatch
  <2>3. "device" \in CallKinds
    BY DEF CallKinds
  <2>4. QED
    BY <1>1, <2>1, <2>2, <2>3, CallsStart DEF AcceptBatch
<1>2. ASSUME NEW c \in Calls, NEW kind \in CallKinds, NEW d \in Devices,
             NEW parent \in Accepted \cup {None}, NEW changes \in SUBSET Files,
             AcceptSnapshot(c, kind, d, parent, changes)
      PROVE  CallsPlanned' /\ CallsDistinct'
  <2> DEFINE p == BridgedPayload(parent, changes)
  <2>1. p \in Payloads /\ p.baseSnapshotId = parent /\ p.changes = changes
    BY BridgedPayloadType DEF BridgedPayload, Accepted
  <2>2. parent = headId
    BY <1>2 DEF AcceptSnapshot, StartPut
  <2>3. RevisionsMatch(p)
    BY <2>1, <2>2 DEF RevisionsMatch, IInv, AuthorityAgrees
  <2>4. QED
    BY <1>2, <2>1, <2>3, CallsStart DEF AcceptSnapshot
<1>3. ASSUME NEW c \in Calls, CommitTransaction(c)
      PROVE  CallsPlanned' /\ CallsDistinct'
  BY <1>3, CallsCommit
<1>4. ASSUME NEW c \in Calls, StoreSidecar(c)
      PROVE  UNCHANGED database /\ \A x \in Active' : x \in Active /\ SamePlan(calls'[x], calls[x])
  BY <1>4 DEF StoreSidecar, Active, ActivePhases, SamePlan, IInv, TypeOK
<1>5. ASSUME NEW c \in Calls,
             \/ AbandonCall(c) \/ AnswerAfterPut(c) \/ HeldAfterPut(c) \/ RefuseMoved(c)
             \/ \E b \in BatchIds, d \in Devices, p \in BatchPayloads : AnswerReplay(c, b, d, p)
      PROVE  UNCHANGED database /\ \A x \in Active' : x \in Active /\ SamePlan(calls'[x], calls[x])
  BY <1>5 DEF AbandonCall, AnswerAfterPut, HeldAfterPut, RefuseMoved, AnswerReplay,
              Active, ActivePhases, SamePlan, Idle, Moved, IInv, TypeOK
<1>6. CASE HoldForRepair \/ ReleaseRepair \/ Crash \/ UNCHANGED vars
  <2>1. UNCHANGED database /\ \A x \in Active' : x \in Active /\ SamePlan(calls'[x], calls[x])
    BY <1>6 DEF HoldForRepair, ReleaseRepair, Crash, vars, Active, ActivePhases,
                SamePlan, Idle
  <2>2. QED
    BY <2>1, CallsKept
<1>7. QED
  BY <1>1, <1>2, <1>3, <1>4, <1>5, <1>6, CallsKept DEF Next

\* The parts of the invariant that speak of the database alone.
LEMMA DatabaseKept ==
    ASSUME IInv, UNCHANGED database
    PROVE  /\ AuthorityAgrees' /\ SnapshotsRooted' /\ AcceptedIsAncestry'
           /\ ReceiptsGrounded' /\ ReceiptsLinear' /\ ReceiptsComplete' /\ NoLostUpdate'
<1>1. AuthorityAgrees' /\ SnapshotsRooted'
  BY DEF IInv, database, AuthorityAgrees, SnapshotsRooted, Accepted, TreeOf, EmptyTree
<1>2. AcceptedIsAncestry'
  BY DEF IInv, database, AcceptedIsAncestry, Accepted, Lineage, ParentClosed
<1>3. ReceiptsGrounded' /\ ReceiptsComplete'
  BY DEF IInv, database, ReceiptsGrounded, ReceiptsComplete, Accepted, AcceptedBatches
<1>4. ReceiptsLinear'
  BY DEF IInv, database, ReceiptsLinear, AcceptedBatches
<1>5. NoLostUpdate'
  BY DEF IInv, database, NoLostUpdate, AcceptedBatches, TreeOf, EmptyTree
<1>6. QED
  BY <1>1, <1>2, <1>3, <1>4, <1>5

\* The invariant holds in the beginning.
LEMMA InitIInv == Init => IInv
<1> SUFFICES ASSUME Init PROVE IInv
  OBVIOUS
<1>1. TypeOK
  <2>1. syncEntities \in Trees
    BY DEF Init, Trees, Revisions
  <2>2. snapshots \in [SnapshotIds -> SnapshotRows \cup {None}]
    BY <2>1 DEF Init, SnapshotRows
  <2>3. QED
    BY <2>1, <2>2 DEF Init, TypeOK
<1>2. headId # None => /\ snapshots[headId] = [parentId |-> None, tree |-> syncEntities]
                       /\ snapshots[headId] \in SnapshotRows
  BY <1>1 DEF Init, TypeOK, SnapshotRows
<1>3. Accepted = {headId} \ {None}
  <2>1. headId # None => headId \in SnapshotIds /\ snapshots[headId] # None
    BY <1>2, NoneAssumption DEF Init
  <2>2. None \notin SnapshotIds
    BY NoneAssumption DEF Revisions
  <2>3. \A s \in SnapshotIds \ {headId} : snapshots[s] = None
    BY DEF Init
  <2>4. QED
    BY <2>1, <2>2, <2>3 DEF Accepted
<1>4. AcceptedBatches = {} /\ Active = {} /\ answers = {}
  BY DEF Init, AcceptedBatches, Active, Idle, ActivePhases
<1>5. AuthorityAgrees /\ SnapshotsRooted
  BY <1>2, <1>3 DEF Init, AuthorityAgrees, SnapshotsRooted, TreeOf, EmptyTree
<1>6. AcceptedIsAncestry
  <2>1. headId # None => ParentClosed({headId})
    BY <1>2 DEF ParentClosed
  <2>2. headId # None => Lineage(headId) = {headId}
    <3>1. headId # None => {headId} \in SUBSET SnapshotIds /\ headId \in SnapshotIds
      BY DEF Init
    <3>2. headId # None => headId \in Lineage(headId)
      BY <3>1 DEF Lineage
    <3>3. headId # None => Lineage(headId) \subseteq {headId}
      BY <2>1, <3>1 DEF Lineage
    <3>4. QED
      BY <3>2, <3>3
  <2>3. QED
    BY <2>2, <1>3 DEF AcceptedIsAncestry
<1>7. ReceiptsGrounded /\ ReceiptsLinear /\ ReceiptsComplete /\ NoLostUpdate
  BY <1>4 DEF Init, ReceiptsGrounded, ReceiptsLinear, ReceiptsComplete, NoLostUpdate
<1>8. AnswersAreDurable /\ CallsPlanned /\ CallsDistinct
  BY <1>4 DEF AnswersAreDurable, CallsPlanned, CallsDistinct
<1>9. QED
  BY <1>1, <1>5, <1>6, <1>7, <1>8 DEF IInv

\* The invariant is inductive.
LEMMA IInvStep == IInv /\ [Next]_vars => IInv'
<1> SUFFICES ASSUME IInv, [Next]_vars PROVE IInv'
  OBVIOUS
<1>1. TypeOK'
  BY TypeStep DEF IInv
<1>2. AnswersAreDurable' /\ CallsPlanned' /\ CallsDistinct'
  BY <1>1, AnswersStep, CallsStep
<1>3. CASE UNCHANGED database
  BY <1>1, <1>2, <1>3, DatabaseKept DEF IInv
<1>4. ASSUME NEW c \in Calls, CommitTransaction(c)
      PROVE  IInv'
  BY <1>1, <1>2, <1>4, RootedStep, AncestryStep, ReceiptsStep, NoLostUpdateStep DEF IInv
<1>5. QED
  BY <1>3, <1>4, DatabaseSteps

\* The invariant behind the theorems below holds in every reachable state.
THEOREM Invariance == Spec => []IInv
BY InitIInv, IInvStep, PTL DEF Spec

-----------------------------------------------------------------------------
(* What the write authority guarantees *)

\* The head, the materialized tree and the sequence never disagree.
THEOREM AuthorityAgreement == Spec => []AuthorityAgrees
<1>1. IInv => AuthorityAgrees
  BY DEF IInv
<1>2. QED
  BY <1>1, Invariance, PTL

\* Every accepted snapshot stays an ancestor of the head: no commit forks.
THEOREM AcceptedAncestry == Spec => []AcceptedIsAncestry
<1>1. IInv => AcceptedIsAncestry
  BY DEF IInv
<1>2. QED
  BY <1>1, Invariance, PTL

\* The receipts form one line from the first to the head.
THEOREM ReceiptsLine == Spec => []ReceiptsLinear
<1>1. IInv => ReceiptsLinear
  BY DEF IInv
<1>2. QED
  BY <1>1, Invariance, PTL

\* An accepted batch changes what it says, replacing what its author saw.
THEOREM UpdatesKept == Spec => []NoLostUpdate
<1>1. IInv => NoLostUpdate
  BY DEF IInv
<1>2. QED
  BY <1>1, Invariance, PTL

\* What accept answered stays recorded, whoever asks again and whatever fails.
THEOREM AnswersDurable == Spec => []AnswersAreDurable
<1>1. IInv => AnswersAreDurable
  BY DEF IInv
<1>2. QED
  BY <1>1, Invariance, PTL

\* No operation is part of two accepted batches.
THEOREM OperationsOnce == Spec => []OperationAcceptedOnce
<1>1. IInv => OperationAcceptedOnce
  BY DEF IInv, ReceiptsGrounded, OperationAcceptedOnce, AcceptedBatches
<1>2. QED
  BY <1>1, Invariance, PTL

\* The accepted history is one line up to the head, with every operation once.
THEOREM OneLine == Spec => []HistoryIsOneLine
BY AcceptedAncestry, ReceiptsLine, OperationsOnce, PTL DEF HistoryIsOneLine

\* A caller that is told the head moved has not been accepted.
THEOREM MovedUnaccepted == Spec => [][MovedMeansUnaccepted]_vars
<1>1. ASSUME TypeOK, [Next]_vars, NEW c \in Calls,
             calls[c].phase = "stored", calls'[c].phase = "moved"
      PROVE  ~HasReceipt(calls[c].batchId)
  <2>1. ASSUME NEW x \in Calls, RefuseMoved(x)
        PROVE  ~HasReceipt(calls[c].batchId)
    BY <1>1, <2>1 DEF RefuseMoved, MayWrite, ReceiptMeanwhile, TypeOK
  <2>2. ~ UNCHANGED calls
    BY <1>1
  <2>3. ~ \E x \in Calls : calls' = [calls EXCEPT ![x] = Idle]
    BY <1>1 DEF Idle, TypeOK
  <2>4. ~ \E x \in Calls : StoreSidecar(x)
    BY <1>1 DEF StoreSidecar, TypeOK
  <2>5. ~ Crash
    BY <1>1 DEF Crash, Idle
  <2>6. ~ \E x \in Calls, kind \in CallKinds, b \in BatchIds \cup {None}, d \in Devices,
             parent \in Accepted \cup {None} : \E p : StartPut(x, kind, b, d, parent, p)
    BY <1>1 DEF StartPut, TypeOK
  <2>7. QED
    BY <2>1, <2>2, <2>3, <2>4, <2>5, <2>6, <1>1
       DEF Next, vars, AcceptBatch, AcceptSnapshot, AnswerReplay, AbandonCall,
           AnswerAfterPut, HeldAfterPut, CommitTransaction, HoldForRepair, ReleaseRepair,
           CallKinds
<1>2. TypeOK /\ [Next]_vars => [MovedMeansUnaccepted]_vars
  BY <1>1 DEF MovedMeansUnaccepted
<1>3. QED
  BY <1>2, TypeCorrect, PTL DEF Spec

\* What accept answers, a receipt or "head moved", is true and stays true.
THEOREM AnswersStand == Spec => AnswersHold
BY AnswersDurable, MovedUnaccepted, PTL DEF AnswersHold

-----------------------------------------------------------------------------
(* OperationCommitter implements AcceptedHistory: under the refinement      *)
(* mapping History, which reads the abstract history off the receipts, a    *)
(* transaction is one atomic Accept and every other step is invisible.      *)

Receipts == [n \in 1..syncState.sequence |-> HistoryEntry(ReceiptAt(n))]

\* t is a sequence of n+1 elements that begins with the n elements of s.
Continues(t, s, n) ==
    /\ n \in Nat
    /\ s = [i \in 1..n |-> s[i]] /\ t = [i \in 1..(n+1) |-> t[i]]
    /\ \A i \in 1..n : t[i] = s[i]

\* Then it is s with one element appended.
LEMMA AppendOne ==
    ASSUME NEW n, NEW s, NEW t, Continues(t, s, n)
    PROVE  t = Append(s, t[n+1])
<1> USE DEF Continues
<1> DEFINE S == {t[i] : i \in 1..(n+1)}
<1>1. s \in [1..n -> S] /\ t \in [1..(n+1) -> S]
  <2>1. \A i \in 1..(n+1) : t[i] \in S
    OBVIOUS
  <2>2. \A i \in 1..n : i \in 1..(n+1) /\ s[i] \in S
    BY <2>1
  <2>3. QED
    BY <2>1, <2>2
<1> HIDE DEF S
<1>2. s \in Seq(S) /\ t \in Seq(S)
  <2>1. \A m \in Nat : [1..m -> S] \in {[1..k -> S] : k \in Nat}
    OBVIOUS
  <2>2. \A m \in Nat : [1..m -> S] \subseteq Seq(S)
    BY <2>1, SeqDef, Zenon
  <2>3. n \in Nat /\ n + 1 \in Nat
    OBVIOUS
  <2>4. QED
    BY <1>1, <2>2, <2>3, Zenon
<1>3. Len(s) = n /\ Len(t) = n + 1
  BY <1>1, <1>2, LenProperties
<1>4. t[n+1] \in S
  BY <1>1
<1>5. /\ Append(s, t[n+1]) \in Seq(S)
      /\ Len(Append(s, t[n+1])) = n + 1
      /\ \A i \in 1..n : Append(s, t[n+1])[i] = s[i]
      /\ Append(s, t[n+1])[n+1] = t[n+1]
  BY <1>2, <1>3, <1>4, AppendProperties
<1>6. \A i \in 1..Len(t) : t[i] = Append(s, t[n+1])[i]
  <2>1. \A i \in 1..Len(t) : i \in 1..n \/ i = n + 1
    BY <1>3
  <2>2. \A i \in 1..n : t[i] = Append(s, t[n+1])[i]
    BY <1>5, Zenon
  <2>3. QED
    BY <2>1, <2>2, <1>5, Zenon
<1>7. QED
  BY <1>2, <1>3, <1>5, <1>6, SeqEqual

\* A sequence number identifies its receipt.
LEMMA ReceiptUnique ==
    ASSUME IInv, NEW n \in 1..syncState.sequence
    PROVE  /\ ReceiptAt(n) \in AcceptedBatches
           /\ syncBatches[ReceiptAt(n)].sequence = n
           /\ \A b \in AcceptedBatches : syncBatches[b].sequence = n => b = ReceiptAt(n)
<1>1. \E b \in AcceptedBatches : syncBatches[b].sequence = n
  BY DEF IInv, ReceiptsComplete
<1>2. ReceiptAt(n) \in AcceptedBatches /\ syncBatches[ReceiptAt(n)].sequence = n
  BY <1>1 DEF ReceiptAt
<1>3. QED
  BY <1>2 DEF IInv, ReceiptsLinear

\* A transaction appends its receipt to the history and applies it to the tree.
LEMMA CommitAccepts ==
    ASSUME IInv, IInv', NEW c \in Calls, CommitTransaction(c)
    PROVE  History!Next
<1> DEFINE call == calls[c]
           key == BatchKey(call.batchId, call.snapshotId)
           seen == [f \in call.payload.changes |-> syncEntities[f]]
           last == syncState.sequence
<1> HIDE DEF call, key
<1>1. /\ call \in CallRecords
      /\ Planned(call) /\ Current(call)
      /\ key \in Revisions \ AcceptedBatches
      /\ syncBatches' = [syncBatches EXCEPT ![key] =
                            [deviceId |-> call.deviceId, payload |-> call.payload,
                             parentId |-> call.parentId,
                             resultSnapshotId |-> call.snapshotId,
                             sequence |-> call.sequence]]
      /\ AcceptedBatches' = AcceptedBatches \cup {key}
  BY CommitFacts DEF call, key
<1>2. /\ last \in Nat
      /\ syncState'.sequence = last + 1
      /\ call.sequence = last + 1
      /\ syncEntities' = call.tree
      /\ call.payload.changes \in SUBSET Files
  BY <1>1 DEF IInv, TypeOK, Current, CommitTransaction, WriteAuthority, call,
              CallRecords, Payloads
<1>3. syncBatches'[key].sequence = last + 1 /\ syncBatches'[key].payload = call.payload
  BY <1>1, <1>2 DEF IInv, TypeOK
<1>4. \A b \in AcceptedBatches : b # key /\ syncBatches'[b] = syncBatches[b]
  BY <1>1 DEF IInv, TypeOK
<1>5. ASSUME NEW n \in 1..last
      PROVE  Receipts'[n] = Receipts[n]
  <2>1. PICK b : /\ b = ReceiptAt(n) /\ b \in AcceptedBatches
                 /\ syncBatches[b].sequence = n
    BY <1>2, ReceiptUnique
  <2>2. \A x \in AcceptedBatches' : syncBatches'[x].sequence = n => x = b
    BY <2>1, <1>1, <1>2, <1>3, <1>4, ReceiptUnique
  <2>3. ReceiptAt(n)' = b
    BY <2>1, <2>2, <1>1, <1>4 DEF ReceiptAt
  <2>4. Receipts'[n] = [key |-> b,
                        seen |-> [f \in syncBatches[b].payload.changes |->
                                    NextTreeOf(syncBatches[b].payload.baseSnapshotId)[f]]]
    <3>1. n \in 1..syncState'.sequence
      BY <1>2
    <3>2. PICK x : x = ReceiptAt(n)'
      OBVIOUS
    <3>3. Receipts'[n] = [key |-> x,
                          seen |-> [f \in syncBatches'[x].payload.changes |->
                                      NextTreeOf(syncBatches'[x].payload.baseSnapshotId)[f]]]
      BY <3>1, <3>2 DEF Receipts, HistoryEntry, NextTreeOf, TreeOf, EmptyTree
    <3>4. QED
      BY <3>2, <3>3, <2>1, <2>3, <1>4
  <2>5. NextTreeOf(syncBatches[b].payload.baseSnapshotId)
          = TreeOf(syncBatches[b].payload.baseSnapshotId)
    BY <2>1, TreesKept DEF IInv, ReceiptsGrounded
  <2>6. QED
    BY <2>1, <2>4, <2>5 DEF Receipts, HistoryEntry
<1>6. Receipts'[last + 1] = [key |-> key, seen |-> seen]
  <2>1. \A x \in AcceptedBatches : syncBatches'[x].sequence # last + 1
    BY <1>2, <1>4 DEF IInv, ReceiptsLinear
  <2>2. PICK n : n = last + 1
    OBVIOUS
  <2>3. ReceiptAt(n)' = key
    BY <2>1, <2>2, <1>1, <1>3 DEF ReceiptAt
  <2>4. Receipts'[n] = [key |-> key,
                        seen |-> [f \in call.payload.changes |->
                                    NextTreeOf(call.payload.baseSnapshotId)[f]]]
    <3>1. n \in 1..syncState'.sequence
      BY <2>2, <1>2
    <3>2. PICK b : b = ReceiptAt(n)'
      OBVIOUS
    <3>3. Receipts'[n] = [key |-> b,
                          seen |-> [f \in syncBatches'[b].payload.changes |->
                                      NextTreeOf(syncBatches'[b].payload.baseSnapshotId)[f]]]
      BY <3>1, <3>2 DEF Receipts, HistoryEntry, NextTreeOf, TreeOf, EmptyTree
    <3>4. QED
      BY <3>2, <3>3, <2>3, <1>3
  <2>5. NextTreeOf(call.payload.baseSnapshotId) = TreeOf(call.payload.baseSnapshotId)
    BY <1>1, TreesKept DEF Planned
  <2>6. \A f \in call.payload.changes :
          syncEntities[f] = TreeOf(call.payload.baseSnapshotId)[f]
    BY <1>1 DEF Current, RevisionsMatch
  <2>7. QED
    BY <2>2, <2>4, <2>5, <2>6
<1>7. Receipts' = Append(Receipts, [key |-> key, seen |-> seen])
  <2>1. PICK n, s, t : n = last /\ s = Receipts /\ t = Receipts'
    OBVIOUS
  <2>2. s = [i \in 1..n |-> s[i]] /\ t = [i \in 1..(n+1) |-> t[i]]
    BY <2>1, <1>2 DEF Receipts
  <2>3. n \in Nat /\ \A i \in 1..n : t[i] = s[i]
    BY <2>1, <1>2, <1>5
  <2>4. Continues(t, s, n)
    BY ONLY <2>2, <2>3 DEF Continues
  <2>5. t = Append(s, t[n+1])
    BY ONLY <2>4, AppendOne
  <2>6. QED
    BY <2>1, <2>5, <1>6
<1>8. \A n \in DOMAIN Receipts : Receipts[n].key # key
  BY <1>1, <1>2, ReceiptUnique DEF Receipts, HistoryEntry
<1>9. syncEntities' = [f \in Files |-> IF f \in DOMAIN seen THEN key ELSE syncEntities[f]]
  BY <1>1, <1>2 DEF Current, ApplyOperations, key
<1>10. History!Accept(key, seen)
  BY <1>7, <1>8, <1>9 DEF History!Accept, Receipts
<1>11. QED
  BY <1>1, <1>2, <1>10 DEF History!Next

\* Each accepted batch takes effect in one indivisible step, in receipt order.
THEOREM Refinement == Spec => AtomicHistory
<1>1. Init => History!Init
  <2> SUFFICES ASSUME Init PROVE History!Init
    OBVIOUS
  <2>1. Receipts = <<>>
    BY DEF Init, Receipts
  <2>2. QED
    BY <2>1 DEF Init, History!Init, Receipts, Revisions
<1>2. IInv /\ IInv' /\ [Next]_vars => [History!Next]_<<Receipts, syncEntities>>
  <2> SUFFICES ASSUME IInv, IInv', [Next]_vars
               PROVE  [History!Next]_<<Receipts, syncEntities>>
    OBVIOUS
  <2>1. CASE UNCHANGED database
    BY <2>1 DEF database, Receipts, HistoryEntry, ReceiptAt, AcceptedBatches, TreeOf,
                EmptyTree
  <2>2. ASSUME NEW c \in Calls, CommitTransaction(c)
        PROVE  History!Next
    BY <2>2, CommitAccepts
  <2>3. QED
    BY <2>1, <2>2, DatabaseSteps
<1>3. QED
  BY <1>1, <1>2, Invariance, PTL DEF Spec, AtomicHistory, History!Spec, Receipts
=============================================================================
