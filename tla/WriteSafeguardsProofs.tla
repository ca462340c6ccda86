------------------------ MODULE WriteSafeguardsProofs ------------------------
(***************************************************************************)
(* Proofs about WriteSafeguards for any devices, files, requests, policy   *)
(* thresholds and length of the history: the types, that risky changes     *)
(* enter the history only on the grounds their risk permits, and that an   *)
(* approval is carried out once and truly.                                 *)
(*                                                                         *)
(* A request is assessed before its PUT and commits after it. The history  *)
(* only grows, so what was assessed against the tree of a parent stays     *)
(* true of that parent (CallsGrounded), and the head is that parent when   *)
(* the request commits. A proposal is accepted at the one place its parent *)
(* names (HistoryGrounded), hence once.                                    *)
(***************************************************************************)
EXTENDS WriteSafeguards, Decisions, TLAPS, SequenceTheorems, FiniteSetTheorems,
        WellFoundedInduction

\* A change that may enter the history without a decision.
Permitted(author, via, before, after) ==
    \/ before = EmptyTree
    \/ ~Suspicious(before, after)
    \/ via = "trusted_window" /\ ~ReviewOnly(author, before, after)

\* Proposal q is what its row says.
IsProposal(q, author, parent, tree) ==
    /\ q \in QuarantineIds
    /\ quarantines[q] \in QuarantineRows
    /\ quarantines[q].author = author
    /\ quarantines[q].parent = parent
    /\ quarantines[q].tree = tree

\* What a request that awaits its PUT was allowed on still holds of its parent.
CallGrounded(call) ==
    /\ call.parent <= head
    /\ call.via \in {"policy", "trusted_window"} =>
           Permitted(call.author, call.via, TreeOf(call.parent), call.tree)
    /\ IF call.via = "approval"
       THEN IsProposal(call.proposal, call.author, call.parent, call.tree)
       ELSE call.proposal = None

CallsGrounded ==
    \A c \in Calls : /\ calls[c].phase = "putting" => CallGrounded(calls[c])
                     /\ calls[c].phase = "reading" => calls[c].proposal = None

\* An accepted proposal stands where its parent says.
HistoryGrounded ==
    \A n \in 1..head :
        accepted[n].proposal # None =>
            /\ accepted[n].proposal \in QuarantineIds
            /\ quarantines[accepted[n].proposal] \in QuarantineRows
            /\ quarantines[accepted[n].proposal].parent = n - 1

\* The head and the grounds it was written on.
HeadGrounded ==
    latest # None =>
        /\ head > 0
        /\ latest.via \in {"policy", "trusted_window"} =>
               Permitted(latest.author, latest.via, Replaced, Written.tree)
        /\ latest.via = "approval" =>
               IsProposal(Written.proposal, latest.author, head - 1, Written.tree)

\* An import is always reviewed, so no approval opens a window for the importer.
TrustGrounded ==
    /\ \A q \in QuarantineIds :
          quarantines[q] # None /\ quarantines[q].author = Seafile => quarantines[q].reviewOnly
    /\ \A c \in Calls : calls[c] # Idle /\ calls[c].trust => calls[c].author \in Devices

Grounded ==
    /\ TypeOK
    /\ TrustGrounded
    /\ CallsGrounded /\ HistoryGrounded /\ HeadGrounded
    /\ ApprovedWasAccepted

-----------------------------------------------------------------------------
(* Types *)

\* The empty tree, from which a history starts.
LEMMA Empty == EmptyTree \in Trees
BY DEF EmptyTree, Trees

\* A commit leaves the history before it as it was.
LEMMA HistoryGrows ==
    ASSUME TypeOK, NEW row \in SnapshotRows, accepted' = Append(accepted, row)
    PROVE  /\ accepted' \in Seq(SnapshotRows)
           /\ head \in Nat /\ head' = head + 1
           /\ \A n \in 1..head : accepted'[n] = accepted[n]
           /\ accepted'[head + 1] = row
BY AppendProperties DEF TypeOK, head

\* The tree of any snapshot, the empty one before the first included.
LEMMA TreeTypes == ASSUME TypeOK PROVE head \in Nat /\ \A n \in 0..head : TreeOf(n) \in Trees
<1>1. head \in Nat /\ \A n \in 1..head : accepted[n] \in SnapshotRows
  BY ElementOfSeq, LenProperties DEF TypeOK, head
<1> QED
  BY <1>1, Empty DEF TreeOf, SnapshotRows

\* Types in the beginning.
LEMMA TypeInit == Init => TypeOK
BY EmptySeq DEF Init, TypeOK

\* The two updates of the quarantine table: statuses change, or a row is added.
Statuses == {"pending", "expired", "approved", "rejected", "stale"}
StatusUpdate ==
    /\ quarantines' \in [QuarantineIds -> QuarantineRows \cup {None}]
    /\ \A q \in QuarantineIds :
          \/ quarantines'[q] = quarantines[q]
          \/ /\ quarantines[q] # None
             /\ \E s \in Statuses : quarantines'[q] = [quarantines[q] EXCEPT !.status = s]

\* What the proofs use of the table from one state to the next: rows stay what
\* they are about, and a new row of the importer is for review only.
RowsKept ==
    /\ quarantines' \in [QuarantineIds -> QuarantineRows \cup {None}]
    /\ \A q \in QuarantineIds :
          IF quarantines[q] # None
          THEN /\ quarantines'[q] \in QuarantineRows
               /\ quarantines'[q].author = quarantines[q].author
               /\ quarantines'[q].parent = quarantines[q].parent
               /\ quarantines'[q].tree = quarantines[q].tree
               /\ quarantines'[q].reviewOnly = quarantines[q].reviewOnly
          ELSE quarantines'[q] # None /\ quarantines'[q].author = Seafile
                   => quarantines'[q].reviewOnly

\* What a proposal asks for does not change with its status.
LEMMA StatusUpdateKeeps == ASSUME TypeOK, StatusUpdate PROVE RowsKept
BY DEF TypeOK, StatusUpdate, RowsKept, Statuses, QuarantineRows

\* A new head makes the proposals of another parent stale.
LEMMA SupersededUpdates ==
    ASSUME TypeOK, NEW parent, quarantines' = Superseded(parent)
    PROVE  StatusUpdate
BY DEF TypeOK, Superseded, Undecided, StatusUpdate, Statuses, QuarantineRows

\* A decision sets the status of one row.
LEMMA RowUpdates ==
    ASSUME TypeOK, NEW q \in QuarantineIds, NEW s \in Statuses, quarantines[q] # None,
           quarantines' = [quarantines EXCEPT ![q].status = s]
    PROVE  StatusUpdate
BY DEF TypeOK, StatusUpdate, Statuses, QuarantineRows

\* Every step keeps the types.
LEMMA TypeNext == Grounded /\ [Next]_vars => TypeOK'
<1> SUFFICES ASSUME Grounded, [Next]_vars PROVE TypeOK'
  OBVIOUS
<1>t. TypeOK
  BY DEF Grounded
<1> USE <1>t, TreeTypes DEF TypeOK
<1>u. ASSUME StatusUpdate PROVE quarantines' \in [QuarantineIds -> QuarantineRows \cup {None}]
  BY <1>u DEF StatusUpdate
<1>i. ASSUME NEW c \in Calls, calls' = [calls EXCEPT ![c] = Idle]
      PROVE  calls' \in [Calls -> CallRows \cup {Idle}]
  BY <1>i
<1>p. ASSUME NEW c \in Calls, calls[c] # Idle PROVE calls[c] \in CallRows
  BY <1>p
<1>a. ASSUME NEW c \in Calls, calls[c] # Idle, Accept(calls[c])
      PROVE  /\ accepted' \in Seq(SnapshotRows)
             /\ latest' \in [author : Authors, via : Grounds] \cup {None}
  <2>1. [tree |-> calls[c].tree, proposal |-> calls[c].proposal] \in SnapshotRows
    BY <1>a, <1>p DEF CallRows, SnapshotRows
  <2> QED
    BY <2>1, <1>a, <1>p, HistoryGrows DEF Accept, CallRows
<1>g. ASSUME NEW c \in Calls, Putting(c, {"approval"})
      PROVE  /\ calls[c] \in CallRows
             /\ IsProposal(calls[c].proposal, calls[c].author, calls[c].parent, calls[c].tree)
             /\ calls[c].trust => calls[c].author \in Devices
  BY <1>g DEF Putting, Grounded, CallsGrounded, CallGrounded, TrustGrounded
<1>1. ASSUME NEW c \in Calls, NEW author \in Authors, NEW tree \in Trees,
             Begin(c, author, tree)
      PROVE  TypeOK'
  BY <1>1 DEF Begin, CallRows, Grounds
<1>2. ASSUME NEW c \in Calls, NEW d \in Devices, NEW n \in 1..head, BeginRestore(c, d, n)
      PROVE  TypeOK'
  BY <1>2 DEF BeginRestore, CallRows, Grounds, Authors
<1>3. ASSUME NEW c \in Calls, RefuseLocked(c) \/ Fail(c) \/ ApproveFails(c) PROVE TypeOK'
  BY <1>3, <1>i DEF RefuseLocked, Fail, ApproveFails
<1>4. ASSUME NEW c \in Calls, Allow(c) PROVE TypeOK'
  <2>1. Authorization(calls[c].author, calls[c].tree) \in Grounds \cup {"quarantine"}
    BY DEF Authorization, Grounds
  <2>2. calls[c] \in CallRows
    BY <1>4, <1>p DEF Allow
  <2>3. ASSUME NEW via \in Grounds
        PROVE  [calls[c] EXCEPT !.phase = "putting", !.via = via] \in CallRows
    BY <2>2, <2>3 DEF CallRows
  <2> QED
    BY <2>1, <2>3, <1>4 DEF Allow
<1>5. ASSUME NEW c \in Calls, Hold(c) PROVE TypeOK'
  <2>1. calls[c] \in CallRows
    BY <1>5, <1>p DEF Hold
  <2>2. ASSUME NEW reviewOnly \in BOOLEAN
        PROVE  [author |-> calls[c].author, parent |-> calls[c].parent,
                tree |-> calls[c].tree, reviewOnly |-> reviewOnly,
                status |-> "pending"] \in QuarantineRows
    BY <2>1 DEF CallRows, QuarantineRows
  <2>3. ReviewOnly(calls[c].author, TreeOf(head), calls[c].tree) \in BOOLEAN
    BY DEF ReviewOnly
  <2>4. quarantines' \in [QuarantineIds -> QuarantineRows \cup {None}]
    BY <2>2, <2>3, <1>5 DEF Hold
  <2> QED
    BY <2>4, <1>5, <1>i DEF Hold
<1>6. ASSUME NEW c \in Calls, Commit(c) PROVE TypeOK'
  <2>1. quarantines' = quarantines \/ StatusUpdate
    BY <1>6, SupersededUpdates DEF Commit
  <2> QED
    BY <2>1, <1>6, <1>i, <1>a, <1>u DEF Commit, Putting
<1>7. ASSUME NEW c \in Calls, NEW q \in QuarantineIds, NEW trust \in BOOLEAN,
             BeginApprove(c, q, trust)
      PROVE  TypeOK'
  <2>1. quarantines[q] # None /\ quarantines[q] \in QuarantineRows
    BY <1>7 DEF BeginApprove, Pending
  <2>2. quarantines' = quarantines \/ StatusUpdate
    BY <2>1, <1>7, RowUpdates, "stale" \in Statuses DEF BeginApprove, Statuses
  <2>3. calls' \in [Calls -> CallRows \cup {Idle}]
    BY <2>1, <1>7 DEF BeginApprove, CallRows, QuarantineRows, Grounds
  <2> QED
    BY <2>2, <2>3, <1>7, <1>u DEF BeginApprove
<1>8. ASSUME NEW c \in Calls, FinishApprove(c) PROVE TypeOK'
  <2>1. /\ calls[c] \in CallRows /\ calls[c].proposal \in QuarantineIds
        /\ quarantines[calls[c].proposal] \in QuarantineRows
        /\ calls[c].trust => calls[c].author \in Devices
    BY <1>8, <1>g DEF FinishApprove, IsProposal
  <2>2. /\ Superseded(calls[c].parent) \in [QuarantineIds -> QuarantineRows \cup {None}]
        /\ Superseded(calls[c].parent)[calls[c].proposal] \in QuarantineRows
    BY <2>1 DEF Superseded, Undecided, QuarantineRows
  <2>3. \A row \in QuarantineRows : [row EXCEPT !.status = "approved"] \in QuarantineRows
    BY DEF QuarantineRows
  <2>4. quarantines' \in [QuarantineIds -> QuarantineRows \cup {None}]
    BY <2>1, <2>2, <2>3, <1>8 DEF FinishApprove
  <2> QED
    BY <2>1, <2>4, <1>8, <1>i, <1>a DEF FinishApprove, Putting
<1>9. ASSUME NEW c \in Calls, ApproveMoved(c) PROVE TypeOK'
  <2>1. /\ calls[c].proposal \in QuarantineIds
        /\ quarantines[calls[c].proposal] \in QuarantineRows
    BY <1>9, <1>g DEF ApproveMoved, IsProposal
  <2>2. StatusUpdate
    BY <2>1, <1>9, NullAssumption, RowUpdates DEF ApproveMoved, Statuses
  <2> QED
    BY <2>2, <1>9, <1>i, <1>u DEF ApproveMoved
<1>10. ASSUME NEW q \in QuarantineIds, ApproveExpired(q) \/ Reject(q) \/ Expire(q) PROVE TypeOK'
  <2>1. StatusUpdate
    BY <1>10, RowUpdates DEF ApproveExpired, Reject, Expire, Undecided, Pending, Statuses
  <2> QED
    BY <2>1, <1>10, <1>u DEF ApproveExpired, Reject, Expire
<1>11. CASE List
  <2>1. StatusUpdate
    BY <1>11 DEF List, StatusUpdate, Undecided, Pending, Statuses, QuarantineRows
  <2> QED
    BY <2>1, <1>11, <1>u DEF List
<1>12. CASE SetLock \/ EndMaintenance
  BY <1>12 DEF SetLock, EndMaintenance
<1>13. ASSUME NEW d \in Devices, StartMaintenance(d) PROVE TypeOK'
  BY <1>13 DEF StartMaintenance
<1>14. CASE Crash
  <2>1. calls' \in [Calls -> CallRows \cup {Idle}] /\ UNCHANGED <<writeLocked, trustedDevice>>
    BY <1>14 DEF Crash
  <2>2. CASE UNCHANGED <<accepted, latest, quarantines>>
    BY <2>1, <2>2
  <2>3. ASSUME NEW c \in Calls, Putting(c, {"approval"}), Accept(calls[c]),
               quarantines' = Superseded(calls[c].parent)
        PROVE  TypeOK'
    <3>1. quarantines' \in [QuarantineIds -> QuarantineRows \cup {None}]
      BY <2>3, <1>u, SupersededUpdates
    <3> QED
      BY <2>1, <2>3, <3>1, <1>a DEF Putting
  <2> QED
    BY <1>14, <2>2, <2>3 DEF Crash
<1>15. CASE UNCHANGED vars
  BY <1>15 DEF vars
<1> QED
  BY <1>1, <1>2, <1>3, <1>4, <1>5, <1>6, <1>7, <1>8, <1>9, <1>10, <1>11, <1>12, <1>13,
     <1>14, <1>15 DEF Next

-----------------------------------------------------------------------------
(* The history and the table from one state to the next *)

\* Only an accept changes the history, and it stands on the head it was made for.
Committed ==
    \/ UNCHANGED <<accepted, latest>>
    \/ \E c \in Calls : Putting(c, Grounds) /\ HeadUnmoved(calls[c]) /\ Accept(calls[c])

\* The history changes only in the transaction, or as the database is restored.
LEMMA CommitsOnly == Grounded /\ [Next]_vars => Committed
<1> SUFFICES ASSUME Grounded, [Next]_vars PROVE Committed
  OBVIOUS
<1>1. \A c, author, tree : Begin(c, author, tree) => UNCHANGED <<accepted, latest>>
  BY DEF Begin
<1>2. \A c, d, n : BeginRestore(c, d, n) => UNCHANGED <<accepted, latest>>
  BY DEF BeginRestore
<1>3. \A c \in Calls : RefuseLocked(c) \/ Allow(c) \/ Hold(c) \/ Fail(c) \/ ApproveMoved(c)
                         \/ ApproveFails(c) => UNCHANGED <<accepted, latest>>
  BY DEF RefuseLocked, Allow, Hold, Fail, ApproveMoved, ApproveFails
<1>4. \A c, q, trust : BeginApprove(c, q, trust) => UNCHANGED <<accepted, latest>>
  BY DEF BeginApprove
<1>5. \A q : ApproveExpired(q) \/ Reject(q) \/ Expire(q) => UNCHANGED <<accepted, latest>>
  BY DEF ApproveExpired, Reject, Expire
<1>6. List \/ SetLock \/ EndMaintenance \/ UNCHANGED vars => UNCHANGED <<accepted, latest>>
  BY DEF List, SetLock, EndMaintenance, vars
<1>7. \A d : StartMaintenance(d) => UNCHANGED <<accepted, latest>>
  BY DEF StartMaintenance
<1>8. \A c \in Calls : Commit(c) \/ FinishApprove(c) => Committed
  BY DEF Commit, FinishApprove, Committed, Putting, Grounds
<1>9. Crash => Committed
  BY DEF Crash, Committed, Putting, Grounds
<1> QED
  BY <1>1, <1>2, <1>3, <1>4, <1>5, <1>6, <1>7, <1>8, <1>9 DEF Next, Committed

\* What was in the history stays there.
HistoryKept ==
    /\ head \in Nat /\ head' \in Nat /\ head <= head'
    /\ \A n \in 0..head : TreeOf(n)' = TreeOf(n)
    /\ \A n \in 1..head : accepted'[n] = accepted[n]

\* The transaction appends what the request carries.
LEMMA AcceptAppends ==
    ASSUME TypeOK, NEW c \in Calls, Putting(c, Grounds), Accept(calls[c])
    PROVE  /\ calls[c] \in CallRows
           /\ head \in Nat /\ head' = head + 1
           /\ \A n \in 1..head : accepted'[n] = accepted[n]
           /\ accepted'[head'] = [tree |-> calls[c].tree, proposal |-> calls[c].proposal]
<1> DEFINE row == [tree |-> calls[c].tree, proposal |-> calls[c].proposal]
<1>1. calls[c] \in CallRows
  BY DEF TypeOK, Putting
<1>2. row \in SnapshotRows
  BY <1>1 DEF CallRows, SnapshotRows
<1>3. accepted' = Append(accepted, row)
  BY DEF Accept
<1> HIDE DEF row
<1>4. /\ head \in Nat /\ head' = head + 1
      /\ \A n \in 1..head : accepted'[n] = accepted[n]
      /\ accepted'[head + 1] = row
  BY <1>2, <1>3, HistoryGrows
<1>5. accepted'[head'] = row
  BY <1>4
<1> QED
  BY <1>1, <1>4, <1>5 DEF row

\* What is accepted stays accepted, in its place.
LEMMA HistoryStays == Grounded /\ [Next]_vars => HistoryKept
<1> SUFFICES ASSUME Grounded, Committed PROVE HistoryKept
  BY CommitsOnly
<1>t. TypeOK /\ head \in Nat
  BY TreeTypes DEF Grounded
<1>1. CASE UNCHANGED accepted
  BY <1>t, <1>1 DEF HistoryKept, head, TreeOf, EmptyTree
<1>2. ASSUME NEW c \in Calls, Putting(c, Grounds), Accept(calls[c]) PROVE HistoryKept
  <2>2. /\ head' = head + 1
        /\ \A n \in 1..head : accepted'[n] = accepted[n]
    BY <1>t, <1>2, AcceptAppends
  <2>3. \A n \in 0..head : TreeOf(n)' = TreeOf(n)
    BY <2>2, <1>t DEF TreeOf, EmptyTree
  <2> QED
    BY <2>2, <2>3, <1>t DEF HistoryKept
<1> QED
  BY <1>1, <1>2 DEF Committed

\* What a proposal asks for stays as it was written.
LEMMA RowsStay == Grounded /\ [Next]_vars => RowsKept
<1> SUFFICES ASSUME Grounded, [Next]_vars PROVE RowsKept
  OBVIOUS
<1>t. TypeOK
  BY DEF Grounded
<1>1. CASE UNCHANGED quarantines
  BY <1>t, <1>1 DEF RowsKept, TypeOK
<1>2. CASE StatusUpdate
  BY <1>t, <1>2, StatusUpdateKeeps
<1>3. ASSUME NEW c \in Calls, Commit(c) PROVE RowsKept
  BY <1>t, <1>1, <1>2, <1>3, SupersededUpdates DEF Commit
<1>4. ASSUME NEW c \in Calls, Hold(c) PROVE RowsKept
  <2>1. CASE UNCHANGED quarantines
    BY <1>1, <2>1
  <2>2. ASSUME NEW q \in QuarantineIds, quarantines[q] = None,
               NEW row, row.author = Seafile => row.reviewOnly,
               quarantines' = [quarantines EXCEPT ![q] = row]
        PROVE  RowsKept
    BY <1>t, <2>2, TypeNext, NullAssumption DEF RowsKept, TypeOK
  <2>3. ReviewOnly(calls[c].author, TreeOf(head), calls[c].tree) \in BOOLEAN
    BY DEF ReviewOnly
  <2>4. calls[c].author = Seafile => ReviewOnly(calls[c].author, TreeOf(head), calls[c].tree)
    BY DEF ReviewOnly
  <2> QED
    BY <1>4, <2>1, <2>2, <2>3, <2>4 DEF Hold
<1>5. ASSUME NEW c \in Calls, NEW q \in QuarantineIds, NEW trust \in BOOLEAN,
             BeginApprove(c, q, trust)
      PROVE  RowsKept
  BY <1>t, <1>1, <1>2, <1>5, RowUpdates DEF BeginApprove, Pending, Statuses
<1>6. ASSUME NEW c \in Calls, FinishApprove(c) PROVE RowsKept
  <2> DEFINE mid == Superseded(calls[c].parent)
  <2>1. /\ calls[c].proposal \in QuarantineIds
        /\ quarantines[calls[c].proposal] \in QuarantineRows
    BY <1>6 DEF FinishApprove, Putting, Grounded, CallsGrounded, CallGrounded, IsProposal
  <2>2. \A q \in QuarantineIds :
           \/ mid[q] = quarantines[q]
           \/ /\ quarantines[q] # None
              /\ mid[q] = [quarantines[q] EXCEPT !.status = "stale"]
    BY DEF Superseded, Undecided
  <2>3. mid \in [QuarantineIds -> QuarantineRows \cup {None}]
    BY <2>2, <1>t DEF TypeOK, Superseded, QuarantineRows
  <2>4. /\ mid[calls[c].proposal] \in QuarantineRows
        /\ quarantines' = [mid EXCEPT ![calls[c].proposal].status = "approved"]
    BY <2>1, <2>2, <1>6 DEF FinishApprove, QuarantineRows
  <2>5. ASSUME NEW q \in QuarantineIds
        PROVE  \/ quarantines'[q] = quarantines[q]
               \/ /\ quarantines[q] # None
                  /\ \E s \in Statuses : quarantines'[q] = [quarantines[q] EXCEPT !.status = s]
    <3>1. CASE q = calls[c].proposal
      <4>1. quarantines'[q] = [mid[q] EXCEPT !.status = "approved"]
        BY <3>1, <2>1, <2>3, <2>4
      <4>2. \A row \in QuarantineRows :
               [[row EXCEPT !.status = "stale"] EXCEPT !.status = "approved"]
                   = [row EXCEPT !.status = "approved"]
        BY DEF QuarantineRows
      <4>3. mid[q] = quarantines[q] \/ mid[q] = [quarantines[q] EXCEPT !.status = "stale"]
        BY <2>2
      <4>4. quarantines'[q] = [quarantines[q] EXCEPT !.status = "approved"]
        BY <4>1, <4>2, <4>3, <3>1, <2>1
      <4> QED
        BY <4>4, <3>1, <2>1, NullAssumption DEF Statuses
    <3>2. CASE q # calls[c].proposal
      BY <3>2, <2>1, <2>2, <2>3, <2>4 DEF Statuses
    <3> QED
      BY <3>1, <3>2
  <2>6. StatusUpdate
    BY <2>5, TypeNext DEF StatusUpdate, TypeOK
  <2> QED
    BY <2>6, <1>2
<1>7. ASSUME NEW c \in Calls, ApproveMoved(c) PROVE RowsKept
  <2>1. /\ calls[c].proposal \in QuarantineIds
        /\ quarantines[calls[c].proposal] \in QuarantineRows
    BY <1>7 DEF ApproveMoved, Putting, Grounded, CallsGrounded, CallGrounded, IsProposal
  <2> QED
    BY <2>1, <1>t, <1>2, <1>7, RowUpdates, NullAssumption DEF ApproveMoved, Statuses
<1>8. ASSUME NEW q \in QuarantineIds, ApproveExpired(q) \/ Reject(q) \/ Expire(q) PROVE RowsKept
  BY <1>t, <1>2, <1>8, RowUpdates DEF ApproveExpired, Reject, Expire, Undecided, Pending, Statuses
<1>9. CASE List
  BY <1>t, <1>2, <1>9 DEF TypeOK, List, StatusUpdate, Undecided, Pending, Statuses, QuarantineRows
<1>10. CASE Crash
  BY <1>t, <1>1, <1>2, <1>10, SupersededUpdates DEF Crash
<1>11. CASE SetLock \/ EndMaintenance \/ UNCHANGED vars
  BY <1>1, <1>11 DEF SetLock, EndMaintenance, vars
<1>12. \A c, author, tree : Begin(c, author, tree) => UNCHANGED quarantines
  BY DEF Begin
<1>13. \A c, d, n : BeginRestore(c, d, n) => UNCHANGED quarantines
  BY DEF BeginRestore
<1>14. \A c \in Calls : RefuseLocked(c) \/ Allow(c) \/ Fail(c) \/ ApproveFails(c)
                          => UNCHANGED quarantines
  BY DEF RefuseLocked, Allow, Fail, ApproveFails
<1>15. \A d : StartMaintenance(d) => UNCHANGED quarantines
  BY DEF StartMaintenance
<1> QED
  BY <1>1, <1>3, <1>4, <1>5, <1>6, <1>7, <1>8, <1>9, <1>10, <1>11, <1>12, <1>13, <1>14, <1>15
     DEF Next

-----------------------------------------------------------------------------
(* The parts of Grounded from one state to the next *)

\* The requests of a step are as they were, over, or the one it lets through.
LEMMA UnchangedCallStays ==
    ASSUME Grounded, RowsKept, HistoryKept, NEW c \in Calls, calls'[c] \in {calls[c], Idle}
    PROVE  /\ calls'[c].phase = "putting" => CallGrounded(calls[c])'
           /\ calls'[c].phase = "reading" => calls'[c].proposal = None
           /\ calls'[c] # Idle /\ calls'[c].trust => calls'[c].author \in Devices
<1>t. TypeOK
  BY DEF Grounded
<1>1. CASE calls'[c] = Idle
  BY <1>1 DEF Idle
<1>2. CASE calls'[c] = calls[c] /\ calls[c] # Idle
  <2>1. calls[c] \in CallRows
    BY <1>t, <1>2 DEF TypeOK
  <2>2. ASSUME calls[c].phase = "putting" PROVE CallGrounded(calls[c])'
    <3>1. /\ CallGrounded(calls[c])
          /\ calls[c].parent \in 0..head
      BY <2>1, <2>2 DEF Grounded, CallsGrounded, CallGrounded, HistoryKept, CallRows
    <3> QED
      BY <3>1, <1>2, <2>1, NullAssumption
         DEF CallGrounded, HistoryKept, RowsKept, IsProposal, CallRows
  <2> QED
    BY <2>2, <1>2 DEF Grounded, CallsGrounded, TrustGrounded
<1> QED
  BY <1>1, <1>2

\* An import is written down as to be reviewed.
LEMMA TrustNext == Grounded /\ [Next]_vars =>
    \A q \in QuarantineIds :
        quarantines'[q] # None /\ quarantines'[q].author = Seafile => quarantines'[q].reviewOnly
BY RowsStay DEF Grounded, TrustGrounded, RowsKept

\* A request is assessed before its PUT against a tree that stays as it is.
LEMMA CallsNext == Grounded /\ [Next]_vars => CallsGrounded' /\ TrustGrounded'
<1> SUFFICES ASSUME Grounded, [Next]_vars PROVE CallsGrounded' /\ TrustGrounded'
  OBVIOUS
<1> DEFINE CallOK(c) == /\ calls[c].phase = "putting" => CallGrounded(calls[c])
                        /\ calls[c].phase = "reading" => calls[c].proposal = None
                        /\ calls[c] # Idle /\ calls[c].trust => calls[c].author \in Devices
<1>t. TypeOK /\ TypeOK' /\ RowsKept /\ HistoryKept
  BY TypeNext, RowsStay, HistoryStays DEF Grounded
<1>s. ASSUME NEW c \in Calls, calls'[c] \in {calls[c], Idle} PROVE CallOK(c)'
  BY <1>t, <1>s, UnchangedCallStays
<1>h. ASSUME UNCHANGED accepted PROVE head' = head /\ \A n \in 0..head : TreeOf(n)' = TreeOf(n)
  BY <1>h DEF head, TreeOf, EmptyTree
<1>1. ASSUME NEW c \in Calls, NEW author \in Authors, NEW tree \in Trees,
             Begin(c, author, tree), NEW x \in Calls
      PROVE  CallOK(x)'
  <2>1. CASE x = c
    BY <2>1, <1>1, <1>t DEF Begin, TypeOK
  <2>2. CASE x # c
    BY <2>2, <1>1, <1>t, <1>s DEF Begin, TypeOK
  <2> QED
    BY <2>1, <2>2
<1>2. ASSUME NEW c \in Calls, NEW d \in Devices, NEW n \in 1..head, BeginRestore(c, d, n),
             NEW x \in Calls
      PROVE  CallOK(x)'
  <2>1. CASE x = c
    BY <2>1, <1>2, <1>t, <1>h DEF BeginRestore, TypeOK, CallGrounded, HistoryKept
  <2>2. CASE x # c
    BY <2>2, <1>2, <1>t, <1>s DEF BeginRestore, TypeOK
  <2> QED
    BY <2>1, <2>2
<1>3. ASSUME NEW c \in Calls, NEW x \in Calls,
             RefuseLocked(c) \/ Hold(c) \/ Commit(c) \/ Fail(c) \/ FinishApprove(c)
               \/ ApproveMoved(c) \/ ApproveFails(c)
      PROVE  CallOK(x)'
  <2>1. calls' = [calls EXCEPT ![c] = Idle]
    BY <1>3 DEF RefuseLocked, Hold, Commit, Fail, FinishApprove, ApproveMoved, ApproveFails
  <2> QED
    BY <2>1, <1>s, <1>t DEF TypeOK
<1>4. ASSUME NEW c \in Calls, Allow(c), NEW x \in Calls PROVE CallOK(x)'
  <2>1. CASE calls'[x] \in {calls[x], Idle}
    BY <2>1, <1>s
  <2>2. CASE calls'[x] \notin {calls[x], Idle}
    <3> DEFINE via == Authorization(calls[c].author, calls[c].tree)
    <3>1. /\ x = c /\ calls[c] \in CallRows /\ calls[c].phase = "reading"
          /\ calls[c].proposal = None /\ head = calls[c].parent /\ via # "quarantine"
          /\ calls'[c] = [calls[c] EXCEPT !.phase = "putting", !.via = via]
          /\ UNCHANGED <<accepted, quarantines>>
      BY <2>2, <1>4, <1>t DEF Allow, TypeOK, Grounded, CallsGrounded
    <3>2. /\ via \in {"policy", "trusted_window"}
          /\ Permitted(calls[c].author, via, TreeOf(head), calls[c].tree)
      BY <3>1 DEF Authorization, Permitted
    <3>3. /\ calls'[c].author = calls[c].author /\ calls'[c].parent = calls[c].parent
          /\ calls'[c].tree = calls[c].tree /\ calls'[c].via = via
          /\ calls'[c].proposal = None /\ calls'[c].trust = calls[c].trust
      BY <3>1 DEF CallRows
    <3>4. CallGrounded(calls[c])'
      BY <3>1, <3>2, <3>3, <1>h, <1>t DEF CallGrounded, HistoryKept
    <3> QED
      BY <3>1, <3>3, <3>4 DEF Grounded, TrustGrounded, CallRows, Idle
  <2> QED
    BY <2>1, <2>2
<1>5. ASSUME NEW c \in Calls, NEW q \in QuarantineIds, NEW trust \in BOOLEAN,
             BeginApprove(c, q, trust), NEW x \in Calls
      PROVE  CallOK(x)'
  <2>1. CASE calls'[x] \in {calls[x], Idle}
    BY <2>1, <1>s
  <2>2. CASE calls'[x] \notin {calls[x], Idle}
    <3>1. /\ x = c /\ head = quarantines[q].parent /\ quarantines[q] \in QuarantineRows
          /\ trust => ~quarantines[q].reviewOnly
          /\ calls'[c] = [phase |-> "putting", author |-> quarantines[q].author,
                          parent |-> quarantines[q].parent, tree |-> quarantines[q].tree,
                          via |-> "approval", proposal |-> q, trust |-> trust]
          /\ UNCHANGED <<accepted, quarantines>>
      BY <2>2, <1>5, <1>t DEF BeginApprove, Pending, MayTrust, TypeOK
    <3>2. CallGrounded(calls[c])'
      BY <3>1, <1>h, <1>t DEF CallGrounded, IsProposal, HistoryKept
    <3>3. trust => quarantines[q].author \in Devices
      BY <3>1, NullAssumption DEF Grounded, TrustGrounded, QuarantineRows, Authors
    <3> QED
      BY <3>1, <3>2, <3>3
  <2> QED
    BY <2>1, <2>2
<1>6. ASSUME NEW x \in Calls, Crash \/ UNCHANGED calls PROVE CallOK(x)'
  BY <1>6, <1>s, <1>t DEF Crash, TypeOK
<1>7. (\E q \in QuarantineIds : ApproveExpired(q) \/ Reject(q) \/ Expire(q)) \/ List \/ SetLock
        \/ (\E d \in Devices : StartMaintenance(d)) \/ EndMaintenance \/ UNCHANGED vars
      => UNCHANGED calls
  BY DEF ApproveExpired, Reject, Expire, List, SetLock, StartMaintenance, EndMaintenance, vars
<1>8. \A x \in Calls : CallOK(x)'
  BY <1>1, <1>2, <1>3, <1>4, <1>5, <1>6, <1>7 DEF Next
<1> QED
  BY <1>8, TrustNext DEF CallsGrounded, TrustGrounded

\* An approval commits on the parent its row names.
LEMMA HistoryNext == Grounded /\ [Next]_vars => HistoryGrounded'
<1> SUFFICES ASSUME Grounded, [Next]_vars, NEW n \in 1..head', accepted'[n].proposal # None
             PROVE  /\ accepted'[n].proposal \in QuarantineIds
                    /\ quarantines'[accepted'[n].proposal] \in QuarantineRows
                    /\ quarantines'[accepted'[n].proposal].parent = n - 1
  BY DEF HistoryGrounded
<1>t. TypeOK /\ RowsKept /\ HistoryKept /\ Committed /\ NullAssumption
  BY RowsStay, HistoryStays, CommitsOnly, NullAssumption DEF Grounded
<1>1. CASE n \in 1..head
  BY <1>1, <1>t DEF Grounded, HistoryGrounded, HistoryKept, RowsKept, NullAssumption
<1>2. CASE n \notin 1..head
  <2>1. PICK c \in Calls : Putting(c, Grounds) /\ HeadUnmoved(calls[c]) /\ Accept(calls[c])
    BY <1>2, <1>t DEF Committed, head
  <2>2. calls[c] \in CallRows /\ CallGrounded(calls[c])
    BY <2>1, <1>t DEF Putting, TypeOK, Grounded, CallsGrounded
  <2>3. /\ n = head + 1
        /\ accepted'[n] = [tree |-> calls[c].tree, proposal |-> calls[c].proposal]
    BY <2>1, <1>2, <1>t, AcceptAppends
  <2> QED
    BY <2>1, <2>2, <2>3, <1>t
       DEF CallGrounded, IsProposal, HeadUnmoved, RowsKept, HistoryKept, NullAssumption
<1> QED
  BY <1>1, <1>2

\* The head is written on the grounds its request was assessed on.
LEMMA HeadNext == Grounded /\ [Next]_vars => HeadGrounded'
<1> SUFFICES ASSUME Grounded, [Next]_vars PROVE HeadGrounded'
  OBVIOUS
<1>t. TypeOK /\ RowsKept /\ HistoryKept /\ Committed /\ NullAssumption
  BY RowsStay, HistoryStays, CommitsOnly, NullAssumption DEF Grounded
<1>1. CASE UNCHANGED <<accepted, latest>>
  <2>1. /\ head' = head /\ Written' = Written /\ Replaced' = Replaced /\ HeadGrounded
    BY <1>1 DEF head, Written, Replaced, TreeOf, EmptyTree, Grounded
  <2> QED
    BY <2>1, <1>1, <1>t DEF HeadGrounded, IsProposal, RowsKept, NullAssumption
<1>2. ASSUME NEW c \in Calls, Putting(c, Grounds), HeadUnmoved(calls[c]), Accept(calls[c])
      PROVE  HeadGrounded'
  <2>1. calls[c] \in CallRows /\ CallGrounded(calls[c])
    BY <1>2, <1>t DEF Putting, TypeOK, Grounded, CallsGrounded
  <2>3. /\ head' = head + 1 /\ head' > 0
        /\ Written' = [tree |-> calls[c].tree, proposal |-> calls[c].proposal]
        /\ latest' = [author |-> calls[c].author, via |-> calls[c].via]
    <3>1. /\ head \in Nat /\ head' = head + 1
          /\ accepted'[head'] = [tree |-> calls[c].tree, proposal |-> calls[c].proposal]
      BY <1>2, <1>t, AcceptAppends
    <3> QED
      BY <3>1, <1>2 DEF Accept, Written
  <2>4. Replaced' = TreeOf(calls[c].parent)
    BY <2>3, <1>2, <1>t DEF Replaced, HistoryKept, HeadUnmoved, TreeOf
  <2> QED
    BY <2>1, <2>3, <2>4, <1>2, <1>t
       DEF HeadGrounded, CallGrounded, IsProposal, HeadUnmoved, RowsKept, HistoryKept,
           NullAssumption
<1> QED
  BY <1>1, <1>2, <1>t DEF Committed

\* A proposal is marked approved after its transaction.
LEMMA ApprovedNext == Grounded /\ [Next]_vars => ApprovedWasAccepted'
<1> SUFFICES ASSUME Grounded, [Next]_vars PROVE ApprovedWasAccepted'
  OBVIOUS
<1>t. TypeOK /\ TypeOK' /\ HistoryKept
  BY TypeNext, HistoryStays DEF Grounded
<1>1. ASSUME NEW q \in QuarantineIds, quarantines[q] # None, quarantines[q].status = "approved"
      PROVE  \E n \in 1..head' : accepted'[n].proposal = q
  BY <1>1, <1>t DEF Grounded, ApprovedWasAccepted, HistoryKept
<1>2. CASE UNCHANGED quarantines
  BY <1>1, <1>2 DEF ApprovedWasAccepted
<1>3. ASSUME \A q \in QuarantineIds :
                quarantines'[q] = quarantines[q] \/ quarantines'[q].status # "approved"
      PROVE  ApprovedWasAccepted'
  BY <1>1, <1>3 DEF ApprovedWasAccepted
<1>4. ASSUME NEW parent, quarantines' = Superseded(parent) PROVE ApprovedWasAccepted'
  BY <1>t, <1>3, <1>4 DEF Superseded, Undecided, TypeOK, QuarantineRows
<1>5. ASSUME NEW q \in QuarantineIds, NEW s, s # "approved", quarantines[q] # None,
             quarantines' = [quarantines EXCEPT ![q].status = s]
      PROVE  ApprovedWasAccepted'
  BY <1>t, <1>3, <1>5 DEF TypeOK, QuarantineRows
<1>6. ASSUME NEW c \in Calls, Commit(c) PROVE ApprovedWasAccepted'
  BY <1>2, <1>4, <1>6 DEF Commit
<1>7. ASSUME NEW c \in Calls, Hold(c) PROVE ApprovedWasAccepted'
  BY <1>2, <1>3, <1>7, <1>t DEF Hold, TypeOK
<1>8. ASSUME NEW c \in Calls, NEW q \in QuarantineIds, NEW trust \in BOOLEAN,
             BeginApprove(c, q, trust)
      PROVE  ApprovedWasAccepted'
  BY <1>2, <1>5, <1>8 DEF BeginApprove, Pending
<1>9. ASSUME NEW c \in Calls, FinishApprove(c) PROVE ApprovedWasAccepted'
  <2>1. /\ Putting(c, Grounds) /\ Accept(calls[c])
        /\ calls[c].proposal \in QuarantineIds
    BY <1>9
       DEF FinishApprove, Putting, Grounds, Grounded, CallsGrounded, CallGrounded, IsProposal
  <2>2. head' \in 1..head' /\ accepted'[head'].proposal = calls[c].proposal
    <3>1. /\ head \in Nat /\ head' = head + 1
          /\ accepted'[head'] = [tree |-> calls[c].tree, proposal |-> calls[c].proposal]
      BY <2>1, <1>t, AcceptAppends
    <3> QED
      BY <3>1
  <2>3. ASSUME NEW q \in QuarantineIds, q # calls[c].proposal
        PROVE  quarantines'[q] = quarantines[q] \/ quarantines'[q].status # "approved"
    BY <2>3, <1>9, <1>t DEF FinishApprove, Superseded, Undecided, TypeOK, QuarantineRows
  <2> QED
    BY <2>2, <2>3, <1>1 DEF ApprovedWasAccepted
<1>10. ASSUME NEW c \in Calls, ApproveMoved(c) PROVE ApprovedWasAccepted'
  <2>1. /\ calls[c].proposal \in QuarantineIds
        /\ quarantines[calls[c].proposal] # None
    BY <1>10, NullAssumption
       DEF ApproveMoved, Putting, Grounded, CallsGrounded, CallGrounded, IsProposal
  <2> QED
    BY <2>1, <1>5, <1>10 DEF ApproveMoved
<1>11. ASSUME NEW q \in QuarantineIds, ApproveExpired(q) \/ Reject(q) \/ Expire(q)
       PROVE  ApprovedWasAccepted'
  BY <1>5, <1>11 DEF ApproveExpired, Reject, Expire, Undecided, Pending
<1>12. CASE List
  BY <1>t, <1>3, <1>12 DEF List, Undecided, Pending, TypeOK, QuarantineRows
<1>13. CASE Crash
  BY <1>2, <1>4, <1>13 DEF Crash
<1>14. CASE SetLock \/ EndMaintenance \/ UNCHANGED vars
  BY <1>2, <1>14 DEF SetLock, EndMaintenance, vars
<1>15. \A c, author, tree : Begin(c, author, tree) => UNCHANGED quarantines
  BY DEF Begin
<1>16. \A c, d, n : BeginRestore(c, d, n) => UNCHANGED quarantines
  BY DEF BeginRestore
<1>17. \A c : RefuseLocked(c) \/ Allow(c) \/ Fail(c) \/ ApproveFails(c)
                => UNCHANGED quarantines
  BY DEF RefuseLocked, Allow, Fail, ApproveFails
<1>18. \A d : StartMaintenance(d) => UNCHANGED quarantines
  BY DEF StartMaintenance
<1> QED
  BY <1>2, <1>6, <1>7, <1>8, <1>9, <1>10, <1>11, <1>12, <1>13, <1>14, <1>15, <1>16, <1>17,
     <1>18 DEF Next

-----------------------------------------------------------------------------
\* Nothing is accepted in the beginning.
LEMMA GroundedInit == Init => Grounded
BY TypeInit
   DEF Init, Grounded, TrustGrounded, CallsGrounded, HistoryGrounded, HeadGrounded,
       ApprovedWasAccepted, Idle, head

\* The invariant is inductive.
LEMMA GroundedNext == Grounded /\ [Next]_vars => Grounded'
BY TypeNext, CallsNext, HistoryNext, HeadNext, ApprovedNext DEF Grounded

-----------------------------------------------------------------------------
(* Theorems *)

\* What a waiting request was assessed on holds until it commits (propose, approve).
THEOREM Invariance == Spec => []Grounded
BY GroundedInit, GroundedNext, PTL DEF Spec

\* The variables hold what the model says they hold.
THEOREM TypeCorrect == Spec => []TypeOK
BY Invariance, PTL DEF Grounded

\* A risky change is the head only on the grounds its risk permits.
THEOREM RiskyDecided == Spec => []RiskyNeedsDecision
<1>1. Grounded => RiskyNeedsDecision
  BY DEF Grounded, HeadGrounded, RiskyNeedsDecision, Permitted, IsProposal
<1> QED
  BY <1>1, Invariance, PTL

\* A proposal is accepted once, and shown as approved only if it was.
THEOREM ApprovedOnce == Spec => []ApprovedOnceAndTruly
<1>1. Grounded => ApprovedOnceAndTruly
  <2> SUFFICES ASSUME Grounded PROVE ProposalAcceptedOnce
    BY DEF Grounded, ApprovedOnceAndTruly
  <2>1. head \in Nat
    BY TreeTypes DEF Grounded
  <2>2. ASSUME NEW m \in 1..head, NEW n \in 1..head, accepted[m].proposal # None,
               accepted[m].proposal = accepted[n].proposal
        PROVE  m = n
    <3>1. m - 1 = n - 1
      BY <2>2 DEF Grounded, HistoryGrounded
    <3> QED
      BY <3>1, <2>1
  <2> QED
    BY <2>2 DEF ProposalAcceptedOnce
<1> QED
  BY <1>1, Invariance, PTL
-----------------------------------------------------------------------------
(***************************************************************************)
(* The decisions that make the proposals: proofs about Decisions for any   *)
(* jobs. An outcome is what the policy computes of the job (DecisionInv),  *)
(* so each property is a fact about an operator: the branches of a file's  *)
(* decision and of a package's choice, the order of versions, the holder   *)
(* of a folder's place. Moves are found entry after entry and followed     *)
(* file after file, by recursive functions: these exist (FollowingsUnfold, *)
(* AlignmentsUnfold), and what each step keeps holds after every one       *)
(* (FollowingsPair, AlignmentsGoOn), since there is no least step after    *)
(* which it does not.                                                      *)
(***************************************************************************)

\* What a finished job of each kind has come to.
Outcome ==
    outcome # None =>
        /\ job.kind = "file" => outcome = ResolveFile(job.of)
        /\ job.kind = "package" =>
              outcome = SelectPluginPackage(job.of.base, job.of.local, job.of.remote)
        /\ job.kind = "folders" =>
              outcome = ReconcileFolders(job.of.base, job.of.local, job.of.remote, job.of.accepted)
        /\ job.kind = "moves" =>
              outcome = DetectMoves(job.of.prev, job.of.next, job.of.mode, job.of.order)
        /\ job.kind = "align" =>
              outcome = CanonicalizeMoves(job.of.base, job.of.local, job.of.remote,
                                          job.of.renames, job.of.times, job.of.order)

\* A job is one of those given.
Given ==
    \/ job \in Tagged("file", FileJobs)
    \/ job \in Tagged("package", PackageJobs)
    \/ job \in Tagged("folders", FolderJobs)
    \/ job \in Tagged("moves", MoveJobs)
    \/ job \in Tagged("align", AlignJobs)

DecisionInv == Given /\ Outcome

\* A job is one of those given, and a finished one came to what the policy computes of it.
THEOREM DecisionInvariance == DecisionSpec => []DecisionInv
<1>1. DecisionInit => DecisionInv
  BY DEF DecisionInit, DecisionInv, Given, Outcome
<1>2. DecisionInv /\ [Decision]_<<job, outcome>> => DecisionInv'
  <2> SUFFICES ASSUME DecisionInv, [Decision]_<<job, outcome>> PROVE DecisionInv'
    OBVIOUS
  <2>1. job' = job BY DEF Decision
  <2>2. Given' BY <2>1 DEF DecisionInv, Given
  <2>3. CASE UNCHANGED outcome BY <2>1, <2>2, <2>3 DEF DecisionInv, Outcome
  <2>4. CASE DecideFile BY <2>1, <2>2, <2>4 DEF DecisionInv, Outcome, DecideFile
  <2>5. CASE ChoosePackage BY <2>1, <2>2, <2>5 DEF DecisionInv, Outcome, ChoosePackage
  <2>6. CASE PlaceFolders BY <2>1, <2>2, <2>6 DEF DecisionInv, Outcome, PlaceFolders
  <2>7. CASE FindMoves BY <2>1, <2>2, <2>7 DEF DecisionInv, Outcome, FindMoves
  <2>8. CASE AlignPaths BY <2>1, <2>2, <2>8 DEF DecisionInv, Outcome, AlignPaths
  <2> QED BY <2>3, <2>4, <2>5, <2>6, <2>7, <2>8 DEF Decision
<1> QED BY <1>1, <1>2, PTL DEF DecisionSpec

\* A version one side has changed is at the path, merged or beside it.
LEMMA FileResolved ==
  ASSUME NEW j, NEW side \in Sides
  PROVE  LET mine == IF side = "local" THEN j.local ELSE j.remote
             at   == IF ResolveFile(j).at = "local" THEN j.local ELSE j.remote
         IN  \/ Content(mine) \in {None, Content(j.base)}
             \/ side \in ResolveFile(j).beside
             \/ ResolveFile(j).at = "merged"
             \/ Content(mine) = Content(at)
<1> DEFINE kind == Decide(j.base, j.local, j.remote)
           mine == IF side = "local" THEN j.local ELSE j.remote
           at   == IF ResolveFile(j).at = "local" THEN j.local ELSE j.remote
           kept == \/ Content(mine) \in {None, Content(j.base)}
                   \/ side \in ResolveFile(j).beside
                   \/ ResolveFile(j).at = "merged"
                   \/ Content(mine) = Content(at)
<1>0. side = "local" \/ side = "remote" BY DEF Sides
<1>1. \A a, b, s : Kept(a, b).at = a /\ Kept(a, b).beside = b BY DEF Kept
<1>2. \A a, b : SameEntry(a, b) => Content(a) = Content(b) BY DEF SameEntry, Content
<1>3. kind \in {"equal", "unchanged"} => SameEntry(j.local, j.remote) BY DEF Decide
<1>4. kind = "remote-only" => j.local = None \/ SameEntry(j.base, j.local) BY DEF Decide
<1>5. kind = "local-only" => j.remote = None \/ SameEntry(j.base, j.remote) BY DEF Decide
<1>6. CASE kind \in {"equal", "unchanged", "remote-only"}
  <2>1. ResolveFile(j) = Kept("remote", {}) BY <1>6 DEF ResolveFile
  <2>2. ResolveFile(j).at = "remote" BY <2>1, <1>1
  <2>3. Content(None) = None BY DEF Content
  <2>4. kept BY <1>0, <1>2, <1>3, <1>4, <1>6, <2>2, <2>3
  <2> QED BY <2>4
<1>7. CASE kind = "local-only"
  <2>1. ResolveFile(j) = Kept("local", {}) BY <1>7 DEF ResolveFile
  <2>2. ResolveFile(j).at = "local" BY <2>1, <1>1
  <2>3. Content(None) = None BY DEF Content
  <2>4. kept BY <1>0, <1>2, <1>5, <1>7, <2>2, <2>3
  <2> QED BY <2>4
<1>8. CASE kind \notin {"equal", "unchanged", "remote-only", "local-only"}
  <2>1. ResolveFile(j) = IF j.strategy \in {"json", "whole"} THEN ResolveSystem(j)
                         ELSE ResolveNote(j, kind)
    BY <1>8 DEF ResolveFile
  <2>2. Content(None) = None BY DEF Content
  <2>3. \/ ResolveFile(j) = Kept(Survivor(j), {}) /\ (j.local = None \/ j.remote = None)
        \/ ResolveFile(j) = Kept("merged", {})
        \/ ResolveFile(j) = Kept(j.preferred, {"local", "remote"})
        \/ ResolveFile(j) = Pair(j)
    BY <2>1 DEF ResolveSystem, ResolveNote
  <2>4. CASE ResolveFile(j) = Kept(Survivor(j), {}) /\ (j.local = None \/ j.remote = None)
    <3>1. ResolveFile(j).at = Survivor(j) BY <2>4, <1>1
    <3>2. kept BY <3>1, <2>4, <2>2, <1>0 DEF Survivor
    <3> QED BY <3>2
  <2>5. CASE ResolveFile(j) = Kept("merged", {})
    BY <2>5, <1>1
  <2>6. CASE ResolveFile(j) = Kept(j.preferred, {"local", "remote"})
    BY <2>6, <1>1, <1>0
  <2>7. CASE ResolveFile(j) = Pair(j)
    <3>1. ResolveFile(j).at = j.preferred /\ ResolveFile(j).beside = {Other(j.preferred)}
      BY <2>7, <1>1 DEF Pair
    <3>2. kept BY <3>1, <1>0 DEF Other
    <3> QED BY <3>2
  <2> QED BY <2>3, <2>4, <2>5, <2>6, <2>7
<1> QED BY <1>6, <1>7, <1>8

\* What reconcileFolders has chosen for a folder, who has chosen the same place, and who holds it.
Chosen(j, id) == ChooseFolder(j.base[id], j.local[id], j.remote[id])
Rivals(j, id) == {o \in DOMAIN j.base : /\ Chosen(j, o) # None
                                        /\ Key(Chosen(j, o).path) = Key(Chosen(j, id).path)}
Winner(j, id) == /\ Chosen(j, id) # None
                 /\ HoldsPath(id, Rivals(j, id), AcceptedSide(j), Key(Chosen(j, id).path))
Folders(j)    == ReconcileFolders(j.base, j.local, j.remote, j.accepted)

\* The places of the folders: who holds one has it, the others have none.
LEMMA Placing ==
  ASSUME NEW j
  PROVE  Folders(j) = [id \in DOMAIN j.base |-> IF Winner(j, id) THEN Chosen(j, id) ELSE None]
<1>1. \A id \in DOMAIN j.base :
        [o \in DOMAIN j.base |-> ChooseFolder(j.base[o], j.local[o], j.remote[o])][id]
          = Chosen(j, id)
  BY DEF Chosen
<1> QED BY <1>1 DEF Folders, ReconcileFolders, Winner, Rivals, AcceptedSide

\* What the accepted side has and neither side moved keeps its place.
LEMMA PlaceKept ==
  ASSUME NEW j, IsFolderJob(j), NEW f \in DOMAIN j.base, NEW o \in DOMAIN j.base,
         PathOf(j.local[f]) = PathOf(j.remote[f]), AcceptedSide(j)[f] # None,
         Folders(j)[o] # None, Key(Folders(j)[o].path) = Key(AcceptedSide(j)[f].path)
  PROVE  o = f
<1>1. Winner(j, o) /\ Folders(j)[o] = Chosen(j, o) BY Placing
<1>2. Chosen(j, f) = j.remote[f] BY DEF Chosen, ChooseFolder
<1>3. AcceptedSide(j) \in {j.local, j.remote} BY DEF AcceptedSide
<1>4. IsTopology(j.local, DOMAIN j.base) /\ IsTopology(j.remote, DOMAIN j.base) BY DEF IsFolderJob
<1>5. j.remote[f] # None /\ j.remote[f].path = AcceptedSide(j)[f].path
  BY <1>3, <1>4 DEF PathOf, IsTopology
<1>6. f \in Rivals(j, o) BY <1>1, <1>2, <1>5 DEF Rivals
<1>7. AcceptedSide(j)[o] # None /\ Key(AcceptedSide(j)[o].path) = Key(Chosen(j, o).path)
  BY <1>1, <1>6 DEF HoldsPath, Winner
<1>8. OneToAPlace(AcceptedSide(j), DOMAIN j.base) BY DEF IsFolderJob
<1> QED BY <1>1, <1>7, <1>8 DEF OneToAPlace

\* No edit is dropped, and a folder neither side moved keeps its place (decideReconciliation,
\* SyncEngine.run, reconcileFolders).
THEOREM EditsKept == DecisionSpec => []NoEditDropped
<1>1. DecisionInv => FilesKept
  <2> SUFFICES ASSUME DecisionInv, Done("file"), NEW side \in Sides
               PROVE  LET j == job.of
                          mine == IF side = "local" THEN j.local ELSE j.remote
                          at   == IF outcome.at = "local" THEN j.local ELSE j.remote
                      IN  \/ Content(mine) \in {None, Content(j.base)}
                          \/ side \in outcome.beside
                          \/ outcome.at = "merged"
                          \/ Content(mine) = Content(at)
    BY DEF FilesKept
  <2>1. outcome = ResolveFile(job.of) BY DEF DecisionInv, Outcome, Done
  <2> QED BY <2>1, FileResolved
<1>2. DecisionInv => FoldersStay
  <2> SUFFICES ASSUME DecisionInv, Done("folders"),
                      NEW f \in DOMAIN outcome, NEW o \in DOMAIN outcome,
                      PathOf(job.of.local[f]) = PathOf(job.of.remote[f]),
                      AcceptedSide(job.of)[f] # None, outcome[o] # None,
                      Key(outcome[o].path) = Key(AcceptedSide(job.of)[f].path)
               PROVE  o = f
    BY DEF FoldersStay
  <2>1. outcome = Folders(job.of) BY DEF DecisionInv, Outcome, Done, Folders
  <2>2. DOMAIN outcome = DOMAIN job.of.base BY <2>1, Placing
  <2>3. IsFolderJob(job.of) BY FoldersAssumption DEF DecisionInv, Given, Tagged, Done
  <2> QED BY <2>1, <2>2, <2>3, PlaceKept
<1> QED BY <1>1, <1>2, DecisionInvariance, PTL DEF NoEditDropped

\* The path chosen for a folder does not depend on which side is the local one.
LEMMA ChosenAlike ==
  ASSUME NEW j, IsFolderJob(j), NEW f \in DOMAIN j.base,
         j.base[f] # None \/ None \in {j.local[f], j.remote[f]}
  PROVE  PathOf(ChooseFolder(j.base[f], j.remote[f], j.local[f])) = PathOf(Chosen(j, f))
<1> DEFINE b == j.base[f]
           l == j.local[f]
           r == j.remote[f]
<1>1. \A x \in {b, l, r} : x # None => x.path # None /\ x.at \in Int
  BY DEF IsFolderJob, IsTopology
<1>2. l # None /\ r # None /\ l.path # r.path => (Less(l.path, r.path) <=> ~Less(r.path, l.path))
  BY DEF IsFolderJob
<1> QED BY <1>1, <1>2 DEF Chosen, ChooseFolder, PathOf, LaterMove

\* The job of the device on the other side.
LEMMA OtherSide ==
  ASSUME NEW j, IsFolderJob(j), NEW m, m = [Swapped(j) EXCEPT !.accepted = Other(j.accepted)]
  PROVE  /\ m.base = j.base /\ m.local = j.remote /\ m.remote = j.local
         /\ AcceptedSide(m) = AcceptedSide(j)
<1>1. m = [base |-> j.base, local |-> j.remote, remote |-> j.local, accepted |-> Other(j.accepted)]
  BY DEF Swapped, IsFolderJob
<1> QED BY <1>1 DEF Other, AcceptedSide, IsFolderJob, Sides

\* Two devices place the folders alike.
THEOREM FoldersPlacedAlike == DecisionSpec => []FoldersAgree
<1>1. DecisionInv => FoldersAgree
  <2> SUFFICES ASSUME DecisionInv, Done("folders"),
                      \A f \in DOMAIN outcome : \/ job.of.base[f] # None
                                                 \/ None \in {job.of.local[f], job.of.remote[f]},
                      NEW m, m = [Swapped(job.of) EXCEPT !.accepted = Other(job.of.accepted)]
               PROVE  [f \in DOMAIN outcome |-> PathOf(outcome[f])]
                        = [f \in DOMAIN Folders(m) |-> PathOf(Folders(m)[f])]
    BY DEF FoldersAgree, Folders
  <2> DEFINE j == job.of
             ids == DOMAIN j.base
  <2>1. outcome = Folders(j) BY DEF DecisionInv, Outcome, Done, Folders
  <2>2. IsFolderJob(j) BY FoldersAssumption DEF DecisionInv, Given, Tagged, Done
  <2>3. /\ m.base = j.base /\ m.local = j.remote /\ m.remote = j.local
        /\ AcceptedSide(m) = AcceptedSide(j)
    BY <2>2, OtherSide
  <2>4. DOMAIN Folders(j) = ids /\ DOMAIN Folders(m) = ids BY <2>3, Placing
  <2>5. \A f \in ids : PathOf(Chosen(m, f)) = PathOf(Chosen(j, f))
    BY <2>1, <2>2, <2>3, <2>4, ChosenAlike DEF Chosen
  <2>6. \A f \in ids : Chosen(j, f) # None => Chosen(j, f).path # None
    BY <2>2 DEF Chosen, ChooseFolder, LaterMove, IsFolderJob, IsTopology
  <2>7. \A f \in ids : Chosen(m, f) # None => Chosen(m, f).path # None
    BY <2>2, <2>3 DEF Chosen, ChooseFolder, LaterMove, IsFolderJob, IsTopology
  <2>8. \A f \in ids : /\ Chosen(m, f) # None <=> Chosen(j, f) # None
                       /\ Chosen(j, f) # None => Chosen(m, f).path = Chosen(j, f).path
    BY <2>5, <2>6, <2>7 DEF PathOf
  <2>9. \A f \in ids : Chosen(j, f) # None => Rivals(m, f) = Rivals(j, f)
    BY <2>3, <2>8 DEF Rivals
  <2>10. \A f \in ids : Winner(m, f) <=> Winner(j, f)
    BY <2>3, <2>8, <2>9 DEF Winner
  <2>11. \A f \in ids : PathOf(Folders(m)[f]) = PathOf(Folders(j)[f])
    BY <2>3, <2>5, <2>10, Placing
  <2> QED BY <2>1, <2>4, <2>11
<1> QED BY <1>1, DecisionInvariance, PTL

\* No two folders of the result have one place.
FoldersApart ==
    Done("folders") =>
        \A f, o \in DOMAIN outcome :
            (/\ outcome[f] # None /\ outcome[o] # None
             /\ Key(outcome[f].path) = Key(outcome[o].path)) => f = o

\* Folders never end up at one place (reconcileFolders).
THEOREM OneFolderToAPlace == DecisionSpec => []FoldersApart
<1>1. DecisionInv => FoldersApart
  <2> SUFFICES ASSUME DecisionInv, Done("folders"),
                      NEW f \in DOMAIN outcome, NEW o \in DOMAIN outcome,
                      outcome[f] # None, outcome[o] # None,
                      Key(outcome[f].path) = Key(outcome[o].path)
               PROVE  f = o
    BY DEF FoldersApart
  <2> DEFINE j == job.of
  <2>1. outcome = Folders(j) BY DEF DecisionInv, Outcome, Done, Folders
  <2>2. IsFolderJob(j) BY FoldersAssumption DEF DecisionInv, Given, Tagged, Done
  <2>3. f \in DOMAIN j.base /\ o \in DOMAIN j.base BY <2>1, Placing
  <2>4. Winner(j, f) /\ Winner(j, o) /\ Key(Chosen(j, f).path) = Key(Chosen(j, o).path)
    BY <2>1, <2>3, Placing
  <2>5. f \in Rivals(j, o) /\ o \in Rivals(j, f) BY <2>3, <2>4 DEF Rivals, Winner
  <2>6. f \in Int /\ o \in Int BY <2>2, <2>3 DEF IsFolderJob
  <2>7. f <= o /\ o <= f BY <2>4, <2>5 DEF Winner, HoldsPath
  <2> QED BY <2>6, <2>7
<1> QED BY <1>1, DecisionInvariance, PTL

-----------------------------------------------------------------------------
(* Versions and packages.                                                   *)

\* The greater of two numbers.
LEMMA MaxOfTwo ==
  ASSUME NEW m \in Int, NEW n \in Int
  PROVE  Max({m, n}) \in {m, n} /\ Max({m, n}) >= m /\ Max({m, n}) >= n
<1>1. \E x \in {m, n} : \A y \in {m, n} : x >= y
  <2>1. CASE m >= n BY <2>1
  <2>2. CASE n >= m BY <2>2
  <2> QED BY <2>1, <2>2
<1> QED BY <1>1 DEF Max

\* A set of natural numbers that has a member has a least one, and Min is it.
LEMMA LeastMember ==
  ASSUME NEW T \in SUBSET Nat, T # {}
  PROVE  Min(T) \in T /\ \A m \in T : Min(T) <= m
<1>1. \E n \in T : \A m \in T : ~(<<m, n>> \in OpToRel(<, Nat))
  <2> DEFINE R == OpToRel(<, Nat)
  <2>1. IsWellFoundedOn(R, Nat) BY NatLessThanWellFounded
  <2> HIDE DEF R
  <2>2. \E n \in T : \A m \in T : ~(<<m, n>> \in R) BY <2>1, WFMin
  <2> QED BY <2>2 DEF R
<1>2. PICK n \in T : \A m \in T : ~(<<m, n>> \in OpToRel(<, Nat))
  BY <1>1, Zenon
<1>3. ASSUME NEW m \in T PROVE n <= m
  <2>1. ~(<<m, n>> \in {ss \in Nat \X Nat : ss[1] < ss[2]})
    BY <1>2, Zenon DEF OpToRel
  <2>2. m \in Nat /\ n \in Nat OBVIOUS
  <2>3. <<m, n>> \in Nat \X Nat /\ <<m, n>>[1] = m /\ <<m, n>>[2] = n
    BY <2>2
  <2>4. ~(m < n) BY <2>1, <2>3
  <2> QED BY <2>4, <2>2
<1>4. \E n1 \in T : \A m \in T : n1 <= m BY <1>3
<1> QED BY <1>4 DEF Min

\* The first place where two pre-releases differ.
Differ(x, y) == {i \in 1 .. Max({Len(x), Len(y)}) : i > Len(x) \/ i > Len(y) \/ x[i] # y[i]}

\* Two pre-releases that differ do so at a first place, before which they are one.
LEMMA FirstDifference ==
  ASSUME NEW x \in Seq(Parts), NEW y \in Seq(Parts)
  PROVE  /\ Differ(x, y) = Differ(y, x)
         /\ Differ(x, y) = {} => x = y
         /\ Differ(x, y) # {} =>
               LET i == Min(Differ(x, y))
               IN  /\ i \in Differ(x, y) /\ i \in Nat \ {0}
                   /\ i <= Len(x) \/ i <= Len(y)
                   /\ \A k \in 1 .. i - 1 : k <= Len(x) /\ k <= Len(y) /\ x[k] = y[k]
<1>0. Len(x) \in Nat /\ Len(y) \in Nat OBVIOUS
<1> DEFINE M == Max({Len(x), Len(y)})
<1>1. M \in {Len(x), Len(y)} /\ M >= Len(x) /\ M >= Len(y)
  <2>1. Len(x) \in Int /\ Len(y) \in Int BY <1>0
  <2> QED BY <2>1, MaxOfTwo
<1>2. Max({Len(x), Len(y)}) = Max({Len(y), Len(x)})
  <2>1. {Len(x), Len(y)} = {Len(y), Len(x)} OBVIOUS
  <2> QED BY <2>1
<1>3. Differ(x, y) = Differ(y, x) BY <1>2 DEF Differ
<1>6. Differ(x, y) = {i \in 1 .. M : i > Len(x) \/ i > Len(y) \/ x[i] # y[i]} BY DEF Differ
<1> HIDE DEF M
<1>4. ASSUME Differ(x, y) = {} PROVE x = y
  <2>1. ASSUME NEW i \in 1 .. M PROVE i <= Len(x) /\ i <= Len(y) /\ x[i] = y[i]
    <3>1. ~(i > Len(x) \/ i > Len(y) \/ x[i] # y[i]) BY <1>4, <1>6
    <3> QED BY <1>0, <1>1, <3>1
  <2>2. Len(x) = Len(y) /\ \A i \in 1 .. Len(x) : x[i] = y[i]
    <3>1. CASE Len(x) < Len(y) BY <3>1, <1>0, <1>1, <2>1
    <3>2. CASE Len(y) < Len(x) BY <3>2, <1>0, <1>1, <2>1
    <3>3. CASE Len(x) = Len(y) BY <3>3, <1>0, <1>1, <2>1
    <3> QED BY <1>0, <3>1, <3>2, <3>3
  <2> QED BY <2>2
<1>5. ASSUME Differ(x, y) # {}
      PROVE  LET i == Min(Differ(x, y))
             IN  /\ i \in Differ(x, y) /\ i \in Nat \ {0}
                 /\ i <= Len(x) \/ i <= Len(y)
                 /\ \A k \in 1 .. i - 1 : k <= Len(x) /\ k <= Len(y) /\ x[k] = y[k]
  <2> DEFINE i == Min(Differ(x, y))
  <2>1. Differ(x, y) \subseteq Nat BY <1>0, <1>1, <1>6
  <2>2. i \in Differ(x, y) /\ \A k \in Differ(x, y) : i <= k BY <1>5, <2>1, LeastMember
  <2> HIDE DEF i
  <2>3. i \in 1 .. M BY <2>2, <1>6
  <2>4. \A k \in 1 .. i - 1 : k \in 1 .. M /\ k \notin Differ(x, y)
    BY <1>0, <1>1, <2>2, <2>3
  <2>5. \A k \in 1 .. i - 1 : k <= Len(x) /\ k <= Len(y) /\ x[k] = y[k]
    BY <1>0, <1>1, <1>6, <2>4
  <2>6. i \in Nat \ {0} /\ (i <= Len(x) \/ i <= Len(y)) BY <1>0, <1>1, <2>3
  <2> QED BY <2>2, <2>5, <2>6 DEF i
<1> QED BY <1>3, <1>4, <1>5

\* Two parts that differ are ordered, the one way or the other.
LEMMA PartOrders ==
  ASSUME NEW x \in Parts, NEW y \in Parts, x # y
  PROVE  PartOrder(x, y) \in {1, -1} /\ PartOrder(y, x) = 0 - PartOrder(x, y)
<1>1. /\ x.word \in BOOLEAN /\ y.word \in BOOLEAN /\ x.at \in Int /\ y.at \in Int
      /\ x = [word |-> x.word, at |-> x.at] /\ y = [word |-> y.word, at |-> y.at]
  BY DEF Parts
<1>2. x.word = y.word => x.at # y.at BY <1>1
<1> QED BY <1>1, <1>2 DEF PartOrder

\* Two pre-releases are ordered alike from either side.
LEMMA PreOrders ==
  ASSUME NEW x \in Seq(Parts), NEW y \in Seq(Parts)
  PROVE  PreOrder(x, y) \in {1, 0, -1} /\ PreOrder(y, x) = 0 - PreOrder(x, y)
<1>1. CASE Differ(x, y) = {}
  <2>1. PreOrder(x, y) = 0 /\ PreOrder(y, x) = 0
    <3>1. Differ(y, x) = {} BY <1>1, FirstDifference
    <3> QED BY <1>1, <3>1 DEF PreOrder, Differ
  <2> QED BY <2>1
<1>2. CASE Differ(x, y) # {}
  <2> DEFINE i == Min(Differ(x, y))
  <2>1. /\ i \in Differ(x, y) /\ i \in Nat \ {0} /\ (i <= Len(x) \/ i <= Len(y))
        /\ Differ(y, x) = Differ(x, y)
    BY <1>2, FirstDifference
  <2>2. PreOrder(x, y) = IF i > Len(x) THEN -1 ELSE IF i > Len(y) THEN 1 ELSE PartOrder(x[i], y[i])
    BY <1>2 DEF PreOrder, Differ
  <2>3. PreOrder(y, x) = IF i > Len(y) THEN -1 ELSE IF i > Len(x) THEN 1 ELSE PartOrder(y[i], x[i])
    BY <1>2, <2>1 DEF PreOrder, Differ
  <2> HIDE DEF i
  <2>4. Len(x) \in Nat /\ Len(y) \in Nat OBVIOUS
  <2>5. CASE i > Len(x)
    <3>1. ~(i > Len(y)) BY <2>1, <2>4, <2>5
    <3>2. PreOrder(x, y) = -1 /\ PreOrder(y, x) = 1 BY <2>2, <2>3, <2>5, <3>1
    <3> QED BY <3>2
  <2>6. CASE i > Len(y)
    <3>1. ~(i > Len(x)) BY <2>1, <2>4, <2>6
    <3>2. PreOrder(x, y) = 1 /\ PreOrder(y, x) = -1 BY <2>2, <2>3, <2>6, <3>1
    <3> QED BY <3>2
  <2>7. CASE ~(i > Len(x)) /\ ~(i > Len(y))
    <3>1. x[i] \in Parts /\ y[i] \in Parts BY <2>1, <2>4, <2>7
    <3>2. x[i] # y[i] BY <2>1, <2>7 DEF Differ
    <3> QED BY <2>2, <2>3, <2>7, <3>1, <3>2, PartOrders
  <2> QED BY <2>5, <2>6, <2>7
<1> QED BY <1>1, <1>2

\* Two devices compare two versions alike, whichever is the local one.
THEOREM VersionsCompare ==
  \A a, b \in Releases : /\ VersionOrder(a, b) \in {1, 0, -1}
                         /\ VersionOrder(b, a) = 0 - VersionOrder(a, b)
<1> SUFFICES ASSUME NEW a \in Releases, NEW b \in Releases
             PROVE  VersionOrder(a, b) \in {1, 0, -1} /\ VersionOrder(b, a) = 0 - VersionOrder(a, b)
  OBVIOUS
<1>1. CASE a = b
  <2>1. VersionOrder(a, b) = 0 /\ VersionOrder(b, a) = 0 BY <1>1 DEF VersionOrder
  <2> QED BY <2>1
<1>2. CASE a # b /\ (a = None \/ b = None) BY <1>2 DEF VersionOrder
<1>3. CASE a # b /\ a # None /\ b # None
  <2>1. /\ a.core \in Int /\ b.core \in Int /\ a.pre \in Seq(Parts) /\ b.pre \in Seq(Parts)
        /\ a = [core |-> a.core, pre |-> a.pre] /\ b = [core |-> b.core, pre |-> b.pre]
    BY <1>3 DEF Releases
  <2>2. CASE a.core # b.core BY <1>3, <2>1, <2>2 DEF VersionOrder
  <2>3. CASE a.core = b.core
    <3>1. ~(a.pre = <<>> /\ b.pre = <<>>) BY <1>3, <2>1, <2>3
    <3>2. /\ PreOrder(a.pre, b.pre) \in {1, 0, -1}
          /\ PreOrder(b.pre, a.pre) = 0 - PreOrder(a.pre, b.pre)
      BY <2>1, PreOrders
    <3> QED BY <1>3, <2>3, <3>1, <3>2 DEF VersionOrder
  <2> QED BY <2>2, <2>3
<1> QED BY <1>1, <1>2, <1>3
\* What the choice between two copies comes to.
PackageKept(b, l, r, o) ==
    LET offered    == {p \in {l, r} : p.complete}
        program(p) == [f \in Program \cap DOMAIN p.files |-> p.files[f]]
        removed    == \/ DOMAIN l.files = {} /\ SamePackage(r, b)
                      \/ DOMAIN r.files = {} /\ SamePackage(l, b)
    IN  IF DOMAIN o.files = {} THEN removed \/ offered = {}
        ELSE IF offered = {} THEN o.files = b.files
        ELSE \E p \in offered : /\ program(p) = program(o)
                                /\ \A q \in offered : VersionOrder(p.version, q.version) >= 0

\* A copy that is used must have its program from the newest complete one.
LEMMA Newest ==
  ASSUME NEW l, NEW r, IsCopy(l), IsCopy(r)
  PROVE  /\ VersionOrder(l.version, l.version) = 0
         /\ VersionOrder(l.version, r.version) \in {1, 0, -1}
         /\ VersionOrder(r.version, l.version) = 0 - VersionOrder(l.version, r.version)
<1>1. l.version \in Releases /\ r.version \in Releases BY DEF IsCopy
<1> QED BY <1>1, VersionsCompare DEF VersionOrder

\* The choice of a package, case by case: no copy, one copy or both are complete.
LEMMA PackageChosen ==
  ASSUME NEW b, NEW l, NEW r, IsCopy(b), IsCopy(l), IsCopy(r),
         NEW o, o = SelectPluginPackage(b, l, r)
  PROVE  PackageKept(b, l, r, o)
<1> DEFINE order == VersionOrder(l.version, r.version)
           none(p) == DOMAIN p.files = {}
           L == Choice("local", l)
           R == Choice("remote", r)
           program(p) == [f \in Program \cap DOMAIN p.files |-> p.files[f]]
           newest(p) == \A q \in {x \in {l, r} : x.complete} :
                          VersionOrder(p.version, q.version) >= 0
<1>0. /\ l.complete \in BOOLEAN /\ r.complete \in BOOLEAN
      /\ \A p \in {l, r} : p.complete => Program \subseteq DOMAIN p.files /\ ~none(p)
  BY DEF IsCopy, Program
<1>1. \A side, p : Choice(side, p).files = p.files BY DEF Choice
<1>2. order \in {1, 0, -1} /\ VersionOrder(r.version, l.version) = 0 - order
      /\ VersionOrder(l.version, l.version) = 0 /\ VersionOrder(r.version, r.version) = 0
  BY Newest
<1>3. none(l) /\ none(r) => SamePackage(l, r)
  <2> SUFFICES ASSUME none(l), none(r) PROVE l.files = r.files BY DEF SamePackage
  <2>1. l.files = [f \in {} |-> l.files[f]] /\ r.files = [f \in {} |-> r.files[f]] BY DEF IsCopy
  <2> QED BY <2>1
<1> HIDE DEF order
<1>4. CASE ~l.complete /\ ~r.complete
  <2>1. {p \in {l, r} : p.complete} = {} BY <1>4
  <2>2. o.files = b.files \/ (none(l) /\ none(r) /\ o.files = r.files)
    <3>1. CASE ~(none(l) /\ none(r)) BY <1>1, <1>4, <3>1 DEF SelectPluginPackage
    <3>2. CASE none(l) /\ none(r)
      <4>1. SamePackage(l, r) BY <1>3, <3>2
      <4>2. o = Choice("equal", r) BY <1>4, <3>2, <4>1 DEF SelectPluginPackage
      <4> QED BY <1>1, <3>2, <4>2
    <3> QED BY <3>1, <3>2
  <2> QED BY <2>1, <2>2 DEF PackageKept
<1>5. CASE l.complete /\ ~r.complete
  <2>1. {p \in {l, r} : p.complete} = {l} BY <1>5
  <2>2. newest(l) BY <1>2, <2>1
  <2>3. ~none(l) BY <1>0, <1>5
  <2>4. \/ o.files = l.files
        \/ o.files = r.files /\ SamePackage(l, r)
        \/ o.files = r.files /\ none(r) /\ SamePackage(l, b)
    <3>1. CASE SamePackage(l, r)
      <4>1. o = Choice("equal", r) BY <1>5, <3>1 DEF SelectPluginPackage
      <4> QED BY <1>1, <3>1, <4>1
    <3>2. CASE ~SamePackage(l, r) /\ o = L BY <1>1, <3>2
    <3>3. CASE ~SamePackage(l, r) /\ SamePackage(l, b) /\ ~SamePackage(r, b) /\ none(r)
      <4>1. o = R BY <1>5, <2>3, <3>3 DEF SelectPluginPackage
      <4> QED BY <1>1, <3>3, <4>1
    <3>4. CASE ~SamePackage(l, r) /\ ~(SamePackage(l, b) /\ ~SamePackage(r, b) /\ none(r))
      <4>1. ~(SamePackage(l, b) /\ SamePackage(r, b)) BY <3>4 DEF SamePackage
      <4>2. o = L
        <5>1. CASE ~none(r) BY <1>5, <2>3, <3>4, <5>1 DEF SelectPluginPackage
        <5>2. CASE none(r) /\ SamePackage(r, b)
          <6>1. ~SamePackage(l, b) BY <4>1, <5>2
          <6> QED BY <1>5, <2>3, <3>4, <5>2, <6>1 DEF SelectPluginPackage
        <5>3. CASE none(r) /\ ~SamePackage(r, b)
          <6>1. ~SamePackage(l, b) BY <3>4, <5>3
          <6> QED BY <1>5, <2>3, <3>4, <5>3, <6>1 DEF SelectPluginPackage
        <5> QED BY <5>1, <5>2, <5>3
      <4> QED BY <1>1, <4>2
    <3> QED BY <3>1, <3>3, <3>4
  <2>5. CASE o.files = l.files
    <3>1. program(l) = program(o) BY <2>5
    <3> QED BY <2>1, <2>2, <2>3, <2>5, <3>1 DEF PackageKept
  <2>6. CASE o.files = r.files /\ none(r) /\ SamePackage(l, b) BY <2>6 DEF PackageKept
  <2> QED BY <2>4, <2>5, <2>6 DEF SamePackage
<1>6. CASE ~l.complete /\ r.complete
  <2>1. {p \in {l, r} : p.complete} = {r} BY <1>6
  <2>2. newest(r) BY <1>2, <2>1
  <2>3. ~none(r) BY <1>0, <1>6
  <2>4. \/ o.files = r.files
        \/ o.files = l.files /\ none(l) /\ SamePackage(r, b)
    <3>1. CASE SamePackage(l, r)
      <4>1. o = Choice("equal", r) BY <1>6, <3>1 DEF SelectPluginPackage
      <4> QED BY <1>1, <4>1
    <3>2. CASE ~SamePackage(l, r) /\ ~SamePackage(l, b) /\ SamePackage(r, b) /\ none(l)
      <4>1. o = L BY <1>6, <2>3, <3>2 DEF SelectPluginPackage
      <4> QED BY <1>1, <3>2, <4>1
    <3>3. CASE ~SamePackage(l, r) /\ ~(~SamePackage(l, b) /\ SamePackage(r, b) /\ none(l))
      <4>1. ~(SamePackage(l, b) /\ SamePackage(r, b)) BY <3>3 DEF SamePackage
      <4>2. o = R
        <5>1. CASE ~none(l) BY <1>6, <2>3, <3>3, <5>1 DEF SelectPluginPackage
        <5>2. CASE none(l) /\ SamePackage(l, b)
          <6>1. ~SamePackage(r, b) BY <4>1, <5>2
          <6> QED BY <1>6, <2>3, <3>3, <5>2, <6>1 DEF SelectPluginPackage
        <5>3. CASE none(l) /\ ~SamePackage(l, b)
          <6>1. ~SamePackage(r, b) BY <3>3, <5>3
          <6> QED BY <1>6, <2>3, <3>3, <5>3, <6>1 DEF SelectPluginPackage
        <5> QED BY <5>1, <5>2, <5>3
      <4> QED BY <1>1, <4>2
    <3> QED BY <3>1, <3>2, <3>3
  <2>5. CASE o.files = r.files
    <3>1. program(r) = program(o) BY <2>5
    <3> QED BY <2>1, <2>2, <2>3, <2>5, <3>1 DEF PackageKept
  <2>6. CASE o.files = l.files /\ none(l) /\ SamePackage(r, b) BY <2>6 DEF PackageKept
  <2> QED BY <2>4, <2>5, <2>6
<1>7. CASE l.complete /\ r.complete
  <2>1. {p \in {l, r} : p.complete} = {l, r} BY <1>7
  <2>2. ~none(l) /\ ~none(r) BY <1>0, <1>7
  <2>3. \/ SamePackage(l, r) /\ o.files = r.files
        \/ order = 1 /\ o.files = l.files
        \/ order = -1 /\ o.files = r.files
        \/ order = 0 /\ o.files \in {l.files, r.files}
        \/ order = 0 /\ o.files = Union(l, r)
    <3>1. CASE SamePackage(l, r)
      <4>1. o = Choice("equal", r) BY <1>7, <3>1 DEF SelectPluginPackage
      <4> QED BY <1>1, <3>1, <4>1
    <3>2. CASE ~SamePackage(l, r) /\ order # 0
      <4>1. o = IF order > 0 THEN L ELSE R
        BY <1>7, <2>2, <3>2 DEF SelectPluginPackage, order
      <4>2. CASE order = 1 BY <1>1, <4>1, <4>2
      <4>3. CASE order = -1 BY <1>1, <4>1, <4>3
      <4> QED BY <1>2, <3>2, <4>2, <4>3
    <3>3. CASE ~SamePackage(l, r) /\ order = 0
      <4>1. o \in {L, R, [side |-> "equal", files |-> Union(l, r)]}
        BY <1>7, <2>2, <3>3 DEF SelectPluginPackage, order
      <4> QED BY <1>1, <3>3, <4>1
    <3> QED BY <3>1, <3>2, <3>3
  <2>4. (order >= 0 => newest(l)) /\ (order <= 0 => newest(r))
    <3>1. order >= 0 => newest(l) BY <1>2, <2>1 DEF order
    <3>2. order <= 0 => newest(r) BY <1>2, <2>1 DEF order
    <3> QED BY <3>1, <3>2
  <2>5. CASE \E p \in {l, r} : program(p) = program(o) /\ newest(p) /\ ~none(o)
    BY <2>1, <2>5 DEF PackageKept
  <2>6. CASE SamePackage(l, r) /\ o.files = r.files
    <3>1. program(l) = program(o) /\ program(r) = program(o) /\ ~none(o)
      BY <2>2, <2>6 DEF SamePackage
    <3>2. order >= 0 \/ order <= 0 BY <1>2
    <3> QED BY <2>4, <2>5, <3>1, <3>2
  <2>7. CASE order >= 0 /\ o.files = l.files
    <3>1. program(l) = program(o) /\ ~none(o) BY <2>2, <2>7
    <3> QED BY <2>4, <2>5, <2>7, <3>1
  <2>8. CASE order <= 0 /\ o.files = r.files
    <3>1. program(r) = program(o) /\ ~none(o) BY <2>2, <2>8
    <3> QED BY <2>4, <2>5, <2>8, <3>1
  <2>9. CASE order = 0 /\ o.files = Union(l, r)
    <3>1. DOMAIN o.files = DOMAIN l.files \cup DOMAIN r.files BY <2>9 DEF Union
    <3>2. \A f \in DOMAIN l.files : o.files[f] = l.files[f] BY <2>9 DEF Union
    <3>3. Program \cap DOMAIN o.files = Program /\ Program \cap DOMAIN l.files = Program
      BY <1>0, <1>7, <3>1
    <3>4. program(l) = program(o) BY <3>2, <3>3
    <3>5. ~none(o) BY <2>2, <3>1
    <3>6. newest(l) BY <2>4, <2>9
    <3> QED BY <2>5, <3>4, <3>5, <3>6
  <2> QED BY <2>3, <2>6, <2>7, <2>8, <2>9
<1> QED BY <1>0, <1>4, <1>5, <1>6, <1>7

\* A package is never mixed from two programs, nor taken from an older or an incomplete copy.
THEOREM PackagesWhole == DecisionSpec => []PackagesStayWhole
<1>1. DecisionInv => PackagesStayWhole
  <2> SUFFICES ASSUME DecisionInv, Done("package") PROVE PackagesStayWhole BY DEF PackagesStayWhole
  <2> DEFINE j == job.of
  <2>1. outcome = SelectPluginPackage(j.base, j.local, j.remote)
    BY DEF DecisionInv, Outcome, Done
  <2>2. IsCopy(j.base) /\ IsCopy(j.local) /\ IsCopy(j.remote)
    BY PackagesAssumption DEF DecisionInv, Given, Tagged, Done
  <2>3. PackageKept(j.base, j.local, j.remote, outcome) BY <2>1, <2>2, PackageChosen
  <2> QED BY <2>3 DEF PackageKept, PackagesStayWhole
<1> QED BY <1>1, DecisionInvariance, PTL
-----------------------------------------------------------------------------
(* Moves.                                                                   *)

\* The moves pair entries that vanished with entries that appeared, each at most once.
PairsUp(moves, prev, next) ==
    /\ \A m \in moves : m \in Removed(prev, next) \X Created(prev, next)
    /\ \A m, n \in moves : m[1] = n[1] <=> m[2] = n[2]

\* A set of one member has no two.
LEMMA OnlyOne ==
  ASSUME NEW S, IsFiniteSet(S), Only(S), NEW x \in S, NEW y \in S
  PROVE  x = y
<1>1. PICK z : S = {z} BY FS_Singleton DEF Only
<1> QED BY <1>1

\* Moves found by identity or content are pairs.
LEMMA IdentityPairs ==
  ASSUME NEW prev, NEW next, IsListing(prev), IsListing(next)
  PROVE  PairsUp(IdentityMoves(prev, next), prev, next)
<1> DEFINE R == Removed(prev, next)
           C == Created(prev, next)
<1>1. /\ IsFiniteSet(prev) /\ IsFiniteSet(next) /\ R \subseteq prev /\ C \subseteq next
  BY DEF IsListing, Removed, Created
<1>2. IsFiniteSet(R) /\ IsFiniteSet(C) BY <1>1, FS_Subset
<1>3. \A m \in IdentityMoves(prev, next) : m \in R \X C BY DEF IdentityMoves, ByIdentity, ByContent
<1> HIDE DEF R, C
<1>4. ASSUME NEW m \in ByIdentity(prev, next), NEW n \in ByIdentity(prev, next)
      PROVE  m[1] = n[1] <=> m[2] = n[2]
  <2>1. /\ m[1].id = m[2].id /\ Only(With(prev, m[1].id)) /\ Only(With(next, m[1].id))
        /\ n[1].id = n[2].id
    BY DEF ByIdentity
  <2>2. m[1] \in prev /\ m[2] \in next /\ n[1] \in prev /\ n[2] \in next
    BY <1>1, <1>3 DEF IdentityMoves
  <2>3. \A e \in prev : e.id = m[1].id => e \in With(prev, m[1].id) BY DEF With
  <2>4. \A e \in next : e.id = m[1].id => e \in With(next, m[1].id) BY DEF With
  <2>5. IsFiniteSet(With(prev, m[1].id)) /\ IsFiniteSet(With(next, m[1].id))
    <3>1. With(prev, m[1].id) \subseteq prev /\ With(next, m[1].id) \subseteq next BY DEF With
    <3> QED BY <1>1, <3>1, FS_Subset
  <2>6. n[1].id = m[1].id => m[1] = n[1] /\ m[2] = n[2]
    BY <2>1, <2>2, <2>3, <2>4, <2>5, OnlyOne
  <2> QED BY <2>1, <2>6
<1>5. ASSUME NEW m \in ByContent(prev, next), NEW n \in ByContent(prev, next)
      PROVE  m[1] = n[1] <=> m[2] = n[2]
  <2> DEFINE gone(h) == {e \in R : e.hash = h}
             come(h) == {e \in C : e.hash = h}
  <2>1. /\ m[1].hash = m[2].hash /\ Only(gone(m[1].hash)) /\ Only(come(m[1].hash))
        /\ n[1].hash = n[2].hash
    BY DEF ByContent, R, C
  <2>2. m[1] \in R /\ m[2] \in C /\ n[1] \in R /\ n[2] \in C BY <1>3 DEF IdentityMoves
  <2>3. IsFiniteSet(gone(m[1].hash)) /\ IsFiniteSet(come(m[1].hash))
    <3>1. gone(m[1].hash) \subseteq R /\ come(m[1].hash) \subseteq C OBVIOUS
    <3> QED BY <1>2, <3>1, FS_Subset
  <2>4. n[1].hash = m[1].hash => /\ {m[1], n[1]} \subseteq gone(m[1].hash)
                                 /\ {m[2], n[2]} \subseteq come(m[1].hash)
    BY <2>1, <2>2
  <2> HIDE DEF gone, come
  <2>5. n[1].hash = m[1].hash => m[1] = n[1] /\ m[2] = n[2] BY <2>1, <2>3, <2>4, OnlyOne
  <2> QED BY <2>1, <2>5
<1>6. ASSUME NEW m \in ByIdentity(prev, next), NEW n \in ByContent(prev, next)
      PROVE  m[1] # n[1] /\ m[2] # n[2]
  BY DEF ByContent
<1> QED BY <1>3, <1>4, <1>5, <1>6 DEF PairsUp, IdentityMoves, R, C

\* One entry more that follows its folder leaves the moves pairs.
LEMMA FollowKeepsPairs ==
  ASSUME NEW prev, NEW next, IsListing(next), NEW moves, PairsUp(moves, prev, next),
         NEW s \in Removed(prev, next), NEW folderMoves
  PROVE  PairsUp(FollowFolder(s, folderMoves, prev, next, moves), prev, next)
<1> DEFINE after == FollowFolder(s, folderMoves, prev, next, moves)
<1>1. CASE after = moves BY <1>1
<1>2. CASE after # moves
  <2>1. PICK p : after = moves \cup ({s} \X Candidates(s, p, prev, next, moves))
    BY <1>2 DEF FollowFolder
  <2>2. \A m \in moves : m[1] # s BY <1>2 DEF FollowFolder
  <2> DEFINE D == Candidates(s, p, prev, next, moves)
  <2>3. D \subseteq Created(prev, next) /\ \A d \in D, m \in moves : m[2] # d BY DEF Candidates
  <2>4. \A d, e \in D : d.path = e.path BY DEF Candidates
  <2>5. \A d, e \in D : d = e BY <2>3, <2>4 DEF IsListing, Created
  <2> HIDE DEF D
  <2>6. \A m \in {s} \X D :
           m[1] = s /\ m[2] \in D /\ m \in Removed(prev, next) \X Created(prev, next)
    BY <2>3
  <2> QED BY <2>1, <2>2, <2>3, <2>5, <2>6 DEF PairsUp, D
<1> QED BY <1>1, <1>2

\* The moves after each entry, as they are computed from those before it.
LEMMA FollowingsUnfold ==
  ASSUME NEW prev, NEW next, NEW order \in Seq(Removed(prev, next))
  PROVE  Followings(prev, next, order) =
           [i \in 0 .. Len(order) |->
              IF i = 0 THEN IdentityMoves(prev, next)
              ELSE FollowFolder(order[i], FolderMoves(prev, next), prev, next,
                                Followings(prev, next, order)[i - 1])]
<1> DEFINE N == Len(order)
           after(i, moves) == FollowFolder(order[i], FolderMoves(prev, next), prev, next, moves)
           first == IdentityMoves(prev, next)
           unfolds(f, n) == f = [i \in 0 .. n |-> IF i = 0 THEN first ELSE after(i, f[i - 1])]
           Bad == {n \in 0 .. N : ~ \E f : unfolds(f, n)}
<1>0. N \in Nat OBVIOUS
<1>1. Bad = {}
  <2> SUFFICES ASSUME Bad # {} PROVE FALSE OBVIOUS
  <2> DEFINE n == Min(Bad)
  <2>1. n \in Bad /\ \A k \in Bad : n <= k
    <3>1. Bad \in SUBSET Nat OBVIOUS
    <3> HIDE DEF Bad
    <3> QED BY <3>1, LeastMember
  <2> HIDE DEF n
  <2>2. n \in 0 .. N /\ ~ \E f : unfolds(f, n) BY <2>1
  <2> HIDE DEF unfolds
  <2>3. CASE n = 0
    <3>1. unfolds([i \in 0 .. 0 |-> first], 0) BY DEF unfolds
    <3> QED BY <2>2, <2>3, <3>1
  <2>4. CASE n # 0
    <3>1. n - 1 \in 0 .. N /\ ~(n <= n - 1) BY <1>0, <2>2, <2>4
    <3>2. n - 1 \notin Bad BY <2>1, <3>1
    <3>3. PICK g : unfolds(g, n - 1) BY <3>1, <3>2
    <3> DEFINE f == [i \in 0 .. n |-> IF i = n THEN after(n, g[n - 1]) ELSE g[i]]
    <3>4. \A i \in 0 .. n - 1 : g[i] = IF i = 0 THEN first ELSE after(i, g[i - 1])
      BY <3>3 DEF unfolds
    <3>5. \A i \in 0 .. n - 1 : f[i] = g[i] BY <2>2
    <3>6. f[n] = after(n, g[n - 1]) BY <2>2
    <3> HIDE DEF after
    <3>7. \A i \in 0 .. n : f[i] = IF i = 0 THEN first ELSE after(i, f[i - 1])
      <4> SUFFICES ASSUME NEW i \in 0 .. n PROVE f[i] = IF i = 0 THEN first ELSE after(i, f[i - 1])
        OBVIOUS
      <4>1. CASE i = n
        <5>1. f[n - 1] = g[n - 1] BY <2>2, <2>4, <3>5
        <5> QED BY <2>4, <3>6, <4>1, <5>1
      <4>2. CASE i = 0 BY <2>2, <2>4, <3>4, <3>5, <4>2
      <4>3. CASE i # n /\ i # 0
        <5>1. i \in 0 .. n - 1 /\ i - 1 \in 0 .. n - 1 BY <2>2, <4>3
        <5> QED BY <3>4, <3>5, <4>3, <5>1
      <4> QED BY <4>1, <4>2, <4>3
    <3>8. unfolds(f, n) BY <3>7 DEF unfolds
    <3> QED BY <2>2, <3>8
  <2> QED BY <2>3, <2>4
<1>2. \E f : unfolds(f, N)
  <2>1. N \in 0 .. N BY <1>0
  <2> QED BY <1>1, <2>1
<1>3. Followings(prev, next, order) = CHOOSE f : unfolds(f, N) BY DEF Followings
<1>4. unfolds(Followings(prev, next, order), N) BY <1>2, <1>3
<1> QED BY <1>4

\* They stay pairs while the removed entries follow their folders, one after another.
LEMMA FollowingsPair ==
  ASSUME NEW prev, NEW next, IsListing(prev), IsListing(next),
         NEW order \in Seq(Removed(prev, next))
  PROVE  PairsUp(Followings(prev, next, order)[Len(order)], prev, next)
<1> DEFINE F == Followings(prev, next, order)
           N == Len(order)
           Bad == {i \in 0 .. N : ~PairsUp(F[i], prev, next)}
<1>0. N \in Nat OBVIOUS
<1>1. F = [i \in 0 .. N |->
             IF i = 0 THEN IdentityMoves(prev, next)
             ELSE FollowFolder(order[i], FolderMoves(prev, next), prev, next, F[i - 1])]
  BY FollowingsUnfold
<1> HIDE DEF F
<1>2. Bad = {}
  <2> SUFFICES ASSUME Bad # {} PROVE FALSE OBVIOUS
  <2> DEFINE n == Min(Bad)
  <2>1. n \in Bad /\ \A k \in Bad : n <= k
    <3>1. Bad \in SUBSET Nat BY <1>0
    <3> HIDE DEF Bad
    <3> QED BY <3>1, LeastMember
  <2> HIDE DEF n
  <2>2. n \in 0 .. N /\ ~PairsUp(F[n], prev, next) BY <2>1
  <2>3. CASE n = 0
    <3>1. F[0] = IdentityMoves(prev, next) BY <1>0, <1>1
    <3> QED BY <1>0, <2>2, <2>3, <3>1, IdentityPairs
  <2>4. CASE n # 0
    <3>1. n - 1 \in 0 .. N /\ n - 1 \notin Bad BY <1>0, <2>1, <2>2, <2>4
    <3>2. PairsUp(F[n - 1], prev, next) BY <3>1
    <3>3. F[n] = FollowFolder(order[n], FolderMoves(prev, next), prev, next, F[n - 1])
      BY <1>1, <2>2, <2>4
    <3>4. order[n] \in Removed(prev, next) BY <1>0, <2>2, <2>4
    <3> QED BY <1>0, <2>2, <3>2, <3>3, <3>4, FollowKeepsPairs
  <2> QED BY <2>3, <2>4
<1> QED BY <1>0, <1>2 DEF F

-----------------------------------------------------------------------------
(* Alignment.                                                               *)

VersionsIn(listing) == {<<e.was, e.hash>> : e \in listing}

\* Entries, one to a path.
Proper(listing) == /\ \A e \in listing : IsEntry(e)
                   /\ \A e, f \in listing : e.path = f.path => e = f

\* Moves lead away from places of the baseline the side has left, each to one place that is new.
Carries(moves, base, listing) ==
    /\ \A m \in moves : /\ m[1] \in PathsOf(base) /\ m[1] \notin PathsOf(listing)
                        /\ m[2] \notin PathsOf(base)
    /\ \A m, n \in moves : m[1] = n[1] => m[2] = n[2]

Mine(s, source) ==
    LET l == To(s.localMoves, source)
    IN  UNION {EntryAt(s.local, p) : p \in IF l = {} THEN {source} ELSE l}
Theirs(s, source) ==
    LET r == To(s.remoteMoves, source)
    IN  UNION {EntryAt(s.remote, p) : p \in IF r = {} THEN {source} ELSE r}

\* An entry put elsewhere keeps its version.
LEMMA EntryMoves ==
  ASSUME NEW e, IsEntry(e), NEW p
  PROVE  /\ IsEntry([e EXCEPT !.path = p]) /\ [e EXCEPT !.path = p].path = p
         /\ [e EXCEPT !.path = p].was = e.was /\ [e EXCEPT !.path = p].hash = e.hash
<1>1. [e EXCEPT !.path = p]
        = [path |-> p, hash |-> e.hash, id |-> e.id, size |-> e.size, was |-> e.was]
  BY DEF IsEntry
<1> QED BY <1>1 DEF IsEntry

\* So does one that takes over an identity.
LEMMA EntryInherits ==
  ASSUME NEW e, IsEntry(e), NEW i
  PROVE  /\ IsEntry([e EXCEPT !.id = i]) /\ [e EXCEPT !.id = i].path = e.path
         /\ [e EXCEPT !.id = i].was = e.was /\ [e EXCEPT !.id = i].hash = e.hash
<1>1. [e EXCEPT !.id = i]
        = [path |-> e.path, hash |-> e.hash, id |-> i, size |-> e.size, was |-> e.was]
  BY DEF IsEntry
<1> QED BY <1>1 DEF IsEntry

\* Where a listing has a file.
LEMMA HoldsPaths == \A listing, path : Holds(listing, path) <=> path \in PathsOf(listing)
BY DEF Holds, EntryAt, PathsOf

\* The entry of one file (mine, which becomes S) is all that a put takes from a listing.
PutsOne(listing, old, p, S, mine) ==
    /\ Proper(listing) /\ mine \subseteq listing
    /\ S = {} <=> mine = {}
    /\ \A e, f \in S : e = f
    /\ \A e \in S : IsEntry(e)
    /\ VersionsIn(S) = VersionsIn(mine)
    /\ \A e \in mine : e.path \in old
    /\ \A e \in listing : e.path \in old \/ (mine # {} /\ e.path = p) => e \in mine

\* Such a put loses no version, and takes the file from its old places to the new one.
LEMMA PutOne ==
  ASSUME NEW listing, NEW old, NEW p, NEW S, NEW mine, PutsOne(listing, old, p, S, mine)
  PROVE  /\ Proper(Put(listing, old, S, {p}))
         /\ VersionsIn(Put(listing, old, S, {p})) = VersionsIn(listing)
         /\ \A q : Holds(Put(listing, old, S, {p}), q)
                     <=> (q = p /\ S # {}) \/ (Holds(listing, q) /\ q \notin old)
<1> DEFINE put == Put(listing, old, S, {p})
           rest == {e \in listing : e \notin mine}
           placed == {[e EXCEPT !.path = p] : e \in S}
<1>0. /\ Proper(listing) /\ mine \subseteq listing
      /\ S = {} <=> mine = {}
      /\ \A e, f \in S : e = f
      /\ \A e \in S : IsEntry(e)
      /\ VersionsIn(S) = VersionsIn(mine)
      /\ \A e \in mine : e.path \in old
      /\ \A e \in listing : e.path \in old \/ (mine # {} /\ e.path = p) => e \in mine
  BY DEF PutsOne
<1>1. TheEntry({p}) = p BY DEF TheEntry
<1>2. {e \in listing : e.path \notin old \cup (IF S = {} THEN {} ELSE {p})} = rest
  BY <1>0
<1>3. put = rest \cup placed BY <1>1, <1>2 DEF Put
<1> HIDE DEF put
<1> DEFINE put1(e) == [e EXCEPT !.path = p]
<1>4. ASSUME NEW e \in S
      PROVE  /\ IsEntry(put1(e)) /\ put1(e).path = p
             /\ put1(e).was = e.was /\ put1(e).hash = e.hash
  <2>1. IsEntry(e) BY <1>0
  <2> QED BY <2>1, EntryMoves
<1> HIDE DEF put1
<1>5. placed = {put1(e) : e \in S} BY DEF put1
<1> HIDE DEF placed
<1>6. /\ \A x \in placed : IsEntry(x) /\ x.path = p
      /\ \A x, y \in placed : x = y
      /\ S # {} <=> placed # {}
  BY <1>0, <1>4, <1>5
<1>7. VersionsIn(placed) = VersionsIn(S) BY <1>4, <1>5 DEF VersionsIn
<1>8. placed # {} => \A e \in rest : e.path # p BY <1>0, <1>6
<1>9. Proper(put)
  <2>1. \A e \in put : IsEntry(e) BY <1>0, <1>3, <1>6 DEF Proper
  <2>2. \A e, f \in put : e.path = f.path => e = f BY <1>0, <1>3, <1>6, <1>8 DEF Proper
  <2> QED BY <2>1, <2>2 DEF Proper
<1>10. VersionsIn(put) = VersionsIn(listing)
  <2>1. VersionsIn(put) = VersionsIn(rest) \cup VersionsIn(placed) BY <1>3 DEF VersionsIn
  <2>2. VersionsIn(listing) = VersionsIn(rest) \cup VersionsIn(mine) BY <1>0 DEF VersionsIn
  <2> QED BY <1>0, <1>7, <2>1, <2>2
<1>11. ASSUME NEW q
       PROVE  Holds(put, q) <=> (q = p /\ S # {}) \/ (Holds(listing, q) /\ q \notin old)
  <2>1. Holds(put, q) <=> \E e \in put : e.path = q BY DEF Holds, EntryAt
  <2>2. Holds(listing, q) <=> \E e \in listing : e.path = q BY DEF Holds, EntryAt
  <2>3. (\E e \in placed : e.path = q) <=> (q = p /\ S # {}) BY <1>6
  <2>4. (\E e \in rest : e.path = q) => (\E e \in listing : e.path = q) /\ q \notin old BY <1>0
  <2>5. (\E e \in listing : e.path = q) /\ q \notin old => (\E e \in rest : e.path = q) BY <1>0
  <2> QED BY <1>3, <2>1, <2>2, <2>3, <2>4, <2>5
<1> QED BY <1>9, <1>10, <1>11 DEF put

\* What the alignment of one file starts from.
Ready(s, source) ==
    /\ s = [base |-> s.base, local |-> s.local, remote |-> s.remote, claimed |-> s.claimed,
            localMoves |-> s.localMoves, remoteMoves |-> s.remoteMoves]
    /\ Proper(s.base) /\ Proper(s.local) /\ Proper(s.remote)
    /\ \A m, n \in s.localMoves : m[1] = n[1] => m[2] = n[2]
    /\ \A m, n \in s.remoteMoves : m[1] = n[1] => m[2] = n[2]
    /\ To(s.localMoves, source) # {} => ~Holds(s.local, source)
    /\ To(s.remoteMoves, source) # {} => ~Holds(s.remote, source)

\* What it comes to when the file goes to p.
MetAt(s, t, source, p) ==
    /\ p \in To(s.localMoves, source) \cup To(s.remoteMoves, source)
    /\ ~Holds(s.base, p)
    /\ t = [base |-> t.base, local |-> t.local, remote |-> t.remote, claimed |-> s.claimed \cup {p},
            localMoves |-> s.localMoves, remoteMoves |-> s.remoteMoves]
    /\ Proper(t.base) /\ Proper(t.local) /\ Proper(t.remote)
    /\ VersionsIn(t.local) = VersionsIn(s.local) /\ VersionsIn(t.remote) = VersionsIn(s.remote)
    /\ \A q : Holds(t.base, q) <=> q = p \/ (Holds(s.base, q) /\ q # source)
    /\ \A q : Holds(t.local, q) <=>
                 \/ q = p /\ Mine(s, source) # {}
                 \/ Holds(s.local, q) /\ q # source /\ q \notin To(s.localMoves, source)
    /\ \A q : Holds(t.remote, q) <=>
                 \/ q = p /\ Theirs(s, source) # {}
                 \/ Holds(s.remote, q) /\ q # source /\ q \notin To(s.remoteMoves, source)

\* The file is somewhere to be aligned, and there is a place for it.
Acts(s, source, times) == /\ Holds(s.base, source) /\ Mine(s, source) \cup Theirs(s, source) # {}
                          /\ Destinations(s, source, times) # {}

\* Aligning one file moves it as a whole, or nothing.
LEMMA AlignStep ==
  ASSUME NEW s, NEW source, NEW times, Ready(s, source)
  PROVE  IF Acts(s, source, times)
         THEN \E p : /\ Destinations(s, source, times) = {p} /\ p \notin s.claimed
                     /\ MetAt(s, AlignOne(s, source, times), source, p)
         ELSE AlignOne(s, source, times) = s
<1> DEFINE l == To(s.localMoves, source)
           r == To(s.remoteMoves, source)
           mine == Mine(s, source)
           theirs == Theirs(s, source)
           t == AlignOne(s, source, times)
           D == Destinations(s, source, times)
           b == TheEntry(EntryAt(s.base, source))
<1>1. CASE ~Acts(s, source, times)
  <2>1. ~(Holds(s.base, source) /\ mine \cup theirs # {} /\ D # {}) BY <1>1 DEF Acts
  <2>2. t = s BY <2>1, Zenon DEF AlignOne, Mine, Theirs
  <2> QED BY <1>1, <2>2
<1>2. CASE Acts(s, source, times)
  <2>1. Holds(s.base, source) /\ mine \cup theirs # {} /\ D # {} BY <1>2 DEF Acts
  <2>2. (\A x, y \in l : x = y) /\ (\A x, y \in r : x = y) BY DEF Ready, To
  <2>3. D \subseteq IF l = {} THEN r ELSE IF r = {} \/ Later(times) THEN l ELSE r
    BY DEF Destinations
  <2>4. \A x, y \in D : x = y BY <2>2, <2>3
  <2>5. PICK p : p \in D BY <2>1
  <2>6. D = {p} BY <2>4, <2>5
  <2>7. /\ p \in l \cup r /\ p \notin s.claimed /\ ~Holds(s.base, p)
        /\ r = {} /\ l # {} => ~Holds(s.remote, p)
        /\ l = {} /\ r # {} => ~Holds(s.local, p)
        /\ l # {} /\ r # {} /\ l # r =>
              \A x \in l, y \in r : ~Holds(s.remote, x) /\ ~Holds(s.local, y)
    <3>1. /\ r = {} => ~(\E x \in l : Holds(s.remote, x))
          /\ l = {} => ~(\E x \in r : Holds(s.local, x))
          /\ (l # {} /\ r # {} /\ l # r) =>
                ~(\E x \in l : Holds(s.remote, x) \/ \E y \in r : Holds(s.local, y))
          /\ p \notin s.claimed /\ ~Holds(s.base, p)
      BY <2>5 DEF Destinations
    <3>2. p \in l \cup r BY <2>3, <2>5
    <3>3. r = {} /\ l # {} => ~Holds(s.remote, p) BY <3>1, <3>2
    <3>4. l = {} /\ r # {} => ~Holds(s.local, p) BY <3>1, <3>2
    <3> QED BY <3>1, <3>2, <3>3, <3>4
  <2>8. t = [base |-> Put(s.base, {source}, {b}, {p}),
             local |-> Put(s.local, {source} \cup l, {Inheriting(e, b) : e \in mine}, {p}),
             remote |-> Put(s.remote, {source} \cup r, theirs, {p}),
             claimed |-> s.claimed \cup {p},
             localMoves |-> s.localMoves, remoteMoves |-> s.remoteMoves]
    <3>1. t = [s EXCEPT !.claimed = @ \cup D,
                        !.base   = Put(@, {source}, {b}, D),
                        !.local  = Put(@, {source} \cup l, {Inheriting(e, b) : e \in mine}, D),
                        !.remote = Put(@, {source} \cup r, theirs, D)]
      BY <2>1, Zenon DEF AlignOne, Mine, Theirs
    <3>2. s = [base |-> s.base, local |-> s.local, remote |-> s.remote, claimed |-> s.claimed,
               localMoves |-> s.localMoves, remoteMoves |-> s.remoteMoves]
      BY DEF Ready
    <3> HIDE DEF t, D, l, r, b, mine, theirs
    <3> QED BY <2>6, <3>1, <3>2
  <2>9. /\ mine \subseteq s.local /\ \A e, f \in mine : e = f
        /\ \A e \in mine : e.path \in IF l = {} THEN {source} ELSE l
        /\ \A e \in s.local : e.path \in (IF l = {} THEN {source} ELSE l) => e \in mine
    BY <2>2 DEF Mine, EntryAt, Ready, Proper
  <2>10. /\ theirs \subseteq s.remote /\ \A e, f \in theirs : e = f
         /\ \A e \in theirs : e.path \in IF r = {} THEN {source} ELSE r
         /\ \A e \in s.remote : e.path \in (IF r = {} THEN {source} ELSE r) => e \in theirs
    BY <2>2 DEF Theirs, EntryAt, Ready, Proper
  <2>11. /\ l # {} => ~Holds(s.local, source)
         /\ r # {} => ~Holds(s.remote, source)
         /\ \A x : Holds(s.local, x) <=> \E e \in s.local : e.path = x
         /\ \A x : Holds(s.remote, x) <=> \E e \in s.remote : e.path = x
         /\ \A x : Holds(s.base, x) <=> \E e \in s.base : e.path = x
    BY DEF Ready, Holds, EntryAt
  <2>12. Proper(s.base) /\ Proper(s.local) /\ Proper(s.remote) BY DEF Ready
  <2>13. b \in s.base /\ b.path = source
    <3>1. \E e : e \in EntryAt(s.base, source) BY <2>1 DEF Holds
    <3>2. b \in EntryAt(s.base, source) BY <3>1 DEF TheEntry
    <3> QED BY <3>2 DEF EntryAt
  <2> HIDE DEF D, t, b, mine, theirs, l, r
  <2>14. /\ Proper(t.base) /\ \A q : Holds(t.base, q) <=> q = p \/ (Holds(s.base, q) /\ q # source)
    <3>1. IsEntry(b) BY <2>12, <2>13 DEF Proper
    <3>2. \A e \in s.base : e.path \in {source} \/ e.path = p => e \in {b}
      BY <2>7, <2>11, <2>12, <2>13 DEF Proper
    <3>3. PutsOne(s.base, {source}, p, {b}, {b})
      BY <2>12, <2>13, <3>1, <3>2 DEF PutsOne
    <3>4. /\ Proper(Put(s.base, {source}, {b}, {p}))
          /\ \A q : Holds(Put(s.base, {source}, {b}, {p}), q)
                      <=> (q = p /\ {b} # {}) \/ (Holds(s.base, q) /\ q \notin {source})
      BY <3>3, PutOne
    <3>5. t.base = Put(s.base, {source}, {b}, {p}) BY <2>8
    <3> QED BY <3>4, <3>5
  <2>15. /\ Proper(t.local) /\ VersionsIn(t.local) = VersionsIn(s.local)
         /\ \A q : Holds(t.local, q) <=> \/ q = p /\ mine # {}
                                         \/ Holds(s.local, q) /\ q # source /\ q \notin l
    <3> DEFINE S == {Inheriting(e, b) : e \in mine}
               old == {source} \cup l
    <3>1. \A e \in mine : IsEntry(e) BY <2>9, <2>12 DEF Proper
    <3>2. \A e \in mine : /\ IsEntry(Inheriting(e, b))
                          /\ Inheriting(e, b).was = e.was /\ Inheriting(e, b).hash = e.hash
      BY <3>1, EntryInherits DEF Inheriting
    <3>3. (S = {} <=> mine = {}) /\ (\A e, f \in S : e = f) /\ (\A e \in S : IsEntry(e))
      BY <2>9, <3>2
    <3>4. VersionsIn(S) = VersionsIn(mine) BY <3>2 DEF VersionsIn
    <3>5. \A e \in mine : e.path \in old BY <2>9
    <3>6. \A e \in s.local : e.path \in old \/ (mine # {} /\ e.path = p) => e \in mine
      BY <2>7, <2>9, <2>11
    <3>7. PutsOne(s.local, old, p, S, mine)
      BY <2>9, <2>12, <3>3, <3>4, <3>5, <3>6 DEF PutsOne
    <3> HIDE DEF S, old
    <3>8. /\ Proper(Put(s.local, old, S, {p}))
          /\ VersionsIn(Put(s.local, old, S, {p})) = VersionsIn(s.local)
          /\ \A q : Holds(Put(s.local, old, S, {p}), q)
                      <=> (q = p /\ S # {}) \/ (Holds(s.local, q) /\ q \notin old)
      BY <3>7, PutOne
    <3>9. t.local = Put(s.local, old, S, {p}) BY <2>8 DEF S, old
    <3>10. \A q : q \notin old <=> q # source /\ q \notin l BY DEF old
    <3> QED BY <3>3, <3>8, <3>9, <3>10
  <2>16. /\ Proper(t.remote) /\ VersionsIn(t.remote) = VersionsIn(s.remote)
         /\ \A q : Holds(t.remote, q) <=> \/ q = p /\ theirs # {}
                                          \/ Holds(s.remote, q) /\ q # source /\ q \notin r
    <3> DEFINE old == {source} \cup r
    <3>1. \A e \in theirs : IsEntry(e) BY <2>10, <2>12 DEF Proper
    <3>2. \A e \in theirs : e.path \in old BY <2>10
    <3>3. \A e \in s.remote : e.path \in old \/ (theirs # {} /\ e.path = p) => e \in theirs
      BY <2>7, <2>10, <2>11
    <3>4. PutsOne(s.remote, old, p, theirs, theirs)
      BY <2>10, <2>12, <3>1, <3>2, <3>3 DEF PutsOne
    <3> HIDE DEF old
    <3>5. /\ Proper(Put(s.remote, old, theirs, {p}))
          /\ VersionsIn(Put(s.remote, old, theirs, {p})) = VersionsIn(s.remote)
          /\ \A q : Holds(Put(s.remote, old, theirs, {p}), q)
                      <=> (q = p /\ theirs # {}) \/ (Holds(s.remote, q) /\ q \notin old)
      BY <3>4, PutOne
    <3>6. t.remote = Put(s.remote, old, theirs, {p}) BY <2>8 DEF old
    <3>7. \A q : q \notin old <=> q # source /\ q \notin r BY DEF old
    <3> QED BY <3>5, <3>6, <3>7
  <2>17. t = [base |-> t.base, local |-> t.local, remote |-> t.remote,
              claimed |-> s.claimed \cup {p},
              localMoves |-> s.localMoves, remoteMoves |-> s.remoteMoves]
    BY <2>8
  <2>18. MetAt(s, t, source, p)
    BY <2>7, <2>14, <2>15, <2>16, <2>17 DEF MetAt, l, r, mine, theirs
  <2> QED BY <1>2, <2>6, <2>7, <2>18 DEF D, t
<1> QED BY <1>1, <1>2
\* The listings after the first i files of the baseline.
Aligned(j, s, i) ==
    LET start == AlignStart(j.base, j.local, j.remote, j.renames)
    IN  /\ s = [base |-> s.base, local |-> s.local, remote |-> s.remote, claimed |-> s.claimed,
                localMoves |-> start.localMoves, remoteMoves |-> start.remoteMoves]
        /\ Proper(s.base) /\ Proper(s.local) /\ Proper(s.remote)
        /\ VersionsIn(s.local) = VersionsIn(j.local) /\ VersionsIn(s.remote) = VersionsIn(j.remote)
        /\ \A k \in i + 1 .. Len(j.order) :
              /\ Holds(s.base, j.order[k])
              /\ To(s.localMoves, j.order[k]) # {} => ~Holds(s.local, j.order[k])
              /\ To(s.remoteMoves, j.order[k]) # {} => ~Holds(s.remote, j.order[k])

\* Moves found by identity lead from places the side has left to new ones.
LEMMA IdentityCarries ==
  ASSUME NEW base, NEW listing, IsListing(base), IsListing(listing)
  PROVE  Carries(Moves(IdentityMoves(base, listing)), base, listing)
<1> DEFINE pairs == IdentityMoves(base, listing)
<1>1. PairsUp(pairs, base, listing) BY IdentityPairs
<1>2. \A m \in pairs : m[1] \in Removed(base, listing) /\ m[2] \in Created(base, listing)
  BY <1>1 DEF PairsUp
<1> HIDE DEF pairs
<1>3. ASSUME NEW x \in Moves(pairs)
      PROVE  x[1] \in PathsOf(base) /\ x[1] \notin PathsOf(listing) /\ x[2] \notin PathsOf(base)
  <2>1. PICK m \in pairs : x = <<m[1].path, m[2].path>> BY DEF Moves
  <2> QED BY <1>2, <2>1 DEF Removed, Created, PathsOf
<1>4. ASSUME NEW x \in Moves(pairs), NEW y \in Moves(pairs), x[1] = y[1] PROVE x[2] = y[2]
  <2>1. PICK m \in pairs : x = <<m[1].path, m[2].path>> BY DEF Moves
  <2>2. PICK n \in pairs : y = <<n[1].path, n[2].path>> BY DEF Moves
  <2>3. m[1].path = n[1].path BY <1>4, <2>1, <2>2
  <2>4. m[1] \in base /\ n[1] \in base BY <1>2 DEF Removed
  <2>5. m[1] = n[1] BY <2>3, <2>4 DEF IsListing
  <2>6. m[2] = n[2] BY <1>1, <2>5 DEF PairsUp
  <2> QED BY <2>1, <2>2, <2>6
<1> QED BY <1>3, <1>4 DEF Carries, pairs

\* The local side's moves, those seen in the editor and those of an identity.
LEMMA LocalCarries ==
  ASSUME NEW base, NEW local, NEW renames, IsListing(base), IsListing(local)
  PROVE  Carries(LocalMoves(base, local, renames), base, local)
<1> DEFINE seen == {<<e.path, Followed(e.path, renames)>> : e \in Renamed(base, local, renames)}
           found == Moves(IdentityMoves(base, local))
           moves == LocalMoves(base, local, renames)
<1>1. Carries(found, base, local) BY IdentityCarries
<1>2. moves = seen \cup {m \in found : To(seen, m[1]) = {}} BY DEF LocalMoves
<1>3. \A e \in Renamed(base, local, renames) :
        /\ e.path \in PathsOf(base) /\ e.path \notin PathsOf(local)
        /\ Followed(e.path, renames) \notin PathsOf(base)
  BY HoldsPaths DEF Renamed, PathsOf
<1>4. \A m \in seen : /\ m[2] = Followed(m[1], renames)
                      /\ m[1] \in PathsOf(base) /\ m[1] \notin PathsOf(local)
                      /\ m[2] \notin PathsOf(base)
  BY <1>3
<1> HIDE DEF seen, found, moves
<1>5. \A m \in moves : /\ m[1] \in PathsOf(base) /\ m[1] \notin PathsOf(local)
                       /\ m[2] \notin PathsOf(base)
  BY <1>1, <1>2, <1>4 DEF Carries
<1>6. ASSUME NEW m \in moves, NEW n \in moves, m[1] = n[1] PROVE m[2] = n[2]
  <2>1. CASE m \in seen /\ n \in seen BY <1>4, <1>6, <2>1
  <2>2. CASE m \in found /\ n \in found BY <1>1, <1>6, <2>2 DEF Carries
  <2>3. \A x \in seen : \A y \in moves : y \notin seen => x[1] # y[1] BY <1>2 DEF To
  <2> QED BY <1>2, <1>6, <2>1, <2>2, <2>3
<1> QED BY <1>5, <1>6 DEF Carries, moves

\* An identity carried over changes neither places nor versions.
LEMMA IdentityKept ==
  ASSUME NEW base, NEW local, NEW renames, Proper(local)
  PROVE  LET named == KeepIdentity(base, local, renames)
         IN  /\ Proper(named) /\ PathsOf(named) = PathsOf(local)
             /\ VersionsIn(named) = VersionsIn(local)
<1> DEFINE from(l) == {e \in Renamed(base, local, renames) :
                          e.id # None /\ Followed(e.path, renames) = l.path}
           name(l) == IF from(l) = {} THEN l ELSE [l EXCEPT !.id = TheEntry(from(l)).id]
           named == KeepIdentity(base, local, renames)
<1>1. named = {name(l) : l \in local} BY DEF KeepIdentity
<1>2. ASSUME NEW l \in local
      PROVE  /\ IsEntry(name(l)) /\ name(l).path = l.path
             /\ name(l).was = l.was /\ name(l).hash = l.hash
  <2>1. IsEntry(l) BY DEF Proper
  <2>2. CASE from(l) = {} BY <2>1, <2>2
  <2>3. CASE from(l) # {}
    <3>1. name(l) = [l EXCEPT !.id = TheEntry(from(l)).id] BY <2>3
    <3> HIDE DEF name, from
    <3> QED BY <2>1, <3>1, EntryInherits
  <2> QED BY <2>2, <2>3
<1> HIDE DEF name, named
<1>3. Proper(named) BY <1>1, <1>2 DEF Proper
<1>4. PathsOf(named) = PathsOf(local) BY <1>1, <1>2 DEF PathsOf
<1>5. VersionsIn(named) = VersionsIn(local) BY <1>1, <1>2 DEF VersionsIn
<1> QED BY <1>3, <1>4, <1>5 DEF named

\* Before the first file the listings are as they were found.
LEMMA AlignBegins ==
  ASSUME NEW j, IsAlignJob(j)
  PROVE  LET start == AlignStart(j.base, j.local, j.remote, j.renames)
         IN  /\ Aligned(j, start, 0)
             /\ Carries(start.localMoves, j.base, j.local)
             /\ Carries(start.remoteMoves, j.base, j.remote)
<1> DEFINE start == AlignStart(j.base, j.local, j.remote, j.renames)
           N == Len(j.order)
<1>1. start = [base |-> j.base, local |-> KeepIdentity(j.base, j.local, j.renames),
               remote |-> j.remote, claimed |-> {},
               localMoves |-> LocalMoves(j.base, j.local, j.renames),
               remoteMoves |-> Moves(IdentityMoves(j.base, j.remote))]
  BY DEF AlignStart
<1>2. /\ IsListing(j.base) /\ IsListing(j.local) /\ IsListing(j.remote)
      /\ Proper(j.base) /\ Proper(j.local) /\ Proper(j.remote)
  BY DEF IsAlignJob, IsListing, Proper
<1>3. /\ Carries(start.localMoves, j.base, j.local) /\ Carries(start.remoteMoves, j.base, j.remote)
  BY <1>1, <1>2, LocalCarries, IdentityCarries
<1>4. /\ Proper(start.local) /\ PathsOf(start.local) = PathsOf(j.local)
      /\ VersionsIn(start.local) = VersionsIn(j.local)
  BY <1>1, <1>2, IdentityKept
<1>5. ASSUME NEW k \in 0 + 1 .. N
      PROVE  /\ Holds(start.base, j.order[k])
             /\ To(start.localMoves, j.order[k]) # {} => ~Holds(start.local, j.order[k])
             /\ To(start.remoteMoves, j.order[k]) # {} => ~Holds(start.remote, j.order[k])
  <2>1. j.order[k] \in PathsOf(j.base) BY DEF IsAlignJob
  <2>2. To(start.localMoves, j.order[k]) # {} => j.order[k] \notin PathsOf(j.local)
    BY <1>3 DEF To, Carries
  <2>3. To(start.remoteMoves, j.order[k]) # {} => j.order[k] \notin PathsOf(j.remote)
    BY <1>3 DEF To, Carries
  <2>4. start.base = j.base /\ start.remote = j.remote BY <1>1
  <2> HIDE DEF start
  <2> QED BY <1>4, <2>1, <2>2, <2>3, <2>4, HoldsPaths
<1>6. Aligned(j, start, 0)
  <2>1. start.base = j.base /\ start.remote = j.remote BY <1>1
  <2>2. start = [base |-> start.base, local |-> start.local, remote |-> start.remote,
                 claimed |-> start.claimed,
                 localMoves |-> start.localMoves, remoteMoves |-> start.remoteMoves]
    BY <1>1
  <2> HIDE DEF start
  <2> QED BY <1>2, <1>4, <1>5, <2>1, <2>2 DEF Aligned, start
<1> QED BY <1>3, <1>6

\* The alignment of the next file keeps what it has, and leaves the others where they are.
LEMMA AlignGoesOn ==
  ASSUME NEW j, IsAlignJob(j), NEW i \in 0 .. Len(j.order) - 1, NEW s, Aligned(j, s, i)
  PROVE  /\ Ready(s, j.order[i + 1])
         /\ Aligned(j, AlignOne(s, j.order[i + 1], j.times), i + 1)
<1> DEFINE start == AlignStart(j.base, j.local, j.remote, j.renames)
           N == Len(j.order)
           source == j.order[i + 1]
           t == AlignOne(s, source, j.times)
<1>0. N \in Nat /\ i \in Nat /\ i + 1 \in 1 .. N BY DEF IsAlignJob
<1>1. /\ Carries(start.localMoves, j.base, j.local) /\ Carries(start.remoteMoves, j.base, j.remote)
  BY AlignBegins
<1> HIDE DEF start
<1>2. /\ s = [base |-> s.base, local |-> s.local, remote |-> s.remote, claimed |-> s.claimed,
              localMoves |-> start.localMoves, remoteMoves |-> start.remoteMoves]
      /\ Proper(s.base) /\ Proper(s.local) /\ Proper(s.remote)
      /\ VersionsIn(s.local) = VersionsIn(j.local) /\ VersionsIn(s.remote) = VersionsIn(j.remote)
      /\ \A k \in i + 1 .. N :
              /\ Holds(s.base, j.order[k])
              /\ To(s.localMoves, j.order[k]) # {} => ~Holds(s.local, j.order[k])
              /\ To(s.remoteMoves, j.order[k]) # {} => ~Holds(s.remote, j.order[k])
  BY DEF Aligned, start
<1>3. s.localMoves = start.localMoves /\ s.remoteMoves = start.remoteMoves BY <1>2
<1>4. Ready(s, source)
  <2>1. i + 1 \in i + 1 .. N BY <1>0
  <2>2. \A m, n \in s.localMoves : m[1] = n[1] => m[2] = n[2] BY <1>1, <1>3 DEF Carries
  <2>3. \A m, n \in s.remoteMoves : m[1] = n[1] => m[2] = n[2] BY <1>1, <1>3 DEF Carries
  <2>4. s = [base |-> s.base, local |-> s.local, remote |-> s.remote, claimed |-> s.claimed,
             localMoves |-> s.localMoves, remoteMoves |-> s.remoteMoves]
    BY <1>2, <1>3
  <2> QED BY <1>2, <2>1, <2>2, <2>3, <2>4 DEF Ready
<1>5. CASE t = s
  <2>1. \A k \in i + 2 .. N : k \in i + 1 .. N BY <1>0
  <2>2. (i + 1) + 1 = i + 2 BY <1>0
  <2>3. Aligned(j, s, i + 1) BY <1>2, <2>1, <2>2 DEF Aligned, start
  <2> QED BY <1>4, <1>5, <2>3
<1>6. CASE t # s
  <2>1. PICK p : MetAt(s, t, source, p) BY <1>4, <1>6, AlignStep
  <2> HIDE DEF t
  <2>2. /\ t = [base |-> t.base, local |-> t.local, remote |-> t.remote,
                claimed |-> s.claimed \cup {p},
                localMoves |-> s.localMoves, remoteMoves |-> s.remoteMoves]
        /\ Proper(t.base) /\ Proper(t.local) /\ Proper(t.remote)
        /\ VersionsIn(t.local) = VersionsIn(s.local) /\ VersionsIn(t.remote) = VersionsIn(s.remote)
        /\ ~Holds(s.base, p)
    BY <2>1 DEF MetAt
  <2>3. /\ t.claimed = s.claimed \cup {p}
        /\ t.localMoves = s.localMoves /\ t.remoteMoves = s.remoteMoves
    BY <2>2
  <2>4. ASSUME NEW k \in (i + 1) + 1 .. N
        PROVE  /\ Holds(t.base, j.order[k])
               /\ To(t.localMoves, j.order[k]) # {} => ~Holds(t.local, j.order[k])
               /\ To(t.remoteMoves, j.order[k]) # {} => ~Holds(t.remote, j.order[k])
    <3>1. k \in i + 1 .. N /\ k \in DOMAIN j.order /\ i + 1 \in DOMAIN j.order /\ k # i + 1
      BY <1>0 DEF IsAlignJob
    <3>2. j.order[k] # source BY <3>1 DEF IsAlignJob
    <3>3. Holds(s.base, j.order[k]) /\ j.order[k] # p BY <1>2, <2>2, <3>1
    <3>4. Holds(t.base, j.order[k]) BY <2>1, <3>2, <3>3 DEF MetAt
    <3>5. Holds(t.local, j.order[k]) => Holds(s.local, j.order[k]) BY <2>1, <3>3 DEF MetAt
    <3>6. Holds(t.remote, j.order[k]) => Holds(s.remote, j.order[k]) BY <2>1, <3>3 DEF MetAt
    <3> QED BY <1>2, <2>3, <3>1, <3>4, <3>5, <3>6
  <2>5. t = [base |-> t.base, local |-> t.local, remote |-> t.remote, claimed |-> t.claimed,
             localMoves |-> start.localMoves, remoteMoves |-> start.remoteMoves]
    BY <1>3, <2>2, <2>3
  <2>6. Aligned(j, t, i + 1) BY <1>2, <2>2, <2>4, <2>5 DEF Aligned, start
  <2> QED BY <1>4, <2>6 DEF t
<1> QED BY <1>5, <1>6
\* One side alone moves a file from a to b.
MovesAlone(movers, others, a, b) ==
    /\ \E m \in movers : m[1] = a /\ m[2] = b
    /\ \A m \in movers : m[2] = b <=> m[1] = a
    /\ \A m \in others : m[1] # a /\ m[2] # b

MovesOn(side, s, a, b) ==
    IF side = "local" THEN MovesAlone(s.localMoves, s.remoteMoves, a, b)
                      ELSE MovesAlone(s.remoteMoves, s.localMoves, a, b)

\* Before its turn the file is at b on the side that moved it and at a on the other.
Awaits(s, a, b, side) ==
    LET movers == IF side = "local" THEN s.local ELSE s.remote
        others == IF side = "local" THEN s.remote ELSE s.local
    IN  /\ ~Holds(s.base, b) /\ b \notin s.claimed
        /\ Holds(movers, b) /\ ~Holds(others, b) /\ Holds(others, a)

\* After it, all listings have it at b.
Met(s, a, b) ==
    \A listing \in {s.base, s.local, s.remote} : ~Holds(listing, a) /\ Holds(listing, b)

Arrives(j, s, i, k, b, side) ==
    IF i < k THEN Awaits(s, j.order[k], b, side) ELSE Met(s, j.order[k], b)

\* A file one side moved alone waits for its turn, arrives then, and stays.
LEMMA ArrivesStep ==
  ASSUME NEW j, IsAlignJob(j), NEW i \in 0 .. Len(j.order) - 1, NEW s, Aligned(j, s, i),
         NEW k \in DOMAIN j.order, NEW b, b \notin PathsOf(j.base), NEW side \in Sides,
         MovesOn(side, s, j.order[k], b),
         Arrives(j, s, i, k, b, side)
  PROVE  Arrives(j, AlignOne(s, j.order[i + 1], j.times), i + 1, k, b, side)
<1> DEFINE start == AlignStart(j.base, j.local, j.remote, j.renames)
           N == Len(j.order)
           source == j.order[i + 1]
           a == j.order[k]
           t == AlignOne(s, source, j.times)
           l == To(s.localMoves, source)
           r == To(s.remoteMoves, source)
<1>0. N \in Nat /\ i \in Nat /\ i + 1 \in 1 .. N /\ k \in 1 .. N /\ DOMAIN j.order = 1 .. N
  BY DEF IsAlignJob
<1>1. Ready(s, source) BY AlignGoesOn
<1>2. /\ Carries(s.localMoves, j.base, j.local) /\ Carries(s.remoteMoves, j.base, j.remote)
  <2>1. s.localMoves = start.localMoves /\ s.remoteMoves = start.remoteMoves BY DEF Aligned
  <2>2. Carries(start.localMoves, j.base, j.local) /\ Carries(start.remoteMoves, j.base, j.remote)
    BY AlignBegins
  <2> QED BY <2>1, <2>2
<1>3. /\ \A q \in l \cup r : q \notin PathsOf(j.base)
      /\ l = {m[2] : m \in {x \in s.localMoves : x[1] = source}}
      /\ r = {m[2] : m \in {x \in s.remoteMoves : x[1] = source}}
  BY <1>2 DEF To, Carries
<1>4. a \in PathsOf(j.base) /\ source \in PathsOf(j.base) /\ a # b /\ source # b
  BY <1>0 DEF IsAlignJob
<1>5. CASE i + 1 # k
  <2>1. source # a BY <1>0, <1>5 DEF IsAlignJob
  <2>2. a \notin l \cup r BY <1>3, <1>4
  <2>3. b \notin l \cup r
    <3>1. CASE side = "local" BY <1>3, <2>1, <3>1 DEF MovesAlone, MovesOn
    <3>2. CASE side = "remote" BY <1>3, <2>1, <3>2 DEF MovesAlone, MovesOn
    <3> QED BY <3>1, <3>2 DEF Sides
  <2> HIDE DEF a, l, r, source
  <2>4. t.claimed \subseteq s.claimed \cup l \cup r
        /\ \A x \in {a, b} : /\ Holds(t.base, x) <=> Holds(s.base, x)
                             /\ Holds(t.local, x) <=> Holds(s.local, x)
                             /\ Holds(t.remote, x) <=> Holds(s.remote, x)
    <3>1. CASE t = s BY <3>1
    <3>2. CASE t # s
      <4>1. PICK p : MetAt(s, t, source, p) BY <1>1, <3>2, AlignStep
      <4> HIDE DEF t
      <4>2. p \in l \cup r /\ p # a /\ p # b BY <2>2, <2>3, <4>1 DEF MetAt, l, r
      <4>3. t.claimed = s.claimed \cup {p} BY <4>1 DEF MetAt
      <4>4. \A x \in {a, b} : /\ x # source
                               /\ x \notin To(s.localMoves, source)
                               /\ x \notin To(s.remoteMoves, source)
        BY <1>4, <2>1, <2>2, <2>3 DEF l, r
      <4>5. \A x \in {a, b} : x # p BY <4>2
      <4> QED BY <4>1, <4>2, <4>3, <4>4, <4>5 DEF MetAt
    <3> QED BY <3>1, <3>2
  <2>5. i + 1 < k <=> i < k BY <1>0, <1>5
  <2> HIDE DEF t
  <2>6. Awaits(s, a, b, side) => Awaits(t, a, b, side)
    BY <2>3, <2>4 DEF Awaits
  <2>7. Met(s, a, b) => Met(t, a, b) BY <2>4 DEF Met
  <2> QED BY <2>5, <2>6, <2>7 DEF Arrives, a, t, source
<1>6. CASE i + 1 = k
  <2>1. source = a /\ i < k /\ ~(i + 1 < k) BY <1>0, <1>6
  <2>2. Awaits(s, a, b, side) BY <2>1 DEF Arrives
  <2>3. Holds(s.base, a) BY <1>0, <1>6 DEF Aligned
  <2>4. /\ side = "local" => l = {b} /\ r = {}
        /\ side = "remote" => r = {b} /\ l = {}
    <3>1. side = "local" => (\E m \in s.localMoves : m[1] = a /\ m[2] = b)
                            /\ (\A m \in s.localMoves : m[2] = b <=> m[1] = a)
                            /\ \A m \in s.remoteMoves : m[1] # a
      BY DEF MovesAlone, MovesOn
    <3>2. side = "remote" => (\E m \in s.remoteMoves : m[1] = a /\ m[2] = b)
                            /\ (\A m \in s.remoteMoves : m[2] = b <=> m[1] = a)
                            /\ \A m \in s.localMoves : m[1] # a
      BY DEF MovesAlone, MovesOn, Sides
    <3> HIDE DEF l, r
    <3> QED BY <1>3, <2>1, <3>1, <3>2
  <2>5. Destinations(s, source, j.times) = {b}
    <3>1. CASE side = "local"
      <4>1. l = {b} /\ r = {} /\ ~Holds(s.base, b) /\ b \notin s.claimed /\ ~Holds(s.remote, b)
        BY <2>2, <2>4, <3>1 DEF Awaits
      <4> QED BY <4>1 DEF Destinations
    <3>2. CASE side = "remote"
      <4>1. r = {b} /\ l = {} /\ ~Holds(s.base, b) /\ b \notin s.claimed /\ ~Holds(s.local, b)
        BY <2>2, <2>4, <3>2 DEF Awaits
      <4> QED BY <4>1 DEF Destinations
    <3> QED BY <3>1, <3>2 DEF Sides
  <2>6. Mine(s, source) # {} /\ Theirs(s, source) # {}
    <3>1. CASE side = "local"
      <4>1. Mine(s, source) = EntryAt(s.local, b) BY <2>4, <3>1 DEF Mine
      <4>2. Theirs(s, source) = EntryAt(s.remote, a) BY <2>1, <2>4, <3>1 DEF Theirs
      <4> QED BY <2>2, <3>1, <4>1, <4>2 DEF Awaits, Holds
    <3>2. CASE side = "remote"
      <4>1. Theirs(s, source) = EntryAt(s.remote, b) BY <2>4, <3>2 DEF Theirs
      <4>2. Mine(s, source) = EntryAt(s.local, a) BY <2>1, <2>4, <3>2 DEF Mine
      <4> QED BY <2>2, <3>2, <4>1, <4>2 DEF Awaits, Holds
    <3> QED BY <3>1, <3>2 DEF Sides
  <2>7. Acts(s, source, j.times) BY <2>1, <2>3, <2>5, <2>6 DEF Acts
  <2>8. MetAt(s, t, source, b)
    <3>1. PICK p : Destinations(s, source, j.times) = {p} /\ MetAt(s, t, source, p)
      BY <1>1, <2>7, AlignStep
    <3>2. p = b BY <2>5, <3>1
    <3> QED BY <3>1, <3>2
  <2> HIDE DEF t
  <2>9. /\ Holds(t.base, b) /\ Holds(t.local, b) /\ Holds(t.remote, b)
        /\ ~Holds(t.base, a) /\ ~Holds(t.local, a) /\ ~Holds(t.remote, a)
    BY <1>4, <2>1, <2>6, <2>8 DEF MetAt
  <2> QED BY <2>1, <2>9 DEF Arrives, Met, t
<1> QED BY <1>5, <1>6

\* The listings after each file, as they are computed from those before it.
LEMMA AlignmentsUnfold ==
  ASSUME NEW base, NEW local, NEW remote, NEW renames, NEW times, NEW order, Len(order) \in Nat
  PROVE  Alignments(base, local, remote, renames, times, order) =
           [i \in 0 .. Len(order) |->
              IF i = 0 THEN AlignStart(base, local, remote, renames)
              ELSE AlignOne(Alignments(base, local, remote, renames, times, order)[i - 1],
                            order[i], times)]
<1> DEFINE N == Len(order)
           after(i, s) == AlignOne(s, order[i], times)
           first == AlignStart(base, local, remote, renames)
           unfolds(f, n) == f = [i \in 0 .. n |-> IF i = 0 THEN first ELSE after(i, f[i - 1])]
           Bad == {n \in 0 .. N : ~ \E f : unfolds(f, n)}
<1>1. Bad = {}
  <2> SUFFICES ASSUME Bad # {} PROVE FALSE OBVIOUS
  <2> DEFINE n == Min(Bad)
  <2>1. n \in Bad /\ \A k \in Bad : n <= k
    <3>1. Bad \in SUBSET Nat OBVIOUS
    <3> HIDE DEF Bad
    <3> QED BY <3>1, LeastMember
  <2> HIDE DEF n
  <2>2. n \in 0 .. N /\ ~ \E f : unfolds(f, n) BY <2>1
  <2> HIDE DEF unfolds
  <2>3. CASE n = 0
    <3>1. unfolds([i \in 0 .. 0 |-> first], 0) BY DEF unfolds
    <3> QED BY <2>2, <2>3, <3>1
  <2>4. CASE n # 0
    <3>1. n - 1 \in 0 .. N /\ ~(n <= n - 1) BY <2>2, <2>4
    <3>2. n - 1 \notin Bad BY <2>1, <3>1
    <3>3. PICK g : unfolds(g, n - 1) BY <3>1, <3>2
    <3> DEFINE f == [i \in 0 .. n |-> IF i = n THEN after(n, g[n - 1]) ELSE g[i]]
    <3>4. \A i \in 0 .. n - 1 : g[i] = IF i = 0 THEN first ELSE after(i, g[i - 1])
      BY <3>3 DEF unfolds
    <3>5. \A i \in 0 .. n - 1 : f[i] = g[i] BY <2>2
    <3>6. f[n] = after(n, g[n - 1]) BY <2>2
    <3> HIDE DEF after, first
    <3>7. \A i \in 0 .. n : f[i] = IF i = 0 THEN first ELSE after(i, f[i - 1])
      <4> SUFFICES ASSUME NEW i \in 0 .. n PROVE f[i] = IF i = 0 THEN first ELSE after(i, f[i - 1])
        OBVIOUS
      <4>1. CASE i = n
        <5>1. f[n - 1] = g[n - 1] BY <2>2, <2>4, <3>5
        <5> QED BY <2>4, <3>6, <4>1, <5>1
      <4>2. CASE i = 0 BY <2>2, <2>4, <3>4, <3>5, <4>2
      <4>3. CASE i # n /\ i # 0
        <5>1. i \in 0 .. n - 1 /\ i - 1 \in 0 .. n - 1 BY <2>2, <4>3
        <5> QED BY <3>4, <3>5, <4>3, <5>1
      <4> QED BY <4>1, <4>2, <4>3
    <3>8. unfolds(f, n) BY <3>7 DEF unfolds
    <3> QED BY <2>2, <3>8
  <2> QED BY <2>3, <2>4
<1>2. \E f : unfolds(f, N)
  <2>1. N \in 0 .. N OBVIOUS
  <2> QED BY <1>1, <2>1
<1>3. Alignments(base, local, remote, renames, times, order) = CHOOSE f : unfolds(f, N)
  BY DEF Alignments
<1>4. unfolds(Alignments(base, local, remote, renames, times, order), N) BY <1>2, <1>3
<1> QED BY <1>4

\* After every file the listings are aligned so far, and a file one side moved alone arrives.
LEMMA AlignmentsGoOn ==
  ASSUME NEW j, IsAlignJob(j),
         NEW F, F = Alignments(j.base, j.local, j.remote, j.renames, j.times, j.order)
  PROVE  /\ \A i \in 0 .. Len(j.order) : Aligned(j, F[i], i)
         /\ \A k \in DOMAIN j.order, side \in Sides : \A b :
              LET first == AlignStart(j.base, j.local, j.remote, j.renames)
              IN  b \notin PathsOf(j.base) /\ MovesOn(side, first, j.order[k], b)
                    /\ Awaits(first, j.order[k], b, side) => Met(F[Len(j.order)], j.order[k], b)
<1> DEFINE N == Len(j.order)
           first == AlignStart(j.base, j.local, j.remote, j.renames)
           Bad == {i \in 0 .. N : ~Aligned(j, F[i], i)}
<1>0. N \in Nat /\ DOMAIN j.order = 1 .. N BY DEF IsAlignJob
<1>1. F[0] = first /\ \A i \in 0 .. N - 1 : F[i + 1] = AlignOne(F[i], j.order[i + 1], j.times)
  <2>1. F = [i \in 0 .. N |-> IF i = 0 THEN first ELSE AlignOne(F[i - 1], j.order[i], j.times)]
    BY <1>0, AlignmentsUnfold
  <2> HIDE DEF first
  <2>2. F[0] = first BY <1>0, <2>1
  <2>3. ASSUME NEW i \in 0 .. N - 1 PROVE F[i + 1] = AlignOne(F[i], j.order[i + 1], j.times)
    <3>1. i + 1 \in 0 .. N /\ i + 1 # 0 /\ (i + 1) - 1 = i BY <1>0
    <3> QED BY <2>1, <3>1
  <2> QED BY <2>2, <2>3
<1> HIDE DEF first
<1>2. Bad = {}
  <2> SUFFICES ASSUME Bad # {} PROVE FALSE OBVIOUS
  <2> DEFINE n == Min(Bad)
  <2>1. n \in Bad /\ \A k \in Bad : n <= k
    <3>1. Bad \in SUBSET Nat BY <1>0
    <3> HIDE DEF Bad
    <3> QED BY <3>1, LeastMember
  <2> HIDE DEF n
  <2>2. n \in 0 .. N /\ ~Aligned(j, F[n], n) BY <2>1
  <2>3. CASE n = 0
    <3>1. Aligned(j, first, 0) BY AlignBegins DEF first
    <3> QED BY <1>1, <2>2, <2>3, <3>1
  <2>4. CASE n # 0
    <3>1. n - 1 \in 0 .. N - 1 /\ n - 1 \in 0 .. N /\ ~(n <= n - 1) /\ (n - 1) + 1 = n
      BY <1>0, <2>2, <2>4
    <3>2. n - 1 \notin Bad BY <2>1, <3>1
    <3>3. Aligned(j, F[n - 1], n - 1) BY <3>1, <3>2
    <3>4. F[n] = AlignOne(F[n - 1], j.order[n], j.times) BY <1>1, <3>1
    <3>5. Aligned(j, AlignOne(F[n - 1], j.order[(n - 1) + 1], j.times), (n - 1) + 1)
      BY <3>1, <3>3, AlignGoesOn
    <3> QED BY <2>2, <3>1, <3>4, <3>5
  <2> QED BY <2>3, <2>4
<1>3. \A i \in 0 .. N : Aligned(j, F[i], i) BY <1>2
<1>4. ASSUME NEW k \in DOMAIN j.order, NEW b, NEW side \in Sides, b \notin PathsOf(j.base),
             MovesOn(side, first, j.order[k], b),
             Awaits(first, j.order[k], b, side)
      PROVE  Met(F[N], j.order[k], b)
  <2> DEFINE Late == {i \in 0 .. N : ~Arrives(j, F[i], i, k, b, side)}
  <2>1. Late = {}
    <3> SUFFICES ASSUME Late # {} PROVE FALSE OBVIOUS
    <3> DEFINE n == Min(Late)
    <3>1. n \in Late /\ \A m \in Late : n <= m
      <4>1. Late \in SUBSET Nat BY <1>0
      <4> HIDE DEF Late
      <4> QED BY <4>1, LeastMember
    <3> HIDE DEF n
    <3>2. n \in 0 .. N /\ ~Arrives(j, F[n], n, k, b, side) BY <3>1
    <3>3. CASE n = 0
      <4>1. 0 < k BY <1>0
      <4> QED BY <1>1, <1>4, <3>2, <3>3, <4>1 DEF Arrives
    <3>4. CASE n # 0
      <4>1. n - 1 \in 0 .. N - 1 /\ n - 1 \in 0 .. N /\ ~(n <= n - 1) /\ (n - 1) + 1 = n
        BY <1>0, <3>2, <3>4
      <4>2. n - 1 \notin Late BY <3>1, <4>1
      <4>3. Arrives(j, F[n - 1], n - 1, k, b, side) BY <4>1, <4>2
      <4>4. Aligned(j, F[n - 1], n - 1) BY <1>3, <4>1
      <4>5. F[n - 1].localMoves = first.localMoves /\ F[n - 1].remoteMoves = first.remoteMoves
        BY <4>4 DEF Aligned, first
      <4>6. MovesOn(side, F[n - 1], j.order[k], b) BY <1>4, <4>5 DEF MovesOn
      <4>7. Arrives(j, AlignOne(F[n - 1], j.order[(n - 1) + 1], j.times), (n - 1) + 1, k, b, side)
        BY <1>4, <4>1, <4>3, <4>4, <4>6, ArrivesStep
      <4>8. F[n] = AlignOne(F[n - 1], j.order[n], j.times) BY <1>1, <4>1
      <4> QED BY <3>2, <4>1, <4>7, <4>8
    <3> QED BY <3>3, <3>4
  <2>2. Arrives(j, F[N], N, k, b, side) BY <1>0, <2>1
  <2>3. ~(N < k) BY <1>0
  <2> QED BY <2>2, <2>3 DEF Arrives
<1> QED BY <1>3, <1>4 DEF first
\* A file one side moved by its identity, and where the others have it.
LEMMA MovedAlone ==
  ASSUME NEW j, NEW movers, NEW others, NEW a, NEW b, MovedByOne(j, a, b, movers, others),
         IsListing(j.base), IsListing(movers)
  PROVE  /\ MovesAlone(Moves(IdentityMoves(j.base, movers)),
                       Moves(IdentityMoves(j.base, others)), a, b)
         /\ b \notin PathsOf(j.base)
         /\ Holds(movers, b) /\ ~Holds(others, b) /\ Holds(others, a)
<1> DEFINE pairs == IdentityMoves(j.base, movers)
           their == IdentityMoves(j.base, others)
<1>1. PairsUp(pairs, j.base, movers) BY IdentityPairs
<1>2. \A m \in pairs : m[1] \in Removed(j.base, movers) /\ m[2] \in Created(j.base, movers)
  BY <1>1 DEF PairsUp
<1>3. PICK x \in pairs : x[1].path = a /\ x[2].path = b BY DEF MovedByOne
<1>4. \A m \in their : m[1].path # a /\ m[2].path # b BY DEF MovedByOne
<1> HIDE DEF pairs, their
<1>5. \A m \in Moves(their) : m[1] # a /\ m[2] # b BY <1>4 DEF Moves
<1>6. <<a, b>> \in Moves(pairs) BY <1>3 DEF Moves
<1>7. ASSUME NEW m \in Moves(pairs) PROVE m[2] = b <=> m[1] = a
  <2>1. PICK n \in pairs : m = <<n[1].path, n[2].path>> BY DEF Moves
  <2>2. n[1] \in j.base /\ x[1] \in j.base /\ n[2] \in movers /\ x[2] \in movers
    BY <1>2 DEF Removed, Created
  <2>3. n[1].path = a <=> n[1] = x[1] BY <1>3, <2>2 DEF IsListing
  <2>4. n[2].path = b <=> n[2] = x[2] BY <1>3, <2>2 DEF IsListing
  <2>5. n[1] = x[1] <=> n[2] = x[2] BY <1>1 DEF PairsUp
  <2> QED BY <2>1, <2>3, <2>4, <2>5
<1>8. MovesAlone(Moves(pairs), Moves(their), a, b)
  <2>1. \E m \in Moves(pairs) : m[1] = a /\ m[2] = b BY <1>6
  <2> QED BY <1>5, <1>7, <2>1 DEF MovesAlone
<1>9. b \notin PathsOf(j.base) BY <1>2, <1>3 DEF Created
<1>10. Holds(movers, b) BY <1>2, <1>3 DEF Created, Holds, EntryAt
<1>11. Holds(others, a)
  <2>1. {e.id : e \in EntryAt(others, a)} = {e.id : e \in EntryAt(j.base, a)} BY DEF MovedByOne
  <2>2. x[1] \in EntryAt(j.base, a) BY <1>2, <1>3 DEF Removed, EntryAt
  <2>3. x[1].id \in {e.id : e \in EntryAt(others, a)} BY <2>1, <2>2
  <2> QED BY <2>3 DEF Holds
<1>12. ~Holds(others, b) BY DEF MovedByOne
<1> QED BY <1>8, <1>9, <1>10, <1>11, <1>12 DEF pairs, their

\* Bringing moved files to one path loses no version, and an edit meets the rename.
LEMMA RenamesMeet == DecisionInv => RenamesMeetEdits
<1> SUFFICES ASSUME DecisionInv, Done("align") PROVE RenamesMeetEdits BY DEF RenamesMeetEdits
<1> DEFINE j == job.of
           F == Alignments(j.base, j.local, j.remote, j.renames, j.times, j.order)
           N == Len(j.order)
           first == AlignStart(j.base, j.local, j.remote, j.renames)
           moved(movers, others) ==
             {m \in PathsOf(j.base) \X PathsOf(movers) : MovedByOne(j, m[1], m[2], movers, others)}
<1>1. outcome = F[N] BY DEF DecisionInv, Outcome, Done, CanonicalizeMoves
<1>2. IsAlignJob(j) BY ListingsAssumption DEF DecisionInv, Given, Tagged, Done
<1>3. /\ N \in Nat /\ IsListing(j.base) /\ IsListing(j.local) /\ IsListing(j.remote)
      /\ \A path \in PathsOf(j.base) : \E k \in DOMAIN j.order : j.order[k] = path
  BY <1>2 DEF IsAlignJob
<1>4. Aligned(j, F[N], N) BY <1>2, <1>3, AlignmentsGoOn
<1>5. \A k \in DOMAIN j.order, side \in Sides : \A b :
        b \notin PathsOf(j.base) /\ MovesOn(side, first, j.order[k], b)
          /\ Awaits(first, j.order[k], b, side) => Met(F[N], j.order[k], b)
  BY <1>2, AlignmentsGoOn
<1> HIDE DEF F, first
<1>6. "local" \in Sides /\ "remote" \in Sides /\ "remote" # "local" BY DEF Sides
<1>7. /\ Proper(outcome.base) /\ Proper(outcome.local) /\ Proper(outcome.remote)
      /\ VersionsIn(outcome.local) = VersionsIn(j.local)
      /\ VersionsIn(outcome.remote) = VersionsIn(j.remote)
  BY <1>1, <1>4 DEF Aligned
<1>8. ASSUME Renamed(j.base, j.local, j.renames) = {}
      PROVE  \A m \in moved(j.local, j.remote) \cup moved(j.remote, j.local) :
               Met(outcome, m[1], m[2])
  <2>1. KeepIdentity(j.base, j.local, j.renames) = j.local BY <1>8 DEF KeepIdentity
  <2>2. LocalMoves(j.base, j.local, j.renames) = Moves(IdentityMoves(j.base, j.local))
    <3> DEFINE seen == {<<e.path, Followed(e.path, j.renames)>> :
                           e \in Renamed(j.base, j.local, j.renames)}
               found == Moves(IdentityMoves(j.base, j.local))
    <3>1. LocalMoves(j.base, j.local, j.renames) = seen \cup {m \in found : To(seen, m[1]) = {}}
      BY DEF LocalMoves
    <3>2. seen = {} BY <1>8
    <3>3. \A m : To({}, m) = {} BY DEF To
    <3> HIDE DEF seen, found
    <3>4. seen \cup {m \in found : To(seen, m[1]) = {}} = found BY <3>2, <3>3
    <3> QED BY <3>1, <3>4 DEF found
  <2>3. /\ first.base = j.base /\ first.local = j.local /\ first.remote = j.remote
        /\ first.claimed = {}
        /\ first.localMoves = Moves(IdentityMoves(j.base, j.local))
        /\ first.remoteMoves = Moves(IdentityMoves(j.base, j.remote))
    BY <2>1, <2>2 DEF AlignStart, first
  <2>4. ASSUME NEW m \in moved(j.local, j.remote) PROVE Met(outcome, m[1], m[2])
    <3> DEFINE a == m[1]
               b == m[2]
    <3>1. a \in PathsOf(j.base) /\ MovedByOne(j, a, b, j.local, j.remote) OBVIOUS
    <3>2. PICK k \in DOMAIN j.order : j.order[k] = a BY <1>3, <3>1
    <3> HIDE DEF a, b, moved
    <3>3. /\ MovesAlone(first.localMoves, first.remoteMoves, j.order[k], b)
          /\ b \notin PathsOf(j.base)
          /\ Holds(j.local, b) /\ ~Holds(j.remote, b) /\ Holds(j.remote, a)
      BY <1>3, <2>3, <3>1, <3>2, MovedAlone
    <3>4. Awaits(first, j.order[k], b, "local")
      BY <2>3, <3>2, <3>3, HoldsPaths DEF Awaits
    <3>5. MovesOn("local", first, j.order[k], b) BY <3>3 DEF MovesOn
    <3>6. Met(F[N], j.order[k], b) BY <1>5, <1>6, <3>3, <3>4, <3>5
    <3> QED BY <1>1, <3>2, <3>6 DEF a, b
  <2>5. ASSUME NEW m \in moved(j.remote, j.local) PROVE Met(outcome, m[1], m[2])
    <3> DEFINE a == m[1]
               b == m[2]
    <3>1. a \in PathsOf(j.base) /\ MovedByOne(j, a, b, j.remote, j.local) OBVIOUS
    <3>2. PICK k \in DOMAIN j.order : j.order[k] = a BY <1>3, <3>1
    <3> HIDE DEF a, b, moved
    <3>3. /\ MovesAlone(first.remoteMoves, first.localMoves, j.order[k], b)
          /\ b \notin PathsOf(j.base)
          /\ Holds(j.remote, b) /\ ~Holds(j.local, b) /\ Holds(j.local, a)
      BY <1>3, <2>3, <3>1, <3>2, MovedAlone
    <3>4. Awaits(first, j.order[k], b, "remote")
      BY <2>3, <3>2, <3>3, HoldsPaths DEF Awaits
    <3>5. MovesOn("remote", first, j.order[k], b) BY <1>6, <3>3 DEF MovesOn
    <3>6. Met(F[N], j.order[k], b) BY <1>5, <1>6, <3>3, <3>4, <3>5
    <3> QED BY <1>1, <3>2, <3>6 DEF a, b
  <2> QED BY <2>4, <2>5
<1> HIDE DEF j, F, first
<1> QED BY <1>7, <1>8 DEF RenamesMeetEdits, Proper, VersionsIn, Met, j

\* A move pairs what vanished with what appeared; in a merge never two files known to be different.
LEMMA MovesPairUp == DecisionInv => MovesArePairs
<1>1. DecisionInv => MovesArePairs
  <2> SUFFICES ASSUME DecisionInv, Done("moves") PROVE MovesArePairs BY DEF MovesArePairs
  <2> DEFINE j == job.of
  <2>1. outcome = DetectMoves(j.prev, j.next, j.mode, j.order) BY DEF DecisionInv, Outcome, Done
  <2>2. IsMoveJob(j) BY ListingsAssumption DEF DecisionInv, Given, Tagged, Done
  <2>3. PairsUp(IdentityMoves(j.prev, j.next), j.prev, j.next)
    BY <2>2, IdentityPairs DEF IsMoveJob
  <2>4. PairsUp(outcome, j.prev, j.next)
    BY <2>1, <2>2, <2>3, FollowingsPair DEF DetectMoves, IsMoveJob
  <2>5. j.mode = "identity" =>
           \A m \in outcome : IF m[1].id # None /\ m[2].id # None THEN m[1].id = m[2].id
                              ELSE m[1].hash = m[2].hash
    BY <2>1 DEF DetectMoves, IdentityMoves, ByIdentity, ByContent
  <2> QED BY <2>4, <2>5 DEF PairsUp, MovesArePairs
<1> QED BY <1>1

\* Moves are found rightly and followed without loss.
THEOREM MovesSound == DecisionSpec => []MovesAreSound
<1>1. DecisionInv => MovesAreSound BY MovesPairUp, RenamesMeet DEF MovesAreSound
<1> QED BY <1>1, DecisionInvariance, PTL
=============================================================================
