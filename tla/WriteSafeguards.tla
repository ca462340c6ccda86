-------------------------- MODULE WriteSafeguards ---------------------------
(***************************************************************************)
(* The safety center of one vault: SafeguardService and the handlers that  *)
(* consult it (device commits, the importer of Seafile edits, the write    *)
(* lock, the maintenance window, and approving or rejecting a quarantined  *)
(* proposal).                                                              *)
(*                                                                         *)
(* A handler reads the head, awaits (content verification, or the scan of  *)
(* the readable tree), is assessed by propose, and hands what is allowed   *)
(* to accept, which awaits its PUT and commits if the head is still the    *)
(* parent the caller named.  accept is taken here as OperationCommitter    *)
(* shows it to behave: one compare-and-swap on the head, with afterInsert  *)
(* in the same transaction.                                                *)
(*                                                                         *)
(* Abstractions.  A vault is a set of files, each absent, a note, or a     *)
(* note under another extension.  The reasons of assessChanges come in two *)
(* sorts that the handlers treat differently: those that always need a     *)
(* decision (deletions, and the hard reasons, which behave like them) and  *)
(* those a maintenance window may wave through (extension churn).          *)
(***************************************************************************)
EXTENDS Absence, Naturals, FiniteSets, Sequences

CONSTANTS
    Devices,         \* paired devices
    Files,
    QuarantineIds,   \* the supply of quarantine ids
    Calls,           \* slots for concurrent requests
    DeletionCount,   \* policy: deletions from which a change is suspicious
    ExtensionCount,  \* policy: extension changes from which it is (5 in the code)
    MaxSnapshots     \* bound on the accepted history

ASSUME PolicyAssumption == DeletionCount \in Nat \ {0} /\ ExtensionCount \in Nat \ {0}
VARIABLES
    accepted,       \* the accepted snapshots, in order; the last one is the head
    latest,         \* who wrote the head, and on what grounds
    writeLocked,    \* vaults.write_locked_at is set
    trustedDevice,  \* device whose maintenance window is open
    quarantines,    \* table quarantines
    calls           \* requests in progress

vars == <<accepted, latest, writeLocked, trustedDevice, quarantines, calls>>

-----------------------------------------------------------------------------
(* What the variables hold.                                                 *)

Seafile == "seafile"  \* the importer's device id and source
Authors == Devices \cup {Seafile}
Trees == [Files -> {"absent", "note", "renamed"}]
Grounds == {"policy", "trusted_window", "restore", "approval"}
Idle == [phase |-> "idle"]

SnapshotRows == [tree : Trees, proposal : QuarantineIds \cup {None}]
QuarantineRows == [author : Authors, parent : Nat, tree : Trees, reviewOnly : BOOLEAN,
                   status : {"pending", "expired", "approved", "rejected", "stale"}]
CallRows == [phase : {"reading", "putting"}, author : Authors, parent : Nat, tree : Trees,
             via : Grounds, proposal : QuarantineIds \cup {None}, trust : BOOLEAN]

ASSUME NullAssumption == None \notin Devices \cup QuarantineIds \cup QuarantineRows

TypeOK ==
    /\ accepted \in Seq(SnapshotRows)
    /\ latest \in [author : Authors, via : Grounds] \cup {None}
    /\ writeLocked \in BOOLEAN
    /\ trustedDevice \in Devices \cup {None}
    /\ quarantines \in [QuarantineIds -> QuarantineRows \cup {None}]
    /\ calls \in [Calls -> CallRows \cup {Idle}]

head == Len(accepted)
EmptyTree == [f \in Files |-> "absent"]
TreeOf(n) == IF n = 0 THEN EmptyTree ELSE accepted[n].tree

\* assessChanges
Deleted(before, after) ==
    {f \in Files : before[f] # "absent" /\ after[f] = "absent"}
ExtensionChanges(before, after) ==
    {f \in Files : before[f] # "absent" /\ after[f] # "absent" /\ before[f] # after[f]}
Suspicious(before, after) ==
    \/ Cardinality(Deleted(before, after)) >= DeletionCount
    \/ Cardinality(ExtensionChanges(before, after)) >= ExtensionCount
    \/ before # EmptyTree /\ after = EmptyTree
ReviewOnly(author, before, after) ==
    author = Seafile \/ Deleted(before, after) # {}

\* propose, past the write lock: what the assessment of a change permits.
AnyWindowAllows(author, tree) ==  \* mutant: explicitReview is not consulted
    IF trustedDevice = author THEN "trusted_window"
    ELSE IF Suspicious(TreeOf(head), tree) /\ TreeOf(head) # EmptyTree
    THEN "quarantine" ELSE "policy"
Authorization(author, tree) ==
    IF /\ Suspicious(TreeOf(head), tree)
       /\ TreeOf(head) # EmptyTree
       /\ trustedDevice = author => ReviewOnly(author, TreeOf(head), tree)
    THEN "quarantine"
    ELSE IF trustedDevice = author THEN "trusted_window" ELSE "policy"

Pending(q) == quarantines[q] # None /\ quarantines[q].status = "pending"
Undecided(q) == quarantines[q] # None /\ quarantines[q].status \in {"pending", "expired"}

SamePending(call) ==
    {q \in QuarantineIds : /\ Pending(q)
                           /\ quarantines[q].author = call.author
                           /\ quarantines[q].parent = call.parent
                           /\ quarantines[q].tree = call.tree}

-----------------------------------------------------------------------------
Init ==
    /\ accepted = <<>>
    /\ latest = None
    /\ writeLocked = FALSE
    /\ trustedDevice = None
    /\ quarantines = [q \in QuarantineIds |-> None]
    /\ calls = [c \in Calls |-> Idle]

Importing(call) ==
    call # Idle /\ call.author = Seafile /\ call.via # "approval"

\* POST /v1/commit up to the await that verifies its content; an import up to
\* the awaits of its scan.  Imports of a vault run one at a time.
Begin(c, author, tree) ==
    /\ calls[c] = Idle
    /\ tree # TreeOf(head)
    /\ author = Seafile => ~\E x \in Calls : Importing(calls[x])
    /\ calls' = [calls EXCEPT ![c] =
          [phase |-> "reading", author |-> author, parent |-> head, tree |-> tree,
           via |-> "policy", proposal |-> None, trust |-> FALSE]]
    /\ UNCHANGED <<accepted, latest, writeLocked, trustedDevice, quarantines>>

\* propose refuses while the write lock is set.
RefuseLocked(c) ==
    /\ calls[c] # Idle /\ calls[c].phase = "reading"
    /\ writeLocked
    /\ calls' = [calls EXCEPT ![c] = Idle]
    /\ UNCHANGED <<accepted, latest, writeLocked, trustedDevice, quarantines>>

\* propose allows it, and accept starts unless the head has moved meanwhile.
Allow(c) ==
    /\ calls[c] # Idle /\ calls[c].phase = "reading"
    /\ ~writeLocked
    /\ LET via == Authorization(calls[c].author, calls[c].tree) IN
         /\ via # "quarantine"
         /\ calls' = [calls EXCEPT ![c] =
               IF head = calls[c].parent
               THEN [calls[c] EXCEPT !.phase = "putting", !.via = via] ELSE Idle]
    /\ UNCHANGED <<accepted, latest, writeLocked, trustedDevice, quarantines>>

\* propose holds it: a new quarantine item, or the one that already holds it.
Hold(c) ==
    /\ calls[c] # Idle /\ calls[c].phase = "reading"
    /\ ~writeLocked
    /\ Authorization(calls[c].author, calls[c].tree) = "quarantine"
    /\ \/ SamePending(calls[c]) # {} /\ UNCHANGED quarantines
       \/ /\ SamePending(calls[c]) = {}
          /\ \E q \in QuarantineIds :
               /\ quarantines[q] = None
               /\ quarantines' = [quarantines EXCEPT ![q] =
                     [author |-> calls[c].author, parent |-> calls[c].parent,
                      tree |-> calls[c].tree,
                      reviewOnly |-> ReviewOnly(calls[c].author, TreeOf(head),
                                                calls[c].tree),
                      status |-> "pending"]]
    /\ calls' = [calls EXCEPT ![c] = Idle]
    /\ UNCHANGED <<accepted, latest, writeLocked, trustedDevice>>

\* POST /v1/restore/:id, confirmed against the head of its preview: the owner
\* of the device decides, so it is not assessed.
BeginRestore(c, d, n) ==
    /\ calls[c] = Idle
    /\ ~writeLocked
    /\ calls' = [calls EXCEPT ![c] =
          [phase |-> "putting", author |-> d, parent |-> head, tree |-> TreeOf(n),
           via |-> "restore", proposal |-> None, trust |-> FALSE]]
    /\ UNCHANGED <<accepted, latest, writeLocked, trustedDevice, quarantines>>

-----------------------------------------------------------------------------
\* The transaction of accept.
HeadAssumed(call) == head < MaxSnapshots  \* mutant: UPDATE without head_id IS
HeadUnmoved(call) == head = call.parent /\ head < MaxSnapshots

Accept(call) ==
    /\ accepted' = Append(accepted, [tree |-> call.tree, proposal |-> call.proposal])
    /\ latest' = [author |-> call.author, via |-> call.via]

\* afterInsert of acceptSnapshot: what was proposed against the old head can no
\* longer be decided.  Rows past their expiry are pending in the table.
Superseded(parent) ==
    [q \in QuarantineIds |->
        IF Undecided(q) /\ quarantines[q].parent = parent
        THEN [quarantines[q] EXCEPT !.status = "stale"] ELSE quarantines[q]]

Putting(c, vias) ==
    calls[c] # Idle /\ calls[c].phase = "putting" /\ calls[c].via \in vias

Commit(c) ==
    /\ Putting(c, Grounds \ {"approval"})
    /\ HeadUnmoved(calls[c])
    /\ Accept(calls[c])
    /\ quarantines' = IF calls[c].author = Seafile THEN quarantines
                      ELSE Superseded(calls[c].parent)
    /\ calls' = [calls EXCEPT ![c] = Idle]
    /\ UNCHANGED <<writeLocked, trustedDevice>>

\* accept answers null, or the PUT fails.
Fail(c) ==
    /\ Putting(c, Grounds \ {"approval"})
    /\ calls' = [calls EXCEPT ![c] = Idle]
    /\ UNCHANGED <<accepted, latest, writeLocked, trustedDevice, quarantines>>

-----------------------------------------------------------------------------
\* POST /v1/quarantines/:id/approve up to the await of acceptSnapshot.
MayTrust(row) == ~row.reviewOnly

BeginApprove(c, q, trust) ==
    /\ calls[c] = Idle
    /\ Pending(q)
    /\ trust => MayTrust(quarantines[q])
    /\ IF head = quarantines[q].parent
       THEN /\ calls' = [calls EXCEPT ![c] =
                 [phase |-> "putting", author |-> quarantines[q].author,
                  parent |-> quarantines[q].parent, tree |-> quarantines[q].tree,
                  via |-> "approval", proposal |-> q, trust |-> trust]]
            /\ UNCHANGED quarantines
       ELSE /\ quarantines' = [quarantines EXCEPT ![q].status = "stale"]
            /\ UNCHANGED calls
    /\ UNCHANGED <<accepted, latest, writeLocked, trustedDevice>>

ApproveExpired(q) ==
    /\ quarantines[q] # None /\ quarantines[q].status = "expired"
    /\ quarantines' = [quarantines EXCEPT ![q].status = "stale"]
    /\ UNCHANGED <<accepted, latest, writeLocked, trustedDevice, calls>>

\* The accept of an approved proposal commits, and its row says so.
FinishApprove(c) ==
    /\ Putting(c, {"approval"})
    /\ HeadUnmoved(calls[c])
    /\ Accept(calls[c])
    /\ quarantines' = [Superseded(calls[c].parent)
                          EXCEPT ![calls[c].proposal].status = "approved"]
    /\ trustedDevice' = IF calls[c].trust THEN calls[c].author ELSE trustedDevice
    /\ calls' = [calls EXCEPT ![c] = Idle]
    /\ UNCHANGED writeLocked

\* accept answers null: the head moved during the PUT.
ApprovedAnyway(c) ==  \* mutant: the null answer is not looked at
    /\ Putting(c, {"approval"})
    /\ head # calls[c].parent
    /\ quarantines' = [quarantines EXCEPT ![calls[c].proposal].status = "approved"]
    /\ calls' = [calls EXCEPT ![c] = Idle]
    /\ UNCHANGED <<accepted, latest, writeLocked, trustedDevice>>
ApproveMoved(c) ==
    /\ Putting(c, {"approval"})
    /\ head # calls[c].parent
    /\ quarantines' = [quarantines EXCEPT ![calls[c].proposal].status = "stale"]
    /\ calls' = [calls EXCEPT ![c] = Idle]
    /\ UNCHANGED <<accepted, latest, writeLocked, trustedDevice>>

\* The PUT of an approved proposal fails: the request fails, the row stays.
ApproveFails(c) ==
    /\ Putting(c, {"approval"})
    /\ calls' = [calls EXCEPT ![c] = Idle]
    /\ UNCHANGED <<accepted, latest, writeLocked, trustedDevice, quarantines>>

\* POST /v1/quarantines/:id/reject
Reject(q) ==
    /\ Undecided(q)
    /\ quarantines' = [quarantines EXCEPT ![q].status = "rejected"]
    /\ UNCHANGED <<accepted, latest, writeLocked, trustedDevice, calls>>

\* Seven days pass; list() then closes the row.
Expire(q) ==
    /\ Pending(q)
    /\ quarantines' = [quarantines EXCEPT ![q].status = "expired"]
    /\ UNCHANGED <<accepted, latest, writeLocked, trustedDevice, calls>>
List ==
    /\ \E q \in QuarantineIds : Undecided(q) /\ ~Pending(q)
    /\ quarantines' = [q \in QuarantineIds |->
           IF Undecided(q) /\ ~Pending(q)
           THEN [quarantines[q] EXCEPT !.status = "stale"] ELSE quarantines[q]]
    /\ UNCHANGED <<accepted, latest, writeLocked, trustedDevice, calls>>

-----------------------------------------------------------------------------
\* POST /v1/safeguards/lock and /v1/safeguards/maintenance; a window also ends
\* by itself.
SetLock ==
    /\ writeLocked' = ~writeLocked
    /\ UNCHANGED <<accepted, latest, trustedDevice, quarantines, calls>>
StartMaintenance(d) ==
    /\ trustedDevice # d
    /\ trustedDevice' = d
    /\ UNCHANGED <<accepted, latest, writeLocked, quarantines, calls>>
EndMaintenance ==
    /\ trustedDevice # None
    /\ trustedDevice' = None
    /\ UNCHANGED <<accepted, latest, writeLocked, quarantines, calls>>

\* The process dies; an approval may die between its transaction and the update
\* of its row.
Crash ==
    /\ \E c \in Calls : calls[c] # Idle
    /\ \/ UNCHANGED <<accepted, latest, quarantines>>
       \/ \E c \in Calls : /\ Putting(c, {"approval"})
                           /\ HeadUnmoved(calls[c])
                           /\ Accept(calls[c])
                           /\ quarantines' = Superseded(calls[c].parent)
    /\ calls' = [c \in Calls |-> Idle]
    /\ UNCHANGED <<writeLocked, trustedDevice>>

Next ==
    \/ \E c \in Calls, author \in Authors, tree \in Trees : Begin(c, author, tree)
    \/ \E c \in Calls, d \in Devices, n \in 1..head : BeginRestore(c, d, n)
    \/ \E c \in Calls : RefuseLocked(c) \/ Allow(c) \/ Hold(c) \/ Commit(c) \/ Fail(c)
    \/ \E c \in Calls, q \in QuarantineIds, trust \in BOOLEAN : BeginApprove(c, q, trust)
    \/ \E c \in Calls : FinishApprove(c) \/ ApproveMoved(c) \/ ApproveFails(c)
    \/ \E q \in QuarantineIds : ApproveExpired(q) \/ Reject(q) \/ Expire(q)
    \/ List
    \/ SetLock
    \/ \E d \in Devices : StartMaintenance(d)
    \/ EndMaintenance
    \/ Crash

Spec == Init /\ [][Next]_vars

-----------------------------------------------------------------------------
(* Properties *)

Replaced == TreeOf(head - 1)
Written == accepted[head]

\* README: "neither prior approval nor a maintenance window can approve a later
\* destructive batch".  Assessed again against the tree it really replaces,
\* whatever moved while its request was awaiting, a risky change becomes the
\* head only on the grounds its risk permits: a window never carries an
\* external or destructive one, and a decision carries the change that was shown.
RiskyNeedsDecision ==
    latest # None =>
        /\ latest.via \in {"policy", "trusted_window"} =>
             \/ Replaced = EmptyTree
             \/ ~Suspicious(Replaced, Written.tree)
             \/ /\ latest.via = "trusted_window"
                /\ ~ReviewOnly(latest.author, Replaced, Written.tree)
        /\ latest.via = "approval" =>
             /\ quarantines[Written.proposal].author = latest.author
             /\ quarantines[Written.proposal].parent = head - 1
             /\ quarantines[Written.proposal].tree = Written.tree

\* A proposal enters the history at most once, however many devices approve it
\* at the same time or again after a crash.
ProposalAcceptedOnce ==
    \A m, n \in 1..head :
        accepted[m].proposal # None /\ accepted[m].proposal = accepted[n].proposal => m = n

\* A proposal is shown as approved only if its change is in the history.
ApprovedWasAccepted ==
    \A q \in QuarantineIds :
        quarantines[q] # None /\ quarantines[q].status = "approved"
            => \E n \in 1..head : accepted[n].proposal = q

\* What devices decide about a proposal is what becomes of it: accepted at most
\* once, and shown as approved only if accepted (the approval awaits its PUT
\* while others decide, the head moves or the process dies).
ApprovedOnceAndTruly == ProposalAcceptedOnce /\ ApprovedWasAccepted

=============================================================================
