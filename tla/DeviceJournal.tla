---------------------------- MODULE DeviceJournal ----------------------------
(***************************************************************************)
(* One device publishes and receives one file through its sync session     *)
(* (plugin/src/engine.ts run), with the write-ahead journal of the batch   *)
(* it submits (operation-journal.ts), the journal of observed editor       *)
(* intents (intent-journal.ts), the changed-path bookkeeping of main.ts,   *)
(* and a server that accepts a batch when the revision it edits is still   *)
(* current (operation-routes.ts).                                          *)
(*                                                                         *)
(* Content is the set of edits it incorporates: an owner's edit adds       *)
(* itself to what is on disk, another device's edit to the accepted head,  *)
(* and a merge keeps both sides (a text merge or a preserved conflict; the *)
(* wording given up where two edits overlap is the merge policy's affair). *)
(* The owner edits whenever she likes; requests and replies are lost,      *)
(* late and repeated; the process dies between any two steps.              *)
(***************************************************************************)
EXTENDS Naturals, Sequences, FiniteSetsExt

CONSTANTS Drafts,      \* the owner's edits on this device
          Creations,   \* those that delete and re-create the file
          Foreign,     \* edits other devices publish
          MaxFaults,   \* bound: lost connections, refusals and restarts
          None

Content  == SUBSET (Drafts \cup Foreign)
BatchIds == 1 .. 2 * Cardinality(Drafts) + 1

Transfers == [target : Nat, prior : Content]
Batches   == [id : BatchIds, base : Nat, val : Content,
              phase : {"prepared", "submitted", "accepted"}, upto : Nat,
              seen : SUBSET Drafts, prior : Content, snapshot : Nat,
              mine : BOOLEAN]

ASSUME Named == Creations \subseteq Drafts /\ Drafts \cap Foreign = {}
ASSUME DraftsAssumption == IsFiniteSet(Drafts)
ASSUME NoneAssumption ==
    /\ \A c \in Content : None # c
    /\ None \notin Transfers /\ None \notin Batches
    /\ \A a \in {"accepted", "conflict", "refused"} : None # a

VARIABLES
    snapshots,  \* server: accepted snapshots in order, [val, own]
    receipts,   \* server: sync_batches, batch id -> snapshot (0: none)
    wire,       \* requests under way: [id, base, val, stage, live]
    disk,       \* the file's content
    baseline,   \* settings.lastSnapshotId
    applying,   \* settings.pendingApply*: [target, prior] or None
    replay,     \* settings.localReconcileBases[path] or None
    journal,    \* the prepared batch of operation-journal.ts or None
    intents,    \* the events of intent-journal.ts: [seq, of]
    dirty,      \* pathVersions of the file, 0 when the path is not pending
    full,       \* settings.fullScanRequired
    sequence,   \* IntentJournal.sequence
    frozen,     \* IntentJournal.frozenSequence
    run,        \* where the session stands and what it has read
    unnoticed,  \* edits on disk whose vault event has not been delivered
    made,       \* the edits the owner has made
    faults

server   == <<snapshots, receipts, wire>>
saved    == <<disk, baseline, applying, replay, journal, intents>>
tracking == <<dirty, full, sequence, frozen, unnoticed>>
memory   == <<tracking, run>>
outside  == <<made, faults>>
vars     == <<snapshots, receipts, wire, disk, baseline, applying, replay,
              journal, intents, dirty, full, sequence, frozen, run, unnoticed,
              made, faults>>

Latest   == Len(snapshots)
Val(s)   == snapshots[s].val

Idle == [at |-> "idle", start |-> 0, remote |-> 0, prior |-> {}, target |-> 0,
         upto |-> 0, seen |-> {}, scannedAll |-> FALSE, read |-> FALSE,
         reply |-> None]

Init ==
    /\ snapshots = <<[val |-> {}, own |-> FALSE]>>
    /\ receipts = [b \in BatchIds |-> 0]
    /\ wire = {}
    /\ disk = {} /\ baseline = 1 /\ applying = None /\ replay = None
    /\ journal = None /\ intents = {}
    /\ dirty = 0 /\ full = FALSE /\ sequence = 0 /\ frozen = 0
    /\ run = Idle /\ unnoticed = {} /\ made = {} /\ faults = 0

-----------------------------------------------------------------------------
(* The owner, and the vault events the plugin hears (main.ts).              *)

Edit(d) ==
    /\ d \notin made
    /\ disk' = disk \cup {d}
    /\ made' = made \cup {d}
    /\ unnoticed' = unnoticed \cup {d}
    /\ UNCHANGED <<server, baseline, applying, replay, journal, intents, dirty,
                   full, sequence, frozen, run, faults>>

\* A modification joins the newest event of the path when no plan froze it.
Joins(d) == /\ d \notin Creations
            /\ \E e \in intents : /\ \A f \in intents : f.seq <= e.seq
                                  /\ e.of \cap Creations = {} /\ e.seq > frozen

Record(d) ==
    IF Joins(d)
    THEN LET last == CHOOSE e \in intents : \A f \in intents : f.seq <= e.seq
         IN  /\ intents' = (intents \ {last}) \cup
                              {[last EXCEPT !.of = @ \cup {d}]}
             /\ UNCHANGED sequence
    ELSE /\ sequence' = sequence + 1
         /\ intents' = intents \cup {[seq |-> sequence + 1, of |-> {d}]}

Notice(d) ==
    /\ d \in unnoticed
    /\ unnoticed' = unnoticed \ {d}
    /\ dirty' = Cardinality(made \ unnoticed')
    /\ Record(d)
    /\ UNCHANGED <<server, disk, baseline, applying, replay, journal, full,
                   frozen, run, outside>>

-----------------------------------------------------------------------------
(* The server (operation-routes.ts) and the other devices.                  *)

Publish(f) ==
    /\ \A s \in 1 .. Latest : f \notin Val(s)
    /\ snapshots' = Append(snapshots, [val |-> Val(Latest) \cup {f}, own |-> FALSE])
    /\ UNCHANGED <<receipts, wire, saved, memory, outside>>

Answer(r, reply) ==
    /\ wire' = wire \ {r}
    /\ run' = IF r.live THEN [run EXCEPT !.reply = reply] ELSE run

\* A batch with a receipt is answered at once; any other waits for beforeCommit.
LookUpReceipt(r) ==
    /\ r \in wire /\ r.stage = "sent"
    /\ IF receipts[r.id] # 0
       THEN Answer(r, "accepted")
       ELSE /\ wire' = (wire \ {r}) \cup {[r EXCEPT !.stage = "checked"]}
            /\ UNCHANGED run
    /\ UNCHANGED <<snapshots, receipts, saved, tracking, outside>>

Accept(r) ==
    /\ r \in wire /\ r.stage = "checked" /\ r.base = Latest
    /\ snapshots' = Append(snapshots, [val |-> r.val, own |-> TRUE])
    /\ receipts' = [receipts EXCEPT ![r.id] = Latest + 1]
    /\ Answer(r, "accepted")
    /\ UNCHANGED <<saved, tracking, outside>>

\* The edited revision moved: previewBatch or accept ends in a 409, also for a
\* repeated request whose first copy was accepted after the look-up.
Conflict(r) ==
    /\ r \in wire /\ r.stage = "checked" /\ r.base # Latest
    /\ Answer(r, "conflict")
    /\ UNCHANGED <<snapshots, receipts, saved, tracking, outside>>

\* 422 missing content, 425 rollout, 428 first download.
Refuse(r) ==
    /\ r \in wire /\ r.stage = "checked" /\ faults < MaxFaults
    /\ Answer(r, "refused")
    /\ faults' = faults + 1
    /\ UNCHANGED <<snapshots, receipts, saved, tracking, made>>

\* A request whose client went away is aborted before acceptance.
Drop(r) ==
    /\ r \in wire /\ ~r.live
    /\ wire' = wire \ {r}
    /\ UNCHANGED <<snapshots, receipts, saved, memory, outside>>

-----------------------------------------------------------------------------
(* The session: recoverPendingBatch, then run.                              *)

Goto(at) == run' = [run EXCEPT !.at = at]

\* performSync notes the versions of the pending paths it starts from.
Begin ==
    /\ run.at = "idle"
    /\ run' = [Idle EXCEPT !.at = "recover", !.start = dirty]
    /\ UNCHANGED <<server, saved, tracking, outside>>

\* A failed session leaves every journal as it is; recoverSync runs it again
\* under the versions it started from, or a later sync starts anew.
Abandoned(r) == IF r.live THEN [r EXCEPT !.live = FALSE] ELSE r

Fail ==
    /\ run.at # "idle" /\ faults < MaxFaults
    /\ faults' = faults + 1
    /\ wire' = {Abandoned(r) : r \in wire}
    /\ run' \in {Idle, [Idle EXCEPT !.at = "recover", !.start = run.start]}
    /\ UNCHANGED <<snapshots, receipts, saved, tracking, made>>

\* onload forces a full scan; the intent journal restarts from its survivors.
Restart ==
    /\ faults < MaxFaults
    /\ faults' = faults + 1
    /\ wire' = {Abandoned(r) : r \in wire}
    /\ run' = Idle /\ unnoticed' = {} /\ full' = TRUE /\ frozen' = 0
    /\ dirty' \in {0, dirty}
    /\ sequence' = Max({0} \cup {e.seq : e \in intents})
    /\ journal' = IF journal = None THEN None ELSE [journal EXCEPT !.mine = FALSE]
    /\ UNCHANGED <<snapshots, receipts, disk, baseline, applying, replay,
                   intents, made>>

Discard ==
    /\ run.at = "recover" /\ journal # None /\ journal.phase = "prepared"
    /\ journal' = None
    /\ Goto("check")
    /\ UNCHANGED <<server, disk, baseline, applying, replay, intents, tracking,
                   outside>>

Accepted(j, s) == [j EXCEPT !.phase = "accepted", !.snapshot = s]

\* A connection lost before the server has the request is a request dropped.
Send(at) ==
    /\ wire' = wire \cup {[id |-> journal.id, base |-> journal.base,
                          val |-> journal.val, stage |-> "sent", live |-> TRUE]}
    /\ run' = [run EXCEPT !.at = at, !.reply = None]

\* GET /v2/batches/:id finds the receipt, or the 404 sends the batch again.
AskReceipt ==
    /\ run.at = "recover" /\ journal # None /\ journal.phase = "submitted"
    /\ IF receipts[journal.id] # 0
       THEN /\ journal' = Accepted(journal, receipts[journal.id])
            /\ Goto("adopt")
            /\ UNCHANGED wire
       ELSE /\ Send("resent")
            /\ UNCHANGED journal
    /\ UNCHANGED <<snapshots, receipts, disk, baseline, applying, replay,
                   intents, tracking, outside>>

\* A receipt kept from before must equal the server's immutable one.
ProveReceipt ==
    /\ run.at = "recover" /\ journal # None /\ journal.phase = "accepted"
    /\ receipts[journal.id] = journal.snapshot
    /\ Goto("adopt")
    /\ UNCHANGED <<server, saved, tracking, outside>>

\* An answer to a request sent again: an acceptance is adopted by recovery, any
\* other clears the proposal and the session plans afresh.
ResendAnswered ==
    /\ run.at = "resent" /\ run.reply # None
    /\ IF run.reply = "accepted"
       THEN /\ journal' = Accepted(journal, receipts[journal.id])
            /\ run' = [run EXCEPT !.at = "adopt", !.reply = None]
       ELSE /\ journal' = None
            /\ run' = [run EXCEPT !.at = "check", !.reply = None]
    /\ UNCHANGED <<server, disk, baseline, applying, replay, intents, tracking,
                   outside>>

\* recoverPendingBatch resumes the application of the accepted snapshot.
Adopt ==
    /\ run.at = "adopt"
    /\ applying' = IF baseline # journal.snapshot /\ applying = None
                   THEN [target |-> journal.snapshot, prior |-> journal.prior]
                   ELSE applying
    /\ run' = [run EXCEPT !.at = IF applying' = None THEN "acknowledge"
                                 ELSE "resume",
                          !.upto = journal.upto, !.seen = journal.seen]
    /\ UNCHANGED <<server, disk, baseline, replay, journal, intents, tracking,
                   outside>>

\* Mutant: the newer edit is kept, the content it was made on is not.
ResumeForgets ==
    /\ run.at = "resume"
    /\ disk' = IF disk = applying.prior THEN Val(applying.target) ELSE disk
    /\ Goto("resumed")
    /\ UNCHANGED <<server, baseline, applying, replay, journal, intents,
                   tracking, outside>>

\* A file that is neither the prior content nor the target holds a newer edit:
\* it is kept, to be merged later against the content it was made on.
Resume ==
    /\ run.at = "resume"
    /\ LET target == Val(applying.target)
       IN  IF disk \in {target, applying.prior}
           THEN disk' = target /\ UNCHANGED replay
           ELSE replay' = applying.prior /\ UNCHANGED disk
    /\ Goto("resumed")
    /\ UNCHANGED <<server, baseline, applying, journal, intents, tracking,
                   outside>>

SaveResumed ==
    /\ run.at = "resumed"
    /\ baseline' = applying.target
    /\ applying' = None
    /\ run' = [run EXCEPT !.at = IF journal = None THEN "scan" ELSE "acknowledge",
                          !.read = @ \/ dirty # 0 \/ replay # None]
    /\ UNCHANGED <<server, disk, replay, journal, intents, tracking, outside>>

\* The session ends early when nothing is pending and the head is the baseline.
Quiet == /\ Latest = baseline /\ applying = None /\ replay = None
         /\ ~full /\ dirty = 0

CheckRemote ==
    /\ run.at \in {"check", IF journal = None THEN "recover" ELSE "check"}
    /\ run' = [run EXCEPT !.at = IF Quiet THEN "finish"
                                 ELSE IF applying # None THEN "resume" ELSE "scan",
                          !.remote = Latest, !.read = dirty # 0 \/ replay # None,
                          !.scannedAll = FALSE]
    /\ UNCHANGED <<server, saved, tracking, outside>>

\* ownDescendantCount: every snapshot since the baseline is this device's.
OwnChain == /\ baseline < run.remote
            /\ \A s \in baseline + 1 .. run.remote : snapshots[s].own

\* The file is read in a full scan or when its path is pending; otherwise the
\* scan trusts the accepted content.
ScansAll == full \/ replay # None
Checkpoint == IF OwnChain /\ run.read THEN run.remote ELSE baseline
Scanned  == IF ScansAll \/ run.read THEN disk ELSE Val(Checkpoint)

\* The three-way decision for the path; a text merge or a preserved conflict
\* keeps both sides.
\* Mutant: the baseline moved, the replay base is not consulted.
MergeBaseMoved == Val(Checkpoint)
MergeBase == IF replay # None THEN replay ELSE Val(Checkpoint)
Final == LET remote == Val(run.remote)
         IN  IF Scanned = MergeBase THEN remote
             ELSE IF remote = MergeBase THEN Scanned
             ELSE Scanned \cup remote

\* A batch id is random; BatchIds bounds how many there are.
FreshIds == {b \in BatchIds : receipts[b] = 0 /\ \A r \in wire : r.id # b}
FreshId  == CHOOSE b \in FreshIds : TRUE

\* The scan, the snapshot of the intents and the plan; a plan that changes the
\* accepted tree is saved before anything is uploaded.
Plan ==
    /\ run.at = "scan"
    /\ Final # Val(run.remote) => FreshIds # {}
    /\ LET upto == Max({0} \cup {e.seq : e \in intents})
           seen == UNION {e.of : e \in intents}
           same == Final = Val(run.remote)
       IN  /\ run' = [run EXCEPT !.at = IF same THEN "stage" ELSE "upload",
                                 !.target = IF same THEN run.remote ELSE 0,
                                 !.remote = 0,
                                 !.scannedAll = ScansAll, !.prior = Scanned,
                                 !.upto = upto, !.seen = seen]
           /\ journal' = IF same THEN journal
                         ELSE [id |-> FreshId, base |-> run.remote, val |-> Final,
                               phase |-> "prepared", upto |-> upto, seen |-> seen,
                               prior |-> Scanned, snapshot |-> 0, mine |-> TRUE]
    /\ frozen' = sequence
    /\ UNCHANGED <<server, disk, baseline, applying, replay, intents, dirty,
                   full, sequence, unnoticed, outside>>

\* The content is uploaded; the proposal is saved as submitted before it is sent.
Submit ==
    /\ run.at = "upload"
    /\ journal' = [journal EXCEPT !.phase = "submitted"]
    /\ Send("posted")
    /\ UNCHANGED <<snapshots, receipts, disk, baseline, applying, replay,
                   intents, tracking, outside>>

\* A 409 clears the proposal and converges in another pass; another refusal ends
\* the session.
Answered ==
    /\ run.at = "posted" /\ run.reply # None
    /\ IF run.reply = "accepted"
       THEN /\ journal' = Accepted(journal, receipts[journal.id])
            /\ run' = [run EXCEPT !.at = "stage", !.target = receipts[journal.id],
                                  !.reply = None]
       ELSE /\ journal' = None
            /\ run' = IF run.reply = "conflict"
                      THEN [Idle EXCEPT !.at = "recover", !.start = run.start]
                      ELSE Idle
    /\ UNCHANGED <<server, disk, baseline, applying, replay, intents, tracking,
                   outside>>

Stage ==
    /\ run.at = "stage"
    /\ applying' = [target |-> run.target, prior |-> run.prior]
    /\ run' = [run EXCEPT !.at = "apply", !.prior = {}]
    /\ UNCHANGED <<server, disk, baseline, replay, journal, intents, tracking,
                   outside>>

\* Only what was scanned is replaced; a file edited since fails the session.
Apply ==
    /\ run.at = "apply"
    /\ LET target == Val(run.target)
       IN  IF target = applying.prior \/ disk = applying.prior
           THEN /\ disk' = IF target = applying.prior THEN disk ELSE target
                /\ Goto("applied")
           ELSE /\ run' = Idle
                /\ UNCHANGED disk
    /\ UNCHANGED <<server, baseline, applying, replay, journal, intents,
                   tracking, outside>>

SaveApplied ==
    /\ run.at = "applied"
    /\ baseline' = run.target
    /\ applying' = None /\ replay' = None
    /\ full' = IF run.scannedAll THEN FALSE ELSE full
    /\ Goto("acknowledge")
    /\ UNCHANGED <<server, disk, journal, intents, dirty, sequence, frozen,
                   unnoticed, outside>>

\* IntentJournal.acknowledge removes the consumed events one file at a time.
Acknowledge ==
    /\ run.at = "acknowledge"
    /\ \E e \in intents :
          /\ e.seq <= run.upto /\ \A f \in intents : e.seq <= f.seq
          /\ intents' = intents \ {e}
    /\ UNCHANGED <<server, disk, baseline, applying, replay, journal, memory,
                   outside>>

\* run ends; recoverPendingBatch goes on to the session's own reconciliation.
Clear ==
    /\ run.at = "acknowledge" /\ \A e \in intents : e.seq > run.upto
    /\ journal' = None
    /\ run' = [run EXCEPT !.at = IF run.target = 0 THEN "check" ELSE "finish",
                          !.target = 0, !.upto = 0, !.seen = {}]
    /\ UNCHANGED <<server, disk, baseline, applying, replay, intents, tracking,
                   outside>>

\* Mutant: every version is forgotten, whenever it was recorded.
FinishForgets ==
    /\ run.at = "finish"
    /\ run' = Idle /\ dirty' = 0
    /\ UNCHANGED <<server, saved, full, sequence, frozen, unnoticed, outside>>

\* performSync verifies the head, then forgets the versions it has processed.
Finish ==
    /\ run.at = "finish"
    /\ IF Latest # baseline
       THEN /\ run' = [Idle EXCEPT !.at = "recover", !.start = run.start]
            /\ UNCHANGED dirty
       ELSE /\ run' = Idle
            /\ dirty' = IF dirty = run.start /\ (run.scannedAll \/ run.read)
                        THEN 0 ELSE dirty
    /\ UNCHANGED <<server, saved, full, sequence, frozen, unnoticed, outside>>

-----------------------------------------------------------------------------
Session == \/ Begin \/ Discard \/ AskReceipt \/ ProveReceipt \/ ResendAnswered
           \/ Adopt \/ Resume \/ SaveResumed
           \/ CheckRemote \/ Plan \/ Submit \/ Answered
           \/ Stage \/ Apply \/ SaveApplied \/ Acknowledge \/ Clear \/ Finish

Serve == \E r \in wire : LookUpReceipt(r) \/ Accept(r) \/ Conflict(r)

Next == \/ Session
        \/ Serve
        \/ Fail
        \/ Restart
        \/ \E d \in Drafts : Edit(d) \/ Notice(d)
        \/ \E f \in Foreign : Publish(f)
        \/ \E r \in wire : Refuse(r) \/ Drop(r)

\* The plugin syncs on changes and on a timer, a session's steps are awaited one
\* after the other, vault events are delivered, and the server handles requests.
Fairness == /\ WF_vars(Session)
            /\ WF_vars(Serve)
            /\ \A d \in Drafts : WF_vars(Notice(d))

Spec == Init /\ [][Next]_vars /\ Fairness

-----------------------------------------------------------------------------
\* What the owner wrote is always somewhere it will survive: on her disk or in
\* the accepted head, whatever the session, its journals and its crashes did.
EditsKept == made \subseteq disk \cup Val(Latest)

\* A device that has not seen another's edit, or an earlier one of its own,
\* never publishes a version without it (the three-way base of the merge, the
\* replay base after an interrupted download, the revision fence).
AcceptedEditsStay == [][Val(Latest) \subseteq Val(Latest)']_vars

\* The checkpoint advances only over content that is on disk, or remembers the
\* content the newer local edit was made on (lastSnapshotId, localReconcileBases).
CheckpointApplied == replay = None => Val(baseline) \subseteq disk

\* The process that planned a batch removes no intent its plan did not see.
OwnPlanConsumes ==
    [][(journal # None => journal.mine)
         => \A e \in intents :
               (\A f \in intents' : f.seq # e.seq) => e.of \subseteq run.seen]_vars

\* Nothing of the owner's work is lost on its way: what she wrote stays on the
\* disk or in the head, what is accepted stays accepted, and the process that
\* planned a batch consumes only intents its plan has seen.
OwnersWorkStays == []EditsKept /\ AcceptedEditsStay /\ OwnPlanConsumes

\* Again and again the device and the server agree on a version with every
\* edit of the owner in it: nothing she wrote stays behind on a path that is no
\* longer pending, and no foreign edit stays behind on the server.
Converges == []<>(made \subseteq Val(Latest) /\ disk = Val(Latest))
=============================================================================
