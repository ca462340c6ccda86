------------------------ MODULE DeviceJournalProofs --------------------------
(***************************************************************************)
(* The checkpoint and the owner's work in DeviceJournal, for any number of *)
(* drafts, batches, losses and restarts. The inductive invariant Inv says  *)
(* what each record of the device may assume of the server: a batch on     *)
(* the wire, in the journal or answered to a session proposes what is on   *)
(* the disk above a base the server accepted, all copies of one batch say  *)
(* the same, its receipt is for what it holds, and an application that was *)
(* staged was merged from the disk it is applied to. LeastNumber uses the  *)
(* well-founded order of the numbers, the only induction these proofs need.*)
(***************************************************************************)
EXTENDS DeviceJournal, FiniteSetTheorems, WellFoundedInduction, TLAPS

Places  == {"idle", "recover", "check", "resent", "adopt", "resume", "resumed",
            "scan", "upload", "posted", "stage", "apply", "applied",
            "acknowledge", "finish"}
Replies == {None, "accepted", "conflict", "refused"}

Snapshots == [val : Content, own : BOOLEAN]
Requests  == [id : BatchIds, base : Nat, val : Content,
              stage : {"sent", "checked"}, live : BOOLEAN]
Events    == [seq : Nat \ {0}, of : SUBSET Drafts]
Sessions  == [at : Places, start : Nat, remote : Nat, prior : Content,
              target : Nat, upto : Nat, seen : SUBSET Drafts,
              scannedAll : BOOLEAN, read : BOOLEAN, reply : Replies]

TypeServer ==
    /\ snapshots \in Seq(Snapshots) /\ Latest > 0
    /\ receipts \in [BatchIds -> 0 .. Latest]
    /\ wire \in SUBSET Requests
TypeSaved ==
    /\ disk \in Content /\ baseline \in 1 .. Latest
    /\ applying \in Transfers \cup {None}
    /\ replay \in Content \cup {None}
    /\ journal \in Batches \cup {None}
    /\ intents \in SUBSET Events
TypeMemory ==
    /\ dirty \in Nat /\ full \in BOOLEAN /\ sequence \in Nat /\ frozen \in Nat
    /\ unnoticed \in SUBSET made /\ made \in SUBSET Drafts /\ faults \in Nat
TypeSession == run \in Sessions
TypeOK == TypeServer /\ TypeSaved /\ TypeMemory /\ TypeSession

(* Accepted content only grows, and a snapshot of this device adds only     *)
(* what is on its disk.                                                     *)
Grows == \A s, t \in 1 .. Latest : s <= t => Val(s) \subseteq Val(t)
OwnOnDisk ==
    \A s \in 2 .. Latest : snapshots[s].own => Val(s) \subseteq disk \cup Val(s - 1)

(* A batch made by this device: what it adds is on the disk, and its        *)
(* receipt, if it has one, is for what it holds.                            *)
Proposes(b) ==
    /\ b.base \in 1 .. Latest
    /\ Val(b.base) \subseteq b.val /\ b.val \subseteq disk \cup Val(b.base)
    /\ receipts[b.id] # 0 => Val(receipts[b.id]) = b.val /\ b.base < receipts[b.id]
SameBatch(a, b) == a.id = b.id => a.val = b.val /\ a.base = b.base

WireProposes ==
    \A r \in wire : Proposes(r) /\ \A q \in wire : SameBatch(q, r)
JournalProposes ==
    journal # None =>
       /\ Proposes(journal) /\ \A r \in wire : SameBatch(r, journal)
       /\ journal.prior \subseteq journal.val \cap disk
       /\ journal.phase = "accepted" =>
             journal.snapshot = receipts[journal.id] /\ journal.snapshot # 0
       /\ baseline <= journal.base \/ baseline = receipts[journal.id]
       /\ applying # None => applying.target = receipts[journal.id]

(* Only the session's own request is answered to it.                        *)
LiveIsAwaited ==
    \A r \in wire : r.live => /\ run.at \in {"posted", "resent"} /\ run.reply = None
                              /\ journal # None /\ journal.id = r.id
                              /\ \A q \in wire : q.live => q = r
ReplyIsTrue ==
    /\ run.at \in {"posted", "resent"} => journal # None /\ journal.phase = "submitted"
    /\ run.reply = "accepted" => /\ run.at \in {"posted", "resent"}
                                 /\ receipts[journal.id] # 0

MadeOnDisk == made \subseteq disk
TransferSound ==
    applying # None =>
       /\ applying.target \in baseline .. Latest
       /\ applying.prior \subseteq disk \cap Val(applying.target)
ReplaySound ==
    replay # None =>
       replay \subseteq disk \cap Val(IF applying = None THEN baseline
                                     ELSE applying.target)

(* What the session has established where it stands.                        *)
AtStart ==
    run.at \in {"idle", "recover", "check", "resent", "adopt"} =>
        run.upto = 0 /\ run.seen = {}
AtScan ==
    /\ run.at = "check" => journal = None
    /\ run.at = "scan" => journal = None /\ applying = None
                          /\ run.remote \in baseline .. Latest
AtResume ==
    /\ run.at = "adopt" => journal # None /\ journal.phase = "accepted"
    /\ run.at \in {"resume", "resumed"} =>
          applying # None /\ (journal = None => run.remote \in applying.target .. Latest)
    /\ run.at = "resumed" => replay # None \/ Val(applying.target) \subseteq disk
AtSubmit ==
    run.at \in {"upload", "posted"} => /\ applying = None /\ journal # None
                                       /\ journal.prior = run.prior
AtApply ==
    /\ run.at = "stage" => /\ applying = None /\ run.target \in baseline .. Latest
                           /\ run.prior \subseteq disk \cap Val(run.target)
                           /\ journal # None => receipts[journal.id] = run.target
    /\ run.at \in {"apply", "applied"} => applying # None /\ applying.target = run.target
    /\ run.at = "applied" => Val(run.target) \subseteq disk

(* Every event up to a batch's last was in the plan of that batch.          *)
Seen(upto, seen) ==
    upto <= frozen /\ \A e \in intents : e.seq <= upto => e.of \subseteq seen
Frozen ==
    /\ frozen <= sequence
    /\ \A e \in intents : e.seq <= sequence
JournalSeen == journal # None /\ journal.mine => Seen(journal.upto, journal.seen)
RunSeen == (journal # None => journal.mine) => Seen(run.upto, run.seen)

Inv == /\ TypeOK /\ Grows /\ OwnOnDisk
       /\ WireProposes /\ JournalProposes /\ LiveIsAwaited /\ ReplyIsTrue
       /\ MadeOnDisk /\ CheckpointApplied /\ TransferSound /\ ReplaySound
       /\ AtStart /\ AtScan /\ AtResume /\ AtSubmit /\ AtApply
       /\ Frozen /\ JournalSeen /\ RunSeen

(* What a step that only moves a session or a batch leaves in it.           *)
SameSession(s, t) ==
    /\ s.remote = t.remote /\ s.prior = t.prior /\ s.target = t.target
    /\ s.upto = t.upto /\ s.seen = t.seen
SameProposal(a, b) == a.id = b.id /\ a.base = b.base /\ a.val = b.val
SameJournal(a, b) ==
    SameProposal(a, b) /\ a.prior = b.prior /\ a.upto = b.upto /\ a.seen = b.seen
-----------------------------------------------------------------------------
(* A set of numbers has a least one; its counterexample form is the         *)
(* induction used below.                                                    *)
LEMMA LeastNumber ==
  ASSUME NEW T \in SUBSET Nat, T # {}
  PROVE  \E n \in T : \A m \in T : n <= m
<1>1. \E n \in T : \A m \in T : ~(<<m, n>> \in OpToRel(<, Nat))
  <2> DEFINE R == OpToRel(<, Nat)
  <2>1. IsWellFoundedOn(R, Nat) BY NatLessThanWellFounded
  <2> HIDE DEF R
  <2>2. \E n \in T : \A m \in T : ~(<<m, n>> \in R) BY <2>1, WFMin
  <2> QED BY <2>2 DEF R
<1>2. PICK n \in T : \A m \in T : ~(<<m, n>> \in OpToRel(<, Nat))
  BY <1>1, Zenon
<1>3. ASSUME NEW m \in T PROVE n <= m
  <2>1. ~(<<m, n>> \in {ss \in Nat \X Nat : ss[1] < ss[2]})
    BY <1>2, Zenon DEF OpToRel
  <2>2. m \in Nat /\ n \in Nat OBVIOUS
  <2>3. <<m, n>> \in Nat \X Nat /\ <<m, n>>[1] = m /\ <<m, n>>[2] = n
    BY <2>2
  <2>4. ~(m < n) BY <2>1, <2>3
  <2> QED BY <2>4, <2>2
<1> QED BY <1>3, <1>2

(* A bounded set of numbers with 0 has a greatest one, and Max is it.       *)
LEMMA GreatestNumber ==
  ASSUME NEW T \in SUBSET Nat, 0 \in T, NEW n \in Nat, \A m \in T : m <= n
  PROVE  Max(T) \in T /\ Max(T) <= n /\ \A m \in T : m <= Max(T)
<1> DEFINE U == {b \in Nat : \A m \in T : m <= b}
<1>1. U \in SUBSET Nat /\ U # {} OBVIOUS
<1>2. PICK b \in U : \A c \in U : b <= c
  <2> HIDE DEF U
  <2> QED BY <1>1, LeastNumber
<1>3. b \in Nat /\ b <= n /\ \A m \in T : m <= b BY <1>2
<1>4. b \in T
  <2>1. SUFFICES ASSUME b \notin T PROVE FALSE OBVIOUS
  <2>2. b # 0 BY <2>1
  <2>3. b - 1 \in Nat BY <2>2, <1>3
  <2>4. \A m \in T : m <= b - 1 BY <2>1, <1>3
  <2>5. b - 1 \in U BY <2>3, <2>4
  <2>6. b <= b - 1 BY <2>5, <1>2
  <2> QED BY <2>6, <1>3
<1>5. \E x \in T : \A y \in T : x >= y BY <1>3, <1>4
<1>6. Max(T) \in T /\ \A y \in T : Max(T) >= y BY <1>5 DEF Max
<1>7. \A m \in T : m <= Max(T) BY <1>6
<1> QED BY <1>6, <1>7

(* What a snapshot appended to the history keeps and adds.                  *)
LEMMA Appended ==
  ASSUME NEW S, NEW s \in Seq(S), NEW e \in S
  PROVE  /\ Append(s, e) \in Seq(S) /\ Len(Append(s, e)) = Len(s) + 1
         /\ Append(s, e)[Len(s) + 1] = e
         /\ \A i \in 1 .. Len(s) : Append(s, e)[i] = s[i]
OBVIOUS

(* What the invariant says of the values the actions read.                  *)
LEMMA Facts ==
  ASSUME Inv
  PROVE  /\ Latest \in Nat /\ Latest > 0 /\ baseline \in 1 .. Latest
         /\ \A s \in 1 .. Latest : /\ Val(s) \in Content
                                   /\ snapshots[s].own \in BOOLEAN
                                   /\ snapshots[s].val = Val(s)
         /\ \A b \in BatchIds : receipts[b] \in 0 .. Latest
         /\ \A b \in BatchIds : receipts[b] # 0 => receipts[b] \in 1 .. Latest
         /\ \A c \in Content : None # c
         /\ None \notin Transfers /\ None \notin Batches
         /\ None \notin {"accepted", "conflict", "refused"}
         /\ {} \in Content
<1>1. snapshots \in Seq(Snapshots) /\ Latest \in Nat /\ Latest > 0
      /\ receipts \in [BatchIds -> 0 .. Latest] /\ baseline \in 1 .. Latest
  BY DEF Inv, TypeOK, TypeServer, TypeSaved, Latest
<1>2. \A s \in 1 .. Latest : snapshots[s] \in Snapshots BY <1>1 DEF Latest
<1>3. \A s \in 1 .. Latest : /\ Val(s) \in Content
                             /\ snapshots[s].own \in BOOLEAN
                             /\ snapshots[s].val = Val(s)
  BY <1>2 DEF Snapshots, Val
<1>4. {} \in Content BY DEF Content
<1> QED BY <1>1, <1>3, <1>4, NoneAssumption

(* What the invariant says of the records the actions read.                 *)
LEMMA RecordFacts ==
  ASSUME Inv
  PROVE  /\ run \in Sessions /\ run.at \in Places /\ run.remote \in Nat
         /\ run.prior \in Content /\ run.target \in Nat /\ run.upto \in Nat
         /\ run.seen \in SUBSET Drafts /\ run.start \in Nat
         /\ journal # None =>
               /\ journal \in Batches /\ journal.id \in BatchIds
               /\ journal.base \in Nat /\ journal.val \in Content
               /\ journal.upto \in Nat /\ journal.seen \in SUBSET Drafts
               /\ journal.prior \in Content /\ journal.snapshot \in Nat
         /\ applying # None => /\ applying \in Transfers /\ applying.target \in Nat
                               /\ applying.prior \in Content
         /\ \A r \in wire : /\ r \in Requests /\ r.id \in BatchIds /\ r.base \in Nat
                            /\ r.val \in Content
         /\ \A e \in intents : e \in Events /\ e.seq \in Nat /\ e.seq # 0
         /\ frozen \in Nat /\ sequence \in Nat
<1>1. /\ run \in Sessions /\ run.at \in Places /\ run.remote \in Nat
      /\ run.prior \in Content /\ run.target \in Nat /\ run.upto \in Nat
      /\ run.seen \in SUBSET Drafts /\ run.start \in Nat
  BY DEF Inv, TypeOK, TypeSession, Sessions
<1>2. journal # None =>
               /\ journal \in Batches /\ journal.id \in BatchIds
               /\ journal.base \in Nat /\ journal.val \in Content
               /\ journal.upto \in Nat /\ journal.seen \in SUBSET Drafts
               /\ journal.prior \in Content /\ journal.snapshot \in Nat
  BY DEF Inv, TypeOK, TypeSaved, Batches
<1>3. applying # None => /\ applying \in Transfers /\ applying.target \in Nat
                         /\ applying.prior \in Content
  BY DEF Inv, TypeOK, TypeSaved, Transfers
<1>4. \A r \in wire : /\ r \in Requests /\ r.id \in BatchIds /\ r.base \in Nat
                      /\ r.val \in Content
  BY DEF Inv, TypeOK, TypeServer, Requests
<1>5. \A e \in intents : e \in Events /\ e.seq \in Nat /\ e.seq # 0
  BY DEF Inv, TypeOK, TypeSaved, Events
<1> QED BY <1>1, <1>2, <1>3, <1>4, <1>5 DEF Inv, TypeOK, TypeMemory

(* What a run of this device's own snapshots adds is on its disk.           *)
LEMMA OwnRun ==
  ASSUME Inv, OwnChain, run.remote \in baseline .. Latest
  PROVE  Val(run.remote) \subseteq disk \cup Val(baseline)
<1> DEFINE T == {s \in baseline .. run.remote : ~(Val(s) \subseteq disk \cup Val(baseline))}
<1>1. baseline \in 1 .. Latest /\ Latest \in Nat BY Facts
<1>2. SUFFICES ASSUME T # {} PROVE FALSE
  BY <1>1
<1>3. T \in SUBSET Nat BY <1>1
<1>4. PICK n \in T : \A m \in T : n <= m
  <2> HIDE DEF T
  <2> QED BY <1>2, <1>3, LeastNumber
<1>5. n \in baseline .. run.remote /\ ~(Val(n) \subseteq disk \cup Val(baseline))
  OBVIOUS
<1>6. n # baseline BY <1>5
<1>7. n - 1 \in baseline .. run.remote /\ n \in baseline + 1 .. run.remote /\ n \in 2 .. Latest
  BY <1>1, <1>5, <1>6
<1>8. n - 1 \notin T BY <1>4, <1>5, <1>1
<1>9. Val(n - 1) \subseteq disk \cup Val(baseline) BY <1>7, <1>8
<1>10. Val(n) \subseteq disk \cup Val(n - 1)
  BY <1>7 DEF OwnChain, Inv, OwnOnDisk
<1> QED BY <1>5, <1>9, <1>10

(* The three-way decision keeps both sides, and proposes nothing that is    *)
(* neither scanned nor accepted (reconcile.ts).                             *)
LEMMA PlanKeeps ==
  ASSUME Inv, run.at = "scan"
  PROVE  /\ Scanned \in Content /\ Final \in Content
         /\ Scanned \subseteq disk /\ Scanned \subseteq Final
         /\ Val(run.remote) \subseteq Final /\ Final \subseteq Scanned \cup Val(run.remote)
<1>1. /\ applying = None /\ run.remote \in baseline .. Latest
      /\ baseline \in 1 .. Latest /\ Latest \in Nat /\ run.remote \in 1 .. Latest
  BY Facts DEF Inv, AtScan
<1>2. /\ disk \in Content /\ replay \in Content \cup {None}
      /\ Val(run.remote) \in Content /\ Val(baseline) \in Content
      /\ Val(baseline) \subseteq Val(run.remote)
  BY <1>1, Facts DEF Inv, TypeOK, TypeSaved, Grows
<1>3. /\ replay = None => Val(baseline) \subseteq disk
      /\ replay # None => replay \subseteq disk \cap Val(baseline)
  BY <1>1 DEF Inv, CheckpointApplied, ReplaySound
<1>4. OwnChain => Val(run.remote) \subseteq disk \cup Val(baseline)
  BY <1>1, OwnRun
<1>5. /\ Val(Checkpoint) \in Content /\ Val(Checkpoint) \subseteq Val(run.remote)
      /\ ~run.read => Checkpoint = baseline
      /\ Checkpoint # baseline => Checkpoint = run.remote /\ OwnChain
  BY <1>2 DEF Checkpoint
<1>6. replay = None => Val(Checkpoint) \subseteq disk
  BY <1>3, <1>4, <1>5
<1>7. Scanned \in Content /\ Scanned \subseteq disk
  <2>1. CASE ScansAll \/ run.read BY <2>1, <1>2 DEF Scanned
  <2>2. CASE ~(ScansAll \/ run.read)
    BY <2>2, <1>5, <1>6 DEF Scanned, ScansAll
  <2> QED BY <2>1, <2>2
<1>8. MergeBase \subseteq Scanned /\ MergeBase \subseteq Val(run.remote)
  <2>1. CASE replay # None
    BY <2>1, <1>2, <1>3 DEF MergeBase, Scanned, ScansAll
  <2>2. CASE replay = None
    <3>1. MergeBase = Val(Checkpoint) BY <2>2 DEF MergeBase
    <3> QED BY <3>1, <2>2, <1>5, <1>6 DEF Scanned
  <2> QED BY <2>1, <2>2
<1>9. \/ Final = Val(run.remote) /\ Scanned = MergeBase
      \/ Final = Scanned /\ Val(run.remote) = MergeBase
      \/ Final = Scanned \cup Val(run.remote)
  BY DEF Final
<1>10. Scanned \cup Val(run.remote) \in Content BY <1>2, <1>7 DEF Content
<1> QED BY <1>2, <1>7, <1>8, <1>9, <1>10

(* The newest intent's number.                                              *)
LEMMA NewestIntent ==
  ASSUME Inv
  PROVE  LET upto == Max({0} \cup {e.seq : e \in intents})
         IN  upto \in Nat /\ upto <= sequence /\ \A e \in intents : e.seq <= upto
<1> DEFINE T == {0} \cup {e.seq : e \in intents}
<1>1. intents \in SUBSET Events /\ sequence \in Nat
  BY DEF Inv, TypeOK, TypeSaved, TypeMemory
<1>2. T \in SUBSET Nat /\ 0 \in T BY <1>1 DEF Events
<1>3. \A m \in T : m <= sequence BY <1>1 DEF Inv, Frozen
<1> HIDE DEF T
<1>4. Max(T) \in T /\ Max(T) <= sequence /\ \A m \in T : m <= Max(T)
  BY <1>1, <1>2, <1>3, GreatestNumber
<1> QED BY <1>1, <1>2, <1>4 DEF T

-----------------------------------------------------------------------------
(* A session that has lost its state is one that has not begun.             *)
LEMMA IdleSession ==
  ASSUME NEW n \in Nat
  PROVE  \A s \in {Idle, [Idle EXCEPT !.at = "recover", !.start = n]} :
            /\ s \in Sessions /\ s.at \in {"idle", "recover"}
            /\ s.upto = 0 /\ s.seen = {} /\ s.reply = None
<1>1. {} \in Content /\ 0 \in Nat /\ {} \in SUBSET Drafts /\ "idle" \in Places
      /\ "recover" \in Places /\ None \in Replies /\ FALSE \in BOOLEAN
  BY DEF Content, Places, Replies
<1>2. Idle \in Sessions BY <1>1 DEF Idle, Sessions
<1>3. [Idle EXCEPT !.at = "recover", !.start = n] \in Sessions BY <1>1, <1>2 DEF Sessions
<1>4. /\ Idle.at = "idle" /\ Idle.upto = 0 /\ Idle.seen = {} /\ Idle.reply = None
  BY DEF Idle
<1>5. LET s == [Idle EXCEPT !.at = "recover", !.start = n]
      IN  s.at = "recover" /\ s.upto = 0 /\ s.seen = {} /\ s.reply = None
  BY <1>2, <1>4 DEF Sessions
<1> QED BY <1>2, <1>3, <1>4, <1>5

(* The places are the strings they are listed as.                           *)
LEMMA PlacesListed ==
  \A p \in {"idle", "recover", "check", "resent", "adopt", "resume", "resumed",
            "scan", "upload", "posted", "stage", "apply", "applied",
            "acknowledge", "finish"} : p \in Places
BY DEF Places

(* A session that moves on keeps what it has read.                          *)
LEMMA MovedSession ==
  ASSUME NEW s \in Sessions, NEW p \in Places
  PROVE  /\ [s EXCEPT !.at = p] \in Sessions /\ [s EXCEPT !.at = p].at = p
         /\ [s EXCEPT !.at = p].reply = s.reply
         /\ SameSession([s EXCEPT !.at = p], s)
         /\ [s EXCEPT !.at = p, !.reply = None] \in Sessions
         /\ [s EXCEPT !.at = p, !.reply = None].at = p
         /\ [s EXCEPT !.at = p, !.reply = None].reply = None
         /\ SameSession([s EXCEPT !.at = p, !.reply = None], s)
BY DEF Sessions, SameSession, Replies

(* An answer changes nothing but the reply.                                 *)
LEMMA AnsweredSession ==
  ASSUME NEW s \in Sessions, NEW a \in Replies
  PROVE  /\ [s EXCEPT !.reply = a] \in Sessions
         /\ [s EXCEPT !.reply = a].at = s.at /\ [s EXCEPT !.reply = a].reply = a
         /\ SameSession([s EXCEPT !.reply = a], s)
BY DEF Sessions, SameSession

(* A request that was answered is gone, and only a live one is told.        *)
LEMMA AnswerKeeps ==
  ASSUME Inv, NEW r \in wire, NEW a \in Replies \ {None}, Answer(r, a)
  PROVE  /\ wire' = wire \ {r} /\ run' \in Sessions /\ run'.at = run.at
         /\ SameSession(run', run)
         /\ run'.reply = IF r.live THEN a ELSE run.reply
<1>1. run \in Sessions BY RecordFacts
<1>2. CASE r.live
  <2>1. run' = [run EXCEPT !.reply = a] BY <1>2 DEF Answer
  <2> QED BY <1>1, <1>2, <2>1, AnsweredSession DEF Answer
<1>3. CASE ~r.live
  BY <1>1, <1>3 DEF Answer, SameSession
<1> QED BY <1>2, <1>3

(* A dead process hears nothing of its requests.                            *)
LEMMA AbandonedWire ==
  ASSUME Inv, wire' = {Abandoned(r) : r \in wire}
  PROVE  /\ wire' \in SUBSET Requests
         /\ \A q \in wire' : ~q.live /\ \E r \in wire : SameProposal(q, r)
<1>1. \A r \in wire : /\ Abandoned(r) \in Requests /\ ~Abandoned(r).live
                      /\ SameProposal(Abandoned(r), r)
  <2> TAKE r \in wire
  <2>1. r \in Requests BY RecordFacts
  <2>2. CASE r.live
    <3>1. Abandoned(r) = [r EXCEPT !.live = FALSE] BY <2>2 DEF Abandoned
    <3> QED BY <2>1, <3>1 DEF Requests, SameProposal
  <2>3. CASE ~r.live
    <3>1. Abandoned(r) = r BY <2>3 DEF Abandoned
    <3> QED BY <2>1, <2>3, <3>1 DEF SameProposal
  <2> QED BY <2>2, <2>3
<1> QED BY <1>1

(* The request of the prepared batch joins those on the wire.               *)
LEMMA SendKeeps ==
  ASSUME Inv, journal # None, NEW p \in Places, Send(p)
  PROVE  /\ \E q \in Requests : /\ wire' = wire \cup {q} /\ q.live
                                /\ SameProposal(q, journal)
         /\ run' \in Sessions /\ run'.at = p /\ run'.reply = None
         /\ SameSession(run', run)
<1> DEFINE q == [id |-> journal.id, base |-> journal.base, val |-> journal.val,
                 stage |-> "sent", live |-> TRUE]
<1>1. q \in Requests /\ q.live /\ SameProposal(q, journal)
  BY RecordFacts DEF Requests, SameProposal
<1>2. wire' = wire \cup {q} /\ run' = [run EXCEPT !.at = p, !.reply = None]
  BY DEF Send
<1> HIDE DEF q
<1>3. run \in Sessions BY RecordFacts
<1> QED BY <1>1, <1>2, <1>3, MovedSession

(* A batch moves through its phases and keeps what it proposes.             *)
LEMMA PhaseKeeps ==
  ASSUME NEW j \in Batches
  PROVE  /\ \A n \in Nat : /\ Accepted(j, n) \in Batches
                           /\ Accepted(j, n).phase = "accepted"
                           /\ Accepted(j, n).snapshot = n
                           /\ Accepted(j, n).mine = j.mine
                           /\ SameJournal(Accepted(j, n), j)
         /\ [j EXCEPT !.phase = "submitted"] \in Batches
         /\ [j EXCEPT !.phase = "submitted"].phase = "submitted"
         /\ [j EXCEPT !.phase = "submitted"].mine = j.mine
         /\ SameJournal([j EXCEPT !.phase = "submitted"], j)
         /\ [j EXCEPT !.mine = FALSE] \in Batches
         /\ [j EXCEPT !.mine = FALSE].phase = j.phase
         /\ [j EXCEPT !.mine = FALSE].snapshot = j.snapshot
         /\ [j EXCEPT !.mine = FALSE].mine = FALSE
         /\ SameJournal([j EXCEPT !.mine = FALSE], j)
BY DEF Batches, Accepted, SameJournal, SameProposal

(* A version that builds on the head, appended to the history.              *)
LEMMA Published ==
  ASSUME Inv, NEW v \in Content, NEW own \in BOOLEAN,
         Val(Latest) \subseteq v, own => v \subseteq disk \cup Val(Latest),
         snapshots' = Append(snapshots, [val |-> v, own |-> own]), disk' = disk
  PROVE  /\ snapshots' \in Seq(Snapshots) /\ Latest' = Latest + 1
         /\ \A s \in 1 .. Latest : Val(s)' = Val(s)
         /\ \A s \in 1 .. Latest' : s = Latest + 1 => Val(s)' = v
         /\ Grows' /\ OwnOnDisk'
<1> DEFINE e == [val |-> v, own |-> own]
<1>1. e \in Snapshots /\ e.val = v /\ e.own = own BY DEF Snapshots
<1>2. snapshots \in Seq(Snapshots) BY DEF Inv, TypeOK, TypeServer
<1>3. snapshots' = Append(snapshots, e) OBVIOUS
<1> HIDE DEF e
<1>4. /\ snapshots' \in Seq(Snapshots) /\ Latest' = Latest + 1
      /\ snapshots'[Latest + 1] = e
      /\ \A s \in 1 .. Latest : snapshots'[s] = snapshots[s]
  BY <1>1, <1>2, <1>3 DEF Latest
<1>8. Latest \in Nat BY Facts
<1>5. /\ \A s \in 1 .. Latest : Val(s)' = Val(s)
      /\ \A s \in 1 .. Latest' : s = Latest + 1 => Val(s)' = v
  BY <1>1, <1>4 DEF Val
<1>6. Grows'
  <2>1. \A s, t \in 1 .. Latest : s <= t => Val(s) \subseteq Val(t)
    BY DEF Inv, Grows
  <2>2. \A s \in 1 .. Latest : Val(s) \subseteq v BY <2>1, Facts
  <2>3. ASSUME NEW s \in 1 .. Latest + 1, NEW t \in 1 .. Latest + 1, s <= t
        PROVE  Val(s)' \subseteq Val(t)'
    <3>1. CASE t = Latest + 1 /\ s # Latest + 1
      <4>1. s \in 1 .. Latest BY <3>1, Facts
      <4> QED BY <1>4, <1>5, <2>2, <3>1, <4>1
    <3>2. CASE t # Latest + 1
      <4>1. s \in 1 .. Latest /\ t \in 1 .. Latest BY <3>2, <2>3, Facts
      <4> QED BY <1>5, <2>1, <2>3, <4>1
    <3>3. CASE s = Latest + 1 /\ t = Latest + 1 BY <3>3
    <3> QED BY <3>1, <3>2, <3>3
  <2> QED BY <1>4, <2>3 DEF Grows
<1>7. OwnOnDisk'
  <2>1. ASSUME NEW s \in 2 .. Latest + 1, snapshots'[s].own
        PROVE  Val(s)' \subseteq disk \cup Val(s - 1)'
    <3>1. CASE s = Latest + 1
      <4>1. own BY <1>1, <1>4, <2>1, <3>1
      <4>2. s - 1 = Latest /\ Latest \in 1 .. Latest BY <3>1, Facts
      <4> QED BY <1>4, <1>5, <3>1, <4>1, <4>2
    <3>2. CASE s # Latest + 1
      <4>1. s \in 2 .. Latest /\ s \in 1 .. Latest /\ s - 1 \in 1 .. Latest
        BY <1>8, <3>2
      <4>2. snapshots[s].own BY <1>4, <2>1, <4>1
      <4> QED BY <1>5, <4>1, <4>2 DEF Inv, OwnOnDisk
    <3> QED BY <3>1, <3>2
  <2> QED BY <1>4, <2>1 DEF OwnOnDisk
<1> QED BY <1>4, <1>5, <1>6, <1>7

(* A batch still builds on accepted content when the history grows, and     *)
(* the receipt it may get is for what it holds.                             *)
LEMMA ProposesStays ==
  ASSUME Inv, NEW b, Proposes(b), b.id \in BatchIds, disk' = disk,
         Latest' = Latest + 1, \A s \in 1 .. Latest : Val(s)' = Val(s),
         \/ receipts'[b.id] = receipts[b.id]
         \/ receipts'[b.id] = Latest + 1
            /\ \A s \in 1 .. Latest' : s = Latest + 1 => Val(s)' = b.val
  PROVE  Proposes(b)'
<1>1. /\ b.base \in 1 .. Latest /\ Val(b.base) \subseteq b.val
      /\ b.val \subseteq disk \cup Val(b.base)
      /\ receipts[b.id] # 0 => Val(receipts[b.id]) = b.val /\ b.base < receipts[b.id]
      /\ Latest \in Nat /\ Latest + 1 \in 1 .. Latest'
      /\ receipts[b.id] # 0 => receipts[b.id] \in 1 .. Latest
  BY Facts DEF Proposes
<1>2. b.base \in 1 .. Latest' /\ b.base < Latest + 1 BY <1>1
<1>3. Val(b.base)' = Val(b.base) BY <1>1
<1>4. receipts'[b.id] # 0 => /\ b.base < receipts'[b.id]
                             /\ \A s \in 1 .. Latest' :
                                   s = receipts'[b.id] => Val(s)' = b.val
  <2>1. CASE receipts'[b.id] = receipts[b.id] BY <1>1, <2>1
  <2>2. CASE receipts'[b.id] # receipts[b.id] BY <1>1, <1>2, <2>2
  <2> QED BY <2>1, <2>2
<1>5. receipts'[b.id] # 0 => receipts'[b.id] \in 1 .. Latest' BY <1>1
<1> QED BY <1>1, <1>2, <1>3, <1>4, <1>5 DEF Proposes, Val

(* The sessions and journals name accepted snapshots, which stay.           *)
LEMMA TargetsStay ==
  ASSUME Inv, Latest' = Latest + 1, \A s \in 1 .. Latest : Val(s)' = Val(s)
  PROVE  /\ \A m, n \in Nat : n \in m .. Latest => n \in m .. Latest'
         /\ baseline \in 1 .. Latest'
         /\ applying # None => /\ applying.target \in 1 .. Latest
                               /\ applying.target \in baseline .. Latest
                               /\ snapshots'[applying.target].val
                                     = snapshots[applying.target].val
         /\ snapshots'[baseline].val = snapshots[baseline].val
         /\ run.target \in 1 .. Latest =>
               snapshots'[run.target].val = snapshots[run.target].val
BY Facts DEF Inv, TransferSound, Val

(* The owner edits: the draft is on the disk and not yet noticed.           *)
LEMMA EditStep ==
  ASSUME Inv, NEW d \in Drafts, Edit(d)
  PROVE  Inv'
<1>a. UNCHANGED <<snapshots, receipts, wire, baseline, applying, replay, journal, intents, dirty,
                  full, sequence, frozen, run, faults>> /\ Latest' = Latest
  BY DEF Edit, server, Latest
<1>r. /\ disk' = disk \cup {d} /\ disk' \in Content
      /\ made' = made \cup {d} /\ unnoticed' = unnoticed \cup {d}
  BY DEF Edit, Inv, TypeOK, TypeSaved, Content
<1>1. TypeServer' BY <1>a DEF Inv, TypeOK, TypeServer
<1>2. TypeSaved'
  BY <1>a, <1>r DEF Inv, TypeOK, TypeSaved
<1>3. TypeMemory'
  BY DEF Inv, TypeOK, TypeMemory, Edit
<1>4. TypeSession' BY <1>a DEF Inv, TypeOK, TypeSession
<1>5. Grows' BY <1>a DEF Inv, TypeOK, Grows, Val
<1>6. OwnOnDisk'
  BY <1>a, <1>r DEF Inv, OwnOnDisk, Val
<1>7. WireProposes'
  BY <1>a, <1>r DEF Inv, WireProposes, Proposes, Val
<1>8. JournalProposes'
  BY <1>a, <1>r DEF Inv, JournalProposes, Proposes, Val
<1>9. LiveIsAwaited' BY <1>a DEF Inv, TypeOK, LiveIsAwaited
<1>10. ReplyIsTrue' BY <1>a DEF Inv, TypeOK, ReplyIsTrue
<1>11. MadeOnDisk'
  BY <1>r DEF Inv, MadeOnDisk
<1>12. CheckpointApplied'
  BY <1>a, <1>r DEF Inv, CheckpointApplied, Val
<1>13. TransferSound'
  BY <1>a DEF Inv, TransferSound, Val
<1>14. ReplaySound'
  BY <1>a DEF Inv, ReplaySound, Val
<1>15. AtStart' BY <1>a DEF Inv, TypeOK, AtStart
<1>16. AtScan' BY <1>a DEF Inv, TypeOK, AtScan
<1>17. AtResume'
  BY <1>a, <1>r DEF Inv, AtResume, Val
<1>18. AtSubmit' BY <1>a DEF Inv, TypeOK, AtSubmit
<1>19. AtApply'
  BY <1>a, <1>r DEF Inv, AtApply, Val
<1>20. Frozen' BY <1>a DEF Inv, TypeOK, Frozen
<1>21. JournalSeen' BY <1>a DEF Inv, TypeOK, JournalSeen, Seen
<1>22. RunSeen' BY <1>a DEF Inv, TypeOK, RunSeen, Seen
<1> QED
  BY <1>1, <1>2, <1>3, <1>4, <1>5, <1>6, <1>7, <1>8, <1>9, <1>10, <1>11, <1>12, <1>13, <1>14,
     <1>15, <1>16, <1>17, <1>18, <1>19, <1>20, <1>21, <1>22
     DEF Inv, TypeOK

(* The watcher journals what the owner did.                                 *)
LEMMA NoticeStep ==
  ASSUME Inv, NEW d \in Drafts, Notice(d)
  PROVE  Inv'
<1>a. UNCHANGED <<snapshots, receipts, wire, disk, baseline, applying, replay, journal, full,
                  frozen, run, made, faults>> /\ Latest' = Latest
  BY DEF Notice, server, outside, Latest
<1>r. /\ intents' \in SUBSET Events /\ sequence' \in Nat /\ frozen <= sequence'
      /\ \A e \in intents' : /\ e.seq <= sequence' /\ e.seq \in Nat
                             /\ e \in intents \/ e.seq > frozen
      /\ unnoticed' = unnoticed \ {d}
  <2>1. /\ intents \in SUBSET Events /\ sequence \in Nat /\ frozen \in Nat
        /\ frozen <= sequence /\ \A e \in intents : e.seq <= sequence
    BY DEF Inv, TypeOK, TypeSaved, TypeMemory, Frozen
  <2>2. CASE Joins(d)
    <3> DEFINE last == CHOOSE e \in intents : \A f \in intents : f.seq <= e.seq
               next == [last EXCEPT !.of = @ \cup {d}]
    <3>1. PICK e \in intents : (\A f \in intents : f.seq <= e.seq) /\ e.seq > frozen
      BY <2>2 DEF Joins
    <3>2. last \in intents /\ \A f \in intents : f.seq <= last.seq BY <3>1
    <3>3. intents' = (intents \ {last}) \cup {next} /\ sequence' = sequence
      BY <2>2 DEF Notice, Record
    <3> HIDE DEF last
    <3>4. last.seq > frozen BY <2>1, <3>1, <3>2 DEF Events
    <3>5. next \in Events /\ next.seq = last.seq BY <2>1, <3>2 DEF Events
    <3> QED BY <2>1, <3>2, <3>3, <3>4, <3>5 DEF Notice, Events
  <2>3. CASE ~Joins(d)
    <3>1. /\ sequence' = sequence + 1
          /\ intents' = intents \cup {[seq |-> sequence + 1, of |-> {d}]}
      BY <2>3 DEF Notice, Record
    <3>2. [seq |-> sequence + 1, of |-> {d}] \in Events BY <2>1 DEF Events
    <3> QED BY <2>1, <3>1, <3>2 DEF Notice, Events
  <2> QED BY <2>2, <2>3
<1>d. dirty' \in Nat
  <2>1. made \subseteq Drafts BY DEF Inv, TypeOK, TypeMemory
  <2>2. IsFiniteSet(made \ unnoticed')
    BY <2>1, DraftsAssumption, FS_Subset
  <2> QED BY <2>2, FS_CardinalityType DEF Notice
<1>1. TypeServer' BY <1>a DEF Inv, TypeOK, TypeServer
<1>2. TypeSaved'
  BY <1>a, <1>r DEF Inv, TypeOK, TypeSaved
<1>3. TypeMemory'
  BY <1>a, <1>r, <1>d DEF Inv, TypeOK, TypeMemory
<1>4. TypeSession' BY <1>a DEF Inv, TypeOK, TypeSession
<1>5. Grows' BY <1>a DEF Inv, TypeOK, Grows, Val
<1>6. OwnOnDisk' BY <1>a DEF Inv, TypeOK, OwnOnDisk, Val
<1>7. WireProposes' BY <1>a DEF Inv, TypeOK, WireProposes, Val, Proposes, SameBatch
<1>8. JournalProposes' BY <1>a DEF Inv, TypeOK, JournalProposes, Val, Proposes, SameBatch
<1>9. LiveIsAwaited' BY <1>a DEF Inv, TypeOK, LiveIsAwaited
<1>10. ReplyIsTrue' BY <1>a DEF Inv, TypeOK, ReplyIsTrue
<1>11. MadeOnDisk' BY <1>a DEF Inv, TypeOK, MadeOnDisk
<1>12. CheckpointApplied' BY <1>a DEF Inv, TypeOK, CheckpointApplied, Val
<1>13. TransferSound' BY <1>a DEF Inv, TypeOK, TransferSound, Val
<1>14. ReplaySound' BY <1>a DEF Inv, TypeOK, ReplaySound, Val
<1>15. AtStart' BY <1>a DEF Inv, TypeOK, AtStart
<1>16. AtScan' BY <1>a DEF Inv, TypeOK, AtScan
<1>17. AtResume' BY <1>a DEF Inv, TypeOK, AtResume, Val
<1>18. AtSubmit' BY <1>a DEF Inv, TypeOK, AtSubmit
<1>19. AtApply' BY <1>a DEF Inv, TypeOK, AtApply, Val
<1>20. Frozen'
  BY <1>a, <1>r DEF Frozen
<1>21. JournalSeen'
  BY <1>a, <1>r, RecordFacts DEF Inv, JournalSeen, Seen
<1>22. RunSeen'
  BY <1>a, <1>r, RecordFacts DEF Inv, RunSeen, Seen
<1> QED
  BY <1>1, <1>2, <1>3, <1>4, <1>5, <1>6, <1>7, <1>8, <1>9, <1>10, <1>11, <1>12, <1>13, <1>14,
     <1>15, <1>16, <1>17, <1>18, <1>19, <1>20, <1>21, <1>22
     DEF Inv, TypeOK

(* Another device publishes on the head.                                    *)
LEMMA PublishStep ==
  ASSUME Inv, NEW f \in Foreign, Publish(f)
  PROVE  Inv'
<1>a. UNCHANGED <<receipts, wire, disk, baseline, applying, replay, journal, intents, dirty, full,
                  sequence, frozen, run, unnoticed, made, faults>>
  BY DEF Publish, saved, tracking, memory, outside
<1>r. /\ snapshots' \in Seq(Snapshots) /\ Latest' = Latest + 1
      /\ \A s \in 1 .. Latest : Val(s)' = Val(s)
      /\ \A s \in 1 .. Latest' : s = Latest + 1 => Val(s)' = Val(Latest) \cup {f}
      /\ Grows' /\ OwnOnDisk'

  <2>1. Val(Latest) \cup {f} \in Content BY Facts DEF Content
  <2> QED BY <2>1, Published DEF Publish, saved
<1>1. TypeServer'
  BY <1>a, <1>r, Facts, RecordFacts DEF Inv, TypeOK, TypeServer
<1>2. TypeSaved'
  BY <1>a, <1>r, Facts, RecordFacts DEF Inv, TypeOK, TypeSaved
<1>3. TypeMemory' BY <1>a DEF Inv, TypeOK, TypeMemory
<1>4. TypeSession' BY <1>a DEF Inv, TypeOK, TypeSession
<1>5. Grows' BY <1>r
<1>6. OwnOnDisk' BY <1>r
<1>7. WireProposes'
  <2> SUFFICES ASSUME NEW q \in wire, NEW p \in wire
               PROVE  Proposes(q)' /\ SameBatch(p, q)
    BY <1>a DEF WireProposes, SameBatch
  <2>1. Proposes(q) /\ q.id \in BatchIds /\ SameBatch(p, q)
    BY RecordFacts DEF Inv, WireProposes
  <2>2. Proposes(q)'
    BY <1>a, <1>r, <2>1, ProposesStays
  <2> QED BY <2>1, <2>2
<1>8. JournalProposes'
  <2> SUFFICES ASSUME NEW j, j = journal, j # None
               PROVE  /\ Proposes(j)'
                      /\ receipts[j.id] # 0 => receipts'[j.id] = receipts[j.id]
    <3>1. journal' = journal /\ wire' \subseteq wire BY <1>a
    <3>2. applying # None => applying.target \in baseline .. Latest
      BY DEF Inv, TransferSound
    <3> QED BY <1>a, <3>1, <3>2, Facts DEF Inv, JournalProposes, Proposes, Val
  <2>1. Proposes(j) /\ j.id \in BatchIds
    BY RecordFacts DEF Inv, JournalProposes
  <2>2. Proposes(j)' BY <1>a, <1>r, <2>1, ProposesStays
  <2> QED BY <1>a, <2>2
<1>9. LiveIsAwaited' BY <1>a DEF Inv, TypeOK, LiveIsAwaited
<1>10. ReplyIsTrue' BY <1>a DEF Inv, TypeOK, ReplyIsTrue
<1>11. MadeOnDisk' BY <1>a DEF Inv, TypeOK, MadeOnDisk
<1>12. CheckpointApplied'
  BY <1>a, <1>r, Facts DEF Inv, CheckpointApplied
<1>13. TransferSound'
  BY <1>a, <1>r, TargetsStay, Facts, RecordFacts DEF Inv, TransferSound, Val
<1>14. ReplaySound'
  BY <1>a, <1>r, TargetsStay DEF Inv, ReplaySound, Val
<1>15. AtStart' BY <1>a DEF Inv, TypeOK, AtStart
<1>16. AtScan'
  BY <1>a, <1>r, Facts DEF Inv, AtScan
<1>17. AtResume'
  BY <1>a, <1>r, TargetsStay, RecordFacts DEF Inv, AtResume
<1>18. AtSubmit' BY <1>a DEF Inv, TypeOK, AtSubmit
<1>19. AtApply'
  <2>1. run.at \in {"stage", "apply", "applied"} =>
           run.target \in baseline .. Latest /\ run.target \in 1 .. Latest
    BY TargetsStay, <1>r DEF Inv, AtApply
  <2> QED BY <1>a, <1>r, <2>1, TargetsStay, Facts DEF Inv, AtApply, Val
<1>20. Frozen' BY <1>a DEF Inv, TypeOK, Frozen
<1>21. JournalSeen' BY <1>a DEF Inv, TypeOK, JournalSeen, Seen
<1>22. RunSeen' BY <1>a DEF Inv, TypeOK, RunSeen, Seen
<1> QED
  BY <1>1, <1>2, <1>3, <1>4, <1>5, <1>6, <1>7, <1>8, <1>9, <1>10, <1>11, <1>12, <1>13, <1>14,
     <1>15, <1>16, <1>17, <1>18, <1>19, <1>20, <1>21, <1>22
     DEF Inv, TypeOK

(* A request is found to be a repetition by its receipt.                    *)
LEMMA LookUpReceiptStep ==
  ASSUME Inv, NEW r, LookUpReceipt(r)
  PROVE  Inv'
<1>a. UNCHANGED <<snapshots, receipts, disk, baseline, applying, replay, journal, intents, dirty,
                  full, sequence, frozen, unnoticed, made, faults>> /\ Latest' = Latest
  BY DEF LookUpReceipt, saved, tracking, outside, Latest
<1>r. \/ /\ r \in wire /\ wire' = wire \ {r} /\ run' \in Sessions /\ run'.at = run.at
         /\ SameSession(run', run) /\ receipts[r.id] # 0
         /\ run'.reply = IF r.live THEN "accepted" ELSE run.reply
      \/ /\ r \in wire /\ run' = run
         /\ \E q \in Requests : /\ wire' = (wire \ {r}) \cup {q}
                                /\ SameProposal(q, r) /\ q.live = r.live
  <2>1. CASE receipts[r.id] # 0
    <3>1. "accepted" \in Replies \ {None} BY Facts DEF Replies
    <3>2. r \in wire /\ Answer(r, "accepted") BY <2>1 DEF LookUpReceipt
    <3> QED BY <2>1, <3>1, <3>2, AnswerKeeps
  <2>2. CASE receipts[r.id] = 0
    <3> DEFINE q == [r EXCEPT !.stage = "checked"]
    <3>1. r \in wire /\ wire' = (wire \ {r}) \cup {q} /\ run' = run
      BY <2>2 DEF LookUpReceipt
    <3>2. q \in Requests /\ SameProposal(q, r) /\ q.live = r.live
      BY <3>1, RecordFacts DEF Requests, SameProposal
    <3> QED BY <3>1, <3>2
  <2> QED BY <2>1, <2>2
<1>1. TypeServer'
  BY <1>a, <1>r DEF Inv, TypeOK, TypeServer
<1>2. TypeSaved' BY <1>a DEF Inv, TypeOK, TypeSaved
<1>3. TypeMemory' BY <1>a DEF Inv, TypeOK, TypeMemory
<1>4. TypeSession'
  BY <1>r DEF Inv, TypeOK, TypeSession
<1>5. Grows' BY <1>a DEF Inv, TypeOK, Grows, Val
<1>6. OwnOnDisk' BY <1>a DEF Inv, TypeOK, OwnOnDisk, Val
<1>7. WireProposes'
  BY <1>a, <1>r DEF Inv, WireProposes, Proposes, SameBatch, Val, SameProposal
<1>8. JournalProposes'
  BY <1>a, <1>r DEF Inv, JournalProposes, Proposes, SameBatch, Val, SameProposal
<1>9. LiveIsAwaited'
  BY <1>a, <1>r DEF Inv, LiveIsAwaited, SameProposal
<1>10. ReplyIsTrue'
  BY <1>a, <1>r DEF Inv, ReplyIsTrue, LiveIsAwaited
<1>11. MadeOnDisk' BY <1>a DEF Inv, TypeOK, MadeOnDisk
<1>12. CheckpointApplied' BY <1>a DEF Inv, TypeOK, CheckpointApplied, Val
<1>13. TransferSound' BY <1>a DEF Inv, TypeOK, TransferSound, Val
<1>14. ReplaySound' BY <1>a DEF Inv, TypeOK, ReplaySound, Val
<1>15. AtStart'
  BY <1>r DEF Inv, AtStart, SameSession
<1>16. AtScan'
  BY <1>a, <1>r DEF Inv, AtScan, SameSession
<1>17. AtResume'
  BY <1>a, <1>r DEF Inv, AtResume, Val, SameSession
<1>18. AtSubmit'
  BY <1>a, <1>r DEF Inv, AtSubmit, SameSession
<1>19. AtApply'
  BY <1>a, <1>r DEF Inv, AtApply, Val, SameSession
<1>20. Frozen' BY <1>a DEF Inv, TypeOK, Frozen
<1>21. JournalSeen' BY <1>a DEF Inv, TypeOK, JournalSeen, Seen
<1>22. RunSeen'
  BY <1>a, <1>r DEF Inv, RunSeen, Seen, SameSession
<1> QED
  BY <1>1, <1>2, <1>3, <1>4, <1>5, <1>6, <1>7, <1>8, <1>9, <1>10, <1>11, <1>12, <1>13, <1>14,
     <1>15, <1>16, <1>17, <1>18, <1>19, <1>20, <1>21, <1>22
     DEF Inv, TypeOK

(* A batch on the head becomes its successor, with a receipt.               *)
LEMMA AcceptStep ==
  ASSUME Inv, NEW r, Accept(r)
  PROVE  Inv'
<1>a. UNCHANGED <<disk, baseline, applying, replay, journal, intents, dirty, full, sequence,
                  frozen, unnoticed, made, faults>>
  BY DEF Accept, saved, tracking, outside
<1>w. /\ r \in wire /\ r \in Requests /\ r.base = Latest /\ Proposes(r)
      /\ r.id \in BatchIds /\ r.val \in Content
      /\ \A q \in wire : SameBatch(q, r)
      /\ wire' = wire \ {r} /\ run' \in Sessions /\ run'.at = run.at
      /\ SameSession(run', run)
      /\ run'.reply = IF r.live THEN "accepted" ELSE run.reply
      /\ receipts' = [receipts EXCEPT ![r.id] = Latest + 1]
      /\ receipts \in [BatchIds -> 0 .. Latest] /\ receipts[r.id] = 0
  <2>1. r \in wire /\ Answer(r, "accepted") /\ r.base = Latest BY DEF Accept
  <2>2. "accepted" \in Replies \ {None} BY Facts DEF Replies
  <2>3. receipts[r.id] = 0
    BY <2>1, Facts, RecordFacts DEF Inv, WireProposes, Proposes
  <2> QED BY <2>1, <2>2, <2>3, AnswerKeeps, RecordFacts
          DEF Accept, Inv, WireProposes, TypeOK, TypeServer
<1>r. /\ snapshots' \in Seq(Snapshots) /\ Latest' = Latest + 1
      /\ \A s \in 1 .. Latest : Val(s)' = Val(s)
      /\ \A s \in 1 .. Latest' : s = Latest + 1 => Val(s)' = r.val
      /\ Grows' /\ OwnOnDisk'
  <2>1. Val(Latest) \subseteq r.val /\ r.val \subseteq disk \cup Val(Latest)
    BY <1>w DEF Proposes
  <2> QED BY <1>w, <2>1, Published DEF Accept, saved
<1>c. /\ \A b \in BatchIds : b # r.id => receipts'[b] = receipts[b]
      /\ receipts'[r.id] = Latest + 1 /\ receipts' \in [BatchIds -> 0 .. Latest']
  BY <1>w, <1>r, Facts
<1>1. TypeServer'
  <2>1. wire \in SUBSET Requests /\ Latest' > 0
    BY <1>r, Facts DEF Inv, TypeOK, TypeServer
  <2> QED BY <1>r, <1>w, <1>c, <2>1 DEF TypeServer
<1>2. TypeSaved'
  BY <1>a, <1>r, Facts DEF Inv, TypeOK, TypeSaved
<1>3. TypeMemory' BY <1>a DEF Inv, TypeOK, TypeMemory
<1>4. TypeSession'
  BY <1>w DEF TypeSession
<1>5. Grows' BY <1>r
<1>6. OwnOnDisk' BY <1>r
<1>7. WireProposes'
  <2> SUFFICES ASSUME NEW q \in wire, NEW p \in wire
               PROVE  Proposes(q)' /\ SameBatch(p, q)
    BY <1>w DEF WireProposes, SameBatch
  <2>1. Proposes(q) /\ q.id \in BatchIds /\ SameBatch(p, q)
    BY RecordFacts DEF Inv, WireProposes
  <2>c. \/ receipts'[q.id] = receipts[q.id]
        \/ receipts'[q.id] = Latest + 1
           /\ \A s \in 1 .. Latest' : s = Latest + 1 => Val(s)' = q.val
    <3>1. CASE q.id = r.id
      <4>1. q.val = r.val BY <1>w, <3>1 DEF SameBatch
      <4> QED BY <1>r, <1>c, <3>1, <4>1
    <3>2. CASE q.id # r.id BY <1>c, <2>1, <3>2
    <3> QED BY <3>1, <3>2
  <2>2. Proposes(q)'
    BY <1>a, <1>r, <2>c, <2>1, ProposesStays
  <2> QED BY <2>1, <2>2
<1>8. JournalProposes'
  <2> SUFFICES ASSUME NEW j, j = journal, j # None
               PROVE  /\ Proposes(j)'
                      /\ receipts[j.id] # 0 => receipts'[j.id] = receipts[j.id]
    <3>1. journal' = journal /\ wire' \subseteq wire BY <1>a, <1>w
    <3>2. applying # None => applying.target \in baseline .. Latest
      BY DEF Inv, TransferSound
    <3> QED BY <1>a, <3>1, <3>2, Facts DEF Inv, JournalProposes, Proposes, Val
  <2>1. Proposes(j) /\ j.id \in BatchIds /\ SameBatch(r, j)
    BY <1>w, RecordFacts DEF Inv, JournalProposes
  <2>2. \/ receipts'[j.id] = receipts[j.id]
        \/ /\ receipts'[j.id] = Latest + 1 /\ receipts[j.id] = 0
           /\ \A s \in 1 .. Latest' : s = Latest + 1 => Val(s)' = j.val
    <3>1. CASE j.id = r.id
      <4>1. j.val = r.val BY <2>1, <3>1 DEF SameBatch
      <4> QED BY <1>w, <1>r, <1>c, <3>1, <4>1
    <3>2. CASE j.id # r.id BY <1>c, <2>1, <3>2
    <3> QED BY <3>1, <3>2
  <2>3. Proposes(j)' BY <1>a, <1>r, <2>1, <2>2, ProposesStays
  <2> QED BY <2>2, <2>3
<1>9. LiveIsAwaited'
  BY <1>a, <1>w DEF Inv, LiveIsAwaited
<1>10. ReplyIsTrue'
  BY <1>a, <1>w, RecordFacts DEF Inv, ReplyIsTrue, LiveIsAwaited
<1>11. MadeOnDisk' BY <1>a DEF Inv, TypeOK, MadeOnDisk
<1>12. CheckpointApplied'
  BY <1>a, <1>r, Facts DEF Inv, CheckpointApplied
<1>13. TransferSound'
  BY <1>a, <1>r, <1>w, <1>c, TargetsStay, Facts, RecordFacts
     DEF Inv, TransferSound, Val, SameSession
<1>14. ReplaySound'
  BY <1>a, <1>r, TargetsStay DEF Inv, ReplaySound, Val
<1>15. AtStart'
  BY <1>w DEF Inv, AtStart, SameSession
<1>16. AtScan'
  BY <1>a, <1>r, <1>w, RecordFacts DEF Inv, AtScan, SameSession
<1>17. AtResume'
  BY <1>a, <1>r, <1>w, TargetsStay, RecordFacts DEF Inv, AtResume, SameSession
<1>18. AtSubmit'
  BY <1>a, <1>w DEF Inv, AtSubmit, SameSession
<1>19. AtApply'
  <2>1. run.at \in {"stage", "apply", "applied"} =>
           run.target \in baseline .. Latest /\ run.target \in 1 .. Latest
    BY TargetsStay, <1>r DEF Inv, AtApply
  <2> QED BY <1>a, <1>r, <1>w, <1>c, <2>1, TargetsStay, Facts DEF Inv, AtApply, Val, SameSession
<1>20. Frozen' BY <1>a DEF Inv, TypeOK, Frozen
<1>21. JournalSeen' BY <1>a DEF Inv, TypeOK, JournalSeen, Seen
<1>22. RunSeen'
  BY <1>a, <1>w DEF Inv, RunSeen, Seen, SameSession
<1> QED
  BY <1>1, <1>2, <1>3, <1>4, <1>5, <1>6, <1>7, <1>8, <1>9, <1>10, <1>11, <1>12, <1>13, <1>14,
     <1>15, <1>16, <1>17, <1>18, <1>19, <1>20, <1>21, <1>22
     DEF Inv, TypeOK

(* A batch on another base is told so.                                      *)
LEMMA ConflictStep ==
  ASSUME Inv, NEW r, Conflict(r)
  PROVE  Inv'
<1>a. UNCHANGED <<snapshots, receipts, disk, baseline, applying, replay, journal, intents, dirty,
                  full, sequence, frozen, unnoticed, made, faults>> /\ Latest' = Latest
  BY DEF Conflict, saved, tracking, outside, Latest
<1>r. /\ r \in wire /\ wire' = wire \ {r} /\ run' \in Sessions /\ run'.at = run.at
      /\ SameSession(run', run)
      /\ run'.reply = IF r.live THEN "conflict" ELSE run.reply
  <2>1. "conflict" \in Replies \ {None} BY Facts DEF Replies
  <2> QED BY <2>1, AnswerKeeps DEF Conflict
<1>1. TypeServer'
  BY <1>a, <1>r DEF Inv, TypeOK, TypeServer
<1>2. TypeSaved' BY <1>a DEF Inv, TypeOK, TypeSaved
<1>3. TypeMemory' BY <1>a DEF Inv, TypeOK, TypeMemory
<1>4. TypeSession'
  BY <1>r DEF TypeSession
<1>5. Grows' BY <1>a DEF Inv, TypeOK, Grows, Val
<1>6. OwnOnDisk' BY <1>a DEF Inv, TypeOK, OwnOnDisk, Val
<1>7. WireProposes'
  BY <1>a, <1>r DEF Inv, WireProposes, Proposes, Val
<1>8. JournalProposes'
  BY <1>a, <1>r DEF Inv, JournalProposes, Proposes, Val
<1>9. LiveIsAwaited'
  BY <1>a, <1>r DEF Inv, LiveIsAwaited
<1>10. ReplyIsTrue'
  BY <1>a, <1>r DEF Inv, ReplyIsTrue
<1>11. MadeOnDisk' BY <1>a DEF Inv, TypeOK, MadeOnDisk
<1>12. CheckpointApplied' BY <1>a DEF Inv, TypeOK, CheckpointApplied, Val
<1>13. TransferSound' BY <1>a DEF Inv, TypeOK, TransferSound, Val
<1>14. ReplaySound' BY <1>a DEF Inv, TypeOK, ReplaySound, Val
<1>15. AtStart'
  BY <1>r DEF Inv, AtStart, SameSession
<1>16. AtScan'
  BY <1>a, <1>r DEF Inv, AtScan, SameSession
<1>17. AtResume'
  BY <1>a, <1>r DEF Inv, AtResume, Val, SameSession
<1>18. AtSubmit'
  BY <1>a, <1>r DEF Inv, AtSubmit, SameSession
<1>19. AtApply'
  BY <1>a, <1>r DEF Inv, AtApply, Val, SameSession
<1>20. Frozen' BY <1>a DEF Inv, TypeOK, Frozen
<1>21. JournalSeen' BY <1>a DEF Inv, TypeOK, JournalSeen, Seen
<1>22. RunSeen'
  BY <1>a, <1>r DEF Inv, RunSeen, Seen, SameSession
<1> QED
  BY <1>1, <1>2, <1>3, <1>4, <1>5, <1>6, <1>7, <1>8, <1>9, <1>10, <1>11, <1>12, <1>13, <1>14,
     <1>15, <1>16, <1>17, <1>18, <1>19, <1>20, <1>21, <1>22
     DEF Inv, TypeOK

(* A batch is refused for good.                                             *)
LEMMA RefuseStep ==
  ASSUME Inv, NEW r, Refuse(r)
  PROVE  Inv'
<1>a. UNCHANGED <<snapshots, receipts, disk, baseline, applying, replay, journal, intents, dirty,
                  full, sequence, frozen, unnoticed, made>> /\ Latest' = Latest
  BY DEF Refuse, saved, tracking, Latest
<1>r. /\ r \in wire /\ wire' = wire \ {r} /\ run' \in Sessions /\ run'.at = run.at
      /\ SameSession(run', run)
      /\ run'.reply = IF r.live THEN "refused" ELSE run.reply
  <2>1. "refused" \in Replies \ {None} BY Facts DEF Replies
  <2> QED BY <2>1, AnswerKeeps DEF Refuse
<1>1. TypeServer'
  BY <1>a, <1>r DEF Inv, TypeOK, TypeServer
<1>2. TypeSaved' BY <1>a DEF Inv, TypeOK, TypeSaved
<1>3. TypeMemory'
  BY <1>a DEF Inv, TypeOK, TypeMemory, Refuse
<1>4. TypeSession'
  BY <1>r DEF TypeSession
<1>5. Grows' BY <1>a DEF Inv, TypeOK, Grows, Val
<1>6. OwnOnDisk' BY <1>a DEF Inv, TypeOK, OwnOnDisk, Val
<1>7. WireProposes'
  BY <1>a, <1>r DEF Inv, WireProposes, Proposes, Val
<1>8. JournalProposes'
  BY <1>a, <1>r DEF Inv, JournalProposes, Proposes, Val
<1>9. LiveIsAwaited'
  BY <1>a, <1>r DEF Inv, LiveIsAwaited
<1>10. ReplyIsTrue'
  BY <1>a, <1>r DEF Inv, ReplyIsTrue
<1>11. MadeOnDisk' BY <1>a DEF Inv, TypeOK, MadeOnDisk
<1>12. CheckpointApplied' BY <1>a DEF Inv, TypeOK, CheckpointApplied, Val
<1>13. TransferSound' BY <1>a DEF Inv, TypeOK, TransferSound, Val
<1>14. ReplaySound' BY <1>a DEF Inv, TypeOK, ReplaySound, Val
<1>15. AtStart'
  BY <1>r DEF Inv, AtStart, SameSession
<1>16. AtScan'
  BY <1>a, <1>r DEF Inv, AtScan, SameSession
<1>17. AtResume'
  BY <1>a, <1>r DEF Inv, AtResume, Val, SameSession
<1>18. AtSubmit'
  BY <1>a, <1>r DEF Inv, AtSubmit, SameSession
<1>19. AtApply'
  BY <1>a, <1>r DEF Inv, AtApply, Val, SameSession
<1>20. Frozen' BY <1>a DEF Inv, TypeOK, Frozen
<1>21. JournalSeen' BY <1>a DEF Inv, TypeOK, JournalSeen, Seen
<1>22. RunSeen'
  BY <1>a, <1>r DEF Inv, RunSeen, Seen, SameSession
<1> QED
  BY <1>1, <1>2, <1>3, <1>4, <1>5, <1>6, <1>7, <1>8, <1>9, <1>10, <1>11, <1>12, <1>13, <1>14,
     <1>15, <1>16, <1>17, <1>18, <1>19, <1>20, <1>21, <1>22
     DEF Inv, TypeOK

(* A request or its answer is lost.                                         *)
LEMMA DropStep ==
  ASSUME Inv, NEW r, Drop(r)
  PROVE  Inv'
<1>a. UNCHANGED <<snapshots, receipts, disk, baseline, applying, replay, journal, intents, dirty,
                  full, sequence, frozen, run, unnoticed, made, faults>> /\ Latest' = Latest
  BY DEF Drop, saved, tracking, memory, outside, Latest
<1>r. r \in wire /\ wire' = wire \ {r} BY DEF Drop
<1>1. TypeServer'
  BY <1>a, <1>r DEF Inv, TypeOK, TypeServer
<1>2. TypeSaved' BY <1>a DEF Inv, TypeOK, TypeSaved
<1>3. TypeMemory' BY <1>a DEF Inv, TypeOK, TypeMemory
<1>4. TypeSession' BY <1>a DEF Inv, TypeOK, TypeSession
<1>5. Grows' BY <1>a DEF Inv, TypeOK, Grows, Val
<1>6. OwnOnDisk' BY <1>a DEF Inv, TypeOK, OwnOnDisk, Val
<1>7. WireProposes'
  BY <1>a, <1>r DEF Inv, WireProposes, Proposes, Val
<1>8. JournalProposes'
  BY <1>a, <1>r DEF Inv, JournalProposes, Proposes, Val
<1>9. LiveIsAwaited'
  BY <1>a, <1>r DEF Inv, LiveIsAwaited
<1>10. ReplyIsTrue' BY <1>a DEF Inv, TypeOK, ReplyIsTrue
<1>11. MadeOnDisk' BY <1>a DEF Inv, TypeOK, MadeOnDisk
<1>12. CheckpointApplied' BY <1>a DEF Inv, TypeOK, CheckpointApplied, Val
<1>13. TransferSound' BY <1>a DEF Inv, TypeOK, TransferSound, Val
<1>14. ReplaySound' BY <1>a DEF Inv, TypeOK, ReplaySound, Val
<1>15. AtStart' BY <1>a DEF Inv, TypeOK, AtStart
<1>16. AtScan' BY <1>a DEF Inv, TypeOK, AtScan
<1>17. AtResume' BY <1>a DEF Inv, TypeOK, AtResume, Val
<1>18. AtSubmit' BY <1>a DEF Inv, TypeOK, AtSubmit
<1>19. AtApply' BY <1>a DEF Inv, TypeOK, AtApply, Val
<1>20. Frozen' BY <1>a DEF Inv, TypeOK, Frozen
<1>21. JournalSeen' BY <1>a DEF Inv, TypeOK, JournalSeen, Seen
<1>22. RunSeen' BY <1>a DEF Inv, TypeOK, RunSeen, Seen
<1> QED
  BY <1>1, <1>2, <1>3, <1>4, <1>5, <1>6, <1>7, <1>8, <1>9, <1>10, <1>11, <1>12, <1>13, <1>14,
     <1>15, <1>16, <1>17, <1>18, <1>19, <1>20, <1>21, <1>22
     DEF Inv, TypeOK

(* A run begins.                                                            *)
LEMMA BeginStep ==
  ASSUME Inv, Begin
  PROVE  Inv'
<1>a. UNCHANGED <<snapshots, receipts, wire, disk, baseline, applying, replay, journal, intents,
                  dirty, full, sequence, frozen, unnoticed, made, faults>> /\ Latest' = Latest
  BY DEF Begin, server, saved, tracking, outside, Latest
<1>r. /\ run' \in Sessions /\ run'.at \in {"idle", "recover"} /\ run.at = "idle"
      /\ run'.upto = 0 /\ run'.seen = {} /\ run'.reply = None
  <2>1. dirty \in Nat BY DEF Inv, TypeOK, TypeMemory
  <2> QED BY <2>1, IdleSession DEF Begin
<1>1. TypeServer' BY <1>a DEF Inv, TypeOK, TypeServer
<1>2. TypeSaved' BY <1>a DEF Inv, TypeOK, TypeSaved
<1>3. TypeMemory' BY <1>a DEF Inv, TypeOK, TypeMemory
<1>4. TypeSession'
  BY <1>r DEF TypeSession
<1>5. Grows' BY <1>a DEF Inv, TypeOK, Grows, Val
<1>6. OwnOnDisk' BY <1>a DEF Inv, TypeOK, OwnOnDisk, Val
<1>7. WireProposes' BY <1>a DEF Inv, TypeOK, WireProposes, Val, Proposes, SameBatch
<1>8. JournalProposes' BY <1>a DEF Inv, TypeOK, JournalProposes, Val, Proposes, SameBatch
<1>9. LiveIsAwaited'
  BY <1>a, <1>r DEF Inv, LiveIsAwaited
<1>10. ReplyIsTrue'
  BY <1>r, Facts DEF ReplyIsTrue
<1>11. MadeOnDisk' BY <1>a DEF Inv, TypeOK, MadeOnDisk
<1>12. CheckpointApplied' BY <1>a DEF Inv, TypeOK, CheckpointApplied, Val
<1>13. TransferSound' BY <1>a DEF Inv, TypeOK, TransferSound, Val
<1>14. ReplaySound' BY <1>a DEF Inv, TypeOK, ReplaySound, Val
<1>15. AtStart'
  BY <1>r DEF AtStart
<1>16. AtScan'
  BY <1>r DEF AtScan
<1>17. AtResume'
  BY <1>r DEF AtResume
<1>18. AtSubmit'
  BY <1>r DEF AtSubmit
<1>19. AtApply'
  BY <1>r DEF AtApply
<1>20. Frozen' BY <1>a DEF Inv, TypeOK, Frozen
<1>21. JournalSeen' BY <1>a DEF Inv, TypeOK, JournalSeen, Seen
<1>22. RunSeen'
  BY <1>a, <1>r, RecordFacts DEF RunSeen, Seen
<1> QED
  BY <1>1, <1>2, <1>3, <1>4, <1>5, <1>6, <1>7, <1>8, <1>9, <1>10, <1>11, <1>12, <1>13, <1>14,
     <1>15, <1>16, <1>17, <1>18, <1>19, <1>20, <1>21, <1>22
     DEF Inv, TypeOK

(* A run is given up; what it saved stays.                                  *)
LEMMA FailStep ==
  ASSUME Inv, Fail
  PROVE  Inv'
<1>a. UNCHANGED <<snapshots, receipts, disk, baseline, applying, replay, journal, intents, dirty,
                  full, sequence, frozen, unnoticed, made>> /\ Latest' = Latest
  BY DEF Fail, saved, tracking, Latest
<1>r. /\ run' \in Sessions /\ run'.at \in {"idle", "recover"}
      /\ run'.upto = 0 /\ run'.seen = {} /\ run'.reply = None
  BY RecordFacts, IdleSession DEF Fail
<1>w. /\ wire' \in SUBSET Requests
      /\ \A q \in wire' : ~q.live /\ \E r \in wire : SameProposal(q, r)
  BY AbandonedWire DEF Fail
<1>1. TypeServer'
  BY <1>a, <1>w DEF Inv, TypeOK, TypeServer
<1>2. TypeSaved' BY <1>a DEF Inv, TypeOK, TypeSaved
<1>3. TypeMemory'
  BY <1>a DEF Inv, TypeOK, TypeMemory, Fail
<1>4. TypeSession'
  BY <1>r DEF TypeSession
<1>5. Grows' BY <1>a DEF Inv, TypeOK, Grows, Val
<1>6. OwnOnDisk' BY <1>a DEF Inv, TypeOK, OwnOnDisk, Val
<1>7. WireProposes'
  BY <1>a, <1>w DEF Inv, WireProposes, Proposes, SameBatch, Val, SameProposal
<1>8. JournalProposes'
  BY <1>a, <1>w DEF Inv, JournalProposes, Proposes, SameBatch, Val, SameProposal
<1>9. LiveIsAwaited'
  BY <1>w DEF LiveIsAwaited
<1>10. ReplyIsTrue'
  BY <1>r, Facts DEF ReplyIsTrue
<1>11. MadeOnDisk' BY <1>a DEF Inv, TypeOK, MadeOnDisk
<1>12. CheckpointApplied' BY <1>a DEF Inv, TypeOK, CheckpointApplied, Val
<1>13. TransferSound' BY <1>a DEF Inv, TypeOK, TransferSound, Val
<1>14. ReplaySound' BY <1>a DEF Inv, TypeOK, ReplaySound, Val
<1>15. AtStart'
  BY <1>r DEF AtStart
<1>16. AtScan'
  BY <1>r DEF AtScan
<1>17. AtResume'
  BY <1>r DEF AtResume
<1>18. AtSubmit'
  BY <1>r DEF AtSubmit
<1>19. AtApply'
  BY <1>r DEF AtApply
<1>20. Frozen' BY <1>a DEF Inv, TypeOK, Frozen
<1>21. JournalSeen' BY <1>a DEF Inv, TypeOK, JournalSeen, Seen
<1>22. RunSeen'
  BY <1>a, <1>r, RecordFacts DEF RunSeen, Seen
<1> QED
  BY <1>1, <1>2, <1>3, <1>4, <1>5, <1>6, <1>7, <1>8, <1>9, <1>10, <1>11, <1>12, <1>13, <1>14,
     <1>15, <1>16, <1>17, <1>18, <1>19, <1>20, <1>21, <1>22
     DEF Inv, TypeOK

(* The application closes: memory is lost, the saved settings are not.      *)
LEMMA RestartStep ==
  ASSUME Inv, Restart
  PROVE  Inv'
<1>a. UNCHANGED <<snapshots, receipts, disk, baseline, applying, replay, intents,
                  made>> /\ Latest' = Latest
  BY DEF Restart, Latest
<1>r. /\ run' \in Sessions /\ run'.at \in {"idle", "recover"}
      /\ run'.upto = 0 /\ run'.seen = {} /\ run'.reply = None
  <2>1. 0 \in Nat OBVIOUS
  <2> QED BY <2>1, IdleSession DEF Restart
<1>w. /\ wire' \in SUBSET Requests
      /\ \A q \in wire' : ~q.live /\ \E r \in wire : SameProposal(q, r)
  BY AbandonedWire DEF Restart
<1>j. /\ journal = None => journal' = None
      /\ journal # None =>
            /\ journal' \in Batches /\ journal' # None /\ SameJournal(journal', journal)
            /\ journal'.phase = journal.phase
            /\ journal'.snapshot = journal.snapshot /\ journal'.mine = FALSE
  <2>1. journal # None => journal \in Batches BY RecordFacts
  <2>2. journal' = IF journal = None THEN None ELSE [journal EXCEPT !.mine = FALSE]
    BY DEF Restart
  <2> QED BY <2>1, <2>2, Facts, PhaseKeeps
<1>s. /\ sequence' \in Nat /\ \A e \in intents : e.seq <= sequence'
      /\ frozen' = 0 /\ unnoticed' = {} /\ full' = TRUE
      /\ dirty' \in Nat /\ faults' = faults + 1
  <2>1. dirty \in Nat BY DEF Inv, TypeOK, TypeMemory
  <2> QED BY <2>1, NewestIntent DEF Restart
<1>1. TypeServer'
  BY <1>a, <1>w DEF Inv, TypeOK, TypeServer
<1>2. TypeSaved'
  BY <1>a, <1>j DEF Inv, TypeOK, TypeSaved
<1>3. TypeMemory'
  BY <1>a, <1>s DEF Inv, TypeOK, TypeMemory
<1>4. TypeSession'
  BY <1>r DEF TypeSession
<1>5. Grows' BY <1>a DEF Inv, TypeOK, Grows, Val
<1>6. OwnOnDisk' BY <1>a DEF Inv, TypeOK, OwnOnDisk, Val
<1>7. WireProposes'
  BY <1>a, <1>w DEF Inv, WireProposes, Proposes, SameBatch, Val, SameProposal
<1>8. JournalProposes'
  BY <1>a, <1>w, <1>j DEF Inv, JournalProposes, Proposes, SameBatch, Val, SameJournal, SameProposal
<1>9. LiveIsAwaited'
  BY <1>w DEF LiveIsAwaited
<1>10. ReplyIsTrue'
  BY <1>r, Facts DEF ReplyIsTrue
<1>11. MadeOnDisk' BY <1>a DEF Inv, TypeOK, MadeOnDisk
<1>12. CheckpointApplied' BY <1>a DEF Inv, TypeOK, CheckpointApplied, Val
<1>13. TransferSound' BY <1>a DEF Inv, TypeOK, TransferSound, Val
<1>14. ReplaySound' BY <1>a DEF Inv, TypeOK, ReplaySound, Val
<1>15. AtStart'
  BY <1>r DEF AtStart
<1>16. AtScan'
  BY <1>r DEF AtScan
<1>17. AtResume'
  BY <1>r DEF AtResume
<1>18. AtSubmit'
  BY <1>r DEF AtSubmit
<1>19. AtApply'
  BY <1>r DEF AtApply
<1>20. Frozen'
  BY <1>a, <1>s DEF Frozen
<1>21. JournalSeen'
  BY <1>j DEF JournalSeen
<1>22. RunSeen'
  BY <1>a, <1>r, <1>s, RecordFacts DEF RunSeen, Seen
<1> QED
  BY <1>1, <1>2, <1>3, <1>4, <1>5, <1>6, <1>7, <1>8, <1>9, <1>10, <1>11, <1>12, <1>13, <1>14,
     <1>15, <1>16, <1>17, <1>18, <1>19, <1>20, <1>21, <1>22
     DEF Inv, TypeOK

(* A batch that was prepared and never sent is forgotten.                   *)
LEMMA DiscardStep ==
  ASSUME Inv, Discard
  PROVE  Inv'
<1>a. UNCHANGED <<snapshots, receipts, wire, disk, baseline, applying, replay, intents, dirty,
                  full, sequence, frozen, unnoticed, made, faults>> /\ Latest' = Latest
  BY DEF Discard, server, tracking, outside, Latest
<1>r. /\ run' \in Sessions /\ run'.at = "check" /\ SameSession(run', run)
      /\ run'.reply = run.reply /\ run.at = "recover"
      /\ journal' = None
    <2>1. run \in Sessions /\ "check" \in Places BY RecordFacts, PlacesListed
  <2>2. run' = [run EXCEPT !.at = "check"] /\ run.at = "recover"
      /\ journal' = None BY DEF Discard, Goto
  <2> QED BY <2>1, <2>2, MovedSession
<1>1. TypeServer' BY <1>a DEF Inv, TypeOK, TypeServer
<1>2. TypeSaved'
  BY <1>a, <1>r DEF Inv, TypeOK, TypeSaved
<1>3. TypeMemory' BY <1>a DEF Inv, TypeOK, TypeMemory
<1>4. TypeSession'
  BY <1>r DEF TypeSession
<1>5. Grows' BY <1>a DEF Inv, TypeOK, Grows, Val
<1>6. OwnOnDisk' BY <1>a DEF Inv, TypeOK, OwnOnDisk, Val
<1>7. WireProposes' BY <1>a DEF Inv, TypeOK, WireProposes, Val, Proposes, SameBatch
<1>8. JournalProposes'
  BY <1>r DEF JournalProposes
<1>9. LiveIsAwaited'
  BY <1>a, <1>r DEF Inv, LiveIsAwaited
<1>10. ReplyIsTrue'
  BY <1>r DEF Inv, ReplyIsTrue
<1>11. MadeOnDisk' BY <1>a DEF Inv, TypeOK, MadeOnDisk
<1>12. CheckpointApplied' BY <1>a DEF Inv, TypeOK, CheckpointApplied, Val
<1>13. TransferSound' BY <1>a DEF Inv, TypeOK, TransferSound, Val
<1>14. ReplaySound' BY <1>a DEF Inv, TypeOK, ReplaySound, Val
<1>15. AtStart'
  BY <1>r DEF Inv, AtStart, SameSession
<1>16. AtScan'
  BY <1>r DEF AtScan
<1>17. AtResume'
  BY <1>r DEF AtResume
<1>18. AtSubmit'
  BY <1>r DEF AtSubmit
<1>19. AtApply'
  BY <1>r DEF AtApply
<1>20. Frozen' BY <1>a DEF Inv, TypeOK, Frozen
<1>21. JournalSeen'
  BY <1>r DEF JournalSeen
<1>22. RunSeen'
  BY <1>a, <1>r, RecordFacts DEF Inv, RunSeen, Seen, SameSession, AtStart
<1> QED
  BY <1>1, <1>2, <1>3, <1>4, <1>5, <1>6, <1>7, <1>8, <1>9, <1>10, <1>11, <1>12, <1>13, <1>14,
     <1>15, <1>16, <1>17, <1>18, <1>19, <1>20, <1>21, <1>22
     DEF Inv, TypeOK

(* The recovery asks for the receipt of a batch that was sent.              *)
LEMMA AskReceiptStep ==
  ASSUME Inv, AskReceipt
  PROVE  Inv'
<1>a. UNCHANGED <<snapshots, receipts, disk, baseline, applying, replay, intents, dirty, full,
                  sequence, frozen, unnoticed, made, faults>> /\ Latest' = Latest
  BY DEF AskReceipt, tracking, outside, Latest
<1>j. journal # None /\ journal.phase = "submitted" /\ run.at = "recover"
  BY DEF AskReceipt
<1>r. \/ /\ receipts[journal.id] # 0 /\ wire' = wire
         /\ run' \in Sessions /\ run'.at = "adopt" /\ SameSession(run', run)
         /\ run'.reply = run.reply
         /\ journal' \in Batches /\ journal' # None /\ SameJournal(journal', journal)
         /\ journal'.phase = "accepted" /\ journal'.snapshot = receipts[journal.id]
         /\ journal'.mine = journal.mine
      \/ /\ journal' = journal
         /\ \E q \in Requests : /\ wire' = wire \cup {q} /\ q.live
                                /\ SameProposal(q, journal)
         /\ run' \in Sessions /\ run'.at = "resent" /\ run'.reply = None
         /\ SameSession(run', run)
  <2>1. CASE receipts[journal.id] # 0
    <3>1. journal \in Batches /\ run \in Sessions /\ receipts[journal.id] \in Nat
      BY <1>j, Facts, RecordFacts
    <3>2. /\ journal' = Accepted(journal, receipts[journal.id]) /\ wire' = wire
          /\ run' = [run EXCEPT !.at = "adopt"]
      BY <2>1 DEF AskReceipt, Goto
    <3>3. "adopt" \in Places BY PlacesListed
    <3>4. /\ run' \in Sessions /\ run'.at = "adopt" /\ SameSession(run', run)
          /\ run'.reply = run.reply
      BY <3>1, <3>2, <3>3, MovedSession
    <3>5. /\ journal' \in Batches /\ SameJournal(journal', journal)
          /\ journal'.phase = "accepted" /\ journal'.snapshot = receipts[journal.id]
          /\ journal'.mine = journal.mine
      BY <3>1, <3>2, PhaseKeeps
    <3> QED BY <2>1, <3>1, <3>2, <3>4, <3>5, Facts
  <2>2. CASE receipts[journal.id] = 0
    <3>1. Send("resent") /\ journal' = journal BY <2>2 DEF AskReceipt
    <3> QED BY <1>j, <3>1, SendKeeps DEF Places
  <2> QED BY <2>1, <2>2
<1>1. TypeServer'
  BY <1>a, <1>r DEF Inv, TypeOK, TypeServer
<1>2. TypeSaved'
  BY <1>a, <1>r DEF Inv, TypeOK, TypeSaved
<1>3. TypeMemory' BY <1>a DEF Inv, TypeOK, TypeMemory
<1>4. TypeSession'
  BY <1>r DEF TypeSession
<1>5. Grows' BY <1>a DEF Inv, TypeOK, Grows, Val
<1>6. OwnOnDisk' BY <1>a DEF Inv, TypeOK, OwnOnDisk, Val
<1>7. WireProposes'
  BY <1>a, <1>r, <1>j DEF Inv, WireProposes, Proposes, SameBatch, Val, SameProposal, JournalProposes
<1>8. JournalProposes'
  BY <1>a, <1>r, <1>j DEF Inv, JournalProposes, Proposes, SameBatch, Val, SameJournal, SameProposal
<1>9. LiveIsAwaited'
  BY <1>r, <1>j DEF Inv, LiveIsAwaited, SameProposal
<1>10. ReplyIsTrue'
  BY <1>r, <1>j, Facts DEF Inv, ReplyIsTrue
<1>11. MadeOnDisk' BY <1>a DEF Inv, TypeOK, MadeOnDisk
<1>12. CheckpointApplied' BY <1>a DEF Inv, TypeOK, CheckpointApplied, Val
<1>13. TransferSound' BY <1>a DEF Inv, TypeOK, TransferSound, Val
<1>14. ReplaySound' BY <1>a DEF Inv, TypeOK, ReplaySound, Val
<1>15. AtStart'
  BY <1>r, <1>j DEF Inv, AtStart, SameSession
<1>16. AtScan'
  BY <1>r DEF AtScan
<1>17. AtResume'
  BY <1>r DEF AtResume
<1>18. AtSubmit'
  BY <1>r DEF AtSubmit
<1>19. AtApply'
  BY <1>r DEF AtApply
<1>20. Frozen' BY <1>a DEF Inv, TypeOK, Frozen
<1>21. JournalSeen'
  BY <1>a, <1>r, <1>j DEF Inv, JournalSeen, Seen, SameJournal
<1>22. RunSeen'
  BY <1>a, <1>r DEF Inv, RunSeen, Seen, SameSession
<1> QED
  BY <1>1, <1>2, <1>3, <1>4, <1>5, <1>6, <1>7, <1>8, <1>9, <1>10, <1>11, <1>12, <1>13, <1>14,
     <1>15, <1>16, <1>17, <1>18, <1>19, <1>20, <1>21, <1>22
     DEF Inv, TypeOK

(* The receipt says where the batch ended up.                               *)
LEMMA ProveReceiptStep ==
  ASSUME Inv, ProveReceipt
  PROVE  Inv'
<1>a. UNCHANGED <<snapshots, receipts, wire, disk, baseline, applying, replay, journal, intents,
                  dirty, full, sequence, frozen, unnoticed, made, faults>> /\ Latest' = Latest
  BY DEF ProveReceipt, server, saved, tracking, outside, Latest
<1>r. /\ run' \in Sessions /\ run'.at = "adopt" /\ SameSession(run', run)
      /\ run'.reply = run.reply /\ run.at = "recover"
      /\ journal # None /\ journal.phase = "accepted"
    <2>1. run \in Sessions /\ "adopt" \in Places BY RecordFacts, PlacesListed
  <2>2. run' = [run EXCEPT !.at = "adopt"] /\ run.at = "recover"
      /\ journal # None /\ journal.phase = "accepted" BY DEF ProveReceipt, Goto
  <2> QED BY <2>1, <2>2, MovedSession
<1>1. TypeServer' BY <1>a DEF Inv, TypeOK, TypeServer
<1>2. TypeSaved' BY <1>a DEF Inv, TypeOK, TypeSaved
<1>3. TypeMemory' BY <1>a DEF Inv, TypeOK, TypeMemory
<1>4. TypeSession'
  BY <1>r DEF TypeSession
<1>5. Grows' BY <1>a DEF Inv, TypeOK, Grows, Val
<1>6. OwnOnDisk' BY <1>a DEF Inv, TypeOK, OwnOnDisk, Val
<1>7. WireProposes' BY <1>a DEF Inv, TypeOK, WireProposes, Val, Proposes, SameBatch
<1>8. JournalProposes' BY <1>a DEF Inv, TypeOK, JournalProposes, Val, Proposes, SameBatch
<1>9. LiveIsAwaited'
  BY <1>a, <1>r DEF Inv, LiveIsAwaited
<1>10. ReplyIsTrue'
  BY <1>r DEF Inv, ReplyIsTrue
<1>11. MadeOnDisk' BY <1>a DEF Inv, TypeOK, MadeOnDisk
<1>12. CheckpointApplied' BY <1>a DEF Inv, TypeOK, CheckpointApplied, Val
<1>13. TransferSound' BY <1>a DEF Inv, TypeOK, TransferSound, Val
<1>14. ReplaySound' BY <1>a DEF Inv, TypeOK, ReplaySound, Val
<1>15. AtStart'
  BY <1>r DEF Inv, AtStart, SameSession
<1>16. AtScan'
  BY <1>r DEF AtScan
<1>17. AtResume'
  BY <1>a, <1>r DEF AtResume
<1>18. AtSubmit'
  BY <1>r DEF AtSubmit
<1>19. AtApply'
  BY <1>r DEF AtApply
<1>20. Frozen' BY <1>a DEF Inv, TypeOK, Frozen
<1>21. JournalSeen' BY <1>a DEF Inv, TypeOK, JournalSeen, Seen
<1>22. RunSeen'
  BY <1>a, <1>r DEF Inv, RunSeen, Seen, SameSession
<1> QED
  BY <1>1, <1>2, <1>3, <1>4, <1>5, <1>6, <1>7, <1>8, <1>9, <1>10, <1>11, <1>12, <1>13, <1>14,
     <1>15, <1>16, <1>17, <1>18, <1>19, <1>20, <1>21, <1>22
     DEF Inv, TypeOK

(* The batch was sent again and the answer is here.                         *)
LEMMA ResendAnsweredStep ==
  ASSUME Inv, ResendAnswered
  PROVE  Inv'
<1>a. UNCHANGED <<snapshots, receipts, wire, disk, baseline, applying, replay, intents, dirty,
                  full, sequence, frozen, unnoticed, made, faults>> /\ Latest' = Latest
  BY DEF ResendAnswered, server, tracking, outside, Latest
<1>j. run.at = "resent" /\ run.reply # None /\ journal # None
  BY DEF ResendAnswered, Inv, ReplyIsTrue
<1>r. \/ /\ receipts[journal.id] # 0
         /\ run' \in Sessions /\ run'.at = "adopt" /\ run'.reply = None
         /\ SameSession(run', run)
         /\ journal' \in Batches /\ journal' # None /\ SameJournal(journal', journal)
         /\ journal'.phase = "accepted" /\ journal'.snapshot = receipts[journal.id]
         /\ journal'.mine = journal.mine
      \/ /\ journal' = None
         /\ run' \in Sessions /\ run'.at = "check" /\ run'.reply = None
         /\ SameSession(run', run)
  <2>1. CASE run.reply = "accepted"
    <3>1. journal \in Batches /\ run \in Sessions /\ receipts[journal.id] \in Nat
          /\ receipts[journal.id] # 0
      BY <2>1, Facts, RecordFacts DEF Inv, ReplyIsTrue
    <3>2. /\ journal' = Accepted(journal, receipts[journal.id])
          /\ run' = [run EXCEPT !.at = "adopt", !.reply = None]
      BY <2>1 DEF ResendAnswered
    <3>3. "adopt" \in Places BY PlacesListed
    <3>4. /\ run' \in Sessions /\ run'.at = "adopt" /\ SameSession(run', run)
          /\ run'.reply = None
      BY <3>1, <3>2, <3>3, MovedSession
    <3>5. /\ journal' \in Batches /\ SameJournal(journal', journal)
          /\ journal'.phase = "accepted" /\ journal'.snapshot = receipts[journal.id]
          /\ journal'.mine = journal.mine
      BY <3>1, <3>2, PhaseKeeps
    <3> QED BY <2>1, <3>1, <3>2, <3>4, <3>5, Facts
  <2>2. CASE run.reply # "accepted"
    <3>1. /\ journal' = None /\ run' = [run EXCEPT !.at = "check", !.reply = None]
      BY <2>2 DEF ResendAnswered
    <3>2. run \in Sessions /\ "check" \in Places BY RecordFacts, PlacesListed
    <3> QED BY <3>1, <3>2, MovedSession
  <2> QED BY <2>1, <2>2
<1>1. TypeServer' BY <1>a DEF Inv, TypeOK, TypeServer
<1>2. TypeSaved'
  BY <1>a, <1>r DEF Inv, TypeOK, TypeSaved
<1>3. TypeMemory' BY <1>a DEF Inv, TypeOK, TypeMemory
<1>4. TypeSession'
  BY <1>r DEF TypeSession
<1>5. Grows' BY <1>a DEF Inv, TypeOK, Grows, Val
<1>6. OwnOnDisk' BY <1>a DEF Inv, TypeOK, OwnOnDisk, Val
<1>7. WireProposes' BY <1>a DEF Inv, TypeOK, WireProposes, Val, Proposes, SameBatch
<1>8. JournalProposes'
  BY <1>a, <1>r, <1>j DEF Inv, JournalProposes, Proposes, SameBatch, Val, SameJournal, SameProposal
<1>9. LiveIsAwaited'
  BY <1>a, <1>j DEF Inv, LiveIsAwaited
<1>10. ReplyIsTrue'
  BY <1>r, Facts DEF ReplyIsTrue
<1>11. MadeOnDisk' BY <1>a DEF Inv, TypeOK, MadeOnDisk
<1>12. CheckpointApplied' BY <1>a DEF Inv, TypeOK, CheckpointApplied, Val
<1>13. TransferSound' BY <1>a DEF Inv, TypeOK, TransferSound, Val
<1>14. ReplaySound' BY <1>a DEF Inv, TypeOK, ReplaySound, Val
<1>15. AtStart'
  BY <1>r, <1>j DEF Inv, AtStart, SameSession
<1>16. AtScan'
  BY <1>r DEF AtScan
<1>17. AtResume'
  BY <1>r DEF AtResume
<1>18. AtSubmit'
  BY <1>r DEF AtSubmit
<1>19. AtApply'
  BY <1>r DEF AtApply
<1>20. Frozen' BY <1>a DEF Inv, TypeOK, Frozen
<1>21. JournalSeen'
  BY <1>a, <1>r, <1>j DEF Inv, JournalSeen, Seen, SameJournal
<1>22. RunSeen'
  BY <1>a, <1>r, <1>j, RecordFacts DEF Inv, RunSeen, Seen, SameSession, AtStart
<1> QED
  BY <1>1, <1>2, <1>3, <1>4, <1>5, <1>6, <1>7, <1>8, <1>9, <1>10, <1>11, <1>12, <1>13, <1>14,
     <1>15, <1>16, <1>17, <1>18, <1>19, <1>20, <1>21, <1>22
     DEF Inv, TypeOK

(* The accepted batch becomes the pending application.                      *)
LEMMA AdoptStep ==
  ASSUME Inv, Adopt
  PROVE  Inv'
<1>a. UNCHANGED <<snapshots, receipts, wire, disk, baseline, replay, journal, intents, dirty,
                  full, sequence, frozen, unnoticed, made, faults>> /\ Latest' = Latest
  BY DEF Adopt, server, tracking, outside, Latest
<1>j. /\ run.at = "adopt" /\ journal # None /\ journal.phase = "accepted"
      /\ journal.snapshot = receipts[journal.id] /\ journal.snapshot \in 1 .. Latest
      /\ baseline <= journal.snapshot /\ Val(journal.snapshot) = journal.val
  BY Facts, RecordFacts DEF Adopt, Inv, AtResume, JournalProposes, Proposes
<1>r. /\ \/ applying' = applying
         \/ /\ applying = None /\ applying' \in Transfers /\ applying' # None
            /\ applying'.target = journal.snapshot /\ applying'.prior = journal.prior
      /\ run' \in Sessions /\ run'.upto = journal.upto /\ run'.seen = journal.seen
      /\ run'.reply = run.reply
      /\ \/ run'.at = "acknowledge" /\ applying' = None
         \/ run'.at = "resume" /\ applying' # None
  <2>1. \/ applying' = applying
        \/ /\ applying = None
           /\ applying' = [target |-> journal.snapshot, prior |-> journal.prior]
    BY DEF Adopt
  <2>2. [target |-> journal.snapshot, prior |-> journal.prior] \in Transfers
    BY <1>j, RecordFacts DEF Transfers
  <2>3. PICK p \in {"acknowledge", "resume"} :
           /\ run' = [run EXCEPT !.at = p, !.upto = journal.upto, !.seen = journal.seen]
           /\ applying' = None <=> p = "acknowledge"
    BY DEF Adopt
  <2>4. /\ run \in Sessions /\ p \in Places
        /\ journal.upto \in Nat /\ journal.seen \in SUBSET Drafts
    BY <1>j, RecordFacts DEF Places
  <2>5. run' \in Sessions /\ run'.upto = journal.upto /\ run'.seen = journal.seen
        /\ run'.reply = run.reply /\ run'.at = p
    BY <2>3, <2>4 DEF Sessions
  <2> QED BY <2>1, <2>2, <2>3, <2>5, Facts
<1>1. TypeServer' BY <1>a DEF Inv, TypeOK, TypeServer
<1>2. TypeSaved'
  BY <1>a, <1>r DEF Inv, TypeOK, TypeSaved
<1>3. TypeMemory' BY <1>a DEF Inv, TypeOK, TypeMemory
<1>4. TypeSession'
  BY <1>r DEF TypeSession
<1>5. Grows' BY <1>a DEF Inv, TypeOK, Grows, Val
<1>6. OwnOnDisk' BY <1>a DEF Inv, TypeOK, OwnOnDisk, Val
<1>7. WireProposes' BY <1>a DEF Inv, TypeOK, WireProposes, Val, Proposes, SameBatch
<1>8. JournalProposes'
  BY <1>a, <1>r, <1>j DEF Inv, JournalProposes, Proposes, Val
<1>9. LiveIsAwaited'
  BY <1>a, <1>j DEF Inv, LiveIsAwaited
<1>10. ReplyIsTrue'
  BY <1>r, <1>j DEF Inv, ReplyIsTrue
<1>11. MadeOnDisk' BY <1>a DEF Inv, TypeOK, MadeOnDisk
<1>12. CheckpointApplied' BY <1>a DEF Inv, TypeOK, CheckpointApplied, Val
<1>13. TransferSound'
  BY <1>a, <1>r, <1>j DEF Inv, TransferSound, Val, JournalProposes
<1>14. ReplaySound'
  BY <1>a, <1>r, <1>j, Facts DEF Inv, ReplaySound, Val, Grows
<1>15. AtStart'
  BY <1>r DEF AtStart
<1>16. AtScan'
  BY <1>r DEF AtScan
<1>17. AtResume'
  BY <1>a, <1>r, <1>j DEF AtResume
<1>18. AtSubmit'
  BY <1>r DEF AtSubmit
<1>19. AtApply'
  BY <1>r DEF AtApply
<1>20. Frozen' BY <1>a DEF Inv, TypeOK, Frozen
<1>21. JournalSeen' BY <1>a DEF Inv, TypeOK, JournalSeen, Seen
<1>22. RunSeen'
  BY <1>a, <1>r, <1>j DEF Inv, RunSeen, Seen, JournalSeen
<1> QED
  BY <1>1, <1>2, <1>3, <1>4, <1>5, <1>6, <1>7, <1>8, <1>9, <1>10, <1>11, <1>12, <1>13, <1>14,
     <1>15, <1>16, <1>17, <1>18, <1>19, <1>20, <1>21, <1>22
     DEF Inv, TypeOK

(* The application that was interrupted goes on.                            *)
LEMMA ResumeStep ==
  ASSUME Inv, Resume
  PROVE  Inv'
<1>a. UNCHANGED <<snapshots, receipts, wire, baseline, applying, journal, intents, dirty, full,
                  sequence, frozen, unnoticed, made, faults>> /\ Latest' = Latest
  BY DEF Resume, server, tracking, outside, Latest
<1>j. /\ run.at = "resume" /\ applying # None
      /\ applying.target \in baseline .. Latest /\ applying.target \in 1 .. Latest
      /\ applying.prior \subseteq disk \cap Val(applying.target)
      /\ applying.prior \in Content /\ Val(applying.target) \in Content
  BY Facts, RecordFacts DEF Resume, Inv, AtResume, TransferSound
<1>r. /\ run' \in Sessions /\ run'.at = "resumed" /\ SameSession(run', run)
      /\ run'.reply = run.reply
      /\ \/ disk' = Val(applying.target) /\ replay' = replay
         \/ disk' = disk /\ replay' = applying.prior
      /\ disk \subseteq disk' /\ disk' \in Content
  <2>1. run' = [run EXCEPT !.at = "resumed"] BY DEF Resume, Goto
  <2>2. \/ /\ disk' = Val(applying.target) /\ replay' = replay
           /\ disk = Val(applying.target) \/ disk = applying.prior
        \/ disk' = disk /\ replay' = applying.prior
    BY DEF Resume
  <2>3. disk \in Content BY DEF Inv, TypeOK, TypeSaved
  <2>4. run \in Sessions /\ "resumed" \in Places BY RecordFacts, PlacesListed
  <2>5. /\ run' \in Sessions /\ run'.at = "resumed" /\ SameSession(run', run)
        /\ run'.reply = run.reply
    BY <2>1, <2>4, MovedSession
  <2> QED BY <1>j, <2>2, <2>3, <2>5
<1>1. TypeServer' BY <1>a DEF Inv, TypeOK, TypeServer
<1>2. TypeSaved'
  BY <1>a, <1>r, <1>j DEF Inv, TypeOK, TypeSaved
<1>3. TypeMemory' BY <1>a DEF Inv, TypeOK, TypeMemory
<1>4. TypeSession'
  BY <1>r DEF TypeSession
<1>5. Grows' BY <1>a DEF Inv, TypeOK, Grows, Val
<1>6. OwnOnDisk'
  BY <1>a, <1>r DEF Inv, OwnOnDisk, Val
<1>7. WireProposes'
  BY <1>a, <1>r DEF Inv, WireProposes, Proposes, Val
<1>8. JournalProposes'
  BY <1>a, <1>r DEF Inv, JournalProposes, Proposes, Val
<1>9. LiveIsAwaited'
  BY <1>a, <1>j DEF Inv, LiveIsAwaited
<1>10. ReplyIsTrue'
  BY <1>r, <1>j DEF Inv, ReplyIsTrue
<1>11. MadeOnDisk'
  BY <1>a, <1>r DEF Inv, MadeOnDisk
<1>12. CheckpointApplied'
  BY <1>a, <1>r, <1>j, Facts DEF Inv, CheckpointApplied, Val
<1>13. TransferSound'
  BY <1>a DEF Inv, TransferSound, Val
<1>14. ReplaySound'
  BY <1>a, <1>r, <1>j DEF Inv, ReplaySound, Val
<1>15. AtStart'
  BY <1>r DEF AtStart
<1>16. AtScan'
  BY <1>r DEF AtScan
<1>17. AtResume'
  BY <1>a, <1>r, <1>j, Facts DEF Inv, AtResume, Val, SameSession
<1>18. AtSubmit'
  BY <1>r DEF AtSubmit
<1>19. AtApply'
  BY <1>r DEF AtApply
<1>20. Frozen' BY <1>a DEF Inv, TypeOK, Frozen
<1>21. JournalSeen' BY <1>a DEF Inv, TypeOK, JournalSeen, Seen
<1>22. RunSeen'
  BY <1>a, <1>r DEF Inv, RunSeen, Seen, SameSession
<1> QED
  BY <1>1, <1>2, <1>3, <1>4, <1>5, <1>6, <1>7, <1>8, <1>9, <1>10, <1>11, <1>12, <1>13, <1>14,
     <1>15, <1>16, <1>17, <1>18, <1>19, <1>20, <1>21, <1>22
     DEF Inv, TypeOK

(* ... and its checkpoint is saved.                                         *)
LEMMA SaveResumedStep ==
  ASSUME Inv, SaveResumed
  PROVE  Inv'
<1>a. UNCHANGED <<snapshots, receipts, wire, disk, replay, journal, intents, dirty, full,
                  sequence, frozen, unnoticed, made, faults>> /\ Latest' = Latest
  BY DEF SaveResumed, server, tracking, outside, Latest
<1>j. /\ run.at = "resumed" /\ applying # None
      /\ applying.target \in baseline .. Latest /\ applying.target \in 1 .. Latest
      /\ baseline' = applying.target /\ applying' = None
  BY Facts DEF SaveResumed, Inv, AtResume, TransferSound
<1>r. /\ run' \in Sessions /\ SameSession(run', run) /\ run'.reply = run.reply
      /\ run'.at = IF journal = None THEN "scan" ELSE "acknowledge"
  <2> DEFINE b == run.read \/ dirty # 0 \/ replay # None
             p == IF journal = None THEN "scan" ELSE "acknowledge"
  <2>1. run' = [run EXCEPT !.at = p, !.read = b] BY DEF SaveResumed
  <2>2. p \in Places /\ b \in BOOLEAN
    <3>1. run.read \in BOOLEAN BY RecordFacts DEF Sessions
    <3> QED BY <3>1 DEF Places
  <2>3. run \in Sessions BY RecordFacts
  <2> HIDE DEF b
  <2>4. run' \in Sessions /\ SameSession(run', run) /\ run'.reply = run.reply /\ run'.at = p
    BY <2>1, <2>2, <2>3 DEF Sessions, SameSession
  <2> QED BY <2>4
<1>1. TypeServer' BY <1>a DEF Inv, TypeOK, TypeServer
<1>2. TypeSaved'
  BY <1>a, <1>j DEF Inv, TypeOK, TypeSaved
<1>3. TypeMemory' BY <1>a DEF Inv, TypeOK, TypeMemory
<1>4. TypeSession'
  BY <1>r DEF TypeSession
<1>5. Grows' BY <1>a DEF Inv, TypeOK, Grows, Val
<1>6. OwnOnDisk' BY <1>a DEF Inv, TypeOK, OwnOnDisk, Val
<1>7. WireProposes' BY <1>a DEF Inv, TypeOK, WireProposes, Val, Proposes, SameBatch
<1>8. JournalProposes'
  BY <1>a, <1>j DEF Inv, JournalProposes, Proposes, Val
<1>9. LiveIsAwaited'
  BY <1>a, <1>j DEF Inv, LiveIsAwaited
<1>10. ReplyIsTrue'
  BY <1>r, <1>j DEF Inv, ReplyIsTrue
<1>11. MadeOnDisk' BY <1>a DEF Inv, TypeOK, MadeOnDisk
<1>12. CheckpointApplied'
  BY <1>a, <1>j DEF Inv, CheckpointApplied, Val, AtResume
<1>13. TransferSound'
  BY <1>j DEF TransferSound
<1>14. ReplaySound'
  BY <1>a, <1>j DEF Inv, ReplaySound, Val
<1>15. AtStart'
  BY <1>r DEF AtStart
<1>16. AtScan'
  BY <1>a, <1>r, <1>j DEF Inv, AtScan, SameSession, AtResume
<1>17. AtResume'
  BY <1>r DEF AtResume
<1>18. AtSubmit'
  BY <1>r DEF AtSubmit
<1>19. AtApply'
  BY <1>r DEF AtApply
<1>20. Frozen' BY <1>a DEF Inv, TypeOK, Frozen
<1>21. JournalSeen' BY <1>a DEF Inv, TypeOK, JournalSeen, Seen
<1>22. RunSeen'
  BY <1>a, <1>r DEF Inv, RunSeen, Seen, SameSession
<1> QED
  BY <1>1, <1>2, <1>3, <1>4, <1>5, <1>6, <1>7, <1>8, <1>9, <1>10, <1>11, <1>12, <1>13, <1>14,
     <1>15, <1>16, <1>17, <1>18, <1>19, <1>20, <1>21, <1>22
     DEF Inv, TypeOK

(* The head is read, and the run ends if nothing is to do.                  *)
LEMMA CheckRemoteStep ==
  ASSUME Inv, CheckRemote
  PROVE  Inv'
<1>a. UNCHANGED <<snapshots, receipts, wire, disk, baseline, applying, replay, journal, intents,
                  dirty, full, sequence, frozen, unnoticed, made, faults>> /\ Latest' = Latest
  BY DEF CheckRemote, server, saved, tracking, outside, Latest
<1>r. /\ run' \in Sessions /\ run'.remote = Latest /\ run'.upto = run.upto
      /\ run'.seen = run.seen /\ run'.reply = run.reply
      /\ journal = None
      /\ run.at \in {"recover", "check"}
      /\ run'.at \in {"finish", "resume", "scan"}
      /\ run'.at = "resume" => applying # None
      /\ run'.at = "scan" => applying = None
  <2>1. PICK p \in {"finish", "resume", "scan"} :
           /\ run' = [run EXCEPT !.at = p, !.remote = Latest,
                                 !.read = (dirty # 0 \/ replay # None),
                                 !.scannedAll = FALSE]
           /\ p = "resume" => applying # None
           /\ p = "scan" => applying = None
    BY DEF CheckRemote
  <2> DEFINE b == dirty # 0 \/ replay # None
  <2>2. run \in Sessions /\ p \in Places /\ Latest \in Nat /\ b \in BOOLEAN
    BY Facts, RecordFacts DEF Places
  <2>3. run' = [run EXCEPT !.at = p, !.remote = Latest, !.read = b, !.scannedAll = FALSE]
    BY <2>1
  <2> HIDE DEF b
  <2>4. /\ run' \in Sessions /\ run'.remote = Latest /\ run'.upto = run.upto
        /\ run'.seen = run.seen /\ run'.reply = run.reply /\ run'.at = p
    BY <2>2, <2>3 DEF Sessions
  <2>5. journal = None /\ run.at \in {"recover", "check"}
    BY DEF CheckRemote, Inv, AtScan
  <2> QED BY <2>1, <2>4, <2>5
<1>1. TypeServer' BY <1>a DEF Inv, TypeOK, TypeServer
<1>2. TypeSaved' BY <1>a DEF Inv, TypeOK, TypeSaved
<1>3. TypeMemory' BY <1>a DEF Inv, TypeOK, TypeMemory
<1>4. TypeSession'
  BY <1>r DEF TypeSession
<1>5. Grows' BY <1>a DEF Inv, TypeOK, Grows, Val
<1>6. OwnOnDisk' BY <1>a DEF Inv, TypeOK, OwnOnDisk, Val
<1>7. WireProposes' BY <1>a DEF Inv, TypeOK, WireProposes, Val, Proposes, SameBatch
<1>8. JournalProposes' BY <1>a DEF Inv, TypeOK, JournalProposes, Val, Proposes, SameBatch
<1>9. LiveIsAwaited'
  BY <1>a, <1>r DEF Inv, LiveIsAwaited
<1>10. ReplyIsTrue'
  BY <1>r DEF Inv, ReplyIsTrue
<1>11. MadeOnDisk' BY <1>a DEF Inv, TypeOK, MadeOnDisk
<1>12. CheckpointApplied' BY <1>a DEF Inv, TypeOK, CheckpointApplied, Val
<1>13. TransferSound' BY <1>a DEF Inv, TypeOK, TransferSound, Val
<1>14. ReplaySound' BY <1>a DEF Inv, TypeOK, ReplaySound, Val
<1>15. AtStart'
  BY <1>r DEF AtStart
<1>16. AtScan'
  BY <1>a, <1>r, Facts DEF AtScan
<1>17. AtResume'
  BY <1>a, <1>r, Facts DEF Inv, AtResume, TransferSound
<1>18. AtSubmit'
  BY <1>r DEF AtSubmit
<1>19. AtApply'
  BY <1>r DEF AtApply
<1>20. Frozen' BY <1>a DEF Inv, TypeOK, Frozen
<1>21. JournalSeen' BY <1>a DEF Inv, TypeOK, JournalSeen, Seen
<1>22. RunSeen'
  BY <1>a, <1>r DEF Inv, RunSeen, Seen
<1> QED
  BY <1>1, <1>2, <1>3, <1>4, <1>5, <1>6, <1>7, <1>8, <1>9, <1>10, <1>11, <1>12, <1>13, <1>14,
     <1>15, <1>16, <1>17, <1>18, <1>19, <1>20, <1>21, <1>22
     DEF Inv, TypeOK

(* The disk is merged with the head and the batch prepared.                 *)
LEMMA PlanStep ==
  ASSUME Inv, Plan
  PROVE  Inv'
<1>a. UNCHANGED <<snapshots, receipts, wire, disk, baseline, applying, replay, intents, dirty,
                  full, sequence, unnoticed, made, faults>> /\ Latest' = Latest
  BY DEF Plan, server, outside, Latest
<1>p. /\ run.at = "scan" /\ journal = None /\ applying = None
      /\ run.remote \in baseline .. Latest /\ run.remote \in 1 .. Latest
      /\ Scanned \in Content /\ Final \in Content
      /\ Scanned \subseteq disk /\ Scanned \subseteq Final
      /\ Val(run.remote) \subseteq Final /\ Final \subseteq Scanned \cup Val(run.remote)
  BY PlanKeeps, Facts DEF Plan, Inv, AtScan
<1> DEFINE upto == Max({0} \cup {e.seq : e \in intents})
           seen == UNION {e.of : e \in intents}
           same == Final = Val(run.remote)
<1>q. upto \in Nat /\ upto <= sequence /\ \A e \in intents : e.seq <= upto
  BY NewestIntent
<1>s. seen \in SUBSET Drafts /\ \A e \in intents : e.of \subseteq seen
  BY DEF Inv, TypeOK, TypeSaved, Events
<1>r. /\ run' \in Sessions /\ run'.upto = upto /\ run'.seen = seen /\ run'.prior = Scanned
      /\ run'.reply = run.reply /\ frozen' = sequence
      /\ \/ /\ run'.at = "stage" /\ run'.target = run.remote /\ journal' = None
            /\ Final = Val(run.remote)
         \/ /\ run'.at = "upload"
            /\ journal' \in Batches /\ journal' # None /\ journal'.id \in FreshIds
            /\ journal'.base = run.remote /\ journal'.val = Final
            /\ journal'.phase = "prepared" /\ journal'.upto = upto
            /\ journal'.seen = seen /\ journal'.prior = Scanned /\ journal'.mine = TRUE
  <2> HIDE DEF upto, seen
  <2>1. run \in Sessions /\ ScansAll \in BOOLEAN
    BY RecordFacts DEF ScansAll
  <2>2. frozen' = sequence BY DEF Plan
  <2>3. CASE same
    <3>1. /\ run' = [run EXCEPT !.at = "stage", !.target = run.remote, !.remote = 0,
                                !.scannedAll = ScansAll, !.prior = Scanned,
                                !.upto = upto, !.seen = seen]
          /\ journal' = None
      BY <1>p, <2>3 DEF Plan, upto, seen
    <3>2. /\ run' \in Sessions /\ run'.upto = upto /\ run'.seen = seen
          /\ run'.prior = Scanned /\ run'.reply = run.reply /\ run'.at = "stage"
          /\ run'.target = run.remote
      BY <1>p, <1>q, <1>s, <2>1, <3>1 DEF Sessions, Places
    <3> QED BY <2>2, <2>3, <3>1, <3>2
  <2>4. CASE ~same
    <3>1. FreshId \in FreshIds BY <2>4 DEF Plan, FreshId
    <3>2. /\ run' = [run EXCEPT !.at = "upload", !.target = 0, !.remote = 0,
                                !.scannedAll = ScansAll, !.prior = Scanned,
                                !.upto = upto, !.seen = seen]
          /\ journal' = [id |-> FreshId, base |-> run.remote, val |-> Final,
                         phase |-> "prepared", upto |-> upto, seen |-> seen,
                         prior |-> Scanned, snapshot |-> 0, mine |-> TRUE]
      BY <2>4 DEF Plan, upto, seen
    <3>3. /\ run' \in Sessions /\ run'.upto = upto /\ run'.seen = seen
          /\ run'.prior = Scanned /\ run'.reply = run.reply /\ run'.at = "upload"
      BY <1>p, <1>q, <1>s, <2>1, <3>2 DEF Sessions, Places
    <3>4. FreshId \in BatchIds BY <3>1 DEF FreshIds
    <3>5. journal' \in Batches
      BY <1>p, <1>q, <1>s, <3>2, <3>4 DEF Batches
    <3> QED BY <2>2, <3>1, <3>2, <3>3, <3>5, Facts
  <2> QED BY <2>3, <2>4
<1> HIDE DEF upto, seen
<1>1. TypeServer' BY <1>a DEF Inv, TypeOK, TypeServer
<1>2. TypeSaved'
  BY <1>a, <1>r DEF Inv, TypeOK, TypeSaved
<1>3. TypeMemory'
  BY <1>a DEF Inv, TypeOK, TypeMemory, Plan
<1>4. TypeSession'
  BY <1>r DEF TypeSession
<1>5. Grows' BY <1>a DEF Inv, TypeOK, Grows, Val
<1>6. OwnOnDisk' BY <1>a DEF Inv, TypeOK, OwnOnDisk, Val
<1>7. WireProposes' BY <1>a DEF Inv, TypeOK, WireProposes, Val, Proposes, SameBatch
<1>8. JournalProposes'
  BY <1>a, <1>r, <1>p DEF JournalProposes, Proposes, SameBatch, Val, FreshIds
<1>9. LiveIsAwaited'
  BY <1>a, <1>p DEF Inv, LiveIsAwaited
<1>10. ReplyIsTrue'
  BY <1>r, <1>p DEF Inv, ReplyIsTrue
<1>11. MadeOnDisk' BY <1>a DEF Inv, TypeOK, MadeOnDisk
<1>12. CheckpointApplied' BY <1>a DEF Inv, TypeOK, CheckpointApplied, Val
<1>13. TransferSound' BY <1>a DEF Inv, TypeOK, TransferSound, Val
<1>14. ReplaySound' BY <1>a DEF Inv, TypeOK, ReplaySound, Val
<1>15. AtStart'
  BY <1>r DEF AtStart
<1>16. AtScan'
  BY <1>r DEF AtScan
<1>17. AtResume'
  BY <1>r DEF AtResume
<1>18. AtSubmit'
  BY <1>a, <1>r, <1>p DEF AtSubmit
<1>19. AtApply'
  BY <1>a, <1>r, <1>p DEF AtApply, Val
<1>20. Frozen'
  BY <1>a, <1>r, RecordFacts DEF Inv, Frozen
<1>21. JournalSeen'
  BY <1>a, <1>r, <1>q, <1>s DEF JournalSeen, Seen
<1>22. RunSeen'
  BY <1>a, <1>r, <1>q, <1>s DEF RunSeen, Seen
<1> QED
  BY <1>1, <1>2, <1>3, <1>4, <1>5, <1>6, <1>7, <1>8, <1>9, <1>10, <1>11, <1>12, <1>13, <1>14,
     <1>15, <1>16, <1>17, <1>18, <1>19, <1>20, <1>21, <1>22
     DEF Inv, TypeOK

(* The batch is sent.                                                       *)
LEMMA SubmitStep ==
  ASSUME Inv, Submit
  PROVE  Inv'
<1>a. UNCHANGED <<snapshots, receipts, disk, baseline, applying, replay, intents, dirty, full,
                  sequence, frozen, unnoticed, made, faults>> /\ Latest' = Latest
  BY DEF Submit, tracking, outside, Latest
<1>j. run.at = "upload" /\ journal # None /\ applying = None
  BY DEF Submit, Inv, AtSubmit
<1>r. /\ \E q \in Requests : /\ wire' = wire \cup {q} /\ q.live
                             /\ SameProposal(q, journal)
      /\ run' \in Sessions /\ run'.at = "posted" /\ run'.reply = None
      /\ SameSession(run', run)
      /\ journal' \in Batches /\ journal' # None /\ SameJournal(journal', journal)
      /\ journal'.phase = "submitted" /\ journal'.mine = journal.mine
  <2>1. Send("posted") /\ journal' = [journal EXCEPT !.phase = "submitted"]
    BY DEF Submit
  <2>2. journal \in Batches BY <1>j, RecordFacts
  <2>3. "posted" \in Places BY PlacesListed
  <2>4. /\ journal' \in Batches /\ SameJournal(journal', journal)
        /\ journal'.phase = "submitted" /\ journal'.mine = journal.mine
    BY <2>1, <2>2, PhaseKeeps
  <2>5. /\ \E q \in Requests : /\ wire' = wire \cup {q} /\ q.live
                                /\ SameProposal(q, journal)
        /\ run' \in Sessions /\ run'.at = "posted" /\ run'.reply = None
        /\ SameSession(run', run)
    BY <1>j, <2>1, <2>3, SendKeeps
  <2> QED BY <1>j, <2>1, <2>2, <2>3, <2>4, <2>5, Facts
<1>1. TypeServer'
  BY <1>a, <1>r DEF Inv, TypeOK, TypeServer
<1>2. TypeSaved'
  BY <1>a, <1>r DEF Inv, TypeOK, TypeSaved
<1>3. TypeMemory' BY <1>a DEF Inv, TypeOK, TypeMemory
<1>4. TypeSession'
  BY <1>r DEF TypeSession
<1>5. Grows' BY <1>a DEF Inv, TypeOK, Grows, Val
<1>6. OwnOnDisk' BY <1>a DEF Inv, TypeOK, OwnOnDisk, Val
<1>7. WireProposes'
  BY <1>a, <1>r, <1>j DEF Inv, WireProposes, Proposes, SameBatch, Val, SameProposal, JournalProposes
<1>8. JournalProposes'
  BY <1>a, <1>r, <1>j DEF Inv, JournalProposes, Proposes, SameBatch, Val, SameJournal, SameProposal
<1>9. LiveIsAwaited'
  BY <1>r, <1>j DEF Inv, LiveIsAwaited, SameJournal, SameProposal
<1>10. ReplyIsTrue'
  BY <1>r, Facts DEF ReplyIsTrue
<1>11. MadeOnDisk' BY <1>a DEF Inv, TypeOK, MadeOnDisk
<1>12. CheckpointApplied' BY <1>a DEF Inv, TypeOK, CheckpointApplied, Val
<1>13. TransferSound' BY <1>a DEF Inv, TypeOK, TransferSound, Val
<1>14. ReplaySound' BY <1>a DEF Inv, TypeOK, ReplaySound, Val
<1>15. AtStart'
  BY <1>r DEF AtStart
<1>16. AtScan'
  BY <1>r DEF AtScan
<1>17. AtResume'
  BY <1>r DEF AtResume
<1>18. AtSubmit'
  BY <1>a, <1>r, <1>j DEF Inv, AtSubmit, SameSession, SameJournal
<1>19. AtApply'
  BY <1>r DEF AtApply
<1>20. Frozen' BY <1>a DEF Inv, TypeOK, Frozen
<1>21. JournalSeen'
  BY <1>a, <1>r, <1>j DEF Inv, JournalSeen, Seen, SameJournal
<1>22. RunSeen'
  BY <1>a, <1>r DEF Inv, RunSeen, Seen, SameSession
<1> QED
  BY <1>1, <1>2, <1>3, <1>4, <1>5, <1>6, <1>7, <1>8, <1>9, <1>10, <1>11, <1>12, <1>13, <1>14,
     <1>15, <1>16, <1>17, <1>18, <1>19, <1>20, <1>21, <1>22
     DEF Inv, TypeOK

(* Its answer is here.                                                      *)
LEMMA AnsweredStep ==
  ASSUME Inv, Answered
  PROVE  Inv'
<1>a. UNCHANGED <<snapshots, receipts, wire, disk, baseline, applying, replay, intents, dirty,
                  full, sequence, frozen, unnoticed, made, faults>> /\ Latest' = Latest
  BY DEF Answered, server, tracking, outside, Latest
<1>j. /\ run.at = "posted" /\ run.reply # None /\ journal # None /\ applying = None
      /\ journal.prior = run.prior
  BY DEF Answered, Inv, AtSubmit
<1>r. \/ /\ receipts[journal.id] # 0
         /\ run' \in Sessions /\ run'.at = "stage" /\ run'.reply = None
         /\ run'.target = receipts[journal.id] /\ run'.prior = run.prior
         /\ run'.upto = run.upto /\ run'.seen = run.seen
         /\ journal' \in Batches /\ journal' # None /\ SameJournal(journal', journal)
         /\ journal'.phase = "accepted" /\ journal'.snapshot = receipts[journal.id]
         /\ journal'.mine = journal.mine
      \/ /\ journal' = None
         /\ run' \in Sessions /\ run'.at \in {"idle", "recover"}
         /\ run'.upto = 0 /\ run'.seen = {} /\ run'.reply = None
  <2>1. CASE run.reply = "accepted"
    <3>1. journal \in Batches /\ run \in Sessions /\ receipts[journal.id] \in Nat
          /\ receipts[journal.id] # 0
      BY <2>1, Facts, RecordFacts DEF Inv, ReplyIsTrue
    <3>2. /\ journal' = Accepted(journal, receipts[journal.id])
          /\ run' = [run EXCEPT !.at = "stage", !.target = receipts[journal.id],
                                !.reply = None]
      BY <2>1 DEF Answered
    <3>3. /\ run' \in Sessions /\ run'.at = "stage" /\ run'.reply = None
          /\ run'.target = receipts[journal.id] /\ run'.prior = run.prior
          /\ run'.upto = run.upto /\ run'.seen = run.seen
      BY <3>1, <3>2 DEF Sessions, Places, Replies
    <3>4. /\ journal' \in Batches /\ SameJournal(journal', journal)
          /\ journal'.phase = "accepted" /\ journal'.snapshot = receipts[journal.id]
          /\ journal'.mine = journal.mine
      BY <3>1, <3>2, PhaseKeeps
    <3> QED BY <3>1, <3>2, <3>3, <3>4, Facts
  <2>2. CASE run.reply # "accepted"
    <3>1. /\ journal' = None
          /\ run' \in {Idle, [Idle EXCEPT !.at = "recover", !.start = run.start]}
      BY <2>2 DEF Answered
    <3> QED BY <3>1, RecordFacts, IdleSession
  <2> QED BY <2>1, <2>2
<1>1. TypeServer' BY <1>a DEF Inv, TypeOK, TypeServer
<1>2. TypeSaved'
  BY <1>a, <1>r DEF Inv, TypeOK, TypeSaved
<1>3. TypeMemory' BY <1>a DEF Inv, TypeOK, TypeMemory
<1>4. TypeSession'
  BY <1>r DEF TypeSession
<1>5. Grows' BY <1>a DEF Inv, TypeOK, Grows, Val
<1>6. OwnOnDisk' BY <1>a DEF Inv, TypeOK, OwnOnDisk, Val
<1>7. WireProposes' BY <1>a DEF Inv, TypeOK, WireProposes, Val, Proposes, SameBatch
<1>8. JournalProposes'
  BY <1>a, <1>r, <1>j DEF Inv, JournalProposes, Proposes, SameBatch, Val, SameJournal, SameProposal
<1>9. LiveIsAwaited'
  BY <1>a, <1>j DEF Inv, LiveIsAwaited
<1>10. ReplyIsTrue'
  BY <1>r, Facts DEF ReplyIsTrue
<1>11. MadeOnDisk' BY <1>a DEF Inv, TypeOK, MadeOnDisk
<1>12. CheckpointApplied' BY <1>a DEF Inv, TypeOK, CheckpointApplied, Val
<1>13. TransferSound' BY <1>a DEF Inv, TypeOK, TransferSound, Val
<1>14. ReplaySound' BY <1>a DEF Inv, TypeOK, ReplaySound, Val
<1>15. AtStart'
  BY <1>r DEF AtStart
<1>16. AtScan'
  BY <1>r DEF AtScan
<1>17. AtResume'
  BY <1>r DEF AtResume
<1>18. AtSubmit'
  BY <1>r DEF AtSubmit
<1>19. AtApply'
  BY <1>a, <1>r, <1>j, Facts, RecordFacts
     DEF Inv, AtApply, Val, SameJournal, SameProposal, JournalProposes, Proposes
<1>20. Frozen' BY <1>a DEF Inv, TypeOK, Frozen
<1>21. JournalSeen'
  BY <1>a, <1>r, <1>j DEF Inv, JournalSeen, Seen, SameJournal
<1>22. RunSeen'
  BY <1>a, <1>r, RecordFacts DEF Inv, RunSeen, Seen
<1> QED
  BY <1>1, <1>2, <1>3, <1>4, <1>5, <1>6, <1>7, <1>8, <1>9, <1>10, <1>11, <1>12, <1>13, <1>14,
     <1>15, <1>16, <1>17, <1>18, <1>19, <1>20, <1>21, <1>22
     DEF Inv, TypeOK

(* The application is saved before the disk is touched.                     *)
LEMMA StageStep ==
  ASSUME Inv, Stage
  PROVE  Inv'
<1>a. UNCHANGED <<snapshots, receipts, wire, disk, baseline, replay, journal, intents, dirty,
                  full, sequence, frozen, unnoticed, made, faults>> /\ Latest' = Latest
  BY DEF Stage, server, tracking, outside, Latest
<1>j. /\ run.at = "stage" /\ applying = None /\ run.target \in baseline .. Latest
      /\ run.target \in 1 .. Latest /\ run.prior \subseteq disk \cap Val(run.target)
      /\ journal # None => receipts[journal.id] = run.target
  BY Facts DEF Stage, Inv, AtApply
<1>r. /\ applying' \in Transfers /\ applying' # None
      /\ applying'.target = run.target /\ applying'.prior = run.prior
      /\ run' \in Sessions /\ run'.at = "apply" /\ run'.target = run.target
      /\ run'.upto = run.upto /\ run'.seen = run.seen /\ run'.reply = run.reply
  <2>1. /\ applying' = [target |-> run.target, prior |-> run.prior]
        /\ run' = [run EXCEPT !.at = "apply", !.prior = {}]
    BY DEF Stage
  <2>2. /\ applying' \in Transfers
        /\ applying'.target = run.target /\ applying'.prior = run.prior
    BY <2>1, RecordFacts DEF Transfers
  <2>3. run \in Sessions /\ {} \in Content BY RecordFacts, Facts
  <2>4. /\ run' \in Sessions /\ run'.at = "apply" /\ run'.target = run.target
        /\ run'.upto = run.upto /\ run'.seen = run.seen /\ run'.reply = run.reply
    BY <2>1, <2>3 DEF Sessions, Places
  <2> QED BY <2>2, <2>4, Facts
<1>1. TypeServer' BY <1>a DEF Inv, TypeOK, TypeServer
<1>2. TypeSaved'
  BY <1>a, <1>r DEF Inv, TypeOK, TypeSaved
<1>3. TypeMemory' BY <1>a DEF Inv, TypeOK, TypeMemory
<1>4. TypeSession'
  BY <1>r DEF TypeSession
<1>5. Grows' BY <1>a DEF Inv, TypeOK, Grows, Val
<1>6. OwnOnDisk' BY <1>a DEF Inv, TypeOK, OwnOnDisk, Val
<1>7. WireProposes' BY <1>a DEF Inv, TypeOK, WireProposes, Val, Proposes, SameBatch
<1>8. JournalProposes'
  BY <1>a, <1>r, <1>j DEF Inv, JournalProposes, Proposes, Val
<1>9. LiveIsAwaited'
  BY <1>a, <1>j DEF Inv, LiveIsAwaited
<1>10. ReplyIsTrue'
  BY <1>r, <1>j DEF Inv, ReplyIsTrue
<1>11. MadeOnDisk' BY <1>a DEF Inv, TypeOK, MadeOnDisk
<1>12. CheckpointApplied' BY <1>a DEF Inv, TypeOK, CheckpointApplied, Val
<1>13. TransferSound'
  BY <1>a, <1>r, <1>j DEF TransferSound, Val
<1>14. ReplaySound'
  BY <1>a, <1>r, <1>j, Facts DEF Inv, ReplaySound, Val, Grows
<1>15. AtStart'
  BY <1>r DEF AtStart
<1>16. AtScan'
  BY <1>r DEF AtScan
<1>17. AtResume'
  BY <1>r DEF AtResume
<1>18. AtSubmit'
  BY <1>r DEF AtSubmit
<1>19. AtApply'
  BY <1>r DEF AtApply
<1>20. Frozen' BY <1>a DEF Inv, TypeOK, Frozen
<1>21. JournalSeen' BY <1>a DEF Inv, TypeOK, JournalSeen, Seen
<1>22. RunSeen'
  BY <1>a, <1>r DEF Inv, RunSeen, Seen
<1> QED
  BY <1>1, <1>2, <1>3, <1>4, <1>5, <1>6, <1>7, <1>8, <1>9, <1>10, <1>11, <1>12, <1>13, <1>14,
     <1>15, <1>16, <1>17, <1>18, <1>19, <1>20, <1>21, <1>22
     DEF Inv, TypeOK

(* The disk takes the accepted content.                                     *)
LEMMA ApplyStep ==
  ASSUME Inv, Apply
  PROVE  Inv'
<1>a. UNCHANGED <<snapshots, receipts, wire, baseline, applying, replay, journal, intents, dirty,
                  full, sequence, frozen, unnoticed, made, faults>> /\ Latest' = Latest
  BY DEF Apply, server, tracking, outside, Latest
<1>j. /\ run.at = "apply" /\ applying # None /\ applying.target = run.target
      /\ run.target \in baseline .. Latest /\ run.target \in 1 .. Latest
      /\ applying.prior \subseteq disk \cap Val(run.target)
      /\ Val(run.target) \in Content
  BY Facts DEF Apply, Inv, AtApply, TransferSound
<1>r. /\ disk \subseteq disk' /\ disk' \in Content
      /\ \/ /\ run' \in Sessions /\ run'.at = "applied" /\ SameSession(run', run)
            /\ run'.reply = run.reply /\ Val(run.target) \subseteq disk'
            /\ disk' \subseteq disk \cup Val(run.target)
         \/ /\ disk' = disk /\ run' \in Sessions /\ run'.at = "idle"
            /\ run'.upto = 0 /\ run'.seen = {} /\ run'.reply = None
  <2>1. disk \in Content BY DEF Inv, TypeOK, TypeSaved
  <2>2. CASE Val(run.target) = applying.prior \/ disk = applying.prior
    <3>1. /\ run' = [run EXCEPT !.at = "applied"]
          /\ disk' = IF Val(run.target) = applying.prior THEN disk
                     ELSE Val(run.target)
      BY <2>2 DEF Apply, Goto
    <3>2. run \in Sessions /\ "applied" \in Places BY RecordFacts DEF Places
    <3> QED BY <1>j, <2>1, <2>2, <3>1, <3>2, MovedSession
  <2>3. CASE ~(Val(run.target) = applying.prior \/ disk = applying.prior)
    <3>1. run' = Idle /\ disk' = disk BY <2>3 DEF Apply
    <3>2. Idle.at = "idle" BY DEF Idle
    <3> QED BY <2>1, <3>1, <3>2, RecordFacts, IdleSession
  <2> QED BY <2>2, <2>3
<1>1. TypeServer' BY <1>a DEF Inv, TypeOK, TypeServer
<1>2. TypeSaved'
  BY <1>a, <1>r DEF Inv, TypeOK, TypeSaved
<1>3. TypeMemory' BY <1>a DEF Inv, TypeOK, TypeMemory
<1>4. TypeSession'
  BY <1>r DEF TypeSession
<1>5. Grows' BY <1>a DEF Inv, TypeOK, Grows, Val
<1>6. OwnOnDisk'
  BY <1>a, <1>r DEF Inv, OwnOnDisk, Val
<1>7. WireProposes'
  BY <1>a, <1>r DEF Inv, WireProposes, Proposes, Val
<1>8. JournalProposes'
  BY <1>a, <1>r DEF Inv, JournalProposes, Proposes, Val
<1>9. LiveIsAwaited'
  BY <1>a, <1>j DEF Inv, LiveIsAwaited
<1>10. ReplyIsTrue'
  BY <1>r, <1>j, Facts DEF Inv, ReplyIsTrue
<1>11. MadeOnDisk'
  BY <1>a, <1>r DEF Inv, MadeOnDisk
<1>12. CheckpointApplied'
  BY <1>a, <1>r DEF Inv, CheckpointApplied, Val
<1>13. TransferSound'
  BY <1>a DEF Inv, TransferSound, Val
<1>14. ReplaySound'
  BY <1>a DEF Inv, ReplaySound, Val
<1>15. AtStart'
  BY <1>r DEF AtStart
<1>16. AtScan'
  BY <1>r DEF AtScan
<1>17. AtResume'
  BY <1>r DEF AtResume
<1>18. AtSubmit'
  BY <1>r DEF AtSubmit
<1>19. AtApply'
  BY <1>a, <1>r, <1>j DEF AtApply, Val, SameSession
<1>20. Frozen' BY <1>a DEF Inv, TypeOK, Frozen
<1>21. JournalSeen' BY <1>a DEF Inv, TypeOK, JournalSeen, Seen
<1>22. RunSeen'
  BY <1>a, <1>r, RecordFacts DEF Inv, RunSeen, Seen, SameSession
<1> QED
  BY <1>1, <1>2, <1>3, <1>4, <1>5, <1>6, <1>7, <1>8, <1>9, <1>10, <1>11, <1>12, <1>13, <1>14,
     <1>15, <1>16, <1>17, <1>18, <1>19, <1>20, <1>21, <1>22
     DEF Inv, TypeOK

(* The checkpoint is saved with the application's end.                      *)
LEMMA SaveAppliedStep ==
  ASSUME Inv, SaveApplied
  PROVE  Inv'
<1>a. UNCHANGED <<snapshots, receipts, wire, disk, journal, intents, dirty, sequence, frozen,
                  unnoticed, made, faults>> /\ Latest' = Latest
  BY DEF SaveApplied, server, outside, Latest
<1>j. /\ run.at = "applied" /\ applying # None /\ applying.target = run.target
      /\ run.target \in baseline .. Latest /\ run.target \in 1 .. Latest
      /\ Val(run.target) \subseteq disk
      /\ baseline' = run.target /\ applying' = None /\ replay' = None
  BY Facts DEF SaveApplied, Inv, AtApply, TransferSound
<1>r. /\ run' \in Sessions /\ run'.at = "acknowledge" /\ SameSession(run', run)
      /\ run'.reply = run.reply
  BY RecordFacts, MovedSession DEF SaveApplied, Goto, Places
<1>f. full' \in BOOLEAN
  <2>1. full' = full \/ full' = FALSE BY DEF SaveApplied
  <2> QED BY <2>1 DEF Inv, TypeOK, TypeMemory
<1>1. TypeServer' BY <1>a DEF Inv, TypeOK, TypeServer
<1>2. TypeSaved'
  BY <1>a, <1>j DEF Inv, TypeOK, TypeSaved
<1>3. TypeMemory'
  BY <1>a, <1>f DEF Inv, TypeOK, TypeMemory
<1>4. TypeSession'
  BY <1>r DEF TypeSession
<1>5. Grows' BY <1>a DEF Inv, TypeOK, Grows, Val
<1>6. OwnOnDisk' BY <1>a DEF Inv, TypeOK, OwnOnDisk, Val
<1>7. WireProposes' BY <1>a DEF Inv, TypeOK, WireProposes, Val, Proposes, SameBatch
<1>8. JournalProposes'
  BY <1>a, <1>j DEF Inv, JournalProposes, Proposes, Val
<1>9. LiveIsAwaited'
  BY <1>a, <1>j DEF Inv, LiveIsAwaited
<1>10. ReplyIsTrue'
  BY <1>r, <1>j DEF Inv, ReplyIsTrue
<1>11. MadeOnDisk' BY <1>a DEF Inv, TypeOK, MadeOnDisk
<1>12. CheckpointApplied'
  BY <1>a, <1>j DEF CheckpointApplied, Val
<1>13. TransferSound'
  BY <1>j DEF TransferSound
<1>14. ReplaySound'
  BY <1>j DEF ReplaySound
<1>15. AtStart'
  BY <1>r DEF AtStart
<1>16. AtScan'
  BY <1>r DEF AtScan
<1>17. AtResume'
  BY <1>r DEF AtResume
<1>18. AtSubmit'
  BY <1>r DEF AtSubmit
<1>19. AtApply'
  BY <1>r DEF AtApply
<1>20. Frozen' BY <1>a DEF Inv, TypeOK, Frozen
<1>21. JournalSeen' BY <1>a DEF Inv, TypeOK, JournalSeen, Seen
<1>22. RunSeen'
  BY <1>a, <1>r DEF Inv, RunSeen, Seen, SameSession
<1> QED
  BY <1>1, <1>2, <1>3, <1>4, <1>5, <1>6, <1>7, <1>8, <1>9, <1>10, <1>11, <1>12, <1>13, <1>14,
     <1>15, <1>16, <1>17, <1>18, <1>19, <1>20, <1>21, <1>22
     DEF Inv, TypeOK

(* What the batch took in is acknowledged.                                  *)
LEMMA AcknowledgeStep ==
  ASSUME Inv, Acknowledge
  PROVE  Inv'
<1>a. UNCHANGED <<snapshots, receipts, wire, disk, baseline, applying, replay, journal, dirty,
                  full, sequence, frozen, run, unnoticed, made, faults>> /\ Latest' = Latest
  BY DEF Acknowledge, server, tracking, memory, outside, Latest
<1>r. intents' \subseteq intents BY DEF Acknowledge
<1>1. TypeServer' BY <1>a DEF Inv, TypeOK, TypeServer
<1>2. TypeSaved'
  BY <1>a, <1>r DEF Inv, TypeOK, TypeSaved
<1>3. TypeMemory' BY <1>a DEF Inv, TypeOK, TypeMemory
<1>4. TypeSession' BY <1>a DEF Inv, TypeOK, TypeSession
<1>5. Grows' BY <1>a DEF Inv, TypeOK, Grows, Val
<1>6. OwnOnDisk' BY <1>a DEF Inv, TypeOK, OwnOnDisk, Val
<1>7. WireProposes' BY <1>a DEF Inv, TypeOK, WireProposes, Val, Proposes, SameBatch
<1>8. JournalProposes' BY <1>a DEF Inv, TypeOK, JournalProposes, Val, Proposes, SameBatch
<1>9. LiveIsAwaited' BY <1>a DEF Inv, TypeOK, LiveIsAwaited
<1>10. ReplyIsTrue' BY <1>a DEF Inv, TypeOK, ReplyIsTrue
<1>11. MadeOnDisk' BY <1>a DEF Inv, TypeOK, MadeOnDisk
<1>12. CheckpointApplied' BY <1>a DEF Inv, TypeOK, CheckpointApplied, Val
<1>13. TransferSound' BY <1>a DEF Inv, TypeOK, TransferSound, Val
<1>14. ReplaySound' BY <1>a DEF Inv, TypeOK, ReplaySound, Val
<1>15. AtStart' BY <1>a DEF Inv, TypeOK, AtStart
<1>16. AtScan' BY <1>a DEF Inv, TypeOK, AtScan
<1>17. AtResume' BY <1>a DEF Inv, TypeOK, AtResume, Val
<1>18. AtSubmit' BY <1>a DEF Inv, TypeOK, AtSubmit
<1>19. AtApply' BY <1>a DEF Inv, TypeOK, AtApply, Val
<1>20. Frozen'
  BY <1>a, <1>r DEF Inv, Frozen
<1>21. JournalSeen'
  BY <1>a, <1>r DEF Inv, JournalSeen, Seen
<1>22. RunSeen'
  BY <1>a, <1>r DEF Inv, RunSeen, Seen
<1> QED
  BY <1>1, <1>2, <1>3, <1>4, <1>5, <1>6, <1>7, <1>8, <1>9, <1>10, <1>11, <1>12, <1>13, <1>14,
     <1>15, <1>16, <1>17, <1>18, <1>19, <1>20, <1>21, <1>22
     DEF Inv, TypeOK

(* The batch is over and its record goes.                                   *)
LEMMA ClearStep ==
  ASSUME Inv, Clear
  PROVE  Inv'
<1>a. UNCHANGED <<snapshots, receipts, wire, disk, baseline, applying, replay, intents, dirty,
                  full, sequence, frozen, unnoticed, made, faults>> /\ Latest' = Latest
  BY DEF Clear, server, tracking, outside, Latest
<1>r. /\ run.at = "acknowledge" /\ journal' = None
      /\ run' \in Sessions /\ run'.at \in {"check", "finish"}
      /\ run'.upto = 0 /\ run'.seen = {} /\ run'.reply = run.reply
  <2>1. PICK p \in {"check", "finish"} :
           run' = [run EXCEPT !.at = p, !.target = 0, !.upto = 0, !.seen = {}]
    BY DEF Clear
  <2>2. run \in Sessions /\ p \in Places BY RecordFacts DEF Places
  <2>3. /\ run' \in Sessions /\ run'.at = p
        /\ run'.upto = 0 /\ run'.seen = {} /\ run'.reply = run.reply
    BY <2>1, <2>2 DEF Sessions
  <2> QED BY <2>3 DEF Clear
<1>1. TypeServer' BY <1>a DEF Inv, TypeOK, TypeServer
<1>2. TypeSaved'
  BY <1>a, <1>r DEF Inv, TypeOK, TypeSaved
<1>3. TypeMemory' BY <1>a DEF Inv, TypeOK, TypeMemory
<1>4. TypeSession'
  BY <1>r DEF TypeSession
<1>5. Grows' BY <1>a DEF Inv, TypeOK, Grows, Val
<1>6. OwnOnDisk' BY <1>a DEF Inv, TypeOK, OwnOnDisk, Val
<1>7. WireProposes' BY <1>a DEF Inv, TypeOK, WireProposes, Val, Proposes, SameBatch
<1>8. JournalProposes'
  BY <1>r DEF JournalProposes
<1>9. LiveIsAwaited'
  BY <1>a, <1>r DEF Inv, LiveIsAwaited
<1>10. ReplyIsTrue'
  BY <1>r DEF Inv, ReplyIsTrue
<1>11. MadeOnDisk' BY <1>a DEF Inv, TypeOK, MadeOnDisk
<1>12. CheckpointApplied' BY <1>a DEF Inv, TypeOK, CheckpointApplied, Val
<1>13. TransferSound' BY <1>a DEF Inv, TypeOK, TransferSound, Val
<1>14. ReplaySound' BY <1>a DEF Inv, TypeOK, ReplaySound, Val
<1>15. AtStart'
  BY <1>r DEF AtStart
<1>16. AtScan'
  BY <1>r DEF AtScan
<1>17. AtResume'
  BY <1>r DEF AtResume
<1>18. AtSubmit'
  BY <1>r DEF AtSubmit
<1>19. AtApply'
  BY <1>r DEF AtApply
<1>20. Frozen' BY <1>a DEF Inv, TypeOK, Frozen
<1>21. JournalSeen'
  BY <1>r DEF JournalSeen
<1>22. RunSeen'
  BY <1>a, <1>r, RecordFacts DEF RunSeen, Seen
<1> QED
  BY <1>1, <1>2, <1>3, <1>4, <1>5, <1>6, <1>7, <1>8, <1>9, <1>10, <1>11, <1>12, <1>13, <1>14,
     <1>15, <1>16, <1>17, <1>18, <1>19, <1>20, <1>21, <1>22
     DEF Inv, TypeOK

(* The run ends.                                                            *)
LEMMA FinishStep ==
  ASSUME Inv, Finish
  PROVE  Inv'
<1>a. UNCHANGED <<snapshots, receipts, wire, disk, baseline, applying, replay, journal, intents,
                  full, sequence, frozen, unnoticed, made, faults>> /\ Latest' = Latest
  BY DEF Finish, server, saved, outside, Latest
<1>r. /\ run' \in Sessions /\ run'.at \in {"idle", "recover"}
      /\ run'.upto = 0 /\ run'.seen = {} /\ run'.reply = None
      /\ run.at = "finish"
  BY RecordFacts, IdleSession DEF Finish
<1>d. dirty' \in Nat
  <2>1. dirty \in Nat BY DEF Inv, TypeOK, TypeMemory
  <2>2. dirty' = dirty \/ dirty' = 0 BY DEF Finish
  <2> QED BY <2>1, <2>2
<1>1. TypeServer' BY <1>a DEF Inv, TypeOK, TypeServer
<1>2. TypeSaved' BY <1>a DEF Inv, TypeOK, TypeSaved
<1>3. TypeMemory'
  BY <1>a, <1>d DEF Inv, TypeOK, TypeMemory
<1>4. TypeSession'
  BY <1>r DEF TypeSession
<1>5. Grows' BY <1>a DEF Inv, TypeOK, Grows, Val
<1>6. OwnOnDisk' BY <1>a DEF Inv, TypeOK, OwnOnDisk, Val
<1>7. WireProposes' BY <1>a DEF Inv, TypeOK, WireProposes, Val, Proposes, SameBatch
<1>8. JournalProposes' BY <1>a DEF Inv, TypeOK, JournalProposes, Val, Proposes, SameBatch
<1>9. LiveIsAwaited'
  BY <1>a, <1>r DEF Inv, LiveIsAwaited
<1>10. ReplyIsTrue'
  BY <1>r, Facts DEF ReplyIsTrue
<1>11. MadeOnDisk' BY <1>a DEF Inv, TypeOK, MadeOnDisk
<1>12. CheckpointApplied' BY <1>a DEF Inv, TypeOK, CheckpointApplied, Val
<1>13. TransferSound' BY <1>a DEF Inv, TypeOK, TransferSound, Val
<1>14. ReplaySound' BY <1>a DEF Inv, TypeOK, ReplaySound, Val
<1>15. AtStart'
  BY <1>r DEF AtStart
<1>16. AtScan'
  BY <1>r DEF AtScan
<1>17. AtResume'
  BY <1>r DEF AtResume
<1>18. AtSubmit'
  BY <1>r DEF AtSubmit
<1>19. AtApply'
  BY <1>r DEF AtApply
<1>20. Frozen' BY <1>a DEF Inv, TypeOK, Frozen
<1>21. JournalSeen' BY <1>a DEF Inv, TypeOK, JournalSeen, Seen
<1>22. RunSeen'
  BY <1>a, <1>r, RecordFacts DEF RunSeen, Seen
<1> QED
  BY <1>1, <1>2, <1>3, <1>4, <1>5, <1>6, <1>7, <1>8, <1>9, <1>10, <1>11, <1>12, <1>13, <1>14,
     <1>15, <1>16, <1>17, <1>18, <1>19, <1>20, <1>21, <1>22
     DEF Inv, TypeOK

-----------------------------------------------------------------------------
(* At the start nothing is edited, journalled or sent.                      *)
LEMMA InitInv ==
  ASSUME Init
  PROVE  Inv
<1> DEFINE first == [val |-> {}, own |-> FALSE]
<1>1. /\ {} \in Content /\ first \in Snapshots
      /\ snapshots = <<first>> /\ Latest = 1
      /\ Val(1) = {}
  BY DEF Init, Content, Snapshots, Latest, Val
<1>2. run \in Sessions /\ run.at = "idle" /\ run.reply = None
      /\ run.upto = 0 /\ run.seen = {}
  <2>1. 0 \in Nat /\ run = Idle BY DEF Init
  <2>2. Idle.at = "idle" BY DEF Idle
  <2> QED BY <2>1, <2>2, IdleSession
<1>3. TypeServer
  <2>1. snapshots \in Seq(Snapshots) BY <1>1
  <2> QED BY <1>1, <2>1 DEF Init, TypeServer
<1>4. TypeOK
  <2>1. TypeSaved BY <1>1 DEF Init, TypeSaved
  <2>2. TypeMemory BY DEF Init, TypeMemory
  <2>3. TypeSession BY <1>2 DEF TypeSession
  <2> QED BY <1>3, <2>1, <2>2, <2>3 DEF TypeOK
<1>5. Grows /\ OwnOnDisk BY <1>1 DEF Grows, OwnOnDisk
<1>6. /\ WireProposes /\ JournalProposes /\ LiveIsAwaited /\ ReplyIsTrue
      /\ MadeOnDisk /\ TransferSound /\ ReplaySound
  BY <1>2, NoneAssumption
     DEF Init, WireProposes, JournalProposes, LiveIsAwaited, ReplyIsTrue, MadeOnDisk,
         TransferSound, ReplaySound
<1>7. CheckpointApplied BY <1>1 DEF Init, CheckpointApplied
<1>8. AtStart /\ AtScan /\ AtResume /\ AtSubmit /\ AtApply
  BY <1>2 DEF AtStart, AtScan, AtResume, AtSubmit, AtApply
<1>9. Frozen /\ JournalSeen /\ RunSeen
  BY <1>2 DEF Init, Frozen, JournalSeen, RunSeen, Seen
<1> QED BY <1>4, <1>5, <1>6, <1>7, <1>8, <1>9 DEF Inv

(* A step that changes nothing keeps the invariant.                         *)
LEMMA StutterInv ==
  ASSUME Inv, UNCHANGED vars
  PROVE  Inv'
BY DEF vars, Inv, TypeOK, TypeServer, TypeSaved, TypeMemory, TypeSession, Grows, OwnOnDisk,
       WireProposes, JournalProposes, LiveIsAwaited, ReplyIsTrue, MadeOnDisk, CheckpointApplied,
       TransferSound, ReplaySound, AtStart, AtScan, AtResume, AtSubmit, AtApply, Frozen,
       JournalSeen, RunSeen, Proposes, SameBatch, Seen, Val, Latest

(* No step of the owner, the session, the server or the other devices, and  *)
(* no fault or restart takes the invariant away.                            *)
LEMMA NextInv ==
  ASSUME Inv, [Next]_vars
  PROVE  Inv'
<1>1. ASSUME NEW d \in Drafts, Edit(d) PROVE Inv' BY <1>1, EditStep
<1>2. ASSUME NEW d \in Drafts, Notice(d) PROVE Inv' BY <1>2, NoticeStep
<1>3. ASSUME NEW f \in Foreign, Publish(f) PROVE Inv' BY <1>3, PublishStep
<1>4. ASSUME NEW r \in wire, LookUpReceipt(r) PROVE Inv' BY <1>4, LookUpReceiptStep
<1>5. ASSUME NEW r \in wire, Accept(r) PROVE Inv' BY <1>5, AcceptStep
<1>6. ASSUME NEW r \in wire, Conflict(r) PROVE Inv' BY <1>6, ConflictStep
<1>7. ASSUME NEW r \in wire, Refuse(r) PROVE Inv' BY <1>7, RefuseStep
<1>8. ASSUME NEW r \in wire, Drop(r) PROVE Inv' BY <1>8, DropStep
<1>9. CASE Begin BY <1>9, BeginStep
<1>10. CASE Fail BY <1>10, FailStep
<1>11. CASE Restart BY <1>11, RestartStep
<1>12. CASE Discard BY <1>12, DiscardStep
<1>13. CASE AskReceipt BY <1>13, AskReceiptStep
<1>14. CASE ProveReceipt BY <1>14, ProveReceiptStep
<1>15. CASE ResendAnswered BY <1>15, ResendAnsweredStep
<1>16. CASE Adopt BY <1>16, AdoptStep
<1>17. CASE Resume BY <1>17, ResumeStep
<1>18. CASE SaveResumed BY <1>18, SaveResumedStep
<1>19. CASE CheckRemote BY <1>19, CheckRemoteStep
<1>20. CASE Plan BY <1>20, PlanStep
<1>21. CASE Submit BY <1>21, SubmitStep
<1>22. CASE Answered BY <1>22, AnsweredStep
<1>23. CASE Stage BY <1>23, StageStep
<1>24. CASE Apply BY <1>24, ApplyStep
<1>25. CASE SaveApplied BY <1>25, SaveAppliedStep
<1>26. CASE Acknowledge BY <1>26, AcknowledgeStep
<1>27. CASE Clear BY <1>27, ClearStep
<1>28. CASE Finish BY <1>28, FinishStep
<1>29. CASE UNCHANGED vars BY <1>29, StutterInv
<1> QED
  BY <1>1, <1>2, <1>3, <1>4, <1>5, <1>6, <1>7, <1>8, <1>9, <1>10, <1>11, <1>12, <1>13, <1>14,
     <1>15, <1>16, <1>17, <1>18, <1>19, <1>20, <1>21, <1>22, <1>23, <1>24, <1>25, <1>26, <1>27,
     <1>28, <1>29
     DEF Next, Session, Serve

(* Whatever is edited, lost, repeated or interrupted, the journals and the  *)
(* checkpoint of a device describe its disk and the accepted history        *)
(* (engine.ts run, recoverPendingBatch and resumePendingApply).             *)
THEOREM Invariance == Spec => []Inv
<1>1. Init => Inv BY InitInv
<1>2. Inv /\ [Next]_vars => Inv' BY NextInv
<1> QED BY <1>1, <1>2, PTL DEF Spec

(* The state is of the expected shape: no receipt, checkpoint or transfer   *)
(* names a snapshot the server has not accepted.                            *)
THEOREM TypeCorrect == Spec => []TypeOK
<1>1. Inv => TypeOK BY DEF Inv
<1> QED BY <1>1, Invariance, PTL

(* The checkpoint advances only over content that is on disk, or remembers  *)
(* what the newer local edit was made on (engine.ts saves lastSnapshotId    *)
(* and localReconcileBases in one write).                                   *)
THEOREM CheckpointIsApplied == Spec => []CheckpointApplied
<1>1. Inv => CheckpointApplied BY DEF Inv
<1> QED BY <1>1, Invariance, PTL

(* What is accepted stays accepted: the history only grows, and every       *)
(* version holds what its predecessors hold.                                *)
LEMMA AcceptedStays ==
  ASSUME Inv, Inv', [Next]_vars
  PROVE  Val(Latest) \subseteq Val(Latest)'
<1>1. Latest \in Nat /\ Latest \in 1 .. Latest BY Facts
<1>2. CASE snapshots' = snapshots BY <1>2 DEF Val, Latest
<1>3. ASSUME NEW v \in Content, NEW own \in BOOLEAN,
             Val(Latest) \subseteq v, own => v \subseteq disk \cup Val(Latest),
             snapshots' = Append(snapshots, [val |-> v, own |-> own]), disk' = disk
      PROVE  Val(Latest) \subseteq Val(Latest)'
  <2>1. /\ Latest' = Latest + 1
        /\ \A s \in 1 .. Latest' : s = Latest + 1 => Val(s)' = v
    BY <1>3, Published
  <2>2. Latest' \in 1 .. Latest' BY <1>1, <2>1
  <2>3. snapshots'[Latest'].val = v BY <2>1, <2>2 DEF Val
  <2> QED BY <1>3, <2>3 DEF Val
<1>4. ASSUME NEW f \in Foreign, Publish(f)
      PROVE  Val(Latest) \subseteq Val(Latest)'
  <2>1. Val(Latest) \cup {f} \in Content BY Facts DEF Content
  <2> QED BY <1>3, <1>4, <2>1 DEF Publish, saved
<1>5. ASSUME NEW r \in wire, Accept(r)
      PROVE  Val(Latest) \subseteq Val(Latest)'
  <2>1. r.base = Latest /\ Proposes(r) /\ r.val \in Content
    BY <1>5, RecordFacts DEF Accept, Inv, WireProposes
  <2>2. Val(Latest) \subseteq r.val /\ r.val \subseteq disk \cup Val(Latest)
    BY <2>1 DEF Proposes
  <2> QED BY <1>3, <1>5, <2>1, <2>2 DEF Accept, saved
<1>6. snapshots' = snapshots \/ (\E f \in Foreign : Publish(f))
      \/ (\E r \in wire : Accept(r))
  <2>1. \/ Begin \/ Fail \/ Restart \/ Discard \/ AskReceipt \/ ProveReceipt \/ ResendAnswered
        \/ Adopt \/ Resume \/ SaveResumed \/ CheckRemote \/ Plan \/ Submit \/ Answered \/ Stage
        \/ Apply \/ SaveApplied \/ Acknowledge \/ Clear \/ Finish \/ UNCHANGED vars
      => snapshots' = snapshots
    BY DEF Begin, Fail, Restart, Discard, AskReceipt, ProveReceipt, ResendAnswered, Adopt,
           Resume, SaveResumed, CheckRemote, Plan, Submit, Answered, Stage, Apply, SaveApplied,
           Acknowledge, Clear, Finish, vars, server
  <2>2. \A r \in wire : LookUpReceipt(r) \/ Conflict(r) \/ Refuse(r) \/ Drop(r)
          => snapshots' = snapshots
    BY DEF LookUpReceipt, Conflict, Refuse, Drop
  <2>3. \A d \in Drafts : Edit(d) \/ Notice(d) => snapshots' = snapshots
    BY DEF Edit, Notice, server
  <2> QED BY <2>1, <2>2, <2>3 DEF Next, Session, Serve
<1> QED BY <1>2, <1>4, <1>5, <1>6

(* An event is removed only by the acknowledgement of a plan that saw it,   *)
(* or replaced by the event it grew into.                                   *)
LEMMA ConsumedWasSeen ==
  ASSUME Inv, [Next]_vars, journal # None => journal.mine
  PROVE  \A e \in intents : (\A f \in intents' : f.seq # e.seq) => e.of \subseteq run.seen
<1>1. CASE intents \subseteq intents' BY <1>1
<1>2. ASSUME NEW d \in Drafts, Notice(d)
      PROVE  \A e \in intents : \E f \in intents' : f.seq = e.seq
  <2>1. CASE Joins(d)
    <3> DEFINE last == CHOOSE e \in intents : \A f \in intents : f.seq <= e.seq
               next == [last EXCEPT !.of = @ \cup {d}]
    <3>1. last \in intents BY <2>1 DEF Joins
    <3>2. intents' = (intents \ {last}) \cup {next} BY <1>2, <2>1 DEF Notice, Record
    <3> HIDE DEF last
    <3>3. next.seq = last.seq BY <3>1, RecordFacts DEF Events
    <3> QED BY <3>1, <3>2, <3>3
  <2>2. CASE ~Joins(d)
    <3>1. intents \subseteq intents' BY <1>2, <2>2 DEF Notice, Record
    <3> QED BY <3>1
  <2> QED BY <2>1, <2>2
<1>3. CASE Acknowledge
  <2>1. PICK e \in intents : e.seq <= run.upto /\ intents' = intents \ {e}
    BY <1>3 DEF Acknowledge
  <2>2. e.of \subseteq run.seen BY <2>1 DEF Inv, RunSeen, Seen
  <2> QED BY <2>1, <2>2
<1>4. intents \subseteq intents' \/ Acknowledge \/ \E d \in Drafts : Notice(d)
  <2>1. \/ Begin \/ Fail \/ Restart \/ Discard \/ AskReceipt \/ ProveReceipt \/ ResendAnswered
        \/ Adopt \/ Resume \/ SaveResumed \/ CheckRemote \/ Plan \/ Submit \/ Answered \/ Stage
        \/ Apply \/ SaveApplied \/ Clear \/ Finish \/ UNCHANGED vars
      => intents' = intents
    BY DEF Begin, Fail, Restart, Discard, AskReceipt, ProveReceipt, ResendAnswered, Adopt,
           Resume, SaveResumed, CheckRemote, Plan, Submit, Answered, Stage, Apply, SaveApplied,
           Clear, Finish, vars, saved
  <2>2. \A r \in wire : LookUpReceipt(r) \/ Accept(r) \/ Conflict(r) \/ Refuse(r) \/ Drop(r)
          => intents' = intents
    BY DEF LookUpReceipt, Accept, Conflict, Refuse, Drop, saved
  <2>3. \A d \in Drafts : Edit(d) => intents' = intents
    BY DEF Edit
  <2>4. \A f \in Foreign : Publish(f) => intents' = intents
    BY DEF Publish, saved
  <2> QED BY <2>1, <2>2, <2>3, <2>4 DEF Next, Session, Serve
<1> QED BY <1>1, <1>2, <1>3, <1>4

(* Nothing of the owner's work is lost on its way to the accepted history:  *)
(* what she wrote stays on the disk, what is accepted stays accepted, and   *)
(* an intent is consumed only by a plan that has seen it.                   *)
THEOREM WorkStays == Spec => OwnersWorkStays
<1>1. Inv => EditsKept BY DEF Inv, MadeOnDisk, EditsKept
<1>2. Inv /\ Inv' /\ [Next]_vars => [Val(Latest) \subseteq Val(Latest)']_vars
  BY AcceptedStays
<1>3. Inv /\ [Next]_vars
        => [(journal # None => journal.mine)
              => \A e \in intents :
                    (\A f \in intents' : f.seq # e.seq) => e.of \subseteq run.seen]_vars
  BY ConsumedWasSeen
<1> QED
  BY <1>1, <1>2, <1>3, Invariance, PTL DEF Spec, OwnersWorkStays, AcceptedEditsStay, OwnPlanConsumes
==============================================================================
