----------------------- MODULE ReadableMirrorProofs --------------------------
(***************************************************************************)
(* The three safety properties of ReadableMirror for every set of edits    *)
(* and any number of heads, repairs, locks and faults, and the inductive   *)
(* invariant Inv they rest on: the row the importer merges against is      *)
(* the head's whenever a job may still call its target current; the repair *)
(* on record, the lock and the holds agree; and a job that may cover the   *)
(* visible file has everything it shows in the archive, in accepted        *)
(* history or in the operation's own history.  ThoseType is an induction   *)
(* over a recursive definition, by the least counterexample.               *)
(***************************************************************************)
EXTENDS ReadableMirror, WellFoundedInduction, TLAPS

JobSteps   == {"idle", "recover", "ingest", "importing", "read", "plan", "put",
               "finish", "verify", "complete", "done", "retry"}
RouteSteps == {"idle", "drain", "clean", "first", "second"}

(* Contents that hold only edits somebody has made.                         *)
Known == SUBSET (made \cup Foreign)

TypeAuthority ==
    /\ accepted \in Seq(Known) /\ Latest > 0
    /\ generation \in 0 .. Latest
    /\ record \in Intents \cup {None}
    /\ lock \in {None, Owner, Repair}
    /\ manual \in {None, Owner}
TypeCopy ==
    /\ entry \in [hash : Known \cup {Mark}, fresh : BOOLEAN]
    /\ pending \in Seq(Rows(Known))
    /\ archive \in SUBSET Drafts
    /\ mutation \in Mutations(Known) \cup {None}
    /\ readable \in Known
    /\ made \in SUBSET Drafts
TypeActors ==
    /\ job \in [pc : JobSteps, target : 0 .. Latest, repair : BOOLEAN,
                current : BOOLEAN]
    /\ scan \in [pc : {"idle", "import"}, head : 0 .. Latest,
                 base : Known \cup {Mark}, val : Known, live : BOOLEAN,
                 current : BOOLEAN, timer : BOOLEAN]
    /\ route \in [pc : RouteSteps, job : BOOLEAN, scan : BOOLEAN]
TypeFlags ==
    /\ due \in BOOLEAN /\ up \in BOOLEAN /\ held \in BOOLEAN
    /\ requested \in BOOLEAN /\ approved \in BOOLEAN /\ skip \in BOOLEAN
    /\ draining \in BOOLEAN
    /\ counts \in [repairs : Nat, locks : Nat, faults : Nat]
TypeOK == TypeAuthority /\ TypeCopy /\ TypeActors /\ TypeFlags

(* What a job that may finish has written into the row of the copy.         *)
RowOfTheHead ==
    /\ BaseIsHead
    /\ job.pc \in {"verify", "complete"} /\ job.target = Latest
           => entry.hash \in {LatestVal, Mark}

(* A repair request under way keeps the vault held.                         *)
HoldOfTheRepair ==
    /\ RepairKeepsItsHold
    /\ route.pc # "idle" => up /\ held /\ requested

(* No job prepares a write over one that was not looked at again.           *)
OneMutation ==
    /\ job.pc \in {"ingest", "importing", "read", "plan"} => mutation = None
    /\ job.pc \in {"put", "finish"} => mutation # None

(* Where an edit is safe even if the visible file is covered.               *)
Preserved == archive \cup (UNION Range(accepted))
                \cup (IF mutation = None THEN {}
                      ELSE UNION Range(mutation.since))
CoveredIsKept ==
    /\ job.pc = "put" => readable \cap Drafts \subseteq Preserved
    /\ made \subseteq readable \cup Preserved

Inv == TypeOK /\ RowOfTheHead /\ HoldOfTheRepair /\ OneMutation /\ CoveredIsKept
-----------------------------------------------------------------------------
(* Numbers and sequences.                                                   *)

(* A set of numbers has a least one; its counterexample form is the         *)
(* induction used below.                                                    *)
LEMMA LeastNumber ==
  ASSUME NEW T \in SUBSET Nat, T # {}
  PROVE  \E n \in T : \A m \in T : n <= m
<1>1. \E n \in T : \A m \in T : ~(<<m, n>> \in OpToRel(<, Nat))
  <2> DEFINE R == OpToRel(<, Nat)
  <2>1. IsWellFoundedOn(R, Nat) BY NatLessThanWellFounded
  <2> HIDE DEF R
  <2>2. \E n \in T : \A m \in T : ~(<<m, n>> \in R) BY <2>1, WFMin
  <2> QED BY <2>2 DEF R
<1>2. PICK n \in T : \A m \in T : ~(<<m, n>> \in OpToRel(<, Nat))
  BY <1>1, Zenon
<1>3. ASSUME NEW m \in T PROVE n <= m
  <2>1. ~(<<m, n>> \in {ss \in Nat \X Nat : ss[1] < ss[2]})
    BY <1>2, Zenon DEF OpToRel
  <2>2. m \in Nat /\ n \in Nat OBVIOUS
  <2>3. <<m, n>> \in Nat \X Nat /\ <<m, n>>[1] = m /\ <<m, n>>[2] = n
    BY <2>2
  <2>4. ~(m < n) BY <2>1, <2>3
  <2> QED BY <2>4, <2>2
<1> QED BY <1>3, <1>2

(* Those selects rows and makes none: the recursion has a value at every    *)
(* place, and each value is a sequence of the same rows.                    *)
LEMMA ThoseType ==
  ASSUME NEW S, NEW rows \in Seq(S), NEW places
  PROVE  Those(rows, places) \in Seq(S)
<1> DEFINE k == Len(rows)
           step(f, n) == IF n = 0 THEN <<>>
                         ELSE IF n \in places THEN Append(f[n - 1], rows[n])
                         ELSE f[n - 1]
           is(f, n) == f = [i \in 0 .. n |-> step(f, i)]
<1>1. k \in Nat OBVIOUS
<1>2. \A n \in 0 .. k : \E f : is(f, n)
  <2> DEFINE T == {n \in 0 .. k : ~\E f : is(f, n)}
  <2>1. SUFFICES ASSUME T # {} PROVE FALSE OBVIOUS
  <2> HIDE DEF is, step
  <2>2. T \in SUBSET Nat BY <1>1
  <2>3. PICK n \in T : \A m \in T : n <= m
    <3> HIDE DEF T
    <3> QED BY <2>1, <2>2, LeastNumber
  <2> USE DEF is, step
  <2>4. CASE n = 0
    <3>1. is([i \in 0 .. 0 |-> <<>>], 0) OBVIOUS
    <3> QED BY <3>1, <2>4, <2>3
  <2>5. CASE n # 0
    <3>1. n - 1 \in 0 .. k /\ n - 1 \notin T
      <4> HIDE DEF is, step
      <4>1. n \in 0 .. k BY <2>3
      <4>2. n - 1 \in 0 .. k BY <4>1, <2>5, <1>1
      <4>3. ~(n <= n - 1) BY <4>1
      <4> QED BY <4>2, <4>3, <2>3
    <3>2. PICK g : is(g, n - 1) BY <3>1
    <3> DEFINE h == [i \in 0 .. n |-> IF i = n THEN step(g, n) ELSE g[i]]
    <3>3. n \in Nat /\ n > 0 BY <2>5, <1>1
    <3>4. \A i \in 0 .. n - 1 : g[i] = step(g, i) BY <3>2
    <3>5. \A i \in 0 .. n : step(h, i) = step(g, i) BY <3>3
    <3>6. \A i \in 0 .. n : h[i] = step(h, i) BY <3>3, <3>4, <3>5
    <3>7. is(h, n) BY <3>6
    <3> QED BY <3>7, <2>3
  <2> QED BY <2>4, <2>5
<1>3. PICK f : is(f, k) BY <1>1, <1>2
<1> DEFINE those == CHOOSE g : is(g, k)
<1>4. is(those, k) BY <1>3
<1>5. Those(rows, places) = those[k] BY DEF Those
<1> HIDE DEF those
<1>6. \A i \in 0 .. k : those[i] = step(those, i) BY <1>4
<1>7. \A n \in 0 .. k : those[n] \in Seq(S)
  <2> DEFINE T == {n \in 0 .. k : those[n] \notin Seq(S)}
  <2>1. SUFFICES ASSUME T # {} PROVE FALSE OBVIOUS
  <2>2. T \in SUBSET Nat BY <1>1
  <2>3. PICK n \in T : \A m \in T : n <= m
    <3> HIDE DEF T, step
    <3> QED BY <2>1, <2>2, LeastNumber
  <2>4. n \in 0 .. k /\ those[n] \notin Seq(S) /\ those[n] = step(those, n)
    BY <1>6, <2>3
  <2>5. n # 0 BY <2>4
  <2>6. n - 1 \in 0 .. k /\ n - 1 \notin T /\ n \in 1 .. k
    BY <2>3, <2>5, <1>1
  <2>7. those[n - 1] \in Seq(S) /\ rows[n] \in S BY <2>6
  <2>8. step(those, n) \in Seq(S) BY <2>7, <2>5
  <2> QED BY <2>8, <2>4
<1> QED BY <1>1, <1>5, <1>7

(* A sequence over a set is one over every larger set.                      *)
LEMMA Widen ==
  ASSUME NEW S, NEW T, S \subseteq T, NEW s \in Seq(S)
  PROVE  s \in Seq(T)
OBVIOUS

(* What a row appended to a history keeps and adds.                         *)
LEMMA Appended ==
  ASSUME NEW S, NEW s \in Seq(S), NEW e \in S
  PROVE  /\ Append(s, e) \in Seq(S) /\ Len(Append(s, e)) = Len(s) + 1
         /\ Append(s, e)[Len(s) + 1] = e
         /\ \A i \in 1 .. Len(s) : Append(s, e)[i] = s[i]
         /\ Range(Append(s, e)) = Range(s) \cup {e}
<1>1. /\ Append(s, e) \in Seq(S) /\ Len(Append(s, e)) = Len(s) + 1
      /\ Append(s, e)[Len(s) + 1] = e
      /\ \A i \in 1 .. Len(s) : Append(s, e)[i] = s[i]
  OBVIOUS
<1>2. DOMAIN Append(s, e) = DOMAIN s \cup {Len(s) + 1} /\ DOMAIN s = 1 .. Len(s)
  BY <1>1
<1> HIDE <1>1
<1>3. Range(Append(s, e)) = Range(s) \cup {e} BY <1>1, <1>2 DEF Range
<1> QED BY <1>1, <1>3

-----------------------------------------------------------------------------
(* The rows of external_revisions.                                          *)

(* A prepared write is not NULL, whatever known contents it is made of.     *)
LEMMA MutationsInContent ==
  ASSUME NEW V \in SUBSET Content
  PROVE  None \notin Mutations(V)
<1>1. SUFFICES ASSUME None \in Mutations(V) PROVE FALSE
  OBVIOUS
<1>2. None.since \in Seq(Content) BY <1>1, Widen DEF Mutations
<1>3. None = [expected |-> None.expected, target |-> None.target,
              since |-> None.since]
  BY <1>1 DEF Mutations
<1>4. None.expected \in Content \cup {Mark} /\ None.target \in Content
  BY <1>1 DEF Mutations
<1>5. None \in Mutations(Content) BY <1>2, <1>3, <1>4 DEF Mutations
<1> QED BY <1>5, NoneAssumption

(* No content is a repair mark.                                             *)
LEMMA KnownThings ==
  ASSUME made \in SUBSET Drafts
  PROVE  Known \subseteq Content /\ Mark \notin Known /\ None \notin Mutations(Known)
<1>1. Known \subseteq Content BY DEF Known, Content
<1>2. Mark \notin Known BY <1>1, MarkAssumption
<1> QED BY <1>1, <1>2, MutationsInContent

(* What the server makes of rows are rows again.                            *)
LEMMA RowsTyped ==
  ASSUME NEW V, NEW rows \in Seq(Rows(V)), NEW v \in V
  PROVE  /\ Unread(rows) \in Seq(Rows(V))
         /\ Forget(rows) \in Seq(Rows(V))
         /\ Observe(rows, v, TRUE) \in Seq(Rows(V))
         /\ Observe(rows, v, FALSE) \in Seq(Rows(V))
         /\ [i \in DOMAIN rows |-> [rows[i] EXCEPT !.read = TRUE]] \in Seq(Rows(V))
<1>1. Unread(rows) \in Seq(Rows(V)) BY ThoseType DEF Unread
<1>2. \A b \in BOOLEAN, i \in DOMAIN rows :
         [rows[i] EXCEPT !.read = b] \in Rows(V)
  <2>1. \A i \in DOMAIN rows : rows[i] \in Rows(V) OBVIOUS
  <2> QED BY <2>1 DEF Rows
<1>3. DOMAIN rows = 1 .. Len(rows) /\ Len(rows) \in Nat OBVIOUS
<1>4. \A b \in BOOLEAN :
         [i \in DOMAIN rows |-> [rows[i] EXCEPT !.read = b]] \in Seq(Rows(V))
  <2> TAKE b \in BOOLEAN
  <2> DEFINE now(i) == [rows[i] EXCEPT !.read = b]
  <2>1. \A i \in 1 .. Len(rows) : now(i) \in Rows(V) BY <1>2, <1>3
  <2> HIDE DEF now
  <2>2. [i \in 1 .. Len(rows) |-> now(i)] \in Seq(Rows(V)) BY <2>1, <1>3
  <2> QED BY <2>2, <1>3 DEF now
<1>5. Forget(rows) \in Seq(Rows(V)) BY <1>4 DEF Forget
<1>6. \A r \in BOOLEAN : Observe(rows, v, r) \in Seq(Rows(V))
  <2> TAKE r \in BOOLEAN
  <2>1. CASE rows # <<>> /\ Last(rows).val = v
    <3>1. Len(rows) \in DOMAIN rows BY <2>1, <1>3
    <3>2. [rows[Len(rows)] EXCEPT !.read = r] \in Rows(V) BY <3>1, <1>2
    <3>3. [rows EXCEPT ![Len(rows)] = [rows[Len(rows)] EXCEPT !.read = r]]
             \in Seq(Rows(V))
      BY <3>1, <3>2
    <3> QED BY <2>1, <3>3 DEF Observe
  <2>2. CASE ~(rows # <<>> /\ Last(rows).val = v)
    <3>1. Row(v, r) \in Rows(V) BY DEF Row, Rows
    <3> QED BY <2>2, <3>1 DEF Observe
  <2> QED BY <2>1, <2>2
<1> QED BY <1>1, <1>4, <1>5, <1>6

\* What a capture adds to the pending revisions are revisions.
LEMMA CapturedTyped ==
  ASSUME NEW V, pending \in Seq(Rows(V)), NEW m \in Mutations(V)
  PROVE  Captured(m) \in Seq(Rows(V))
<1> DEFINE later == {i \in DOMAIN pending : pending[i].later}
           early == Those(pending, DOMAIN pending \ later)
           late  == Those(pending, later)
           new   == [i \in DOMAIN m.since |->
                        [val |-> m.since[i], read |-> FALSE, later |-> FALSE]]
           rows  == early \o new \o late
<1>1. early \in Seq(Rows(V)) /\ late \in Seq(Rows(V)) BY ThoseType
<1>2. new \in Seq(Rows(V))
  <2>1. m.since \in Seq(V) BY DEF Mutations
  <2>2. DOMAIN m.since = 1 .. Len(m.since) /\ Len(m.since) \in Nat BY <2>1
  <2>3. \A i \in 1 .. Len(m.since) : m.since[i] \in V BY <2>1
  <2> DEFINE now(i) == [val |-> m.since[i], read |-> FALSE, later |-> FALSE]
  <2>4. \A i \in 1 .. Len(m.since) : now(i) \in Rows(V) BY <2>3 DEF Rows
  <2> HIDE DEF now
  <2>5. [i \in 1 .. Len(m.since) |-> now(i)] \in Seq(Rows(V)) BY <2>4, <2>2
  <2> QED BY <2>5, <2>2 DEF now
<1> HIDE DEF early, late, new
<1>3. rows \in Seq(Rows(V)) BY <1>1, <1>2
<1> HIDE DEF rows
<1>4. [i \in DOMAIN rows |-> [rows[i] EXCEPT !.later = FALSE]] \in Seq(Rows(V))
  <2>1. DOMAIN rows = 1 .. Len(rows) /\ Len(rows) \in Nat BY <1>3
  <2>2. \A i \in 1 .. Len(rows) : rows[i] \in Rows(V) BY <1>3
  <2> DEFINE now(i) == [rows[i] EXCEPT !.later = FALSE]
  <2>3. \A i \in 1 .. Len(rows) : now(i) \in Rows(V) BY <2>2 DEF Rows
  <2> HIDE DEF now
  <2>4. [i \in 1 .. Len(rows) |-> now(i)] \in Seq(Rows(V)) BY <2>3, <2>1
  <2> QED BY <2>4, <2>1 DEF now
<1> QED BY <1>4 DEF Captured, rows, early, late, new

(* What the invariant says of the values the actions read.                  *)
LEMMA Facts ==
  ASSUME Inv
  PROVE  /\ {} \in Known /\ LatestVal \in Known /\ Latest \in Nat /\ Latest > 0
         /\ \A s \in 1 .. Latest : accepted[s] \in Known
         /\ MergeBase \in Known \cup {Mark}
         /\ Mark \notin Known /\ None \notin Intents /\ Owner # None
         /\ Repair # None /\ Repair # Owner
         /\ Drafts \cap Foreign = {}
         /\ mutation # None => mutation \in Mutations(Known)
         /\ None \notin Mutations(Known)
<1>1. accepted \in Seq(Known) /\ Latest \in Nat /\ Latest > 0
  BY DEF Inv, TypeOK, TypeAuthority, Latest
<1>2. \A s \in 1 .. Latest : accepted[s] \in Known BY <1>1 DEF Latest
<1>3. LatestVal \in Known BY <1>1, <1>2 DEF LatestVal
<1>6. {} \in Known BY DEF Known
<1>4. MergeBase \in Known \cup {Mark}
  BY <1>2, <1>6 DEF Inv, TypeOK, TypeAuthority, TypeCopy, MergeBase
<1>5. Mark \notin Known /\ None \notin Mutations(Known)
  BY KnownThings DEF Inv, TypeOK, TypeCopy
<1> QED
  BY <1>1, <1>2, <1>3, <1>4, <1>5, <1>6, NoneAssumption, LocksAssumption, Disjoint
     DEF Inv, TypeOK, TypeCopy

-----------------------------------------------------------------------------
(* What the parts shared by several actions leave behind.                   *)

(* The journal's finish keeps every revision since the baseline.            *)
LEMMA CaptureKeeps ==
  ASSUME Inv, Capture
  PROVE  /\ pending' \in Seq(Rows(Known)) /\ archive' \in SUBSET Drafts
         /\ archive \subseteq archive' /\ mutation' = None
         /\ mutation # None => (UNION Range(mutation.since)) \cap Drafts \subseteq archive'
<1>1. /\ pending \in Seq(Rows(Known)) /\ archive \in SUBSET Drafts
      /\ mutation # None => mutation \in Mutations(Known)
  BY DEF Inv, TypeOK, TypeCopy
<1>2. CASE mutation = None BY <1>1, <1>2 DEF Capture
<1>3. CASE mutation # None
  <2>1. Captured(mutation) \in Seq(Rows(Known)) BY <1>1, <1>3, CapturedTyped
  <2>2. Drawn(Range(mutation.since)) = (UNION Range(mutation.since)) \cap Drafts
    BY DEF Drawn
  <2>4. /\ pending' = Captured(mutation) /\ mutation' = None
        /\ archive' = archive \cup Drawn(Range(mutation.since))
    BY <1>3, Zenon DEF Capture
  <2>3. archive' = archive \cup ((UNION Range(mutation.since)) \cap Drafts)
    BY <2>2, <2>4, Zenon
  <2> QED BY <1>1, <1>3, <2>1, <2>3, <2>4
<1> QED BY <1>2, <1>3

(* A scan keeps what it sees and chooses one content among what is known.   *)
LEMMA ListedKeeps ==
  ASSUME Inv, ToImport, NEW timer \in BOOLEAN, Listed(timer)
  PROVE  /\ pending' \in Seq(Rows(Known)) /\ archive' \in SUBSET Drafts
         /\ archive \subseteq archive'
         /\ scan' \in [pc : {"idle", "import"}, head : 0 .. Latest,
                       base : Known \cup {Mark}, val : Known, live : BOOLEAN,
                       current : BOOLEAN, timer : BOOLEAN]
<1> DEFINE live == ~entry.fresh /\ (readable # LatestVal \/ pending = <<>>)
           seen == [i \in DOMAIN pending |-> [pending[i] EXCEPT !.read = TRUE]]
           val  == IF live THEN readable ELSE Last(pending).val
<1>1. /\ pending \in Seq(Rows(Known)) /\ archive \in SUBSET Drafts
      /\ readable \in Known /\ made \in SUBSET Drafts
  BY DEF Inv, TypeOK, TypeCopy
<1>2. seen \in Seq(Rows(Known)) BY <1>1, RowsTyped
<1>3. Observe(seen, readable, TRUE) \in Seq(Rows(Known)) 
  <2> HIDE DEF seen
  <2>1. \A v \in Known : Observe(seen, v, TRUE) \in Seq(Rows(Known))
    BY <1>2, RowsTyped
  <2> QED BY <1>1, <2>1
<1>4. Drawn({readable}) \subseteq Drafts BY DEF Drawn
<1>5. live \in BOOLEAN OBVIOUS
<1>6. val \in Known
  <2>1. CASE live BY <2>1, <1>1
  <2>2. CASE ~live
    <3>1. pending # <<>> BY <2>2 DEF ToImport
    <3>2. Last(pending) \in Rows(Known) BY <3>1, <1>1 DEF Last
    <3> QED BY <2>2, <3>2 DEF Rows
  <2> QED BY <2>1, <2>2
<1>7. scan' = [pc |-> "import", head |-> Latest, base |-> MergeBase, val |-> val,
               live |-> live, current |-> TRUE, timer |-> timer]
  BY DEF Listed
<1>8. /\ pending' = IF entry.fresh THEN seen ELSE Observe(seen, readable, TRUE)
      /\ archive' = IF entry.fresh THEN archive
                    ELSE archive \cup Drawn({readable})
  BY DEF Listed
<1> HIDE DEF live, seen, val
<1>9. scan' \in [pc : {"idle", "import"}, head : 0 .. Latest,
                 base : Known \cup {Mark}, val : Known, live : BOOLEAN,
                 current : BOOLEAN, timer : BOOLEAN]
  BY <1>5, <1>6, <1>7, Facts
<1> QED BY <1>1, <1>2, <1>3, <1>4, <1>8, <1>9

(* A repair put on record targets the head and keeps the owner's lock.      *)
LEMMA HoldingKeeps ==
  ASSUME Inv, NEW rec \in {record, Begun(record), Recovered}, Holding(rec)
  PROVE  /\ record' = rec /\ record' \in Intents \cup {None}
         /\ lock' \in {None, Owner, Repair}
         /\ IF record' = None THEN lock' = manual
            ELSE record'.target = Latest /\ lock' = Repair /\ record'.prior = manual
         /\ rec = Begun(record) => record' # None
         /\ rec = Recovered /\ generation = 0 /\ entry.hash = Mark
                => record' # None
<1>1. /\ record \in Intents \cup {None} /\ lock \in {None, Owner, Repair}
      /\ manual \in {None, Owner} /\ Latest \in Nat
      /\ None \notin Intents
      /\ IF record = None THEN lock = manual
         ELSE record.target = Latest /\ lock = Repair /\ record.prior = manual
  BY Facts DEF Inv, TypeOK, TypeAuthority, HoldOfTheRepair, RepairKeepsItsHold
<1>2. /\ Begun(None) \in Intents
      /\ Begun(None).target = Latest /\ Begun(None).prior = lock
      \/ record # None
  BY <1>1 DEF Begun, Intents
<1>3. rec = record \/ (record = None /\ rec = Begun(None)) BY DEF Begun, Recovered
<1>4. record' = rec /\ lock' = IF record = None /\ rec # None THEN Repair ELSE lock
  BY DEF Holding
<1>5. rec = Begun(record) => rec # None BY <1>1, <1>2 DEF Begun
<1>6. rec = Recovered /\ generation = 0 /\ entry.hash = Mark => rec # None
  BY <1>1, <1>2 DEF Recovered
<1>7. CASE rec = record BY <1>1, <1>4, <1>5, <1>6, <1>7
<1>8. CASE record = None /\ rec = Begun(None)
  <2>1. rec \in Intents /\ rec.target = Latest /\ rec.prior = manual /\ rec # None
    BY <1>1, <1>2, <1>8
  <2> QED BY <2>1, <1>1, <1>4, <1>8
<1> QED BY <1>3, <1>7, <1>8

(* A claimed job starts at the recovery of the journal.                     *)
LEMMA ClaimedType ==
  ASSUME Latest \in Nat
  PROVE  /\ Claimed \in [pc : JobSteps, target : 0 .. Latest, repair : BOOLEAN,
                         current : BOOLEAN]
         /\ Claimed.pc = "recover"
<1> DEFINE J == [pc : JobSteps, target : 0 .. Latest, repair : BOOLEAN,
                 current : BOOLEAN]
<1>1. 0 \in 0 .. Latest /\ "idle" \in JobSteps /\ "recover" \in JobSteps
  BY DEF JobSteps
<1>2. NoJob \in J BY <1>1 DEF NoJob
<1>3. Claimed = [NoJob EXCEPT !.pc = "recover"] BY DEF Claimed
<1> QED BY <1>1, <1>2, <1>3

(* The awaited job is the one that runs, or one that has just begun.        *)
LEMMA ProjectKeeps ==
  ASSUME Inv, NEW pc \in RouteSteps, Project(pc)
  PROVE  /\ route' \in [pc : RouteSteps, job : BOOLEAN, scan : BOOLEAN]
         /\ route'.pc = pc
         /\ job' \in [pc : JobSteps, target : 0 .. Latest, repair : BOOLEAN,
                      current : BOOLEAN]
         /\ job' = job \/ job'.pc = "recover"
         /\ due' \in BOOLEAN /\ skip' \in BOOLEAN
<1>1. route' \in [pc : RouteSteps, job : BOOLEAN, scan : BOOLEAN] /\ route'.pc = pc
  BY DEF Project
<1>2. Claimed \in [pc : JobSteps, target : 0 .. Latest, repair : BOOLEAN,
                   current : BOOLEAN]
      /\ Claimed.pc = "recover"
  BY Facts, ClaimedType
<1>3. job \in [pc : JobSteps, target : 0 .. Latest, repair : BOOLEAN,
               current : BOOLEAN]
  BY DEF Inv, TypeOK, TypeActors
<1>4. job' = Claimed \/ job' = job BY DEF Project
<1>5. due' \in BOOLEAN /\ skip' \in BOOLEAN BY DEF Project
<1> QED BY <1>1, <1>2, <1>3, <1>4, <1>5

(* An edit preserved where the finish of the journal works stays preserved. *)
LEMMA PreservedStays ==
  ASSUME Inv, accepted' = accepted, archive \subseteq archive',
         \/ mutation' = mutation
         \/ mutation' = None /\ (mutation # None
               => (UNION Range(mutation.since)) \cap Drafts \subseteq archive')
  PROVE  Preserved \cap Drafts \subseteq Preserved'
<1>1. CASE mutation' = mutation BY <1>1, Zenon DEF Preserved
<1>2. CASE mutation' = None /\ mutation = None BY <1>2, Zenon DEF Preserved
<1>3. CASE mutation' = None /\ mutation # None
  <2>1. (UNION Range(mutation.since)) \cap Drafts \subseteq archive' BY <1>3
  <2>2. Preserved = archive \cup (UNION Range(accepted)) \cup (UNION Range(mutation.since))
    BY <1>3, Zenon DEF Preserved
  <2>3. Preserved' = archive' \cup (UNION Range(accepted))
    BY <1>3 DEF Preserved
  <2> QED BY <2>1, <2>2, <2>3
<1> QED BY <1>1, <1>2, <1>3

(* An editor saves: the edit is visible, and recorded as covered at risk.   *)
LEMMA ExternalEditStep ==
  ASSUME Inv, NEW d \in Drafts, ExternalEdit(d)
  PROVE  Inv'
<1> DEFINE v == readable \cup {d}
<1>a. /\ UNCHANGED <<accepted, generation, record, lock, pending, archive, due, up,
                     held, requested, approved, skip, draining, job, route, manual,
                     counts>>
      /\ Latest' = Latest /\ LatestVal' = LatestVal
      /\ readable' = v /\ made' = made \cup {d} /\ d \notin made
      /\ scan' = [scan EXCEPT !.current = FALSE]
      /\ entry' = [entry EXCEPT !.fresh = FALSE]
      /\ mutation' = Since(v)
  BY DEF ExternalEdit, Written, process, outside, Latest, LatestVal
<1>b. /\ Known \subseteq Known' /\ v \in Known' /\ v \notin Known
      /\ Seq(Known) \subseteq Seq(Known')
  <2>1. Known \subseteq Known' BY <1>a DEF Known
  <2>2. v \in Known' BY <1>a DEF Known, Inv, TypeOK, TypeCopy
  <2>3. v \notin Known BY <1>a, Facts DEF Known
  <2> QED BY <2>1, <2>2, <2>3, Widen
<1>c. /\ mutation = None => mutation' = None
      /\ mutation # None =>
            /\ mutation' \in Mutations(Known') /\ mutation' # None
            /\ Range(mutation'.since) = Range(mutation.since) \cup {v}
  <2>1. CASE mutation = None BY <1>a, <2>1 DEF Since
  <2>2. CASE mutation # None
    <3>1. mutation \in Mutations(Known) BY <2>2, Facts
    <3>2. /\ mutation.since \in Seq(Known) /\ mutation.target \in Known
          /\ mutation.expected \in Known \cup {Mark}
      BY <3>1 DEF Mutations
    <3>3. v # Mark
      <4>1. v \in Content BY DEF Content, Inv, TypeOK, TypeCopy, Known
      <4> QED BY <4>1, MarkAssumption
    <3>4. v \notin {mutation.expected, mutation.target} BY <1>b, <3>2, <3>3
    <3>5. mutation' = [mutation EXCEPT !.since = Append(mutation.since, v)]
      BY <1>a, <2>2, <3>4 DEF Since
    <3>6. mutation.since \in Seq(Known') BY <1>b, <3>2
    <3>7. /\ Append(mutation.since, v) \in Seq(Known')
          /\ Range(Append(mutation.since, v)) = Range(mutation.since) \cup {v}
      <4> DEFINE K == Known'
      <4>1. v \in K /\ mutation.since \in Seq(K) BY <1>b, <3>6
      <4> HIDE DEF K, v
      <4>2. /\ Append(mutation.since, v) \in Seq(K)
            /\ Range(Append(mutation.since, v)) = Range(mutation.since) \cup {v}
        BY <4>1, Appended
      <4> QED BY <4>2 DEF K
    <3>8. mutation'.since = Append(mutation.since, v) BY <3>1, <3>5 DEF Mutations
    <3>9. mutation' \in Mutations(Known')
      <4> HIDE DEF v
      <4>1. mutation' = [expected |-> mutation.expected, target |-> mutation.target,
                         since |-> Append(mutation.since, v)]
        BY <3>1, <3>5 DEF Mutations
      <4> QED BY <1>b, <3>2, <3>7, <4>1 DEF Mutations
    <3>10. mutation' # None
      <4>1. made' \in SUBSET Drafts BY <1>a DEF Inv, TypeOK, TypeCopy
      <4>2. None \notin Mutations(Known)'
        <5>1. Known' \subseteq Content BY <4>1 DEF Known, Content
        <5> QED BY <5>1, MutationsInContent
      <4> QED BY <3>9, <4>2
    <3> QED BY <2>2, <3>7, <3>8, <3>9, <3>10
  <2> QED BY <2>1, <2>2
<1> HIDE DEF v
<1>1. TypeAuthority'
  BY <1>a, <1>b DEF Inv, TypeOK, TypeAuthority
<1>2. TypeCopy'
  <2>1. pending' \in Seq(Rows(Known'))
    <3>1. Rows(Known) \subseteq Rows(Known') BY <1>b DEF Rows
    <3> QED BY <1>a, <3>1, Widen DEF Inv, TypeOK, TypeCopy
  <2>2. entry' \in [hash : Known' \cup {Mark}, fresh : BOOLEAN]
    <3>1. entry \in [hash : Known' \cup {Mark}, fresh : BOOLEAN]
      BY <1>b DEF Inv, TypeOK, TypeCopy
    <3> QED BY <1>a, <3>1
  <2> QED BY <1>a, <1>b, <1>c, <2>1, <2>2 DEF Inv, TypeOK, TypeCopy
<1>3. TypeActors'
  <2>1. scan \in [pc : {"idle", "import"}, head : 0 .. Latest,
                  base : Known' \cup {Mark}, val : Known', live : BOOLEAN,
                  current : BOOLEAN, timer : BOOLEAN]
    BY <1>b DEF Inv, TypeOK, TypeActors
  <2> QED BY <1>a, <2>1 DEF Inv, TypeOK, TypeActors
<1>4. TypeFlags'
  BY <1>a DEF Inv, TypeOK, TypeFlags
<1>5. RowOfTheHead'
  <2>1. entry'.hash = entry.hash BY <1>a DEF Inv, TypeOK, TypeCopy
  <2> QED BY <1>a, <2>1 DEF Inv, RowOfTheHead, BaseIsHead
<1>6. HoldOfTheRepair'
  <2>1. entry'.hash = entry.hash BY <1>a DEF Inv, TypeOK, TypeCopy
  <2> QED BY <1>a, <2>1 DEF Inv, HoldOfTheRepair, RepairKeepsItsHold
<1>7. OneMutation'
  BY <1>a, <1>c DEF Inv, OneMutation
<1>8. CoveredIsKept'
  <2>1. Preserved \subseteq Preserved'
    <3>1. CASE mutation = None BY <1>a, <1>c, <3>1 DEF Preserved
    <3>2. CASE mutation # None
      <4>1. (UNION Range(mutation.since)) \subseteq (UNION Range(mutation'.since))
        BY <1>c, <3>2
      <4>2. Preserved = archive \cup (UNION Range(accepted))
                           \cup (UNION Range(mutation.since))
        BY <3>2, Zenon DEF Preserved
      <4>3. Preserved' = archive \cup (UNION Range(accepted))
                            \cup (UNION Range(mutation'.since))
        BY <1>a, <1>c, <3>2 DEF Preserved
      <4> QED BY <4>1, <4>2, <4>3
    <3> QED BY <3>1, <3>2
  <2>2. ASSUME job.pc = "put" PROVE readable' \cap Drafts \subseteq Preserved'
    <3>1. mutation # None BY <2>2 DEF Inv, OneMutation
    <3>2. mutation' # None /\ v \in Range(mutation'.since)
      BY <1>c, <3>1, Zenon
    <3>3. v \subseteq Preserved' BY <3>2 DEF Preserved
    <3> QED BY <1>a, <3>3
  <2>3. made' \subseteq readable' \cup Preserved'
    BY <1>a, <2>1 DEF Inv, CoveredIsKept, v
  <2> QED BY <1>a, <2>2, <2>3 DEF CoveredIsKept
<1> QED
  BY <1>1, <1>2, <1>3, <1>4, <1>5, <1>6, <1>7, <1>8 DEF Inv, TypeOK


(* A device's commit finds no repair on record, and moves the head.         *)
LEMMA DeviceCommitStep ==
  ASSUME Inv, NEW v \in Content, DeviceCommit(v)
  PROVE  Inv'
<1>a. /\ UNCHANGED <<generation, record, lock, entry, pending, archive,
                     mutation, readable, made, up, held, requested, approved,
                     skip, draining, job, scan, route, manual, counts>>
      /\ Known' = Known
  BY DEF DeviceCommit, seafile, process, actors, outside, Known
<1>b. /\ accepted' = Append(accepted, v) /\ accepted' \in Seq(Known')
      /\ Latest' = Latest + 1 /\ LatestVal' = v /\ v \in Known'
      /\ \A s \in 1 .. Latest : accepted'[s] = accepted[s]
      /\ Range(accepted') = Range(accepted) \cup {v}
  <2>1. v \in Known
    BY Facts DEF DeviceCommit, Known, Content
  <2>2. accepted \in Seq(Known) BY DEF Inv, TypeOK, TypeAuthority
  <2>3. accepted' = Append(accepted, v) BY DEF DeviceCommit
  <2> QED BY <1>a, <2>1, <2>2, <2>3, Appended DEF Latest, LatestVal
<1>1. TypeAuthority'
  <2>1. generation' \in 0 .. Latest'
    BY <1>a, Facts, <1>b DEF Inv, TypeOK, TypeAuthority, DeviceCommit, Writable
  <2>2. record' \in Intents \cup {None}
    BY <1>a, Facts, <1>b DEF DeviceCommit, Writable
  <2> QED BY <1>a, <1>b, Facts, <2>1, <2>2 DEF Inv, TypeOK, TypeAuthority
<1>2. TypeCopy'
  BY <1>a DEF Inv, TypeOK, TypeCopy
<1>3. TypeActors'
  <2>1. job' \in [pc : JobSteps, target : 0 .. Latest', repair : BOOLEAN, current : BOOLEAN]
    BY <1>a, Facts, <1>b DEF Inv, TypeOK, TypeActors
  <2>2. scan' \in [pc : {"idle", "import"}, head : 0 .. Latest',
                   base : Known' \cup {Mark}, val : Known', live : BOOLEAN,
                   current : BOOLEAN, timer : BOOLEAN]
    BY <1>a, Facts, <1>b DEF Inv, TypeOK, TypeActors
  <2> QED BY <1>a, <1>b, Facts, <2>1, <2>2 DEF Inv, TypeOK, TypeActors
<1>4. TypeFlags'
  <2>1. due' \in BOOLEAN
    BY <1>a, Facts, <1>b DEF Inv, TypeOK, TypeFlags, DeviceCommit, Writable
  <2> QED BY <1>a, <1>b, Facts, <2>1 DEF Inv, TypeOK, TypeFlags
<1>5. RowOfTheHead'
  BY <1>a, Facts, <1>b DEF Inv, TypeOK, TypeAuthority, TypeActors, RowOfTheHead, BaseIsHead
<1>6. HoldOfTheRepair'
  BY <1>a, Facts, <1>b DEF Inv, HoldOfTheRepair, RepairKeepsItsHold, DeviceCommit
<1>7. OneMutation'
  BY <1>a, Facts, <1>b DEF Inv, OneMutation
<1>8. CoveredIsKept'
  BY <1>a, Facts, <1>b DEF Inv, CoveredIsKept, Preserved
<1> QED BY <1>1, <1>2, <1>3, <1>4, <1>5, <1>6, <1>7, <1>8 DEF Inv, TypeOK

(* The owner's lock is set while no repair is on record.                    *)
LEMMA SetLockStep ==
  ASSUME Inv, NEW l \in {None, Owner}, SetLock(l)
  PROVE  Inv'
<1>a. /\ UNCHANGED <<accepted, generation, record, entry, pending, archive,
                     mutation, due, readable, made, up, held, requested,
                     approved, skip, draining, job, scan, route>>
      /\ Known' = Known /\ Latest' = Latest
  BY DEF SetLock, seafile, process, actors, Known, Latest
<1>1. TypeAuthority'
  <2>1. lock' \in {None, Owner, Repair}
    BY <1>a, Facts DEF SetLock
  <2>2. manual' \in {None, Owner}
    BY <1>a, Facts DEF Inv, TypeOK, TypeAuthority, SetLock, Writable
  <2> QED BY <1>a, Facts, <2>1, <2>2 DEF Inv, TypeOK, TypeAuthority
<1>2. TypeCopy'
  BY <1>a DEF Inv, TypeOK, TypeCopy
<1>3. TypeActors'
  BY <1>a DEF Inv, TypeOK, TypeActors
<1>4. TypeFlags'
  <2>1. counts' \in [repairs : Nat, locks : Nat, faults : Nat]
    BY <1>a, Facts DEF Inv, TypeOK, TypeFlags, SetLock, Writable
  <2> QED BY <1>a, Facts, <2>1 DEF Inv, TypeOK, TypeFlags
<1>5. RowOfTheHead'
  BY <1>a, Facts DEF Inv, RowOfTheHead, BaseIsHead, LatestVal
<1>6. HoldOfTheRepair'
  BY <1>a, Facts DEF Inv, HoldOfTheRepair, RepairKeepsItsHold, SetLock, Writable
<1>7. OneMutation'
  BY <1>a, Facts DEF Inv, OneMutation
<1>8. CoveredIsKept'
  BY <1>a, Facts DEF Inv, CoveredIsKept, Preserved
<1> QED BY <1>1, <1>2, <1>3, <1>4, <1>5, <1>6, <1>7, <1>8 DEF Inv, TypeOK

(* A start takes the hold of a repair on record, or of a mark left behind.  *)
LEMMA StartStep ==
  ASSUME Inv, Start
  PROVE  Inv'
<1>a. /\ UNCHANGED <<accepted, generation, entry, pending, archive, mutation,
                     readable, made, requested, skip, draining, job, scan,
                     route, manual, counts>>
      /\ Known' = Known /\ Latest' = Latest
  BY DEF Start, seafile, actors, outside, Known, Latest
<1>c. Holding(Recovered) BY DEF Start
<1>d. held' = (record' # None) /\ up' = TRUE
  BY <1>c DEF Start, Holding
<1>1. TypeAuthority'
  <2>1. record' \in Intents \cup {None}
    BY <1>c, HoldingKeeps, <1>c DEF Start, TypeAuthority
  <2>2. lock' \in {None, Owner, Repair}
    BY <1>c, HoldingKeeps, <1>c DEF Start, TypeAuthority
  <2> QED BY <1>a, <1>c, Facts, <2>1, <2>2 DEF Inv, TypeOK, TypeAuthority
<1>2. TypeCopy'
  BY <1>a DEF Inv, TypeOK, TypeCopy
<1>3. TypeActors'
  BY <1>a DEF Inv, TypeOK, TypeActors
<1>4. TypeFlags'
  <2>1. up' \in BOOLEAN
    BY <1>a, Facts, <1>c DEF Inv, TypeOK, TypeFlags, Start
  <2>2. held' \in BOOLEAN
    BY <1>a, Facts, <1>c DEF Inv, TypeOK, TypeFlags, Start
  <2>3. approved' \in BOOLEAN
    BY <1>a, Facts, <1>c DEF Inv, TypeOK, TypeFlags, Start
  <2>4. due' \in BOOLEAN
    BY <1>a, Facts, <1>c DEF Inv, TypeOK, TypeFlags, Start
  <2> QED BY <1>a, <1>c, Facts, <2>1, <2>2, <2>3, <2>4 DEF Inv, TypeOK, TypeFlags
<1>5. RowOfTheHead'
  BY <1>a, Facts, <1>c DEF Inv, RowOfTheHead, BaseIsHead, LatestVal
<1>6. HoldOfTheRepair'
  BY <1>a, <1>c, <1>d, HoldingKeeps DEF Inv, HoldOfTheRepair, RepairKeepsItsHold, Start
<1>7. OneMutation'
  BY <1>a, Facts, <1>c DEF Inv, OneMutation
<1>8. CoveredIsKept'
  BY <1>a, Facts, <1>c DEF Inv, CoveredIsKept, Preserved
<1> QED BY <1>1, <1>2, <1>3, <1>4, <1>5, <1>6, <1>7, <1>8 DEF Inv, TypeOK

(* A crash forgets the actors and the flags, and nothing that is stored.    *)
LEMMA CrashStep ==
  ASSUME Inv, Crash
  PROVE  Inv'
<1>a. /\ UNCHANGED <<accepted, generation, record, lock, entry, archive,
                     mutation, due, readable, made, manual>>
      /\ Known' = Known /\ Latest' = Latest
  BY DEF Crash, seafile, Known, Latest
<1>1. TypeAuthority'
  BY <1>a DEF Inv, TypeOK, TypeAuthority
<1>2. TypeCopy'
  <2>1. pending' \in Seq(Rows(Known'))
    BY <1>a, Facts, RowsTyped DEF Inv, TypeOK, TypeCopy, Crash
  <2> QED BY <1>a, Facts, <2>1 DEF Inv, TypeOK, TypeCopy
<1>3. TypeActors'
  <2>1. job' \in [pc : JobSteps, target : 0 .. Latest', repair : BOOLEAN, current : BOOLEAN]
    BY <1>a, Facts DEF JobSteps, Crash, NoJob
  <2>2. scan' \in [pc : {"idle", "import"}, head : 0 .. Latest',
                   base : Known' \cup {Mark}, val : Known', live : BOOLEAN,
                   current : BOOLEAN, timer : BOOLEAN]
    BY <1>a, Facts DEF Crash, NoScan
  <2>3. route' \in [pc : RouteSteps, job : BOOLEAN, scan : BOOLEAN]
    BY <1>a, Facts DEF RouteSteps, Crash, NoRoute
  <2> QED BY <1>a, Facts, <2>1, <2>2, <2>3 DEF Inv, TypeOK, TypeActors
<1>4. TypeFlags'
  <2>1. counts' \in [repairs : Nat, locks : Nat, faults : Nat]
    BY <1>a, Facts DEF Inv, TypeOK, TypeFlags, Crash
  <2>2. up' \in BOOLEAN
    BY <1>a, Facts DEF Crash
  <2>3. held' \in BOOLEAN
    BY <1>a, Facts DEF Crash
  <2>4. requested' \in BOOLEAN
    BY <1>a, Facts DEF Crash
  <2>5. approved' \in BOOLEAN
    BY <1>a, Facts DEF Crash
  <2>6. skip' \in BOOLEAN
    BY <1>a, Facts DEF Crash
  <2>7. draining' \in BOOLEAN
    BY <1>a, Facts DEF Crash
  <2> QED BY <1>a, Facts, <2>1, <2>2, <2>3, <2>4, <2>5, <2>6, <2>7 DEF Inv, TypeOK, TypeFlags
<1>5. RowOfTheHead'
  BY <1>a, Facts DEF Inv, RowOfTheHead, BaseIsHead, LatestVal, Crash, NoJob
<1>6. HoldOfTheRepair'
  BY <1>a, Facts DEF Inv, HoldOfTheRepair, RepairKeepsItsHold, Crash, NoRoute
<1>7. OneMutation'
  BY <1>a, Facts DEF OneMutation, Crash, NoJob
<1>8. CoveredIsKept'
  BY <1>a, Facts DEF Inv, CoveredIsKept, Preserved, Crash, NoJob
<1> QED BY <1>1, <1>2, <1>3, <1>4, <1>5, <1>6, <1>7, <1>8 DEF Inv, TypeOK

(* A scan keeps what it sees before it decides.                             *)
LEMMA TimerScanStep ==
  ASSUME Inv, TimerScan
  PROVE  Inv'
<1>a. /\ UNCHANGED <<accepted, generation, record, lock, entry, mutation,
                     readable, made, up, held, requested, approved, skip,
                     draining, job, route, manual, counts>>
      /\ Known' = Known /\ Latest' = Latest
  BY DEF TimerScan, seafile, process, outside, Known, Latest
<1>c. /\ pending' \in Seq(Rows(Known)) /\ archive' \in SUBSET Drafts
      /\ archive \subseteq archive'
      /\ scan' \in [pc : {"idle", "import"}, head : 0 .. Latest,
                    base : Known \cup {Mark}, val : Known, live : BOOLEAN,
                    current : BOOLEAN, timer : BOOLEAN]
  <2>1. CASE ToImport /\ Listed(TRUE) BY <2>1, ListedKeeps
  <2>2. CASE UNCHANGED <<pending, archive, scan>>
    BY <2>2 DEF Inv, TypeOK, TypeCopy, TypeActors
  <2> QED BY <2>1, <2>2 DEF TimerScan
<1>1. TypeAuthority'
  BY <1>a DEF Inv, TypeOK, TypeAuthority
<1>2. TypeCopy'
  <2>1. pending' \in Seq(Rows(Known'))
    BY <1>a, <1>c
  <2>2. archive' \in SUBSET Drafts
    BY <1>a, <1>c
  <2> QED BY <1>a, <1>c, Facts, <2>1, <2>2 DEF Inv, TypeOK, TypeCopy
<1>3. TypeActors'
  <2>1. scan' \in [pc : {"idle", "import"}, head : 0 .. Latest',
                   base : Known' \cup {Mark}, val : Known', live : BOOLEAN,
                   current : BOOLEAN, timer : BOOLEAN]
    BY <1>a, <1>c
  <2> QED BY <1>a, <1>c, Facts, <2>1 DEF Inv, TypeOK, TypeActors
<1>4. TypeFlags'
  <2>1. due' \in BOOLEAN
    BY <1>a, Facts, <1>c DEF Inv, TypeOK, TypeFlags, TimerScan
  <2> QED BY <1>a, <1>c, Facts, <2>1 DEF Inv, TypeOK, TypeFlags
<1>5. RowOfTheHead'
  BY <1>a, Facts, <1>c DEF Inv, RowOfTheHead, BaseIsHead, LatestVal
<1>6. HoldOfTheRepair'
  BY <1>a, Facts, <1>c DEF Inv, HoldOfTheRepair, RepairKeepsItsHold
<1>7. OneMutation'
  BY <1>a, Facts, <1>c DEF OneMutation, TimerScan
<1>8. CoveredIsKept'
  BY <1>a, Facts, <1>c DEF Inv, CoveredIsKept, Preserved
<1> QED BY <1>1, <1>2, <1>3, <1>4, <1>5, <1>6, <1>7, <1>8 DEF Inv, TypeOK

(* A scan that brings nothing new leaves the accepted history alone.        *)
LEMMA ScanUnchangedStep ==
  ASSUME Inv, ScanUnchanged
  PROVE  Inv'
<1>a. /\ UNCHANGED <<accepted, generation, record, lock, archive, mutation,
                     readable, made, up, held, requested, approved, skip,
                     draining, manual, counts>>
      /\ Known' = Known /\ Latest' = Latest
  BY DEF ScanUnchanged, ScanOver, seafile, process, outside, Known, Latest
<1>1. TypeAuthority'
  BY <1>a DEF Inv, TypeOK, TypeAuthority
<1>2. TypeCopy'
  <2>1. pending' \in Seq(Rows(Known'))
    BY <1>a, Facts, RowsTyped DEF Inv, TypeOK, TypeCopy, ScanUnchanged
  <2>2. entry' \in [hash : Known' \cup {Mark}, fresh : BOOLEAN]
    BY <1>a, Facts DEF Inv, TypeOK, TypeCopy, TypeActors, ScanUnchanged
  <2> QED BY <1>a, Facts, <2>1, <2>2 DEF Inv, TypeOK, TypeCopy
<1>3. TypeActors'
  <2>1. scan' \in [pc : {"idle", "import"}, head : 0 .. Latest',
                   base : Known' \cup {Mark}, val : Known', live : BOOLEAN,
                   current : BOOLEAN, timer : BOOLEAN]
    BY <1>a, Facts DEF ScanUnchanged, ScanOver, NoScan
  <2>2. job' \in [pc : JobSteps, target : 0 .. Latest', repair : BOOLEAN, current : BOOLEAN]
    BY <1>a, Facts DEF Inv, TypeOK, TypeActors, JobSteps, ScanUnchanged, ScanOver
  <2>3. route' \in [pc : RouteSteps, job : BOOLEAN, scan : BOOLEAN]
    BY <1>a, Facts DEF Inv, TypeOK, TypeActors, ScanUnchanged, ScanOver
  <2> QED BY <1>a, Facts, <2>1, <2>2, <2>3 DEF Inv, TypeOK, TypeActors
<1>4. TypeFlags'
  <2>1. due' \in BOOLEAN
    BY <1>a, Facts DEF ScanUnchanged
  <2> QED BY <1>a, Facts, <2>1 DEF Inv, TypeOK, TypeFlags
<1>5. RowOfTheHead'
  BY <1>a, Facts DEF Inv, RowOfTheHead, BaseIsHead, LatestVal, ScanUnchanged, ScanOver
<1>6. HoldOfTheRepair'
  BY <1>a, Facts DEF Inv, HoldOfTheRepair, RepairKeepsItsHold, ScanUnchanged, ScanOver
<1>7. OneMutation'
  BY <1>a, Facts DEF Inv, OneMutation, ScanUnchanged, ScanOver
<1>8. CoveredIsKept'
  BY <1>a, Facts DEF Inv, CoveredIsKept, Preserved, ScanUnchanged, ScanOver
<1> QED BY <1>1, <1>2, <1>3, <1>4, <1>5, <1>6, <1>7, <1>8 DEF Inv, TypeOK

(* A refused scan changes no content.                                       *)
LEMMA ScanRefusedStep ==
  ASSUME Inv, ScanRefused
  PROVE  Inv'
<1>a. /\ UNCHANGED <<accepted, generation, record, lock, entry, archive,
                     mutation, due, readable, made, up, held, requested,
                     approved, skip, draining, manual, counts>>
      /\ Known' = Known /\ Latest' = Latest
  BY DEF ScanRefused, ScanOver, seafile, process, outside, Known, Latest
<1>1. TypeAuthority'
  BY <1>a DEF Inv, TypeOK, TypeAuthority
<1>2. TypeCopy'
  <2>1. pending' \in Seq(Rows(Known'))
    BY <1>a, Facts, RowsTyped DEF Inv, TypeOK, TypeCopy, ScanRefused
  <2> QED BY <1>a, Facts, <2>1 DEF Inv, TypeOK, TypeCopy
<1>3. TypeActors'
  <2>1. scan' \in [pc : {"idle", "import"}, head : 0 .. Latest',
                   base : Known' \cup {Mark}, val : Known', live : BOOLEAN,
                   current : BOOLEAN, timer : BOOLEAN]
    BY <1>a, Facts DEF ScanRefused, ScanOver, NoScan
  <2>2. job' \in [pc : JobSteps, target : 0 .. Latest', repair : BOOLEAN, current : BOOLEAN]
    BY <1>a, Facts DEF Inv, TypeOK, TypeActors, JobSteps, ScanRefused, ScanOver
  <2>3. route' \in [pc : RouteSteps, job : BOOLEAN, scan : BOOLEAN]
    BY <1>a, Facts DEF Inv, TypeOK, TypeActors, ScanRefused, ScanOver
  <2> QED BY <1>a, Facts, <2>1, <2>2, <2>3 DEF Inv, TypeOK, TypeActors
<1>4. TypeFlags'
  BY <1>a DEF Inv, TypeOK, TypeFlags
<1>5. RowOfTheHead'
  BY <1>a, Facts DEF Inv, RowOfTheHead, BaseIsHead, LatestVal, ScanRefused, ScanOver
<1>6. HoldOfTheRepair'
  BY <1>a, Facts DEF Inv, HoldOfTheRepair, RepairKeepsItsHold, ScanRefused, ScanOver
<1>7. OneMutation'
  BY <1>a, Facts DEF Inv, OneMutation, ScanRefused, ScanOver
<1>8. CoveredIsKept'
  BY <1>a, Facts DEF Inv, CoveredIsKept, Preserved, ScanRefused, ScanOver
<1> QED BY <1>1, <1>2, <1>3, <1>4, <1>5, <1>6, <1>7, <1>8 DEF Inv, TypeOK

(* An import moves the head: what a job verified is no longer current.      *)
LEMMA ScanImportsStep ==
  ASSUME Inv, ScanImports
  PROVE  Inv'
<1>a. /\ UNCHANGED <<generation, record, lock, archive, mutation, readable,
                     made, up, held, requested, approved, skip, draining,
                     manual, counts>>
      /\ Known' = Known
  BY DEF ScanImports, ScanOver, seafile, process, outside, Known
<1>b. /\ accepted' = Append(accepted, Merged) /\ accepted' \in Seq(Known')
      /\ Latest' = Latest + 1 /\ LatestVal' = Merged /\ Merged \in Known'
      /\ \A s \in 1 .. Latest : accepted'[s] = accepted[s]
      /\ Range(accepted') = Range(accepted) \cup {Merged}
  <2>1. Merged \in Known
    <3>1. scan.val \in Known /\ accepted[scan.head] \in Known
      BY Facts DEF Inv, TypeOK, TypeActors, ScanImports
    <3> QED BY <3>1 DEF Merged, Merge, Known
  <2>2. accepted \in Seq(Known) BY DEF Inv, TypeOK, TypeAuthority
  <2>3. accepted' = Append(accepted, Merged) BY DEF ScanImports
  <2> QED BY <1>a, <2>1, <2>2, <2>3, Appended DEF Latest, LatestVal
<1>1. TypeAuthority'
  <2>1. generation' \in 0 .. Latest'
    BY <1>a, Facts, <1>b DEF Inv, TypeOK, TypeAuthority
  <2>2. record' \in Intents \cup {None}
    BY <1>a, Facts, <1>b DEF Inv, HoldOfTheRepair, RepairKeepsItsHold, ScanImports
  <2> QED BY <1>a, <1>b, Facts, <2>1, <2>2 DEF Inv, TypeOK, TypeAuthority
<1>2. TypeCopy'
  <2>1. pending' \in Seq(Rows(Known'))
    BY <1>a, Facts, RowsTyped, <1>b DEF Inv, TypeOK, TypeCopy, ScanImports
  <2>2. entry' \in [hash : Known' \cup {Mark}, fresh : BOOLEAN]
    BY <1>a, Facts, <1>b DEF Inv, TypeOK, TypeCopy, TypeActors, ScanImports
  <2> QED BY <1>a, <1>b, Facts, <2>1, <2>2 DEF Inv, TypeOK, TypeCopy
<1>3. TypeActors'
  <2>1. scan' \in [pc : {"idle", "import"}, head : 0 .. Latest',
                   base : Known' \cup {Mark}, val : Known', live : BOOLEAN,
                   current : BOOLEAN, timer : BOOLEAN]
    BY <1>a, Facts, <1>b DEF ScanImports, ScanOver, NoScan
  <2>2. job' \in [pc : JobSteps, target : 0 .. Latest', repair : BOOLEAN, current : BOOLEAN]
      <3>1. job \in [pc : JobSteps, target : 0 .. Latest', repair : BOOLEAN,
                     current : BOOLEAN]
        BY <1>b, Facts DEF Inv, TypeOK, TypeActors
      <3>2. job' = job \/ job' = [job EXCEPT !.pc = "read"]
        BY DEF ScanImports, ScanOver
      <3> QED BY <3>1, <3>2 DEF JobSteps
  <2>3. route' \in [pc : RouteSteps, job : BOOLEAN, scan : BOOLEAN]
    BY <1>a, Facts, <1>b DEF Inv, TypeOK, TypeActors, ScanImports, ScanOver
  <2> QED BY <1>a, <1>b, Facts, <2>1, <2>2, <2>3 DEF Inv, TypeOK, TypeActors
<1>4. TypeFlags'
  <2>1. due' \in BOOLEAN
    BY <1>a, Facts, <1>b DEF ScanImports
  <2> QED BY <1>a, <1>b, Facts, <2>1 DEF Inv, TypeOK, TypeFlags
<1>5. RowOfTheHead'
  BY <1>a, Facts, <1>b
     DEF Inv, TypeOK, TypeAuthority, TypeActors, RowOfTheHead, BaseIsHead, ScanImports, ScanOver
<1>6. HoldOfTheRepair'
  BY <1>a, Facts, <1>b
     DEF Inv, TypeOK, TypeActors, HoldOfTheRepair, RepairKeepsItsHold, ScanImports, ScanOver
<1>7. OneMutation'
  BY <1>a, Facts, <1>b DEF Inv, OneMutation, ScanImports, ScanOver
<1>8. CoveredIsKept'
  BY <1>a, Facts, <1>b DEF Inv, CoveredIsKept, Preserved, ScanImports, ScanOver
<1> QED BY <1>1, <1>2, <1>3, <1>4, <1>5, <1>6, <1>7, <1>8 DEF Inv, TypeOK

(* A scan that cannot merge ends and leaves its rows unread.                *)
LEMMA ScanThrowsStep ==
  ASSUME Inv, ScanThrows
  PROVE  Inv'
<1>a. /\ UNCHANGED <<accepted, generation, record, lock, entry, archive,
                     mutation, due, readable, made, up, held, requested,
                     approved, skip, draining, manual, counts>>
      /\ Known' = Known /\ Latest' = Latest
  BY DEF ScanThrows, ScanEndsBadly, ScanOver, seafile, process, Known, Latest
<1>1. TypeAuthority'
  BY <1>a DEF Inv, TypeOK, TypeAuthority
<1>2. TypeCopy'
  <2>1. pending' \in Seq(Rows(Known'))
    BY <1>a, Facts, RowsTyped DEF Inv, TypeOK, TypeCopy, ScanThrows, ScanEndsBadly
  <2> QED BY <1>a, Facts, <2>1 DEF Inv, TypeOK, TypeCopy
<1>3. TypeActors'
  <2>1. scan' \in [pc : {"idle", "import"}, head : 0 .. Latest',
                   base : Known' \cup {Mark}, val : Known', live : BOOLEAN,
                   current : BOOLEAN, timer : BOOLEAN]
    BY <1>a, Facts DEF ScanThrows, ScanEndsBadly, ScanOver, NoScan
  <2>2. job' \in [pc : JobSteps, target : 0 .. Latest', repair : BOOLEAN, current : BOOLEAN]
    BY <1>a, Facts DEF Inv, TypeOK, TypeActors, JobSteps, ScanThrows, ScanEndsBadly, ScanOver
  <2>3. route' \in [pc : RouteSteps, job : BOOLEAN, scan : BOOLEAN]
    BY <1>a, Facts DEF Inv, TypeOK, TypeActors, ScanThrows, ScanEndsBadly, ScanOver
  <2> QED BY <1>a, Facts, <2>1, <2>2, <2>3 DEF Inv, TypeOK, TypeActors
<1>4. TypeFlags'
  BY <1>a DEF Inv, TypeOK, TypeFlags
<1>5. RowOfTheHead'
  BY <1>a, Facts DEF Inv, RowOfTheHead, BaseIsHead, LatestVal, ScanThrows, ScanEndsBadly, ScanOver
<1>6. HoldOfTheRepair'
  BY <1>a, Facts DEF Inv, HoldOfTheRepair, RepairKeepsItsHold, ScanThrows, ScanEndsBadly, ScanOver
<1>7. OneMutation'
  BY <1>a, Facts DEF Inv, OneMutation, ScanThrows, ScanEndsBadly, ScanOver
<1>8. CoveredIsKept'
  BY <1>a, Facts DEF Inv, CoveredIsKept, Preserved, ScanThrows, ScanEndsBadly, ScanOver
<1> QED BY <1>1, <1>2, <1>3, <1>4, <1>5, <1>6, <1>7, <1>8 DEF Inv, TypeOK

(* A failed scan leaves its rows unread.                                    *)
LEMMA ScanFailsStep ==
  ASSUME Inv, ScanFails
  PROVE  Inv'
<1>a. /\ UNCHANGED <<accepted, generation, record, lock, entry, archive,
                     mutation, due, readable, made, up, held, requested,
                     approved, skip, draining, manual>>
      /\ Known' = Known /\ Latest' = Latest
  BY DEF ScanFails, ScanEndsBadly, ScanOver, seafile, process, Known, Latest
<1>1. TypeAuthority'
  BY <1>a DEF Inv, TypeOK, TypeAuthority
<1>2. TypeCopy'
  <2>1. pending' \in Seq(Rows(Known'))
    BY <1>a, Facts, RowsTyped DEF Inv, TypeOK, TypeCopy, ScanFails, ScanEndsBadly
  <2> QED BY <1>a, Facts, <2>1 DEF Inv, TypeOK, TypeCopy
<1>3. TypeActors'
  <2>1. scan' \in [pc : {"idle", "import"}, head : 0 .. Latest',
                   base : Known' \cup {Mark}, val : Known', live : BOOLEAN,
                   current : BOOLEAN, timer : BOOLEAN]
    BY <1>a, Facts DEF ScanFails, ScanEndsBadly, ScanOver, NoScan
  <2>2. job' \in [pc : JobSteps, target : 0 .. Latest', repair : BOOLEAN, current : BOOLEAN]
    BY <1>a, Facts DEF Inv, TypeOK, TypeActors, JobSteps, ScanFails, ScanEndsBadly, ScanOver
  <2>3. route' \in [pc : RouteSteps, job : BOOLEAN, scan : BOOLEAN]
    BY <1>a, Facts DEF Inv, TypeOK, TypeActors, ScanFails, ScanEndsBadly, ScanOver
  <2> QED BY <1>a, Facts, <2>1, <2>2, <2>3 DEF Inv, TypeOK, TypeActors
<1>4. TypeFlags'
  <2>1. counts' \in [repairs : Nat, locks : Nat, faults : Nat]
    BY <1>a, Facts DEF Inv, TypeOK, TypeFlags, ScanFails
  <2> QED BY <1>a, Facts, <2>1 DEF Inv, TypeOK, TypeFlags
<1>5. RowOfTheHead'
  BY <1>a, Facts DEF Inv, RowOfTheHead, BaseIsHead, LatestVal, ScanFails, ScanEndsBadly, ScanOver
<1>6. HoldOfTheRepair'
  BY <1>a, Facts DEF Inv, HoldOfTheRepair, RepairKeepsItsHold, ScanFails, ScanEndsBadly, ScanOver
<1>7. OneMutation'
  BY <1>a, Facts DEF Inv, OneMutation, ScanFails, ScanEndsBadly, ScanOver
<1>8. CoveredIsKept'
  BY <1>a, Facts DEF Inv, CoveredIsKept, Preserved, ScanFails, ScanEndsBadly, ScanOver
<1> QED BY <1>1, <1>2, <1>3, <1>4, <1>5, <1>6, <1>7, <1>8 DEF Inv, TypeOK

(* A claimed job starts at the recovery of the journal.                     *)
LEMMA JobStartStep ==
  ASSUME Inv, JobStart
  PROVE  Inv'
<1>a. /\ UNCHANGED <<accepted, generation, record, lock, entry, pending,
                     archive, mutation, readable, made, up, held, requested,
                     approved, skip, draining, scan, route, manual, counts>>
      /\ Known' = Known /\ Latest' = Latest
  BY DEF JobStart, seafile, process, outside, Known, Latest
<1>1. TypeAuthority'
  BY <1>a DEF Inv, TypeOK, TypeAuthority
<1>2. TypeCopy'
  BY <1>a DEF Inv, TypeOK, TypeCopy
<1>3. TypeActors'
  <2>1. job' \in [pc : JobSteps, target : 0 .. Latest', repair : BOOLEAN, current : BOOLEAN]
    BY <1>a, Facts, ClaimedType DEF JobStart
  <2> QED BY <1>a, Facts, <2>1 DEF Inv, TypeOK, TypeActors
<1>4. TypeFlags'
  <2>1. due' \in BOOLEAN
    BY <1>a, Facts DEF JobStart
  <2> QED BY <1>a, Facts, <2>1 DEF Inv, TypeOK, TypeFlags
<1>5. RowOfTheHead'
  BY <1>a, Facts DEF Inv, RowOfTheHead, BaseIsHead, LatestVal, JobStart, Claimed
<1>6. HoldOfTheRepair'
  BY <1>a, Facts DEF Inv, HoldOfTheRepair, RepairKeepsItsHold
<1>7. OneMutation'
  BY <1>a, Facts DEF OneMutation, JobStart, Claimed
<1>8. CoveredIsKept'
  BY <1>a, Facts DEF Inv, CoveredIsKept, Preserved, JobStart, Claimed
<1> QED BY <1>1, <1>2, <1>3, <1>4, <1>5, <1>6, <1>7, <1>8 DEF Inv, TypeOK

(* The job finishes what the journal holds and takes over a saved repair.   *)
LEMMA JobRecoverStep ==
  ASSUME Inv, JobRecover
  PROVE  Inv'
<1>a. /\ UNCHANGED <<accepted, generation, entry, due, readable, made, up,
                     requested, draining, scan, route, manual, counts>>
      /\ Known' = Known /\ Latest' = Latest
  BY DEF JobRecover, seafile, outside, Known, Latest
<1>c. /\ pending' \in Seq(Rows(Known)) /\ archive' \in SUBSET Drafts
      /\ archive \subseteq archive' /\ mutation' = None
      /\ mutation' = None /\ mutation # None
             => (UNION Range(mutation.since)) \cap Drafts \subseteq archive'
  BY CaptureKeeps DEF JobRecover
<1>d. Holding(Recovered) BY DEF JobRecover
<1>e. record' = Recovered BY <1>d DEF Holding
<1>1. TypeAuthority'
  <2>1. record' \in Intents \cup {None}
    BY <1>d, HoldingKeeps, <1>c, <1>d DEF TypeAuthority
  <2>2. lock' \in {None, Owner, Repair}
    BY <1>d, HoldingKeeps, <1>c, <1>d DEF TypeAuthority
  <2> QED BY <1>a, <1>c, <1>d, Facts, <2>1, <2>2 DEF Inv, TypeOK, TypeAuthority
<1>2. TypeCopy'
  <2>1. pending' \in Seq(Rows(Known'))
    BY <1>a, <1>c, <1>d
  <2>2. archive' \in SUBSET Drafts
    BY <1>a, <1>c, <1>d
  <2>3. mutation' \in Mutations(Known') \cup {None}
    BY <1>a, <1>c, <1>d DEF Inv, TypeOK, TypeCopy
  <2> QED BY <1>a, <1>c, <1>d, Facts, <2>1, <2>2, <2>3 DEF Inv, TypeOK, TypeCopy
<1>3. TypeActors'
  <2>1. job' \in [pc : JobSteps, target : 0 .. Latest', repair : BOOLEAN, current : BOOLEAN]
    BY <1>a, <1>d, Facts, <1>c, <1>d DEF Inv, TypeOK, TypeActors, JobSteps, JobRecover
  <2> QED BY <1>a, <1>c, <1>d, Facts, <2>1 DEF Inv, TypeOK, TypeActors
<1>4. TypeFlags'
  <2>1. held' \in BOOLEAN
    BY <1>a, Facts, <1>c, <1>d DEF Inv, TypeOK, TypeFlags, JobRecover, At
  <2>2. approved' \in BOOLEAN
    BY <1>a, Facts, <1>c, <1>d DEF Inv, TypeOK, TypeFlags, JobRecover, At
  <2>3. skip' \in BOOLEAN
    BY <1>a, Facts, <1>c, <1>d DEF Inv, TypeOK, TypeFlags, JobRecover, At
  <2> QED BY <1>a, <1>c, <1>d, Facts, <2>1, <2>2, <2>3 DEF Inv, TypeOK, TypeFlags
<1>5. RowOfTheHead'
  BY <1>a, Facts, <1>c, <1>d DEF Inv, RowOfTheHead, BaseIsHead, LatestVal, JobRecover
<1>6. HoldOfTheRepair'
  <2>1. (held => held') /\ (record' # None => held')
    BY <1>e, Zenon DEF JobRecover
  <2> QED BY <1>a, <1>d, <1>e, <2>1, HoldingKeeps
          DEF Inv, HoldOfTheRepair, RepairKeepsItsHold
<1>7. OneMutation'
  BY <1>a, Facts, <1>c, <1>d DEF OneMutation, JobRecover
<1>8. CoveredIsKept'
  BY <1>a, <1>c, PreservedStays DEF Inv, TypeOK, TypeCopy, CoveredIsKept, JobRecover
<1> QED BY <1>1, <1>2, <1>3, <1>4, <1>5, <1>6, <1>7, <1>8 DEF Inv, TypeOK

(* The job imports first, unless the vault is held.                         *)
LEMMA JobIngestStep ==
  ASSUME Inv, JobIngest
  PROVE  Inv'
<1>a. /\ UNCHANGED <<accepted, generation, record, lock, entry, mutation, due,
                     readable, made, up, held, requested, approved, skip,
                     draining, route, manual, counts>>
      /\ Known' = Known /\ Latest' = Latest
  BY DEF JobIngest, seafile, process, outside, Known, Latest
<1>c. /\ pending' \in Seq(Rows(Known)) /\ archive' \in SUBSET Drafts
      /\ archive \subseteq archive'
      /\ scan' \in [pc : {"idle", "import"}, head : 0 .. Latest,
                    base : Known \cup {Mark}, val : Known, live : BOOLEAN,
                    current : BOOLEAN, timer : BOOLEAN]
  <2>1. CASE ToImport /\ Listed(FALSE) BY <2>1, ListedKeeps
  <2>2. CASE UNCHANGED <<pending, archive, scan>>
    BY <2>2 DEF Inv, TypeOK, TypeCopy, TypeActors
  <2> QED BY <2>1, <2>2 DEF JobIngest
<1>1. TypeAuthority'
  BY <1>a DEF Inv, TypeOK, TypeAuthority
<1>2. TypeCopy'
  <2>1. pending' \in Seq(Rows(Known'))
    BY <1>a, <1>c
  <2>2. archive' \in SUBSET Drafts
    BY <1>a, <1>c
  <2> QED BY <1>a, <1>c, Facts, <2>1, <2>2 DEF Inv, TypeOK, TypeCopy
<1>3. TypeActors'
  <2>1. job' \in [pc : JobSteps, target : 0 .. Latest', repair : BOOLEAN, current : BOOLEAN]
    BY <1>a, Facts, <1>c DEF Inv, TypeOK, TypeActors, JobSteps, JobIngest, At, Goto
  <2>2. scan' \in [pc : {"idle", "import"}, head : 0 .. Latest',
                   base : Known' \cup {Mark}, val : Known', live : BOOLEAN,
                   current : BOOLEAN, timer : BOOLEAN]
    BY <1>a, <1>c
  <2> QED BY <1>a, <1>c, Facts, <2>1, <2>2 DEF Inv, TypeOK, TypeActors
<1>4. TypeFlags'
  BY <1>a DEF Inv, TypeOK, TypeFlags
<1>5. RowOfTheHead'
  BY <1>a, Facts, <1>c
     DEF Inv, TypeOK, TypeActors, RowOfTheHead, BaseIsHead, LatestVal, JobIngest, Goto
<1>6. HoldOfTheRepair'
  BY <1>a, Facts, <1>c DEF Inv, HoldOfTheRepair, RepairKeepsItsHold
<1>7. OneMutation'
  BY <1>a, Facts, <1>c DEF Inv, TypeOK, TypeActors, OneMutation, JobIngest, At, Goto
<1>8. CoveredIsKept'
  BY <1>a, Facts, <1>c DEF Inv, TypeOK, TypeActors, CoveredIsKept, Preserved, JobIngest, Goto
<1> QED BY <1>1, <1>2, <1>3, <1>4, <1>5, <1>6, <1>7, <1>8 DEF Inv, TypeOK

(* The job reads the head it will project.                                  *)
LEMMA JobReadStep ==
  ASSUME Inv, JobRead
  PROVE  Inv'
<1>a. /\ UNCHANGED <<accepted, generation, record, lock, entry, pending,
                     archive, mutation, readable, made, up, held, requested,
                     approved, skip, draining, scan, route, manual, counts>>
      /\ Known' = Known /\ Latest' = Latest
  BY DEF JobRead, seafile, process, outside, Known, Latest
<1>c. /\ job' \in [pc : JobSteps, target : 0 .. Latest, repair : BOOLEAN,
                   current : BOOLEAN]
      /\ job'.pc \in {"done", "plan"}
  <2>1. job \in [pc : JobSteps, target : 0 .. Latest, repair : BOOLEAN,
                 current : BOOLEAN]
    BY DEF Inv, TypeOK, TypeActors
  <2>2. CASE job' = [job EXCEPT !.pc = "done"] BY <2>1, <2>2 DEF JobSteps
  <2>3. CASE job' = [job EXCEPT !.pc = "plan", !.target = Latest,
                                !.current = (generation = Latest)]
    <3> DEFINE c == generation = Latest
    <3>1. c \in BOOLEAN OBVIOUS
    <3>2. Latest \in 0 .. Latest BY Facts
    <3> HIDE DEF c
    <3>3. job' = [job EXCEPT !.pc = "plan", !.target = Latest, !.current = c]
      BY <2>3 DEF c
    <3> QED BY <2>1, <3>1, <3>2, <3>3 DEF JobSteps
  <2> QED BY <2>2, <2>3, Zenon DEF JobRead, Goto
<1>1. TypeAuthority'
  BY <1>a DEF Inv, TypeOK, TypeAuthority
<1>2. TypeCopy'
  BY <1>a DEF Inv, TypeOK, TypeCopy
<1>3. TypeActors'
  <2>1. job' \in [pc : JobSteps, target : 0 .. Latest', repair : BOOLEAN, current : BOOLEAN]
    BY <1>a, <1>c
  <2> QED BY <1>a, <1>c, Facts, <2>1 DEF Inv, TypeOK, TypeActors
<1>4. TypeFlags'
  <2>1. due' \in BOOLEAN
    BY <1>a, Facts, <1>c DEF Inv, TypeOK, TypeFlags, JobRead, At
  <2> QED BY <1>a, <1>c, Facts, <2>1 DEF Inv, TypeOK, TypeFlags
<1>5. RowOfTheHead'
  BY <1>a, <1>c, Facts DEF Inv, RowOfTheHead, BaseIsHead, LatestVal
<1>6. HoldOfTheRepair'
  BY <1>a, Facts, <1>c DEF Inv, HoldOfTheRepair, RepairKeepsItsHold
<1>7. OneMutation'
  BY <1>a, <1>c, Facts DEF Inv, JobRead, At, OneMutation
<1>8. CoveredIsKept'
  BY <1>a, <1>c, Facts DEF Inv, JobRead, At, CoveredIsKept, Preserved
<1> QED BY <1>1, <1>2, <1>3, <1>4, <1>5, <1>6, <1>7, <1>8 DEF Inv, TypeOK

(* A copy that is current ends the repair of that head.                     *)
LEMMA JobCurrentStep ==
  ASSUME Inv, JobCurrent
  PROVE  Inv'
<1>a. /\ UNCHANGED <<accepted, generation, entry, pending, archive, mutation,
                     due, readable, made, up, requested, approved, skip,
                     draining, scan, route, manual, counts>>
      /\ Known' = Known /\ Latest' = Latest
  BY DEF JobCurrent, seafile, outside, Known, Latest
<1>1. TypeAuthority'
  <2>1. record' \in Intents \cup {None}
    BY <1>a, Facts DEF Inv, TypeOK, TypeAuthority, JobCurrent, EndRepair, Finish
  <2>2. lock' \in {None, Owner, Repair}
    BY <1>a, Facts
       DEF Inv, TypeOK, TypeAuthority, HoldOfTheRepair, RepairKeepsItsHold, JobCurrent,
           EndRepair, Finish
  <2> QED BY <1>a, Facts, <2>1, <2>2 DEF Inv, TypeOK, TypeAuthority
<1>2. TypeCopy'
  BY <1>a DEF Inv, TypeOK, TypeCopy
<1>3. TypeActors'
  <2>1. job' \in [pc : JobSteps, target : 0 .. Latest', repair : BOOLEAN, current : BOOLEAN]
    BY <1>a, Facts DEF Inv, TypeOK, TypeActors, JobSteps, JobCurrent, Goto
  <2> QED BY <1>a, Facts, <2>1 DEF Inv, TypeOK, TypeActors
<1>4. TypeFlags'
  <2>1. held' \in BOOLEAN
    BY <1>a, Facts DEF Inv, TypeOK, TypeFlags, JobCurrent, EndRepair
  <2> QED BY <1>a, Facts, <2>1 DEF Inv, TypeOK, TypeFlags
<1>5. RowOfTheHead'
  BY <1>a, Facts DEF Inv, RowOfTheHead, BaseIsHead, LatestVal, JobCurrent, Goto
<1>6. HoldOfTheRepair'
  BY <1>a, Facts
     DEF Inv, TypeOK, TypeFlags, HoldOfTheRepair, RepairKeepsItsHold, JobCurrent, EndRepair,
         Finish, Finishes
<1>7. OneMutation'
  BY <1>a, Facts DEF OneMutation, JobCurrent, Goto
<1>8. CoveredIsKept'
  BY <1>a, Facts DEF Inv, CoveredIsKept, Preserved, JobCurrent, Goto
<1> QED BY <1>1, <1>2, <1>3, <1>4, <1>5, <1>6, <1>7, <1>8 DEF Inv, TypeOK

(* A copy that shows the target gets the target's row.                      *)
LEMMA JobShownStep ==
  ASSUME Inv, JobShown
  PROVE  Inv'
<1>a. /\ UNCHANGED <<accepted, generation, record, lock, pending, archive,
                     mutation, due, readable, made, up, held, requested,
                     approved, skip, draining, scan, route, manual, counts>>
      /\ Known' = Known /\ Latest' = Latest
  BY DEF JobShown, seafile, process, outside, Known, Latest
<1>1. TypeAuthority'
  BY <1>a DEF Inv, TypeOK, TypeAuthority
<1>2. TypeCopy'
  <2>1. entry' \in [hash : Known' \cup {Mark}, fresh : BOOLEAN]
    BY <1>a, Facts DEF Inv, TypeOK, TypeCopy, JobShown
  <2> QED BY <1>a, Facts, <2>1 DEF Inv, TypeOK, TypeCopy
<1>3. TypeActors'
  <2>1. job' \in [pc : JobSteps, target : 0 .. Latest', repair : BOOLEAN, current : BOOLEAN]
    BY <1>a, Facts DEF Inv, TypeOK, TypeActors, JobSteps, JobShown, Goto
  <2> QED BY <1>a, Facts, <2>1 DEF Inv, TypeOK, TypeActors
<1>4. TypeFlags'
  BY <1>a DEF Inv, TypeOK, TypeFlags
<1>5. RowOfTheHead'
  BY <1>a, Facts DEF RowOfTheHead, BaseIsHead, LatestVal, JobShown, MayContinue, Target
<1>6. HoldOfTheRepair'
  BY <1>a, Facts DEF Inv, HoldOfTheRepair, RepairKeepsItsHold, JobShown, MayContinue, Target
<1>7. OneMutation'
  BY <1>a, Facts DEF OneMutation, JobShown, Goto
<1>8. CoveredIsKept'
  BY <1>a, Facts DEF Inv, CoveredIsKept, Preserved, JobShown, Goto
<1> QED BY <1>1, <1>2, <1>3, <1>4, <1>5, <1>6, <1>7, <1>8 DEF Inv, TypeOK

(* What is visible is in the archive before the write over it is prepared.  *)
LEMMA JobPrepareStep ==
  ASSUME Inv, JobPrepare
  PROVE  Inv'
<1>a. /\ UNCHANGED <<accepted, generation, record, lock, entry, due, readable,
                     made, up, held, requested, approved, skip, draining, scan,
                     route, manual, counts>>
      /\ Known' = Known /\ Latest' = Latest
  BY DEF JobPrepare, seafile, process, outside, Known, Latest
<1>c. /\ archive' \in SUBSET Drafts /\ archive \subseteq archive'
      /\ readable \cap Drafts \subseteq archive'
      /\ \/ /\ mutation' \in Mutations(Known) /\ mutation' # None
            /\ job' = [job EXCEPT !.pc = "put"] /\ pending' = pending
         \/ /\ mutation' = mutation /\ job' = [job EXCEPT !.pc = "retry"]
            /\ pending' \in Seq(Rows(Known))
  <2> DEFINE expected == IF approved THEN readable ELSE entry.hash
  <2>1. /\ readable \in Known /\ archive \in SUBSET Drafts /\ Target \in Known
        /\ entry.hash \in Known \cup {Mark} /\ pending \in Seq(Rows(Known))
    BY Facts DEF Inv, TypeOK, TypeCopy, JobPrepare, MayContinue, Target
  <2>2. archive' = archive \cup (readable \cap Drafts)
    BY DEF JobPrepare, Drawn
  <2>3. expected \in Known \cup {Mark} BY <2>1
  <2>4. Observe(pending, readable, FALSE) \in Seq(Rows(Known)) BY <2>1, RowsTyped
  <2> DEFINE m == [expected |-> expected, target |-> Target, since |-> <<>>]
  <2>5. m \in Mutations(Known) /\ m # None
    <3>1. m \in Mutations(Known) BY <2>1, <2>3 DEF Mutations
    <3> QED BY <3>1, Facts
  <2>6. \/ mutation' = m /\ job' = [job EXCEPT !.pc = "put"] /\ pending' = pending
        \/ /\ mutation' = mutation /\ job' = [job EXCEPT !.pc = "retry"]
           /\ pending' = Observe(pending, readable, FALSE)
    BY Zenon DEF JobPrepare, Goto
  <2> QED BY <2>1, <2>2, <2>4, <2>5, <2>6
<1>1. TypeAuthority'
  BY <1>a DEF Inv, TypeOK, TypeAuthority
<1>2. TypeCopy'
  <2>1. archive' \in SUBSET Drafts
    BY <1>a, <1>c DEF Inv, TypeOK, TypeCopy
  <2>2. mutation' \in Mutations(Known') \cup {None}
    BY <1>a, <1>c DEF Inv, TypeOK, TypeCopy
  <2>3. pending' \in Seq(Rows(Known'))
    BY <1>a, <1>c DEF Inv, TypeOK, TypeCopy
  <2> QED BY <1>a, <1>c, Facts, <2>1, <2>2, <2>3 DEF Inv, TypeOK, TypeCopy
<1>3. TypeActors'
  <2>1. job' \in [pc : JobSteps, target : 0 .. Latest', repair : BOOLEAN, current : BOOLEAN]
    BY <1>a, <1>c DEF Inv, TypeOK, TypeActors, JobSteps
  <2> QED BY <1>a, <1>c, Facts, <2>1 DEF Inv, TypeOK, TypeActors
<1>4. TypeFlags'
  BY <1>a DEF Inv, TypeOK, TypeFlags
<1>5. RowOfTheHead'
  BY <1>a, <1>c DEF Inv, TypeOK, TypeActors, RowOfTheHead, BaseIsHead, LatestVal
<1>6. HoldOfTheRepair'
  BY <1>a, Facts, <1>c DEF Inv, HoldOfTheRepair, RepairKeepsItsHold
<1>7. OneMutation'
  BY <1>a, <1>c DEF Inv, TypeOK, TypeActors, OneMutation
<1>8. CoveredIsKept'
  <2>1. mutation = None BY DEF Inv, OneMutation, JobPrepare, At
  <2>2. archive' \subseteq Preserved' BY DEF Preserved
  <2>3. Preserved \subseteq Preserved' BY <1>a, <1>c, <2>1 DEF Preserved
  <2> QED BY <1>a, <1>c, <2>2, <2>3 DEF Inv, CoveredIsKept
<1> QED BY <1>1, <1>2, <1>3, <1>4, <1>5, <1>6, <1>7, <1>8 DEF Inv, TypeOK

(* The write covers nothing that is not preserved.                          *)
LEMMA JobPutStep ==
  ASSUME Inv, JobPut
  PROVE  Inv'
<1>a. /\ UNCHANGED <<accepted, generation, record, lock, pending, archive,
                     mutation, due, made, up, held, requested, approved, skip,
                     draining, route, manual, counts>>
      /\ Known' = Known /\ Latest' = Latest
  BY DEF JobPut, process, outside, Known, Latest
<1>1. TypeAuthority'
  BY <1>a DEF Inv, TypeOK, TypeAuthority
<1>2. TypeCopy'
  <2>1. readable' \in Known'
    BY <1>a, Facts DEF JobPut, MayContinue, Target, Written
  <2>2. entry' \in [hash : Known' \cup {Mark}, fresh : BOOLEAN]
    BY <1>a, Facts DEF Inv, TypeOK, TypeCopy, JobPut
  <2> QED BY <1>a, Facts, <2>1, <2>2 DEF Inv, TypeOK, TypeCopy
<1>3. TypeActors'
  <2>1. scan' \in [pc : {"idle", "import"}, head : 0 .. Latest',
                   base : Known' \cup {Mark}, val : Known', live : BOOLEAN,
                   current : BOOLEAN, timer : BOOLEAN]
    BY <1>a, Facts DEF Inv, TypeOK, TypeActors, JobPut, Written
  <2>2. job' \in [pc : JobSteps, target : 0 .. Latest', repair : BOOLEAN, current : BOOLEAN]
    BY <1>a, Facts DEF Inv, TypeOK, TypeActors, JobSteps, JobPut, Goto
  <2> QED BY <1>a, Facts, <2>1, <2>2 DEF Inv, TypeOK, TypeActors
<1>4. TypeFlags'
  BY <1>a DEF Inv, TypeOK, TypeFlags
<1>5. RowOfTheHead'
  BY <1>a, Facts DEF Inv, RowOfTheHead, BaseIsHead, LatestVal, JobPut, Goto
<1>6. HoldOfTheRepair'
  BY <1>a, Facts DEF Inv, HoldOfTheRepair, RepairKeepsItsHold, JobPut
<1>7. OneMutation'
  BY <1>a, Facts DEF Inv, OneMutation, JobPut, At, Goto
<1>8. CoveredIsKept'
  BY <1>a, Facts DEF Inv, TypeOK, TypeCopy, CoveredIsKept, Preserved, JobPut, At, Goto
<1> QED BY <1>1, <1>2, <1>3, <1>4, <1>5, <1>6, <1>7, <1>8 DEF Inv, TypeOK

(* The finish keeps what was saved meanwhile and writes the row.            *)
LEMMA JobFinishStep ==
  ASSUME Inv, JobFinish
  PROVE  Inv'
<1>a. /\ UNCHANGED <<accepted, generation, record, lock, due, readable, made,
                     up, held, requested, approved, skip, draining, scan, route,
                     manual, counts>>
      /\ Known' = Known /\ Latest' = Latest
  BY DEF JobFinish, seafile, process, outside, Known, Latest
<1>c. /\ pending' \in Seq(Rows(Known)) /\ archive' \in SUBSET Drafts
      /\ archive \subseteq archive' /\ mutation' = None
      /\ mutation' = None /\ mutation # None
             => (UNION Range(mutation.since)) \cap Drafts \subseteq archive'
  BY CaptureKeeps DEF JobFinish
<1>1. TypeAuthority'
  BY <1>a DEF Inv, TypeOK, TypeAuthority
<1>2. TypeCopy'
  <2>1. pending' \in Seq(Rows(Known'))
    BY <1>a, <1>c
  <2>2. archive' \in SUBSET Drafts
    BY <1>a, <1>c
  <2>3. mutation' \in Mutations(Known') \cup {None}
    BY <1>a, <1>c DEF Inv, TypeOK, TypeCopy
  <2>4. entry' \in [hash : Known' \cup {Mark}, fresh : BOOLEAN]
    BY <1>a, Facts, <1>c DEF JobFinish, MayContinue, Target
  <2> QED BY <1>a, <1>c, Facts, <2>1, <2>2, <2>3, <2>4 DEF Inv, TypeOK, TypeCopy
<1>3. TypeActors'
  <2>1. job' \in [pc : JobSteps, target : 0 .. Latest', repair : BOOLEAN, current : BOOLEAN]
    BY <1>a, Facts, <1>c DEF Inv, TypeOK, TypeActors, JobSteps, JobFinish, Goto
  <2> QED BY <1>a, <1>c, Facts, <2>1 DEF Inv, TypeOK, TypeActors
<1>4. TypeFlags'
  BY <1>a DEF Inv, TypeOK, TypeFlags
<1>5. RowOfTheHead'
  BY <1>a, Facts, <1>c DEF RowOfTheHead, BaseIsHead, LatestVal, JobFinish, MayContinue, Target
<1>6. HoldOfTheRepair'
  BY <1>a, Facts, <1>c DEF Inv, HoldOfTheRepair, RepairKeepsItsHold, JobFinish, MayContinue, Target
<1>7. OneMutation'
  BY <1>a, Facts, <1>c DEF OneMutation, JobFinish, Goto
<1>8. CoveredIsKept'
  BY <1>a, <1>c, PreservedStays DEF Inv, TypeOK, TypeCopy, CoveredIsKept, JobFinish, Goto
<1> QED BY <1>1, <1>2, <1>3, <1>4, <1>5, <1>6, <1>7, <1>8 DEF Inv, TypeOK

(* The copy is read once more before it is called current.                  *)
LEMMA JobVerifyStep ==
  ASSUME Inv, JobVerify
  PROVE  Inv'
<1>a. /\ UNCHANGED <<accepted, generation, record, lock, pending, archive,
                     mutation, due, readable, made, up, held, requested,
                     approved, skip, draining, scan, route, manual, counts>>
      /\ Known' = Known /\ Latest' = Latest
  BY DEF JobVerify, seafile, process, outside, Known, Latest
<1>1. TypeAuthority'
  BY <1>a DEF Inv, TypeOK, TypeAuthority
<1>2. TypeCopy'
  <2>1. entry' \in [hash : Known' \cup {Mark}, fresh : BOOLEAN]
      <3>1. entry \in [hash : Known \cup {Mark}, fresh : BOOLEAN]
        BY DEF Inv, TypeOK, TypeCopy
      <3>2. [entry EXCEPT !.fresh = TRUE] \in [hash : Known \cup {Mark}, fresh : BOOLEAN]
        BY <3>1
      <3>3. entry' = entry \/ entry' = [entry EXCEPT !.fresh = TRUE]
        BY DEF JobVerify
      <3> QED BY <1>a, <3>1, <3>2, <3>3
  <2> QED BY <1>a, Facts, <2>1 DEF Inv, TypeOK, TypeCopy
<1>3. TypeActors'
  <2>1. job' \in [pc : JobSteps, target : 0 .. Latest', repair : BOOLEAN, current : BOOLEAN]
    BY <1>a, Facts DEF Inv, TypeOK, TypeActors, JobSteps, JobVerify, Goto
  <2> QED BY <1>a, Facts, <2>1 DEF Inv, TypeOK, TypeActors
<1>4. TypeFlags'
  BY <1>a DEF Inv, TypeOK, TypeFlags
<1>5. RowOfTheHead'
  BY <1>a, Facts
     DEF Inv, TypeOK, TypeCopy, TypeActors, RowOfTheHead, BaseIsHead, LatestVal, JobVerify, At,
         Goto
<1>6. HoldOfTheRepair'
  BY <1>a, Facts DEF Inv, TypeOK, TypeCopy, HoldOfTheRepair, RepairKeepsItsHold, JobVerify
<1>7. OneMutation'
  BY <1>a, Facts DEF Inv, TypeOK, TypeActors, OneMutation, JobVerify, Goto
<1>8. CoveredIsKept'
  BY <1>a, Facts DEF Inv, TypeOK, TypeActors, CoveredIsKept, Preserved, JobVerify, Goto
<1> QED BY <1>1, <1>2, <1>3, <1>4, <1>5, <1>6, <1>7, <1>8 DEF Inv, TypeOK

(* The copy is called current only while its target is the head.            *)
LEMMA JobCompleteStep ==
  ASSUME Inv, JobComplete
  PROVE  Inv'
<1>a. /\ UNCHANGED <<accepted, entry, pending, archive, mutation, due, readable,
                     made, up, requested, approved, draining, scan, route,
                     manual, counts>>
      /\ Known' = Known /\ Latest' = Latest
  BY DEF JobComplete, seafile, outside, Known, Latest
<1>1. TypeAuthority'
  <2>1. generation' \in 0 .. Latest'
    BY <1>a, Facts DEF Inv, TypeOK, TypeAuthority, JobComplete
  <2>2. record' \in Intents \cup {None}
    BY <1>a, Facts DEF Inv, TypeOK, TypeAuthority, JobComplete, EndRepair, Finish
  <2>3. lock' \in {None, Owner, Repair}
    BY <1>a, Facts
       DEF Inv, TypeOK, TypeAuthority, HoldOfTheRepair, RepairKeepsItsHold, JobComplete,
           EndRepair, Finish
  <2> QED BY <1>a, Facts, <2>1, <2>2, <2>3 DEF Inv, TypeOK, TypeAuthority
<1>2. TypeCopy'
  BY <1>a DEF Inv, TypeOK, TypeCopy
<1>3. TypeActors'
  <2>1. job' \in [pc : JobSteps, target : 0 .. Latest', repair : BOOLEAN, current : BOOLEAN]
    BY <1>a, Facts DEF Inv, TypeOK, TypeActors, JobSteps, JobComplete, Goto
  <2> QED BY <1>a, Facts, <2>1 DEF Inv, TypeOK, TypeActors
<1>4. TypeFlags'
  <2>1. held' \in BOOLEAN
    BY <1>a, Facts DEF Inv, TypeOK, TypeFlags, JobComplete, EndRepair
  <2>2. skip' \in BOOLEAN
    BY <1>a, Facts DEF Inv, TypeOK, TypeFlags, JobComplete
  <2> QED BY <1>a, Facts, <2>1, <2>2 DEF Inv, TypeOK, TypeFlags
<1>5. RowOfTheHead'
  BY <1>a, Facts
     DEF Inv, TypeOK, TypeActors, RowOfTheHead, BaseIsHead, LatestVal, JobComplete, At, Goto
<1>6. HoldOfTheRepair'
  BY <1>a, Facts
     DEF Inv, TypeOK, TypeFlags, HoldOfTheRepair, RepairKeepsItsHold, JobComplete, EndRepair,
         Finish
<1>7. OneMutation'
  BY <1>a, Facts DEF Inv, TypeOK, TypeActors, OneMutation, JobComplete, Goto
<1>8. CoveredIsKept'
  BY <1>a, Facts DEF Inv, TypeOK, TypeActors, CoveredIsKept, Preserved, JobComplete, Goto
<1> QED BY <1>1, <1>2, <1>3, <1>4, <1>5, <1>6, <1>7, <1>8 DEF Inv, TypeOK

(* A superseded job finishes its journal and starts again or stops.         *)
LEMMA JobSupersededStep ==
  ASSUME Inv, JobSuperseded
  PROVE  Inv'
<1>a. /\ UNCHANGED <<accepted, generation, record, lock, entry, readable, made,
                     up, held, requested, approved, scan, route, manual,
                     counts>>
      /\ Known' = Known /\ Latest' = Latest
  BY DEF JobSuperseded, seafile, outside, Known, Latest
<1>c. /\ pending' \in Seq(Rows(Known)) /\ archive' \in SUBSET Drafts
      /\ archive \subseteq archive' /\ (mutation' = None \/ mutation' = mutation)
      /\ mutation' = None /\ mutation # None
             => (UNION Range(mutation.since)) \cap Drafts \subseteq archive'
  <2>1. CASE Capture BY <2>1, CaptureKeeps
  <2>2. CASE UNCHANGED <<pending, archive, mutation>>
    BY <2>2 DEF Inv, TypeOK, TypeCopy
  <2> QED BY <2>1, <2>2 DEF JobSuperseded
<1>1. TypeAuthority'
  BY <1>a DEF Inv, TypeOK, TypeAuthority
<1>2. TypeCopy'
  <2>1. pending' \in Seq(Rows(Known'))
    BY <1>a, <1>c
  <2>2. archive' \in SUBSET Drafts
    BY <1>a, <1>c
  <2>3. mutation' \in Mutations(Known') \cup {None}
    BY <1>a, <1>c DEF Inv, TypeOK, TypeCopy
  <2> QED BY <1>a, <1>c, Facts, <2>1, <2>2, <2>3 DEF Inv, TypeOK, TypeCopy
<1>3. TypeActors'
  <2>1. job' \in [pc : JobSteps, target : 0 .. Latest', repair : BOOLEAN, current : BOOLEAN]
    BY <1>a, Facts, <1>c DEF Inv, TypeOK, TypeActors, JobSteps, JobSuperseded, Goto, Superseded
  <2> QED BY <1>a, <1>c, Facts, <2>1 DEF Inv, TypeOK, TypeActors
<1>4. TypeFlags'
  <2>1. draining' \in BOOLEAN
    BY <1>a, Facts, <1>c DEF JobSuperseded, Superseded
  <2>2. due' \in BOOLEAN
    BY <1>a, Facts, <1>c DEF JobSuperseded, Superseded
  <2>3. skip' \in BOOLEAN
    BY <1>a, Facts, <1>c DEF JobSuperseded, Superseded
  <2> QED BY <1>a, <1>c, Facts, <2>1, <2>2, <2>3 DEF Inv, TypeOK, TypeFlags
<1>5. RowOfTheHead'
  BY <1>a, Facts, <1>c DEF Inv, RowOfTheHead, BaseIsHead, LatestVal, JobSuperseded, Goto, Superseded
<1>6. HoldOfTheRepair'
  BY <1>a, Facts, <1>c DEF Inv, HoldOfTheRepair, RepairKeepsItsHold
<1>7. OneMutation'
  BY <1>a, Facts, <1>c DEF OneMutation, JobSuperseded, Goto, Superseded
<1>8. CoveredIsKept'
  BY <1>a, <1>c, PreservedStays
     DEF Inv, TypeOK, TypeCopy, CoveredIsKept, JobSuperseded, Superseded, Goto
<1> QED BY <1>1, <1>2, <1>3, <1>4, <1>5, <1>6, <1>7, <1>8 DEF Inv, TypeOK

(* A job that ends drops its permit.                                        *)
LEMMA JobFinallyStep ==
  ASSUME Inv, JobFinally
  PROVE  Inv'
<1>a. /\ UNCHANGED <<accepted, generation, record, lock, entry, pending,
                     archive, mutation, readable, made, up, held, requested,
                     skip, draining, scan, manual, counts>>
      /\ Known' = Known /\ Latest' = Latest
  BY DEF JobFinally, seafile, outside, Known, Latest
<1>1. TypeAuthority'
  BY <1>a DEF Inv, TypeOK, TypeAuthority
<1>2. TypeCopy'
  BY <1>a DEF Inv, TypeOK, TypeCopy
<1>3. TypeActors'
  <2>1. job' \in [pc : JobSteps, target : 0 .. Latest', repair : BOOLEAN, current : BOOLEAN]
    BY <1>a, Facts DEF JobSteps, JobFinally, NoJob
  <2>2. route' \in [pc : RouteSteps, job : BOOLEAN, scan : BOOLEAN]
    BY <1>a, Facts DEF Inv, TypeOK, TypeActors, JobFinally
  <2> QED BY <1>a, Facts, <2>1, <2>2 DEF Inv, TypeOK, TypeActors
<1>4. TypeFlags'
  <2>1. approved' \in BOOLEAN
    BY <1>a, Facts DEF Inv, TypeOK, TypeFlags, JobFinally, NoJob
  <2>2. due' \in BOOLEAN
    BY <1>a, Facts DEF Inv, TypeOK, TypeFlags, JobFinally, NoJob
  <2> QED BY <1>a, Facts, <2>1, <2>2 DEF Inv, TypeOK, TypeFlags
<1>5. RowOfTheHead'
  BY <1>a, Facts DEF Inv, RowOfTheHead, BaseIsHead, LatestVal, JobFinally, NoJob
<1>6. HoldOfTheRepair'
  BY <1>a, Facts DEF Inv, HoldOfTheRepair, RepairKeepsItsHold, JobFinally
<1>7. OneMutation'
  BY <1>a, Facts DEF OneMutation, JobFinally, NoJob
<1>8. CoveredIsKept'
  BY <1>a, Facts DEF Inv, CoveredIsKept, Preserved, JobFinally, NoJob
<1> QED BY <1>1, <1>2, <1>3, <1>4, <1>5, <1>6, <1>7, <1>8 DEF Inv, TypeOK

(* A failed step leaves everything to the next job.                         *)
LEMMA JobFailsStep ==
  ASSUME Inv, JobFails
  PROVE  Inv'
<1>a. /\ UNCHANGED <<accepted, generation, record, lock, entry, pending,
                     archive, mutation, due, readable, made, up, held,
                     requested, approved, skip, draining, scan, route, manual>>
      /\ Known' = Known /\ Latest' = Latest
  BY DEF JobFails, seafile, process, Known, Latest
<1>1. TypeAuthority'
  BY <1>a DEF Inv, TypeOK, TypeAuthority
<1>2. TypeCopy'
  BY <1>a DEF Inv, TypeOK, TypeCopy
<1>3. TypeActors'
  <2>1. job' \in [pc : JobSteps, target : 0 .. Latest', repair : BOOLEAN, current : BOOLEAN]
    BY <1>a, Facts DEF Inv, TypeOK, TypeActors, JobSteps, JobFails, Goto
  <2> QED BY <1>a, Facts, <2>1 DEF Inv, TypeOK, TypeActors
<1>4. TypeFlags'
  <2>1. counts' \in [repairs : Nat, locks : Nat, faults : Nat]
    BY <1>a, Facts DEF Inv, TypeOK, TypeFlags, JobFails, Goto
  <2> QED BY <1>a, Facts, <2>1 DEF Inv, TypeOK, TypeFlags
<1>5. RowOfTheHead'
  BY <1>a, Facts DEF Inv, RowOfTheHead, BaseIsHead, LatestVal, JobFails, Goto
<1>6. HoldOfTheRepair'
  BY <1>a, Facts DEF Inv, HoldOfTheRepair, RepairKeepsItsHold
<1>7. OneMutation'
  BY <1>a, Facts DEF OneMutation, JobFails, Goto
<1>8. CoveredIsKept'
  BY <1>a, Facts DEF Inv, CoveredIsKept, Preserved, JobFails, Goto
<1> QED BY <1>1, <1>2, <1>3, <1>4, <1>5, <1>6, <1>7, <1>8 DEF Inv, TypeOK

(* A repair asked for while one is on record wakes the job.                 *)
LEMMA RepairBusyStep ==
  ASSUME Inv, RepairBusy
  PROVE  Inv'
<1>a. /\ UNCHANGED <<accepted, generation, record, lock, entry, pending,
                     archive, mutation, readable, made, up, held, requested,
                     approved, skip, draining, job, scan, route, manual,
                     counts>>
      /\ Known' = Known /\ Latest' = Latest
  BY DEF RepairBusy, seafile, process, actors, outside, Known, Latest
<1>1. TypeAuthority'
  BY <1>a DEF Inv, TypeOK, TypeAuthority
<1>2. TypeCopy'
  BY <1>a DEF Inv, TypeOK, TypeCopy
<1>3. TypeActors'
  BY <1>a DEF Inv, TypeOK, TypeActors
<1>4. TypeFlags'
  <2>1. due' \in BOOLEAN
    BY <1>a, Facts DEF Inv, TypeOK, TypeFlags, RepairBusy
  <2> QED BY <1>a, Facts, <2>1 DEF Inv, TypeOK, TypeFlags
<1>5. RowOfTheHead'
  BY <1>a, Facts DEF Inv, RowOfTheHead, BaseIsHead, LatestVal
<1>6. HoldOfTheRepair'
  BY <1>a, Facts DEF Inv, HoldOfTheRepair, RepairKeepsItsHold
<1>7. OneMutation'
  BY <1>a, Facts DEF Inv, OneMutation
<1>8. CoveredIsKept'
  BY <1>a, Facts DEF Inv, CoveredIsKept, Preserved
<1> QED BY <1>1, <1>2, <1>3, <1>4, <1>5, <1>6, <1>7, <1>8 DEF Inv, TypeOK

(* A repair request takes the hold.                                         *)
LEMMA RepairRequestStep ==
  ASSUME Inv, RepairRequest
  PROVE  Inv'
<1>a. /\ UNCHANGED <<accepted, generation, record, lock, entry, pending,
                     archive, mutation, due, readable, made, up, approved, skip,
                     job, scan, manual>>
      /\ Known' = Known /\ Latest' = Latest
  BY DEF RepairRequest, database, seafile, Known, Latest
<1>1. TypeAuthority'
  BY <1>a DEF Inv, TypeOK, TypeAuthority
<1>2. TypeCopy'
  BY <1>a DEF Inv, TypeOK, TypeCopy
<1>3. TypeActors'
  <2>1. route' \in [pc : RouteSteps, job : BOOLEAN, scan : BOOLEAN]
    BY <1>a, Facts DEF RouteSteps, RepairRequest
  <2> QED BY <1>a, Facts, <2>1 DEF Inv, TypeOK, TypeActors
<1>4. TypeFlags'
  <2>1. counts' \in [repairs : Nat, locks : Nat, faults : Nat]
    BY <1>a, Facts DEF Inv, TypeOK, TypeFlags, RepairRequest, Writable
  <2>2. held' \in BOOLEAN
    BY <1>a, Facts DEF Inv, TypeOK, TypeFlags, RepairRequest, Writable
  <2>3. requested' \in BOOLEAN
    BY <1>a, Facts DEF Inv, TypeOK, TypeFlags, RepairRequest, Writable
  <2>4. draining' \in BOOLEAN
    BY <1>a, Facts DEF Inv, TypeOK, TypeFlags, RepairRequest, Writable
  <2> QED BY <1>a, Facts, <2>1, <2>2, <2>3, <2>4 DEF Inv, TypeOK, TypeFlags
<1>5. RowOfTheHead'
  BY <1>a, Facts DEF Inv, RowOfTheHead, BaseIsHead, LatestVal
<1>6. HoldOfTheRepair'
  BY <1>a, Facts DEF Inv, HoldOfTheRepair, RepairKeepsItsHold, RepairRequest, Writable
<1>7. OneMutation'
  BY <1>a, Facts DEF Inv, OneMutation
<1>8. CoveredIsKept'
  BY <1>a, Facts DEF Inv, CoveredIsKept, Preserved
<1> QED BY <1>1, <1>2, <1>3, <1>4, <1>5, <1>6, <1>7, <1>8 DEF Inv, TypeOK

(* A repair is put on record before the copy is given up.                   *)
LEMMA RepairBeginStep ==
  ASSUME Inv, RepairBegin
  PROVE  Inv'
<1>a. /\ UNCHANGED <<accepted, archive, mutation, readable, made, up, held,
                     requested, scan, manual, counts>>
      /\ Known' = Known /\ Latest' = Latest
  BY DEF RepairBegin, seafile, outside, Known, Latest
<1>c. /\ route' \in [pc : RouteSteps, job : BOOLEAN, scan : BOOLEAN]
      /\ job' \in [pc : JobSteps, target : 0 .. Latest, repair : BOOLEAN,
                   current : BOOLEAN]
      /\ job' = job \/ job'.pc = "recover"
      /\ due' \in BOOLEAN /\ skip' \in BOOLEAN
  <2>1. CASE Rebuild BY <2>1, ProjectKeeps DEF Rebuild, RouteSteps
  <2>2. CASE ~Rebuild
    BY <2>2 DEF RepairBegin, Inv, TypeOK, TypeActors, TypeFlags, RouteSteps
  <2> QED BY <2>1, <2>2
<1>d. Holding(Begun(record)) BY DEF RepairBegin
<1>1. TypeAuthority'
  <2>1. record' \in Intents \cup {None}
    BY <1>d, HoldingKeeps, <1>c DEF TypeAuthority
  <2>2. lock' \in {None, Owner, Repair}
    BY <1>d, HoldingKeeps, <1>c DEF TypeAuthority
  <2>3. generation' \in 0 .. Latest'
    BY <1>a, Facts, <1>c DEF Inv, TypeOK, TypeAuthority, RepairBegin, Rebuild
  <2> QED BY <1>a, <1>c, Facts, <2>1, <2>2, <2>3 DEF Inv, TypeOK, TypeAuthority
<1>2. TypeCopy'
  <2>1. pending' \in Seq(Rows(Known'))
      <3>1. CASE Rebuild BY <1>a, <3>1 DEF Rebuild
      <3>2. CASE ~Rebuild
        BY <1>a, <3>2 DEF RepairBegin, Inv, TypeOK, TypeCopy
      <3> QED BY <3>1, <3>2
  <2>2. entry' \in [hash : Known' \cup {Mark}, fresh : BOOLEAN]
    BY <1>a, Facts, <1>c DEF Inv, TypeOK, TypeCopy, RepairBegin, Rebuild
  <2> QED BY <1>a, <1>c, Facts, <2>1, <2>2 DEF Inv, TypeOK, TypeCopy
<1>3. TypeActors'
  <2>1. route' \in [pc : RouteSteps, job : BOOLEAN, scan : BOOLEAN]
    BY <1>a, <1>c
  <2>2. job' \in [pc : JobSteps, target : 0 .. Latest', repair : BOOLEAN, current : BOOLEAN]
    BY <1>a, <1>c
  <2> QED BY <1>a, <1>c, Facts, <2>1, <2>2 DEF Inv, TypeOK, TypeActors
<1>4. TypeFlags'
  <2>1. draining' \in BOOLEAN
    BY <1>a, Facts, <1>c DEF Inv, TypeOK, TypeFlags, RepairBegin, Rebuild
  <2>2. approved' \in BOOLEAN
    BY <1>a, Facts, <1>c DEF Inv, TypeOK, TypeFlags, RepairBegin, Rebuild
  <2>3. due' \in BOOLEAN
    BY <1>a, <1>c
  <2>4. skip' \in BOOLEAN
    BY <1>a, <1>c
  <2> QED BY <1>a, <1>c, Facts, <2>1, <2>2, <2>3, <2>4 DEF Inv, TypeOK, TypeFlags
<1>5. RowOfTheHead'
  BY <1>a, Facts, <1>c
     DEF Inv, TypeOK, TypeCopy, RowOfTheHead, BaseIsHead, LatestVal, RepairBegin, Rebuild
<1>6. HoldOfTheRepair'
  BY <1>a, <1>d, HoldingKeeps, Facts
     DEF Inv, HoldOfTheRepair, RepairKeepsItsHold, RepairBegin, Rebuild
<1>7. OneMutation'
  BY <1>a, Facts, <1>c DEF Inv, OneMutation
<1>8. CoveredIsKept'
  BY <1>a, Facts, <1>c DEF Inv, CoveredIsKept, Preserved
<1> QED BY <1>1, <1>2, <1>3, <1>4, <1>5, <1>6, <1>7, <1>8 DEF Inv, TypeOK

(* The cleaned snapshot and the new target of the repair are one step.      *)
LEMMA RepairCleanStep ==
  ASSUME Inv, RepairClean
  PROVE  Inv'
<1>a. /\ UNCHANGED <<lock, archive, mutation, readable, made, up, held,
                     requested, draining, scan, manual, counts>>
      /\ Known' = Known
  BY DEF RepairClean, seafile, outside, Known
<1>c. /\ route' \in [pc : RouteSteps, job : BOOLEAN, scan : BOOLEAN]
      /\ job' \in [pc : JobSteps, target : 0 .. Latest, repair : BOOLEAN,
                   current : BOOLEAN]
      /\ job' = job \/ job'.pc = "recover"
      /\ due' \in BOOLEAN /\ skip' \in BOOLEAN
  BY ProjectKeeps DEF RepairClean, Rebuild, RouteSteps
<1>b. /\ accepted' = Append(accepted, LatestVal) /\ accepted' \in Seq(Known')
      /\ Latest' = Latest + 1 /\ LatestVal' = LatestVal /\ LatestVal \in Known'
      /\ \A s \in 1 .. Latest : accepted'[s] = accepted[s]
      /\ Range(accepted') = Range(accepted) \cup {LatestVal}
  <2>1. LatestVal \in Known
    BY Facts
  <2>2. accepted \in Seq(Known) BY DEF Inv, TypeOK, TypeAuthority
  <2>3. accepted' = Append(accepted, LatestVal) BY DEF RepairClean
  <2> QED BY <1>a, <2>1, <2>2, <2>3, Appended DEF Latest, LatestVal
<1>1. TypeAuthority'
  <2>1. record' \in Intents \cup {None}
    BY <1>a, Facts, <1>c, <1>b DEF Inv, TypeOK, TypeAuthority, Intents, RepairClean
  <2>2. generation' \in 0 .. Latest'
    BY <1>a, Facts, <1>c, <1>b DEF Inv, TypeOK, TypeAuthority, RepairClean, Rebuild
  <2> QED BY <1>a, <1>c, <1>b, Facts, <2>1, <2>2 DEF Inv, TypeOK, TypeAuthority
<1>2. TypeCopy'
  <2>1. pending' \in Seq(Rows(Known'))
    BY <1>a, Facts, RowsTyped, <1>c, <1>b DEF Inv, TypeOK, TypeCopy, RepairClean, Rebuild
  <2>2. entry' \in [hash : Known' \cup {Mark}, fresh : BOOLEAN]
    BY <1>a, Facts, <1>c, <1>b DEF Inv, TypeOK, TypeCopy, RepairClean, Rebuild
  <2> QED BY <1>a, <1>c, <1>b, Facts, <2>1, <2>2 DEF Inv, TypeOK, TypeCopy
<1>3. TypeActors'
  <2>1. route' \in [pc : RouteSteps, job : BOOLEAN, scan : BOOLEAN]
    BY <1>a, <1>c, <1>b
  <2>2. job' \in [pc : JobSteps, target : 0 .. Latest', repair : BOOLEAN, current : BOOLEAN]
    BY <1>a, Facts, <1>c, <1>b
  <2>3. scan' \in [pc : {"idle", "import"}, head : 0 .. Latest',
                   base : Known' \cup {Mark}, val : Known', live : BOOLEAN,
                   current : BOOLEAN, timer : BOOLEAN]
    BY <1>a, Facts, <1>c, <1>b DEF Inv, TypeOK, TypeActors
  <2> QED BY <1>a, <1>c, <1>b, Facts, <2>1, <2>2, <2>3 DEF Inv, TypeOK, TypeActors
<1>4. TypeFlags'
  <2>1. approved' \in BOOLEAN
    BY <1>a, Facts, <1>c, <1>b DEF Inv, TypeOK, TypeFlags, RepairClean, Rebuild
  <2>2. due' \in BOOLEAN
    BY <1>a, <1>c, <1>b
  <2>3. skip' \in BOOLEAN
    BY <1>a, <1>c, <1>b
  <2> QED BY <1>a, <1>c, <1>b, Facts, <2>1, <2>2, <2>3 DEF Inv, TypeOK, TypeFlags
<1>5. RowOfTheHead'
  BY <1>a, Facts, <1>c, <1>b DEF RowOfTheHead, BaseIsHead, RepairClean, Rebuild
<1>6. HoldOfTheRepair'
  BY <1>a, <1>b, Facts
     DEF Inv, HoldOfTheRepair, RepairKeepsItsHold, TypeOK, TypeAuthority, Intents, RepairClean
<1>7. OneMutation'
  BY <1>a, Facts, <1>c, <1>b DEF Inv, OneMutation
<1>8. CoveredIsKept'
  BY <1>a, Facts, <1>c, <1>b DEF Inv, CoveredIsKept, Preserved
<1> QED BY <1>1, <1>2, <1>3, <1>4, <1>5, <1>6, <1>7, <1>8 DEF Inv, TypeOK

(* A repair that aborts keeps the hold while its record stands.             *)
LEMMA RepairAbortsStep ==
  ASSUME Inv, RepairAborts
  PROVE  Inv'
<1>a. /\ UNCHANGED <<accepted, generation, record, lock, entry, pending,
                     archive, mutation, readable, made, up, approved, skip,
                     draining, job, scan, manual>>
      /\ Known' = Known /\ Latest' = Latest
  BY DEF RepairAborts, seafile, Known, Latest
<1>1. TypeAuthority'
  BY <1>a DEF Inv, TypeOK, TypeAuthority
<1>2. TypeCopy'
  BY <1>a DEF Inv, TypeOK, TypeCopy
<1>3. TypeActors'
  <2>1. route' \in [pc : RouteSteps, job : BOOLEAN, scan : BOOLEAN]
    BY <1>a, Facts DEF RouteSteps, RepairAborts, Leave, NoRoute
  <2> QED BY <1>a, Facts, <2>1 DEF Inv, TypeOK, TypeActors
<1>4. TypeFlags'
  <2>1. counts' \in [repairs : Nat, locks : Nat, faults : Nat]
    BY <1>a, Facts DEF Inv, TypeOK, TypeFlags, RepairAborts
  <2>2. requested' \in BOOLEAN
    BY <1>a, Facts DEF RepairAborts, Leave
  <2>3. held' \in BOOLEAN
    BY <1>a, Facts DEF RepairAborts, Leave
  <2>4. due' \in BOOLEAN
    BY <1>a, Facts DEF RepairAborts, Leave
  <2> QED BY <1>a, Facts, <2>1, <2>2, <2>3, <2>4 DEF Inv, TypeOK, TypeFlags
<1>5. RowOfTheHead'
  BY <1>a, Facts DEF Inv, RowOfTheHead, BaseIsHead, LatestVal
<1>6. HoldOfTheRepair'
  BY <1>a, Facts DEF Inv, HoldOfTheRepair, RepairKeepsItsHold, RepairAborts, Leave, NoRoute
<1>7. OneMutation'
  BY <1>a, Facts DEF Inv, OneMutation
<1>8. CoveredIsKept'
  BY <1>a, Facts DEF Inv, CoveredIsKept, Preserved
<1> QED BY <1>1, <1>2, <1>3, <1>4, <1>5, <1>6, <1>7, <1>8 DEF Inv, TypeOK

(* A repair that has been projected gives up the hold with its record.      *)
LEMMA RepairChecksStep ==
  ASSUME Inv, RepairChecks
  PROVE  Inv'
<1>a. /\ UNCHANGED <<accepted, generation, record, lock, entry, pending,
                     archive, mutation, readable, made, up, approved, draining,
                     scan, manual, counts>>
      /\ Known' = Known /\ Latest' = Latest
  BY DEF RepairChecks, seafile, outside, Known, Latest
<1>c. /\ route' \in [pc : RouteSteps, job : BOOLEAN, scan : BOOLEAN]
      /\ job' \in [pc : JobSteps, target : 0 .. Latest, repair : BOOLEAN,
                   current : BOOLEAN]
      /\ job' = job \/ job'.pc = "recover"
      /\ due' \in BOOLEAN /\ skip' \in BOOLEAN
  <2>1. CASE Project("second") BY <2>1, ProjectKeeps DEF RouteSteps
  <2>2. CASE Leave /\ UNCHANGED <<job, skip>>
    BY <2>2 DEF Leave, NoRoute, Inv, TypeOK, TypeActors, TypeFlags, RouteSteps
  <2> QED BY <2>1, <2>2 DEF RepairChecks
<1>1. TypeAuthority'
  BY <1>a DEF Inv, TypeOK, TypeAuthority
<1>2. TypeCopy'
  BY <1>a DEF Inv, TypeOK, TypeCopy
<1>3. TypeActors'
  <2>1. route' \in [pc : RouteSteps, job : BOOLEAN, scan : BOOLEAN]
    BY <1>a, <1>c
  <2>2. job' \in [pc : JobSteps, target : 0 .. Latest', repair : BOOLEAN, current : BOOLEAN]
    BY <1>a, <1>c
  <2> QED BY <1>a, <1>c, Facts, <2>1, <2>2 DEF Inv, TypeOK, TypeActors
<1>4. TypeFlags'
  <2>1. requested' \in BOOLEAN
    BY <1>a, Facts, <1>c DEF Inv, TypeOK, TypeFlags, RepairChecks, Leave
  <2>2. held' \in BOOLEAN
    BY <1>a, Facts, <1>c DEF Inv, TypeOK, TypeFlags, RepairChecks, Leave
  <2>3. due' \in BOOLEAN
    BY <1>a, <1>c
  <2>4. skip' \in BOOLEAN
    BY <1>a, <1>c
  <2> QED BY <1>a, <1>c, Facts, <2>1, <2>2, <2>3, <2>4 DEF Inv, TypeOK, TypeFlags
<1>5. RowOfTheHead'
  BY <1>a, Facts, <1>c DEF Inv, RowOfTheHead, BaseIsHead, LatestVal
<1>6. HoldOfTheRepair'
  BY <1>a, Facts, <1>c DEF Inv, HoldOfTheRepair, RepairKeepsItsHold, RepairChecks, Leave, NoRoute
<1>7. OneMutation'
  BY <1>a, Facts, <1>c DEF Inv, OneMutation
<1>8. CoveredIsKept'
  BY <1>a, Facts, <1>c DEF Inv, CoveredIsKept, Preserved
<1> QED BY <1>1, <1>2, <1>3, <1>4, <1>5, <1>6, <1>7, <1>8 DEF Inv, TypeOK

-----------------------------------------------------------------------------
(* The inductive invariant, and the properties it implies.                  *)

(* At the start no repair, scan or job is under way and no edit is made.    *)
LEMMA InitInv ==
  ASSUME Init
  PROVE  Inv
<1>1. {} \in Known /\ Mark \notin Known /\ made = {} /\ Len(<<{}>>) = 1
  <2>1. made \in SUBSET Drafts BY DEF Init
  <2> QED BY <2>1, KnownThings DEF Known, Init
<1>2. accepted \in Seq(Known) /\ Latest = 1 /\ LatestVal = {}
  BY <1>1 DEF Init, Latest, LatestVal
<1>3. TypeAuthority
  BY <1>2 DEF Init, TypeAuthority
<1>4. TypeCopy
  <2>1. entry \in [hash : Known \cup {Mark}, fresh : BOOLEAN]
    <3>1. CASE entry = [hash |-> {}, fresh |-> TRUE] BY <1>1, <3>1
    <3>2. CASE entry = [hash |-> Mark, fresh |-> FALSE] BY <3>2
    <3> QED BY <3>1, <3>2 DEF Init
  <2>2. /\ pending = <<>> /\ archive = {} /\ mutation = None /\ readable = {}
        /\ made = {}
    BY DEF Init
  <2> QED BY <1>1, <2>1, <2>2 DEF TypeCopy
<1>5. TypeActors
  <2>1. 0 \in 0 .. Latest BY <1>2
  <2> QED BY <1>1, <2>1 DEF Init, NoJob, NoScan, NoRoute, TypeActors, JobSteps, RouteSteps
<1>6. TypeFlags
  BY DEF Init, TypeFlags
<1>7. RowOfTheHead /\ OneMutation
  BY <1>2 DEF Init, RowOfTheHead, OneMutation, BaseIsHead, NoJob
<1>8. HoldOfTheRepair
  BY DEF Init, HoldOfTheRepair, RepairKeepsItsHold, NoRoute
<1>9. CoveredIsKept
  BY DEF Init, CoveredIsKept, NoJob
<1> QED
  BY <1>3, <1>4, <1>5, <1>6, <1>7, <1>8, <1>9 DEF Inv, TypeOK

(* No step of an editor, a device, the owner, a job, a scan, a repair, a    *)
(* fault or a restart takes the invariant away.                             *)
LEMMA NextInv ==
  ASSUME Inv, [Next]_vars
  PROVE  Inv'
<1>1. CASE UNCHANGED vars
  BY <1>1
     DEF vars, Inv, TypeOK, TypeAuthority, TypeCopy, TypeActors, TypeFlags, RowOfTheHead,
         BaseIsHead, HoldOfTheRepair, RepairKeepsItsHold, OneMutation, CoveredIsKept, Preserved,
         Known, Latest, LatestVal
<1>2. CASE \E d \in Drafts : ExternalEdit(d)
  BY <1>2, ExternalEditStep
<1>3. CASE Start \/ Crash
  BY <1>3, StartStep, CrashStep
<1>4. CASE ServerStep
  <2>1. CASE \E v \in Content : DeviceCommit(v)
    BY <2>1, DeviceCommitStep
  <2>2. CASE \E l \in {None, Owner} : SetLock(l)
    BY <2>2, SetLockStep
  <2>3. CASE TimerScan \/ ScanStep \/ ScanFails
    BY <2>3, TimerScanStep, ScanUnchangedStep, ScanRefusedStep, ScanImportsStep,
       ScanThrowsStep, ScanFailsStep
       DEF ScanStep
  <2>4. CASE JobStep
    BY <2>4, JobStartStep, JobRecoverStep, JobIngestStep, JobReadStep,
       JobCurrentStep, JobShownStep, JobPrepareStep, JobPutStep, JobFinishStep,
       JobVerifyStep, JobCompleteStep, JobSupersededStep, JobFinallyStep
       DEF JobStep
  <2>5. CASE JobFails \/ RepairBusy \/ RepairRequest
    BY <2>5, JobFailsStep, RepairBusyStep, RepairRequestStep
  <2> QED BY <1>4, <2>1, <2>2, <2>3, <2>4, <2>5 DEF ServerStep
<1>5. CASE RouteStep
  BY <1>5, RepairBeginStep, RepairCleanStep, RepairAbortsStep, RepairChecksStep
     DEF RouteStep
<1> QED BY <1>1, <1>2, <1>3, <1>4, <1>5 DEF Next

(* The inductive invariant holds in every state the mirror, the importer,   *)
(* the repair and the editors can reach (app.ts reconcileReadableMirror).   *)
THEOREM Invariance == Spec => []Inv
<1>1. Init => Inv BY InitInv
<1>2. Inv /\ [Next]_vars => Inv' BY NextInv
<1> QED BY <1>1, <1>2, PTL DEF Spec

(* Every variable of the readable mirror keeps its type, and no content     *)
(* anywhere names an edit that nobody has made.                             *)
THEOREM TypeCorrect == Spec => []TypeOK
<1>1. Inv => TypeOK BY DEF Inv
<1> QED BY <1>1, Invariance, PTL

(* A vault that says its copy shows the head has, in the row the importer   *)
(* merges against, the head's own content or a mark that merges with        *)
(* nothing (mirror_entries, written before mirror_generation_id).           *)
THEOREM BaseStaysHead == Spec => []BaseIsHead
<1>1. Inv => BaseIsHead BY DEF Inv, RowOfTheHead
<1> QED BY <1>1, Invariance, PTL

(* A repair keeps what it borrows until it is done: the target it recorded  *)
(* is the head, the owner's freeze stands again afterwards, and no writer   *)
(* enters while it is on record (checkpoint-repair.ts, restored by Start).  *)
THEOREM RepairHolds == Spec => []RepairKeepsItsHold
<1>1. Inv => RepairKeepsItsHold BY DEF Inv, HoldOfTheRepair
<1> QED BY <1>1, Invariance, PTL

(* No write of the server destroys an edit made in Seafile, for any number  *)
(* of edits, heads, repairs, faults and restarts (projection-journal.ts     *)
(* keeps what a PUT may cover before and after it).                         *)
THEOREM EditsPreserved == Spec => []NothingDestroyed
<1>1. Inv => NothingDestroyed
  <2> SUFFICES ASSUME Inv, NEW d \in made
               PROVE  \/ d \in readable \/ d \in archive
                      \/ \E s \in DOMAIN accepted : d \in accepted[s]
                      \/ mutation # None
                            /\ \E i \in DOMAIN mutation.since : d \in mutation.since[i]
    BY DEF NothingDestroyed
  <2>1. d \in readable \/ d \in Preserved BY DEF Inv, CoveredIsKept
  <2>2. CASE d \in UNION Range(accepted) BY <2>2 DEF Range
  <2>3. CASE mutation # None /\ d \in UNION Range(mutation.since)
    BY <2>3 DEF Range
  <2>4. d \in Preserved => \/ d \in archive \/ d \in UNION Range(accepted)
                           \/ mutation # None /\ d \in UNION Range(mutation.since)
    BY Zenon DEF Preserved
  <2> QED BY <2>1, <2>2, <2>3, <2>4
<1> QED BY <1>1, Invariance, PTL
==============================================================================
