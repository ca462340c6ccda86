------------------------ MODULE FolderTopologyProofs -------------------------
(***************************************************************************)
(* The safety properties of FolderTopology for all folders, files and      *)
(* times, and the inductive invariant Inv they rest on: text of the owner  *)
(* that any tree, retirement or application holds has been accepted; the   *)
(* walk moves only what it looked at, in folders within those chosen       *)
(* before the owner's last event there; and the folders of the checkpoint  *)
(* are on the disk or went from it. WithinTrans says how paths nest, TopSet*)
(* and Pushed what a stack holds, GreatestNumber (by the well-founded order*)
(* of the numbers) that there is a latest retirement.                      *)
(***************************************************************************)
EXTENDS FolderTopology, WellFoundedInduction, TLAPS

Places == {"retired", "shells", "head", "make", "roots", "extra", "walk", "scan",
           "plan", "commit", "stage", "apply", "finish"}
Made   == [folders : SUBSET Folders, notes : SUBSET Notes]
Frames == [dir : Folders, folders : SUBSET Folders, files : SUBSET Files,
           moving : Files \cup {None}, seen : Nat]
Passes == [pc : Places, stage : {"before", "resume", "own"},
           loop : {"", "shells", "extra"}, stack : Seq(Frames),
           todo : SUBSET Folders, eligible : SUBSET Folders, before : SUBSET Folders,
           relist : BOOLEAN, chosen : Nat, failed : BOOLEAN, desired : SUBSET Folders,
           remote : Trees \cup {None}, scan : Trees \cup {None},
           plan : Trees \cup {None}, full : BOOLEAN, intents : Made,
           touched : SUBSET Notes, refull : BOOLEAN]

TypeDisk ==
    /\ dirs \in SUBSET Folders
    /\ file \in [Files -> Contents \cup {None}]
    /\ trash \in SUBSET (Files \X Contents)
TypeTrees == head \in Trees /\ base \in Trees
TypeSettings ==
    /\ retired \in [Notes -> Marks \cup {None}]
    /\ created \in [Folders -> Nat]
    /\ last \in Nat /\ count \in BOOLEAN /\ error \in BOOLEAN /\ full \in BOOLEAN
    /\ pending \in SUBSET Notes
    /\ target \in Targets \cup {None}
TypeGhosts ==
    /\ unsent \in SUBSET Notes /\ sent \in SUBSET Notes /\ raced \in SUBSET Notes
    /\ gone \in SUBSET Folders /\ scanGone \in SUBSET Folders
TypePass == pass = Idle \/ pass \in Passes
TypeRest ==
    /\ made \in Made
    /\ clock \in Nat /\ own \in Nat /\ far \in Nat
TypeOK == TypeDisk /\ TypeTrees /\ TypeSettings /\ TypeGhosts /\ TypePass /\ TypeRest

At(pcs) == pass # Idle /\ pass.pc \in pcs

(* Text of the owner that is in a tree of the server, in the checkpoint, in *)
(* a retirement or in an application has been accepted.                     *)
Owns(notes, x) == notes[x] = "own"
SentOwn ==
    \A x \in Notes :
        /\ Owns(head.notes, x) => x \in sent
        /\ Owns(base.notes, x) => x \in sent
        /\ retired[x] # None /\ retired[x].hash = "own" => x \in sent
        /\ target # None => /\ Owns(target.notes, x) => x \in sent
                            /\ Owns(target.prior, x) => Owns(target.notes, x) \/ x \in sent
(* What a run replaces by something else it has found accepted.             *)
SentPlans ==
    \A x \in Notes :
        /\ pass # Idle /\ pass.remote # None /\ Owns(pass.remote.notes, x) => x \in sent
        /\ At({"commit", "stage"}) /\ Owns(pass.scan.notes, x)
               => Owns(pass.plan.notes, x) \/ x \in sent
        /\ At({"stage"}) /\ Owns(pass.plan.notes, x) => x \in sent

(* The walk moves only what it looked at, and only from its top folder.     *)
MovingKnown ==
    At({"walk"}) =>
        /\ Len(pass.stack) > 0 /\ pass.loop # ""
        /\ \A i \in 1 .. Len(pass.stack) - 1 : pass.stack[i].moving = None
        /\ Top.folders # {} => Top.moving = None
        /\ Top.moving \in Notes /\ Top.moving \in unsent \ sent => Top.moving \in raced

(* The folders a listing showed are in the folder that was listed.          *)
Nested == At({"walk"}) => \A i \in 1 .. Len(pass.stack) :
              \A g \in pass.stack[i].folders : Within(g, pass.stack[i].dir)

(* The times of retirements have passed.                                    *)
MarksPast == /\ \A x \in Notes : retired[x] # None => retired[x].at <= clock
             /\ pass # Idle => pass.chosen <= clock

(* What is being cleaned up was chosen before the owner's last event there. *)
MayGo(g) == \/ created[g] = 0 \/ created[g] > pass.chosen
            \/ pass.loop = "shells" /\ created[g] <= Newest
ChosenBefore ==
    /\ At({"roots", "extra"}) => pass.loop = "extra"
    /\ At({"shells"}) => pass.loop = "shells"
    /\ At({"shells", "walk", "extra"}) =>
          \A g \in Folders, f \in pass.todo : Within(g, f) => MayGo(g)
    /\ At({"walk"}) =>
          \A g \in Folders, i \in 1 .. Len(pass.stack) : Within(g, pass.stack[i].dir) => MayGo(g)

(* A run has what it needs where it needs it.                               *)
Ready ==
    /\ At({"head"}) => pass.stage = "before"
    /\ At({"scan", "plan", "commit"}) => target = None /\ pass.remote # None
    /\ pass # Idle /\ pass.stage = "resume" => pass.remote # None
    /\ At({"plan", "commit", "stage"}) => pass.scan # None /\ pass.stage = "own"
    /\ At({"commit", "stage"}) => pass.plan # None
    /\ At({"apply"}) => target # None
    /\ At({"apply", "finish"}) => pass.stage \in {"resume", "own"}

(* The folders of the checkpoint are on the disk or went from it.           *)
Covered == pass.desired \cup Above(pass.desired)
Met     == dirs \cup gone
BaseMet == target = None => base.dirs \subseteq Met
ScanMet ==
    /\ At({"plan"}) => base.dirs \ pass.scan.dirs \subseteq scanGone
    /\ At({"commit"}) => pass.remote.dirs \ pass.plan.dirs \subseteq scanGone
Cleaning == At({"retired", "shells", "walk", "make", "roots", "extra", "finish"})
                /\ pass.stage # "before"
TargetMet ==
    /\ At({"commit", "stage"}) => pass.plan.dirs \subseteq Covered
    /\ Cleaning \/ (At({"apply"}) /\ pass.stage = "own")
           => target # None /\ target.dirs \subseteq Covered
    /\ Cleaning /\ (pass.pc \in {"roots", "extra", "finish"} \/ (pass.pc = "walk"
           /\ pass.loop = "extra"))
           => target.dirs \subseteq Met

Inv == /\ TypeOK /\ SentOwn /\ SentPlans /\ MovingKnown /\ Nested /\ OwnTextStays
       /\ MarksPast /\ ChosenBefore /\ Ready /\ BaseMet /\ ScanMet /\ TargetMet

-----------------------------------------------------------------------------
(* Paths, stacks and times.                                                 *)

(* What is within a folder within another is within that other one.         *)
LEMMA WithinTrans ==
  ASSUME NEW f \in Folders, NEW g \in Folders, NEW h \in Folders,
         Within(g, f), Within(h, g)
  PROVE  Within(h, f)
<1>1. CASE g = f \/ h = g BY <1>1 DEF Within
<1>2. CASE IsStrictPrefix(f, g) /\ IsStrictPrefix(g, h)
  <2>1. f \in Seq({f[i] : i \in DOMAIN f}) /\ g \in Seq({g[i] : i \in DOMAIN g})
        /\ h \in Seq({h[i] : i \in DOMAIN h})
    BY PathsAssumption
  <2>2. Len(f) \in Nat /\ Len(g) \in Nat /\ Len(h) \in Nat BY <2>1
  <2>3. /\ Len(f) <= Len(g) /\ SubSeq(f, 1, Len(f)) = SubSeq(g, 1, Len(f))
        /\ Len(g) <= Len(h) /\ SubSeq(g, 1, Len(g)) = SubSeq(h, 1, Len(g))
    BY <1>2 DEF IsStrictPrefix, IsPrefix
  <2>4. \A i \in 1 .. Len(f) : f[i] = g[i]
    <3>1. \A i \in 1 .. Len(f) : SubSeq(f, 1, Len(f))[i] = f[i] /\ SubSeq(g, 1, Len(f))[i] = g[i]
      BY <2>1, <2>2, <2>3
    <3> QED BY <3>1, <2>3
  <2>5. \A i \in 1 .. Len(g) : g[i] = h[i]
    <3>1. \A i \in 1 .. Len(g) : SubSeq(g, 1, Len(g))[i] = g[i] /\ SubSeq(h, 1, Len(g))[i] = h[i]
      BY <2>1, <2>2, <2>3
    <3> QED BY <3>1, <2>3
  <2>6. \A i \in 1 .. Len(f) : f[i] = h[i] BY <2>2, <2>3, <2>4, <2>5
  <2>7. SubSeq(f, 1, Len(f)) = SubSeq(h, 1, Len(f))
    <3>1. SubSeq(f, 1, Len(f)) = [i \in 1 .. Len(f) |-> f[i]] BY <2>1, <2>2
    <3>2. SubSeq(h, 1, Len(f)) = [i \in 1 .. Len(f) |-> h[i]] BY <2>1, <2>2, <2>3
    <3> QED BY <3>1, <3>2, <2>6
  <2>8. f # h
    <3>1. SUFFICES ASSUME f = h PROVE FALSE OBVIOUS
    <3>2. Len(f) = Len(g) BY <3>1, <2>2, <2>3
    <3>3. f = g
      <4>1. f = [i \in 1 .. Len(f) |-> f[i]] /\ g = [i \in 1 .. Len(g) |-> g[i]]
        BY <2>1
      <4> QED BY <4>1, <3>2, <2>4
    <3> QED BY <3>3, <1>2 DEF IsStrictPrefix
  <2> QED BY <2>2, <2>3, <2>7, <2>8 DEF Within, Under, IsStrictPrefix, IsPrefix
<1> QED BY <1>1, <1>2 DEF Within, Under

(* The top of a stack is taken away, ...                                    *)
LEMMA TopGone ==
  ASSUME NEW S, NEW s \in Seq(S), Len(s) > 0
  PROVE  /\ Front(s) \in Seq(S) /\ Len(Front(s)) = Len(s) - 1
         /\ \A i \in 1 .. Len(s) - 1 : Front(s)[i] = s[i]
         /\ Last(s) = s[Len(s)] /\ s[Len(s)] \in S
<1>1. Len(s) - 1 \in Nat /\ Len(s) \in Nat /\ \A i \in 1 .. Len(s) : s[i] \in S
  OBVIOUS
<1>2. Front(s) = [i \in 1 .. Len(s) - 1 |-> s[i]] BY <1>1 DEF Front
<1> QED BY <1>1, <1>2 DEF Last

(* ... exchanged for another, ...                                           *)
LEMMA TopSet ==
  ASSUME NEW S, NEW s \in Seq(S), Len(s) > 0, NEW e \in S
  PROVE  /\ Append(Front(s), e) \in Seq(S) /\ Len(Append(Front(s), e)) = Len(s)
         /\ Append(Front(s), e)[Len(s)] = e
         /\ \A i \in 1 .. Len(s) - 1 : Append(Front(s), e)[i] = s[i]
<1>1. /\ Front(s) \in Seq(S) /\ Len(Front(s)) = Len(s) - 1
      /\ \A i \in 1 .. Len(s) - 1 : Front(s)[i] = s[i]
  BY TopGone
<1> HIDE DEF Front
<1> QED BY <1>1

(* ... or something is put on it.                                           *)
LEMMA Pushed ==
  ASSUME NEW S, NEW s \in Seq(S), NEW e \in S
  PROVE  /\ Append(s, e) \in Seq(S) /\ Len(Append(s, e)) = Len(s) + 1
         /\ Append(s, e)[Len(s) + 1] = e
         /\ \A i \in 1 .. Len(s) : Append(s, e)[i] = s[i]
OBVIOUS

(* A set of numbers has a least one.                                        *)
LEMMA LeastNumber ==
  ASSUME NEW T \in SUBSET Nat, T # {}
  PROVE  \E n \in T : \A m \in T : n <= m
<1>1. \E n \in T : \A m \in T : ~(<<m, n>> \in OpToRel(<, Nat))
  <2> DEFINE R == OpToRel(<, Nat)
  <2>1. IsWellFoundedOn(R, Nat) BY NatLessThanWellFounded
  <2> HIDE DEF R
  <2>2. \E n \in T : \A m \in T : ~(<<m, n>> \in R) BY <2>1, WFMin
  <2> QED BY <2>2 DEF R
<1>2. PICK n \in T : \A m \in T : ~(<<m, n>> \in OpToRel(<, Nat))
  BY <1>1, Zenon
<1>3. ASSUME NEW m \in T PROVE n <= m
  <2>1. ~(<<m, n>> \in {ss \in Nat \X Nat : ss[1] < ss[2]})
    BY <1>2, Zenon DEF OpToRel
  <2>2. m \in Nat /\ n \in Nat OBVIOUS
  <2>3. <<m, n>> \in Nat \X Nat /\ <<m, n>>[1] = m /\ <<m, n>>[2] = n
    BY <2>2
  <2>4. ~(m < n) BY <2>1, <2>3
  <2> QED BY <2>4, <2>2
<1> QED BY <1>3, <1>2

(* A bounded set of numbers has a greatest one, and Max is it.              *)
LEMMA GreatestNumber ==
  ASSUME NEW T \in SUBSET Nat, T # {}, NEW n \in Nat, \A m \in T : m <= n
  PROVE  Max(T) \in T /\ \A m \in T : m <= Max(T)
<1> DEFINE U == {b \in Nat : \A m \in T : m <= b}
<1>1. U \in SUBSET Nat /\ U # {} OBVIOUS
<1>2. PICK b \in U : \A c \in U : b <= c
  <2> HIDE DEF U
  <2> QED BY <1>1, LeastNumber
<1>3. b \in Nat /\ \A m \in T : m <= b BY <1>2
<1>4. b \in T
  <2>1. SUFFICES ASSUME b \notin T PROVE FALSE OBVIOUS
  <2>2. b # 0
    <3>1. PICK m \in T : TRUE OBVIOUS
    <3>2. m \in Nat /\ m <= b /\ m # b BY <3>1, <2>1, <1>3
    <3> QED BY <3>2
  <2>3. b - 1 \in Nat BY <2>2, <1>3
  <2>4. \A m \in T : m <= b - 1 BY <2>1, <1>3
  <2>5. b - 1 \in U BY <2>3, <2>4
  <2>6. b <= b - 1 BY <2>5, <1>2
  <2> QED BY <2>6, <1>3
<1>5. \E x \in T : \A y \in T : x >= y BY <1>3, <1>4
<1>6. Max(T) \in T /\ \A y \in T : Max(T) >= y BY <1>5 DEF Max
<1> QED BY <1>6

(* The latest retirement, and the latest one below a folder.                *)
LEMMA Newests ==
  ASSUME TypeOK, MarksPast
  PROVE  /\ Newest \in Nat
         /\ \A f \in Folders : RetiredUnder(f) # {} =>
               Max(RetiredUnder(f)) \in Nat /\ Max(RetiredUnder(f)) <= Newest
<1>1. Times \in SUBSET Nat /\ \A t \in Times : t <= clock
  BY DEF TypeOK, TypeSettings, Marks, MarksPast, Times
<1>2. clock \in Nat BY DEF TypeOK, TypeRest
<1>3. Times # {} => Newest \in Times /\ \A t \in Times : t <= Newest
  <2> HIDE DEF Times
  <2> QED BY <1>1, <1>2, GreatestNumber DEF Newest
<1>4. ASSUME NEW f \in Folders, RetiredUnder(f) # {}
      PROVE  Max(RetiredUnder(f)) \in Times
  <2>1. RetiredUnder(f) \subseteq Times BY DEF RetiredUnder, Times
  <2>2. RetiredUnder(f) \in SUBSET Nat /\ \A t \in RetiredUnder(f) : t <= clock
    BY <1>1, <2>1
  <2> HIDE DEF RetiredUnder, Times
  <2>3. Max(RetiredUnder(f)) \in RetiredUnder(f) BY <1>4, <1>2, <2>2, GreatestNumber
  <2> QED BY <2>1, <2>3
<1>5. Newest \in Nat BY <1>1, <1>3 DEF Newest
<1>6. ASSUME NEW f \in Folders, RetiredUnder(f) # {}
      PROVE  Max(RetiredUnder(f)) \in Nat /\ Max(RetiredUnder(f)) <= Newest
  <2>1. Max(RetiredUnder(f)) \in Times BY <1>4, <1>6
  <2> HIDE DEF Times, RetiredUnder, Newest
  <2> QED BY <2>1, <1>1, <1>3
<1> QED BY <1>5, <1>6

(* A run under way is a full record.                                        *)
LEMMA PassFacts ==
  ASSUME TypePass
  PROVE  /\ pass # Idle => pass \in Passes
         /\ pass.pc \in Places => pass \in Passes /\ pass # Idle
         /\ pass \in Passes => pass # Idle
         /\ pass # Idle => "touched" \in DOMAIN pass
         /\ pass = Idle => "touched" \notin DOMAIN pass
<1>1. Idle.pc = "idle" /\ "touched" \notin DOMAIN Idle BY DEF Idle
<1>2. "idle" \notin Places BY DEF Places
<1>3. pass \in Passes => pass.pc \in Places /\ "touched" \in DOMAIN pass BY DEF Passes
<1> QED BY <1>1, <1>2, <1>3 DEF TypePass

-----------------------------------------------------------------------------
(* What a step changes of a run.                                            *)

SamePlan(p, q) ==
    /\ q.stage = p.stage /\ q.desired = p.desired
    /\ q.remote = p.remote /\ q.scan = p.scan /\ q.plan = p.plan
SameRoots(p, q) == q.loop = p.loop /\ q.chosen = p.chosen /\ q.todo = p.todo
SamePass ==
    /\ TypePass' /\ (pass' = Idle <=> pass = Idle) /\ pass'.pc = pass.pc
    /\ pass'.stack = pass.stack /\ SamePlan(pass, pass') /\ SameRoots(pass, pass')

(* The owner's events leave a run where it is.                              *)
LEMMA OwnerPass ==
  ASSUME TypePass, NEW notes \in SUBSET Notes, Noted(notes) \/ FolderEvent(notes)
  PROVE  SamePass
<1>1. CASE pass = Idle
  <2>1. pass' = pass BY <1>1, PassFacts DEF Noted, FolderEvent
  <2> QED BY <1>1, <2>1 DEF SamePass, TypePass, SamePlan, SameRoots
<1>2. CASE pass # Idle
  <2>1. pass \in Passes /\ "touched" \in DOMAIN pass BY <1>2, PassFacts
  <2>2. \/ pass' = [pass EXCEPT !.touched = @ \cup notes]
        \/ pass' = [pass EXCEPT !.touched = @ \cup notes, !.refull = TRUE]
    BY <2>1 DEF Noted, FolderEvent
  <2>3. pass' \in Passes
    <3>1. pass.touched \cup notes \in SUBSET Notes BY <2>1 DEF Passes
    <3>2. CASE pass' = [pass EXCEPT !.touched = @ \cup notes] BY <2>1, <3>1, <3>2 DEF Passes
    <3>3. CASE pass' = [pass EXCEPT !.touched = @ \cup notes, !.refull = TRUE]
      BY <2>1, <3>1, <3>3 DEF Passes
    <3> QED BY <2>2, <3>2, <3>3
  <2>4. /\ pass'.pc = pass.pc /\ pass'.stack = pass.stack
        /\ SamePlan(pass, pass') /\ SameRoots(pass, pass')
    BY <2>1, <2>2 DEF Passes, SamePlan, SameRoots
  <2>5. pass' # Idle
    <3>1. "idle" \notin Places /\ Idle.pc = "idle" BY DEF Places, Idle
    <3>2. pass'.pc \in Places BY <2>3 DEF Passes
    <3> QED BY <3>1, <3>2
  <2> QED BY <1>2, <2>3, <2>4, <2>5 DEF SamePass, TypePass
<1> QED BY <1>1, <1>2

(* A record of a run under way is not the idle one.                         *)
LEMMA NotIdle == ASSUME NEW p \in Passes PROVE p # Idle /\ p.pc # "idle"
<1>1. "idle" \notin Places /\ Idle.pc = "idle" BY DEF Places, Idle
<1>2. p.pc \in Places BY DEF Passes
<1> QED BY <1>1, <1>2

(* The fields of a run under way.                                           *)
LEMMA PassTypes ==
  ASSUME TypePass, pass # Idle
  PROVE  /\ pass \in Passes /\ pass.pc \in Places /\ pass.stage \in {"before", "resume", "own"}
         /\ pass.loop \in {"", "shells", "extra"} /\ pass.stack \in Seq(Frames)
         /\ pass.todo \in SUBSET Folders /\ pass.chosen \in Nat
         /\ pass.desired \in SUBSET Folders /\ pass.before \in SUBSET Folders
         /\ pass.remote \in Trees \cup {None} /\ pass.scan \in Trees \cup {None}
         /\ pass.plan \in Trees \cup {None} /\ pass.intents \in Made
         /\ pass.touched \in SUBSET Notes /\ pass.refull \in BOOLEAN
         /\ pass.full \in BOOLEAN
BY PassFacts DEF Passes

(* Frames of the folders on the disk.                                       *)
LEMMA FrameType ==
  ASSUME TypeDisk, NEW f \in Folders
  PROVE  /\ Frame(f) \in Frames /\ Frame(f).dir = f /\ Frame(f).moving = None
         /\ \A g \in Frame(f).folders : g \in Folders /\ Within(g, f)
BY DEF TypeDisk, Frame, Frames, FilesIn, Within

(* None is no file.                                                         *)
LEMMA NoneNote == None \notin Notes /\ None \notin Files
BY NoneAssumption DEF Notes

(* A step of the walk keeps to the folders the walk is about: what it is in *)
(* afterwards is within a folder it was in, and what it goes back to is the *)
(* loop it came from.                                                       *)
Walks ==
    /\ pass \in Passes /\ pass' \in Passes /\ pass.pc = "walk"
    /\ SamePlan(pass, pass') /\ SameRoots(pass, pass')
    /\ pass'.pc \in {"walk", pass.loop}
    /\ pass'.pc = "walk" => \A i \in 1 .. Len(pass'.stack) :
          /\ \E j \in 1 .. Len(pass.stack) : Within(pass'.stack[i].dir, pass.stack[j].dir)
          /\ \A g \in pass'.stack[i].folders : Within(g, pass'.stack[i].dir)

(* The walk stays within what was chosen.                                   *)
LEMMA WalkKeeps ==
  ASSUME Inv, Walks, UNCHANGED <<created, retired>>
  PROVE  pass' # Idle /\ Nested' /\ ChosenBefore'
<1>1. /\ pass # Idle /\ pass' # Idle /\ pass.loop \in {"shells", "extra"}
             /\ pass.stack \in Seq(Frames)
      /\ pass'.stack \in Seq(Frames)
  <2>1. pass # Idle /\ pass' # Idle BY NotIdle DEF Walks
  <2>2. pass.loop # "" BY <2>1 DEF Walks, Inv, MovingKnown, At
  <2> QED BY <2>1, <2>2 DEF Walks, Passes
<1>2. Nested' BY <1>1 DEF Walks, Nested, At
<1>3. ASSUME NEW g \in Folders, MayGo(g) PROVE MayGo(g)'
  <2>1. Newest' = Newest BY DEF Newest, Times
  <2> QED BY <1>3, <2>1 DEF MayGo, Walks, SameRoots
<1>4. \A g \in Folders, f \in pass.todo : Within(g, f) => MayGo(g)
  BY <1>1 DEF Walks, Inv, ChosenBefore, At
<1>5. \A g \in Folders, i \in 1 .. Len(pass.stack) : Within(g, pass.stack[i].dir) => MayGo(g)
  BY <1>1 DEF Walks, Inv, ChosenBefore, At
<1>6. ASSUME pass'.pc = "walk", NEW g \in Folders, NEW i \in 1 .. Len(pass'.stack),
             Within(g, pass'.stack[i].dir)
      PROVE  MayGo(g)
  <2>1. PICK j \in 1 .. Len(pass.stack) : Within(pass'.stack[i].dir, pass.stack[j].dir)
    BY <1>6 DEF Walks
  <2>2. pass'.stack[i].dir \in Folders /\ pass.stack[j].dir \in Folders
    <3>1. pass'.stack[i] \in Frames /\ pass.stack[j] \in Frames BY <1>1
    <3> QED BY <3>1 DEF Frames
  <2>3. Within(g, pass.stack[j].dir) BY <1>6, <2>1, <2>2, WithinTrans
  <2> QED BY <2>3, <1>5
<1>7. \A g \in Folders, f \in pass'.todo : Within(g, f) => MayGo(g)'
  BY <1>3, <1>4 DEF Walks, SameRoots
<1>8. pass'.pc = "walk" => \A g \in Folders, i \in 1 .. Len(pass'.stack) :
                              Within(g, pass'.stack[i].dir) => MayGo(g)'
  BY <1>3, <1>6
<1> QED BY <1>1, <1>2, <1>7, <1>8 DEF Walks, SameRoots, ChosenBefore, At

(* The walk as it stands.                                                   *)
LEMMA WalkFacts ==
  ASSUME Inv, pass.pc = "walk"
  PROVE  /\ pass \in Passes /\ pass # Idle /\ pass.loop \in {"shells", "extra"}
         /\ pass.stack \in Seq(Frames) /\ Len(pass.stack) \in Nat /\ Len(pass.stack) > 0
         /\ Top = pass.stack[Len(pass.stack)] /\ Top \in Frames
         /\ \A i \in 1 .. Len(pass.stack) - 1 : pass.stack[i].moving = None
         /\ \A i \in 1 .. Len(pass.stack) : /\ pass.stack[i] \in Frames
               /\ Within(pass.stack[i].dir, pass.stack[i].dir)
               /\ \A g \in pass.stack[i].folders : Within(g, pass.stack[i].dir)
<1>1. pass \in Passes /\ pass # Idle BY PassFacts DEF Inv, TypeOK, Places
<1>2. Len(pass.stack) > 0 /\ pass.loop # "" BY <1>1 DEF Inv, MovingKnown, At
<1>3. pass.stack \in Seq(Frames) /\ pass.loop \in {"shells", "extra"} BY <1>1, <1>2 DEF Passes
<1>4. Top = pass.stack[Len(pass.stack)] /\ Top \in Frames BY <1>2, <1>3, TopGone DEF Top
<1>5. \A i \in 1 .. Len(pass.stack) : Within(pass.stack[i].dir, pass.stack[i].dir) BY DEF Within
<1>6. \A i \in 1 .. Len(pass.stack) : pass.stack[i] \in Frames BY <1>3
<1>7. /\ \A i \in 1 .. Len(pass.stack) - 1 : pass.stack[i].moving = None
      /\ \A i \in 1 .. Len(pass.stack) :
             \A g \in pass.stack[i].folders : Within(g, pass.stack[i].dir)
  BY <1>1 DEF Inv, MovingKnown, Nested, At
<1>8. Len(pass.stack) \in Nat BY <1>3
<1> QED BY <1>1, <1>2, <1>3, <1>4, <1>5, <1>6, <1>7, <1>8

(* The top folder is looked at further, ...                                 *)
LEMMA TopStep ==
  ASSUME Inv, pass.pc = "walk", NEW e \in Frames, e.dir = Top.dir, e.folders \subseteq Top.folders,
         pass' = SetTop(e)
  PROVE  Walks /\ pass'.pc = "walk" /\ Len(pass'.stack) > 0 /\ Top' = e
         /\ \A i \in 1 .. Len(pass'.stack) - 1 : pass'.stack[i].moving = None
<1> DEFINE n == Len(pass.stack)
           s == Append(Front(pass.stack), e)
<1>1. /\ s \in Seq(Frames) /\ Len(s) = n /\ s[n] = e
      /\ \A i \in 1 .. n - 1 : s[i] = pass.stack[i]
  BY WalkFacts, TopSet
<1>2. pass' = [pass EXCEPT !.stack = s] BY DEF SetTop
<1> HIDE DEF s
<1>3. pass' \in Passes /\ pass'.stack = s /\ pass'.pc = "walk" /\ SamePlan(pass, pass')
          /\ SameRoots(pass, pass')
  BY <1>1, <1>2, WalkFacts DEF Passes, SamePlan, SameRoots
<1>4. ASSUME NEW i \in 1 .. n PROVE s[i].dir = pass.stack[i].dir
          /\ s[i].folders \subseteq pass.stack[i].folders
  BY <1>1, WalkFacts
<1>5. Top' = e BY <1>1, <1>3, WalkFacts, TopGone DEF Top, Last
<1> QED BY <1>1, <1>3, <1>4, <1>5, WalkFacts DEF Walks

(* ... a folder in it is gone into, ...                                     *)
LEMMA PushStep ==
  ASSUME Inv, pass.pc = "walk", NEW e \in Frames, e.dir = Top.dir, e.folders \subseteq Top.folders,
         e.moving = None, NEW g \in Top.folders,
         pass' = [SetTop(e) EXCEPT !.stack = Append(@, Frame(g))]
  PROVE  Walks /\ pass'.pc = "walk" /\ Len(pass'.stack) > 0 /\ Top'.moving = None
         /\ \A i \in 1 .. Len(pass'.stack) - 1 : pass'.stack[i].moving = None
<1> DEFINE n == Len(pass.stack)
           s == Append(Front(pass.stack), e)
           t == Append(s, Frame(g))
<1>0. /\ n \in Nat /\ n > 0 /\ g \in Folders /\ Within(g, pass.stack[n].dir)
      /\ pass.stack[n].dir = e.dir
  <2>1. /\ n \in Nat /\ n > 0 /\ Top = pass.stack[n] /\ Top \in Frames
        /\ \A i \in 1 .. n : \A h \in pass.stack[i].folders : Within(h, pass.stack[i].dir)
    BY WalkFacts
  <2>2. n \in 1 .. n BY <2>1
  <2>3. g \in Folders BY <2>1 DEF Frames
  <2> QED BY <2>1, <2>2, <2>3
<1>1. /\ s \in Seq(Frames) /\ Len(s) = n /\ s[n] = e
      /\ \A i \in 1 .. n - 1 : s[i] = pass.stack[i]
  BY WalkFacts, TopSet
<1>2. /\ Frame(g) \in Frames /\ Frame(g).dir = g /\ Frame(g).moving = None
      /\ \A h \in Frame(g).folders : Within(h, g)
  BY <1>0, FrameType DEF Inv, TypeOK
<1> HIDE DEF s
<1>3. t \in Seq(Frames) /\ Len(t) = n + 1 /\ t[n + 1] = Frame(g) /\ \A i \in 1 .. n : t[i] = s[i]
  BY <1>1, <1>2
<1>4. pass' = [pass EXCEPT !.stack = t]
  <2>1. SetTop(e).stack = s BY WalkFacts DEF SetTop, Passes, s
  <2> QED BY <2>1, WalkFacts DEF SetTop, Passes
<1> HIDE DEF t
<1>5. pass' \in Passes /\ pass'.stack = t /\ pass'.pc = "walk" /\ SamePlan(pass, pass')
          /\ SameRoots(pass, pass')
  BY <1>3, <1>4, WalkFacts DEF Passes, SamePlan, SameRoots
<1>6. ASSUME NEW i \in 1 .. n
      PROVE  /\ t[i].dir = pass.stack[i].dir /\ t[i].folders \subseteq pass.stack[i].folders
             /\ t[i].moving = None
  BY <1>0, <1>1, <1>3, WalkFacts
<1>7. Top' = Frame(g) BY <1>0, <1>3, <1>5 DEF Top, Last
<1>8. ASSUME NEW i \in 1 .. n + 1
      PROVE  /\ \E j \in 1 .. n : Within(t[i].dir, pass.stack[j].dir)
             /\ \A h \in t[i].folders : Within(h, t[i].dir)
  <2>1. CASE i \in 1 .. n
    <3>1. /\ Within(pass.stack[i].dir, pass.stack[i].dir)
          /\ \A h \in pass.stack[i].folders : Within(h, pass.stack[i].dir)
      BY <2>1, WalkFacts
    <3> QED BY <2>1, <3>1, <1>6
  <2>2. CASE i = n + 1 BY <2>2, <1>0, <1>2, <1>3
  <2> QED BY <2>1, <2>2, <1>0
<1>9. Walks BY <1>3, <1>5, <1>8, WalkFacts DEF Walks
<1>10. Len(pass'.stack) > 0 /\ \A i \in 1 .. Len(pass'.stack) - 1 : pass'.stack[i].moving = None
  <2>1. Len(pass'.stack) = n + 1 /\ pass'.stack = t BY <1>3, <1>5
  <2> QED BY <2>1, <1>0, <1>6
<1> QED BY <1>2, <1>5, <1>7, <1>9, <1>10

(* ... left for the one below it or for the loop, ...                       *)
LEMMA PopStep ==
  ASSUME Inv, pass.pc = "walk", pass' = Pop
  PROVE  Walks /\ (pass'.pc = "walk" => /\ Len(pass'.stack) > 0 /\ Top'.moving = None
                      /\ \A i \in 1 .. Len(pass'.stack) : pass'.stack[i].moving = None)
<1> DEFINE n == Len(pass.stack)
           s == Front(pass.stack)
           p == IF n = 1 THEN pass.loop ELSE "walk"
<1>1. s \in Seq(Frames) /\ Len(s) = n - 1 /\ \A i \in 1 .. n - 1 : s[i] = pass.stack[i]
  BY WalkFacts, TopGone
<1>2. pass' = [pass EXCEPT !.stack = s, !.pc = p] BY DEF Pop
<1>3. p \in {"walk", pass.loop} /\ p \in Places /\ (p = "walk" => n # 1)
  BY WalkFacts DEF Places
<1> HIDE DEF s, p
<1>4. pass' \in Passes /\ pass'.stack = s /\ pass'.pc = p /\ SamePlan(pass, pass')
          /\ SameRoots(pass, pass')
  BY <1>1, <1>2, <1>3, WalkFacts DEF Passes, SamePlan, SameRoots
<1>5. \A i \in 1 .. n - 1 : i \in 1 .. n /\ s[i].moving = None BY <1>1, WalkFacts
<1>6. p = "walk" => Len(s) > 0 /\ Top' = s[n - 1]
  <2>0. n \in Nat /\ n > 0 BY WalkFacts
  <2>a. Len(s) = n - 1 BY <1>1
  <2>b. p = "walk" => n # 1 BY <1>3
  <2>1. p = "walk" => Len(s) > 0 /\ Len(s) = n - 1
    <3> HIDE DEF n
    <3> QED BY <2>0, <2>a, <2>b
  <2>2. Top' = s[Len(s)] BY <1>4 DEF Top, Last
  <2> QED BY <2>1, <2>2
<1>7. p = "walk" => n - 1 \in 1 .. n - 1 BY <1>1, <1>6, WalkFacts
<1> QED BY <1>1, <1>3, <1>4, <1>5, <1>6, <1>7, WalkFacts DEF Walks

(* ... or given up with all the others.                                     *)
LEMMA GiveUpStep ==
  ASSUME Inv, pass.pc = "walk", pass' = GiveUp
  PROVE  Walks /\ pass'.pc # "walk"
<1>1. pass' \in Passes /\ pass'.pc = pass.loop /\ SamePlan(pass, pass') /\ SameRoots(pass, pass')
  <2>1. pass.loop \in Places /\ pass \in Passes BY WalkFacts DEF Places
  <2>2. pass' = [pass EXCEPT !.stack = <<>>, !.pc = pass.loop, !.failed = TRUE] BY DEF GiveUp
  <2>3. <<>> \in Seq(Frames) OBVIOUS
  <2> QED BY <2>1, <2>2, <2>3 DEF Passes, SamePlan, SameRoots
<1> QED BY <1>1, WalkFacts DEF Walks

(* What else a step of the walk leaves as it is.                            *)
LEMMA WalkRest ==
  ASSUME Inv, Walks, Met \subseteq Met',
         UNCHANGED <<head, base, target, sent, clock, retired, scanGone>>
  PROVE  TypePass' /\ SentPlans' /\ MarksPast' /\ Ready' /\ ScanMet' /\ TargetMet' /\ BaseMet'
<1>1. /\ pass # Idle /\ pass' # Idle /\ pass.loop \in {"shells", "extra"}
      /\ pass'.pc \in {"walk", pass.loop} /\ pass.pc = "walk" /\ pass' \in Passes
  BY NotIdle, WalkFacts DEF Walks
<1>2. TypePass' BY <1>1 DEF TypePass
<1>3. SentPlans' BY <1>1 DEF Inv, SentPlans, At, Walks, SamePlan
<1>4. MarksPast' BY <1>1 DEF Inv, MarksPast, Walks, SameRoots
<1>5. Ready' BY <1>1 DEF Inv, Ready, At, Walks, SamePlan
<1>6. ScanMet' BY <1>1 DEF Inv, ScanMet, At
<1>7. TargetMet'
  BY <1>1 DEF Inv, TargetMet, At, Cleaning, Covered, Walks, SamePlan, SameRoots
<1>8. BaseMet' BY DEF Inv, BaseMet
<1> QED BY <1>2, <1>3, <1>4, <1>5, <1>6, <1>7, <1>8

(* The owner makes a folder, later than all that was chosen.                *)
LEMMA MakeFolderStep ==
  ASSUME Inv, NEW f \in Folders, Owner, MakeFolder(f)
  PROVE  Inv'
<1>a. UNCHANGED <<file, trash, head, base, retired, last, count, error, target, far, unsent, sent,
                  raced, scanGone>>
  BY DEF MakeFolder, Owner, tree
<1>r. /\ f \in Folders \ dirs /\ dirs' = dirs \cup {f} /\ gone' = gone \ {f}
      /\ clock' = clock + 1 /\ created' = [created EXCEPT ![f] = clock + 1]
      /\ made' = [made EXCEPT !.folders = @ \cup {f}] /\ full' = TRUE
      /\ pending' = pending /\ own > 0 /\ own' = own - 1
  BY DEF MakeFolder, FolderEvent, Owner
<1>p. SamePass BY OwnerPass DEF MakeFolder, Inv, TypeOK
<1>n. ASSUME pass # Idle, NEW g \in Folders, MayGo(g) PROVE MayGo(g)'
  <2>1. Newest' = Newest BY <1>a DEF Newest, Times
  <2>2. /\ pass'.chosen = pass.chosen /\ pass'.loop = pass.loop
        /\ pass.chosen \in Nat /\ clock \in Nat /\ pass.chosen <= clock
    BY <1>n, <1>p, PassTypes DEF SamePass, SameRoots, Inv, TypeOK, TypeRest, MarksPast
  <2>3. g = f => created'[g] > pass.chosen
    BY <1>r, <2>2 DEF Inv, TypeOK, TypeSettings
  <2>4. g # f => created'[g] = created[g]
    BY <1>r DEF Inv, TypeOK, TypeSettings
  <2> QED BY <1>n, <2>1, <2>2, <2>3, <2>4 DEF MayGo
<1>1. TypeDisk'
  BY <1>a, <1>r DEF Inv, TypeOK, TypeDisk, TypeDisk
<1>2. TypeTrees' BY <1>a DEF Inv, TypeOK, TypeTrees
<1>3. TypeSettings'
  BY <1>a, <1>r DEF Inv, TypeOK, TypeSettings, TypeSettings, TypeRest
<1>4. TypeGhosts'
  BY <1>a, <1>r DEF Inv, TypeOK, TypeGhosts, TypeGhosts
<1>5. TypePass'
  BY <1>p DEF SamePass
<1>6. TypeRest'
  BY <1>a, <1>r DEF Inv, TypeOK, TypeRest, Made, TypeRest
<1>7. SentOwn' BY <1>a DEF Inv, TypeOK, SentOwn, Owns
<1>8. SentPlans'
  BY <1>a, <1>p DEF Inv, SentPlans, At, SamePass, SamePlan
<1>9. MovingKnown'
  BY <1>a, <1>p DEF Inv, MovingKnown, At, Top, SamePass, SameRoots
<1>10. Nested'
  BY <1>p DEF Inv, Nested, At, SamePass
<1>11. OwnTextStays' BY <1>a DEF Inv, TypeOK, OwnTextStays
<1>12. MarksPast'
  <2>1. clock \in Nat /\ clock' = clock + 1 BY <1>r DEF Inv, TypeOK, TypeRest
  <2>2. \A x \in Notes : retired[x] # None => retired[x].at \in Nat /\ retired[x].at <= clock
    BY DEF Inv, TypeOK, TypeSettings, MarksPast, Marks
  <2>3. pass # Idle => pass.chosen \in Nat /\ pass.chosen <= clock
    BY PassTypes DEF Inv, TypeOK, MarksPast
  <2> QED BY <1>a, <1>p, <2>1, <2>2, <2>3 DEF MarksPast, SamePass, SameRoots
<1>13. ChosenBefore'
  BY <1>a, <1>p, <1>n, PassFacts
     DEF Inv, TypeOK, ChosenBefore, At, SamePass, SamePlan, SameRoots
<1>14. Ready'
  BY <1>a, <1>p DEF Inv, Ready, At, SamePass, SamePlan
<1>15. BaseMet'
  BY <1>a, <1>r DEF Inv, BaseMet, Met
<1>16. ScanMet'
  BY <1>a, <1>p DEF Inv, ScanMet, At, SamePass, SamePlan
<1>17. TargetMet'
  BY <1>a, <1>p, <1>r DEF Inv, TargetMet, At, Cleaning, Covered, Met, SamePass, SamePlan, SameRoots
<1> QED
  BY <1>1, <1>2, <1>3, <1>4, <1>5, <1>6, <1>7, <1>8, <1>9, <1>10, <1>11, <1>12, <1>13, <1>14,
     <1>15, <1>16, <1>17
     DEF Inv, TypeOK

(* The owner removes a folder with what is in it.                           *)
LEMMA RemoveFolderStep ==
  ASSUME Inv, NEW f \in Folders, Owner, RemoveFolder(f)
  PROVE  Inv'
<1>a. UNCHANGED <<trash, head, base, retired, created, last, count, error, target, clock, far,
                  sent, raced, scanGone>>
  BY DEF RemoveFolder, Owner, tree
<1> DEFINE lost == {x \in Notes : Within(x.dir, f) /\ file[x] # None}
<1>r. /\ dirs' \subseteq dirs /\ gone' = gone \cup (dirs \ dirs')
      /\ file' = [x \in Files |-> IF Within(x.dir, f) THEN None ELSE file[x]]
      /\ made' = [folders |-> {g \in made.folders : ~Within(g, f)}, notes |-> made.notes \ lost]
      /\ unsent' = unsent \ lost /\ full' = TRUE /\ pending' = pending \cup lost
      /\ own > 0 /\ own' = own - 1
  BY DEF RemoveFolder, FolderEvent, Owner
<1>p. SamePass BY OwnerPass DEF RemoveFolder, Inv, TypeOK
<1>1. TypeDisk'
  BY <1>a, <1>r DEF Inv, TypeOK, TypeDisk, TypeDisk
<1>2. TypeTrees' BY <1>a DEF Inv, TypeOK, TypeTrees
<1>3. TypeSettings'
  BY <1>a, <1>r DEF Inv, TypeOK, TypeSettings, TypeSettings
<1>4. TypeGhosts'
  BY <1>a, <1>r DEF Inv, TypeOK, TypeGhosts, TypeDisk, TypeGhosts
<1>5. TypePass'
  BY <1>p DEF SamePass
<1>6. TypeRest'
  BY <1>a, <1>r DEF Inv, TypeOK, TypeRest, Made, TypeRest
<1>7. SentOwn' BY <1>a DEF Inv, TypeOK, SentOwn, Owns
<1>8. SentPlans'
  BY <1>a, <1>p DEF Inv, SentPlans, At, SamePass, SamePlan
<1>9. MovingKnown'
  BY <1>a, <1>p, <1>r DEF Inv, MovingKnown, At, Top, SamePass, SameRoots
<1>10. Nested'
  BY <1>p DEF Inv, Nested, At, SamePass
<1>11. OwnTextStays'
  BY <1>a, <1>r DEF Inv, TypeOK, OwnTextStays, TypeGhosts, Notes, TypeGhosts
<1>12. MarksPast'
  BY <1>a, <1>p DEF Inv, MarksPast, SamePass, SameRoots
<1>13. ChosenBefore'
  BY <1>a, <1>p, <1>r, PassFacts
     DEF Inv, TypeOK, ChosenBefore, At, MayGo, Newest, Times, SamePass, SamePlan, SameRoots,
         TypeDisk, TypeSettings, TypeGhosts, TypeRest
<1>14. Ready'
  BY <1>a, <1>p DEF Inv, Ready, At, SamePass, SamePlan
<1>15. BaseMet'
  BY <1>a, <1>r DEF Inv, BaseMet, Met
<1>16. ScanMet'
  BY <1>a, <1>p DEF Inv, ScanMet, At, SamePass, SamePlan
<1>17. TargetMet'
  BY <1>a, <1>p, <1>r DEF Inv, TargetMet, At, Cleaning, Covered, Met, SamePass, SamePlan, SameRoots
<1> QED
  BY <1>1, <1>2, <1>3, <1>4, <1>5, <1>6, <1>7, <1>8, <1>9, <1>10, <1>11, <1>12, <1>13, <1>14,
     <1>15, <1>16, <1>17
     DEF Inv, TypeOK

(* The owner writes a note; during its retirement the text is raced.        *)
LEMMA WriteNoteStep ==
  ASSUME Inv, NEW x \in Notes, Owner, WriteNote(x)
  PROVE  Inv'
<1>a. UNCHANGED <<dirs, trash, head, base, retired, created, last, count, error, full, target,
                  clock, far, sent, gone, scanGone>>
  BY DEF WriteNote, Owner, tree
<1>r. PICK v \in {"own", "base"} :
        /\ file' = [file EXCEPT ![x] = v]
        /\ unsent' = IF v = "own" THEN unsent \cup {x} ELSE unsent \ {x}
        /\ raced' = IF v = "own" /\ Retiring(x) THEN raced \cup {x} ELSE raced \ {x}
        /\ made' = (IF file[x] = None THEN [made EXCEPT !.notes = @ \cup {x}] ELSE made)
        /\ pending' = pending \cup {x} /\ own > 0 /\ own' = own - 1
  BY DEF WriteNote, Noted, Owner
<1>p. SamePass BY OwnerPass DEF WriteNote, Inv, TypeOK
<1>1. TypeDisk'
  BY <1>a, <1>r DEF Inv, TypeOK, TypeDisk, Contents, TypeDisk
<1>2. TypeTrees' BY <1>a DEF Inv, TypeOK, TypeTrees
<1>3. TypeSettings'
  BY <1>a, <1>r DEF Inv, TypeOK, TypeSettings, TypeSettings
<1>4. TypeGhosts'
  BY <1>a, <1>r DEF Inv, TypeOK, TypeGhosts, TypeGhosts
<1>5. TypePass'
  BY <1>p DEF SamePass
<1>6. TypeRest'
  BY <1>a, <1>r DEF Inv, TypeOK, TypeRest, Made, TypeRest
<1>7. SentOwn' BY <1>a DEF Inv, TypeOK, SentOwn, Owns
<1>8. SentPlans'
  BY <1>a, <1>p DEF Inv, SentPlans, At, SamePass, SamePlan
<1>9. MovingKnown'
  BY <1>a, <1>p, <1>r DEF Inv, MovingKnown, At, Top, SamePass, SameRoots, Retiring
<1>10. Nested'
  BY <1>p DEF Inv, Nested, At, SamePass
<1>11. OwnTextStays'
  BY <1>a, <1>p, <1>r, PassFacts
     DEF Inv, TypeOK, OwnTextStays, TypeDisk, TypeGhosts, Notes, Contents, TypeDisk,
         TypeSettings, TypeGhosts, TypeRest
<1>12. MarksPast'
  BY <1>a, <1>p DEF Inv, MarksPast, SamePass, SameRoots
<1>13. ChosenBefore'
  BY <1>a, <1>p, <1>r, PassFacts
     DEF Inv, TypeOK, ChosenBefore, At, MayGo, Newest, Times, SamePass, SamePlan, SameRoots,
         TypeDisk, TypeSettings, TypeGhosts, TypeRest
<1>14. Ready'
  BY <1>a, <1>p DEF Inv, Ready, At, SamePass, SamePlan
<1>15. BaseMet' BY <1>a DEF Inv, TypeOK, BaseMet, Met
<1>16. ScanMet'
  BY <1>a, <1>p DEF Inv, ScanMet, At, SamePass, SamePlan
<1>17. TargetMet'
  BY <1>a, <1>p DEF Inv, TargetMet, At, Cleaning, Covered, Met, SamePass, SamePlan, SameRoots
<1> QED
  BY <1>1, <1>2, <1>3, <1>4, <1>5, <1>6, <1>7, <1>8, <1>9, <1>10, <1>11, <1>12, <1>13, <1>14,
     <1>15, <1>16, <1>17
     DEF Inv, TypeOK

(* The owner deletes a note.                                                *)
LEMMA DeleteNoteStep ==
  ASSUME Inv, NEW x \in Notes, Owner, DeleteNote(x)
  PROVE  Inv'
<1>a. UNCHANGED <<dirs, trash, head, base, retired, created, last, count, error, full, target,
                  clock, far, sent, raced, gone, scanGone>>
  BY DEF DeleteNote, Owner, tree
<1>r. /\ file' = [file EXCEPT ![x] = None] /\ unsent' = unsent \ {x}
      /\ made' = [made EXCEPT !.notes = @ \ {x}]
      /\ pending' = pending \cup {x} /\ own > 0 /\ own' = own - 1
  BY DEF DeleteNote, Noted, Owner
<1>p. SamePass BY OwnerPass DEF DeleteNote, Inv, TypeOK
<1>1. TypeDisk'
  BY <1>a, <1>r DEF Inv, TypeOK, TypeDisk, TypeDisk
<1>2. TypeTrees' BY <1>a DEF Inv, TypeOK, TypeTrees
<1>3. TypeSettings'
  BY <1>a, <1>r DEF Inv, TypeOK, TypeSettings, TypeSettings
<1>4. TypeGhosts'
  BY <1>a, <1>r DEF Inv, TypeOK, TypeGhosts, TypeGhosts
<1>5. TypePass'
  BY <1>p DEF SamePass
<1>6. TypeRest'
  BY <1>a, <1>r DEF Inv, TypeOK, TypeRest, Made, TypeRest
<1>7. SentOwn' BY <1>a DEF Inv, TypeOK, SentOwn, Owns
<1>8. SentPlans'
  BY <1>a, <1>p DEF Inv, SentPlans, At, SamePass, SamePlan
<1>9. MovingKnown'
  BY <1>a, <1>p, <1>r DEF Inv, MovingKnown, At, Top, SamePass, SameRoots
<1>10. Nested'
  BY <1>p DEF Inv, Nested, At, SamePass
<1>11. OwnTextStays'
  BY <1>a, <1>r DEF Inv, TypeOK, OwnTextStays, TypeDisk, TypeGhosts, Notes, TypeDisk, TypeGhosts
<1>12. MarksPast'
  BY <1>a, <1>p DEF Inv, MarksPast, SamePass, SameRoots
<1>13. ChosenBefore'
  BY <1>a, <1>p, <1>r, PassFacts
     DEF Inv, ChosenBefore, At, MayGo, Newest, Times, SamePass, SameRoots
<1>14. Ready'
  BY <1>a, <1>p DEF Inv, Ready, At, SamePass, SamePlan
<1>15. BaseMet' BY <1>a DEF Inv, TypeOK, BaseMet, Met
<1>16. ScanMet'
  BY <1>a, <1>p DEF Inv, ScanMet, At, SamePass, SamePlan
<1>17. TargetMet'
  BY <1>a, <1>p DEF Inv, TargetMet, At, Cleaning, Covered, Met, SamePass, SamePlan, SameRoots
<1> QED
  BY <1>1, <1>2, <1>3, <1>4, <1>5, <1>6, <1>7, <1>8, <1>9, <1>10, <1>11, <1>12, <1>13, <1>14,
     <1>15, <1>16, <1>17
     DEF Inv, TypeOK

(* Somebody leaves a file that is not synchronised.                         *)
LEMMA LeaveFileStep ==
  ASSUME Inv, NEW x \in Files \ Notes, Owner, LeaveFile(x)
  PROVE  Inv'
<1>a. UNCHANGED <<dirs, trash, head, base, retired, created, last, count, error, full, pending,
                  target, made, pass, clock, far, unsent, sent, raced, gone, scanGone>>
  BY DEF LeaveFile, Owner, tree
<1>r. file' = [file EXCEPT ![x] = "own"] /\ own > 0 /\ own' = own - 1 /\ x \notin Notes
  BY DEF LeaveFile, Owner
<1>1. TypeDisk'
  BY <1>a, <1>r DEF Inv, TypeOK, TypeDisk, Contents, TypeDisk
<1>2. TypeTrees' BY <1>a DEF Inv, TypeOK, TypeTrees
<1>3. TypeSettings' BY <1>a DEF Inv, TypeOK, TypeSettings
<1>4. TypeGhosts' BY <1>a DEF Inv, TypeOK, TypeGhosts
<1>5. TypePass' BY <1>a DEF Inv, TypeOK, TypePass
<1>6. TypeRest'
  BY <1>a, <1>r DEF Inv, TypeOK, TypeRest, TypeRest
<1>7. SentOwn' BY <1>a DEF Inv, TypeOK, SentOwn, Owns
<1>8. SentPlans' BY <1>a DEF Inv, TypeOK, SentPlans, Owns, At
<1>9. MovingKnown' BY <1>a DEF Inv, TypeOK, MovingKnown, At, Top
<1>10. Nested' BY <1>a DEF Inv, TypeOK, Nested, At
<1>11. OwnTextStays'
  BY <1>a, <1>r DEF Inv, TypeOK, OwnTextStays, TypeDisk, TypeGhosts, Notes, TypeDisk, TypeGhosts
<1>12. MarksPast' BY <1>a DEF Inv, TypeOK, MarksPast
<1>13. ChosenBefore' BY <1>a DEF Inv, TypeOK, ChosenBefore, At, MayGo, Newest, Times
<1>14. Ready' BY <1>a DEF Inv, TypeOK, Ready, At
<1>15. BaseMet' BY <1>a DEF Inv, TypeOK, BaseMet, Met
<1>16. ScanMet' BY <1>a DEF Inv, TypeOK, ScanMet, At
<1>17. TargetMet' BY <1>a DEF Inv, TypeOK, TargetMet, At, Cleaning, Covered, Met
<1> QED
  BY <1>1, <1>2, <1>3, <1>4, <1>5, <1>6, <1>7, <1>8, <1>9, <1>10, <1>11, <1>12, <1>13, <1>14,
     <1>15, <1>16, <1>17
     DEF Inv, TypeOK

(* Another device publishes; none of this owner's text appears in it.       *)
LEMMA ElsewhereStep ==
  ASSUME Inv, Elsewhere
  PROVE  Inv'
<1>a. UNCHANGED <<dirs, file, trash, base, retired, created, last, count, error, full, pending,
                  target, made, pass, clock, own, unsent, sent, raced, gone, scanGone>>
  BY DEF Elsewhere, settings, ghost
<1>r. /\ head' \in Trees /\ far' \in Nat
      /\ \A x \in Notes : Owns(head'.notes, x) => Owns(head.notes, x)
  <2>1. head \in Trees /\ far \in Nat /\ far > 0 /\ far' = far - 1
    BY DEF Elsewhere, Inv, TypeOK, TypeTrees, TypeRest
  <2>2. CASE \E f \in head.dirs :
               head' = [dirs  |-> {g \in head.dirs : ~Within(g, f)},
                        notes |-> [x \in Notes |-> IF Within(x.dir, f) THEN None ELSE head.notes[x]]]
    BY <2>1, <2>2, NoneAssumption DEF Trees, Owns, Contents
  <2>3. CASE \E f \in Folders \ head.dirs : head' = [head
            EXCEPT !.dirs = @ \cup {f} \cup Above({f})]
    BY <2>1, <2>3 DEF Trees, Above
  <2>4. CASE \E x \in Notes : head.notes[x] # None /\ head' = [head EXCEPT !.notes[x] = None]
    <3>1. PICK x \in Notes : head' = [head EXCEPT !.notes = [head.notes EXCEPT ![x] = None]]
      BY <2>4
    <3> QED BY <2>1, <3>1, NoneAssumption DEF Trees, Owns, Contents
  <2>5. CASE \E x \in Notes : head' = [dirs  |-> head.dirs \cup ParentsOf({x}),
                                      notes |-> [head.notes EXCEPT ![x] = "far"]]
    BY <2>1, <2>5 DEF Trees, Owns, ParentsOf, Contents
  <2> QED BY <2>1, <2>2, <2>3, <2>4, <2>5 DEF Elsewhere
<1>1. TypeDisk' BY <1>a DEF Inv, TypeOK, TypeDisk
<1>2. TypeTrees'
  BY <1>a, <1>r DEF Inv, TypeOK, TypeTrees, TypeTrees
<1>3. TypeSettings' BY <1>a DEF Inv, TypeOK, TypeSettings
<1>4. TypeGhosts' BY <1>a DEF Inv, TypeOK, TypeGhosts
<1>5. TypePass' BY <1>a DEF Inv, TypeOK, TypePass
<1>6. TypeRest'
  BY <1>a, <1>r DEF Inv, TypeOK, TypeRest, TypeRest
<1>7. SentOwn'
  BY <1>a, <1>r DEF Inv, SentOwn
<1>8. SentPlans' BY <1>a DEF Inv, TypeOK, SentPlans, Owns, At
<1>9. MovingKnown' BY <1>a DEF Inv, TypeOK, MovingKnown, At, Top
<1>10. Nested' BY <1>a DEF Inv, TypeOK, Nested, At
<1>11. OwnTextStays' BY <1>a DEF Inv, TypeOK, OwnTextStays
<1>12. MarksPast' BY <1>a DEF Inv, TypeOK, MarksPast
<1>13. ChosenBefore' BY <1>a DEF Inv, TypeOK, ChosenBefore, At, MayGo, Newest, Times
<1>14. Ready' BY <1>a DEF Inv, TypeOK, Ready, At
<1>15. BaseMet' BY <1>a DEF Inv, TypeOK, BaseMet, Met
<1>16. ScanMet' BY <1>a DEF Inv, TypeOK, ScanMet, At
<1>17. TargetMet' BY <1>a DEF Inv, TypeOK, TargetMet, At, Cleaning, Covered, Met
<1> QED
  BY <1>1, <1>2, <1>3, <1>4, <1>5, <1>6, <1>7, <1>8, <1>9, <1>10, <1>11, <1>12, <1>13, <1>14,
     <1>15, <1>16, <1>17
     DEF Inv, TypeOK

(* A run ends at an await.                                                  *)
LEMMA StopStep ==
  ASSUME Inv, Stop
  PROVE  Inv'
<1>a. UNCHANGED <<dirs, file, trash, head, base, retired, created, last, count, error, full,
                  pending, target, made, clock, far, unsent, sent, raced, gone, scanGone>>
  BY DEF Stop, settings, tree, ghost
<1>r. pass' = Idle /\ own > 0 /\ own' = own - 1 BY DEF Stop
<1>1. TypeDisk' BY <1>a DEF Inv, TypeOK, TypeDisk
<1>2. TypeTrees' BY <1>a DEF Inv, TypeOK, TypeTrees
<1>3. TypeSettings' BY <1>a DEF Inv, TypeOK, TypeSettings
<1>4. TypeGhosts' BY <1>a DEF Inv, TypeOK, TypeGhosts
<1>5. TypePass'
  BY <1>r DEF TypePass
<1>6. TypeRest'
  BY <1>a, <1>r DEF Inv, TypeOK, TypeRest, TypeRest
<1>7. SentOwn' BY <1>a DEF Inv, TypeOK, SentOwn, Owns
<1>8. SentPlans'
  BY <1>r DEF SentPlans, At
<1>9. MovingKnown'
  BY <1>r DEF MovingKnown, At
<1>10. Nested'
  BY <1>r DEF Nested, At
<1>11. OwnTextStays' BY <1>a DEF Inv, TypeOK, OwnTextStays
<1>12. MarksPast'
  BY <1>a, <1>r DEF Inv, MarksPast
<1>13. ChosenBefore'
  BY <1>r DEF ChosenBefore, At
<1>14. Ready'
  BY <1>r DEF Ready, At
<1>15. BaseMet' BY <1>a DEF Inv, TypeOK, BaseMet, Met
<1>16. ScanMet'
  BY <1>r DEF ScanMet, At
<1>17. TargetMet'
  BY <1>r DEF TargetMet, At, Cleaning
<1> QED
  BY <1>1, <1>2, <1>3, <1>4, <1>5, <1>6, <1>7, <1>8, <1>9, <1>10, <1>11, <1>12, <1>13, <1>14,
     <1>15, <1>16, <1>17
     DEF Inv, TypeOK

(* Another full listing is due.                                             *)
LEMMA AuditStep ==
  ASSUME Inv, Audit
  PROVE  Inv'
<1>a. UNCHANGED <<dirs, file, trash, head, base, retired, created, last, count, error, pending,
                  target, made, pass, clock, own, far, unsent, sent, raced, gone, scanGone>>
  BY DEF Audit, tree, ghost
<1>1. TypeDisk' BY <1>a DEF Inv, TypeOK, TypeDisk
<1>2. TypeTrees' BY <1>a DEF Inv, TypeOK, TypeTrees
<1>3. TypeSettings'
  BY DEF Inv, TypeOK, TypeSettings, Audit, TypeSettings
<1>4. TypeGhosts' BY <1>a DEF Inv, TypeOK, TypeGhosts
<1>5. TypePass' BY <1>a DEF Inv, TypeOK, TypePass
<1>6. TypeRest' BY <1>a DEF Inv, TypeOK, TypeRest
<1>7. SentOwn' BY <1>a DEF Inv, TypeOK, SentOwn, Owns
<1>8. SentPlans' BY <1>a DEF Inv, TypeOK, SentPlans, Owns, At
<1>9. MovingKnown' BY <1>a DEF Inv, TypeOK, MovingKnown, At, Top
<1>10. Nested' BY <1>a DEF Inv, TypeOK, Nested, At
<1>11. OwnTextStays' BY <1>a DEF Inv, TypeOK, OwnTextStays
<1>12. MarksPast' BY <1>a DEF Inv, TypeOK, MarksPast
<1>13. ChosenBefore' BY <1>a DEF Inv, TypeOK, ChosenBefore, At, MayGo, Newest, Times
<1>14. Ready' BY <1>a DEF Inv, TypeOK, Ready, At
<1>15. BaseMet' BY <1>a DEF Inv, TypeOK, BaseMet, Met
<1>16. ScanMet' BY <1>a DEF Inv, TypeOK, ScanMet, At
<1>17. TargetMet' BY <1>a DEF Inv, TypeOK, TargetMet, At, Cleaning, Covered, Met
<1> QED
  BY <1>1, <1>2, <1>3, <1>4, <1>5, <1>6, <1>7, <1>8, <1>9, <1>10, <1>11, <1>12, <1>13, <1>14,
     <1>15, <1>16, <1>17
     DEF Inv, TypeOK

(* A run begins.                                                            *)
LEMMA BeginStep ==
  ASSUME Inv, Begin
  PROVE  Inv'
<1>a. UNCHANGED <<dirs, file, trash, head, base, retired, created, last, count, error, full,
                  pending, target, made, clock, own, far, unsent, sent, raced, gone, scanGone>>
  BY DEF Begin, settings, tree, Rest, Kept
<1>r. /\ pass' \in Passes /\ pass' # Idle /\ pass'.pc = "retired" /\ pass'.stage = "before"
      /\ pass'.remote = None /\ pass'.chosen = 0
  <2>0. <<>> \in Seq(Frames) OBVIOUS
  <2>1. pass' \in Passes BY <2>0 DEF Begin, Passes, Places, Made, Inv, TypeOK, TypeRest
  <2> QED BY <2>1, NotIdle DEF Begin
<1>1. TypeDisk' BY <1>a DEF Inv, TypeOK, TypeDisk
<1>2. TypeTrees' BY <1>a DEF Inv, TypeOK, TypeTrees
<1>3. TypeSettings' BY <1>a DEF Inv, TypeOK, TypeSettings
<1>4. TypeGhosts' BY <1>a DEF Inv, TypeOK, TypeGhosts
<1>5. TypePass'
  BY <1>r DEF TypePass
<1>6. TypeRest' BY <1>a DEF Inv, TypeOK, TypeRest
<1>7. SentOwn' BY <1>a DEF Inv, TypeOK, SentOwn, Owns
<1>8. SentPlans'
  BY <1>r DEF SentPlans, At
<1>9. MovingKnown'
  BY <1>r DEF MovingKnown, At
<1>10. Nested'
  BY <1>r DEF Nested, At
<1>11. OwnTextStays' BY <1>a DEF Inv, TypeOK, OwnTextStays
<1>12. MarksPast'
  BY <1>a, <1>r DEF Inv, TypeOK, MarksPast, TypeRest
<1>13. ChosenBefore'
  BY <1>r DEF ChosenBefore, At
<1>14. Ready'
  BY <1>r DEF Ready, At
<1>15. BaseMet' BY <1>a DEF Inv, TypeOK, BaseMet, Met
<1>16. ScanMet'
  BY <1>r DEF ScanMet, At
<1>17. TargetMet'
  BY <1>r DEF TargetMet, At, Cleaning
<1> QED
  BY <1>1, <1>2, <1>3, <1>4, <1>5, <1>6, <1>7, <1>8, <1>9, <1>10, <1>11, <1>12, <1>13, <1>14,
     <1>15, <1>16, <1>17
     DEF Inv, TypeOK

(* The folders above retired notes are chosen, if nobody was there since.   *)
LEMMA StartRetiredStep ==
  ASSUME Inv, StartRetired
  PROVE  Inv'
<1>a. UNCHANGED <<dirs, file, trash, head, base, retired, created, last, error, full, pending,
                  target, made, clock, own, far, unsent, sent, raced, gone, scanGone>>
  BY DEF StartRetired, tree, ghost
<1>q. pass \in Passes /\ pass # Idle /\ pass.pc = "retired"
  BY PassFacts DEF StartRetired, Places, Inv, TypeOK

<1>r. /\ pass' \in Passes /\ SamePlan(pass, pass') /\ pass'.pc \in {"head", "make", "shells"}
      /\ pass'.pc = "head" => pass.stage = "before"
      /\ pass'.pc = "make" => pass.stage # "before"
      /\ pass'.pc # "shells" => pass'.chosen = pass.chosen
      /\ pass'.pc = "shells" => /\ pass'.loop = "shells" /\ pass'.chosen = clock
            /\ \A f \in pass'.todo : /\ f \in Folders /\ RetiredUnder(f) # {}
                                     /\ ~FolderIntent(f, Max(RetiredUnder(f)))
  <2>1. CASE pass' = AfterRetired
    BY <1>q, <2>1 DEF AfterRetired, Go, Passes, Places, SamePlan
  <2> DEFINE old == {f \in dirs : RetiredUnder(f) # {} /\ ~FolderIntent(f, Max(RetiredUnder(f)))}
  <2>2. CASE pass' = [Go("shells") EXCEPT !.eligible = old, !.todo = old, !.chosen = clock,
                                          !.failed = FALSE, !.loop = "shells"]
    <3>1. old \in SUBSET Folders /\ \A f \in old : /\ f \in Folders /\ RetiredUnder(f) # {}
                                     /\ ~FolderIntent(f, Max(RetiredUnder(f)))
      BY DEF Inv, TypeOK, TypeDisk
    <3>2. clock \in Nat BY DEF Inv, TypeOK, TypeRest
    <3> HIDE DEF old
    <3> QED BY <1>q, <2>2, <3>1, <3>2 DEF Go, Passes, Places, SamePlan
  <2> QED BY <2>1, <2>2 DEF StartRetired
<1>c. pass' # Idle BY <1>r, NotIdle
<1>t. ASSUME pass'.pc = "shells", NEW g \in Folders, NEW f \in pass'.todo, Within(g, f)
      PROVE  MayGo(g)'
  <2>1. /\ f \in Folders /\ RetiredUnder(f) # {} /\ ~FolderIntent(f, Max(RetiredUnder(f)))
        /\ pass'.loop = "shells"
    BY <1>t, <1>r
  <2>2. ~(created[g] > Max(RetiredUnder(f))) BY <1>t, <2>1 DEF FolderIntent
  <2>3. Max(RetiredUnder(f)) \in Nat /\ Max(RetiredUnder(f)) <= Newest /\ Newest \in Nat
    BY <2>1, Newests DEF Inv
  <2>4. created[g] \in Nat BY DEF Inv, TypeOK, TypeSettings
  <2>5. created[g] <= Newest BY <2>2, <2>3, <2>4
  <2>6. Newest' = Newest BY <1>a DEF Newest, Times
  <2> QED BY <1>a, <2>1, <2>5, <2>6 DEF MayGo
<1>1. TypeDisk' BY <1>a DEF Inv, TypeOK, TypeDisk
<1>2. TypeTrees' BY <1>a DEF Inv, TypeOK, TypeTrees
<1>3. TypeSettings'
  BY DEF Inv, TypeOK, TypeSettings, StartRetired
<1>4. TypeGhosts' BY <1>a DEF Inv, TypeOK, TypeGhosts
<1>5. TypePass'
  BY <1>r DEF TypePass
<1>6. TypeRest' BY <1>a DEF Inv, TypeOK, TypeRest
<1>7. SentOwn' BY <1>a DEF Inv, TypeOK, SentOwn, Owns
<1>8. SentPlans'
  BY <1>a, <1>q, <1>r DEF Inv, SentPlans, At, SamePlan
<1>9. MovingKnown'
  BY <1>r DEF MovingKnown, At
<1>10. Nested'
  BY <1>r DEF Nested, At
<1>11. OwnTextStays' BY <1>a DEF Inv, TypeOK, OwnTextStays
<1>12. MarksPast'
  BY <1>a, <1>q, <1>r DEF Inv, TypeOK, MarksPast, TypeRest
<1>13. ChosenBefore' BY <1>r, <1>t DEF ChosenBefore, At
<1>14. Ready'
  BY <1>q, <1>r DEF Inv, Ready, At, SamePlan
<1>15. BaseMet' BY <1>a DEF Inv, TypeOK, BaseMet, Met
<1>16. ScanMet'
  BY <1>r DEF ScanMet, At
<1>17. TargetMet'
  BY <1>a, <1>q, <1>r DEF Inv, TargetMet, At, Cleaning, Covered, SamePlan
<1> QED
  BY <1>1, <1>2, <1>3, <1>4, <1>5, <1>6, <1>7, <1>8, <1>9, <1>10, <1>11, <1>12, <1>13, <1>14,
     <1>15, <1>16, <1>17
     DEF Inv, TypeOK

(* One of them is gone into.                                                *)
LEMMA PruneShellStep ==
  ASSUME Inv, PruneShell
  PROVE  Inv'
<1>a. UNCHANGED <<dirs, file, trash, head, base, retired, created, last, count, error, full,
                  pending, target, made, clock, own, far, unsent, sent, raced, gone, scanGone>>
  BY DEF PruneShell, settings, tree, Rest, Kept
<1>q. pass \in Passes /\ pass # Idle /\ pass.pc = "shells"
  BY PassFacts DEF PruneShell, Places, Inv, TypeOK

<1>r. /\ pass' \in Passes /\ SamePlan(pass, pass') /\ pass'.loop = pass.loop
      /\ pass'.chosen = pass.chosen /\ pass'.todo \subseteq pass.todo
             /\ pass'.pc \in {"shells", "walk"}
      /\ pass'.pc = "walk" => \E f \in pass.todo :
            /\ Len(pass'.stack) = 1 /\ pass'.stack[1].dir = f /\ pass'.stack[1].moving = None
            /\ Top' = pass'.stack[1] /\ \A g \in pass'.stack[1].folders : Within(g, f)
  <2>1. PICK f \in pass.todo :
          \/ pass' = [pass EXCEPT !.todo = @ \ {f}]
          \/ pass' = [pass EXCEPT !.todo = @ \ {f}, !.stack = <<Frame(f)>>, !.pc = "walk"]
    BY <1>q DEF PruneShell, Deepest, Passes
  <2>2. f \in Folders /\ pass.todo \ {f} \in SUBSET Folders BY <1>q DEF Passes
  <2>3. CASE pass' = [pass EXCEPT !.todo = @ \ {f}]
    BY <1>q, <2>3 DEF Passes, SamePlan
  <2>4. CASE pass' = [pass EXCEPT !.todo = @ \ {f}, !.stack = <<Frame(f)>>, !.pc = "walk"]
    <3> DEFINE e == Frame(f)
    <3>1. /\ e \in Frames /\ e.dir = f /\ e.moving = None
          /\ \A g \in e.folders : Within(g, f)
      BY <2>2, FrameType DEF Inv, TypeOK
    <3> HIDE DEF e
    <3>2. <<e>> \in Seq(Frames) /\ Len(<<e>>) = 1 /\ <<e>>[1] = e BY <3>1
    <3>3. pass' = [pass EXCEPT !.todo = @ \ {f}, !.stack = <<e>>, !.pc = "walk"] BY <2>4 DEF e
    <3>4. /\ pass' \in Passes /\ SamePlan(pass, pass') /\ pass'.loop = pass.loop
                 /\ pass'.pc = "walk"
          /\ pass'.chosen = pass.chosen /\ pass'.todo \subseteq pass.todo /\ pass'.stack = <<e>>
      BY <1>q, <3>2, <3>3 DEF Passes, Places, SamePlan
    <3>5. Top' = e BY <3>2, <3>4 DEF Top, Last
    <3> QED BY <3>1, <3>2, <3>4, <3>5
  <2> QED BY <2>1, <2>3, <2>4
<1>c. pass' # Idle BY <1>r, NotIdle
<1>m. \A g \in Folders : MayGo(g) => MayGo(g)'
  <2>1. Newest' = Newest BY <1>a DEF Newest, Times
  <2> QED BY <1>a, <1>r, <2>1 DEF MayGo
<1>o. \A g \in Folders, f \in pass.todo : Within(g, f) => MayGo(g)
  BY <1>q DEF Inv, ChosenBefore, At
<1>l. pass.loop = "shells" BY <1>q DEF Inv, ChosenBefore, At
<1>1. TypeDisk' BY <1>a DEF Inv, TypeOK, TypeDisk
<1>2. TypeTrees' BY <1>a DEF Inv, TypeOK, TypeTrees
<1>3. TypeSettings' BY <1>a DEF Inv, TypeOK, TypeSettings
<1>4. TypeGhosts' BY <1>a DEF Inv, TypeOK, TypeGhosts
<1>5. TypePass'
  BY <1>r DEF TypePass
<1>6. TypeRest' BY <1>a DEF Inv, TypeOK, TypeRest
<1>7. SentOwn' BY <1>a DEF Inv, TypeOK, SentOwn, Owns
<1>8. SentPlans'
  BY <1>a, <1>q, <1>r DEF Inv, SentPlans, At, SamePlan
<1>9. MovingKnown' BY <1>r, <1>l, NoneNote DEF MovingKnown, At
<1>10. Nested' BY <1>r DEF Nested, At
<1>11. OwnTextStays' BY <1>a DEF Inv, TypeOK, OwnTextStays
<1>12. MarksPast'
  BY <1>a, <1>q, <1>r DEF Inv, MarksPast
<1>13. ChosenBefore' BY <1>q, <1>r, <1>c, <1>m, <1>o, <1>l DEF ChosenBefore, At
<1>14. Ready'
  BY <1>q, <1>r DEF Inv, Ready, At, SamePlan
<1>15. BaseMet' BY <1>a DEF Inv, TypeOK, BaseMet, Met
<1>16. ScanMet'
  BY <1>r DEF ScanMet, At
<1>17. TargetMet'
  BY <1>a, <1>q, <1>r, <1>c, <1>l
     DEF Inv, TargetMet, At, Cleaning, Covered, Met, SamePlan
<1> QED
  BY <1>1, <1>2, <1>3, <1>4, <1>5, <1>6, <1>7, <1>8, <1>9, <1>10, <1>11, <1>12, <1>13, <1>14,
     <1>15, <1>16, <1>17
     DEF Inv, TypeOK

(* The first clean-up ends.                                                 *)
LEMMA EndRetiredStep ==
  ASSUME Inv, EndRetired
  PROVE  Inv'
<1>a. UNCHANGED <<dirs, file, trash, head, base, retired, created, full, pending, target, made,
                  clock, own, far, unsent, sent, raced, gone, scanGone>>
  BY DEF EndRetired, tree, ghost
<1>q. pass \in Passes /\ pass # Idle /\ pass.pc = "shells"
  BY PassFacts DEF EndRetired, Places, Inv, TypeOK

<1>r. /\ pass' \in Passes /\ SamePlan(pass, pass') /\ SameRoots(pass, pass')
             /\ pass'.pc \in {"head", "make"}
      /\ pass'.pc = "head" => pass.stage = "before"
      /\ pass'.pc = "make" => pass.stage # "before"
  <2>1. \/ pass.stage = "before" /\ pass' = [pass EXCEPT !.pc = "head"]
        \/ pass.stage # "before" /\ pass' = [pass EXCEPT !.pc = "make"]
    BY DEF EndRetired, AfterRetired, Go
  <2> QED BY <1>q, <2>1 DEF Passes, Places, SamePlan, SameRoots
<1>c. pass' # Idle BY <1>r, NotIdle
<1>d. count' \in BOOLEAN /\ error' \in BOOLEAN /\ last' \in Nat
  <2>1. Newest \in Nat BY Newests DEF Inv
  <2>2. last' = last \/ last' = Newest BY DEF EndRetired
  <2>3. error' \in BOOLEAN BY <1>q DEF EndRetired, Passes
  <2>4. count' \in BOOLEAN BY Zenon DEF EndRetired
  <2> QED BY <2>1, <2>2, <2>3, <2>4 DEF Inv, TypeOK, TypeSettings
<1>1. TypeDisk' BY <1>a DEF Inv, TypeOK, TypeDisk
<1>2. TypeTrees' BY <1>a DEF Inv, TypeOK, TypeTrees
<1>3. TypeSettings'
  BY <1>a, <1>d DEF Inv, TypeOK, TypeSettings
<1>4. TypeGhosts' BY <1>a DEF Inv, TypeOK, TypeGhosts
<1>5. TypePass'
  BY <1>r DEF TypePass
<1>6. TypeRest' BY <1>a DEF Inv, TypeOK, TypeRest
<1>7. SentOwn' BY <1>a DEF Inv, TypeOK, SentOwn, Owns
<1>8. SentPlans'
  BY <1>a, <1>q, <1>r DEF Inv, SentPlans, At, SamePlan
<1>9. MovingKnown'
  BY <1>r DEF MovingKnown, At
<1>10. Nested'
  BY <1>r DEF Nested, At
<1>11. OwnTextStays' BY <1>a DEF Inv, TypeOK, OwnTextStays
<1>12. MarksPast'
  BY <1>a, <1>q, <1>r DEF Inv, MarksPast, SameRoots
<1>13. ChosenBefore'
  BY <1>r DEF ChosenBefore, At
<1>14. Ready'
  BY <1>q, <1>r DEF Inv, Ready, At, SamePlan
<1>15. BaseMet' BY <1>a DEF Inv, TypeOK, BaseMet, Met
<1>16. ScanMet'
  BY <1>r DEF ScanMet, At
<1>17. TargetMet'
  BY <1>a, <1>q, <1>r DEF Inv, TargetMet, At, Cleaning, Covered, SamePlan
<1> QED
  BY <1>1, <1>2, <1>3, <1>4, <1>5, <1>6, <1>7, <1>8, <1>9, <1>10, <1>11, <1>12, <1>13, <1>14,
     <1>15, <1>16, <1>17
     DEF Inv, TypeOK

(* The accepted folders are made.                                           *)
LEMMA MakeMissingStep ==
  ASSUME Inv, MakeMissing
  PROVE  Inv'
<1>a. UNCHANGED <<file, trash, head, base, retired, created, last, count, error, full, pending,
                  target, made, clock, own, far, unsent, sent, raced, gone, scanGone>>
  BY DEF MakeMissing, settings, tree, Rest, Kept
<1>q. pass \in Passes /\ pass # Idle /\ pass.pc = "make"
  BY PassFacts DEF MakeMissing, Places, Inv, TypeOK

<1>r. /\ pass' \in Passes /\ SamePlan(pass, pass') /\ pass'.chosen = pass.chosen
             /\ pass'.pc = "roots"
      /\ pass'.loop = "extra" /\ dirs' = dirs \cup Covered /\ dirs' \in SUBSET Folders
  <2>1. dirs \cup pass.desired \in SUBSET Folders /\ dirs \cup Covered \in SUBSET Folders
    BY <1>q DEF Passes, Covered, Above, Inv, TypeOK, TypeDisk
  <2>2. pass' = [pass EXCEPT !.pc = "roots", !.failed = FALSE, !.loop = "extra", !.before = dirs \cup pass.desired]
    BY <1>q DEF MakeMissing, Go, Passes
  <2>3. dirs' = dirs \cup Covered BY DEF MakeMissing, Covered
  <2> HIDE DEF Covered
  <2> QED BY <1>q, <2>1, <2>2, <2>3 DEF Passes, Places, SamePlan
<1>c. pass' # Idle BY <1>r, NotIdle
<1>1. TypeDisk'
  BY <1>a, <1>r DEF Inv, TypeOK, TypeDisk
<1>2. TypeTrees' BY <1>a DEF Inv, TypeOK, TypeTrees
<1>3. TypeSettings' BY <1>a DEF Inv, TypeOK, TypeSettings
<1>4. TypeGhosts' BY <1>a DEF Inv, TypeOK, TypeGhosts
<1>5. TypePass'
  BY <1>r DEF TypePass
<1>6. TypeRest' BY <1>a DEF Inv, TypeOK, TypeRest
<1>7. SentOwn' BY <1>a DEF Inv, TypeOK, SentOwn, Owns
<1>8. SentPlans'
  BY <1>a, <1>q, <1>r DEF Inv, SentPlans, At, SamePlan
<1>9. MovingKnown'
  BY <1>r DEF MovingKnown, At
<1>10. Nested'
  BY <1>r DEF Nested, At
<1>11. OwnTextStays' BY <1>a DEF Inv, TypeOK, OwnTextStays
<1>12. MarksPast'
  BY <1>a, <1>q, <1>r DEF Inv, MarksPast
<1>13. ChosenBefore'
  BY <1>r DEF ChosenBefore, At
<1>14. Ready'
  BY <1>q, <1>r DEF Inv, Ready, At, SamePlan
<1>15. BaseMet'
  BY <1>a, <1>r DEF Inv, BaseMet, Met
<1>16. ScanMet'
  BY <1>r DEF ScanMet, At
<1>17. TargetMet'
  BY <1>a, <1>q, <1>r DEF Inv, TargetMet, At, Cleaning, Covered, Met, SamePlan
<1> QED
  BY <1>1, <1>2, <1>3, <1>4, <1>5, <1>6, <1>7, <1>8, <1>9, <1>10, <1>11, <1>12, <1>13, <1>14,
     <1>15, <1>16, <1>17
     DEF Inv, TypeOK

(* The folders nobody wants are chosen.                                     *)
LEMMA ChooseRootsStep ==
  ASSUME Inv, ChooseRoots
  PROVE  Inv'
<1>a. UNCHANGED <<dirs, file, trash, head, base, retired, created, last, count, error, full,
                  pending, target, made, clock, own, far, unsent, sent, raced, gone, scanGone>>
  BY DEF ChooseRoots, settings, tree, Rest, Kept
<1>q. pass \in Passes /\ pass # Idle /\ pass.pc = "roots"
  BY PassFacts DEF ChooseRoots, Places, Inv, TypeOK

<1>r. /\ pass' \in Passes /\ SamePlan(pass, pass') /\ pass'.chosen = clock /\ pass'.pc = "extra"
      /\ pass'.loop = pass.loop /\ \A f \in pass'.todo : f \in Folders /\ ~FolderIntent(f, 0)
  <2> DEFINE U == Unwanted(pass.before)
  <2>1. U \in SUBSET Folders /\ \A f \in U : f \in Folders /\ ~FolderIntent(f, 0)
    BY <1>q DEF Passes, Unwanted, Topmost
  <2>2. clock \in Nat BY DEF Inv, TypeOK, TypeRest
  <2>3. pass' = [pass EXCEPT !.pc = "extra", !.chosen = clock, !.todo = U, !.relist = U # {}]
    BY <1>q DEF ChooseRoots, Go, Passes
  <2> HIDE DEF U
  <2> QED BY <1>q, <2>1, <2>2, <2>3 DEF Passes, Places, SamePlan
<1>c. pass' # Idle BY <1>r, NotIdle
<1>t. ASSUME NEW g \in Folders, NEW f \in pass'.todo, Within(g, f) PROVE MayGo(g)'
  <2>1. ~(created[g] > 0) BY <1>t, <1>r DEF FolderIntent
  <2>2. created[g] \in Nat BY DEF Inv, TypeOK, TypeSettings
  <2>3. created[g] = 0 BY <2>1, <2>2
  <2> QED BY <1>a, <2>3 DEF MayGo
<1>l. pass.loop = "extra" BY <1>q DEF Inv, ChosenBefore, At
<1>1. TypeDisk' BY <1>a DEF Inv, TypeOK, TypeDisk
<1>2. TypeTrees' BY <1>a DEF Inv, TypeOK, TypeTrees
<1>3. TypeSettings' BY <1>a DEF Inv, TypeOK, TypeSettings
<1>4. TypeGhosts' BY <1>a DEF Inv, TypeOK, TypeGhosts
<1>5. TypePass'
  BY <1>r DEF TypePass
<1>6. TypeRest' BY <1>a DEF Inv, TypeOK, TypeRest
<1>7. SentOwn' BY <1>a DEF Inv, TypeOK, SentOwn, Owns
<1>8. SentPlans'
  BY <1>a, <1>q, <1>r DEF Inv, SentPlans, At, SamePlan
<1>9. MovingKnown'
  BY <1>r DEF MovingKnown, At
<1>10. Nested'
  BY <1>r DEF Nested, At
<1>11. OwnTextStays' BY <1>a DEF Inv, TypeOK, OwnTextStays
<1>12. MarksPast'
  BY <1>a, <1>r DEF Inv, TypeOK, MarksPast, TypeRest
<1>13. ChosenBefore' BY <1>r, <1>t, <1>l DEF ChosenBefore, At
<1>14. Ready'
  BY <1>q, <1>r DEF Inv, Ready, At, SamePlan
<1>15. BaseMet' BY <1>a DEF Inv, TypeOK, BaseMet, Met
<1>16. ScanMet'
  BY <1>r DEF ScanMet, At
<1>17. TargetMet'
  BY <1>a, <1>q, <1>r DEF Inv, TargetMet, At, Cleaning, Covered, Met, SamePlan
<1> QED
  BY <1>1, <1>2, <1>3, <1>4, <1>5, <1>6, <1>7, <1>8, <1>9, <1>10, <1>11, <1>12, <1>13, <1>14,
     <1>15, <1>16, <1>17
     DEF Inv, TypeOK

(* One of them is gone into.                                                *)
LEMMA PruneExtraStep ==
  ASSUME Inv, PruneExtra
  PROVE  Inv'
<1>a. UNCHANGED <<dirs, file, trash, head, base, retired, created, last, count, error, full,
                  pending, target, made, clock, own, far, unsent, sent, raced, gone, scanGone>>
  BY DEF PruneExtra, settings, tree, Rest, Kept
<1>q. pass \in Passes /\ pass # Idle /\ pass.pc = "extra"
  BY PassFacts DEF PruneExtra, Places, Inv, TypeOK

<1>r. /\ pass' \in Passes /\ SamePlan(pass, pass') /\ pass'.loop = pass.loop
      /\ pass'.chosen = pass.chosen /\ pass'.todo \subseteq pass.todo
             /\ pass'.pc \in {"extra", "walk"}
      /\ pass'.pc = "walk" => \E f \in pass.todo :
            /\ Len(pass'.stack) = 1 /\ pass'.stack[1].dir = f /\ pass'.stack[1].moving = None
            /\ Top' = pass'.stack[1] /\ \A g \in pass'.stack[1].folders : Within(g, f)
  <2>1. PICK f \in pass.todo :
          \/ pass' = [pass EXCEPT !.todo = @ \ {f}]
          \/ pass' = [pass EXCEPT !.todo = @ \ {f}, !.stack = <<Frame(f)>>, !.pc = "walk"]
    BY <1>q DEF PruneExtra, Passes
  <2>2. f \in Folders /\ pass.todo \ {f} \in SUBSET Folders BY <1>q DEF Passes
  <2>3. CASE pass' = [pass EXCEPT !.todo = @ \ {f}]
    BY <1>q, <2>3 DEF Passes, SamePlan
  <2>4. CASE pass' = [pass EXCEPT !.todo = @ \ {f}, !.stack = <<Frame(f)>>, !.pc = "walk"]
    <3> DEFINE e == Frame(f)
    <3>1. /\ e \in Frames /\ e.dir = f /\ e.moving = None
          /\ \A g \in e.folders : Within(g, f)
      BY <2>2, FrameType DEF Inv, TypeOK
    <3> HIDE DEF e
    <3>2. <<e>> \in Seq(Frames) /\ Len(<<e>>) = 1 /\ <<e>>[1] = e BY <3>1
    <3>3. pass' = [pass EXCEPT !.todo = @ \ {f}, !.stack = <<e>>, !.pc = "walk"] BY <2>4 DEF e
    <3>4. /\ pass' \in Passes /\ SamePlan(pass, pass') /\ pass'.loop = pass.loop
                 /\ pass'.pc = "walk"
          /\ pass'.chosen = pass.chosen /\ pass'.todo \subseteq pass.todo /\ pass'.stack = <<e>>
      BY <1>q, <3>2, <3>3 DEF Passes, Places, SamePlan
    <3>5. Top' = e BY <3>2, <3>4 DEF Top, Last
    <3> QED BY <3>1, <3>2, <3>4, <3>5
  <2> QED BY <2>1, <2>3, <2>4
<1>c. pass' # Idle BY <1>r, NotIdle
<1>m. \A g \in Folders : MayGo(g) => MayGo(g)'
  <2>1. Newest' = Newest BY <1>a DEF Newest, Times
  <2> QED BY <1>a, <1>r, <2>1 DEF MayGo
<1>o. \A g \in Folders, f \in pass.todo : Within(g, f) => MayGo(g)
  BY <1>q DEF Inv, ChosenBefore, At
<1>l. pass.loop = "extra" BY <1>q DEF Inv, ChosenBefore, At
<1>1. TypeDisk' BY <1>a DEF Inv, TypeOK, TypeDisk
<1>2. TypeTrees' BY <1>a DEF Inv, TypeOK, TypeTrees
<1>3. TypeSettings' BY <1>a DEF Inv, TypeOK, TypeSettings
<1>4. TypeGhosts' BY <1>a DEF Inv, TypeOK, TypeGhosts
<1>5. TypePass'
  BY <1>r DEF TypePass
<1>6. TypeRest' BY <1>a DEF Inv, TypeOK, TypeRest
<1>7. SentOwn' BY <1>a DEF Inv, TypeOK, SentOwn, Owns
<1>8. SentPlans'
  BY <1>a, <1>q, <1>r DEF Inv, SentPlans, At, SamePlan
<1>9. MovingKnown' BY <1>r, <1>l, NoneNote DEF MovingKnown, At
<1>10. Nested' BY <1>r DEF Nested, At
<1>11. OwnTextStays' BY <1>a DEF Inv, TypeOK, OwnTextStays
<1>12. MarksPast'
  BY <1>a, <1>q, <1>r DEF Inv, MarksPast
<1>13. ChosenBefore' BY <1>q, <1>r, <1>c, <1>m, <1>o, <1>l DEF ChosenBefore, At
<1>14. Ready'
  BY <1>q, <1>r DEF Inv, Ready, At, SamePlan
<1>15. BaseMet' BY <1>a DEF Inv, TypeOK, BaseMet, Met
<1>16. ScanMet'
  BY <1>r DEF ScanMet, At
<1>17. TargetMet'
  BY <1>a, <1>q, <1>r, <1>c, <1>l
     DEF Inv, TargetMet, At, Cleaning, Covered, Met, SamePlan
<1> QED
  BY <1>1, <1>2, <1>3, <1>4, <1>5, <1>6, <1>7, <1>8, <1>9, <1>10, <1>11, <1>12, <1>13, <1>14,
     <1>15, <1>16, <1>17
     DEF Inv, TypeOK

(* The second clean-up ends.                                                *)
LEMMA EndTopologyStep ==
  ASSUME Inv, EndTopology
  PROVE  Inv'
<1>a. UNCHANGED <<dirs, file, trash, head, base, retired, pending, target, made, clock, own, far,
                  unsent, sent, raced, gone, scanGone>>
  BY DEF EndTopology, tree, ghost
<1>q. pass \in Passes /\ pass # Idle /\ pass.pc = "extra"
  BY PassFacts DEF EndTopology, Places, Inv, TypeOK

<1>r. \/ pass' = Idle
      \/ /\ pass' \in Passes /\ pass' # Idle /\ SamePlan(pass, pass') /\ SameRoots(pass, pass')
         /\ pass'.pc = "finish" /\ pass.stage # "before"
  <2>1. CASE pass' = Go("finish") /\ pass.stage # "before"
    <3>1. pass' \in Passes BY <1>q, <2>1 DEF Go, Passes, Places
    <3> QED BY <1>q, <2>1, <3>1, NotIdle DEF Go, Passes, SamePlan, SameRoots
  <2> QED BY <2>1 DEF EndTopology
<1>d. /\ count' \in BOOLEAN /\ error' \in BOOLEAN /\ last' \in Nat /\ full' \in BOOLEAN
      /\ created' \in [Folders -> Nat]
  <2>1. last' \in Nat BY DEF EndTopology, Inv, TypeOK, TypeSettings, TypeRest
  <2>2. error' \in BOOLEAN BY <1>q DEF EndTopology, Passes
  <2>3. count' \in BOOLEAN /\ full' \in BOOLEAN BY Zenon DEF EndTopology
  <2>4. created' \in [Folders -> Nat] BY DEF EndTopology, Inv, TypeOK, TypeSettings
  <2> QED BY <2>1, <2>2, <2>3, <2>4
<1>l. pass.loop = "extra" BY <1>q DEF Inv, ChosenBefore, At
<1>1. TypeDisk' BY <1>a DEF Inv, TypeOK, TypeDisk
<1>2. TypeTrees' BY <1>a DEF Inv, TypeOK, TypeTrees
<1>3. TypeSettings'
  BY <1>a, <1>d DEF Inv, TypeOK, TypeSettings
<1>4. TypeGhosts' BY <1>a DEF Inv, TypeOK, TypeGhosts
<1>5. TypePass'
  BY <1>r DEF TypePass
<1>6. TypeRest' BY <1>a DEF Inv, TypeOK, TypeRest
<1>7. SentOwn' BY <1>a DEF Inv, TypeOK, SentOwn, Owns
<1>8. SentPlans'
  BY <1>a, <1>q, <1>r DEF Inv, SentPlans, At, SamePlan
<1>9. MovingKnown'
  BY <1>r DEF MovingKnown, At
<1>10. Nested'
  BY <1>r DEF Nested, At
<1>11. OwnTextStays' BY <1>a DEF Inv, TypeOK, OwnTextStays
<1>12. MarksPast'
  BY <1>a, <1>q, <1>r DEF Inv, MarksPast, SameRoots
<1>13. ChosenBefore'
  BY <1>r DEF ChosenBefore, At
<1>14. Ready' BY <1>a, <1>q, <1>r, PassTypes DEF Inv, TypeOK, Ready, At, SamePlan
<1>15. BaseMet' BY <1>a DEF Inv, TypeOK, BaseMet, Met
<1>16. ScanMet'
  BY <1>r DEF ScanMet, At
<1>17. TargetMet'
  BY <1>a, <1>q, <1>r DEF Inv, TargetMet, At, Cleaning, Covered, Met, SamePlan
<1> QED
  BY <1>1, <1>2, <1>3, <1>4, <1>5, <1>6, <1>7, <1>8, <1>9, <1>10, <1>11, <1>12, <1>13, <1>14,
     <1>15, <1>16, <1>17
     DEF Inv, TypeOK

(* The walk goes into a folder, ...                                         *)
LEMMA DescendStep ==
  ASSUME Inv, pass.pc = "walk", Descend
  PROVE  Inv'
<1>a. UNCHANGED <<dirs, file, trash, head, base, retired, created, last, count, error, full,
                  pending, target, made, clock, own, far, unsent, sent, raced, gone, scanGone>>
  BY DEF Descend, settings, tree, Rest, Kept
<1>w. /\ Walks /\ pass'.pc = "walk" /\ Len(pass'.stack) > 0 /\ Top'.moving = None
      /\ \A i \in 1 .. Len(pass'.stack) - 1 : pass'.stack[i].moving = None
  <2>1. PICK g \in Top.folders :
          pass' = IF g \in dirs
                  THEN [SetTop([Top EXCEPT !.folders = @ \ {g}])
                      EXCEPT !.stack = Append(@, Frame(g))]
                  ELSE SetTop([Top EXCEPT !.folders = @ \ {g}])
    BY DEF Descend
  <2> DEFINE e == [Top EXCEPT !.folders = @ \ {g}]
  <2>2. Top \in Frames /\ Top.moving = None
    BY WalkFacts DEF Inv, MovingKnown, At
  <2>3. e \in Frames /\ e.dir = Top.dir /\ e.folders \subseteq Top.folders /\ e.moving = None
    BY <2>2 DEF Frames
  <2> HIDE DEF e
  <2>4. CASE g \in dirs
    <3>1. pass' = [SetTop(e) EXCEPT !.stack = Append(@, Frame(g))] BY <2>1, <2>4 DEF e
    <3> QED BY <2>3, <3>1, PushStep
  <2>5. CASE g \notin dirs
    <3>1. pass' = SetTop(e) BY <2>1, <2>5 DEF e
    <3> QED BY <2>3, <3>1, TopStep
  <2> QED BY <2>4, <2>5
<1>m. MovingKnown'
  <2>1. pass.loop # "" /\ pass'.loop = pass.loop BY <1>w, WalkFacts DEF Walks, SameRoots
  <2> QED BY <1>w, <2>1, NoneNote DEF MovingKnown, At
<1>r. /\ Nested' /\ ChosenBefore' /\ TypePass' /\ SentPlans' /\ MarksPast' /\ Ready'
      /\ ScanMet' /\ TargetMet' /\ BaseMet'
  BY <1>a, <1>w, WalkKeeps, WalkRest DEF Met
<1>1. TypeDisk' BY <1>a DEF Inv, TypeOK, TypeDisk
<1>2. TypeTrees' BY <1>a DEF Inv, TypeOK, TypeTrees
<1>3. TypeSettings' BY <1>a DEF Inv, TypeOK, TypeSettings
<1>4. TypeGhosts' BY <1>a DEF Inv, TypeOK, TypeGhosts
<1>5. TypePass' BY <1>r
<1>6. TypeRest' BY <1>a DEF Inv, TypeOK, TypeRest
<1>7. SentOwn' BY <1>a DEF Inv, TypeOK, SentOwn, Owns
<1>8. SentPlans' BY <1>r
<1>9. MovingKnown' BY <1>m
<1>10. Nested' BY <1>r
<1>11. OwnTextStays' BY <1>a DEF Inv, TypeOK, OwnTextStays
<1>12. MarksPast' BY <1>r
<1>13. ChosenBefore' BY <1>r
<1>14. Ready' BY <1>r
<1>15. BaseMet' BY <1>a DEF Inv, TypeOK, BaseMet, Met
<1>16. ScanMet' BY <1>r
<1>17. TargetMet' BY <1>r
<1> QED
  BY <1>1, <1>2, <1>3, <1>4, <1>5, <1>6, <1>7, <1>8, <1>9, <1>10, <1>11, <1>12, <1>13, <1>14,
     <1>15, <1>16, <1>17
     DEF Inv, TypeOK

(* ... looks at a file, ...                                                 *)
LEMMA CheckFileStep ==
  ASSUME Inv, pass.pc = "walk", CheckFile
  PROVE  Inv'
<1>a. UNCHANGED <<dirs, file, trash, head, base, retired, created, last, count, error, full,
                  pending, target, made, clock, own, far, unsent, sent, raced, gone, scanGone>>
  BY DEF CheckFile, settings, tree, Rest, Kept
<1>x. PICK x \in Top.files : pass' = SetTop([Top EXCEPT !.files = @ \ {x},
                                       !.moving = IF CurrentFile(x) THEN None ELSE x])
  BY DEF CheckFile
<1> DEFINE e == [Top EXCEPT !.files = @ \ {x}, !.moving = IF CurrentFile(x) THEN None ELSE x]
<1>t. /\ Top \in Frames /\ Top.folders = {} BY WalkFacts DEF CheckFile
<1>e. /\ e \in Frames /\ e.dir = Top.dir /\ e.folders = {} /\ x \in Files
      /\ e.moving = IF CurrentFile(x) THEN None ELSE x
  BY <1>t DEF Frames
<1> HIDE DEF e
<1>w. /\ Walks /\ pass'.pc = "walk" /\ Len(pass'.stack) > 0 /\ Top' = e
      /\ \A i \in 1 .. Len(pass'.stack) - 1 : pass'.stack[i].moving = None
  BY <1>x, <1>e, TopStep DEF e
<1>k. ASSUME x \in Notes, ~CurrentFile(x), x \in unsent \ sent PROVE x \in raced
  <2>1. retired[x] # None /\ retired[x].hash = file[x] BY <1>k DEF CurrentFile, Notes
  <2>2. file[x] # "own" BY <1>k, <2>1 DEF Inv, SentOwn
  <2> QED BY <1>k, <2>2 DEF Inv, OwnTextStays
<1>m. MovingKnown'
  <2>1. pass.loop # "" /\ pass'.loop = pass.loop BY <1>w, WalkFacts DEF Walks, SameRoots
  <2>2. Top'.folders = {} /\ (Top'.moving \in Notes => Top'.moving = x /\ ~CurrentFile(x))
    BY <1>e, <1>w, NoneNote
  <2> QED BY <1>a, <1>w, <1>k, <2>1, <2>2 DEF MovingKnown, At
<1>r. /\ Nested' /\ ChosenBefore' /\ TypePass' /\ SentPlans' /\ MarksPast' /\ Ready'
      /\ ScanMet' /\ TargetMet' /\ BaseMet'
  BY <1>a, <1>w, WalkKeeps, WalkRest DEF Met
<1>1. TypeDisk' BY <1>a DEF Inv, TypeOK, TypeDisk
<1>2. TypeTrees' BY <1>a DEF Inv, TypeOK, TypeTrees
<1>3. TypeSettings' BY <1>a DEF Inv, TypeOK, TypeSettings
<1>4. TypeGhosts' BY <1>a DEF Inv, TypeOK, TypeGhosts
<1>5. TypePass' BY <1>r
<1>6. TypeRest' BY <1>a DEF Inv, TypeOK, TypeRest
<1>7. SentOwn' BY <1>a DEF Inv, TypeOK, SentOwn, Owns
<1>8. SentPlans' BY <1>r
<1>9. MovingKnown' BY <1>m
<1>10. Nested' BY <1>r
<1>11. OwnTextStays' BY <1>a DEF Inv, TypeOK, OwnTextStays
<1>12. MarksPast' BY <1>r
<1>13. ChosenBefore' BY <1>r
<1>14. Ready' BY <1>r
<1>15. BaseMet' BY <1>a DEF Inv, TypeOK, BaseMet, Met
<1>16. ScanMet' BY <1>r
<1>17. TargetMet' BY <1>r
<1> QED
  BY <1>1, <1>2, <1>3, <1>4, <1>5, <1>6, <1>7, <1>8, <1>9, <1>10, <1>11, <1>12, <1>13, <1>14,
     <1>15, <1>16, <1>17
     DEF Inv, TypeOK

(* ... moves it away, ...                                                   *)
LEMMA RetireFileStep ==
  ASSUME Inv, pass.pc = "walk", RetireFile
  PROVE  Inv'
<1>a. UNCHANGED <<dirs, head, base, retired, created, last, count, error, full, pending, target,
                  made, clock, own, far, unsent, sent, gone, scanGone>>
  BY DEF RetireFile, settings, tree, Rest
<1> DEFINE x == Top.moving
           e == [Top EXCEPT !.moving = None]
<1>t. Top \in Frames /\ x \in Files /\ x # None /\ pass.loop # ""
  BY WalkFacts DEF RetireFile, Frames
<1>e. e \in Frames /\ e.dir = Top.dir /\ e.folders = Top.folders /\ e.moving = None
  BY <1>t DEF Frames
<1>f. \/ /\ UNCHANGED <<file, trash, raced>> /\ (pass' = GiveUp \/ pass' = SetTop(e))
      \/ /\ file[x] # None /\ file' = [file EXCEPT ![x] = None] /\ pass' = SetTop(e)
         /\ trash' = (IF x.kind = "meta" THEN trash ELSE trash \cup {<<x, file[x]>>})
         /\ raced' = (IF x \in Notes /\ retired[x] # None /\ retired[x].hash = file[x]
                      THEN raced \cup {x} ELSE raced)
  BY DEF RetireFile
<1>g. /\ file' \in [Files -> Contents \cup {None}] /\ trash' \in SUBSET (Files \X Contents)
      /\ raced \subseteq raced' /\ raced' \in SUBSET Notes /\ trash \subseteq trash'
  <2>1. file[x] # None => <<x, file[x]>> \in Files \X Contents BY <1>t DEF Inv, TypeOK, TypeDisk
  <2>2. file \in [Files -> Contents \cup {None}] /\ trash \in SUBSET (Files \X Contents)
        /\ raced \in SUBSET Notes
    BY DEF Inv, TypeOK, TypeDisk, TypeGhosts
  <2> HIDE DEF x
  <2> QED BY <1>f, <2>1, <2>2
<1>o. ASSUME NEW y \in unsent \ sent, file[y] = "own", y = x
      PROVE  y \in raced' /\ (file' # file => <<y, "own">> \in trash')
  <2>1. y \in Notes /\ y \notin sent BY DEF Inv, TypeOK, TypeGhosts
  <2>2. y \in raced BY <1>o, <2>1, WalkFacts DEF Inv, MovingKnown, At
  <2>3. y.kind = "note" BY <2>1 DEF Notes
  <2> HIDE DEF x, e
  <2> QED BY <1>o, <1>f, <1>g, <2>2, <2>3
<1> HIDE DEF x, e
<1>w. Walks /\ (pass'.pc = "walk" => /\ Len(pass'.stack) > 0 /\ Top'.moving = None
                      /\ \A i \in 1 .. Len(pass'.stack) - 1 : pass'.stack[i].moving = None)
  BY <1>e, <1>f, TopStep, GiveUpStep
<1>m. MovingKnown'
  <2>1. pass.loop # "" /\ pass'.loop = pass.loop BY <1>w, <1>t DEF Walks, SameRoots
  <2> QED BY <1>w, <2>1, NoneNote DEF MovingKnown, At
<1>r. /\ Nested' /\ ChosenBefore' /\ TypePass' /\ SentPlans' /\ MarksPast' /\ Ready'
      /\ ScanMet' /\ TargetMet' /\ BaseMet'
  BY <1>a, <1>w, WalkKeeps, WalkRest DEF Met
<1>1. TypeDisk' BY <1>a, <1>g DEF Inv, TypeOK, TypeDisk
<1>2. TypeTrees' BY <1>a DEF Inv, TypeOK, TypeTrees
<1>3. TypeSettings' BY <1>a DEF Inv, TypeOK, TypeSettings
<1>4. TypeGhosts' BY <1>a, <1>g DEF Inv, TypeOK, TypeGhosts
<1>5. TypePass' BY <1>r
<1>6. TypeRest' BY <1>a DEF Inv, TypeOK, TypeRest
<1>7. SentOwn' BY <1>a DEF Inv, TypeOK, SentOwn, Owns
<1>8. SentPlans' BY <1>r
<1>9. MovingKnown' BY <1>m
<1>10. Nested' BY <1>r
<1>11. OwnTextStays'
  <2>1. SUFFICES ASSUME NEW y \in unsent \ sent
                 PROVE  file'[y] = "own" \/ (y \in raced' /\ <<y, "own">> \in trash')
    BY <1>a DEF OwnTextStays
  <2>2. y \in Notes /\ y \in Files BY DEF Inv, TypeOK, TypeGhosts, Notes
  <2>3. CASE file[y] = "own" /\ y = x BY <1>o, <2>3
  <2>4. CASE file[y] = "own" /\ y # x
    <3>1. file'[y] = file[y] BY <1>f, <2>2, <2>4 DEF Inv, TypeOK, TypeDisk
    <3> QED BY <2>4, <3>1
  <2>5. CASE file[y] # "own" BY <2>5, <1>g DEF Inv, OwnTextStays
  <2> QED BY <2>3, <2>4, <2>5
<1>12. MarksPast' BY <1>r
<1>13. ChosenBefore' BY <1>r
<1>14. Ready' BY <1>r
<1>15. BaseMet' BY <1>a DEF Inv, TypeOK, BaseMet, Met
<1>16. ScanMet' BY <1>r
<1>17. TargetMet' BY <1>r
<1> QED
  BY <1>1, <1>2, <1>3, <1>4, <1>5, <1>6, <1>7, <1>8, <1>9, <1>10, <1>11, <1>12, <1>13, <1>14,
     <1>15, <1>16, <1>17
     DEF Inv, TypeOK

(* ... lists an emptied folder again ...                                    *)
LEMMA ListAgainStep ==
  ASSUME Inv, pass.pc = "walk", ListAgain
  PROVE  Inv'
<1>a. UNCHANGED <<dirs, file, trash, head, base, retired, created, last, count, error, full,
                  pending, target, made, clock, own, far, unsent, sent, raced, gone, scanGone>>
  BY DEF ListAgain, settings, tree, Rest, Kept
<1> DEFINE e == [Top EXCEPT !.seen = @ + 1]
<1>t. Top \in Frames /\ Top.moving = None /\ Top.folders = {}
  BY WalkFacts DEF ListAgain, Walked
<1>e. e \in Frames /\ e.dir = Top.dir /\ e.folders = {} /\ e.moving = None
  BY <1>t DEF Frames
<1>f. pass' = SetTop(e) \/ pass' = Pop BY DEF ListAgain
<1> HIDE DEF e
<1>w. Walks /\ (pass'.pc = "walk" => /\ Len(pass'.stack) > 0 /\ Top'.moving = None
                      /\ \A i \in 1 .. Len(pass'.stack) - 1 : pass'.stack[i].moving = None)
  <2>1. CASE pass' = SetTop(e) BY <1>e, <1>t, <2>1, TopStep
  <2>2. CASE pass' = Pop
    <3>1. pass'.stack \in Seq(Frames) BY <2>2, PopStep DEF Walks, Passes
    <3>2. Len(pass'.stack) \in Nat BY <3>1
    <3> QED BY <2>2, <3>2, PopStep
  <2> QED BY <1>f, <2>1, <2>2
<1>m. MovingKnown'
  <2>1. pass.loop # "" /\ pass'.loop = pass.loop BY <1>w, WalkFacts DEF Walks, SameRoots
  <2> QED BY <1>w, <2>1, NoneNote DEF MovingKnown, At
<1>r. /\ Nested' /\ ChosenBefore' /\ TypePass' /\ SentPlans' /\ MarksPast' /\ Ready'
      /\ ScanMet' /\ TargetMet' /\ BaseMet'
  BY <1>a, <1>w, WalkKeeps, WalkRest DEF Met
<1>1. TypeDisk' BY <1>a DEF Inv, TypeOK, TypeDisk
<1>2. TypeTrees' BY <1>a DEF Inv, TypeOK, TypeTrees
<1>3. TypeSettings' BY <1>a DEF Inv, TypeOK, TypeSettings
<1>4. TypeGhosts' BY <1>a DEF Inv, TypeOK, TypeGhosts
<1>5. TypePass' BY <1>r
<1>6. TypeRest' BY <1>a DEF Inv, TypeOK, TypeRest
<1>7. SentOwn' BY <1>a DEF Inv, TypeOK, SentOwn, Owns
<1>8. SentPlans' BY <1>r
<1>9. MovingKnown' BY <1>m
<1>10. Nested' BY <1>r
<1>11. OwnTextStays' BY <1>a DEF Inv, TypeOK, OwnTextStays
<1>12. MarksPast' BY <1>r
<1>13. ChosenBefore' BY <1>r
<1>14. Ready' BY <1>r
<1>15. BaseMet' BY <1>a DEF Inv, TypeOK, BaseMet, Met
<1>16. ScanMet' BY <1>r
<1>17. TargetMet' BY <1>r
<1> QED
  BY <1>1, <1>2, <1>3, <1>4, <1>5, <1>6, <1>7, <1>8, <1>9, <1>10, <1>11, <1>12, <1>13, <1>14,
     <1>15, <1>16, <1>17
     DEF Inv, TypeOK

(* ... and removes it.                                                      *)
LEMMA RemoveEmptyStep ==
  ASSUME Inv, pass.pc = "walk", RemoveEmpty
  PROVE  Inv'
<1>a. UNCHANGED <<file, trash, head, base, retired, created, last, count, error, full, pending,
                  target, made, clock, own, far, unsent, sent, raced, scanGone>>
  BY DEF RemoveEmpty, settings, tree, Rest
<1>t. Top \in Frames /\ Top.dir \in Folders BY WalkFacts DEF Frames
<1>f. \/ dirs' = dirs \ {Top.dir} /\ gone' = gone \cup {Top.dir} /\ pass' = Pop
      \/ pass' = GiveUp /\ UNCHANGED <<dirs, gone>>
  BY DEF RemoveEmpty
<1>g. Met \subseteq Met' /\ dirs' \in SUBSET Folders /\ gone' \in SUBSET Folders
  BY <1>f, <1>t DEF Met, Inv, TypeOK, TypeDisk, TypeGhosts
<1>w. Walks /\ (pass'.pc = "walk" => /\ Len(pass'.stack) > 0 /\ Top'.moving = None
                      /\ \A i \in 1 .. Len(pass'.stack) - 1 : pass'.stack[i].moving = None)
  <2>1. CASE pass' = GiveUp BY <2>1, GiveUpStep
  <2>2. CASE pass' = Pop
    <3>1. pass'.stack \in Seq(Frames) BY <2>2, PopStep DEF Walks, Passes
    <3>2. Len(pass'.stack) \in Nat BY <3>1
    <3> QED BY <2>2, <3>2, PopStep
  <2> QED BY <1>f, <2>1, <2>2
<1>m. MovingKnown'
  <2>1. pass.loop # "" /\ pass'.loop = pass.loop BY <1>w, WalkFacts DEF Walks, SameRoots
  <2> QED BY <1>w, <2>1, NoneNote DEF MovingKnown, At
<1>r. /\ Nested' /\ ChosenBefore' /\ TypePass' /\ SentPlans' /\ MarksPast' /\ Ready'
      /\ ScanMet' /\ TargetMet' /\ BaseMet'
  BY <1>a, <1>g, <1>w, WalkKeeps, WalkRest
<1>1. TypeDisk' BY <1>a, <1>g DEF Inv, TypeOK, TypeDisk
<1>2. TypeTrees' BY <1>a DEF Inv, TypeOK, TypeTrees
<1>3. TypeSettings' BY <1>a DEF Inv, TypeOK, TypeSettings
<1>4. TypeGhosts' BY <1>a, <1>g DEF Inv, TypeOK, TypeGhosts
<1>5. TypePass' BY <1>r
<1>6. TypeRest' BY <1>a DEF Inv, TypeOK, TypeRest
<1>7. SentOwn' BY <1>a DEF Inv, TypeOK, SentOwn, Owns
<1>8. SentPlans' BY <1>r
<1>9. MovingKnown' BY <1>m
<1>10. Nested' BY <1>r
<1>11. OwnTextStays' BY <1>a DEF Inv, TypeOK, OwnTextStays
<1>12. MarksPast' BY <1>r
<1>13. ChosenBefore' BY <1>r
<1>14. Ready' BY <1>r
<1>15. BaseMet' BY <1>r
<1>16. ScanMet' BY <1>r
<1>17. TargetMet' BY <1>r
<1> QED
  BY <1>1, <1>2, <1>3, <1>4, <1>5, <1>6, <1>7, <1>8, <1>9, <1>10, <1>11, <1>12, <1>13, <1>14,
     <1>15, <1>16, <1>17
     DEF Inv, TypeOK

(* The accepted tree is read.                                               *)
LEMMA ReadHeadStep ==
  ASSUME Inv, ReadHead
  PROVE  Inv'
<1>a. UNCHANGED <<dirs, file, trash, head, base, retired, created, last, count, error, full,
                  pending, target, made, clock, own, far, unsent, sent, raced, gone, scanGone>>
  BY DEF ReadHead, settings, tree, Rest, Kept
<1>q. pass \in Passes /\ pass # Idle /\ pass.pc = "head"
  BY PassFacts DEF ReadHead, Places, Inv, TypeOK

<1>r. \/ pass' = Idle
      \/ /\ pass' \in Passes /\ pass' # Idle /\ pass'.chosen = pass.chosen
         /\ \/ /\ pass'.pc = "make" /\ pass'.stage = pass.stage /\ pass'.remote = pass.remote
            \/ /\ pass'.pc = "scan" /\ target = None /\ pass'.stage = "before"
                      /\ pass'.remote = head
            \/ /\ pass'.pc = "apply" /\ target # None /\ pass'.stage = "resume"
                      /\ pass'.remote = head
  <2>1. head \in Trees /\ base.dirs \in SUBSET Folders BY DEF Inv, TypeOK, TypeTrees, Trees
  <2>2. CASE pass' = [Go("make") EXCEPT !.desired = base.dirs]
    <3>1. pass' \in Passes BY <1>q, <2>1, <2>2 DEF Go, Passes, Places
    <3> QED BY <1>q, <2>2, <3>1, NotIdle DEF Go, Passes
  <2>3. CASE target = None /\ pass' = [Go("scan") EXCEPT !.stage = "before", !.remote = head]
    <3>1. pass' \in Passes BY <1>q, <2>1, <2>3 DEF Go, Passes, Places
    <3> QED BY <1>q, <2>3, <3>1, NotIdle DEF Go, Passes
  <2>4. CASE target # None /\ pass' = [Go("apply") EXCEPT !.stage = "resume", !.remote = head]
    <3>1. pass' \in Passes BY <1>q, <2>1, <2>4 DEF Go, Passes, Places
    <3> QED BY <1>q, <2>4, <3>1, NotIdle DEF Go, Passes
  <2> QED BY <2>2, <2>3, <2>4 DEF ReadHead
<1>s. pass.stage = "before" BY <1>q DEF Inv, Ready, At
<1>h. head # None BY NoneAssumption DEF Inv, TypeOK, TypeTrees
<1>1. TypeDisk' BY <1>a DEF Inv, TypeOK, TypeDisk
<1>2. TypeTrees' BY <1>a DEF Inv, TypeOK, TypeTrees
<1>3. TypeSettings' BY <1>a DEF Inv, TypeOK, TypeSettings
<1>4. TypeGhosts' BY <1>a DEF Inv, TypeOK, TypeGhosts
<1>5. TypePass'
  BY <1>r DEF TypePass
<1>6. TypeRest' BY <1>a DEF Inv, TypeOK, TypeRest
<1>7. SentOwn' BY <1>a DEF Inv, TypeOK, SentOwn, Owns
<1>8. SentPlans'
  BY <1>a, <1>q, <1>r DEF Inv, SentPlans, At, SentOwn
<1>9. MovingKnown'
  BY <1>r DEF MovingKnown, At
<1>10. Nested'
  BY <1>r DEF Nested, At
<1>11. OwnTextStays' BY <1>a DEF Inv, TypeOK, OwnTextStays
<1>12. MarksPast'
  BY <1>a, <1>q, <1>r DEF Inv, MarksPast
<1>13. ChosenBefore'
  BY <1>r DEF ChosenBefore, At
<1>14. Ready'
  BY <1>a, <1>r, <1>s, <1>h DEF Ready, At
<1>15. BaseMet' BY <1>a DEF Inv, TypeOK, BaseMet, Met
<1>16. ScanMet'
  BY <1>r DEF ScanMet, At
<1>17. TargetMet'
  BY <1>r, <1>s DEF TargetMet, At, Cleaning
<1> QED
  BY <1>1, <1>2, <1>3, <1>4, <1>5, <1>6, <1>7, <1>8, <1>9, <1>10, <1>11, <1>12, <1>13, <1>14,
     <1>15, <1>16, <1>17
     DEF Inv, TypeOK

(* The disk is listed.                                                      *)
LEMMA ScanStep ==
  ASSUME Inv, Scan
  PROVE  Inv'
<1>a. UNCHANGED <<dirs, file, trash, head, base, retired, created, last, count, error, full,
                  pending, target, made, clock, own, far, unsent, sent, raced, gone>>
  BY DEF Scan, settings, tree
<1>q. pass \in Passes /\ pass # Idle /\ pass.pc = "scan"
  BY PassFacts DEF Scan, Places, Inv, TypeOK

<1>r. /\ pass' \in Passes /\ pass'.chosen = pass.chosen /\ pass'.pc = "plan" /\ pass'.stage = "own"
      /\ pass'.remote = pass.remote /\ pass'.scan \in Trees /\ scanGone' = gone
      /\ pass'.scan.dirs = dirs \/ pass'.scan.dirs = base.dirs
  <2> DEFINE seen == IF full THEN [dirs |-> dirs, notes |-> NotesOn]
                     ELSE [dirs |-> base.dirs,
                           notes |-> [x \in Notes |-> IF x \in pending THEN file[x] ELSE base.notes[x]]]
  <2>1. seen \in Trees /\ (seen.dirs = dirs \/ seen.dirs = base.dirs)
    BY DEF Inv, TypeOK, TypeDisk, TypeTrees, Trees, NotesOn, Notes
  <2>2. pass' = [pass EXCEPT !.pc = "plan", !.stage = "own", !.full = full, !.intents = made,
                             !.touched = {}, !.refull = FALSE, !.scan = seen]
    BY <1>q DEF Scan, Go, Passes
  <2>3. full \in BOOLEAN /\ made \in Made BY DEF Inv, TypeOK, TypeSettings, TypeRest
  <2>4. scanGone' = gone BY DEF Scan
  <2> HIDE DEF seen
  <2> QED BY <1>q, <2>1, <2>2, <2>3, <2>4 DEF Passes, Places
<1>c. pass' # Idle BY <1>r, NotIdle
<1>d. pass'.scan # None BY <1>r, NoneAssumption
<1>e. target = None /\ pass.remote # None BY <1>q DEF Inv, Ready, At
<1>1. TypeDisk' BY <1>a DEF Inv, TypeOK, TypeDisk
<1>2. TypeTrees' BY <1>a DEF Inv, TypeOK, TypeTrees
<1>3. TypeSettings' BY <1>a DEF Inv, TypeOK, TypeSettings
<1>4. TypeGhosts'
  BY <1>a, <1>r DEF Inv, TypeOK, TypeGhosts
<1>5. TypePass'
  BY <1>r DEF TypePass
<1>6. TypeRest' BY <1>a DEF Inv, TypeOK, TypeRest
<1>7. SentOwn' BY <1>a DEF Inv, TypeOK, SentOwn, Owns
<1>8. SentPlans'
  BY <1>a, <1>q, <1>r DEF Inv, SentPlans, At
<1>9. MovingKnown'
  BY <1>r DEF MovingKnown, At
<1>10. Nested'
  BY <1>r DEF Nested, At
<1>11. OwnTextStays' BY <1>a DEF Inv, TypeOK, OwnTextStays
<1>12. MarksPast'
  BY <1>a, <1>q, <1>r DEF Inv, MarksPast
<1>13. ChosenBefore'
  BY <1>r DEF ChosenBefore, At
<1>14. Ready'
  BY <1>a, <1>r, <1>d, <1>e DEF Ready, At
<1>15. BaseMet' BY <1>a DEF Inv, TypeOK, BaseMet, Met
<1>16. ScanMet'
  BY <1>a, <1>r, <1>e DEF Inv, ScanMet, At, BaseMet, Met
<1>17. TargetMet'
  BY <1>r DEF TargetMet, At, Cleaning
<1> QED
  BY <1>1, <1>2, <1>3, <1>4, <1>5, <1>6, <1>7, <1>8, <1>9, <1>10, <1>11, <1>12, <1>13, <1>14,
     <1>15, <1>16, <1>17
     DEF Inv, TypeOK

(* The trees are merged: text of the owner is kept or was accepted, and what*)
(* the merge drops was dropped by one who had it.                           *)
LEMMA PlanStep ==
  ASSUME Inv, Plan
  PROVE  Inv'
<1>a. UNCHANGED <<dirs, file, trash, head, base, created, last, count, error, full, pending,
                  target, made, clock, own, far, unsent, sent, raced, gone, scanGone>>
  BY DEF Plan, tree, ghost
<1>q. pass \in Passes /\ pass # Idle /\ pass.pc = "plan"
  BY PassFacts DEF Plan, Places, Inv, TypeOK

<1>k. /\ pass.remote \in Trees /\ pass.scan \in Trees /\ pass.stage = "own" /\ target = None
      /\ pass.remote # None /\ pass.scan # None /\ base \in Trees
  BY <1>q, PassTypes DEF Inv, TypeOK, TypeTrees, Ready, At
<1> DEFINE notes == [x \in Notes |-> Merge(base.notes[x], LocalNote(x), pass.remote.notes[x])]
           kept  == {f \in Folders : FolderKept(f)}
           parents == ParentsOf(Present(notes))
           same == notes = pass.remote.notes /\ kept \ parents = pass.remote.dirs \ parents
                       /\ pass.intents.folders \cap pass.remote.dirs = {}
           left == IF same THEN pass.remote.dirs ELSE kept \cup parents \cup Above(kept)
<1>t. notes \in [Notes -> Contents \cup {None}]
  BY <1>k DEF Trees, Merge, LocalNote
<1>u. kept \in SUBSET Folders /\ parents \in SUBSET Folders /\ Above(kept) \in SUBSET Folders
  BY DEF ParentsOf, Above
<1>v. ASSUME NEW x \in Notes, Owns(pass.scan.notes, x) PROVE Owns(notes, x) \/ x \in sent
  <2>1. Stale(x) => x \in sent BY <1>v DEF Stale, Owns, Inv, SentOwn
  <2>2. ~Stale(x) => LocalNote(x) = "own" BY <1>v DEF LocalNote, Owns
  <2>3. Owns(base.notes, x) => x \in sent BY DEF Inv, SentOwn
  <2>4. "own" # None BY NoneAssumption DEF Contents
  <2> QED BY <2>1, <2>2, <2>3, <2>4 DEF Merge, Owns
<1>w. ASSUME NEW f \in pass.remote.dirs, f \notin kept
      PROVE  f \in base.dirs /\ f \notin pass.scan.dirs
  <2>1. f \in Folders /\ ~FolderKept(f) BY <1>w, <1>k DEF Trees
  <2> DEFINE b == f \in base.dirs
             l == f \in pass.scan.dirs \cup ParentsOf(Present([x \in Notes |-> LocalNote(x)]))
  <2>2. ~l /\ b BY <2>1, <1>w DEF FolderKept
  <2> QED BY <2>2
<1> HIDE DEF notes, kept, parents
<1>x. pass' = [pass EXCEPT !.pc = IF same THEN "stage" ELSE "commit",
                           !.plan = [dirs |-> left, notes |-> notes], !.desired = kept \cup parents]
  BY DEF Plan, Go, notes, kept, parents
<1>y. left \in SUBSET Folders BY <1>u, <1>k DEF Trees
<1>z. left \subseteq kept \cup parents \cup Above(kept \cup parents)
  <2>1. Above(kept) \subseteq Above(kept \cup parents) BY DEF Above
  <2> QED BY <2>1
<1>r. /\ pass' \in Passes /\ pass'.pc \in {"stage", "commit"} /\ pass'.chosen = pass.chosen
      /\ pass'.stage = pass.stage /\ pass'.remote = pass.remote /\ pass'.scan = pass.scan
      /\ pass'.plan \in Trees /\ pass'.plan.dirs = left /\ pass'.plan.notes = notes
      /\ pass'.desired = kept \cup parents
      /\ pass'.pc = "stage" => notes = pass.remote.notes
      /\ pass'.pc = "commit" => kept \subseteq left
  <2>1. [dirs |-> left, notes |-> notes] \in Trees BY <1>t, <1>y DEF Trees
  <2>2. ~same => kept \subseteq left OBVIOUS
  <2> HIDE DEF left
  <2>3. CASE same BY <1>q, <1>t, <1>u, <1>x, <2>1, <2>3 DEF Passes, Places
  <2>4. CASE ~same
    <3> HIDE DEF same
    <3> QED BY <1>q, <1>t, <1>u, <1>x, <2>1, <2>2, <2>4 DEF Passes, Places
  <2> QED BY <2>3, <2>4
<1> HIDE DEF left, same
<1>c. pass' # Idle /\ pass'.plan # None BY <1>r, NotIdle, NoneAssumption
<1>d. \A x \in Notes : retired'[x] = retired[x] \/ retired'[x] = None
  BY DEF Plan
<1>e. retired' \in [Notes -> Marks \cup {None}] BY DEF Plan, Inv, TypeOK, TypeSettings
<1>1. TypeDisk' BY <1>a DEF Inv, TypeOK, TypeDisk
<1>2. TypeTrees' BY <1>a DEF Inv, TypeOK, TypeTrees
<1>3. TypeSettings' BY <1>a, <1>e DEF Inv, TypeOK, TypeSettings
<1>4. TypeGhosts' BY <1>a DEF Inv, TypeOK, TypeGhosts
<1>5. TypePass'
  BY <1>r DEF TypePass
<1>6. TypeRest' BY <1>a DEF Inv, TypeOK, TypeRest
<1>7. SentOwn' BY <1>a, <1>d DEF Inv, SentOwn
<1>8. SentPlans' BY <1>a, <1>q, <1>k, <1>r, <1>c, <1>v DEF Inv, SentPlans, At, Owns
<1>9. MovingKnown'
  BY <1>r DEF MovingKnown, At
<1>10. Nested'
  BY <1>r DEF Nested, At
<1>11. OwnTextStays' BY <1>a DEF Inv, TypeOK, OwnTextStays
<1>12. MarksPast' BY <1>a, <1>q, <1>r, <1>d DEF Inv, MarksPast
<1>13. ChosenBefore'
  BY <1>r DEF ChosenBefore, At
<1>14. Ready'
  BY <1>a, <1>k, <1>r, <1>c DEF Ready, At
<1>15. BaseMet' BY <1>a DEF Inv, TypeOK, BaseMet, Met
<1>16. ScanMet' BY <1>a, <1>q, <1>k, <1>r, <1>c, <1>w DEF Inv, ScanMet, At
<1>17. TargetMet' BY <1>q, <1>k, <1>r, <1>c, <1>z DEF TargetMet, At, Cleaning, Covered
<1> QED
  BY <1>1, <1>2, <1>3, <1>4, <1>5, <1>6, <1>7, <1>8, <1>9, <1>10, <1>11, <1>12, <1>13, <1>14,
     <1>15, <1>16, <1>17
     DEF Inv, TypeOK

(* The merge becomes the accepted tree, unless there is another by now.     *)
LEMMA CommitStep ==
  ASSUME Inv, Commit
  PROVE  Inv'
<1>a. UNCHANGED <<dirs, file, trash, base, retired, created, last, count, error, full, pending,
                  made, clock, own, far, unsent, raced, scanGone>>
  BY DEF Commit
<1>q. pass \in Passes /\ pass # Idle /\ pass.pc = "commit"
  BY PassFacts DEF Commit, Places, Inv, TypeOK

<1>k. /\ pass.remote \in Trees /\ pass.scan \in Trees /\ pass.plan \in Trees /\ pass.stage = "own"
      /\ pass.remote # None /\ pass.scan # None /\ pass.plan # None
  BY <1>q, PassTypes DEF Inv, TypeOK, Ready, At
<1>p. Planned \in Targets /\ Planned # None
  <2>1. Planned \in Targets BY <1>k DEF Planned, Targets, Trees
  <2> QED BY <2>1, NoneAssumption
<1>r. \/ pass' = Idle /\ UNCHANGED <<head, target, sent, gone>>
      \/ /\ pass' \in Passes /\ pass' # Idle /\ SamePlan(pass, pass') /\ SameRoots(pass, pass')
         /\ pass'.pc = "stage" /\ head' = pass.plan /\ target' = Planned
         /\ sent' = sent \cup {x \in Notes : pass.plan.notes[x] = "own"} /\ gone' \subseteq gone
  <2>1. CASE head # pass.remote BY <2>1 DEF Commit
  <2>2. CASE head = pass.remote
    <3>1. /\ pass' = [pass EXCEPT !.pc = "stage"] /\ head' = pass.plan /\ target' = Planned
          /\ sent' = sent \cup {x \in Notes : pass.plan.notes[x] = "own"} /\ gone' \subseteq gone
      BY <2>2 DEF Commit, Go
    <3>2. pass' \in Passes BY <1>q, <3>1 DEF Passes, Places
    <3> QED BY <1>q, <3>1, <3>2, NotIdle DEF Passes, SamePlan, SameRoots
  <2> QED BY <2>1, <2>2
<1>1. TypeDisk' BY <1>a DEF Inv, TypeOK, TypeDisk
<1>2. TypeTrees'
  BY <1>a, <1>k, <1>r DEF Inv, TypeOK, TypeTrees
<1>3. TypeSettings'
  BY <1>a, <1>p, <1>r DEF Inv, TypeOK, TypeSettings
<1>4. TypeGhosts'
  BY <1>a, <1>r DEF Inv, TypeOK, TypeGhosts
<1>5. TypePass'
  BY <1>r DEF TypePass
<1>6. TypeRest' BY <1>a DEF Inv, TypeOK, TypeRest
<1>7. SentOwn'
  BY <1>a, <1>q, <1>r DEF Inv, SentOwn, Owns, SentPlans, At, Planned
<1>8. SentPlans'
  BY <1>q, <1>r DEF Inv, SentPlans, Owns, At, SamePlan
<1>9. MovingKnown'
  BY <1>r DEF MovingKnown, At
<1>10. Nested'
  BY <1>r DEF Nested, At
<1>11. OwnTextStays'
  BY <1>a, <1>r DEF Inv, OwnTextStays
<1>12. MarksPast'
  BY <1>a, <1>q, <1>r DEF Inv, MarksPast, SameRoots
<1>13. ChosenBefore'
  BY <1>r DEF ChosenBefore, At
<1>14. Ready'
  BY <1>k, <1>r DEF Ready, At, SamePlan
<1>15. BaseMet'
  BY <1>a, <1>p, <1>r DEF Inv, BaseMet, Met
<1>16. ScanMet'
  BY <1>r DEF ScanMet, At
<1>17. TargetMet'
  BY <1>q, <1>r DEF Inv, TargetMet, At, Cleaning, Covered, SamePlan
<1> QED
  BY <1>1, <1>2, <1>3, <1>4, <1>5, <1>6, <1>7, <1>8, <1>9, <1>10, <1>11, <1>12, <1>13, <1>14,
     <1>15, <1>16, <1>17
     DEF Inv, TypeOK

(* The application and its retirements are recorded.                        *)
LEMMA StageStep ==
  ASSUME Inv, Stage
  PROVE  Inv'
<1>a. UNCHANGED <<dirs, file, trash, head, base, created, last, count, error, full, pending, made,
                  own, far, unsent, sent, raced, gone, scanGone>>
  BY DEF Stage, tree, ghost
<1>q. pass \in Passes /\ pass # Idle /\ pass.pc = "stage"
  BY PassFacts DEF Stage, Places, Inv, TypeOK

<1>k. /\ pass.scan \in Trees /\ pass.plan \in Trees /\ pass.stage = "own"
      /\ pass.scan # None /\ pass.plan # None /\ clock \in Nat
  BY <1>q, PassTypes DEF Inv, TypeOK, TypeRest, Ready, At
<1>p. Planned \in Targets /\ Planned # None /\ target' = Planned
  <2>1. Planned \in Targets BY <1>k DEF Planned, Targets, Trees
  <2> QED BY <2>1, NoneAssumption DEF Stage
<1>r. /\ pass' \in Passes /\ pass' # Idle /\ SamePlan(pass, pass') /\ SameRoots(pass, pass')
      /\ pass'.pc = "apply"
  <2>1. pass' = [pass EXCEPT !.pc = "apply"] BY DEF Stage, Go
  <2>2. pass' \in Passes BY <1>q, <2>1 DEF Passes, Places
  <2> QED BY <1>q, <2>1, <2>2, NotIdle DEF Passes, SamePlan, SameRoots
<1>s. /\ retired' \in [Notes -> Marks \cup {None}] /\ clock' \in Nat /\ clock <= clock'
      /\ \A x \in Notes : \/ retired'[x] = retired[x]
                          \/ /\ retired'[x] = [hash |-> pass.scan.notes[x], at |-> clock + 1]
                             /\ clock' = clock + 1 /\ pass.scan.notes[x] # None
                                    /\ pass.plan.notes[x] = None
  <2> DEFINE removed == {x \in Notes : pass.scan.notes[x] # None /\ pass.plan.notes[x] = None}
  <2>1. Retire(removed, pass.scan.notes) BY DEF Stage
  <2>2. \A x \in removed : [hash |-> pass.scan.notes[x], at |-> clock + 1] \in Marks
    BY <1>k DEF Trees, Marks
  <2>3. retired \in [Notes -> Marks \cup {None}] BY DEF Inv, TypeOK, TypeSettings
  <2> QED BY <1>k, <2>1, <2>2, <2>3 DEF Retire
<1>1. TypeDisk' BY <1>a DEF Inv, TypeOK, TypeDisk
<1>2. TypeTrees' BY <1>a DEF Inv, TypeOK, TypeTrees
<1>3. TypeSettings'
  BY <1>a, <1>p, <1>s DEF Inv, TypeOK, TypeSettings, TypeSettings
<1>4. TypeGhosts' BY <1>a DEF Inv, TypeOK, TypeGhosts
<1>5. TypePass'
  BY <1>r DEF TypePass
<1>6. TypeRest'
  BY <1>a, <1>s DEF Inv, TypeOK, TypeRest
<1>7. SentOwn'
  BY <1>a, <1>q, <1>p, <1>s DEF Inv, SentOwn, Owns, SentPlans, At, Planned
<1>8. SentPlans'
  BY <1>a, <1>q, <1>r DEF Inv, SentPlans, At, SamePlan
<1>9. MovingKnown'
  BY <1>r DEF MovingKnown, At
<1>10. Nested'
  BY <1>r DEF Nested, At
<1>11. OwnTextStays' BY <1>a DEF Inv, TypeOK, OwnTextStays
<1>12. MarksPast'
  <2>1. clock \in Nat /\ clock' \in Nat BY <1>s DEF Inv, TypeOK, TypeRest
  <2>2. \A x \in Notes : retired[x] # None => retired[x].at \in Nat /\ retired[x].at <= clock
    BY DEF Inv, TypeOK, TypeSettings, MarksPast, Marks
  <2>3. \A x \in Notes : retired'[x] # None => retired'[x].at <= clock'
    BY <1>s, <2>1, <2>2
  <2>4. pass.chosen \in Nat /\ pass.chosen <= clock
    BY <1>q, PassTypes DEF Inv, TypeOK, MarksPast
  <2> QED BY <1>r, <1>s, <2>1, <2>3, <2>4 DEF MarksPast, SameRoots
<1>13. ChosenBefore'
  BY <1>r DEF ChosenBefore, At
<1>14. Ready'
  BY <1>k, <1>p, <1>r DEF Ready, At, SamePlan
<1>15. BaseMet'
  BY <1>p DEF BaseMet
<1>16. ScanMet'
  BY <1>r DEF ScanMet, At
<1>17. TargetMet'
  BY <1>q, <1>p, <1>r DEF Inv, TargetMet, At, Covered, SamePlan, Planned
<1> QED
  BY <1>1, <1>2, <1>3, <1>4, <1>5, <1>6, <1>7, <1>8, <1>9, <1>10, <1>11, <1>12, <1>13, <1>14,
     <1>15, <1>16, <1>17
     DEF Inv, TypeOK

(* Untouched notes become the accepted ones.                                *)
LEMMA ApplyStep ==
  ASSUME Inv, Apply
  PROVE  Inv'
<1>a. UNCHANGED <<trash, head, base, created, last, count, error, full, target, made, own, far,
                  unsent, sent, raced, gone, scanGone>>
  BY DEF Apply, tree, ghost
<1>q. pass \in Passes /\ pass # Idle /\ pass.pc = "apply"
  BY PassFacts DEF Apply, Places, Inv, TypeOK

<1>k. target \in Targets /\ target # None /\ clock \in Nat /\ base \in Trees
  BY <1>q DEF Inv, TypeOK, TypeSettings, TypeTrees, TypeRest, Ready, At
<1> DEFINE changed == {x \in Notes : target.prior[x] # target.notes[x]}
           ready   == {x \in changed : file[x] = target.prior[x]}
           blocked == {x \in changed \ ready : file[x] # target.notes[x]}
           removed == {x \in changed : target.notes[x] = None /\ base.notes[x] # None}
<1>u. /\ file' = [x \in Files |-> IF x \in ready THEN target.notes[x] ELSE file[x]]
      /\ dirs' = dirs \cup ParentsOf({x \in ready : target.notes[x] # None})
      /\ \/ /\ pass.stage = "resume" /\ pass' = [pass
                   EXCEPT !.pc = "retired", !.desired = target.dirs]
            /\ pending' = pending \cup blocked /\ Retire(removed, base.notes)
         \/ /\ pass.stage # "resume" /\ (pass' = Idle \/ pass' = [pass EXCEPT !.pc = "retired"])
            /\ UNCHANGED <<pending, retired, clock>>
  BY <1>q DEF Apply, Go, Passes
<1>f. /\ file' \in [Files -> Contents \cup {None}] /\ dirs \subseteq dirs'
             /\ dirs' \in SUBSET Folders
      /\ \A x \in Notes : file'[x] = file[x] \/ (file[x] = target.prior[x]
             /\ file'[x] = target.notes[x])
  BY <1>u, <1>k DEF Targets, Inv, TypeOK, TypeDisk, Notes, ParentsOf
<1>r. \/ /\ pass.stage = "resume" /\ pass' \in Passes /\ pass' # Idle /\ pass'.pc = "retired"
         /\ pass'.desired = target.dirs /\ pass'.stage = pass.stage /\ pass'.remote = pass.remote
         /\ pass'.scan = pass.scan /\ pass'.plan = pass.plan /\ SameRoots(pass, pass')
         /\ pending' \in SUBSET Notes
         /\ retired' \in [Notes -> Marks \cup {None}] /\ clock' \in Nat /\ clock <= clock'
         /\ \A x \in Notes : \/ retired'[x] = retired[x]
                             \/ /\ retired'[x] = [hash |-> base.notes[x], at |-> clock + 1]
                                /\ clock' = clock + 1
      \/ /\ pass.stage # "resume" /\ UNCHANGED <<pending, retired, clock>>
         /\ \/ pass' = Idle
            \/ /\ pass' \in Passes /\ pass' # Idle /\ pass'.pc = "retired"
               /\ SamePlan(pass, pass') /\ SameRoots(pass, pass')
  <2>1. CASE pass.stage = "resume"
    <3>1. pass' = [pass EXCEPT !.pc = "retired", !.desired = target.dirs] BY <1>u, <2>1
    <3>2. target.dirs \in SUBSET Folders BY <1>k DEF Targets
    <3>3. /\ pass' \in Passes /\ pass'.pc = "retired"
          /\ pass'.desired = target.dirs /\ pass'.stage = pass.stage /\ pass'.remote = pass.remote
          /\ pass'.scan = pass.scan /\ pass'.plan = pass.plan /\ SameRoots(pass, pass')
      BY <1>q, <3>1, <3>2 DEF Passes, Places, SameRoots
    <3>4. pending' \in SUBSET Notes BY <1>u, <2>1 DEF Inv, TypeOK, TypeSettings
    <3>5. Retire(removed, base.notes) BY <1>u, <2>1
    <3>6. \A x \in removed : [hash |-> base.notes[x], at |-> clock + 1] \in Marks
      BY <1>k DEF Trees, Marks
    <3>7. retired \in [Notes -> Marks \cup {None}] BY DEF Inv, TypeOK, TypeSettings
    <3>8. /\ retired' \in [Notes -> Marks \cup {None}] /\ clock' \in Nat /\ clock <= clock'
          /\ \A x \in Notes : \/ retired'[x] = retired[x]
                              \/ /\ retired'[x] = [hash |-> base.notes[x], at |-> clock + 1]
                                 /\ clock' = clock + 1
      <4> HIDE DEF changed
      <4> QED BY <1>k, <3>5, <3>6, <3>7 DEF Retire
    <3> QED BY <2>1, <3>3, <3>4, <3>8, NotIdle
  <2>2. CASE pass.stage # "resume"
    <3>1. CASE pass' = [pass EXCEPT !.pc = "retired"]
      <4>1. pass' \in Passes BY <1>q, <3>1 DEF Passes, Places
      <4> QED BY <1>q, <1>u, <2>2, <3>1, <4>1, NotIdle DEF Passes, SamePlan, SameRoots
    <3> QED BY <1>u, <2>2, <3>1
  <2> QED BY <2>1, <2>2
<1> HIDE DEF changed, ready, blocked, removed
<1>1. TypeDisk'
  BY <1>a, <1>f DEF Inv, TypeOK, TypeDisk, TypeDisk
<1>2. TypeTrees' BY <1>a DEF Inv, TypeOK, TypeTrees
<1>3. TypeSettings'
  BY <1>a, <1>r DEF Inv, TypeOK, TypeSettings, TypeSettings
<1>4. TypeGhosts' BY <1>a DEF Inv, TypeOK, TypeGhosts
<1>5. TypePass'
  BY <1>r DEF TypePass
<1>6. TypeRest'
  BY <1>a, <1>r DEF Inv, TypeOK, TypeRest
<1>7. SentOwn'
  <2>1. ASSUME NEW x \in Notes, retired'[x] # None, retired'[x].hash = "own" PROVE x \in sent
    <3>1. CASE retired'[x] = retired[x] BY <2>1, <3>1 DEF Inv, SentOwn
    <3>2. CASE retired'[x] = [hash |-> base.notes[x], at |-> clock + 1]
      <4>1. Owns(base.notes, x) BY <2>1, <3>2 DEF Owns
      <4> QED BY <4>1 DEF Inv, SentOwn
    <3> QED BY <1>r, <2>1, <3>1, <3>2
  <2> QED BY <1>a, <2>1 DEF Inv, SentOwn
<1>8. SentPlans'
  BY <1>a, <1>q, <1>r DEF Inv, SentPlans, At, SamePlan
<1>9. MovingKnown'
  BY <1>r DEF MovingKnown, At
<1>10. Nested'
  BY <1>r DEF Nested, At
<1>11. OwnTextStays'
  <2>1. ASSUME NEW x \in unsent \ sent, file[x] = "own" PROVE file'[x] = "own"
    <3>1. x \in Notes /\ x \notin sent BY DEF Inv, TypeOK, TypeGhosts
    <3>2. file[x] = target.prior[x] => target.notes[x] = "own"
      BY <1>k, <2>1, <3>1 DEF Inv, SentOwn, Owns
    <3> QED BY <1>f, <2>1, <3>1, <3>2
  <2> QED BY <1>a, <2>1 DEF Inv, OwnTextStays
<1>12. MarksPast'
  <2>1. clock \in Nat BY <1>k
  <2>2. \A x \in Notes : retired[x] # None => retired[x].at \in Nat /\ retired[x].at <= clock
    BY DEF Inv, TypeOK, TypeSettings, MarksPast, Marks
  <2>3. pass.chosen \in Nat /\ pass.chosen <= clock
    BY <1>q, PassTypes DEF Inv, TypeOK, MarksPast
  <2>4. CASE pass.stage = "resume"
    <3>1. clock' \in Nat /\ clock <= clock' BY <1>r, <2>4
    <3>2. \A x \in Notes : retired'[x] # None => retired'[x].at <= clock'
      BY <1>r, <2>1, <2>2, <2>4
    <3>3. pass'.chosen = pass.chosen BY <1>r, <2>4 DEF SameRoots
    <3> QED BY <2>1, <2>3, <3>1, <3>2, <3>3 DEF MarksPast
  <2>5. CASE pass.stage # "resume"
    BY <1>r, <2>2, <2>3, <2>5 DEF MarksPast, SameRoots
  <2> QED BY <2>4, <2>5
<1>13. ChosenBefore'
  BY <1>r DEF ChosenBefore, At
<1>14. Ready'
  BY <1>q, <1>r DEF Inv, Ready, At, SamePlan
<1>15. BaseMet'
  BY <1>a, <1>f DEF Inv, BaseMet, Met
<1>16. ScanMet'
  BY <1>r DEF ScanMet, At
<1>17. TargetMet'
  <2>1. target' = target /\ target # None BY <1>a, <1>k
  <2>2. ASSUME Cleaning' PROVE target.dirs \subseteq Covered' /\ pass'.pc = "retired"
    <3>1. pass' # Idle BY <2>2 DEF Cleaning, At
    <3>2. CASE pass.stage = "resume" BY <1>r, <3>2 DEF Covered
    <3>3. CASE pass.stage # "resume"
      <4>1. pass'.pc = "retired" /\ pass'.desired = pass.desired BY <1>r, <3>1, <3>3 DEF SamePlan
      <4>2. pass.stage = "own" BY <1>q, <3>3 DEF Inv, Ready, At
      <4>3. target.dirs \subseteq Covered BY <1>q, <4>2 DEF Inv, TargetMet, At
      <4> QED BY <4>1, <4>3 DEF Covered, Above
    <3> QED BY <3>2, <3>3
  <2>3. pass' # Idle => pass'.pc = "retired" BY <1>r
  <2> QED BY <2>1, <2>2, <2>3 DEF TargetMet, At, Cleaning
<1> QED
  BY <1>1, <1>2, <1>3, <1>4, <1>5, <1>6, <1>7, <1>8, <1>9, <1>10, <1>11, <1>12, <1>13, <1>14,
     <1>15, <1>16, <1>17
     DEF Inv, TypeOK

(* The checkpoint moves to what the disk has been made to hold.             *)
LEMMA FinishStep ==
  ASSUME Inv, Finish
  PROVE  Inv'
<1>a. UNCHANGED <<dirs, file, trash, head, retired, created, last, count, error, clock, own, far,
                  unsent, sent, raced, gone, scanGone>>
  BY DEF Finish, ghost
<1>q. pass \in Passes /\ pass # Idle /\ pass.pc = "finish"
  BY PassFacts DEF Finish, Places, Inv, TypeOK

<1>k. /\ target \in Targets /\ target # None /\ Cleaning /\ target.dirs \subseteq Met
      /\ base' = [dirs |-> target.dirs, notes |-> target.notes] /\ base' \in Trees /\ target' = None
  <2>1. Cleaning BY <1>q, PassTypes DEF Cleaning, At, Inv, TypeOK, Ready
  <2>2. target \in Targets /\ target # None /\ target.dirs \subseteq Met
    BY <1>q, <2>1 DEF Inv, TypeOK, TypeSettings, TargetMet
  <2>3. base' = [dirs |-> target.dirs, notes |-> target.notes] /\ target' = None BY DEF Finish
  <2> QED BY <2>1, <2>2, <2>3 DEF Targets, Trees
<1>r. /\ full' \in BOOLEAN /\ pending' \in SUBSET Notes /\ made' \in Made
      /\ \/ pass' = Idle
         \/ /\ pass.stage = "resume" /\ pass' \in Passes /\ pass' # Idle /\ pass'.pc = "scan"
            /\ SamePlan(pass, pass') /\ SameRoots(pass, pass')
  <2>1. /\ full \in BOOLEAN /\ pending \in SUBSET Notes /\ made \in Made
        /\ pass.refull \in BOOLEAN /\ pass.touched \in SUBSET Notes
    BY <1>q, PassTypes DEF Inv, TypeOK, TypeSettings, TypeRest
  <2>2. CASE pass.stage = "resume"
    <3>1. pass' = [pass EXCEPT !.pc = "scan"] /\ UNCHANGED <<full, pending, made>>
      BY <2>2 DEF Finish, Go
    <3>2. pass' \in Passes BY <1>q, <3>1 DEF Passes, Places
    <3> QED BY <1>q, <2>1, <2>2, <3>1, <3>2, NotIdle DEF Passes, SamePlan, SameRoots
  <2>3. CASE pass.stage # "resume"
    <3>1. pass' = Idle BY <2>3 DEF Finish
    <3>2. full' = pass.refull \/ full' = full BY <2>3 DEF Finish
    <3>3. pending' \in SUBSET Notes BY <2>1, <2>3 DEF Finish
    <3>4. made' \in Made BY <2>1, <2>3 DEF Finish, Made
    <3> QED BY <2>1, <3>1, <3>2, <3>3, <3>4
  <2> QED BY <2>2, <2>3
<1>1. TypeDisk' BY <1>a DEF Inv, TypeOK, TypeDisk
<1>2. TypeTrees'
  BY <1>a, <1>k DEF Inv, TypeOK, TypeTrees
<1>3. TypeSettings'
  BY <1>a, <1>k, <1>r DEF Inv, TypeOK, TypeSettings
<1>4. TypeGhosts' BY <1>a DEF Inv, TypeOK, TypeGhosts
<1>5. TypePass'
  BY <1>r DEF TypePass
<1>6. TypeRest'
  BY <1>r DEF Inv, TypeOK, TypeRest, Finish
<1>7. SentOwn'
  BY <1>a, <1>k DEF Inv, SentOwn
<1>8. SentPlans'
  BY <1>a, <1>q, <1>r DEF Inv, SentPlans, At, SamePlan
<1>9. MovingKnown'
  BY <1>r DEF MovingKnown, At
<1>10. Nested'
  BY <1>r DEF Nested, At
<1>11. OwnTextStays' BY <1>a DEF Inv, TypeOK, OwnTextStays
<1>12. MarksPast'
  BY <1>a, <1>q, <1>r DEF Inv, MarksPast, SameRoots
<1>13. ChosenBefore'
  BY <1>r DEF ChosenBefore, At
<1>14. Ready'
  BY <1>q, <1>k, <1>r DEF Inv, Ready, At, SamePlan
<1>15. BaseMet'
  BY <1>a, <1>k DEF BaseMet, Met
<1>16. ScanMet'
  BY <1>r DEF ScanMet, At
<1>17. TargetMet'
  BY <1>r DEF TargetMet, At, Cleaning
<1> QED
  BY <1>1, <1>2, <1>3, <1>4, <1>5, <1>6, <1>7, <1>8, <1>9, <1>10, <1>11, <1>12, <1>13, <1>14,
     <1>15, <1>16, <1>17
     DEF Inv, TypeOK

-----------------------------------------------------------------------------

(* It holds at first ...                                                    *)
LEMMA InitInv == ASSUME Init PROVE Inv
<1> USE DEF Init
<1>1. pass = Idle BY DEF Idle
<1>2. /\ dirs = Folders /\ file = [x \in Files |-> IF x.kind = "note" THEN "base" ELSE None]
      /\ head = [dirs |-> Folders, notes |-> [x \in Notes |-> "base"]] /\ base = head
  OBVIOUS
<1>3. TypeDisk /\ TypeTrees BY <1>2 DEF TypeDisk, TypeTrees, Trees, Contents
<1>4. TypeSettings BY DEF TypeSettings
<1>5. TypeGhosts /\ TypePass BY <1>1 DEF TypeGhosts, TypePass
<1>6. TypeRest BY BoundsAssumption DEF TypeRest, Made
<1>7. SentOwn /\ SentPlans BY <1>1, <1>2 DEF SentOwn, SentPlans, Owns, At
<1>8. MovingKnown /\ Nested /\ OwnTextStays /\ ChosenBefore /\ Ready
  BY <1>1 DEF MovingKnown, Nested, OwnTextStays, ChosenBefore, Ready, At
<1>9. MarksPast BY <1>1 DEF MarksPast
<1>10. BaseMet /\ ScanMet /\ TargetMet
  BY DEF BaseMet, ScanMet, TargetMet, Met, Cleaning, At
<1> QED BY <1>3, <1>4, <1>5, <1>6, <1>7, <1>8, <1>9, <1>10 DEF Inv, TypeOK

(* ... and when nothing moves, ...                                          *)
LEMMA Stutter == ASSUME Inv, UNCHANGED vars PROVE Inv'
<1> USE DEF vars, settings, tree, ghost
<1>1. TypeOK'
  BY DEF Inv, TypeOK, TypeDisk, TypeTrees, TypeSettings, TypeGhosts, TypePass, TypeRest
<1>2. SentOwn' /\ SentPlans' BY DEF Inv, SentOwn, SentPlans, At
<1>3. MovingKnown' /\ Nested' /\ OwnTextStays' /\ MarksPast'
  BY DEF Inv, MovingKnown, Nested, OwnTextStays, MarksPast, At, Top
<1>4. ChosenBefore' /\ Ready' BY DEF Inv, ChosenBefore, Ready, At, MayGo, Newest, Times
<1>5. BaseMet' /\ ScanMet' /\ TargetMet'
  BY DEF Inv, BaseMet, ScanMet, TargetMet, Met, Covered, Cleaning, At
<1> QED BY <1>1, <1>2, <1>3, <1>4, <1>5 DEF Inv

(* ... and every step keeps it.                                             *)
LEMMA NextInv == ASSUME Inv, [Next]_vars PROVE Inv'
<1>1. CASE OwnerActs
  BY <1>1, MakeFolderStep, RemoveFolderStep, WriteNoteStep, DeleteNoteStep, LeaveFileStep
     DEF OwnerActs
<1>2. CASE Elsewhere \/ Stop \/ Audit BY <1>2, ElsewhereStep, StopStep, AuditStep
<1>3. CASE Prune
  BY <1>3, DescendStep, CheckFileStep, RetireFileStep, ListAgainStep, RemoveEmptyStep DEF Prune
<1>4. CASE Begin \/ StartRetired \/ PruneShell \/ EndRetired
  BY <1>4, BeginStep, StartRetiredStep, PruneShellStep, EndRetiredStep
<1>5. CASE MakeMissing \/ ChooseRoots \/ PruneExtra \/ EndTopology
  BY <1>5, MakeMissingStep, ChooseRootsStep, PruneExtraStep, EndTopologyStep
<1>6. CASE ReadHead \/ Scan \/ Plan \/ Commit \/ Stage \/ Apply \/ Finish
  BY <1>6, ReadHeadStep, ScanStep, PlanStep, CommitStep, StageStep, ApplyStep, FinishStep
<1>7. CASE UNCHANGED vars BY <1>7, Stutter
<1> QED BY <1>1, <1>2, <1>3, <1>4, <1>5, <1>6, <1>7 DEF Next, Run

(* The invariant holds, whatever the folders, the files, the owner and the  *)
(* other devices do.                                                        *)
THEOREM Invariance == Spec => []Inv
BY InitInv, NextInv, PTL DEF Spec

(* Every variable keeps its type.                                           *)
THEOREM TypeCorrect == Spec => []TypeOK
<1>1. Inv => TypeOK BY DEF Inv
<1> QED BY <1>1, Invariance, PTL

(* What the owner wrote and the server has never accepted is where it was   *)
(* written, or in the trash when it was written while its file was being    *)
(* retired.                                                                 *)
THEOREM TextStays == Spec => []OwnTextStays
<1>1. Inv => OwnTextStays BY DEF Inv
<1> QED BY <1>1, Invariance, PTL

(* What a run publishes as removed was on this disk and went before the run *)
(* looked at it.                                                            *)
LEMMA RemovalStep ==
  ASSUME Inv, Commit PROVE head.dirs \ head'.dirs \subseteq scanGone
<1>1. pass \in Passes /\ pass # Idle /\ pass.pc = "commit"
  BY PassFacts DEF Commit, Places, Inv, TypeOK
<1>2. pass.remote.dirs \ pass.plan.dirs \subseteq scanGone BY <1>1 DEF Inv, ScanMet, At
<1>3. head' = head \/ (head = pass.remote /\ head' = pass.plan) BY DEF Commit
<1> QED BY <1>2, <1>3

(* What the clean-up removes was chosen when nobody was seen to want it.    *)
LEMMA RemoveEmptyMay ==
  ASSUME Inv, Prune, NEW f \in dirs \ dirs' PROVE MayGo(f)
<1>1. pass.pc = "walk" BY DEF Prune
<1>2. RemoveEmpty
  <2>1. Descend => dirs' = dirs BY DEF Descend
  <2>2. CheckFile => dirs' = dirs BY DEF CheckFile
  <2>3. RetireFile => dirs' = dirs BY DEF RetireFile
  <2>4. ListAgain => dirs' = dirs BY DEF ListAgain
  <2> QED BY <2>1, <2>2, <2>3, <2>4 DEF Prune
<1>3. f = Top.dir BY <1>2 DEF RemoveEmpty
<1>4. /\ pass # Idle /\ Len(pass.stack) \in 1 .. Len(pass.stack)
             /\ f = pass.stack[Len(pass.stack)].dir
      /\ f \in Folders
  BY <1>1, <1>3, WalkFacts DEF Frames
<1>5. Within(f, pass.stack[Len(pass.stack)].dir) BY <1>4 DEF Within
<1> QED BY <1>1, <1>4, <1>5 DEF Inv, ChosenBefore, At

(* No folder goes that somebody wants: neither from the server, nor from    *)
(* this disk.                                                               *)
THEOREM WantedStay == Spec => WantedFoldersStay
<1>1. Inv /\ [Next]_vars => [Commit => head.dirs \ head'.dirs \subseteq scanGone]_vars
  BY RemovalStep
<1>2. Inv /\ [Next]_vars =>
        [Prune => \A f \in dirs \ dirs' :
             \/ created[f] = 0 \/ created[f] > pass.chosen
             \/ pass.loop = "shells" /\ created[f] <= Newest]_vars
  BY RemoveEmptyMay DEF MayGo
<1>3. Spec => FolderRemovalIsWanted BY <1>1, Invariance, PTL DEF Spec, FolderRemovalIsWanted
<1>4. Spec => NewFolderStays BY <1>2, Invariance, PTL DEF Spec, NewFolderStays
<1> QED BY <1>3, <1>4 DEF WantedFoldersStay
=============================================================================
