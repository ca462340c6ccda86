--------------------------- MODULE ReconcilePolicy ---------------------------
(***************************************************************************)
(* The decision policy both sides share (protocol/src/operations.ts):      *)
(* which side of a file, a folder or a plugin package wins.                *)
(* An entry of a manifest is [hash, id]; id is None in old baselines.      *)
(***************************************************************************)
EXTENDS Absence, Integers, Sequences, SequencesExt, FiniteSetsExt

CONSTANTS Key(_),      \* a path in the form its namespace compares (NFC, lower case)
          Less(_, _)   \* the order of folder paths

-----------------------------------------------------------------------------
(* Files                                                                    *)

SameEntry(a, b) ==
    IF a = None \/ b = None THEN a = b
    ELSE a.hash = b.hash /\ (a.id = None \/ b.id = None \/ a.id = b.id)

Recreated(base, side) ==
    /\ base # None /\ side # None
    /\ base.id # None /\ side.id # None /\ side.id # base.id

\* decideReconciliation
Decide(base, local, remote) ==
    LET L == Recreated(base, local)
        R == Recreated(base, remote)
    IN  IF L \/ R
        THEN IF SameEntry(local, remote) THEN "equal"
             ELSE IF L /\ ~R /\ (remote = None \/ SameEntry(base, remote)) THEN "local-only"
             ELSE IF R /\ ~L /\ (local = None \/ SameEntry(base, local)) THEN "remote-only"
             ELSE "independent-create"
        ELSE IF SameEntry(local, remote)
        THEN IF SameEntry(base, local) THEN "unchanged" ELSE "equal"
        ELSE IF SameEntry(base, local) THEN "remote-only"
        ELSE IF SameEntry(base, remote) THEN "local-only"
        ELSE IF base = None
        THEN IF local # None /\ remote # None THEN "independent-create"
             ELSE IF local # None THEN "local-only" ELSE "remote-only"
        ELSE IF local = None \/ remote = None THEN "edit-delete"
        ELSE "concurrent-edit"

-----------------------------------------------------------------------------
(* Plugin packages: [files (name -> hash), version, complete, at].          *)

SamePackage(a, b) == a.files = b.files

\* One component of a pre-release against another: a missing one is older, a
\* number is older than a word.
PartOrder(x, y) ==
    IF x.word # y.word THEN (IF x.word THEN 1 ELSE -1)
    ELSE IF x.at > y.at THEN 1 ELSE -1

PreOrder(x, y) ==
    LET differ == {i \in 1 .. Max({Len(x), Len(y)}) :
                     i > Len(x) \/ i > Len(y) \/ x[i] # y[i]}
        i      == Min(differ)
    IN  IF differ = {} THEN 0
        ELSE IF i > Len(x) THEN -1
        ELSE IF i > Len(y) THEN 1
        ELSE PartOrder(x[i], y[i])

\* A version is None when it does not parse, else [core, pre]; a release (no
\* pre part) is newer than its pre-releases.
VersionOrder(a, b) ==
    IF a = b THEN 0
    ELSE IF a = None THEN -1
    ELSE IF b = None THEN 1
    ELSE IF a.core # b.core THEN (IF a.core > b.core THEN 1 ELSE -1)
    ELSE IF a.pre = <<>> THEN 1
    ELSE IF b.pre = <<>> THEN -1
    ELSE PreOrder(a.pre, b.pre)

Choice(side, package) == [side |-> side, files |-> package.files]

\* Assets of one version that name different files are put together.
Disjoint(a, b) == \A f \in DOMAIN a.files \cap DOMAIN b.files : a.files[f] = b.files[f]
Union(a, b)    == [f \in DOMAIN a.files \cup DOMAIN b.files |->
                      IF f \in DOMAIN a.files THEN a.files[f] ELSE b.files[f]]

\* Mutant: the completeness of the copies is looked at last.
SelectPluginPackageLate(base, local, remote) ==
    LET order == VersionOrder(local.version, remote.version)
    IN  IF SamePackage(local, remote) THEN Choice("equal", remote)
        ELSE IF order # 0 THEN (IF order > 0 THEN Choice("local", local) ELSE Choice("remote", remote))
        ELSE IF SamePackage(local, base) THEN Choice("remote", remote)
        ELSE Choice("local", local)

SelectPluginPackage(base, local, remote) ==
    LET localChanged  == ~SamePackage(local, base)
        remoteChanged == ~SamePackage(remote, base)
        none(p)       == DOMAIN p.files = {}
        L             == Choice("local", local)
        R             == Choice("remote", remote)
        whole         == IF local.complete THEN L ELSE R
        order         == VersionOrder(local.version, remote.version)
        newer         == IF order > 0 THEN L ELSE R
        both          == local.complete /\ remote.complete
    IN  CASE ~local.complete /\ ~remote.complete /\ ~(none(local) /\ none(remote)) ->
               Choice(IF base.complete THEN "base" ELSE "held", base)
          [] OTHER ->
             IF SamePackage(local, remote) THEN Choice("equal", remote)
             ELSE IF localChanged /\ ~remoteChanged /\ none(local) THEN L
             ELSE IF ~localChanged /\ remoteChanged /\ none(remote) THEN R
             ELSE IF ~none(local) /\ ~none(remote) /\ local.complete # remote.complete THEN whole
             ELSE IF both /\ order # 0 THEN newer
             ELSE IF both /\ Disjoint(local, remote)
             THEN [side |-> "equal", files |-> Union(local, remote)]
             ELSE IF localChanged /\ ~remoteChanged THEN L
             ELSE IF ~localChanged /\ remoteChanged THEN R
             ELSE IF local.complete # remote.complete THEN whole
             ELSE IF order # 0 THEN newer
             ELSE IF local.at > remote.at THEN L ELSE R

-----------------------------------------------------------------------------
(* Folders: functions from identity to [path, at] or None.                  *)

PathOf(f) == IF f = None THEN None ELSE f.path

\* Mutant: of two moves of one moment the local one counts.
LaterMoveLocal(l, r) == IF r.at > l.at THEN r ELSE l

\* The path a folder gets when both sides moved it: the later move's, and of
\* two moves of one moment the smaller path's.
LaterMove(l, r) ==
    IF l.at > r.at THEN l ELSE IF r.at > l.at THEN r ELSE IF Less(l.path, r.path) THEN l ELSE r

ChooseFolder(b, l, r) ==
    IF PathOf(l) = PathOf(r) THEN r
    ELSE IF b = None THEN (IF r = None THEN l ELSE r)
    ELSE IF PathOf(l) = b.path THEN r
    ELSE IF PathOf(r) = b.path THEN l
    ELSE IF l # None /\ r # None THEN LaterMove(l, r)
    ELSE IF l = None THEN r ELSE l

\* Of the folders that chose one path the one the accepted side has there
\* keeps it, else the smallest identity.
HoldsPath(id, rivals, accepted, key) ==
    LET here(i) == accepted[i] # None /\ Key(accepted[i].path) = key
    IN  \A o \in rivals : \/ here(id) /\ ~here(o)
                          \/ here(id) = here(o) /\ id <= o

ReconcileFolders(base, local, remote, acceptedSide) ==
    LET chosen   == [id \in DOMAIN base |-> ChooseFolder(base[id], local[id], remote[id])]
        accepted == IF acceptedSide = "local" THEN local ELSE remote
        rivals(id) == {o \in DOMAIN base : /\ chosen[o] # None
                                           /\ Key(chosen[o].path) = Key(chosen[id].path)}
    IN  [id \in DOMAIN base |->
           IF chosen[id] # None /\ HoldsPath(id, rivals(id), accepted, Key(chosen[id].path))
           THEN chosen[id] ELSE None]
=============================================================================
