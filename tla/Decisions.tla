----------------------------- MODULE Decisions -----------------------------
(***************************************************************************)
(* The decisions a synchronization is made of, without merging anything:   *)
(* whose version of a file stays and what is kept beside it, which copy of *)
(* a plugin package is used, where folders are, which paths are moves, and *)
(* where a moved file meets its other versions. One job at a time and its  *)
(* outcome. The policy is in ReconcilePolicy, MoveDetection and            *)
(* MoveAlignment; how a file's decision is carried out                     *)
(* (plugin/src/engine.ts run) is here.                                     *)
(***************************************************************************)
EXTENDS ReconcilePolicy, MoveAlignment

CONSTANTS FileJobs,      \* [base, local, remote, preferred, strategy, large, verdict]
          PackageJobs,   \* [base, local, remote]
          FolderJobs,    \* [base, local, remote, accepted]
          MoveJobs,      \* [prev, next, mode, order]
          AlignJobs      \* [base, local, remote, renames, times, order]

VARIABLES job, outcome

Sides    == {"local", "remote"}
Other(s) == IF s = "local" THEN "remote" ELSE "local"

\* A version as far as versionOrder parses it.
Parts    == [word : BOOLEAN, at : Int]
Releases == [core : Int, pre : Seq(Parts)] \cup {None}

\* A copy of a package is a list of files with their hashes; one that counts as
\* complete has a manifest and a program.
Program   == {"manifest", "main"}
IsCopy(p) == /\ p.files = [f \in DOMAIN p.files |-> p.files[f]]
             /\ p.version \in Releases
             /\ p.complete \in BOOLEAN
             /\ p.complete => Program \subseteq DOMAIN p.files

\* Folders by their identity; the accepted side has one at a place, and two
\* paths are in one order (Less).
AcceptedSide(j) == IF j.accepted = "local" THEN j.local ELSE j.remote
IsTopology(side, ids) ==
    \A f \in ids : side[f] # None => side[f].path # None /\ side[f].at \in Int
OneToAPlace(side, ids) ==
    \A f, o \in ids : side[f] # None /\ side[o] # None /\ Key(side[f].path) = Key(side[o].path) => f = o
IsFolderJob(j) ==
    /\ j = [base |-> j.base, local |-> j.local, remote |-> j.remote, accepted |-> j.accepted]
    /\ DOMAIN j.base \subseteq Int
    /\ \A side \in {j.base, j.local, j.remote} : IsTopology(side, DOMAIN j.base)
    /\ j.accepted \in Sides
    /\ OneToAPlace(AcceptedSide(j), DOMAIN j.base)
    /\ \A f \in DOMAIN j.base :
          j.local[f] # None /\ j.remote[f] # None /\ j.local[f].path # j.remote[f].path =>
              (Less(j.local[f].path, j.remote[f].path) <=> ~Less(j.remote[f].path, j.local[f].path))

\* A listing has one entry to a path; the removed ones are looked at in order.
IsListing(entries) == IsFiniteSet(entries) /\ \A e, f \in entries : e.path = f.path => e = f
IsMoveJob(j) ==
    IsListing(j.prev) /\ IsListing(j.next) /\ j.order \in Seq(Removed(j.prev, j.next))

\* The paths of the baseline are gone through once.
IsEntry(e) == e = [path |-> e.path, hash |-> e.hash, id |-> e.id, size |-> e.size, was |-> e.was]
IsAlignJob(j) ==
    /\ \A listing \in {j.base, j.local, j.remote} : IsListing(listing) /\ \A e \in listing : IsEntry(e)
    /\ j.order \in Seq(PathsOf(j.base))
    /\ \A path \in PathsOf(j.base) : \E k \in DOMAIN j.order : j.order[k] = path
    /\ \A k, n \in DOMAIN j.order : j.order[k] = j.order[n] => k = n

ASSUME AbsenceAssumption == None \notin [core : Int, pre : Seq(Parts)]
ASSUME PackagesAssumption == \A j \in PackageJobs : IsCopy(j.base) /\ IsCopy(j.local) /\ IsCopy(j.remote)
ASSUME FoldersAssumption == \A j \in FolderJobs : IsFolderJob(j)
ASSUME ListingsAssumption == (\A j \in MoveJobs : IsMoveJob(j)) /\ (\A j \in AlignJobs : IsAlignJob(j))

Tagged(kind, jobs) == {[kind |-> kind, of |-> j] : j \in jobs}

DecisionInit ==
    /\ \/ job \in Tagged("file", FileJobs)
       \/ job \in Tagged("package", PackageJobs)
       \/ job \in Tagged("folders", FolderJobs)
       \/ job \in Tagged("moves", MoveJobs)
       \/ job \in Tagged("align", AlignJobs)
    /\ outcome = None

-----------------------------------------------------------------------------
(* Carrying out a file's decision: which version is at the path afterwards  *)
(* and which sides are kept beside it as a copy or in the recovery store.   *)

Kept(at, beside) == [at |-> at, beside |-> beside]
Pair(j)          == Kept(j.preferred, {Other(j.preferred)})
Survivor(j)      == IF j.local # None THEN "local" ELSE "remote"

\* Mutant: an overlap in a whole settings file keeps no copy of the other side.
ResolveSystemBare(j) ==
    IF j.base # None /\ (j.local = None \/ j.remote = None) THEN Kept(Survivor(j), {})
    ELSE IF j.strategy = "json" /\ ~j.large THEN Kept("merged", {})
    ELSE Kept(j.preferred, {})

\* A settings file: a modified version outlives a deletion; an overlap is
\* merged or one whole version is used, and both originals are recorded.
ResolveSystem(j) ==
    IF j.base # None /\ (j.local = None \/ j.remote = None) THEN Kept(Survivor(j), {})
    ELSE IF j.strategy = "json" /\ ~j.large THEN Kept("merged", {})
    ELSE Kept(j.preferred, {"local", "remote"})

ResolveNote(j, kind) ==
    IF j.base # None /\ (j.local = None \/ j.remote = None) THEN Kept(Survivor(j), {})
    ELSE IF \/ j.strategy = "text" /\ j.base # None /\ j.remote.id # None
               /\ (j.base.id = None \/ j.local.id = None)
            \/ j.large
            \/ j.strategy = "binary"
            \/ j.base = None \/ kind = "independent-create"
            \/ j.verdict \in {"large-conflict", "merge-fallback"}
    THEN Pair(j)
    ELSE Kept("merged", {})

ResolveFile(j) ==
    LET kind == Decide(j.base, j.local, j.remote)
    IN  CASE kind \in {"equal", "unchanged", "remote-only"} -> Kept("remote", {})
          [] kind = "local-only" -> Kept("local", {})
          [] OTHER -> IF j.strategy \in {"json", "whole"} THEN ResolveSystem(j) ELSE ResolveNote(j, kind)

-----------------------------------------------------------------------------

DecideFile ==
    /\ job.kind = "file"
    /\ outcome' = ResolveFile(job.of)

ChoosePackage ==
    /\ job.kind = "package"
    /\ outcome' = SelectPluginPackage(job.of.base, job.of.local, job.of.remote)

PlaceFolders ==
    /\ job.kind = "folders"
    /\ outcome' = ReconcileFolders(job.of.base, job.of.local, job.of.remote, job.of.accepted)

FindMoves ==
    /\ job.kind = "moves"
    /\ outcome' = DetectMoves(job.of.prev, job.of.next, job.of.mode, job.of.order)

AlignPaths ==
    /\ job.kind = "align"
    /\ outcome' = CanonicalizeMoves(job.of.base, job.of.local, job.of.remote, job.of.renames, job.of.times, job.of.order)

Decision ==
    /\ outcome = None
    /\ DecideFile \/ ChoosePackage \/ PlaceFolders \/ FindMoves \/ AlignPaths
    /\ UNCHANGED job

DecisionSpec == DecisionInit /\ [][Decision]_<<job, outcome>>

Done(kind) == job.kind = kind /\ outcome # None

-----------------------------------------------------------------------------
(* Properties                                                               *)

Swapped(j) == [j EXCEPT !.local = j.remote, !.remote = j.local]

\* Two devices that place the same folders, each with itself as the local side,
\* come to the same paths; an identity both have without a baseline follows the
\* server instead (reconcileFolders).
FoldersAgree ==
    (Done("folders") /\ \A f \in DOMAIN outcome : \/ job.of.base[f] # None
                                                \/ None \in {job.of.local[f], job.of.remote[f]}) =>
        LET m == [Swapped(job.of) EXCEPT !.accepted = Other(job.of.accepted)]
            other == ReconcileFolders(m.base, m.local, m.remote, m.accepted)
        IN  [f \in DOMAIN outcome |-> PathOf(outcome[f])] = [f \in DOMAIN other |-> PathOf(other[f])]

Content(e) == IF e = None THEN None ELSE e.hash

\* The side of a file that was changed is at the path, in a merge or beside it.
FilesKept ==
    Done("file") =>
        \A side \in Sides :
            LET j == job.of
                mine == IF side = "local" THEN j.local ELSE j.remote
                at   == IF outcome.at = "local" THEN j.local ELSE j.remote
            IN  \/ Content(mine) \in {None, Content(j.base)}
                \/ side \in outcome.beside
                \/ outcome.at = "merged"
                \/ Content(mine) = Content(at)

\* A folder of the accepted side that neither side moved keeps its place.
FoldersStay ==
    Done("folders") =>
        LET j        == job.of
            accepted == AcceptedSide(j)
            stays(f) == PathOf(j.local[f]) = PathOf(j.remote[f]) /\ accepted[f] # None
        IN  \A f, o \in DOMAIN outcome :
                (stays(f) /\ outcome[o] # None /\ Key(outcome[o].path) = Key(accepted[f].path)) =>
                    o = f

\* What one side changed since the baseline is at the path, in a merge or
\* beside it; a deletion or the baseline's own content may go
\* (decideReconciliation and the branches of SyncEngine.run). A folder of the
\* accepted history leaves its place to another one only when a side moved it
\* away (reconcileFolders).
NoEditDropped == FilesKept /\ FoldersStay

\* A plugin's program is never mixed from two versions or taken from an
\* incomplete copy while a complete one is at hand, a complete copy never gives
\* way to an older one, and a package disappears only where one side removed it
\* and the other left it alone (selectPluginPackage).
PackagesStayWhole ==
    Done("package") =>
        LET j        == job.of
            offered  == {p \in {j.local, j.remote} : p.complete}
            program(p) == [f \in Program \cap DOMAIN p.files |-> p.files[f]]
            removed  == \/ DOMAIN j.local.files = {} /\ SamePackage(j.remote, j.base)
                        \/ DOMAIN j.remote.files = {} /\ SamePackage(j.local, j.base)
        IN  IF DOMAIN outcome.files = {} THEN removed \/ offered = {}
            ELSE IF offered = {} THEN outcome.files = j.base.files
            ELSE \E p \in offered : /\ program(p) = program(outcome)
                                    /\ \A q \in offered : VersionOrder(p.version, q.version) >= 0

\* A move pairs a path that vanished with one that appeared, each at most once,
\* and in a merge never two files known to be different (detectMoves).
MovesArePairs ==
    Done("moves") =>
        /\ \A m \in outcome : m[1] \in Removed(job.of.prev, job.of.next) /\ m[2] \in Created(job.of.prev, job.of.next)
        /\ \A m, n \in outcome : m[1] = n[1] <=> m[2] = n[2]
        /\ job.of.mode = "identity" =>
             \A m \in outcome : IF m[1].id # None /\ m[2].id # None THEN m[1].id = m[2].id
                                ELSE m[1].hash = m[2].hash
\* One side moved a file it has under its old identity, the other has it where
\* it was, nothing stands at the new place and nothing else moves there.
MovedByOne(j, source, to, movers, others) ==
    LET was == EntryAt(j.base, source)
    IN  /\ \E m \in IdentityMoves(j.base, movers) : m[1].path = source /\ m[2].path = to
        /\ \A m \in IdentityMoves(j.base, others) : m[1].path # source /\ m[2].path # to
        /\ {e.id : e \in EntryAt(others, source)} = {e.id : e \in was}
        /\ ~Holds(others, to)

RenamesMeetEdits ==
    Done("align") =>
        LET j == job.of
            versions(listing) == {<<e.was, e.hash>> : e \in listing}
            moved(movers, others) ==
                {m \in PathsOf(j.base) \X PathsOf(movers) : MovedByOne(j, m[1], m[2], movers, others)}
            met(source, to) == \A listing \in {outcome.base, outcome.local, outcome.remote} :
                                  ~Holds(listing, source) /\ Holds(listing, to)
        IN  /\ versions(outcome.local) = versions(j.local)
            /\ versions(outcome.remote) = versions(j.remote)
            /\ \A listing \in {outcome.base, outcome.local, outcome.remote} :
                  \A e, f \in listing : e.path = f.path => e = f
            /\ Renamed(j.base, j.local, j.renames) = {} =>
                 \A m \in moved(j.local, j.remote) \cup moved(j.remote, j.local) : met(m[1], m[2])

\* Moves are found rightly and followed without loss. A move pairs a path that
\* vanished with one that appeared, each at most once, and in a merge never two
\* files known to be different or a content that vanished twice (detectMoves): a
\* wrong pair would merge one note into another's history. Bringing the moved
\* files to one path keeps every version of each side, one to a path, and a
\* file one side moved meets in all three listings what the other did to it at
\* the old path, so that a rename and a concurrent edit become one note
\* (canonicalizeMoves).
MovesAreSound == MovesArePairs /\ RenamesMeetEdits
=============================================================================
