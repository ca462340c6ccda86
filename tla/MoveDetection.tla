---------------------------- MODULE MoveDetection ----------------------------
(***************************************************************************)
(* Which created path continues which removed one: detectMoves of          *)
(* protocol/src/index.ts. An entry is [path, hash, id, size], a path the   *)
(* sequence of its segments. Merging asks for moves by identity; the risk  *)
(* assessment also follows folders by the shape of their paths.            *)
(***************************************************************************)
EXTENDS Absence, Naturals, Sequences, SequencesExt, FiniteSetsExt

CONSTANTS SizeSlack    \* sizes this close are alike whatever they are (64 KB)

PathsOf(entries) == {e.path : e \in entries}
Removed(prev, next) == {e \in prev : e.path \notin PathsOf(next)}
Created(prev, next) == {e \in next : e.path \notin PathsOf(prev)}

Only(S)  == Cardinality(S) = 1
With(S, id) == {e \in S : e.id = id}

\* A file whose identity is at exactly one place before and after.
ByIdentity(prev, next) ==
    {m \in Removed(prev, next) \X Created(prev, next) :
        /\ m[1].id # None /\ m[1].id = m[2].id
        /\ Only(With(prev, m[1].id)) /\ Only(With(next, m[1].id))}

\* A content that vanished at one place and appeared at one place.
ByContent(prev, next) ==
    LET removed == Removed(prev, next)
        created == Created(prev, next)
    IN  {m \in removed \X created :
            /\ m[1].hash = m[2].hash
            /\ Only({e \in removed : e.hash = m[1].hash})
            /\ Only({e \in created : e.hash = m[1].hash})
            /\ m[1].id = None \/ m[2].id = None \/ m[1].id = m[2].id
            /\ \A same \in ByIdentity(prev, next) : same[1] # m[1] /\ same[2] # m[2]}

IdentityMoves(prev, next) == ByIdentity(prev, next) \cup ByContent(prev, next)

-----------------------------------------------------------------------------
(* Folder moves recognised from several files that changed place together.  *)

\* What is left of two paths before the longest ending they share.
MovedPrefix(from, to) ==
    LET shared(n) == \A i \in 0 .. n - 1 : from[Len(from) - i] = to[Len(to) - i]
        n == Max({k \in 0 .. Min({Len(from), Len(to)}) : shared(k)})
    IN  IF n = 0 THEN {}
        ELSE {<<SubSeq(from, 1, Len(from) - n), SubSeq(to, 1, Len(to) - n)>>}

Name(e) == Last(e.path)

\* The one removed and the one created file of a name, if their sizes are alike.
SameName(prev, next) ==
    LET moved   == IdentityMoves(prev, next)
        removed == Removed(prev, next) \ {m[1] : m \in moved}
        created == Created(prev, next) \ {m[2] : m \in moved}
        big(s, d)  == Max({s.size, d.size})
        apart(s, d) == big(s, d) - Min({s.size, d.size})
    IN  {m \in removed \X created :
            /\ Name(m[1]) = Name(m[2])
            /\ Only({e \in removed : Name(e) = Name(m[1])})
            /\ Only({e \in created : Name(e) = Name(m[1])})
            /\ apart(m[1], m[2]) <= SizeSlack \/ 2 * apart(m[1], m[2]) <= big(m[1], m[2])}

Supporting(pairs, prefixes) == {m \in pairs : prefixes \in MovedPrefix(m[1].path, m[2].path)}

\* Two exact moves, or three of any kind, make a folder move.
FolderMoves(prev, next) ==
    LET exact == IdentityMoves(prev, next)
        all   == exact \cup SameName(prev, next)
        count(p) == Cardinality(Supporting(all, p))
        found == {p \in UNION {MovedPrefix(m[1].path, m[2].path) : m \in all} :
                    Cardinality(Supporting(exact, p)) >= 2 \/ count(p) >= 3}
    IN  SetToSortSeq(found, LAMBDA p, q : \/ Len(p[1]) > Len(q[1])
                                          \/ Len(p[1]) = Len(q[1]) /\ count(p) > count(q))

\* Where a folder move takes a file, when that place is new and not yet taken.
Candidates(s, p, prev, next, moves) ==
    LET to == p[2] \o SubSeq(s.path, Len(p[1]) + 1, Len(s.path))
    IN  IF ~IsPrefix(p[1], s.path) THEN {}
        ELSE {d \in Created(prev, next) : d.path = to /\ \A m \in moves : m[2] # d}

FollowFolder(s, folderMoves, prev, next, moves) ==
    LET fits == {i \in DOMAIN folderMoves : Candidates(s, folderMoves[i], prev, next, moves) # {}}
    IN  IF fits = {} \/ \E m \in moves : m[1] = s THEN moves
        ELSE moves \cup ({s} \X Candidates(s, folderMoves[Min(fits)], prev, next, moves))

\* The moves after each removed entry has been looked at; order: the removed
\* entries as the manifest lists them.
Followings(prev, next, order) ==
    LET folderMoves == FolderMoves(prev, next)
        follow[i \in 0 .. Len(order)] ==
            IF i = 0 THEN IdentityMoves(prev, next)
            ELSE FollowFolder(order[i], folderMoves, prev, next, follow[i - 1])
    IN  follow

DetectMoves(prev, next, mode, order) ==
    IF mode = "identity" THEN IdentityMoves(prev, next) ELSE Followings(prev, next, order)[Len(order)]
=============================================================================
