---------------------------- MODULE MoveAlignment ----------------------------
(***************************************************************************)
(* Before files are compared path by path, what a side moved is brought to *)
(* one path in the baseline and on both sides: canonicalizeMoves of        *)
(* plugin/src/engine.ts. Listings are those of MoveDetection; "was" is the *)
(* path an entry had when the comparison began.                            *)
(***************************************************************************)
EXTENDS MoveDetection

EntryAt(listing, path) == {e \in listing : e.path = path}
Holds(listing, path)   == EntryAt(listing, path) # {}
TheEntry(S)            == CHOOSE e \in S : TRUE

\* A path after the renames the owner was seen to make, oldest first.
Followed(path, renames) ==
    FoldLeft(LAMBDA p, r : IF IsPrefix(r.from, p) THEN r.to \o SubSeq(p, Len(r.from) + 1, Len(p)) ELSE p,
             path, renames)

\* The baseline entries a seen rename accounts for: nothing is left at the old
\* place, the new one is new.
Renamed(base, local, renames) ==
    {e \in base : LET to == Followed(e.path, renames)
                  IN  to # e.path /\ Holds(local, to) /\ ~Holds(local, e.path) /\ ~Holds(base, to)}

\* A renamed file keeps its identity whatever was written to it meanwhile.
KeepIdentity(base, local, renames) ==
    {LET from == {e \in Renamed(base, local, renames) : e.id # None /\ Followed(e.path, renames) = l.path}
     IN  IF from = {} THEN l ELSE [l EXCEPT !.id = TheEntry(from).id] : l \in local}

Moves(pairs)    == {<<m[1].path, m[2].path>> : m \in pairs}
To(moves, path) == {m[2] : m \in {x \in moves : x[1] = path}}

LocalMoves(base, local, renames) ==
    LET seen == {<<e.path, Followed(e.path, renames)>> : e \in Renamed(base, local, renames)}
    IN  seen \cup {m \in Moves(IdentityMoves(base, local)) : To(seen, m[1]) = {}}

\* PreferredSide of a file both sides moved: the later change, and of two at
\* the same instant the local one only if the editor was seen to make it.
Later(times) == times.local > times.remote \/ (times.local = times.remote /\ times.observed)

\* Mutant: what the local side has at the place a remote move chose is not looked at.
DestinationsUnchecked(s, source, times) ==
    LET l == To(s.localMoves, source)
        r == To(s.remoteMoves, source)
    IN  {p \in IF l = {} THEN r ELSE IF r = {} \/ Later(times) THEN l ELSE r :
            p \notin s.claimed /\ ~Holds(s.base, p)}

\* Where a file goes: to the place the one side gave it, or of two the later.
\* None while something else is there on a side that did not move it there.
Destinations(s, source, times) ==
    LET l == To(s.localMoves, source)
        r == To(s.remoteMoves, source)
        taken == \/ r = {} /\ \E p \in l : Holds(s.remote, p)
                 \/ l = {} /\ \E p \in r : Holds(s.local, p)
                 \/ l # {} /\ r # {} /\ l # r
                       /\ (\E p \in l : Holds(s.remote, p) \/ \E q \in r : Holds(s.local, q))
    IN  {p \in IF l = {} THEN r ELSE IF r = {} \/ Later(times) THEN l ELSE r :
            ~taken /\ p \notin s.claimed /\ ~Holds(s.base, p)}

\* A listing with S put at the destination and nothing left at the old places.
Put(listing, old, S, to) ==
    {e \in listing : e.path \notin old \cup (IF S = {} THEN {} ELSE to)}
        \cup {[e EXCEPT !.path = TheEntry(to)] : e \in S}

Inheriting(e, b) == [e EXCEPT !.id = IF @ = None THEN b.id ELSE @]

\* A file neither side moved has no destination.
AlignOne(s, source, times) ==
    LET l      == To(s.localMoves, source)
        r      == To(s.remoteMoves, source)
        mine   == UNION {EntryAt(s.local, p) : p \in IF l = {} THEN {source} ELSE l}
        theirs == UNION {EntryAt(s.remote, p) : p \in IF r = {} THEN {source} ELSE r}
        b      == TheEntry(EntryAt(s.base, source))
        to     == Destinations(s, source, times)
    IN  IF ~Holds(s.base, source) \/ mine \cup theirs = {} \/ to = {} THEN s
        ELSE [s EXCEPT !.claimed = @ \cup to,
                       !.base   = Put(@, {source}, {b}, to),
                       !.local  = Put(@, {source} \cup l, {Inheriting(e, b) : e \in mine}, to),
                       !.remote = Put(@, {source} \cup r, theirs, to)]

AlignStart(base, local, remote, renames) ==
    [base |-> base, local |-> KeepIdentity(base, local, renames), remote |-> remote, claimed |-> {},
     localMoves |-> LocalMoves(base, local, renames), remoteMoves |-> Moves(IdentityMoves(base, remote))]

\* The listings after each file; order: the paths of the baseline as they are sorted.
Alignments(base, local, remote, renames, times, order) ==
    LET align[i \in 0 .. Len(order)] ==
            IF i = 0 THEN AlignStart(base, local, remote, renames)
            ELSE AlignOne(align[i - 1], order[i], times)
    IN  align

CanonicalizeMoves(base, local, remote, renames, times, order) ==
    Alignments(base, local, remote, renames, times, order)[Len(order)]
=============================================================================
