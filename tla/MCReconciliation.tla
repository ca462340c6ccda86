-------------------------- MODULE MCReconciliation --------------------------
(***************************************************************************)
(* Bounded inputs for Reconciliation: every pair of edits of one short     *)
(* text, every triple of small settings values, versions of a file, copies *)
(* of a package, placements of two folders, two listings to find moves in, *)
(* three to align, and trees with what a run wants of them.                *)
(***************************************************************************)
EXTENDS Reconciliation

CONSTANTS i1, i2,                                \* identities of files in a merge
          fa, fb, fc, fn, fm, x1, x2, x3, x4, d1, d2, d3   \* and of a tree

-----------------------------------------------------------------------------
(* Notes. A token sequence is a text's own only when no two words and no    *)
(* two white spaces touch; the inserted tokens do not occur in the base, so *)
(* that the comparison has one shortest answer.                             *)

MCBase    == <<"a", ".", "b", "\n", "c">>
MCWords   == {"a", "b", "c", "x"}
MCBreaks  == {"\n", "\n\n"}
MCInserts == {<<"x">>, <<",">>, <<"\n\n">>}

Spelled(t) == \A i \in 1 .. Len(t) - 1 : /\ ~(t[i] \in MCWords /\ t[i + 1] \in MCWords)
                                         /\ ~(t[i] \in MCBreaks /\ t[i + 1] \in MCBreaks)

MCEdits ==
    LET gaps == 0 .. Len(MCBase)
        news == {[k \in gaps |-> <<>>]}
                  \cup {[k \in gaps |-> IF k = g THEN t ELSE <<>>] : g \in gaps, t \in MCInserts}
    IN  {e \in [gone : SUBSET (1 .. Len(MCBase)), new : news] :
            /\ Spelled(Text(MCBase, e))
            /\ \A k \in gaps : e.new[k] # <<>> => k \notin e.gone}

MCNoteJobs ==
    [base : {MCBase}, local : MCEdits, remote : MCEdits, preferred : Sides, compared : {TRUE}]
      \cup [base : {MCBase}, local : {e \in MCEdits : e.gone = {1}}, remote : {e \in MCEdits : e.gone = {5}},
            preferred : {"local"}, compared : {FALSE}]

-----------------------------------------------------------------------------
(* Settings.                                                                *)

Rec(k, id, x) == Obj([f \in {k, "x"} |-> IF f = k THEN Atom(id) ELSE Atom(x)])
Items   == {Rec("id", "1", "p"), Rec("id", "1", "q"), Rec("id", "2", "p"), Rec("ctime", "1", "p")}
Arrays  == {Arr(<<>>)} \cup {Arr(<<a>>) : a \in Items}
             \cup {Arr(<<Rec("id", "1", "p"), b>>) : b \in Items} \cup {Arr(<<Rec("id", "2", "p"), Rec("id", "1", "q")>>)}
Objects == {Obj(f) : f \in UNION {[K -> {Atom("p"), Atom("q")}] : K \in SUBSET {"k", "x"}}}
Nested  == {Obj([k \in {"k"} |-> v]) : v \in {Obj([f \in {"x"} |-> Atom("p")]), Obj([f \in {"k"} |-> Atom("q")]), Arr(<<Rec("id", "1", "q")>>)}}
Deep    == {Obj([k \in {"k"} |-> Obj([f \in {"k"} |-> v])]) : v \in {Obj([f \in {"k"} |-> Atom(a)]) : a \in {"p", "q"}}}

Values  == {Atom("p"), Missing} \cup Arrays \cup Objects \cup Nested

MCSettingsJobs ==
    [base : Values, local : Values \ {Missing}, remote : Values \ {Missing}, preferred : {"local"}, bookmarks : BOOLEAN]
      \cup [base : {Missing, Obj([k \in {"k"} |-> Atom("p")])}, local : Deep \cup {Garbled}, remote : Deep \cup Objects,
            preferred : Sides, bookmarks : {FALSE}]

Lists == {Arr(<<>>), Arr(<<Atom("m")>>), Arr(<<Atom("d")>>), Arr(<<Atom("m"), Atom("d")>>),
          Arr(<<Atom("d"), Atom("m")>>), Arr(<<Atom("m"), Atom("n")>>), Obj([k \in {"k"} |-> Atom("p")])}

MCEnabledJobs ==
    [base : Lists, local : Lists, remote : Lists, preferred : {"local"}, pinned : {{}, {Atom("d")}}]

-----------------------------------------------------------------------------
(* Files, packages, folders, listings.                                      *)

Entries == {None} \cup [hash : {"h1", "h2", "h3"}, id : {None, i1, i2}]

MCFileJobs ==
    {j \in [base : Entries, local : Entries, remote : Entries, preferred : {"local"},
            strategy : {"text", "json", "whole", "binary"}, large : BOOLEAN, verdict : {"merged", "large-conflict"}] :
        j.base # None \/ j.local # None \/ j.remote # None}

FilesOf(v, extra) == [f \in Program \cup extra |-> v]
V(core, pre) == [core |-> core, pre |-> pre]
Beta(n) == <<[word |-> TRUE, at |-> 1], [word |-> FALSE, at |-> n]>>

Whole == {[files |-> FilesOf(h, e), version |-> v, complete |-> TRUE, at |-> t] :
            h \in {"h1", "h2"}, e \in {{}, {"styles"}}, v \in {V(1, <<>>), V(1, Beta(1)), V(1, Beta(2)), V(2, <<>>)}, t \in {1, 2}}
Partial == {[files |-> [f \in {"main"} |-> "h3"], version |-> None, complete |-> FALSE, at |-> 1],
            [files |-> [f \in {"manifest"} |-> "h3"], version |-> V(3, <<>>), complete |-> FALSE, at |-> 1],
            [files |-> [f \in {} |-> "h3"], version |-> None, complete |-> FALSE, at |-> 0]}
Copies == Whole \cup Partial

MCPackageJobs == [base : {p \in Copies : p.at < 2}, local : Copies, remote : Copies]

\* Folder paths are numbers here; 2 and 3 differ in case only.
MCKey(p)  == IF p = 3 THEN 2 ELSE p
MCLess(p, q) == p < q

FolderVersions == {None} \cup [path : {1, 2, 3}, at : {1, 2}]
MCFolderJobs ==
    {j \in [base : [{1, 2} -> {f \in FolderVersions : f = None \/ f.at = 1}],
            local : [{1, 2} -> FolderVersions], remote : [{1, 2} -> FolderVersions], accepted : {"local", "remote"}] :
        \A side \in {j.base, j.local, j.remote} : side[1] # None /\ side[2] # None => MCKey(side[1].path) # MCKey(side[2].path)}

E(path, hash, id) == [path |-> path, hash |-> hash, id |-> id, size |-> 1]
Places == {<<"a", "x">>, <<"a", "y">>, <<"b", "x">>, <<"b", "y">>}
Listings(contents, ids) ==
    {{E(p, c[p][1], c[p][2]) : p \in S} : S \in (SUBSET Places) \ {{}}, c \in [Places -> contents \X ids]}

Trio(folder, hx, hy, hz) == {E(<<folder, "x">>, hx, None), E(<<folder, "y">>, hy, None), E(<<folder, "z">>, hz, None)}

MCMoveJobs ==
    {[prev |-> p, next |-> n, mode |-> "identity", order |-> <<>>] :
        p \in {s \in Listings({"h1", "h2"}, {None, i1}) : Cardinality(s) <= 2},
        n \in {s \in Listings({"h1", "h2"}, {None, i1, i2}) : Cardinality(s) <= 2}}
      \cup
    {LET prev == Trio("a", "h1", "h2", h)
         next == Trio("b", hx, hy, hz) \ E2
     IN  [prev |-> prev, next |-> next, mode |-> "assessment",
          order |-> SetToSortSeq(Removed(prev, next), LAMBDA e, f : e.path[2] = "x" \/ (e.path[2] = "y" /\ f.path[2] = "z"))]
        : h \in {"h2", "h3"}, hx \in {"h1", "h4"}, hy \in {"h2", "h5"}, hz \in {"h3", "h6"},
          E2 \in {{}, Trio("b", "h1", "h2", "h6"), Trio("b", "h4", "h5", "h3")}}

-----------------------------------------------------------------------------
(* Operations. Two trees of two managed folders; every plan of up to three  *)
(* folders and of up to three files for them, as the engine makes it: each  *)
(* folder of the result has its place. One folder may be unmanaged.         *)

A  == <<"A">>
B  == <<"B">>
AC == <<"A", "C">>
BC == <<"B", "C">>
InX(folder) == Append(folder, "x")
InY(folder) == Append(folder, "y")
File(id, path, hash) == [id |-> id, path |-> path, hash |-> hash]
Folder(id, path)     == [id |-> id, path |-> path]
Grave(id, path, rank) == [id |-> id, path |-> path, rank |-> rank]

SideBySide == [files |-> {File(x1, InX(A), "h1"), File(x2, InY(B), "h1")},
               dirs |-> {Folder(fa, A), Folder(fb, B)}, dead |-> {}]
OneInAnother == [files |-> {File(x1, InX(AC), "h1"), File(x2, InX(A), "h1")},
           dirs |-> {Folder(fa, A), Folder(fc, AC)},
           dead |-> {Grave(d1, B, 1), Grave(d2, InY(B), 2), Grave(d3, InY(B), 3)}]
Unmanaged == [SideBySide EXCEPT !.dirs = @ \cup {Folder(fc, <<"C">>)}]

Placed(ids, places, hashes, size) ==
    {S \in SUBSET {File(id, p, h) : id \in ids, p \in places, h \in hashes} :
        /\ Cardinality(S) <= size
        /\ \A e, f \in S : e = f \/ (e.path # f.path /\ (e.id # f.id \/ e.id = None))}
Plans(ids, places) == {{Folder(e.id, e.path) : e \in S} : S \in Placed(ids, places, {"-"}, 3)}
Made == {{}, {[path |-> A, entity |-> "folder", id |-> fm]}, {[path |-> InX(A), entity |-> "file", id |-> x4]}}

WantOf(e, d, made, kept) ==
    [entries |-> e, folders |-> {g.path : g \in d} \cup (IF kept = {} THEN {} ELSE {<<"C">>}), dest |-> d, created |-> made, kept |-> kept]
Covered(j) ==
    LET at == {d.path : d \in j.want.dest} IN FoldersAsked(j) \subseteq at \cup {g.path : g \in j.tree.dirs}
                                               /\ UNION {Plan!Ancestors(e.path) : e \in j.want.entries} \subseteq at
                                               /\ UNION {Plan!Ancestors(p) : p \in at} \subseteq at

MCBatchJobs ==
    {j \in [tree : {SideBySide},
            want : {WantOf(e, d, m, {}) :
                      e \in Placed({x1, x2}, {InX(A), InX(B), InY(B)}, {"h1"}, 2)
                              \cup {{File(x1, InX(A), "h2"), File(None, InY(A), "h1")},
                                   {File(None, InX(A), "h2"), File(x2, InY(A), "h1")}, {File(x4, InX(A), "h2")}},
                      d \in Plans({fa, fb, fn}, {A, B, AC}), m \in Made}]
        \cup [tree : {OneInAnother},
              want : {WantOf(e, d, {}, {}) : e \in Placed({x1, x2, x3}, {InX(AC), InX(A), InY(B)}, {"h1"}, 3),
                                            d \in Plans({fa, fc, fn}, {A, AC, B, BC})}]
        \cup [tree : {Unmanaged},
              want : {WantOf(e, d, {}, {fc}) : e \in Placed({x1, x2}, {InX(A), InY(B)}, {"h1", "h2"}, 2),
                                              d \in Plans({fa, fb, fn}, {A, B, AC})}] :
        Covered(j)}

-----------------------------------------------------------------------------
(* Alignment: two files and up to two places they go to, in every order,    *)
(* with identities or without, and a rename of a file the editor reported.  *)

N(path, hash, id) == [path |-> path, hash |-> hash, id |-> id, size |-> 1, was |-> path]
Spots == {<<"a">>, <<"b">>, <<"c">>, <<"d">>}
MCBefore == {N(<<"a">>, "h1", i1), N(<<"b">>, "h2", i2)}
Versions == [path : Spots, hash : {"h1", "h2", "h3"}, id : {i1, i2, None}]
MCAfter ==
    {{N(e.path, e.hash, e.id) : e \in S} :
        S \in {{}} \cup {{e, f} : e \in Versions, f \in Versions}}
MCSound ==
    {S \in MCAfter : /\ \A e \in S : (e.hash = "h1" => e.id # i2) /\ (e.hash = "h2" => e.id # i1)
                     /\ \A e, f \in S : e = f \/ (e.path # f.path /\ (e.id # f.id \/ e.id = None))}

MCAlignJobs ==
    [base : {MCBefore}, local : MCSound, remote : {S \in MCSound : \A e \in S : e.id # None},
     renames : {<<>>, <<[from |-> <<"a">>, to |-> <<"c">>]>>,
                <<[from |-> <<"b">>, to |-> <<"d">>], [from |-> <<"a">>, to |-> <<"b">>]>>},
     times : {[local |-> 1, remote |-> 1, observed |-> o] : o \in BOOLEAN}, order : {<<<<"a">>, <<"b">>>>}]
=============================================================================
