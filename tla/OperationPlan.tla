---------------------------- MODULE OperationPlan ----------------------------
(***************************************************************************)
(* From what a run wants to the operations it sends, buildOperationBatch   *)
(* of plugin/src/operation-plan.ts, and what the server makes of them,     *)
(* applyOperations of apps/server/src/operation-state.ts.                  *)
(*                                                                         *)
(* A tree is [files, dirs, dead]: files [id, path, hash], folders          *)
(* [id, path] and the tombstones [id, path, rank] of deletions, the latest *)
(* of a path with the highest rank. A path is the sequence of its names.   *)
(* Every base revision is the one of the tree the plan was made for.       *)
(***************************************************************************)
EXTENDS Naturals, Sequences, SequencesExt, FiniteSetsExt, Functions

CONSTANT None

Below(path, top) == IsStrictPrefix(top, path)
In(path, top)    == IsPrefix(top, path)
Ancestors(path)  == {SubSeq(path, 1, n) : n \in 1 .. Len(path) - 1}
Rebase(path, from, to) == IF In(path, from) THEN to \o SubSeq(path, Len(from) + 1, Len(path)) ELSE path
Ids(S) == {e.id : e \in S}
The(S) == CHOOSE e \in S : TRUE

-----------------------------------------------------------------------------
(* The plan. want is [entries, folders, dest, created, kept]: the files and *)
(* explicit folders of the result, which folder identity belongs where,     *)
(* the identities of things the owner was seen to create (by path), and the *)
(* folders this device does not manage.                                     *)

Op(kind, target) == [kind |-> kind, target |-> target, path |-> None, hash |-> None,
                     new |-> None, proven |-> FALSE, with |-> {}]

Send(p, op) == [p EXCEPT !.ops = Append(@, op)]
Fail(p)     == [p EXCEPT !.failed = TRUE]

\* Where the plan puts a folder, None when it says nothing about it.
DestOf(want, id) == IF \E d \in want.dest : d.id = id THEN (The({d \in want.dest : d.id = id})).path ELSE None
CreatedAt(want, path, entity) == {c \in want.created : c.path = path /\ c.entity = entity}

DeleteFile(p, f) == [Send(p, Op("delete", f.id)) EXCEPT !.files = @ \ {f}, !.gone = Append(@, f)]
RemoveDir(p, g)  == [Send(p, Op("rmdir", g.id)) EXCEPT !.dirs = @ \ {g}, !.gone = Append(@, g)]

\* What stands at the destination of a folder on the move and is not wanted
\* any more, with everything below it.
ClearDestination(p, want, path) ==
    LET final    == Ids(want.entries) \cup Ids(want.dest)
        occupant == {f \in p.files : f.path = path /\ f.id \notin final}
        root     == {g \in p.dirs : g.path = path /\ DestOf(want, g.id) # path /\ g.id \notin want.kept}
        inside   == {f \in p.files : Below(f.path, path)}
        folders  == {g \in p.dirs : In(g.path, path)}
        without  == FoldSet(LAMBDA f, q : DeleteFile(q, f), p, occupant)
        retiring == root # {} /\ \A e \in inside \cup folders : e.id \notin final /\ e.id \notin want.kept
    IN  IF ~retiring THEN without
        ELSE FoldLeft(LAMBDA q, g : RemoveDir(q, g),
                      FoldSet(LAMBDA f, q : DeleteFile(q, f), without, inside),
                      SetToSortSeq(folders, LAMBDA a, b : Len(a.path) > Len(b.path)))

Moving(p, want) == {g \in p.dirs : DestOf(want, g.id) \notin {None, g.path}}

Relocate(p, g, to) ==
    LET carried == {e \in p.files \cup p.dirs : Below(e.path, g.path)}
        moved(S) == {[e EXCEPT !.path = Rebase(@, g.path, to)] : e \in S}
    IN  [Send(p, [Op("move-folder", g.id) EXCEPT !.path = to, !.with = Ids(carried)])
            EXCEPT !.files = moved(@), !.dirs = moved(@)]

\* Of folders equally deep the plan takes the first of its list.
Shallowest(S) == CHOOSE g \in S : \A h \in S : Len(g.path) <= Len(h.path)
Temporary(id) == <<".gib-sync-move", id>>

\* One folder moves to its place if that is free; in a cycle one steps aside.
MoveFolder(p, want) ==
    LET moving == Moving(p, want)
        at(g)  == {h \in p.dirs \ {g} : h.path = DestOf(want, g.id)}
        free   == {g \in moving : at(g) = {} /\ ~\E f \in p.files : f.path = DestOf(want, g.id)}
        swaps  == {g \in moving : at(g) \cap moving # {}}
    IN  IF p.failed \/ moving = {} THEN p
        ELSE IF free # {} THEN Relocate(p, Shallowest(free), DestOf(want, Shallowest(free).id))
        ELSE IF swaps = {} THEN Fail(p)
        ELSE Relocate(p, Shallowest(swaps), Temporary(Shallowest(swaps).id))

ClearWay(p, want) ==
    FoldSet(LAMBDA path, q : ClearDestination(q, want, path), p, {DestOf(want, g.id) : g \in Moving(p, want)})

MoveInTurn(p, want) == FoldLeft(LAMBDA q, n : MoveFolder(q, want), p, [n \in 1 .. 3 * Cardinality(p.dirs) + 1 |-> n])
Settled(p, want)    == IF Moving(p, want) # {} THEN Fail(p) ELSE p
MoveFolders(p, want) == Settled(MoveInTurn(ClearWay(p, want), want), want)

\* The folders of the result: those asked for, the parents of everything, and
\* the unmanaged ones.
Wanted(p, want) ==
    LET asked == want.folders \cup UNION {Ancestors(e.path) : e \in want.entries}
    IN  asked \cup UNION {Ancestors(f) : f \in want.folders} \cup {g.path : g \in {d \in p.dirs : d.id \in want.kept}}

\* A folder made anew where an old one was retires the old one's contents.
Replaced(p, want) ==
    {g.path : g \in {d \in p.dirs :
        /\ d.path \in p.wanted
        /\ \/ \E e \in want.dest : e.path = d.path /\ e.id # d.id
           \/ \E c \in CreatedAt(want, d.path, "folder") : c.id # d.id}}

InReplaced(p, path) == \E r \in p.replaced : Below(path, r)
Fresh(path) == <<"new", path>>

\* The identity an entry has in the plan, None when it has none; and the one
\* it is created with.
NewFile(want, path) == {c.id : c \in CreatedAt(want, path, "file")}
EntryId(p, want, e) ==
    IF ~InReplaced(p, e.path) THEN e.id
    ELSE The(IF NewFile(want, e.path) # {} THEN NewFile(want, e.path) ELSE {Fresh(e.path)})
IdFor(p, want, e) ==
    LET id == EntryId(p, want, e)
    IN  The(IF NewFile(want, e.path) # {} THEN NewFile(want, e.path) ELSE {IF id # None THEN id ELSE Fresh(e.path)})

\* The server's file an entry continues.
Continues(p, want, e, id) ==
    {f \in p.files : IF id # None THEN f.id = id ELSE NewFile(want, e.path) = {} /\ f.path = e.path}

\* What the rest of the plan goes by, once the folders stand.
WithFolders(p, want)  == [p EXCEPT !.wanted = Wanted(p, want)]
WithReplaced(p, want) == [p EXCEPT !.replaced = Replaced(p, want)]
WithUses(p, want) ==
    [p EXCEPT !.uses = UNION {{[entry |-> e, file |-> f] : f \in Continues(p, want, e, EntryId(p, want, e))} : e \in want.entries}]
Place(p, want) == WithUses(WithReplaced(WithFolders(MoveFolders(p, want), want), want), want)

-----------------------------------------------------------------------------
(* Files: first what is not used goes, then the moves, a chain from its     *)
(* free end and a ring over a temporary name, then the edits.               *)

FileAt(p, path) == {f.id : f \in {x \in p.files : x.path = path}}
MoveTo(p, id, path) ==
    [Send(p, [Op("move", id) EXCEPT !.path = path])
        EXCEPT !.files = {IF f.id = id THEN [f EXCEPT !.path = path] ELSE f : f \in @}]

Chain(p, to, pending, start) ==
    FoldLeft(LAMBDA c, n :
                IF c.next = {} THEN c
                ELSE LET id == The(c.next)
                     IN  IF id \notin pending THEN Fail([c EXCEPT !.next = {}])
                         ELSE IF id \in ToSet(c.items) THEN [c EXCEPT !.ring = {id}, !.next = {}]
                         ELSE [c EXCEPT !.items = Append(@, id), !.next = FileAt(p, to[id]) \ {id}],
             [items |-> <<>>, next |-> {start}, ring |-> {}, failed |-> FALSE],
             [n \in 1 .. Cardinality(pending) + 1 |-> n])

AlongChain(p, to, c) ==
    IF c.failed THEN Fail(p)
    ELSE FoldLeft(LAMBDA q, id : IF FileAt(q, to[id]) \ {id} # {} THEN Fail(q) ELSE MoveTo(q, id, to[id]),
                  FoldSet(LAMBDA id, q : MoveTo(q, id, Temporary(id)), p, c.ring),
                  Reverse(c.items))

MoveChain(p, to, start) ==
    LET pending == {f.id : f \in {x \in p.files : to[x.id] # x.path}}
    IN  IF p.failed \/ start \notin pending THEN p
        ELSE AlongChain(p, to, Chain(p, to, pending, start))

PlanFiles(p) ==
    LET used     == {u.file : u \in p.uses}
        claim(f) == (The({u \in p.uses : u.file = f})).entry
        swept    == FoldSet(LAMBDA f, q : DeleteFile(q, f), p, p.files \ used)
        to       == [id \in Ids(used) |-> (claim(The({f \in used : f.id = id}))).path]
        moved    == FoldSet(LAMBDA id, q : MoveChain(q, to, id), swept, Ids(used))
        edits    == {f \in used : (claim(f)).hash # f.hash}
    IN  IF Cardinality(used) < Cardinality(p.uses) THEN Fail(p)
        ELSE FoldSet(LAMBDA f, q : Send(q, [Op("edit", f.id) EXCEPT !.hash = (claim(f)).hash]), moved, edits)

-----------------------------------------------------------------------------
(* Folders that go, deepest first; folders and files that come. At a path   *)
(* with a deletion the operation names it: the batch's own, or the latest   *)
(* tombstone of the tree.                                                   *)

\* Mutant: the tree's tombstone is taken where the batch has its own deletion.
RecreateOnRecord(tree, p, op, again) ==
    LET buried == {d \in tree.dead : d.path = op.path}
        latest == CHOOSE d \in buried : \A o \in buried : o.rank <= d.rank
    IN  IF buried # {} THEN [op EXCEPT !.kind = again, !.new = op.target, !.target = latest.id]
        ELSE op

\* again: the kind an operation has when it makes something deleted anew.
Recreate(tree, p, op, again) ==
    LET buried == {d \in tree.dead : d.path = op.path}
        latest == CHOOSE d \in buried : \A o \in buried : o.rank <= d.rank
        mine   == SelectSeq(p.gone, LAMBDA g : g.path = op.path)
    IN  IF mine # <<>> THEN [op EXCEPT !.kind = again, !.new = op.target, !.target = Last(mine).id, !.proven = TRUE]
        ELSE IF buried # {} THEN [op EXCEPT !.kind = again, !.new = op.target, !.target = latest.id]
        ELSE op

NewFolder(p, want, path) ==
    LET there == {d \in want.dest : d.path = path}
        made  == CreatedAt(want, path, "folder")
    IN  The(IF InReplaced(p, path) \/ there \cup made = {} THEN {Fresh(path)}
            ELSE Ids(IF there # {} THEN there ELSE made))

Going(p) == {g \in p.dirs : g.path \notin p.wanted \/ \E r \in p.replaced : In(g.path, r)}
RemoveFolders(p, going) ==
    FoldLeft(LAMBDA q, g : RemoveDir(q, g), p, SetToSortSeq(going, LAMBDA a, b : Len(a.path) > Len(b.path)))

MakeFolder(tree, want, p, q, path) ==
    Send(q, Recreate(tree, p, [Op("mkdir", NewFolder(p, want, path)) EXCEPT !.path = path], "mkdir"))
MakeFolders(tree, want, p) ==
    FoldLeft(LAMBDA q, path : MakeFolder(tree, want, p, q, path), p,
             SetToSortSeq(p.wanted \ {g.path : g \in p.dirs}, LAMBDA a, b : Len(a) < Len(b)))

MakeFile(tree, want, q, e) ==
    Send(q, Recreate(tree, q, [Op("create", IdFor(q, want, e)) EXCEPT !.path = e.path, !.hash = e.hash], "recreate"))
MakeFiles(tree, want, p) ==
    FoldSet(LAMBDA e, q : MakeFile(tree, want, q, e), p, want.entries \ {u.entry : u \in p.uses})

Furnish(tree, want, p) ==
    IF p.failed THEN p
    ELSE MakeFiles(tree, want, MakeFolders(tree, want, RemoveFolders(PlanFiles(p), Going(p))))

Start(tree) == [files |-> tree.files, dirs |-> tree.dirs, ops |-> <<>>, gone |-> <<>>, failed |-> FALSE,
                wanted |-> {}, replaced |-> {}, uses |-> {}]

Build(tree, want) == Furnish(tree, want, Place(Start(tree), want))

-----------------------------------------------------------------------------
(* The server: entities by identity, dead ones included. One operation that *)
(* does not fit refuses the batch.                                          *)

Entity(kind, path, hash, rank) == [kind |-> kind, path |-> path, hash |-> hash, dead |-> rank]

Entities(tree) ==
    LET all == tree.files \cup tree.dirs \cup tree.dead
    IN  [id \in Ids(all) |->
           IF \E f \in tree.files : f.id = id THEN LET f == The({x \in tree.files : x.id = id}) IN Entity("file", f.path, f.hash, 0)
           ELSE IF \E g \in tree.dirs : g.id = id THEN Entity("folder", (The({x \in tree.dirs : x.id = id})).path, None, 0)
           ELSE LET d == The({x \in tree.dead : x.id = id}) IN Entity("file", d.path, None, d.rank)]

LiveIds(es)    == {id \in DOMAIN es : es[id].dead = 0}
TakenBy(es, path) == {id \in LiveIds(es) : es[id].path = path}
Inside(es, path)  == {id \in LiveIds(es) : Below(es[id].path, path)}

\* The latest deletion at a path.
LastBuried(es, path) ==
    {id \in DOMAIN es : /\ es[id].dead > 0 /\ es[id].path = path
                        /\ \A o \in DOMAIN es : es[o].path = path => es[o].dead <= es[id].dead}

Fits(s, op) ==
    LET es == s.es
        live(kind) == op.target \in LiveIds(es) /\ op.target \in s.before /\ es[op.target].kind = kind
    IN  CASE op.kind \in {"mkdir", "recreate"} /\ op.new # None ->
                 /\ op.target \in LastBuried(es, op.path)
                 /\ IF op.proven THEN op.target \in s.buried ELSE op.target \in s.dead
                 /\ op.new \notin DOMAIN es /\ TakenBy(es, op.path) = {}
          [] op.kind \in {"create", "mkdir"} /\ op.new = None ->
                 /\ op.target \notin DOMAIN es /\ TakenBy(es, op.path) = {}
                 /\ LastBuried(es, op.path) = {}
          [] op.kind = "edit" -> live("file")
          [] op.kind = "move" ->
                 live("file") /\ op.path # es[op.target].path /\ TakenBy(es, op.path) = {}
          [] op.kind = "move-folder" ->
                 /\ live("folder") /\ op.path # es[op.target].path /\ TakenBy(es, op.path) = {}
                 /\ ~Below(op.path, es[op.target].path)
                 /\ op.with = Inside(es, es[op.target].path)
                 /\ \A id \in op.with : TakenBy(es, Rebase(es[id].path, es[op.target].path, op.path))
                                           \subseteq op.with \cup {op.target}
          [] op.kind = "delete" -> live("file")
          [] op.kind = "rmdir" -> live("folder") /\ Inside(es, es[op.target].path) = {}
          [] OTHER -> FALSE

With(es, id, entity) == [x \in DOMAIN es \cup {id} |-> IF x = id THEN entity ELSE es[x]]

Effect(s, op) ==
    LET es   == s.es
        rank == s.next
        id   == IF op.new # None THEN op.new ELSE op.target
        from == es[op.target].path
    IN  CASE op.kind = "mkdir" -> With(es, id, Entity("folder", op.path, None, 0))
          [] op.kind \in {"create", "recreate"} -> With(es, id, Entity("file", op.path, op.hash, 0))
          [] op.kind = "edit" -> [es EXCEPT ![op.target].hash = op.hash]
          [] op.kind \in {"move", "move-folder"} ->
                 [x \in DOMAIN es |-> IF x = op.target \/ x \in op.with
                                      THEN [es[x] EXCEPT !.path = Rebase(@, from, op.path)] ELSE es[x]]
          [] OTHER -> [es EXCEPT ![op.target].dead = rank]

Execute(s, op) ==
    IF ~s.ok \/ ~Fits(s, op) THEN [s EXCEPT !.ok = FALSE]
    ELSE [s EXCEPT !.es = Effect(s, op), !.next = @ + 1,
                   !.buried = IF op.kind \in {"delete", "rmdir"} THEN @ \cup {op.target} ELSE @]

\* No two things at one path, and every parent a folder of its own.
WellFormed(es) ==
    /\ \A id \in LiveIds(es) : Cardinality(TakenBy(es, es[id].path)) = 1
    /\ \A id \in LiveIds(es) : \A a \in Ancestors(es[id].path) : \E g \in TakenBy(es, a) : es[g].kind = "folder"

\* ranks of the batch's deletions come after those of the tree.
Session(es) == [es |-> es, before |-> LiveIds(es), dead |-> DOMAIN es \ LiveIds(es), buried |-> {},
                next |-> Cardinality(DOMAIN es) + 1, ok |-> TRUE]
Checked(end) == [end EXCEPT !.ok = @ /\ WellFormed(end.es)]
ApplyOperations(tree, ops) == Checked(FoldLeft(LAMBDA s, op : Execute(s, op), Session(Entities(tree)), ops))
=============================================================================
