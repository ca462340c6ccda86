--------------------------- MODULE Reconciliation ---------------------------
(***************************************************************************)
(* What a device and the server's importer compute of what they find: the  *)
(* decisions of Decisions, the merges of TextMerge and SettingsMerge and   *)
(* the operations of a run (OperationPlan). One job at a time, taken from  *)
(* the inputs given, and its outcome, which is compared with a reference.  *)
(***************************************************************************)
EXTENDS TextMerge, SettingsMerge, Decisions

CONSTANTS NoteJobs,      \* [base, local, remote, preferred, compared]: texts and edits
          SettingsJobs,  \* [base, local, remote, preferred, bookmarks]: JSON values
          EnabledJobs,   \* [base, local, remote, preferred, pinned]: lists of plugins
          BatchJobs      \* [tree, want]: what the server has, what a run wants

Plan == INSTANCE OperationPlan

vars == <<job, outcome>>

Init ==
    \/ DecisionInit
    \/ /\ \/ job \in Tagged("note", NoteJobs)
          \/ job \in Tagged("settings", SettingsJobs)
          \/ job \in Tagged("enabled", EnabledJobs)
          \/ job \in Tagged("batch", BatchJobs)
       /\ outcome = None

-----------------------------------------------------------------------------

MergeNote ==
    /\ job.kind = "note"
    /\ outcome' = MergeText(job.of.base, job.of.local, job.of.remote, job.of.preferred, job.of.compared)

MergeSettingsFile ==
    /\ job.kind = "settings"
    /\ outcome' = MergeSettings(job.of.base, job.of.local, job.of.remote, job.of.preferred, job.of.bookmarks)

MergeEnabledPlugins ==
    /\ job.kind = "enabled"
    /\ outcome' = MergeEnablement(job.of.base, job.of.local, job.of.remote, job.of.preferred, job.of.pinned)

\* The operations of a run, and what the server makes of them.
SendBatch ==
    /\ job.kind = "batch"
    /\ \E planned \in {Plan!Build(job.of.tree, job.of.want)} :
          outcome' = [gaveUp |-> planned.failed, result |-> Plan!ApplyOperations(job.of.tree, planned.ops)]

Merging ==
    /\ outcome = None
    /\ \/ MergeNote \/ MergeSettingsFile \/ MergeEnabledPlugins \/ SendBatch
    /\ UNCHANGED job

Next == Decision \/ Merging

Spec == Init /\ [][Next]_vars

-----------------------------------------------------------------------------
(* What a text merge promises, stated on tokens.                            *)

TextHunks(j) == Hunks(j.base, j.local, "local") \cup Hunks(j.base, j.remote, "remote")

\* The hunks a chain of overlapping hunks connects with one.
Reach(hunks, h) ==
    LET grow(S) == S \cup {x \in hunks : \E y \in S : Overlaps(x, y)}
    IN  FoldLeft(LAMBDA S, n : grow(S), {h}, [n \in 1 .. Cardinality(hunks) |-> n])

\* Every change of either side, without the changes that a chain of overlaps
\* connects with one of the preferred side's.
Wanted(j) ==
    {h \in TextHunks(j) : h.side = j.preferred \/ ~\E x \in Reach(TextHunks(j), h) : x.side = j.preferred}

\* The base with these changes made, position by position.
Changed(base, hunks) ==
    FlattenSeq([k \in 1 .. Len(base) + 1 |->
        (IF k = 1 \/ \E h \in hunks : h.start < k - 1 /\ k - 1 <= Stop(h) THEN <<>> ELSE <<base[k - 1]>>)
            \o (IF \E h \in hunks : h.start = k - 1
                THEN (CHOOSE h \in hunks : h.start = k - 1).add ELSE <<>>)])

MergedNoteHasEveryChange ==
    Done("note") =>
        LET j == job.of
        IN  IF Conflicted(outcome)
            THEN /\ outcome.text = Text(j.base, IF j.preferred = "local" THEN j.local ELSE j.remote)
                 /\ outcome.kind = "merge-fallback" =>
                       \/ ~j.compared
                       \/ Len(j.base) + Len(Text(j.base, j.local)) + Len(Text(j.base, j.remote)) > TokenLimit
            ELSE outcome.text = Changed(j.base, Wanted(j))

-----------------------------------------------------------------------------
(* What a settings merge promises, stated on single facts: this key or      *)
(* record is there, this place has this value.                              *)

RECURSIVE Facts(_, _, _)
Facts(v, at, bookmarks) ==
    IF v = Missing THEN {}
    ELSE IF IsObj(v)
    THEN {<<at, "object">>} \cup UNION {Facts(At(v, k), Append(at, k), bookmarks) : k \in Keys(v)}
    ELSE IF IsArr(v) /\ AreRecords(v, bookmarks)
    THEN {<<at, "array">>} \cup UNION {Facts(v.array[i], at \o RecordKey(v.array[i], bookmarks), bookmarks)
                                         : i \in DOMAIN v.array}
    ELSE {<<at, ToString(v)>>}

ThreeWay(b, l, r) == (b \cap l \cap r) \cup ((l \cup r) \ b)

SettingsKeepBothSides ==
    /\ (Done("settings") /\ outcome.semantic /\ outcome.overlaps = 0) =>
         LET F(v) == Facts(v, <<>>, job.of.bookmarks)
         IN  F(outcome.value) = ThreeWay(F(job.of.base), F(job.of.local), F(job.of.remote))
    /\ (Done("enabled") /\ \A v \in {job.of.base, job.of.local, job.of.remote} : IsNames(v)) =>
         LET b == Names(job.of.base)
             l == Names(job.of.local)
             r == Names(job.of.remote)
         IN  Names(outcome.value) = (ThreeWay(b, l, r) \ job.of.pinned) \cup (r \cap job.of.pinned)

\* What one side changed and the other did not is in the merge. A merged note
\* has every change of both sides, save those a chain of overlaps connects with
\* a change of the preferred side; anything else is one side's whole text, and
\* assembling the pieces never fails (mergeText). Settings without an overlap
\* are exactly what both sides left alone and what either side put in
\* (mergeJsonValues, mergeSystemJson). Lists of plugins never overlap; of the
\* pinned plugins they have the server's (mergeCommunityPluginEnablement).
MergesKeepBothSides == MergedNoteHasEveryChange /\ SettingsKeepBothSides

-----------------------------------------------------------------------------

Mirrored(j) == [Swapped(j) EXCEPT !.preferred = Other(j.preferred)]

\* Two devices that merge the same versions, each with itself as the local
\* side, come to the same text, the same settings, the same list of plugins
\* and the same folders (an identity without a baseline on both sides follows
\* the server); else each would publish its own result again.
DevicesAgree ==
    /\ Done("note") =>
         LET m == Mirrored(job.of)
         IN  outcome = MergeText(m.base, m.local, m.remote, m.preferred, m.compared)
    /\ Done("settings") =>
         LET m == Mirrored(job.of)
         IN  outcome = MergeSettings(m.base, m.local, m.remote, m.preferred, m.bookmarks)
    /\ (Done("enabled") /\ job.of.pinned = {}) =>
         LET m == Mirrored(job.of)
         IN  outcome = MergeEnablement(m.base, m.local, m.remote, m.preferred, m.pinned)
    /\ FoldersAgree

-----------------------------------------------------------------------------
(* The operations of a run against the tree it wants.                       *)

\* The plan asks for a folder below its own old place, or the owner was seen
\* to make a folder where the plan keeps another: the server refuses these.
Refusable(j) ==
    \/ \E g \in j.tree.dirs, d \in j.want.dest : d.id = g.id /\ Plan!Below(d.path, g.path)
    \/ \E c \in j.want.created, d \in j.want.dest : c.entity = "folder" /\ d.path = c.path /\ d.id # c.id

FoldersAsked(j) ==
    LET paths == {d.path : d \in j.want.dest} \cup {e.path : e \in j.want.entries}
    IN  {d.path : d \in j.want.dest} \cup UNION {Plan!Ancestors(path) : path \in paths}
          \cup {g.path : g \in {d \in j.tree.dirs : d.id \in j.want.kept}}

\* A folder of the plan that did not exist, made while an old one goes: what
\* is below it starts a history of its own.
MadeAnew(j, path) ==
    /\ \E d \in j.want.dest : Plan!Below(path, d.path) /\ d.id \notin Plan!Ids(j.tree.dirs)
    /\ ~(Plan!Ids(j.tree.dirs) \subseteq Plan!Ids(j.want.dest) \cup j.want.kept)

\* The server accepts every operation of a plan that was made, and the tree
\* they leave is the one the run wanted: these files with these contents, the
\* folders and their parents and no other, each file and folder under the
\* identity it was planned with (buildOperationBatch, applyOperations). A plan
\* that names a wrong deletion or moves onto something would be refused, and
\* made the same way again, at every retry.
BatchMakesTheTree ==
    (Done("batch") /\ ~outcome.gaveUp /\ ~Refusable(job.of)) =>
        LET j        == job.of
            es       == outcome.result.es
            of(kind) == {id \in Plan!LiveIds(es) : es[id].kind = kind}
        IN  /\ outcome.result.ok
            /\ {<<es[id].path, es[id].hash>> : id \in of("file")} = {<<e.path, e.hash>> : e \in j.want.entries}
            /\ {es[id].path : id \in of("folder")} = FoldersAsked(j)
            /\ \A e \in j.want.entries : e.id = None \/ MadeAnew(j, e.path) \/ es[e.id].path = e.path
            /\ \A d \in j.want.dest : MadeAnew(j, d.path) \/ es[d.id].path = d.path
=============================================================================
