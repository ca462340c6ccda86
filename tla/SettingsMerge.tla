---------------------------- MODULE SettingsMerge ----------------------------
(***************************************************************************)
(* The three-way merge of settings: JSON values (protocol/src/             *)
(* json-merge.ts) and the list of enabled plugins (plugin/src/             *)
(* system-merge.ts). A JSON value is an atom, an object (a function from   *)
(* keys) or an array; a text that does not parse is Garbled.               *)
(***************************************************************************)
EXTENDS Naturals, Sequences, SequencesExt, FiniteSetsExt

CONSTANTS DepthLimit,  \* deeper nesting makes the merge throw (100)
          NotIds       \* atoms that are neither strings nor numbers

Missing == [missing |-> TRUE]
Garbled == [garbled |-> TRUE]
Atom(a) == [atom |-> a]
Obj(f)  == [object |-> f]
Arr(s)  == [array |-> s]

IsAtom(v) == "atom" \in DOMAIN v
IsObj(v)  == "object" \in DOMAIN v
IsArr(v)  == "array" \in DOMAIN v

Keys(v)   == IF IsObj(v) THEN DOMAIN v.object ELSE {}
At(v, k)  == IF k \in Keys(v) THEN v.object[k] ELSE Missing

Distinct(s) == FoldLeft(LAMBDA acc, x : IF x \in Range(acc) THEN acc ELSE Append(acc, x), <<>>, s)

-----------------------------------------------------------------------------
(* Collections of records with a stable identity.                           *)

IsId(v) == IsAtom(v) /\ v.atom \notin NotIds

\* The identity of a record: its id or, for bookmarks, its type and time.
RecordKey(item, bookmarks) ==
    IF IsId(At(item, "id")) THEN <<"id", item.object["id"].atom>>
    ELSE IF bookmarks /\ IsId(At(item, "ctime")) THEN <<"bookmark", item.object["ctime"].atom>>
    ELSE <<>>

RecordKeys(v, bookmarks) ==
    IF IsArr(v) THEN [i \in DOMAIN v.array |-> RecordKey(v.array[i], bookmarks)] ELSE <<>>

\* A missing collection is empty; an array with an unidentified or repeated
\* record stays atomic.
AreRecords(v, bookmarks) ==
    \/ v = Missing
    \/ /\ IsArr(v)
       /\ LET keys == RecordKeys(v, bookmarks)
          IN  /\ <<>> \notin Range(keys)
              /\ \A i, j \in DOMAIN keys : keys[i] = keys[j] => i = j

RecordAt(v, key, bookmarks) ==
    LET at == {i \in DOMAIN RecordKeys(v, bookmarks) : RecordKeys(v, bookmarks)[i] = key}
    IN  IF at = {} THEN Missing ELSE v.array[Max(at)]

-----------------------------------------------------------------------------
(* mergeJsonValues: a result carries the merged value, how many overlaps    *)
(* were decided by preference, and whether the nesting was too deep.        *)

Result(value, overlaps) == [value |-> value, overlaps |-> overlaps, threw |-> FALSE]

RECURSIVE MergeValue(_, _, _, _, _, _)

MergeMembers(b, l, r, preferLocal, bookmarks, depth) ==
    LET keys   == Keys(b) \cup Keys(l) \cup Keys(r)
        merged == [k \in keys |-> MergeValue(At(b, k), At(l, k), At(r, k), preferLocal, bookmarks, depth + 1)]
        kept   == {k \in keys : merged[k].value # Missing}
    IN  [value    |-> Obj([k \in kept |-> merged[k].value]),
         overlaps |-> MapThenSumSet(LAMBDA k : merged[k].overlaps, keys),
         threw    |-> \E k \in keys : merged[k].threw]

MergeRecords(b, l, r, preferLocal, bookmarks, depth) ==
    LET K(v)   == RecordKeys(v, bookmarks)
        order  == Distinct(IF preferLocal THEN K(l) \o K(r) \o K(b) ELSE K(r) \o K(l) \o K(b))
        merged == [i \in DOMAIN order |->
                     MergeValue(RecordAt(b, order[i], bookmarks), RecordAt(l, order[i], bookmarks),
                                RecordAt(r, order[i], bookmarks), preferLocal, bookmarks, depth + 1)]
    IN  [value    |-> Arr(SelectSeq([i \in DOMAIN order |-> merged[i].value], LAMBDA v : v # Missing)),
         overlaps |-> MapThenSumSet(LAMBDA i : merged[i].overlaps, DOMAIN order),
         threw    |-> \E i \in DOMAIN order : merged[i].threw]

MergeValue(b, l, r, preferLocal, bookmarks, depth) ==
    IF depth > DepthLimit THEN [value |-> Missing, overlaps |-> 0, threw |-> TRUE]
    ELSE IF l = r THEN Result(l, 0)
    ELSE IF l = b THEN Result(r, 0)
    ELSE IF r = b THEN Result(l, 0)
    ELSE IF IsObj(l) /\ IsObj(r) THEN MergeMembers(b, l, r, preferLocal, bookmarks, depth)
    ELSE IF /\ IsArr(l) /\ IsArr(r)
            /\ \A v \in {b, l, r} : AreRecords(v, bookmarks)
    THEN MergeRecords(b, l, r, preferLocal, bookmarks, depth)
    ELSE Result(IF preferLocal THEN l ELSE r, 1)

\* mergeSystemJson: anything that cannot be parsed or merged is one whole file.
MergeSettings(base, local, remote, preferred, bookmarks) ==
    LET merged == MergeValue(base, local, remote, preferred = "local", bookmarks, 0)
    IN  IF Garbled \in {base, local, remote} \/ merged.threw
        THEN [value |-> IF preferred = "local" THEN local ELSE remote, semantic |-> FALSE, overlaps |-> 1]
        ELSE [value |-> merged.value, semantic |-> TRUE, overlaps |-> merged.overlaps]

-----------------------------------------------------------------------------
(* mergeCommunityPluginEnablement                                           *)

IsNames(v) == IsArr(v) /\ \A i \in DOMAIN v.array : IsAtom(v.array[i])
Names(v)   == {v.array[i] : i \in DOMAIN v.array}

\* Whether a plugin is enabled in the result; pinned ones follow the server.
Keep(id, base, local, remote, preferred, pinned) ==
    LET b == id \in Names(base)
        l == id \in Names(local)
        r == id \in Names(remote)
    IN  IF id \in pinned THEN r
        ELSE IF l = r THEN l
        ELSE IF l = b THEN r
        ELSE IF r = b THEN l
        ELSE IF preferred = "local" THEN l ELSE r

\* pinned: device-local plugins and, on a phone, the desktop-only ones.
MergeEnablement(base, local, remote, preferred, pinned) ==
    IF \A v \in {base, local, remote} : IsNames(v)
    THEN LET order == Distinct(IF preferred = "local" THEN local.array \o remote.array \o base.array
                               ELSE remote.array \o local.array \o base.array)
         IN  [value |-> Arr(SelectSeq(order, LAMBDA id : Keep(id, base, local, remote, preferred, pinned))),
              semantic |-> TRUE, overlaps |-> 0]
    ELSE MergeSettings(base, local, remote, preferred, FALSE)
=============================================================================
