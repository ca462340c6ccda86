------------------------------ MODULE TextMerge ------------------------------
(***************************************************************************)
(* The three-way text merge both sides run (protocol/src/text-merge.ts).   *)
(* A text is the sequence of its tokens. The comparison library is         *)
(* external: an edit says which base tokens it keeps and what it puts      *)
(* after each of them (0: before the first), and hunks() groups that.      *)
(***************************************************************************)
EXTENDS Naturals, Sequences, SequencesExt, FiniteSetsExt

CONSTANTS Words,       \* tokens that count as words
          Breaks,      \* tokens that end a line
          WordLimit,   \* more overlapping words than this are a conflict (20)
          LineLimit,   \* more affected lines than this are a conflict (2)
          TokenLimit   \* more tokens than this are not compared (75,000)

NoEdit(base) == [gone |-> {}, new |-> [k \in 0 .. Len(base) |-> <<>>]]

\* The tokens an edit leaves, in order.
Text(base, edit) ==
    FlattenSeq([k \in 1 .. Len(base) + 1 |->
        (IF k = 1 \/ k - 1 \in edit.gone THEN <<>> ELSE <<base[k - 1]>>)
            \o edit.new[k - 1]])

\* One hunk per maximal stretch without a kept token.
Hunks(base, edit, side) ==
    LET kept    == (0 .. Len(base)) \ edit.gone
        next(k) == Min({j \in kept \cup {Len(base) + 1} : j > k})
        hunk(k) == [start |-> k, remove |-> next(k) - 1 - k, side |-> side,
                    add |-> FlattenSeq([i \in 1 .. next(k) - k |-> edit.new[k + i - 1]])]
    IN  {h \in {hunk(k) : k \in kept} : h.remove > 0 \/ h.add # <<>>}

Stop(h) == h.start + h.remove

Overlaps(f, s) ==
    IF f.remove = 0 /\ s.remove = 0
    THEN f.start = s.start
    ELSE \/ f.start < Stop(s) /\ s.start < Stop(f)
         \/ f.remove = 0 /\ f.start >= s.start /\ f.start <= Stop(s)
         \/ s.remove = 0 /\ s.start >= f.start /\ s.start <= Stop(f)

Before(f, s) == \/ f.start < s.start
                \/ f.start = s.start /\ f.remove < s.remove
                \/ f.start = s.start /\ f.remove = s.remove /\ f.side = "local" /\ s.side = "remote"

\* Mutant: an insertion at the end of the group does not hold it open.
JoinForgetful(acc, h) ==
    LET connects == acc.groups # <<>> /\ (h.start < acc.end \/ (h.start = acc.end /\ h.remove = 0))
        from     == IF connects THEN acc
                    ELSE [groups |-> Append(acc.groups, {}), end |-> h.start, insertionAtEnd |-> FALSE]
    IN  [groups |-> [from.groups EXCEPT ![Len(from.groups)] = @ \cup {h}],
         end |-> Max({from.end, Stop(h)}), insertionAtEnd |-> FALSE]

\* Adds the next hunk to the current group or opens a new one.
Join(acc, h) ==
    LET connects == acc.groups # <<>> /\ \/ h.start < acc.end
                                         \/ h.start = acc.end /\ (h.remove = 0 \/ acc.insertionAtEnd)
        from     == IF connects THEN acc
                    ELSE [groups |-> Append(acc.groups, {}), end |-> h.start, insertionAtEnd |-> FALSE]
        end      == Max({from.end, Stop(h)})
    IN  [groups |-> [from.groups EXCEPT ![Len(from.groups)] = @ \cup {h}],
         end |-> end,
         insertionAtEnd |-> \/ end = from.end /\ from.insertionAtEnd
                            \/ h.remove = 0 /\ h.start = end]

Components(hunks) ==
    FoldLeft(Join, [groups |-> <<>>, end |-> 0, insertionAtEnd |-> FALSE],
             SetToSortSeq(hunks, Before)).groups

Mixed(group) == \E f, s \in group : f.side # s.side

WordCount(tokens) == Cardinality({i \in DOMAIN tokens : tokens[i] \in Words})
LineBreaks(tokens) == Cardinality({i \in DOMAIN tokens : tokens[i] \in Breaks})

Scale(base, group) ==
    LET start   == Min({h.start : h \in group})
        end     == Max({Stop(h) : h \in group})
        samples == {SubSeq(base, start + 1, end)} \cup {h.add : h \in group}
    IN  [words |-> Max({WordCount(t) : t \in samples}),
         lines |-> Max({LineBreaks(t) + 1 : t \in samples})]

AffectedLines(base, group) ==
    LET first == LineBreaks(SubSeq(base, 1, Min({h.start : h \in group}))) + 1
    IN  first .. first + Scale(base, group).lines - 1

\* Of a group both sides touched only the preferred side's hunks are taken.
Selected(groups, preferred) ==
    UNION {{h \in groups[g] : Mixed(groups[g]) => h.side = preferred} : g \in DOMAIN groups}

\* The tokens from the cursor up to the hunk, then what the hunk adds.
Place(base, acc, h) ==
    [text |-> acc.text \o SubSeq(base, acc.cursor + 1, h.start) \o h.add,
     cursor |-> Stop(h), ok |-> acc.ok /\ h.start >= acc.cursor]

Assemble(base, hunks) ==
    LET done == FoldLeft(LAMBDA acc, h : Place(base, acc, h),
                         [text |-> <<>>, cursor |-> 0, ok |-> TRUE], SetToSortSeq(hunks, Before))
    IN  [text |-> done.text \o SubSeq(base, done.cursor + 1, Len(base)), ok |-> done.ok]

Merged(text, kind) == [text |-> text, kind |-> kind]
Conflicted(result) == result.kind \in {"large-conflict", "merge-fallback"}

\* compared: the library answered within its budget.
MergeText(base, local, remote, preferred, compared) ==
    LET L      == Text(base, local)
        R      == Text(base, remote)
        whole  == IF preferred = "local" THEN L ELSE R
        groups == Components(Hunks(base, local, "local") \cup Hunks(base, remote, "remote"))
        mixed  == {groups[g] : g \in {i \in DOMAIN groups : Mixed(groups[i])}}
        words  == MapThenSumSet(LAMBDA g : Scale(base, g).words, mixed)
        lines  == Cardinality(UNION {AffectedLines(base, g) : g \in mixed})
        result == Assemble(base, Selected(groups, preferred))
    IN  CASE L = R    -> Merged(L, "merged")
          [] L # R /\ L = base -> Merged(R, "merged")
          [] L # R /\ L # base /\ R = base -> Merged(L, "merged")
          [] OTHER ->
                IF Len(base) + Len(L) + Len(R) > TokenLimit \/ ~compared \/ ~result.ok
                THEN Merged(whole, "merge-fallback")
                ELSE IF words > WordLimit \/ lines > LineLimit
                THEN Merged(whole, "large-conflict")
                ELSE Merged(result.text, IF mixed = {} THEN "merged" ELSE "small-overlap")
=============================================================================
