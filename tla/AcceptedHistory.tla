-------------------------- MODULE AcceptedHistory ---------------------------
(***************************************************************************)
(* What the write authority promises: a vault is a register of file        *)
(* revisions, and every accepted batch is one atomic compare-and-swap on   *)
(* it.  A batch is accepted at most once, only while every file it changes *)
(* still has the revision its author saw, and the history only grows.      *)
(***************************************************************************)
EXTENDS Naturals, Sequences

CONSTANTS Files, Keys, None

VARIABLES history,  \* the accepted batches, in order: [key, seen]
          tree      \* the revision of each file

\* seen maps the files a batch changes to the revisions its author saw.
Accept(key, seen) ==
    /\ \A n \in DOMAIN history : history[n].key # key
    /\ \A f \in DOMAIN seen : seen[f] = tree[f]
    /\ history' = Append(history, [key |-> key, seen |-> seen])
    /\ tree' = [f \in Files |-> IF f \in DOMAIN seen THEN key ELSE tree[f]]

Init ==
    /\ history = <<>>
    /\ \E initial \in Keys \cup {None} : tree = [f \in Files |-> initial]

Next == \E key \in Keys, changes \in SUBSET Files :
            Accept(key, [f \in changes |-> tree[f]])

Spec == Init /\ [][Next]_<<history, tree>>
=============================================================================
