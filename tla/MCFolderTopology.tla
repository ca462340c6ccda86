--------------------------- MODULE MCFolderTopology ---------------------------
(* A folder with one inside, a note in the inner one and two local files.  *)
EXTENDS FolderTopology

MCFolders == {<<"T">>, <<"T", "C">>}
MCFiles   == {[dir |-> <<"T", "C">>, kind |-> "note"], [dir |-> <<"T">>, kind |-> "ignored"],
              [dir |-> <<"T", "C">>, kind |-> "meta"]}
=============================================================================
