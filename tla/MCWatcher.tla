----------------------------- MODULE MCWatcher -----------------------------
(* One file at the top and one in a directory of a directory, which may     *)
(* both appear later, one after the other or the second while the first is  *)
(* walked.                                                                  *)
EXTENDS Watcher, TLC

CONSTANTS top, below, outer, inner

MCParent == (top :> Root) @@ (below :> inner) @@ (inner :> outer) @@ (outer :> Root)
=============================================================================
