---------------------------- MODULE MCNodeLocks ----------------------------
(***************************************************************************)
(* Two nodes: either they connect while one of them has something else to  *)
(* do, or they are connected and both add blocks.                          *)
(***************************************************************************)
EXTENDS NodeLocks

CONSTANTS a, b

Pair == {<<a, b>>, <<b, a>>}
ToA == {<<a, b>>}

Tasks == {a} \X {"add", "sync", "discovery", "cleanup", "save"}
Adders == Node \X {"add"}

\* The nodes have branches of their own: neither appends a block of the other.
Forked == \A l \in Link : ~Appends(script[l])

Symmetry == Permutations(Node)
=============================================================================
