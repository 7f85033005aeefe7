----------------------------- MODULE MCStorage ------------------------------
(***************************************************************************)
(* Instances of Storage: every chain of blocks made at the clock readings; *)
(* the processes are alike.                                                *)
(***************************************************************************)
EXTENDS Storage, TLC

CONSTANT MaxHeight  \* the largest index of a block

MCDrift == 0
MCTimes == 1 .. 2

Level[k \in 0 .. MaxHeight] ==
  IF k = 0 THEN {Genesis}
  ELSE {NewBlock(k, t, 7, q.hash) : t \in Clock, q \in Level[k - 1]}

MCBlock == UNION {Level[k] : k \in 0 .. MaxHeight}
MCHash == {b.hash : b \in MCBlock} \union {ZeroHash}

Alike == Permutations(Proc)
=============================================================================
