------------------------------- MODULE MCSync -------------------------------
(***************************************************************************)
(* Instances of Sync: topologies, initial chains and the blocks that the   *)
(* producers can make up to a height.                                      *)
(***************************************************************************)
EXTENDS Sync

CONSTANTS
  n1, n2, n3,    \* nodes
  MaxHeight,     \* the largest index of a block
  InitialHeight  \* the index n1's chain starts from, the others have genesis

MCDrift == 0
MCTime == 1

\* Level k holds the blocks of index k that the producers can make.
Level[k \in 0 .. MaxHeight] ==
  IF k = 0 THEN {Genesis}
  ELSE {NewBlock(k, t, bpm, p.hash) :
          t \in UNION Range(Clock), bpm \in Bpm, p \in Level[k - 1]}

MCBlock == UNION {Level[k] : k \in 0 .. MaxHeight}
MCHash == {block.hash : block \in MCBlock} \union {ZeroHash}

Pair == {<<n1, n2>>, <<n2, n1>>}
Triangle ==
  Pair \union {<<n2, n3>>, <<n3, n2>>, <<n1, n3>>, <<n3, n1>>}

Grown[k \in 0 .. MaxHeight] ==
  IF k = 0 THEN <<Genesis>>
  ELSE Append(Grown[k - 1],
              NewBlock(k, MCTime, CHOOSE bpm \in Bpm : TRUE,
                       Tip(Grown[k - 1]).hash))

AllGenesis == [n \in Node |-> <<Genesis>>]
Ahead == [AllGenesis EXCEPT ![n1] = Grown[InitialHeight]]

SameClock == [n \in Node |-> {MCTime}]
\* n2's clock is ahead of n1's.
SkewedClock == [SameClock EXCEPT ![n2] = {MCTime + 1}]
=============================================================================
