---------------------------- MODULE MCBlockchain ----------------------------
(***************************************************************************)
(* Instances of Blockchain: two competing histories, and beside them one   *)
(* block for each way Validate can refuse.                                 *)
(***************************************************************************)
EXTENDS Blockchain

CONSTANT MaxHeight  \* the largest index of a block

MCTimes == 1 .. 2
MCBpm == {-1, 7}
MCDrift == 0

\* Level k holds the blocks of index k whose history is well formed.
Level[k \in 0 .. MaxHeight] ==
  IF k = 0 THEN {Genesis}
  ELSE {NewBlock(k, t, 7, p.hash) : t \in MCTimes, p \in Level[k - 1]}

GoodBlocks == UNION {Level[k] : k \in 0 .. MaxHeight}

BadHash == [NewBlock(1, 1, 7, Genesis.hash) EXCEPT !.hash = Genesis.hash]

OtherGenesis == NewBlock(0, 1, 7, ZeroHash)

BadBlocks ==
  {NewBlock(2, 1, 7, Genesis.hash),      \* the wrong index
   NewBlock(1, 1, 7, ZeroHash),          \* the wrong predecessor
   OtherGenesis,
   NewBlock(1, 1, 7, OtherGenesis.hash),
   BadHash}
    \union {NewBlock(b.index + 1, t, -1, b.hash) :
              b \in Level[0] \union Level[1], t \in MCTimes}

MCBlock == GoodBlocks \union BadBlocks
MCHash == {b.hash : b \in MCBlock} \union {ZeroHash}

\* The chain that ends with b, from the blocks of the instance.
ChainTo[b \in GoodBlocks] ==
  IF b = Genesis THEN <<b>>
  ELSE Append(ChainTo[CHOOSE p \in GoodBlocks : p.hash = b.prev], b)

MCOffer ==
  {ChainTo[b] : b \in GoodBlocks} \union
  {Tail(ChainTo[b]) : b \in Level[2]} \union
  {<<>>,
   <<BadHash, BadHash>>,
   <<OtherGenesis, NewBlock(1, 1, 7, OtherGenesis.hash)>>,
   <<Genesis, NewBlock(2, 1, 7, Genesis.hash)>>,
   <<Genesis, NewBlock(1, 1, -1, Genesis.hash)>>}
=============================================================================
