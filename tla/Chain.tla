------------------------------- MODULE Chain --------------------------------
(***************************************************************************)
(* What the methods of internal/blockchain/blockchain.go compute on one    *)
(* chain.  The linked list from head to tail is the sequence of its        *)
(* blocks: head is its first element, tail its last.                       *)
(***************************************************************************)
EXTENDS Blocks, FiniteSetsExt

Tip(c) == c[Len(c)]

EmptyHash == <<>>   \* the StartHash "" of a full synchronisation request

\* Variants of the test below that the runs refute: with no link to the tip,
\* with the index alone as the link, with no limit on the timestamp.
AcceptsUnlinked(c, b, now) ==
  HashMatches(b) /\ NotInFuture(b, now) /\ b.bpm >= 0
AcceptsByIndex(c, b, now) ==
  AcceptsUnlinked(c, b, now) /\ b.index = Tip(c).index + 1
AcceptsAnyTime(c, b, now) ==
  HashMatches(b) /\ Follows(b, Tip(c)) /\ b.bpm >= 0

\* The test at the top of processBlockInternal.
Accepts(c, b, now) == ValidAfter(b, Tip(c), now)

\* Every block after the first validates against the one before it.
ValidLinks(c, now) == \A k \in 2 .. Len(c) : ValidAfter(c[k], c[k - 1], now)

IsValid(c, now) == ValidFirst(c[1], now) /\ ValidLinks(c, now)

\* A refuted variant: the first block is taken on trust.
ValidateLinksOnly(blocks, now) == blocks # <<>> /\ ValidLinks(blocks, now)

ValidateChain(blocks, now) ==
  /\ blocks # <<>>
  /\ blocks[1].index = 0 => blocks[1].hash = Genesis.hash
  /\ ValidFirst(blocks[1], now)
  /\ ValidLinks(blocks, now)

Positions(c, hash) == {k \in 1 .. Len(c) : c[k].hash = hash}

\* The walk returns the first block with that hash.
GetBlockByHash(c, hash) == c[Min(Positions(c, hash))]

\* Blocks that follow the one named, at most limit of them; from the head
\* when no hash is given or the chain does not contain it.
GetBlocksAfter(c, hash, limit) ==
  LET known == Positions(c, hash)
      first == IF hash = EmptyHash \/ known = {} THEN 1 ELSE Min(known) + 1
  IN  SubSeq(c, first, Min({Len(c), first + limit - 1}))
-----------------------------------------------------------------------------
\* The part of IsValid that no clock enters: each block carries its own hash
\* and names the block before it, back to the genesis block.
WellFormed(c) ==
  /\ c # <<>> /\ c[1] = Genesis
  /\ \A k \in 2 .. Len(c) :
       HashMatches(c[k]) /\ Follows(c[k], c[k - 1]) /\ c[k].bpm >= 0
=============================================================================
