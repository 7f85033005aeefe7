------------------------------- MODULE Blocks -------------------------------
(***************************************************************************)
(* The block of internal/blockchain/block.go: its hash and its validation. *)
(*                                                                         *)
(* SHA-256 over the concatenated fields is taken to be injective: a hash   *)
(* value is the tuple of the fields it was computed from.  A timestamp is  *)
(* a number of clock units; the code hashes it to the second (RFC3339), so *)
(* two timestamps of one unit stand for instants of the same second.       *)
(***************************************************************************)
EXTENDS Integers, Sequences

CONSTANTS
  Hash,         \* the hash values of the instance
  Block,        \* the blocks that can exist in the instance
  MaxTimeDrift  \* how far ahead of the clock a timestamp may lie

HashOf(index, time, bpm, prev) == <<index, time, bpm, prev>>

CalculateHash(b) == HashOf(b.index, b.time, b.bpm, b.prev)

NewBlock(index, time, bpm, prev) ==
  [index |-> index, time |-> time, bpm |-> bpm, prev |-> prev,
   hash |-> HashOf(index, time, bpm, prev)]

ZeroHash == <<0>>   \* the PrevHash "0" of the genesis block

Genesis == NewBlock(0, 0, 0, ZeroHash)

ASSUME BlockAssumption ==
  /\ Block \subseteq [index : Int, time : Int, bpm : Int,
                      prev : Hash, hash : Hash]
  /\ Genesis \in Block
  /\ MaxTimeDrift \in Nat
-----------------------------------------------------------------------------
(***************************************************************************)
(* Validate(prevBlock).  The check that fails first only chooses the error *)
(* text, which no caller inspects, so the checks are one conjunction.      *)
(***************************************************************************)
HashMatches(b) == b.hash = CalculateHash(b)

Follows(b, prev) ==
  /\ b.index = prev.index + 1
  /\ b.prev = prev.hash

NotInFuture(b, now) == b.time <= now + MaxTimeDrift

\* Validate against the block before it, and with no block before it.
ValidAfter(b, prev, now) ==
  HashMatches(b) /\ Follows(b, prev) /\ NotInFuture(b, now) /\ b.bpm >= 0

ValidFirst(b, now) ==
  HashMatches(b) /\ b.index = 0 /\ NotInFuture(b, now) /\ b.bpm >= 0
=============================================================================
