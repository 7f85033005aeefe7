----------------------------- MODULE Blockchain -----------------------------
(***************************************************************************)
(* The Blockchain object of internal/blockchain/blockchain.go, shared by   *)
(* the goroutines of one process.                                          *)
(*                                                                         *)
(* Everything a method does under bc.mu, the calls of the subscribed       *)
(* callbacks included, is one step.  TryAcceptChain is not one step: it    *)
(* reads the length under the read lock, validates with no lock, and then  *)
(* lets ReplaceChain take the write lock.                                  *)
(***************************************************************************)
EXTENDS Chain

CONSTANTS
  Subscriber,  \* the callbacks that may be subscribed
  Caller,      \* the goroutines that call TryAcceptChain
  Bpm,         \* the values AddBlock is called with
  Offer,       \* the sequences of blocks TryAcceptChain is called with
  Clock        \* the readings of time.Now()

ASSUME BlockchainAssumption ==
  /\ Bpm \subseteq Int
  /\ Offer \subseteq Seq(Block)
  /\ Clock \subseteq Int

VARIABLES
  chain,       \* the blocks from head to tail
  length,      \* the field length
  subscribed,  \* the field callbacks
  notified,    \* notified[s]: the blocks callback s has been called with
  call,        \* call[c]: where caller c is in TryAcceptChain, and with what
  clock        \* the wall clock

vars == <<chain, length, subscribed, notified, call, clock>>

Idle == [at |-> "idle", blocks |-> <<>>]

Answer == {"not longer", "invalid", "replaced", "not replaced"}

TypeOK ==
  /\ chain \in Seq(Block)
  /\ length \in Int
  /\ subscribed \subseteq Subscriber
  /\ notified \in [Subscriber -> Seq(Block)]
  /\ call \in [Caller -> [at : {"idle", "longer", "valid"} \union Answer,
                          blocks : Offer \union {<<>>}]]
  /\ clock \in Clock

Init ==
  /\ chain = <<Genesis>>
  /\ length = 1
  /\ subscribed = {}
  /\ notified = [s \in Subscriber |-> <<>>]
  /\ call = [c \in Caller |-> Idle]
  /\ clock \in Clock
-----------------------------------------------------------------------------
(***************************************************************************)
(* Appending one block                                                     *)
(***************************************************************************)
AppendBlock(b) ==
  /\ chain' = Append(chain, b)
  /\ length' = length + 1
  /\ notified' = [s \in Subscriber |->
                    IF s \in subscribed THEN Append(notified[s], b)
                    ELSE notified[s]]

\* A refuted variant: the callbacks hear of every block.
NotifyAlways(b) ==
  \/ Accepts(chain, b, clock) /\ AppendBlock(b)
  \/ /\ ~Accepts(chain, b, clock)
     /\ notified' = [s \in Subscriber |->
                       IF s \in subscribed THEN Append(notified[s], b)
                       ELSE notified[s]]
     /\ UNCHANGED <<chain, length>>

ProcessBlockInternal(b) ==
  \/ Accepts(chain, b, clock) /\ AppendBlock(b)
  \/ ~Accepts(chain, b, clock) /\ UNCHANGED <<chain, length, notified>>

\* A block another goroutine received or read from the database.
ProcessBlock(b) ==
  /\ ProcessBlockInternal(b)
  /\ UNCHANGED <<subscribed, call, clock>>

\* The membership in Block bounds the instance, it is not in the code.
AddBlock(bpm) ==
  LET b == NewBlock(Tip(chain).index + 1, clock, bpm, Tip(chain).hash) IN
  /\ b \in Block
  /\ ProcessBlockInternal(b)
  /\ UNCHANGED <<subscribed, call, clock>>

Subscribe(s) ==
  /\ s \notin subscribed
  /\ subscribed' = subscribed \union {s}
  /\ UNCHANGED <<chain, length, notified, call, clock>>
-----------------------------------------------------------------------------
(***************************************************************************)
(* TryAcceptChain                                                          *)
(***************************************************************************)
\* A refuted variant: the blocks of the call are lost.
GotoOnly(c, at) == call' = [call EXCEPT ![c] = [at |-> at]]

Goto(c, at) == call' = [call EXCEPT ![c].at = at]

\* Under the read lock: the length of the chain.
CheckLength(c, blocks) ==
  /\ call[c].at = "idle"
  /\ call' = [call EXCEPT ![c] =
       [at |-> IF Len(blocks) <= length THEN "not longer" ELSE "longer",
        blocks |-> blocks]]
  /\ UNCHANGED <<chain, length, subscribed, notified, clock>>

\* With no lock.
CheckChain(c) ==
  /\ call[c].at = "longer"
  /\ Goto(c, IF ValidateChain(call[c].blocks, clock) THEN "valid"
             ELSE "invalid")
  /\ UNCHANGED <<chain, length, subscribed, notified, clock>>

\* ReplaceChain, under the write lock; it calls no callback.
\* CanReplaceUnchecked, a refuted variant, trusts the length checked before.
CanReplaceUnchecked(blocks) == ValidateChain(blocks, clock)

CanReplace(blocks) ==
  Len(blocks) > length /\ ValidateChain(blocks, clock)

ReplaceChain(c) ==
  /\ call[c].at = "valid"
  /\ CanReplace(call[c].blocks)
  /\ chain' = call[c].blocks
  /\ length' = Len(call[c].blocks)
  /\ Goto(c, "replaced")
  /\ UNCHANGED <<subscribed, notified, clock>>

KeepChain(c) ==
  /\ call[c].at = "valid"
  /\ ~CanReplace(call[c].blocks)
  /\ Goto(c, "not replaced")
  /\ UNCHANGED <<chain, length, subscribed, notified, clock>>

Return(c) ==
  /\ call[c].at \in Answer
  /\ call' = [call EXCEPT ![c] = Idle]
  /\ UNCHANGED <<chain, length, subscribed, notified, clock>>

TryAcceptChain(c) ==
  \/ \E blocks \in Offer : CheckLength(c, blocks)
  \/ CheckChain(c) \/ ReplaceChain(c) \/ KeepChain(c) \/ Return(c)
-----------------------------------------------------------------------------
\* time.Now() carries a monotonic reading only within one process, and block
\* timestamps are compared as wall-clock times: the clock may be set back.
ClockMoves(t) ==
  /\ clock' = t
  /\ UNCHANGED <<chain, length, subscribed, notified, call>>

Next ==
  \/ \E bpm \in Bpm : AddBlock(bpm)
  \/ \E b \in Block : ProcessBlock(b)
  \/ \E s \in Subscriber : Subscribe(s)
  \/ \E c \in Caller : TryAcceptChain(c)
  \/ \E t \in Clock : ClockMoves(t)

Spec == Init /\ [][Next]_vars
-----------------------------------------------------------------------------
(***************************************************************************)
(* What makes it correct                                                   *)
(***************************************************************************)
\* Whatever goroutines append and replace, the linked list is a chain of
\* hashes back to the genesis block and the field length counts it
\* (processBlockInternal, ReplaceChain).
ChainIntact == WellFormed(chain) /\ length = Len(chain)

\* A callback is called in the order of the chain: the blocks it has seen
\* have strictly increasing indices, the last one not beyond the tip, even
\* when the chain was exchanged between two calls.
NotificationsOrdered ==
  \A s \in Subscriber :
    /\ \A j \in 1 .. Len(notified[s]) : notified[s][j].index < Len(chain)
    /\ \A i, j \in 1 .. Len(notified[s]) :
         i < j => notified[s][i].index < notified[s][j].index

\* However the calls of TryAcceptChain overlap, an answer means that the
\* chain now is at least as long as the one that was offered, unless the
\* offer was invalid: no racing caller takes it back to a shorter one.
AnsweredNeverShorter ==
  \A c \in Caller :
    call[c].at \in {"not longer", "replaced"} =>
      Len(chain) >= Len(call[c].blocks)

\* Only the clock set back can make IsValid false: a chain the maintenance
\* loop found valid stays valid through every append, every exchange and
\* every advance of the clock.
ValidUntilSetBack ==
  [][ IsValid(chain, clock) /\ clock' >= clock
        => IsValid(chain', clock') ]_vars

Abstract == INSTANCE Ledger
  WITH ledger <- chain, listening <- subscribed, feed <- notified

\* The object with its locks implements the ledger of module Ledger.
ImplementsLedger == Abstract!Spec
=============================================================================
