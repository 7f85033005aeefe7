-------------------------- MODULE BlockchainProofs --------------------------
(***************************************************************************)
(* Proofs about Blockchain, for every set of callers, callbacks, blocks,   *)
(* offered chains and clock readings.                                      *)
(***************************************************************************)
EXTENDS Blockchain, ChainLemmas

\* The two outcomes of processBlockInternal, the only way a block is added.
LEMMA ProcessBlockCases ==
  ASSUME TypeOK, NEW b \in Block, ProcessBlockInternal(b)
  PROVE  \/ Accepts(chain, b, clock) /\ AppendBlock(b)
         \/ UNCHANGED <<chain, length, notified>>
BY DEF ProcessBlockInternal

\* What a caller carries through TryAcceptChain is a sequence of blocks.
LEMMA CallTyped ==
  ASSUME TypeOK, NEW c \in Caller
  PROVE  call[c].blocks \in Seq(Block) /\ Len(call[c].blocks) \in Nat
<1>1. call[c].blocks \in Offer \union {<<>>}
  BY DEF TypeOK
<1>2. call[c].blocks \in Seq(Block)
  BY <1>1, BlockchainAssumption, EmptySeq
<1> QED BY <1>2, LenProperties

\* A step is an append, an exchange, or leaves the chain and what was told
\* of it alone; only an append or an exchange touches them.
LEMMA StepCases ==
  ASSUME TypeOK, [Next]_vars
  PROVE  \/ /\ \E b \in Block : Accepts(chain, b, clock) /\ AppendBlock(b)
            /\ UNCHANGED <<subscribed, call, clock>>
         \/ \E c \in Caller : ReplaceChain(c)
         \/ UNCHANGED <<chain, length, notified>>
<1>1. ASSUME NEW bpm \in Bpm, AddBlock(bpm)
      PROVE  \/ /\ \E b \in Block : Accepts(chain, b, clock) /\ AppendBlock(b)
                /\ UNCHANGED <<subscribed, call, clock>>
             \/ UNCHANGED <<chain, length, notified>>
  BY <1>1, ProcessBlockCases DEF AddBlock
<1>2. ASSUME NEW b \in Block, ProcessBlock(b)
      PROVE  \/ /\ Accepts(chain, b, clock) /\ AppendBlock(b)
                /\ UNCHANGED <<subscribed, call, clock>>
             \/ UNCHANGED <<chain, length, notified>>
  BY <1>2, ProcessBlockCases DEF ProcessBlock
<1>3. ASSUME NEW c \in Caller, TryAcceptChain(c), ~ReplaceChain(c)
      PROVE  UNCHANGED <<chain, length, notified>>
  BY <1>3 DEF TryAcceptChain, CheckLength, CheckChain, KeepChain, Return
<1>4. ASSUME NEW s \in Subscriber, Subscribe(s)
      PROVE  UNCHANGED <<chain, length, notified>>
  BY <1>4 DEF Subscribe
<1>5. ASSUME NEW t \in Clock, ClockMoves(t)
      PROVE  UNCHANGED <<chain, length, notified>>
  BY <1>5 DEF ClockMoves
<1>6. ASSUME UNCHANGED vars
      PROVE  UNCHANGED <<chain, length, notified>>
  BY <1>6 DEF vars
<1> QED BY <1>1, <1>2, <1>3, <1>4, <1>5, <1>6 DEF Next
-----------------------------------------------------------------------------
\* Appending keeps every variable it writes in its type.
LEMMA AppendTyped ==
  ASSUME TypeOK, NEW b \in Block, AppendBlock(b)
  PROVE  /\ chain' \in Seq(Block)
         /\ length' \in Int
         /\ notified' \in [Subscriber -> Seq(Block)]
BY DEF TypeOK, AppendBlock

\* Every variable of Blockchain keeps its type: the chain and what the
\* callbacks heard are blocks, callers are at a line of TryAcceptChain.
THEOREM TypeCorrect == Spec => []TypeOK
<1>1. Init => TypeOK
  BY BlockAssumption DEF Init, TypeOK, Idle
<1>2. TypeOK /\ [Next]_vars => TypeOK'
  <2> SUFFICES ASSUME TypeOK, [Next]_vars PROVE TypeOK'
    OBVIOUS
  <2>1. ASSUME NEW b \in Block, ProcessBlockInternal(b),
               UNCHANGED <<subscribed, call, clock>>
        PROVE  TypeOK'
    <3>1. CASE UNCHANGED <<chain, length, notified>>
      BY <2>1, <3>1 DEF TypeOK
    <3>2. CASE AppendBlock(b)
      BY <2>1, <3>2, AppendTyped DEF TypeOK
    <3> QED BY <2>1, <3>1, <3>2, ProcessBlockCases
  <2>2. ASSUME NEW bpm \in Bpm, AddBlock(bpm) PROVE TypeOK'
    BY <2>1, <2>2 DEF AddBlock
  <2>3. ASSUME NEW b \in Block, ProcessBlock(b) PROVE TypeOK'
    BY <2>1, <2>3 DEF ProcessBlock
  <2>4. ASSUME NEW s \in Subscriber, Subscribe(s) PROVE TypeOK'
    BY <2>4 DEF Subscribe, TypeOK
  <2>5. ASSUME NEW c \in Caller, NEW blocks \in Offer, CheckLength(c, blocks)
        PROVE  TypeOK'
    BY <2>5 DEF CheckLength, TypeOK, Answer
  <2>6. ASSUME NEW c \in Caller, CheckChain(c) PROVE TypeOK'
    BY <2>6 DEF CheckChain, Goto, TypeOK, Answer
  <2>7. ASSUME NEW c \in Caller, ReplaceChain(c) PROVE TypeOK'
    <3>1. chain' \in Seq(Block) /\ length' \in Int
      BY <2>7, CallTyped DEF ReplaceChain
    <3> QED BY <2>7, <3>1 DEF ReplaceChain, Goto, TypeOK, Answer
  <2>8. ASSUME NEW c \in Caller, KeepChain(c) PROVE TypeOK'
    BY <2>8 DEF KeepChain, Goto, TypeOK, Answer
  <2>9. ASSUME NEW c \in Caller, Return(c) PROVE TypeOK'
    BY <2>9 DEF Return, Idle, TypeOK
  <2>10. ASSUME NEW t \in Clock, ClockMoves(t) PROVE TypeOK'
    BY <2>10 DEF ClockMoves, TypeOK
  <2>11. CASE UNCHANGED vars
    BY <2>11 DEF vars, TypeOK
  <2> QED
    BY <2>2, <2>3, <2>4, <2>5, <2>6, <2>7, <2>8, <2>9, <2>10, <2>11
       DEF Next, TryAcceptChain
<1> QED BY <1>1, <1>2, PTL DEF Spec
-----------------------------------------------------------------------------
\* One step keeps the chain intact.
LEMMA IntactStep ==
  ASSUME TypeOK, ChainIntact, [Next]_vars
  PROVE  ChainIntact'
<1>1. ASSUME NEW b \in Block, Accepts(chain, b, clock), AppendBlock(b)
      PROVE  ChainIntact'
  <2>1. chain' = Append(chain, b) /\ length' = length + 1
    BY <1>1 DEF AppendBlock
  <2>2. WellFormed(Append(chain, b))
    BY <1>1, AppendWellFormed DEF TypeOK, ChainIntact
  <2>3. Len(Append(chain, b)) = Len(chain) + 1
    BY DEF TypeOK
  <2> QED BY <2>1, <2>2, <2>3 DEF ChainIntact
<1>2. ASSUME NEW c \in Caller, ReplaceChain(c) PROVE ChainIntact'
  <2>1. /\ chain' = call[c].blocks /\ length' = Len(call[c].blocks)
        /\ ValidateChain(call[c].blocks, clock)
    BY <1>2 DEF ReplaceChain, CanReplace
  <2>2. WellFormed(call[c].blocks)
    BY <2>1, CallTyped, ValidatedWellFormed
  <2> QED BY <2>1, <2>2 DEF ChainIntact
<1>3. CASE UNCHANGED <<chain, length, notified>>
  BY <1>3 DEF ChainIntact
<1> QED BY <1>1, <1>2, <1>3, StepCases

\* However appends and exchanges interleave, the linked list is a chain of
\* hashes back to the genesis block and the field length counts it.
THEOREM AlwaysIntact == Spec => []ChainIntact
<1>1. Init => ChainIntact
  BY DEF Init, ChainIntact, WellFormed
<1> QED BY <1>1, IntactStep, TypeCorrect, PTL DEF Spec
-----------------------------------------------------------------------------
\* One step keeps the notifications in order: a block is appended with an
\* index beyond all that were told, and an exchange only makes room.
LEMMA OrderedStep ==
  ASSUME TypeOK, ChainIntact, NotificationsOrdered, [Next]_vars
  PROVE  NotificationsOrdered'
<1>1. ASSUME NEW b \in Block, Accepts(chain, b, clock), AppendBlock(b)
      PROVE  NotificationsOrdered'
  <2>1. Len(chain') = Len(chain) + 1 /\ Len(chain) \in Nat
    BY <1>1 DEF AppendBlock, TypeOK
  <2>2. b.index = Len(chain)
    <3>1. Len(chain) \in 1 .. Len(chain)
      BY <2>1 DEF ChainIntact, WellFormed
    <3>2. Tip(chain).index = Len(chain) - 1
      BY <3>1, IndexIsPosition DEF Tip, ChainIntact, TypeOK
    <3> QED BY <1>1, <2>1, <3>2 DEF Accepts, ValidAfter, Follows
  <2>3. ASSUME NEW s \in Subscriber
        PROVE  /\ \A j \in 1 .. Len(notified'[s]) :
                    notified'[s][j].index < Len(chain')
               /\ \A i, j \in 1 .. Len(notified'[s]) :
                    i < j => notified'[s][i].index < notified'[s][j].index
    <3> DEFINE old == notified[s]
               new == notified'[s]
    <3> SUFFICES /\ \A j \in 1 .. Len(new) : new[j].index < Len(chain')
                 /\ \A i, j \in 1 .. Len(new) :
                      i < j => new[i].index < new[j].index
      OBVIOUS
    <3>1. old \in Seq(Block) /\ Len(old) \in Nat
      BY DEF TypeOK
    <3>2. \A j \in 1 .. Len(old) : old[j].index \in Int
      <4>1. \A j \in 1 .. Len(old) : old[j] \in Block
        BY <3>1
      <4> HIDE DEF old
      <4> QED BY <4>1, BlockAssumption
    <3>3. /\ \A j \in 1 .. Len(old) : old[j].index < Len(chain)
          /\ \A i, j \in 1 .. Len(old) : i < j => old[i].index < old[j].index
      BY DEF NotificationsOrdered
    <3>4. CASE s \in subscribed
      <4>1. new = Append(old, b)
        BY <1>1, <3>4 DEF AppendBlock
      <4>2. /\ Len(new) = Len(old) + 1
            /\ \A j \in 1 .. Len(old) : new[j] = old[j]
            /\ new[Len(old) + 1] = b
        BY <3>1, <4>1, AppendProperties
      <4> HIDE DEF old, new
      <4>3. \A j \in 1 .. Len(new) :
              j \in 1 .. Len(old) \/ j = Len(old) + 1
        BY <3>1, <4>2
      <4>4. \A j \in 1 .. Len(new) : new[j].index < Len(chain')
        BY <2>1, <2>2, <3>2, <3>3, <4>2, <4>3
      <4>5. ASSUME NEW i \in 1 .. Len(new), NEW j \in 1 .. Len(new), i < j
            PROVE  new[i].index < new[j].index
        <5>1. i \in 1 .. Len(old)
          BY <3>1, <4>2, <4>5
        <5>2. CASE j \in 1 .. Len(old)
          BY <3>3, <4>2, <4>5, <5>1, <5>2
        <5>3. CASE j = Len(old) + 1
          <6>1. new[i] = old[i] /\ new[j] = b
            BY <4>2, <5>1, <5>3
          <6> QED BY <2>2, <3>3, <5>1, <6>1
        <5> QED BY <4>3, <5>2, <5>3
      <4> QED BY <4>4, <4>5
    <3>5. CASE s \notin subscribed
      <4>1. new = old
        BY <1>1, <3>5 DEF AppendBlock
      <4> HIDE DEF old, new
      <4> QED BY <2>1, <3>2, <3>3, <4>1
    <3> QED BY <3>4, <3>5
  <2> QED BY <2>3 DEF NotificationsOrdered
<1>2. ASSUME NEW c \in Caller, ReplaceChain(c) PROVE NotificationsOrdered'
  <2>1. /\ chain' = call[c].blocks
        /\ Len(call[c].blocks) > length
        /\ notified' = notified
    BY <1>2 DEF ReplaceChain, CanReplace
  <2>2. Len(chain') > Len(chain) /\ Len(chain) \in Nat /\ Len(chain') \in Nat
    BY <2>1, CallTyped DEF ChainIntact, TypeOK
  <2>3. \A s \in Subscriber : \A j \in 1 .. Len(notified[s]) :
          notified[s][j].index \in Int
    BY BlockAssumption DEF TypeOK
  <2> QED BY <2>1, <2>2, <2>3 DEF NotificationsOrdered
<1>3. CASE UNCHANGED <<chain, length, notified>>
  BY <1>3 DEF NotificationsOrdered
<1> QED BY <1>1, <1>2, <1>3, StepCases

\* Every callback hears of blocks in the order of the chain, whatever
\* exchanges of the chain fall between two appends.
THEOREM AlwaysOrdered == Spec => []NotificationsOrdered
<1>1. Init => NotificationsOrdered
  BY DEF Init, NotificationsOrdered
<1> QED BY <1>1, OrderedStep, TypeCorrect, AlwaysIntact, PTL DEF Spec
-----------------------------------------------------------------------------
\* No step makes the chain shorter; an exchange makes it longer.
LEMMA NeverShorter ==
  ASSUME TypeOK, ChainIntact, [Next]_vars
  PROVE  /\ Len(chain) \in Nat /\ Len(chain') \in Nat
         /\ Len(chain') >= Len(chain)
<1>0. Len(chain) \in Nat
  BY DEF TypeOK
<1>1. ASSUME NEW b \in Block, AppendBlock(b)
      PROVE  Len(chain') = Len(chain) + 1
  BY <1>1 DEF AppendBlock, TypeOK
<1>2. ASSUME NEW c \in Caller, ReplaceChain(c)
      PROVE  Len(chain') > Len(chain) /\ Len(chain') \in Nat
  BY <1>2, CallTyped DEF ReplaceChain, CanReplace, ChainIntact
<1>3. CASE UNCHANGED <<chain, length, notified>>
  BY <1>0, <1>3
<1> QED BY <1>0, <1>1, <1>2, <1>3, StepCases

\* One step keeps every answer of TryAcceptChain true.
LEMMA AnsweredStep ==
  ASSUME TypeOK, ChainIntact, AnsweredNeverShorter, [Next]_vars
  PROVE  AnsweredNeverShorter'
<1> DEFINE Kept(c) == call[c].at \in {"not longer", "replaced"} =>
                        Len(chain) >= Len(call[c].blocks)
<1>1. SUFFICES ASSUME NEW c \in Caller PROVE Kept(c)'
  BY DEF AnsweredNeverShorter
<1>2. Kept(c)
  BY DEF AnsweredNeverShorter
<1>3. CASE call'[c] = call[c]
  <2>1. Len(call[c].blocks) \in Nat
    BY CallTyped
  <2>2. Len(chain) >= Len(call[c].blocks) => Len(chain') >= Len(call[c].blocks)
    BY <2>1, NeverShorter
  <2> QED BY <1>2, <1>3, <2>2
<1>4. CASE call'[c] # call[c]
  <2>1. \E d \in Caller : TryAcceptChain(d)
    BY <1>4 DEF Next, AddBlock, ProcessBlock, Subscribe, ClockMoves, vars
  <2>2. PICK d \in Caller : TryAcceptChain(d)
    BY <2>1
  <2>3. d = c
    BY <1>4, <2>2 DEF TryAcceptChain, CheckLength, CheckChain, ReplaceChain,
                      KeepChain, Return, Goto, TypeOK
  <2>4. ASSUME NEW blocks \in Offer, CheckLength(c, blocks) PROVE Kept(c)'
    <3>1. /\ call'[c].blocks = blocks /\ chain' = chain
          /\ call'[c].at = IF Len(blocks) <= length THEN "not longer"
                           ELSE "longer"
      BY <2>4 DEF CheckLength, TypeOK
    <3>2. blocks \in Seq(Block) /\ Len(blocks) \in Nat
      BY BlockchainAssumption, LenProperties
    <3> QED BY <3>1, <3>2 DEF ChainIntact
  <2>5. CASE CheckChain(c)
    BY <2>5 DEF CheckChain, Goto, TypeOK
  <2>6. CASE ReplaceChain(c)
    <3>1. call'[c].blocks = call[c].blocks /\ chain' = call[c].blocks
      BY <2>6 DEF ReplaceChain, Goto, TypeOK
    <3>2. Len(chain') = Len(call'[c].blocks) /\ Len(chain') \in Nat
      BY <3>1, CallTyped
    <3>3. Len(chain') >= Len(call'[c].blocks)
      BY <3>2
    <3> QED BY <3>3
  <2>7. CASE KeepChain(c)
    BY <2>7 DEF KeepChain, Goto, TypeOK
  <2>8. CASE Return(c)
    BY <2>8 DEF Return, Idle, TypeOK
  <2> QED BY <2>2, <2>3, <2>4, <2>5, <2>6, <2>7, <2>8 DEF TryAcceptChain
<1> QED BY <1>3, <1>4

\* The gap between the length check and the exchange in TryAcceptChain is
\* harmless: an answered caller always sees a chain as long as its offer.
THEOREM AlwaysAnswered == Spec => []AnsweredNeverShorter
<1>1. Init => AnsweredNeverShorter
  <2>1. Init => \A c \in Caller : call[c].at = "idle"
    BY DEF Init, Idle
  <2> QED BY <2>1 DEF AnsweredNeverShorter
<1> QED BY <1>1, AnsweredStep, TypeCorrect, AlwaysIntact, PTL DEF Spec
-----------------------------------------------------------------------------
\* Well-formedness as the abstract ledger sees it is the same predicate.
LEMMA SameWellFormed ==
  ASSUME NEW c
  PROVE  Abstract!WellFormed(c) <=> WellFormed(c)
BY DEF Abstract!WellFormed, WellFormed, Abstract!HashMatches, HashMatches,
       Abstract!Follows, Follows, Abstract!CalculateHash, CalculateHash,
       Abstract!HashOf, HashOf, Abstract!Genesis, Genesis,
       Abstract!NewBlock, NewBlock, Abstract!ZeroHash, ZeroHash

\* Every step of the object is a step of the ledger, or changes nothing the
\* ledger knows of.
LEMMA LedgerStep ==
  ASSUME TypeOK, ChainIntact, [Next]_vars
  PROVE  [Abstract!Next]_(Abstract!vars)
<1>1. WellFormed(chain')
  BY IntactStep DEF ChainIntact
<1>2. ASSUME NEW b \in Block, Accepts(chain, b, clock), AppendBlock(b),
             UNCHANGED subscribed
      PROVE  Abstract!Extend
  <2>1. chain' = Append(chain, b)
    BY <1>2 DEF AppendBlock
  <2>2. Abstract!Tip(chain') = b
    BY <2>1, AppendProperties DEF Abstract!Tip, TypeOK
  <2>3. notified' = [s \in Subscriber |->
                       IF s \in subscribed
                       THEN Append(notified[s], Abstract!Tip(chain'))
                       ELSE notified[s]]
    BY <1>2, <2>2 DEF AppendBlock
  <2> QED BY <1>1, <1>2, <2>1, <2>3, SameWellFormed DEF Abstract!Extend
<1>3. ASSUME NEW c \in Caller, ReplaceChain(c) PROVE Abstract!Adopt
  <2>1. Len(chain') > Len(chain) /\ UNCHANGED <<subscribed, notified>>
    BY <1>3, CallTyped DEF ReplaceChain, CanReplace, ChainIntact
  <2> QED BY <1>1, <2>1, SameWellFormed DEF Abstract!Adopt
<1>4. ASSUME NEW s \in Subscriber, Subscribe(s) PROVE Abstract!Listen(s)
  BY <1>4 DEF Subscribe, Abstract!Listen
<1>5. ASSUME UNCHANGED <<chain, length, notified>>,
             ~ \E s \in Subscriber : Subscribe(s)
      PROVE  UNCHANGED Abstract!vars
  <2>1. UNCHANGED subscribed
    BY <1>5 DEF Next, AddBlock, ProcessBlock, TryAcceptChain, CheckLength,
                CheckChain, ReplaceChain, KeepChain, Return, ClockMoves, vars
  <2> QED BY <1>5, <2>1 DEF Abstract!vars
<1> QED BY <1>2, <1>3, <1>4, <1>5, StepCases DEF Abstract!Next

\* The object with its locks, its racing TryAcceptChain calls and its clock
\* implements the ledger that only ever grows.
THEOREM Refinement == Spec => ImplementsLedger
<1>1. Init => Abstract!Init
  BY DEF Init, Abstract!Init, Abstract!Genesis, Genesis, Abstract!NewBlock,
         NewBlock, Abstract!HashOf, HashOf, Abstract!ZeroHash, ZeroHash
<1> QED
  BY <1>1, LedgerStep, TypeCorrect, AlwaysIntact, PTL
     DEF Spec, ImplementsLedger, Abstract!Spec
-----------------------------------------------------------------------------
\* Only the clock set back can turn the answer of IsValid, which
\* validationTask reports as corruption, from true to false.
THEOREM OnlySetBackInvalidates == Spec => ValidUntilSetBack
<1>1. ASSUME TypeOK, ChainIntact, [Next]_vars,
             IsValid(chain, clock), clock' >= clock, TypeOK'
      PROVE  IsValid(chain', clock')
  <2>1. /\ chain \in Seq(Block) /\ chain # <<>>
        /\ clock \in Int /\ clock' \in Int
    BY <1>1, BlockchainAssumption DEF TypeOK, ChainIntact, WellFormed
  <2>2. ASSUME NEW b \in Block, Accepts(chain, b, clock), AppendBlock(b),
               UNCHANGED clock
        PROVE  IsValid(chain', clock')
    BY <1>1, <2>1, <2>2, AppendValid DEF AppendBlock
  <2>3. ASSUME NEW c \in Caller, ReplaceChain(c)
        PROVE  IsValid(chain', clock')
    <3>1. /\ chain' = call[c].blocks /\ clock' = clock
          /\ ValidateChain(call[c].blocks, clock)
      BY <2>3 DEF ReplaceChain, CanReplace
    <3> QED BY <3>1 DEF ValidateChain, IsValid
  <2>4. CASE UNCHANGED chain
    BY <1>1, <2>1, <2>4, ValidLater
  <2> QED BY <1>1, <2>2, <2>3, <2>4, StepCases
<1>2. TypeOK /\ TypeOK' /\ ChainIntact /\ [Next]_vars
        => [IsValid(chain, clock) /\ clock' >= clock
              => IsValid(chain', clock')]_vars
  BY <1>1
<1> QED
  BY <1>2, TypeCorrect, AlwaysIntact, PTL DEF Spec, ValidUntilSetBack
=============================================================================
