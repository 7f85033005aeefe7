---------------------------- MODULE ChainLemmas -----------------------------
(***************************************************************************)
(* What follows, for every chain, from the hashes that link its blocks:    *)
(* a block's index is its distance from the genesis block, a hash occurs   *)
(* once, and a hash determines all of the history before it.               *)
(***************************************************************************)
EXTENDS Chain, FiniteSetTheorems, SequenceTheorems, TLAPS

\* Every nonempty set of naturals has a least element: the induction that
\* the lemmas on positions below use.
LEMMA LeastNumber ==
  ASSUME NEW S, S \subseteq Nat, S # {}
  PROVE  \E x \in S : \A y \in S : x <= y
<1> DEFINE R == StrictSubsetOrdering(Nat)
           F == FiniteSubsetsOf(Nat)
           T == {0 .. x : x \in S}
<1>1. IsWellFoundedOn(R, F)
  BY FS_StrictSubsetOrderingWellFounded
<1>2. T \subseteq F /\ T # {}
  <2>1. ASSUME NEW x \in S PROVE (0 .. x) \in F
    <3>1. x \in Nat /\ 0 \in Int /\ x \in Int
      OBVIOUS
    <3>2. IsFiniteSet(0 .. x)
      BY <3>1, FS_Interval
    <3>3. (0 .. x) \subseteq Nat
      BY <3>1
    <3> QED BY <3>2, <3>3 DEF FiniteSubsetsOf
  <2> HIDE DEF F
  <2> QED BY <2>1
<1> HIDE DEF R, F, T
<1>3. PICK u \in T : \A v \in T : <<v, u>> \notin R
  BY <1>1, <1>2, WFMin
<1>4. PICK x \in S : u = 0 .. x
  BY <1>3 DEF T
<1>5. ASSUME NEW y \in S, y < x PROVE FALSE
  <2>1. (0 .. y) \in T
    BY DEF T
  <2>2. (0 .. y) \subseteq u
    BY <1>4, <1>5
  <2>3. x \in u /\ x \notin 0 .. y
    BY <1>4, <1>5
  <2>4. <<0 .. y, u>> \in R
    BY <1>4, <2>2, <2>3 DEF R, StrictSubsetOrdering
  <2> QED BY <1>3, <2>1, <2>4
<1> QED BY <1>5

\* CalculateHash covers every field: with the same hash, blocks are equal.
LEMMA HashDeterminesBlock ==
  ASSUME NEW b \in Block, NEW d \in Block,
         HashMatches(b), HashMatches(d), b.hash = d.hash
  PROVE  b = d
<1>1. /\ b.index = d.index /\ b.time = d.time
      /\ b.bpm = d.bpm /\ b.prev = d.prev
  BY DEF HashMatches, CalculateHash, HashOf
<1> QED BY <1>1, BlockAssumption

LEMMA GenesisProperties ==
  /\ Genesis \in Block
  /\ HashMatches(Genesis)
  /\ Genesis.index = 0
BY BlockAssumption DEF Genesis, NewBlock, HashMatches, CalculateHash, HashOf

\* Every block of a well-formed chain carries its own hash.
LEMMA WellFormedHashes ==
  ASSUME NEW c \in Seq(Block), WellFormed(c), NEW k \in 1 .. Len(c)
  PROVE  c[k] \in Block /\ HashMatches(c[k])
<1>1. CASE k = 1
  BY <1>1, GenesisProperties DEF WellFormed
<1>2. CASE k \in 2 .. Len(c)
  BY <1>2 DEF WellFormed
<1> QED BY <1>1, <1>2

\* The index of a block is its distance from the genesis block.
LEMMA IndexIsPosition ==
  ASSUME NEW c \in Seq(Block), WellFormed(c)
  PROVE  \A k \in 1 .. Len(c) : c[k].index = k - 1
<1> DEFINE Bad == {k \in 1 .. Len(c) : c[k].index # k - 1}
<1>1. SUFFICES ASSUME Bad # {} PROVE FALSE
  OBVIOUS
<1>2. PICK k \in Bad : \A j \in Bad : k <= j
  <2>1. Bad \subseteq Nat
    OBVIOUS
  <2> HIDE DEF Bad
  <2> QED BY <1>1, <2>1, LeastNumber
<1>3. k # 1
  BY GenesisProperties DEF WellFormed
<1>4. k \in 2 .. Len(c) /\ k - 1 \in 1 .. Len(c) /\ k - 1 \notin Bad
  BY <1>2, <1>3
<1>5. c[k - 1].index = k - 2
  BY <1>4
<1>6. c[k].index = c[k - 1].index + 1
  BY <1>4 DEF WellFormed, Follows
<1> QED BY <1>4, <1>5, <1>6

\* processBlockInternal appends only what keeps the chain well formed.
LEMMA AppendWellFormed ==
  ASSUME NEW c \in Seq(Block), WellFormed(c), NEW b \in Block,
         NEW now, Accepts(c, b, now)
  PROVE  WellFormed(Append(c, b))
<1> DEFINE d == Append(c, b)
<1>1. /\ Len(d) = Len(c) + 1
      /\ \A k \in 1 .. Len(c) : d[k] = c[k]
      /\ d[Len(c) + 1] = b
      /\ d # <<>>
  BY AppendProperties
<1>2. Len(c) \in Nat \ {0}
  BY DEF WellFormed
<1>3. d[1] = Genesis
  BY <1>1, <1>2 DEF WellFormed
<1>4. ASSUME NEW k \in 2 .. Len(d)
      PROVE  HashMatches(d[k]) /\ Follows(d[k], d[k - 1]) /\ d[k].bpm >= 0
  <2>1. CASE k \in 2 .. Len(c)
    <3>1. d[k] = c[k] /\ d[k - 1] = c[k - 1]
      BY <1>1, <2>1
    <3> QED BY <2>1, <3>1 DEF WellFormed
  <2>2. CASE k = Len(c) + 1
    <3>1. d[k] = b /\ d[k - 1] = Tip(c)
      BY <1>1, <1>2, <2>2 DEF Tip
    <3> QED BY <3>1 DEF Accepts, ValidAfter
  <2> QED BY <1>1, <2>1, <2>2
<1> HIDE DEF d
<1>5. WellFormed(d)
  BY <1>1, <1>3, <1>4 DEF WellFormed
<1> QED BY <1>5 DEF d

\* ValidateChain accepts only chains back to the genesis block.
LEMMA ValidatedWellFormed ==
  ASSUME NEW c \in Seq(Block), NEW now, ValidateChain(c, now)
  PROVE  WellFormed(c)
<1>1. c # <<>> /\ c[1] \in Block
  BY DEF ValidateChain
<1>2. HashMatches(c[1]) /\ c[1].hash = Genesis.hash
  BY DEF ValidateChain, ValidFirst
<1>3. c[1] = Genesis
  BY <1>1, <1>2, GenesisProperties, HashDeterminesBlock
<1>4. \A k \in 2 .. Len(c) : ValidAfter(c[k], c[k - 1], now)
  BY DEF ValidateChain, ValidLinks
<1> QED BY <1>1, <1>3, <1>4 DEF WellFormed, ValidAfter

\* A hash occurs at one position, the same in every chain, and determines
\* the whole history up to it.
LEMMA HashDeterminesHistory ==
  ASSUME NEW c \in Seq(Block), WellFormed(c),
         NEW d \in Seq(Block), WellFormed(d),
         NEW i \in 1 .. Len(c), NEW j \in 1 .. Len(d),
         c[i].hash = d[j].hash
  PROVE  i = j /\ \A k \in 1 .. i : c[k] = d[k]
<1>1. c[i] = d[j]
  BY WellFormedHashes, HashDeterminesBlock
<1>2. i = j
  BY <1>1, IndexIsPosition
<1> DEFINE Bad == {m \in 0 .. i - 1 : c[i - m] # d[i - m]}
<1>3. ASSUME Bad # {} PROVE FALSE
  <2>1. PICK m \in Bad : \A n \in Bad : m <= n
    <3>1. Bad \subseteq Nat
      OBVIOUS
    <3> HIDE DEF Bad
    <3> QED BY <1>3, <3>1, LeastNumber
  <2>2. m # 0
    BY <1>1, <1>2
  <2>3. m - 1 \in 0 .. i - 1 /\ m - 1 \notin Bad
    <3>1. m \in 1 .. i - 1
      BY <2>2
    <3>2. ~(m <= m - 1)
      BY <3>1
    <3>3. m - 1 \notin Bad
      BY <2>1, <3>2
    <3> QED BY <3>1, <3>3
  <2> DEFINE k == i - m
  <2>4. /\ k \in 1 .. Len(c) /\ k \in 1 .. Len(d)
        /\ k + 1 \in 2 .. Len(c) /\ k + 1 \in 2 .. Len(d)
        /\ k + 1 = i - (m - 1)
    BY <1>2, <2>1, <2>2
  <2>5. c[k + 1] = d[k + 1] /\ c[k] # d[k]
    BY <2>1, <2>3, <2>4
  <2> HIDE DEF k
  <2>6. c[k].hash = c[k + 1].prev /\ d[k].hash = d[k + 1].prev
    BY <2>4 DEF WellFormed, Follows
  <2>7. c[k] = d[k]
    BY <2>4, <2>5, <2>6, WellFormedHashes, HashDeterminesBlock
  <2> QED BY <2>5, <2>7
<1>4. ASSUME NEW k \in 1 .. i PROVE c[k] = d[k]
  <2>1. i - k \in 0 .. i - 1 /\ i - (i - k) = k
    OBVIOUS
  <2> QED BY <1>3, <2>1
<1> QED BY <1>2, <1>4
-----------------------------------------------------------------------------
\* What validates now validates later: only the upper limit on timestamps
\* reads the clock.
LEMMA ValidLater ==
  ASSUME NEW c \in Seq(Block), c # <<>>, NEW now \in Int, NEW later \in Int,
         later >= now, IsValid(c, now)
  PROVE  IsValid(c, later)
<1>1. ASSUME NEW k \in 1 .. Len(c), NotInFuture(c[k], now)
      PROVE  NotInFuture(c[k], later)
  <2>1. c[k] \in Block
    OBVIOUS
  <2>2. c[k].time \in Int /\ MaxTimeDrift \in Int
    BY <2>1, BlockAssumption
  <2> QED BY <1>1, <2>2 DEF NotInFuture
<1>2. 1 \in 1 .. Len(c) /\ 2 .. Len(c) \subseteq 1 .. Len(c)
  OBVIOUS
<1>3. ValidFirst(c[1], later)
  BY <1>1, <1>2 DEF IsValid, ValidFirst
<1>4. ValidLinks(c, later)
  BY <1>1, <1>2 DEF IsValid, ValidLinks, ValidAfter
<1> QED BY <1>3, <1>4 DEF IsValid

\* Appending what processBlockInternal accepts keeps IsValid true.
LEMMA AppendValid ==
  ASSUME NEW c \in Seq(Block), c # <<>>, NEW b \in Block, NEW now,
         IsValid(c, now), Accepts(c, b, now)
  PROVE  IsValid(Append(c, b), now)
<1> DEFINE d == Append(c, b)
<1>1. /\ Len(d) = Len(c) + 1 /\ Len(c) \in Nat \ {0}
      /\ \A k \in 1 .. Len(c) : d[k] = c[k]
      /\ d[Len(c) + 1] = b
  BY AppendProperties
<1> HIDE DEF d
<1>2. ValidFirst(d[1], now)
  BY <1>1 DEF IsValid
<1>3. ASSUME NEW k \in 2 .. Len(d) PROVE ValidAfter(d[k], d[k - 1], now)
  <2>1. CASE k \in 2 .. Len(c)
    <3>1. d[k] = c[k] /\ d[k - 1] = c[k - 1]
      BY <1>1, <2>1
    <3> QED BY <2>1, <3>1 DEF IsValid, ValidLinks
  <2>2. CASE k = Len(c) + 1
    <3>1. d[k] = b /\ d[k - 1] = Tip(c)
      BY <1>1, <2>2 DEF Tip
    <3> QED BY <3>1 DEF Accepts
  <2> QED BY <1>1, <2>1, <2>2
<1>4. IsValid(d, now)
  BY <1>2, <1>3 DEF IsValid, ValidLinks
<1> QED BY <1>4 DEF d
=============================================================================
