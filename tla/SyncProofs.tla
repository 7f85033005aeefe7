----------------------------- MODULE SyncProofs -----------------------------
(***************************************************************************)
(* Proofs about Sync, for any nodes, connections, blocks and bounds.       *)
(***************************************************************************)
EXTENDS Sync, ChainLemmas

-----------------------------------------------------------------------------
(***************************************************************************)
(* What the handlers compute                                               *)
(***************************************************************************)
\* The equation that the loop over an inv solves, up to hash n.
Filters(g, hashes, known, n) ==
  g = [i \in 0 .. n |->
         IF i = 0 THEN <<>>
         ELSE IF hashes[i] \in known THEN g[i - 1]
         ELSE Append(g[i - 1], hashes[i])]

LEMMA FilterExists ==
  ASSUME NEW hashes, NEW known, NEW n \in Nat
  PROVE  \E g : Filters(g, hashes, known, n)
<1> DEFINE Bad == {k \in Nat : ~ \E g : Filters(g, hashes, known, k)}
<1>1. ASSUME Bad # {} PROVE FALSE
  <2>1. PICK k \in Bad : \A j \in Bad : k <= j
    BY <1>1, LeastNumber
  <2>2. k \in Nat
    OBVIOUS
  <2>3. CASE k = 0
    <3>1. Filters([i \in 0 .. 0 |-> <<>>], hashes, known, 0)
      BY DEF Filters
    <3> QED BY <2>1, <2>3, <3>1
  <2>4. CASE k # 0
    <3>1. k - 1 \in Nat /\ k - 1 \notin Bad
      BY <2>1, <2>2, <2>4
    <3>2. PICK g : Filters(g, hashes, known, k - 1)
      BY <3>1
    <3> DEFINE last == IF hashes[k] \in known THEN g[k - 1]
                       ELSE Append(g[k - 1], hashes[k])
               f == [i \in 0 .. k |-> IF i = k THEN last ELSE g[i]]
    <3>3. \A i \in 0 .. k - 1 :
            g[i] = IF i = 0 THEN <<>>
                   ELSE IF hashes[i] \in known THEN g[i - 1]
                   ELSE Append(g[i - 1], hashes[i])
      BY <3>2 DEF Filters
    <3> HIDE DEF last
    <3>4. \A i \in 0 .. k - 1 : f[i] = g[i]
      BY <2>2
    <3>5. f[k] = last
      BY <2>2
    <3>6. \A i \in 0 .. k :
            f[i] = IF i = 0 THEN <<>>
                   ELSE IF hashes[i] \in known THEN f[i - 1]
                   ELSE Append(f[i - 1], hashes[i])
      <4> TAKE i \in 0 .. k
      <4> HIDE DEF f
      <4>1. CASE i = k
        BY <2>2, <2>4, <3>4, <3>5, <4>1 DEF last
      <4>2. CASE i # k
        BY <2>2, <3>3, <3>4, <4>2
      <4> QED BY <4>1, <4>2
    <3>7. Filters(f, hashes, known, k)
      BY <3>6 DEF Filters
    <3> QED BY <2>1, <3>7
  <2> QED BY <2>3, <2>4
<1> QED BY <1>1

\* A getdata asks for hashes of the inv it answers, and for none that is
\* known.
LEMMA MissingTyped ==
  ASSUME NEW S, NEW hashes \in Seq(S), NEW known
  PROVE  Missing(hashes, known) \in Seq(Elements(hashes) \ known)
<1> DEFINE T == Elements(hashes) \ known
           g == CHOOSE g : Filters(g, hashes, known, Len(hashes))
           Bad == {i \in 0 .. Len(hashes) : g[i] \notin Seq(T)}
<1>1. Len(hashes) \in Nat
  BY LenProperties
<1>2. Filters(g, hashes, known, Len(hashes))
  BY <1>1, FilterExists
<1>3. Missing(hashes, known) = g[Len(hashes)]
  BY Zenon DEF Missing, Filters
<1> HIDE DEF g
<1>4. ASSUME Bad # {} PROVE FALSE
  <2>1. Bad \subseteq Nat
    OBVIOUS
  <2>2. PICK k \in Bad : \A j \in Bad : k <= j
    BY <1>4, <2>1, LeastNumber
  <2>3. CASE k = 0
    <3>1. g[0] = <<>>
      BY <1>1, <1>2 DEF Filters
    <3>2. <<>> \in Seq(T)
      OBVIOUS
    <3> HIDE DEF T
    <3> QED BY <2>2, <2>3, <3>1, <3>2
  <2>4. CASE k # 0
    <3>0. k \in 1 .. Len(hashes)
      BY <1>1, <2>2, <2>4
    <3>1. g[k] = IF hashes[k] \in known THEN g[k - 1]
                 ELSE Append(g[k - 1], hashes[k])
      <4>1. \A i \in 0 .. Len(hashes) :
              g[i] = IF i = 0 THEN <<>>
                     ELSE IF hashes[i] \in known THEN g[i - 1]
                     ELSE Append(g[i - 1], hashes[i])
        BY <1>2 DEF Filters
      <4> QED BY <1>1, <3>0, <4>1
    <3>2. g[k - 1] \in Seq(T)
      BY <1>1, <2>2, <3>0
    <3>3. CASE hashes[k] \in known
      BY <2>2, <3>1, <3>2, <3>3
    <3>4. CASE hashes[k] \notin known
      <4>1. hashes[k] \in T
        BY <3>0, <3>4 DEF Elements
      <4> HIDE DEF T
      <4>2. Append(g[k - 1], hashes[k]) \in Seq(T)
        BY <3>2, <4>1, AppendProperties
      <4> QED BY <2>2, <3>1, <3>4, <4>2
    <3> QED BY <3>3, <3>4
  <2> QED BY <2>3, <2>4
<1> QED BY <1>1, <1>3, <1>4

\* The least of a set of positions is one of them.
LEMMA MinIsLeast ==
  ASSUME NEW S, S \subseteq Nat, S # {}
  PROVE  Min(S) \in S /\ \A x \in S : Min(S) <= x
<1>1. \E x \in S : \A y \in S : x <= y
  BY LeastNumber
<1> QED BY <1>1 DEF Min

\* GetBlockByHash does not return nil for a hash that is on the chain.
LEMMA GetBlockByHashTyped ==
  ASSUME NEW c \in Seq(Block), NEW hash, Positions(c, hash) # {}
  PROVE  /\ GetBlockByHash(c, hash) \in Block
         /\ GetBlockByHash(c, hash).hash = hash
         /\ \E k \in 1 .. Len(c) : c[k] = GetBlockByHash(c, hash)
<1>1. Positions(c, hash) \subseteq 1 .. Len(c) /\ Len(c) \in Nat
  BY DEF Positions
<1>2. Min(Positions(c, hash)) \in Positions(c, hash)
  BY <1>1, MinIsLeast
<1>3. Min(Positions(c, hash)) \in 1 .. Len(c)
  BY <1>1, <1>2
<1>4. c[Min(Positions(c, hash))].hash = hash
  BY <1>2 DEF Positions
<1> QED BY <1>3, <1>4 DEF GetBlockByHash

\* GetBlocksAfter returns blocks of the chain.
LEMMA GetBlocksAfterTyped ==
  ASSUME NEW c \in Seq(Block), NEW hash, NEW limit \in Nat
  PROVE  /\ GetBlocksAfter(c, hash, limit) \in Seq(Block)
         /\ \A i \in 1 .. Len(GetBlocksAfter(c, hash, limit)) :
              \E k \in 1 .. Len(c) : GetBlocksAfter(c, hash, limit)[i] = c[k]
<1> DEFINE known == Positions(c, hash)
           first == IF hash = EmptyHash \/ known = {} THEN 1
                    ELSE Min(known) + 1
           last == Min({Len(c), first + limit - 1})
<1>1. known \subseteq 1 .. Len(c) /\ Len(c) \in Nat
  BY DEF Positions
<1>2. first \in 1 .. Len(c) + 1
  <2>1. CASE hash = EmptyHash \/ known = {}
    BY <1>1, <2>1
  <2>2. CASE ~(hash = EmptyHash \/ known = {})
    <3>1. Min(known) \in known
      BY <1>1, <2>2, MinIsLeast
    <3>2. Min(known) \in 1 .. Len(c)
      <4> HIDE DEF known
      <4> QED BY <1>1, <3>1
    <3>3. first = Min(known) + 1
      BY <2>2
    <3> HIDE DEF known, first
    <3> QED BY <1>1, <3>2, <3>3
  <2> QED BY <2>1, <2>2
<1>3. GetBlocksAfter(c, hash, limit) = SubSeq(c, first, last)
  BY DEF GetBlocksAfter
<1> HIDE DEF first
<1>4. last \in Nat /\ last <= Len(c)
  <2>1. {Len(c), first + limit - 1} \subseteq Nat
    BY <1>1, <1>2
  <2>2. /\ last \in {Len(c), first + limit - 1}
        /\ \A x \in {Len(c), first + limit - 1} : last <= x
    BY <2>1, MinIsLeast
  <2> QED BY <2>1, <2>2
<1> HIDE DEF last
<1>5. \A i \in first .. last : i \in 1 .. Len(c) /\ c[i] \in Block
  BY <1>1, <1>2, <1>4
<1>6. /\ SubSeq(c, first, last) \in Seq(Block)
      /\ Len(SubSeq(c, first, last)) =
           IF first <= last THEN last - first + 1 ELSE 0
      /\ \A i \in 1 .. last - first + 1 :
           SubSeq(c, first, last)[i] = c[first + i - 1]
  BY <1>2, <1>4, <1>5, SubSeqProperties
<1>7. \A i \in 1 .. Len(SubSeq(c, first, last)) :
        /\ first + i - 1 \in 1 .. Len(c)
        /\ SubSeq(c, first, last)[i] = c[first + i - 1]
  BY <1>1, <1>2, <1>4, <1>6
<1> QED BY <1>3, <1>6, <1>7

\* What is announced has a hash, and each is the hash of one of the blocks.
LEMMA HashesTyped ==
  ASSUME NEW blocks \in Seq(Block)
  PROVE  /\ Hashes(blocks) \in Seq(Hash)
         /\ \A h \in Elements(Hashes(blocks)) :
              \E i \in 1 .. Len(blocks) : h = blocks[i].hash
<1>1. \A i \in 1 .. Len(blocks) : blocks[i].hash \in Hash
  BY BlockAssumption
<1>2. Len(blocks) \in Nat
  OBVIOUS
<1>3. /\ Hashes(blocks) \in Seq(Hash)
      /\ Len(Hashes(blocks)) = Len(blocks)
      /\ \A i \in 1 .. Len(blocks) : Hashes(blocks)[i] = blocks[i].hash
  BY <1>1, <1>2 DEF Hashes
<1> QED BY <1>3 DEF Elements
-----------------------------------------------------------------------------
(***************************************************************************)
(* Types                                                                   *)
(***************************************************************************)
LEMMA LinkEnds ==
  ASSUME NEW l \in Link
  PROVE  /\ l = <<l[1], l[2]>> /\ <<l[2], l[1]>> \in Link
         /\ l[1] \in Node /\ l[2] \in Node
BY SyncAssumption

\* What the code puts into a message is what its type asks for.
LEMMA MessagesTyped ==
  /\ \A height \in Nat : Version(height) \in Message
  /\ VerAck \in Message /\ GetPeers \in Message /\ Peers \in Message
  /\ \A start \in Hash \union {EmptyHash} : GetBlocks(start) \in Message
  /\ \A hashes \in Seq(Hash) :
       Inv(hashes) \in Message /\ GetData(hashes) \in Message
  /\ \A b \in Block : BlockMsg(b) \in Message
  /\ \A hash \in Hash : FindBlock(hash) \in Message
  /\ \A found \in SUBSET Block : BlockFound(found) \in Message
BY DEF Message, Version, VerAck, GetPeers, Peers, GetBlocks, Inv, GetData,
       BlockMsg, FindBlock, BlockFound

\* What a handler takes from a message has its type.
LEMMA MessageFields ==
  ASSUME NEW m \in Message
  PROVE  /\ m.type = "version" => m.height \in Nat
         /\ m.type = "getblocks" => m.start \in Hash \union {EmptyHash}
         /\ m.type \in {"inv", "getdata"} => m.hashes \in Seq(Hash)
         /\ m.type = "block" => m.block \in Block
         /\ m.type = "findblock" => m.hash \in Hash
         /\ m.type = "blockfound" => m.found \in SUBSET Block
BY DEF Message

LEMMA ReaderFields ==
  ASSUME NEW r \in Reader
  PROVE  /\ r.at \in {"checked", "decided"} => r.block \in Block
         /\ r.at = "locating" => r.start \in Hash \union {EmptyHash}
         /\ r.at \in {"announcing", "requesting", "serving"} =>
              r.hashes \in Seq(Hash)
BY DEF Reader

LEMMA ReadersTyped ==
  /\ Idle \in Reader /\ Gone \in Reader
  /\ \A what \in {"asking blocks", "asking peers"} : Asking(what) \in Reader
  /\ \A at \in {"checked", "decided"}, b \in Block : Holding(at, b) \in Reader
  /\ \A start \in Hash \union {EmptyHash} : Locating(start) \in Reader
  /\ \A at \in {"announcing", "requesting", "serving"}, hashes \in Seq(Hash) :
       Sending(at, hashes) \in Reader
BY DEF Idle, Gone, Asking, Locating, Holding, Sending, Reader

Written == [Link -> Seq(Message)]

LEMMA WriteTyped ==
  ASSUME NEW s \in Written, NEW l \in Link, NEW m \in Message
  PROVE  [s EXCEPT ![l] = Append(@, m)] \in Written
<1>1. s[l] \in Seq(Message)
  BY DEF Written
<1>2. Append(s[l], m) \in Seq(Message)
  BY <1>1, AppendProperties
<1> QED BY <1>2 DEF Written

LEMMA ToAllTyped ==
  ASSUME NEW s \in Written, NEW n, NEW m \in Message
  PROVE  ToAll(s, n, m) \in Written
<1>1. \A l \in Link : s[l] \in Seq(Message) /\ Append(s[l], m) \in Seq(Message)
  <2> TAKE l \in Link
  <2>1. s[l] \in Seq(Message)
    BY DEF Written
  <2> QED BY <2>1, AppendProperties
<1> QED BY <1>1 DEF ToAll, Written

\* What is left of a sequence after its first elements.
LEMMA RestOfSeq ==
  ASSUME NEW S, NEW s \in Seq(S), NEW k \in Nat, k < Len(s)
  PROVE  /\ SubSeq(s, k + 2, Len(s)) \in Seq(S)
         /\ Len(SubSeq(s, k + 2, Len(s))) = Len(s) - k - 1
         /\ \A i \in 1 .. Len(s) - k - 1 :
              SubSeq(s, k + 2, Len(s))[i] = s[i + k + 1]
<1>1. Len(s) \in Nat /\ \A i \in 1 .. Len(s) : s[i] \in S
  BY LenProperties
<1>2. \A i \in k + 2 .. Len(s) : s[i] \in S
  BY <1>1
<1>3. /\ SubSeq(s, k + 2, Len(s)) \in Seq(S)
      /\ Len(SubSeq(s, k + 2, Len(s))) =
           IF k + 2 <= Len(s) THEN Len(s) - (k + 2) + 1 ELSE 0
      /\ \A i \in 1 .. Len(s) - (k + 2) + 1 :
           SubSeq(s, k + 2, Len(s))[i] = s[k + 2 + i - 1]
  BY <1>1, <1>2, SubSeqProperties
<1> QED BY <1>1, <1>3

\* The message a handler gets, and the streams when it took it.
LEMMA ArrivedTyped ==
  ASSUME TypeOK, NEW n, NEW p, <<n, p>> \in Link, NEW type,
         Arrived(n, p, type)
  PROVE  /\ Received(n, p) \in Message /\ Received(n, p).type = type
         /\ \A lost \in Lost(n, p) : Consumed(n, p, lost) \in Written
<1>1. <<p, n>> \in Link
  BY LinkEnds
<1>2. stream \in Written /\ stream[<<p, n>>] \in Seq(Message)
  BY <1>1 DEF TypeOK, Written
<1>3. stream[<<p, n>>] # <<>>
  BY DEF Arrived
<1>4. Head(stream[<<p, n>>]) \in Message
  BY <1>2, <1>3, HeadTailProperties
<1>5. ASSUME NEW lost \in Lost(n, p) PROVE Consumed(n, p, lost) \in Written
  <2>1. SubSeq(stream[<<p, n>>], lost + 2, Len(stream[<<p, n>>]))
          \in Seq(Message)
    BY <1>2, <1>5, RestOfSeq DEF Lost
  <2> QED BY <1>1, <1>2, <2>1 DEF Consumed, Written
<1> QED BY <1>4, <1>5 DEF Arrived, Received

LEMMA AnswerTyped ==
  ASSUME TypeOK, NEW n, NEW p, <<n, p>> \in Link, NEW type,
         Arrived(n, p, type),
         NEW replies \in Seq(Message), Answer(n, p, replies)
  PROVE  stream' \in [Link -> Seq(Message)]
<1>1. PICK lost \in Lost(n, p) :
        stream' = [Consumed(n, p, lost) EXCEPT ![<<n, p>>] = @ \o replies]
  BY DEF Answer
<1>2. Consumed(n, p, lost) \in Written
  BY ArrivedTyped
<1>3. Consumed(n, p, lost)[<<n, p>>] \in Seq(Message)
  BY <1>2 DEF Written
<1>4. Consumed(n, p, lost)[<<n, p>>] \o replies \in Seq(Message)
  BY <1>3, ConcatProperties
<1> QED BY <1>1, <1>2, <1>4 DEF Written

LEMMA BecomeTyped ==
  ASSUME TypeOK, NEW n, NEW p, <<n, p>> \in Link,
         NEW state \in Reader, Become(n, p, state)
  PROVE  reader' \in [Link -> Reader]
BY DEF TypeOK, Become

\* The invariant of the chains: see Chain.
ChainsWellFormed == \A n \in Node : WellFormed(chain[n])

LEMMA TipTyped ==
  ASSUME TypeOK, ChainsWellFormed, NEW n \in Node
  PROVE  /\ chain[n] \in Seq(Block) /\ Len(chain[n]) \in Nat \ {0}
         /\ Tip(chain[n]) \in Block /\ Tip(chain[n]).hash \in Hash
<1>1. chain[n] \in Seq(Block) /\ chain[n] # <<>>
  BY DEF TypeOK, ChainsWellFormed, WellFormed
<1>2. Len(chain[n]) \in Nat \ {0}
  BY <1>1, EmptySeq
<1>3. Tip(chain[n]) \in Block
  BY <1>1, <1>2 DEF Tip
<1> QED BY <1>1, <1>2, <1>3, BlockAssumption

\* ProcessBlock keeps the chains well formed, whatever it is given.
LEMMA ProcessKeeps ==
  ASSUME TypeOK, ChainsWellFormed, NEW n \in Node, NEW b \in Block, NEW now,
         NEW s \in Written, Process(n, b, now, s)
  PROVE  /\ chain' \in [Node -> Seq(Block)]
         /\ processed' \in [Node -> SUBSET Hash]
         /\ stream' \in [Link -> Seq(Message)]
         /\ ChainsWellFormed'
<1>1. chain[n] \in Seq(Block) /\ b.hash \in Hash
  BY TipTyped, BlockAssumption
<1>2. Relay(s, n, b) \in Written
  BY ToAllTyped, MessagesTyped DEF Relay
<1>3. ASSUME Accepts(chain[n], b, now),
             chain' = [chain EXCEPT ![n] = Append(@, b)],
             processed' = [processed EXCEPT ![n] = @ \union {b.hash}],
             stream' = Relay(s, n, b)
      PROVE  /\ chain' \in [Node -> Seq(Block)]
             /\ processed' \in [Node -> SUBSET Hash]
             /\ stream' \in [Link -> Seq(Message)]
             /\ ChainsWellFormed'
  <2>1. WellFormed(Append(chain[n], b))
    BY <1>1, <1>3, AppendWellFormed DEF ChainsWellFormed
  <2>2. /\ chain'[n] = Append(chain[n], b)
        /\ \A m \in Node \ {n} : chain'[m] = chain[m]
    BY <1>3 DEF TypeOK
  <2>3. Append(chain[n], b) \in Seq(Block)
    BY <1>1, AppendProperties
  <2>4. chain' \in [Node -> Seq(Block)]
    BY <1>3, <2>3 DEF TypeOK
  <2>5. processed' \in [Node -> SUBSET Hash]
    BY <1>1, <1>3 DEF TypeOK
  <2>6. ChainsWellFormed'
    BY <2>1, <2>2 DEF ChainsWellFormed
  <2> QED BY <1>2, <1>3, <2>4, <2>5, <2>6 DEF Written
<1>4. CASE stream' = s /\ UNCHANGED <<chain, processed>>
  BY <1>4 DEF TypeOK, ChainsWellFormed, Written
<1> QED BY <1>3, <1>4 DEF Process
-----------------------------------------------------------------------------
(***************************************************************************)
(* Every step keeps the types and the chains                               *)
(***************************************************************************)
SyncInv == TypeOK /\ ChainsWellFormed

LEMMA ChainsKept ==
  ASSUME ChainsWellFormed, chain' = chain
  PROVE  ChainsWellFormed'
BY DEF ChainsWellFormed

\* handleStream
LEMMA HandshakeKeeps ==
  ASSUME SyncInv, NEW n, NEW p, <<n, p>> \in Link,
         HandleStream(n, p) \/ ReadHeight(n, p) \/ SendVersion(n, p)
  PROVE  SyncInv'
<1>1. n \in Node
  BY LinkEnds
<1>2. CASE HandleStream(n, p)
  BY <1>2, ChainsKept DEF HandleStream, SyncInv, TypeOK, Session, Registered
<1>3. CASE ReadHeight(n, p)
  <2>1. Versioning(Len(chain[n])) \in Session
    BY <1>1, TipTyped DEF SyncInv, Versioning, Session
  <2> QED BY <1>3, <2>1, ChainsKept DEF ReadHeight, SyncInv, TypeOK
<1>4. CASE SendVersion(n, p)
  <2>1. session[<<n, p>>] \in Session
    BY DEF SyncInv, TypeOK
  <2>2. session[<<n, p>>].height \in Nat
    BY <1>4, <2>1
       DEF SendVersion, Session, None, Registered, Greeted
  <2>3. Version(session[<<n, p>>].height) \in Message
    BY <2>2, MessagesTyped
  <2>4. stream' \in Written
    BY <1>4, <2>3, WriteTyped DEF SendVersion, SyncInv, TypeOK, Written
  <2>5. session' \in [Link -> Session]
    BY <1>4 DEF SendVersion, SyncInv, TypeOK, Session
  <2> QED
    BY <1>4, <2>4, <2>5, ChainsKept DEF SendVersion, SyncInv, TypeOK, Written
<1> QED BY <1>2, <1>3, <1>4

\* MsgVersion, MsgVerAck, MsgGetPeers, MsgPeers
LEMMA GreetingsKeep ==
  ASSUME SyncInv, NEW n, NEW p, <<n, p>> \in Link,
         \/ HandleVersion(n, p) \/ HandleVerAck(n, p)
         \/ ReadTip(n, p) \/ SendGetBlocks(n, p) \/ SendGetPeers(n, p)
         \/ HandleGetPeers(n, p) \/ HandlePeers(n, p)
  PROVE  SyncInv'
<1>1. n \in Node
  BY LinkEnds
<1>2. CASE HandleVersion(n, p)
  <2>1. Received(n, p).height \in Nat
    BY <1>2, ArrivedTyped, MessageFields DEF HandleVersion, SyncInv
  <2>2. <<VerAck>> \in Seq(Message)
    BY MessagesTyped
  <2>3. stream' \in [Link -> Seq(Message)]
    BY <1>2, <2>2, AnswerTyped DEF HandleVersion, SyncInv
  <2> QED BY <1>2, <2>1, <2>3, ChainsKept DEF HandleVersion, SyncInv, TypeOK
<1>3. CASE HandleVerAck(n, p)
  <2>1. stream' \in [Link -> Seq(Message)]
    BY <1>3, EmptySeq, AnswerTyped DEF HandleVerAck, SyncInv
  <2>2. reader' \in [Link -> Reader]
    BY <1>3, ReadersTyped, BecomeTyped DEF HandleVerAck, SyncInv
  <2> QED BY <1>3, <2>1, <2>2, ChainsKept DEF HandleVerAck, SyncInv, TypeOK
<1>4. CASE SendGetBlocks(n, p)
  <2>1. GetBlocks(reader[<<n, p>>].start) \in Message
    <3>1. reader[<<n, p>>] \in Reader
      BY DEF SyncInv, TypeOK
    <3> QED BY <1>4, <3>1, ReaderFields, MessagesTyped DEF SendGetBlocks
  <2>2. stream' \in Written
    BY <1>4, <2>1, WriteTyped DEF SendGetBlocks, SyncInv, TypeOK, Written
  <2>3. reader' \in [Link -> Reader]
    BY <1>4, ReadersTyped, BecomeTyped DEF SendGetBlocks, SyncInv
  <2> QED BY <1>4, <2>2, <2>3, ChainsKept
             DEF SendGetBlocks, SyncInv, TypeOK, Written
<1>5. CASE SendGetPeers(n, p)
  <2>1. stream' \in Written
    BY <1>5, MessagesTyped, WriteTyped
       DEF SendGetPeers, SyncInv, TypeOK, Written
  <2>2. reader' \in [Link -> Reader]
    BY <1>5, ReadersTyped, BecomeTyped DEF SendGetPeers, SyncInv
  <2> QED BY <1>5, <2>1, <2>2, ChainsKept
             DEF SendGetPeers, SyncInv, TypeOK, Written
<1>6. CASE HandleGetPeers(n, p)
  <2>1. <<Peers>> \in Seq(Message)
    BY MessagesTyped
  <2>2. stream' \in [Link -> Seq(Message)]
    BY <1>6, <2>1, AnswerTyped DEF HandleGetPeers, SyncInv
  <2> QED BY <1>6, <2>2, ChainsKept DEF HandleGetPeers, SyncInv, TypeOK
<1>7. CASE HandlePeers(n, p)
  <2>1. stream' \in [Link -> Seq(Message)]
    BY <1>7, EmptySeq, AnswerTyped DEF HandlePeers, SyncInv
  <2> QED BY <1>7, <2>1, ChainsKept DEF HandlePeers, SyncInv, TypeOK
<1>8. CASE ReadTip(n, p)
  <2>1. Locating(Tip(chain[n]).hash) \in Reader
    BY <1>1, TipTyped, ReadersTyped DEF SyncInv
  <2>2. reader' \in [Link -> Reader]
    BY <1>8, <2>1, BecomeTyped DEF ReadTip, SyncInv
  <2> QED BY <1>8, <2>2, ChainsKept DEF ReadTip, SyncInv, TypeOK
<1> QED BY <1>2, <1>3, <1>4, <1>5, <1>6, <1>7, <1>8

\* MsgBlock, MsgBlockFound
LEMMA BlocksKeep ==
  ASSUME SyncInv, NEW n, NEW p, <<n, p>> \in Link,
         \/ CheckBlock(n, p) \/ ProcessReceived(n, p) \/ MarkProcessed(n, p)
         \/ HandleBlockFound(n, p)
  PROVE  SyncInv'
<1>1. n \in Node /\ reader[<<n, p>>] \in Reader
  BY LinkEnds DEF SyncInv, TypeOK
<1>2. CASE CheckBlock(n, p)
  <2>1. Received(n, p).block \in Block
    BY <1>2, ArrivedTyped, MessageFields DEF CheckBlock, SyncInv
  <2>2. reader' \in [Link -> Reader]
    BY <1>2, <2>1, ReadersTyped, BecomeTyped DEF CheckBlock, SyncInv
  <2>3. stream' \in [Link -> Seq(Message)]
    BY <1>2, EmptySeq, AnswerTyped DEF CheckBlock, SyncInv
  <2> QED BY <1>2, <2>2, <2>3, ChainsKept DEF CheckBlock, SyncInv, TypeOK
<1>3. CASE ProcessReceived(n, p)
  <2>1. reader[<<n, p>>].block \in Block
    BY <1>1, <1>3, ReaderFields DEF ProcessReceived
  <2>2. reader' \in [Link -> Reader]
    BY <1>3, <2>1, ReadersTyped, BecomeTyped DEF ProcessReceived, SyncInv
  <2>3. PICK now \in Clock[n] :
          Process(n, reader[<<n, p>>].block, now, stream)
    BY <1>3 DEF ProcessReceived
  <2>4. /\ chain' \in [Node -> Seq(Block)]
        /\ processed' \in [Node -> SUBSET Hash]
        /\ stream' \in [Link -> Seq(Message)]
        /\ ChainsWellFormed'
    BY <1>1, <2>1, <2>3, ProcessKeeps DEF SyncInv, TypeOK, Written
  <2> QED BY <1>3, <2>2, <2>4 DEF ProcessReceived, SyncInv, TypeOK
<1>4. CASE MarkProcessed(n, p)
  <2>1. reader[<<n, p>>].block.hash \in Hash
    BY <1>1, <1>4, ReaderFields, BlockAssumption DEF MarkProcessed
  <2>2. processed' \in [Node -> SUBSET Hash]
    BY <1>4, <2>1 DEF MarkProcessed, SyncInv, TypeOK
  <2>3. reader' \in [Link -> Reader]
    BY <1>4, ReadersTyped, BecomeTyped DEF MarkProcessed, SyncInv
  <2> QED BY <1>4, <2>2, <2>3, ChainsKept DEF MarkProcessed, SyncInv, TypeOK
<1>5. CASE HandleBlockFound(n, p)
  <2>1. /\ Received(n, p).found \in SUBSET Block
        /\ \A lost \in Lost(n, p) : Consumed(n, p, lost) \in Written
    BY <1>5, ArrivedTyped, MessageFields DEF HandleBlockFound, SyncInv
  <2>2. ASSUME NEW b \in Received(n, p).found, NEW now, NEW lost \in Lost(n, p),
               Process(n, b, now, Consumed(n, p, lost))
        PROVE  SyncInv'
    <3>1. /\ chain' \in [Node -> Seq(Block)]
          /\ processed' \in [Node -> SUBSET Hash]
          /\ stream' \in [Link -> Seq(Message)]
          /\ ChainsWellFormed'
      BY <1>1, <2>1, <2>2, ProcessKeeps DEF SyncInv
    <3> QED BY <1>5, <3>1 DEF HandleBlockFound, SyncInv, TypeOK
  <2>3. CASE Answer(n, p, <<>>) /\ UNCHANGED <<chain, processed>>
    <3>1. stream' \in [Link -> Seq(Message)]
      BY <1>5, <2>3, EmptySeq, AnswerTyped DEF HandleBlockFound, SyncInv
    <3> QED
      BY <1>5, <2>3, <3>1, ChainsKept DEF HandleBlockFound, SyncInv, TypeOK
  <2> QED BY <1>5, <2>2, <2>3 DEF HandleBlockFound
<1> QED BY <1>2, <1>3, <1>4, <1>5

\* The end of readMessages
LEMMA GiveUpKeeps ==
  ASSUME SyncInv, NEW n, NEW p, <<n, p>> \in Link, GiveUp(n, p)
  PROVE  SyncInv'
<1>1. reader' \in [Link -> Reader]
  BY ReadersTyped, BecomeTyped DEF GiveUp, SyncInv
<1> QED BY <1>1, ChainsKept DEF GiveUp, SyncInv, TypeOK

\* Requests and their answers
LEMMA RequestsKeep ==
  ASSUME SyncInv, NEW n, NEW p, <<n, p>> \in Link,
         \/ HandleGetBlocks(n, p) \/ SendInv(n, p)
         \/ HandleInv(n, p) \/ SendGetData(n, p)
         \/ HandleGetData(n, p) \/ ServeBlock(n, p) \/ HandleFindBlock(n, p)
  PROVE  SyncInv'
<1>1. /\ n \in Node /\ chain[n] \in Seq(Block)
      /\ reader[<<n, p>>] \in Reader
  BY LinkEnds DEF SyncInv, TypeOK
<1>2. CASE HandleGetBlocks(n, p)
  <2> DEFINE blocks == GetBlocksAfter(chain[n], Received(n, p).start, Limit)
             state == IF blocks = <<>> THEN Idle
                      ELSE Sending("announcing", Hashes(blocks))
  <2>1. Hashes(blocks) \in Seq(Hash)
    BY <1>1, GetBlocksAfterTyped, HashesTyped, SyncAssumption
  <2>2. state \in Reader
    BY <2>1, ReadersTyped
  <2>3. reader' \in [Link -> Reader]
    BY <1>2, <2>2, BecomeTyped DEF HandleGetBlocks, SyncInv
  <2>4. stream' \in [Link -> Seq(Message)]
    BY <1>2, EmptySeq, AnswerTyped DEF HandleGetBlocks, SyncInv
  <2> QED BY <1>2, <2>3, <2>4, ChainsKept DEF HandleGetBlocks, SyncInv, TypeOK
<1>3. CASE SendInv(n, p)
  <2>1. Inv(reader[<<n, p>>].hashes) \in Message
    BY <1>1, <1>3, ReaderFields, MessagesTyped DEF SendInv
  <2>2. stream' \in Written
    BY <1>3, <2>1, WriteTyped DEF SendInv, SyncInv, TypeOK, Written
  <2>3. reader' \in [Link -> Reader]
    BY <1>3, ReadersTyped, BecomeTyped DEF SendInv, SyncInv
  <2> QED
    BY <1>3, <2>2, <2>3, ChainsKept DEF SendInv, SyncInv, TypeOK, Written
<1>4. CASE HandleInv(n, p)
  <2> DEFINE missing == Missing(Received(n, p).hashes, processed[n])
             state == IF missing = <<>> THEN Idle
                      ELSE Sending("requesting", missing)
  <2>1. Received(n, p).hashes \in Seq(Hash)
    BY <1>4, ArrivedTyped, MessageFields DEF HandleInv, SyncInv
  <2>2. missing \in Seq(Hash)
    <3>1. missing \in Seq(Elements(Received(n, p).hashes) \ processed[n])
      BY <2>1, MissingTyped
    <3>2. Elements(Received(n, p).hashes) \subseteq Hash
      BY <2>1 DEF Elements
    <3> QED BY <3>1, <3>2, SeqMonotonic
  <2>3. state \in Reader
    BY <2>2, ReadersTyped
  <2>4. reader' \in [Link -> Reader]
    BY <1>4, <2>3, BecomeTyped DEF HandleInv, SyncInv
  <2>5. stream' \in [Link -> Seq(Message)]
    BY <1>4, EmptySeq, AnswerTyped DEF HandleInv, SyncInv
  <2> QED BY <1>4, <2>4, <2>5, ChainsKept DEF HandleInv, SyncInv, TypeOK
<1>5. CASE HandleGetData(n, p)
  <2>1. Received(n, p).hashes \in Seq(Hash)
    BY <1>5, ArrivedTyped, MessageFields DEF HandleGetData, SyncInv
  <2>2. reader' \in [Link -> Reader]
    BY <1>5, <2>1, ReadersTyped, BecomeTyped DEF HandleGetData, SyncInv
  <2>3. stream' \in [Link -> Seq(Message)]
    BY <1>5, EmptySeq, AnswerTyped DEF HandleGetData, SyncInv
  <2> QED BY <1>5, <2>2, <2>3, ChainsKept DEF HandleGetData, SyncInv, TypeOK
<1>6. CASE ServeBlock(n, p)
  <2> DEFINE todo == reader[<<n, p>>].hashes
  <2>1. todo \in Seq(Hash)
    BY <1>1, <1>6, ReaderFields DEF ServeBlock
  <2>2. CASE /\ todo # <<>>
             /\ stream' = IF OnChain(n, Head(todo))
                  THEN [stream EXCEPT ![<<n, p>>] = Append(@,
                          BlockMsg(GetBlockByHash(chain[n], Head(todo))))]
                  ELSE stream
             /\ Become(n, p, Sending("serving", Tail(todo)))
    <3>1. Tail(todo) \in Seq(Hash)
      BY <2>1, <2>2, HeadTailProperties
    <3>2. reader' \in [Link -> Reader]
      BY <2>2, <3>1, ReadersTyped, BecomeTyped DEF SyncInv
    <3>3. CASE OnChain(n, Head(todo))
      <4>1. BlockMsg(GetBlockByHash(chain[n], Head(todo))) \in Message
        BY <1>1, <3>3, GetBlockByHashTyped, MessagesTyped DEF OnChain
      <4>2. stream' \in Written
        BY <2>2, <3>3, <4>1, WriteTyped DEF SyncInv, TypeOK, Written
      <4> QED BY <1>6, <3>2, <4>2, ChainsKept
                 DEF ServeBlock, SyncInv, TypeOK, Written
    <3>4. CASE ~OnChain(n, Head(todo))
      BY <1>6, <2>2, <3>2, <3>4, ChainsKept DEF ServeBlock, SyncInv, TypeOK
    <3> QED BY <3>3, <3>4
  <2>3. CASE Become(n, p, Idle) /\ UNCHANGED stream
    <3>1. reader' \in [Link -> Reader]
      BY <2>3, ReadersTyped, BecomeTyped DEF SyncInv
    <3> QED BY <1>6, <2>3, <3>1, ChainsKept DEF ServeBlock, SyncInv, TypeOK
  <2> QED BY <1>6, <2>2, <2>3 DEF ServeBlock
<1>7. CASE HandleFindBlock(n, p)
  <2> DEFINE hash == Received(n, p).hash
             found == IF OnChain(n, hash)
                      THEN {GetBlockByHash(chain[n], hash)} ELSE {}
  <2>1. found \in SUBSET Block
    BY <1>1, GetBlockByHashTyped DEF OnChain
  <2>2. <<BlockFound(found)>> \in Seq(Message)
    BY <2>1, MessagesTyped
  <2>3. Answer(n, p, <<BlockFound(found)>>)
    BY <1>7 DEF HandleFindBlock
  <2>4. stream' \in [Link -> Seq(Message)]
    <3> HIDE DEF found
    <3> QED BY <1>7, <2>2, <2>3, AnswerTyped DEF HandleFindBlock, SyncInv
  <2> QED BY <1>7, <2>4, ChainsKept DEF HandleFindBlock, SyncInv, TypeOK
<1>8. CASE SendGetData(n, p)
  <2>1. GetData(reader[<<n, p>>].hashes) \in Message
    BY <1>1, <1>8, ReaderFields, MessagesTyped DEF SendGetData
  <2>2. stream' \in Written
    BY <1>8, <2>1, WriteTyped DEF SendGetData, SyncInv, TypeOK, Written
  <2>3. reader' \in [Link -> Reader]
    BY <1>8, ReadersTyped, BecomeTyped DEF SendGetData, SyncInv
  <2> QED
    BY <1>8, <2>2, <2>3, ChainsKept DEF SendGetData, SyncInv, TypeOK, Written
<1> QED BY <1>2, <1>3, <1>4, <1>5, <1>6, <1>7, <1>8

\* The user, the ticker of syncTask, the cleanup loop
LEMMA NodeKeeps ==
  ASSUME SyncInv, NEW n \in Node,
         \/ \E bpm \in Bpm : AddBlock(n, bpm)
         \/ SyncCommand(n) \/ DiscoverPeers(n) \/ SyncTask(n)
         \/ \E hash \in Hash :
              FindCommand(n, hash) \/ CleanupProcessedBlocks(n, hash)
  PROVE  SyncInv'
<1>1. ASSUME Spend PROVE left' \in Nat
  BY <1>1 DEF Spend, SyncInv, TypeOK
<1>2. ASSUME NEW bpm \in Bpm, AddBlock(n, bpm) PROVE SyncInv'
  <2>1. PICK now \in Clock[n] :
          LET b == NewBlock(Tip(chain[n]).index + 1, now, bpm,
                            Tip(chain[n]).hash) IN
          /\ b \in Block
          /\ Process(n, b, now, stream)
          /\ UNCHANGED <<session, best, reader, left>>
    BY <1>2 DEF AddBlock
  <2>2. /\ chain' \in [Node -> Seq(Block)]
        /\ processed' \in [Node -> SUBSET Hash]
        /\ stream' \in [Link -> Seq(Message)]
        /\ ChainsWellFormed'
    BY <2>1, ProcessKeeps DEF SyncInv, TypeOK, Written
  <2> QED BY <2>1, <2>2 DEF SyncInv, TypeOK
<1>3. ASSUME NEW m \in Message, stream' = ToAll(stream, n, m)
      PROVE  stream' \in [Link -> Seq(Message)]
  BY <1>3, ToAllTyped DEF SyncInv, TypeOK, Written
<1>4. GetBlocks(EmptyHash) \in Message /\ GetPeers \in Message
  BY MessagesTyped
<1>5. CASE SyncCommand(n)
  BY <1>1, <1>3, <1>4, <1>5, ChainsKept
     DEF SyncCommand, RequestSync, SyncInv, TypeOK
<1>6. CASE DiscoverPeers(n)
  BY <1>1, <1>3, <1>4, <1>6, ChainsKept DEF DiscoverPeers, SyncInv, TypeOK
<1>7. CASE SyncTask(n)
  BY <1>3, <1>4, <1>7, ChainsKept DEF SyncTask, RequestSync, SyncInv, TypeOK
<1>8. ASSUME NEW hash \in Hash, FindCommand(n, hash) PROVE SyncInv'
  <2>1. FindBlock(hash) \in Message
    BY MessagesTyped
  <2> QED
    BY <1>1, <1>3, <1>8, <2>1, ChainsKept DEF FindCommand, SyncInv, TypeOK
<1>9. ASSUME NEW hash \in Hash, CleanupProcessedBlocks(n, hash) PROVE SyncInv'
  BY <1>9, ChainsKept DEF CleanupProcessedBlocks, SyncInv, TypeOK
<1> QED BY <1>2, <1>5, <1>6, <1>7, <1>8, <1>9

LEMMA InitKeeps == Init => SyncInv
<1> SUFFICES ASSUME Init PROVE SyncInv
  OBVIOUS
<1>1. chain \in [Node -> Seq(Block)] /\ ChainsWellFormed
  BY SyncAssumption DEF Init, ChainsWellFormed
<1>2. \A l \in Link : Len(InitialChain[l[2]]) \in Nat
  BY LinkEnds, SyncAssumption, LenProperties
<1>3. best \in [Link -> Nat]
  BY <1>2 DEF Init
<1>4. stream \in [Link -> Seq(Message)]
  BY EmptySeq DEF Init
<1>5. reader \in [Link -> Reader]
  BY ReadersTyped DEF Init
<1>6. session \in [Link -> Session]
  BY DEF Init, Session
<1>7. left \in Nat
  BY SyncAssumption DEF Init
<1>8. processed \in [Node -> SUBSET Hash]
  BY DEF Init
<1> QED BY <1>1, <1>3, <1>4, <1>5, <1>6, <1>7, <1>8 DEF SyncInv, TypeOK

LEMMA StepKeeps == SyncInv /\ [Next]_vars => SyncInv'
<1> SUFFICES ASSUME SyncInv, [Next]_vars PROVE SyncInv'
  OBVIOUS
<1>1. ASSUME NEW l \in Link,
             \/ HandleStream(l[1], l[2])
             \/ ReadHeight(l[1], l[2]) \/ SendVersion(l[1], l[2])
             \/ ReadMessages(l[1], l[2])
      PROVE  SyncInv'
  <2>1. <<l[1], l[2]>> \in Link
    BY LinkEnds
  <2> QED BY <1>1, <2>1, HandshakeKeeps, GreetingsKeep, BlocksKeep,
             RequestsKeep, GiveUpKeeps DEF ReadMessages
<1>2. CASE UNCHANGED vars
  BY <1>2, ChainsKept DEF vars, SyncInv, TypeOK
<1> QED BY <1>1, <1>2, NodeKeeps, SyncAssumption DEF Next

\* Every variable of Sync keeps its type.
THEOREM TypeCorrect == Spec => []TypeOK
<1>1. SyncInv => TypeOK
  BY DEF SyncInv
<1> QED BY <1>1, InitKeeps, StepKeeps, PTL DEF Spec

\* Whatever the nodes are sent, in whatever order, every chain stays a chain
\* of hashes back to the genesis block.
THEOREM ChainsAlwaysWellFormed == Spec => []ChainsWellFormed
<1>1. SyncInv => ChainsWellFormed
  BY DEF SyncInv
<1> QED BY <1>1, InitKeeps, StepKeeps, PTL DEF Spec

LEMMA WellFormedAgree == SyncInv => HistoryAgreement
<1> SUFFICES ASSUME SyncInv, NEW n \in Node, NEW m \in Node,
                    NEW i \in 1 .. Len(chain[n]), NEW j \in 1 .. Len(chain[m]),
                    chain[n][i].hash = chain[m][j].hash
             PROVE  SubSeq(chain[n], 1, i) = SubSeq(chain[m], 1, j)
  BY DEF HistoryAgreement
<1>1. /\ chain[n] \in Seq(Block) /\ WellFormed(chain[n])
      /\ chain[m] \in Seq(Block) /\ WellFormed(chain[m])
  BY DEF SyncInv, TypeOK, ChainsWellFormed
<1>2. i = j /\ \A k \in 1 .. i : chain[n][k] = chain[m][k]
  BY <1>1, HashDeterminesHistory
<1> DEFINE c == SubSeq(chain[n], 1, i)
           d == SubSeq(chain[m], 1, i)
<1>3. /\ \A k \in 1 .. i : chain[n][k] \in Block
      /\ \A k \in 1 .. i : chain[m][k] \in Block
  BY <1>1, <1>2
<1>4. /\ c \in Seq(Block) /\ Len(c) = i
      /\ \A k \in 1 .. i : c[k] = chain[n][k]
  BY <1>3, SubSeqProperties
<1>5. /\ d \in Seq(Block) /\ Len(d) = i
      /\ \A k \in 1 .. i : d[k] = chain[m][k]
  BY <1>3, SubSeqProperties
<1> HIDE DEF c, d
<1>6. c = d
  BY <1>2, <1>4, <1>5, SeqEqual
<1> QED BY <1>2, <1>6 DEF c, d

\* Two chains that share a block share everything before it, for any network
\* and any mixture of histories.
THEOREM HistoriesAlwaysAgree == Spec => []HistoryAgreement
BY InitKeeps, StepKeeps, WellFormedAgree, PTL DEF Spec
-----------------------------------------------------------------------------
(***************************************************************************)
(* What travels between nodes, message by message: a node sends only       *)
(* blocks of its own chain and is asked only for such blocks.              *)
(***************************************************************************)
Has(n, b) == \E k \in 1 .. Len(chain[n]) : chain[n][k] = b

\* A message that n may have written to p: what it offers n has, and what it
\* asks for p can serve.
Honest(n, p, m) ==
  /\ m.type = "block" => Has(n, m.block)
  /\ m.type = "inv" => \A h \in Elements(m.hashes) : OnChain(n, h)
  /\ m.type = "blockfound" => \A b \in m.found : Has(n, b)
  /\ m.type = "getdata" => \A h \in Elements(m.hashes) : OnChain(p, h)

\* A goroutine of n reading p that is about to announce or to serve what n
\* can, or to request what p can.
Able(n, p, r) ==
  /\ r.at \in {"announcing", "serving"} =>
       \A h \in Elements(r.hashes) : OnChain(n, h)
  /\ r.at = "requesting" => \A h \in Elements(r.hashes) : OnChain(p, h)

\* Where a goroutine holds hashes.
Busy == {"announcing", "requesting", "serving"}

RequestInv ==
  \A l \in Link :
    /\ \A i \in 1 .. Len(stream[l]) : Honest(l[1], l[2], stream[l][i])
    /\ Able(l[1], l[2], reader[l])

LEMMA HasItsHash ==
  ASSUME NEW n, NEW b, Has(n, b)
  PROVE  OnChain(n, b.hash)
BY DEF Has, OnChain, Positions

LEMMA RequestInvMeans ==
  ASSUME SyncInv, RequestInv
  PROVE  OnlyOwnBlocks /\ RequestsServable
<1>1. ASSUME NEW l \in Link
      PROVE  /\ \A m \in Sent(l[1], l[2]) : Honest(l[1], l[2], m)
             /\ Able(l[1], l[2], reader[<<l[1], l[2]>>])
  <2>1. l = <<l[1], l[2]>>
    BY LinkEnds
  <2>2. Sent(l[1], l[2]) = {stream[l][i] : i \in 1 .. Len(stream[l])}
    BY <2>1 DEF Sent
  <2> QED BY <2>1, <2>2 DEF RequestInv
<1>2. OnlyOwnBlocks
  BY <1>1, HasItsHash DEF OnlyOwnBlocks, Honest, Able
<1>3. RequestsServable
  BY <1>1 DEF RequestsServable, Honest, Able
<1> QED BY <1>2, <1>3
-----------------------------------------------------------------------------
(***************************************************************************)
(* Chains only grow                                                        *)
(***************************************************************************)
Grown ==
  \A n \in Node : \/ chain'[n] = chain[n]
                  \/ \E b \in Block : chain'[n] = Append(chain[n], b)

LEMMA ProcessGrows ==
  ASSUME SyncInv, NEW n \in Node, NEW b \in Block, NEW now,
         NEW s, Process(n, b, now, s)
  PROVE  Grown
BY DEF Process, SyncInv, TypeOK, Grown

\* A block that is on a chain stays there.
LEMMA HasKept ==
  ASSUME SyncInv, Grown, NEW n \in Node, NEW b, Has(n, b)
  PROVE  Has(n, b)'
<1>1. PICK k \in 1 .. Len(chain[n]) : chain[n][k] = b
  BY DEF Has
<1>2. chain[n] \in Seq(Block) /\ Len(chain[n]) \in Nat
  BY TipTyped DEF SyncInv
<1>3. k \in 1 .. Len(chain'[n]) /\ chain'[n][k] = chain[n][k]
  BY <1>2, AppendProperties DEF Grown
<1> QED BY <1>1, <1>3 DEF Has

LEMMA OnChainKept ==
  ASSUME SyncInv, Grown, NEW n \in Node, NEW h, OnChain(n, h)
  PROVE  OnChain(n, h)'
<1>1. PICK k \in 1 .. Len(chain[n]) : chain[n][k].hash = h
  BY DEF OnChain, Positions
<1>2. chain[n] \in Seq(Block) /\ Len(chain[n]) \in Nat
  BY TipTyped DEF SyncInv
<1>3. k \in 1 .. Len(chain'[n]) /\ chain'[n][k] = chain[n][k]
  BY <1>2, AppendProperties DEF Grown
<1> QED BY <1>1, <1>3 DEF OnChain, Positions

LEMMA HonestKept ==
  ASSUME SyncInv, Grown, NEW n \in Node, NEW p \in Node, NEW m, Honest(n, p, m)
  PROVE  Honest(n, p, m)'
BY OnChainKept, HasKept DEF Honest

LEMMA AbleKept ==
  ASSUME SyncInv, Grown, NEW n \in Node, NEW p \in Node, NEW r,
         Able(n, p, r)
  PROVE  Able(n, p, r)'
BY OnChainKept DEF Able
-----------------------------------------------------------------------------
(***************************************************************************)
(* What is written                                                         *)
(***************************************************************************)
\* The streams t hold at l nothing but messages of s and of new[l].
Adds(s, t, new) ==
  \A l \in Link : \A i \in 1 .. Len(t[l]) :
    \/ \E j \in 1 .. Len(s[l]) : t[l][i] = s[l][j]
    \/ t[l][i] \in new[l]

Nothing == [l \in Link |-> {}]
Only(k, m) == [l \in Link |-> IF l = k THEN {m} ELSE {}]
From(n, m) == [l \in Link |-> IF l[1] = n THEN {m} ELSE {}]

LEMMA SameAdds ==
  ASSUME NEW s, NEW new
  PROVE  Adds(s, s, new)
BY DEF Adds

LEMMA WriteAdds ==
  ASSUME NEW s \in Written, NEW k \in Link, NEW m \in Message
  PROVE  Adds(s, [s EXCEPT ![k] = Append(@, m)], Only(k, m))
<1> DEFINE t == [s EXCEPT ![k] = Append(@, m)]
<1>1. SUFFICES ASSUME NEW l \in Link, NEW i \in 1 .. Len(t[l])
               PROVE  \/ \E j \in 1 .. Len(s[l]) : t[l][i] = s[l][j]
                      \/ t[l][i] \in Only(k, m)[l]
  BY DEF Adds
<1>2. s[l] \in Seq(Message) /\ Len(s[l]) \in Nat
  BY DEF Written
<1>3. CASE l = k
  <2>1. t[l] = Append(s[l], m)
    BY <1>3 DEF Written
  <2>2. i \in 1 .. Len(s[l]) + 1
    BY <1>1, <1>2, <2>1, AppendProperties
  <2>3. \/ i \in 1 .. Len(s[l]) /\ t[l][i] = s[l][i]
        \/ t[l][i] = m
    BY <1>2, <2>1, <2>2, AppendProperties
  <2> QED BY <1>3, <2>3 DEF Only
<1>4. CASE l # k
  BY <1>1, <1>4 DEF Written
<1> QED BY <1>3, <1>4

LEMMA ToAllAdds ==
  ASSUME NEW s \in Written, NEW n, NEW m \in Message
  PROVE  Adds(s, ToAll(s, n, m), From(n, m))
<1> DEFINE t == ToAll(s, n, m)
<1>1. SUFFICES ASSUME NEW l \in Link, NEW i \in 1 .. Len(t[l])
               PROVE  \/ \E j \in 1 .. Len(s[l]) : t[l][i] = s[l][j]
                      \/ t[l][i] \in From(n, m)[l]
  BY DEF Adds
<1>2. s[l] \in Seq(Message) /\ Len(s[l]) \in Nat
  BY DEF Written
<1>3. CASE l \in Connected(n)
  <2>1. t[l] = Append(s[l], m) /\ l[1] = n
    BY <1>3 DEF ToAll, Connected
  <2>2. i \in 1 .. Len(s[l]) + 1
    BY <1>1, <1>2, <2>1, AppendProperties
  <2>3. \/ i \in 1 .. Len(s[l]) /\ t[l][i] = s[l][i]
        \/ t[l][i] = m
    BY <1>2, <2>1, <2>2, AppendProperties
  <2> QED BY <2>1, <2>3 DEF From
<1>4. CASE l \notin Connected(n)
  BY <1>1, <1>4 DEF ToAll
<1> QED BY <1>3, <1>4

\* Taking a message out of a stream adds nothing to any.
LEMMA ConsumedAdds ==
  ASSUME SyncInv, NEW n, NEW p, <<n, p>> \in Link, NEW type,
         Arrived(n, p, type), NEW lost \in Lost(n, p)
  PROVE  Adds(stream, Consumed(n, p, lost), Nothing)
<1> DEFINE k == <<p, n>>
           t == Consumed(n, p, lost)
<1>1. k \in Link
  BY LinkEnds
<1>2. SUFFICES ASSUME NEW l \in Link, NEW i \in 1 .. Len(t[l])
               PROVE  \E j \in 1 .. Len(stream[l]) : t[l][i] = stream[l][j]
  BY DEF Adds
<1>3. stream[l] \in Seq(Message) /\ Len(stream[l]) \in Nat
  BY DEF SyncInv, TypeOK
<1>4. CASE l = k
  <2> DEFINE rest == SubSeq(stream[l], lost + 2, Len(stream[l]))
  <2>1. t[l] = rest
    BY <1>4 DEF Consumed, SyncInv, TypeOK
  <2>2. lost \in Nat /\ lost < Len(stream[l])
    BY <1>4 DEF Lost
  <2>3. /\ Len(rest) = Len(stream[l]) - lost - 1
        /\ \A j \in 1 .. Len(stream[l]) - lost - 1 :
             rest[j] = stream[l][j + lost + 1]
    BY <1>3, <2>2, RestOfSeq
  <2>4. i \in 1 .. Len(stream[l]) - lost - 1 /\ t[l][i] = rest[i]
    <3> HIDE DEF rest, t
    <3> QED BY <1>2, <2>1, <2>3
  <2>5. /\ i + lost + 1 \in 1 .. Len(stream[l])
        /\ t[l][i] = stream[l][i + lost + 1]
    <3> HIDE DEF rest, t
    <3> QED BY <1>3, <2>2, <2>3, <2>4
  <2> QED BY <2>5
<1>5. CASE l # k
  BY <1>2, <1>5 DEF Consumed, SyncInv, TypeOK
<1> QED BY <1>4, <1>5

\* A handler that answers with at most one message adds at most that one.
LEMMA AnswerAdds ==
  ASSUME SyncInv, NEW n, NEW p, <<n, p>> \in Link, NEW type,
         Arrived(n, p, type), NEW m \in Message, NEW replies,
         replies = <<>> \/ replies = <<m>>, Answer(n, p, replies)
  PROVE  /\ Adds(stream, stream', Only(<<n, p>>, m))
         /\ replies = <<>> => Adds(stream, stream', Nothing)
<1> DEFINE k == <<n, p>>
<1>0. PICK lost \in Lost(n, p) :
        stream' = [Consumed(n, p, lost) EXCEPT ![<<n, p>>] = @ \o replies]
  BY DEF Answer
<1> DEFINE s == Consumed(n, p, lost)
<1>1. s \in Written /\ Adds(stream, s, Nothing)
  BY ArrivedTyped, ConsumedAdds DEF SyncInv
<1>2. s[k] \in Seq(Message)
  BY <1>1 DEF Written
<1>3. stream' = [s EXCEPT ![k] = @ \o replies]
  BY <1>0
<1>4. CASE replies = <<>>
  <2>1. s[k] \o replies = s[k]
    BY <1>2, <1>4, ConcatEmptySeq
  <2>2. stream' = s
    BY <1>1, <1>3, <2>1 DEF Written
  <2>3. Adds(stream, stream', Only(k, m))
    BY <1>1, <2>2 DEF Adds, Nothing
  <2> QED BY <1>1, <2>2, <2>3
<1>5. CASE replies = <<m>>
  <2>1. s[k] \o replies = Append(s[k], m)
    BY <1>2, <1>5, AppendIsConcat
  <2>2. stream' = [s EXCEPT ![k] = Append(@, m)]
    BY <1>1, <1>3, <2>1
  <2>3. Adds(s, stream', Only(k, m))
    BY <1>1, <2>2, WriteAdds
  <2>4. Adds(stream, stream', Only(k, m))
    <3> HIDE DEF s, k
    <3> QED BY <1>1, <2>3 DEF Adds, Nothing
  <2>5. replies # <<>>
    BY <1>5
  <2> QED BY <2>4, <2>5
<1> QED BY <1>4, <1>5

\* A step keeps the invariant if what it adds is honest and no goroutine gets
\* anything to announce or serve that it cannot.
LEMMA RequestInvKept ==
  ASSUME SyncInv, RequestInv, Grown,
         NEW new, Adds(stream, stream', new),
         \A l \in Link : \A m \in new[l] : Honest(l[1], l[2], m)',
         \A l \in Link : reader'[l] = reader[l] \/ Able(l[1], l[2], reader[l])'
  PROVE  RequestInv'
<1> SUFFICES ASSUME NEW l \in Link
             PROVE  /\ \A i \in 1 .. Len(stream'[l]) :
                         Honest(l[1], l[2], stream[l][i])'
                    /\ Able(l[1], l[2], reader[l])'
  BY DEF RequestInv
<1>1. l[1] \in Node /\ l[2] \in Node
  BY LinkEnds
<1>2. ASSUME NEW i \in 1 .. Len(stream'[l])
      PROVE  Honest(l[1], l[2], stream[l][i])'
  <2>1. CASE \E j \in 1 .. Len(stream[l]) : stream'[l][i] = stream[l][j]
    <3>1. PICK j \in 1 .. Len(stream[l]) : stream'[l][i] = stream[l][j]
      BY <2>1
    <3>2. \A m : m = stream[l][j] => Honest(l[1], l[2], m)'
      BY <1>1, HonestKept DEF RequestInv
    <3> QED BY <3>1, <3>2 DEF Honest
  <2>2. CASE stream'[l][i] \in new[l]
    BY <2>2 DEF Honest
  <2> QED BY <1>2, <2>1, <2>2 DEF Adds
<1>3. Able(l[1], l[2], reader[l])'
  <2>1. CASE reader'[l] = reader[l]
    <3>1. \A r : r = reader[l] => Able(l[1], l[2], r)'
      BY <1>1, AbleKept DEF RequestInv
    <3> QED BY <2>1, <3>1 DEF Able
  <2> QED BY <2>1
<1> QED BY <1>2, <1>3
-----------------------------------------------------------------------------
(***************************************************************************)
(* Every step keeps it                                                     *)
(***************************************************************************)
\* The messages that offer nothing and ask for no hash.
Plain(m) == m.type \notin {"block", "inv", "blockfound", "getdata"}

LEMMA PlainHonest ==
  ASSUME NEW m, Plain(m), NEW n, NEW p
  PROVE  Honest(n, p, m)'
BY DEF Plain, Honest

LEMMA PlainMessages ==
  /\ \A height \in Nat : Plain(Version(height))
  /\ Plain(VerAck) /\ Plain(GetPeers) /\ Plain(Peers)
  /\ \A start : Plain(GetBlocks(start))
  /\ \A hash : Plain(FindBlock(hash))
BY DEF Plain, Version, VerAck, GetPeers, Peers, GetBlocks, FindBlock

\* Most steps leave the chains alone and put no goroutine to work.
LEMMA QuietStep ==
  ASSUME SyncInv, RequestInv, UNCHANGED chain,
         NEW new, Adds(stream, stream', new),
         \A l \in Link : \A m \in new[l] : Honest(l[1], l[2], m)',
         \A l \in Link : \/ reader'[l] = reader[l]
                         \/ reader'[l].at \notin Busy
  PROVE  RequestInv'
<1>1. Grown
  BY DEF Grown
<1>2. \A l \in Link : reader'[l] = reader[l] \/ Able(l[1], l[2], reader[l])'
  BY DEF Able, Busy
<1> QED BY <1>1, <1>2, RequestInvKept

\* The one goroutine that goes on; the others stay where they are.
LEMMA BecomeOnly ==
  ASSUME SyncInv, NEW n, NEW p, <<n, p>> \in Link, NEW state,
         Become(n, p, state)
  PROVE  /\ reader'[<<n, p>>] = state
         /\ \A l \in Link \ {<<n, p>>} : reader'[l] = reader[l]
BY DEF Become, SyncInv, TypeOK

LEMMA HandshakeHonest ==
  ASSUME SyncInv, RequestInv, NEW n, NEW p, <<n, p>> \in Link,
         HandleStream(n, p) \/ ReadHeight(n, p) \/ SendVersion(n, p)
  PROVE  RequestInv'
<1> DEFINE m == Version(session[<<n, p>>].height)
<1>1. CASE HandleStream(n, p) \/ ReadHeight(n, p)
  <2>1. Adds(stream, stream', Nothing)
    BY <1>1, SameAdds DEF HandleStream, ReadHeight
  <2> QED BY <1>1, <2>1, QuietStep DEF HandleStream, ReadHeight, Nothing
<1>2. CASE SendVersion(n, p)
  <2>1. session[<<n, p>>].height \in Nat
    <3>1. session[<<n, p>>] \in Session
      BY DEF SyncInv, TypeOK
    <3> QED BY <1>2, <3>1 DEF SendVersion, Session, None, Registered, Greeted
  <2>2. m \in Message /\ Plain(m)
    BY <2>1, MessagesTyped, PlainMessages
  <2>3. Adds(stream, stream', Only(<<n, p>>, m))
    BY <1>2, <2>2, WriteAdds DEF SendVersion, SyncInv, TypeOK, Written
  <2>4. \A l \in Link : \A x \in Only(<<n, p>>, m)[l] : Honest(l[1], l[2], x)'
    <3>1. \A l \in Link : \A x \in Only(<<n, p>>, m)[l] : Plain(x)
      BY <2>2 DEF Only
    <3> QED BY <3>1, PlainHonest
  <2>5. UNCHANGED <<chain, reader>>
    BY <1>2 DEF SendVersion
  <2> HIDE DEF m
  <2> QED BY <2>3, <2>4, <2>5, QuietStep
<1> QED BY <1>1, <1>2

\* A handler that answers with a message that offers and asks nothing.
LEMMA PlainAnswer ==
  ASSUME SyncInv, RequestInv, NEW n, NEW p, <<n, p>> \in Link, NEW type,
         Arrived(n, p, type), NEW m \in Message, Plain(m), NEW replies,
         replies = <<>> \/ replies = <<m>>, Answer(n, p, replies),
         UNCHANGED chain,
         \/ UNCHANGED reader
         \/ \E state \in Reader :
              /\ Become(n, p, state)
              /\ state.at \notin Busy
  PROVE  RequestInv'
<1>1. Adds(stream, stream', Only(<<n, p>>, m))
  BY AnswerAdds
<1>2. \A l \in Link : \A x \in Only(<<n, p>>, m)[l] : Honest(l[1], l[2], x)'
  BY PlainHonest DEF Only
<1>3. \A l \in Link : \/ reader'[l] = reader[l]
                      \/ reader'[l].at \notin Busy
  BY BecomeOnly
<1> QED BY <1>1, <1>2, <1>3, QuietStep

\* A goroutine that writes such a message and rests, or goes on to ask.
LEMMA PlainWrite ==
  ASSUME SyncInv, RequestInv, NEW n, NEW p, <<n, p>> \in Link,
         NEW m \in Message, Plain(m),
         stream' = [stream EXCEPT ![<<n, p>>] = Append(@, m)],
         UNCHANGED chain,
         NEW state, Become(n, p, state),
         state.at \notin Busy
  PROVE  RequestInv'
<1>1. Adds(stream, stream', Only(<<n, p>>, m))
  BY WriteAdds DEF SyncInv, TypeOK, Written
<1>2. \A l \in Link : \A x \in Only(<<n, p>>, m)[l] : Honest(l[1], l[2], x)'
  BY PlainHonest DEF Only
<1>3. \A l \in Link : \/ reader'[l] = reader[l]
                      \/ reader'[l].at \notin Busy
  BY BecomeOnly
<1> QED BY <1>1, <1>2, <1>3, QuietStep

LEMMA GreetingsHonest ==
  ASSUME SyncInv, RequestInv, NEW n, NEW p, <<n, p>> \in Link,
         \/ HandleVersion(n, p) \/ HandleVerAck(n, p)
         \/ ReadTip(n, p) \/ SendGetBlocks(n, p) \/ SendGetPeers(n, p)
         \/ HandleGetPeers(n, p) \/ HandlePeers(n, p)
  PROVE  RequestInv'
<1>1. /\ VerAck \in Message /\ Plain(VerAck)
      /\ Peers \in Message /\ Plain(Peers)
      /\ GetPeers \in Message /\ Plain(GetPeers)
  BY MessagesTyped, PlainMessages
<1>2. \A what \in {"asking blocks", "asking peers"} :
        /\ Asking(what) \in Reader
        /\ Asking(what).at \notin Busy
  BY ReadersTyped DEF Asking, Busy
<1>3. Idle.at \notin Busy
  BY DEF Idle, Busy
<1>4. CASE HandleVersion(n, p)
  BY <1>1, <1>4, PlainAnswer DEF HandleVersion
<1>5. CASE HandleVerAck(n, p)
  BY <1>1, <1>2, <1>5, PlainAnswer DEF HandleVerAck
<1>6. CASE SendGetBlocks(n, p)
  <2>1. /\ GetBlocks(reader[<<n, p>>].start) \in Message
        /\ Plain(GetBlocks(reader[<<n, p>>].start))
    <3>1. reader[<<n, p>>] \in Reader
      BY DEF SyncInv, TypeOK
    <3> QED BY <1>6, <3>1, ReaderFields, MessagesTyped, PlainMessages
            DEF SendGetBlocks
  <2> QED BY <1>2, <1>6, <2>1, PlainWrite DEF SendGetBlocks
<1>7. CASE SendGetPeers(n, p)
  BY <1>1, <1>3, <1>7, PlainWrite DEF SendGetPeers
<1>8. CASE HandleGetPeers(n, p)
  BY <1>1, <1>8, PlainAnswer DEF HandleGetPeers
<1>9. CASE HandlePeers(n, p)
  BY <1>1, <1>9, PlainAnswer DEF HandlePeers
<1>10. CASE ReadTip(n, p)
  <2>1. Adds(stream, stream', Nothing)
    BY <1>10, SameAdds DEF ReadTip
  <2>2. Locating(Tip(chain[n]).hash).at \notin Busy
    BY DEF Locating, Busy
  <2>3. \A l \in Link : reader'[l] = reader[l] \/ reader'[l].at \notin Busy
    BY <1>10, <2>2, BecomeOnly DEF ReadTip
  <2>4. \A l \in Link : \A m \in Nothing[l] : Honest(l[1], l[2], m)'
    BY DEF Nothing
  <2>5. UNCHANGED chain
    BY <1>10 DEF ReadTip
  <2> QED BY <2>1, <2>3, <2>4, <2>5, QuietStep
<1> QED BY <1>4, <1>5, <1>6, <1>7, <1>8, <1>9, <1>10

\* An accepted block is on the chain when it is sent on; s is the streams
\* less what is being read.
LEMMA ProcessHonest ==
  ASSUME SyncInv, RequestInv, NEW n \in Node, NEW b \in Block, NEW now,
         NEW s \in Written, Adds(stream, s, Nothing), Process(n, b, now, s),
         \A l \in Link : \/ reader'[l] = reader[l]
                         \/ reader'[l].at \notin Busy
  PROVE  RequestInv'
<1>1. CASE stream' = s /\ UNCHANGED chain
  BY <1>1, QuietStep DEF Nothing
<1>2. CASE /\ chain' = [chain EXCEPT ![n] = Append(@, b)]
           /\ stream' = Relay(s, n, b)
  <2> DEFINE new == From(n, BlockMsg(b))
  <2>1. Adds(stream, stream', new)
    <3>1. CASE b.hash \in processed[n]
      BY <1>2, <3>1 DEF Relay, Adds, Nothing
    <3>2. CASE b.hash \notin processed[n]
      <4>1. Adds(s, stream', new)
        BY <1>2, <3>2, MessagesTyped, ToAllAdds DEF Relay
      <4> HIDE DEF new
      <4> QED BY <4>1 DEF Adds, Nothing
    <3> QED BY <3>1, <3>2
  <2>2. Has(n, b)'
    <3>1. chain[n] \in Seq(Block) /\ chain'[n] = Append(chain[n], b)
      BY <1>2 DEF SyncInv, TypeOK
    <3>2. /\ Len(chain[n]) + 1 \in 1 .. Len(chain'[n])
          /\ chain'[n][Len(chain[n]) + 1] = b
      BY <3>1, AppendProperties
    <3> QED BY <3>2 DEF Has
  <2>3. \A l \in Link : \A m \in new[l] : Honest(l[1], l[2], m)'
    <3>1. \A x : x = b => Has(n, x)'
      BY <2>2 DEF Has
    <3> QED BY <3>1 DEF From, Honest, BlockMsg
  <2>4. Grown
    BY ProcessGrows
  <2>5. \A l \in Link : reader'[l] = reader[l] \/ Able(l[1], l[2], reader[l])'
    BY DEF Able, Busy
  <2> HIDE DEF new
  <2> QED BY <2>1, <2>3, <2>4, <2>5, RequestInvKept
<1> QED BY <1>1, <1>2 DEF Process

LEMMA BlocksHonest ==
  ASSUME SyncInv, RequestInv, NEW n, NEW p, <<n, p>> \in Link,
         \/ CheckBlock(n, p) \/ ProcessReceived(n, p) \/ MarkProcessed(n, p)
         \/ HandleBlockFound(n, p)
  PROVE  RequestInv'
<1>1. n \in Node /\ reader[<<n, p>>] \in Reader /\ stream \in Written
  BY LinkEnds DEF SyncInv, TypeOK, Written
<1>2. \A b : Holding("checked", b).at \notin Busy
  BY DEF Holding, Busy
<1>3. \A b : Holding("decided", b).at \notin Busy
  BY DEF Holding, Busy
<1>4. Idle.at \notin Busy
  BY DEF Idle, Busy
<1>5. CASE CheckBlock(n, p)
  <2>1. Received(n, p).block \in Block
    BY <1>5, ArrivedTyped, MessageFields DEF CheckBlock, SyncInv
  <2>2. \A state \in {Idle, Holding("checked", Received(n, p).block)} :
          state \in Reader /\ state.at \notin Busy
    BY <1>2, <1>4, <2>1, ReadersTyped
  <2>3. Peers \in Message /\ Plain(Peers)
    BY MessagesTyped, PlainMessages
  <2> QED BY <1>5, <2>2, <2>3, PlainAnswer DEF CheckBlock
<1>6. CASE ProcessReceived(n, p)
  <2>1. reader[<<n, p>>].block \in Block
    BY <1>1, <1>6, ReaderFields DEF ProcessReceived
  <2>2. \A l \in Link : \/ reader'[l] = reader[l]
                        \/ reader'[l].at \notin Busy
    BY <1>3, <1>6, BecomeOnly DEF ProcessReceived
  <2>3. Adds(stream, stream, Nothing)
    BY SameAdds
  <2> QED BY <1>1, <1>6, <2>1, <2>2, <2>3, ProcessHonest DEF ProcessReceived
<1>7. CASE MarkProcessed(n, p)
  <2>1. Adds(stream, stream', Nothing)
    BY <1>7, SameAdds DEF MarkProcessed
  <2>2. \A l \in Link : \/ reader'[l] = reader[l]
                        \/ reader'[l].at \notin Busy
    BY <1>4, <1>7, BecomeOnly DEF MarkProcessed
  <2> QED BY <1>7, <2>1, <2>2, QuietStep DEF MarkProcessed, Nothing
<1>8. CASE HandleBlockFound(n, p)
  <2>1. /\ Received(n, p).found \in SUBSET Block
        /\ \A lost \in Lost(n, p) :
             /\ Consumed(n, p, lost) \in Written
             /\ Adds(stream, Consumed(n, p, lost), Nothing)
    BY <1>8, ArrivedTyped, MessageFields, ConsumedAdds
       DEF HandleBlockFound, SyncInv
  <2>2. UNCHANGED reader
    BY <1>8 DEF HandleBlockFound
  <2>3. ASSUME NEW b \in Received(n, p).found, NEW now, NEW lost \in Lost(n, p),
               Process(n, b, now, Consumed(n, p, lost))
        PROVE  RequestInv'
    <3>1. \A l \in Link : reader'[l] = reader[l]
      BY <2>2
    <3> QED BY <1>1, <2>1, <2>3, <3>1, ProcessHonest
  <2>4. CASE Answer(n, p, <<>>) /\ UNCHANGED <<chain, processed>>
    <3>1. Peers \in Message /\ Plain(Peers)
      BY MessagesTyped, PlainMessages
    <3>2. Arrived(n, p, "blockfound")
      BY <1>8 DEF HandleBlockFound
    <3> QED BY <2>2, <2>4, <3>1, <3>2, PlainAnswer
  <2> QED BY <1>8, <2>3, <2>4 DEF HandleBlockFound
<1> QED BY <1>5, <1>6, <1>7, <1>8

LEMMA GiveUpHonest ==
  ASSUME SyncInv, RequestInv, NEW n, NEW p, <<n, p>> \in Link, GiveUp(n, p)
  PROVE  RequestInv'
<1>1. Adds(stream, stream', Nothing)
  BY SameAdds DEF GiveUp
<1>2. \A l \in Link : \/ reader'[l] = reader[l]
                      \/ reader'[l].at \notin Busy
  BY BecomeOnly DEF GiveUp, Gone, Busy
<1> QED BY <1>1, <1>2, QuietStep DEF GiveUp, Nothing

\* What a handler is given was honest when it was written.
LEMMA ReceivedHonest ==
  ASSUME SyncInv, RequestInv, NEW n, NEW p, <<n, p>> \in Link, NEW type,
         Arrived(n, p, type)
  PROVE  Honest(p, n, Received(n, p))
<1> DEFINE k == <<p, n>>
<1>1. k \in Link /\ k[1] = p /\ k[2] = n
  BY LinkEnds
<1>2. stream[k] \in Seq(Message) /\ stream[k] # <<>>
  BY <1>1 DEF SyncInv, TypeOK, Arrived
<1>3. 1 \in 1 .. Len(stream[k]) /\ Head(stream[k]) = stream[k][1]
  BY <1>2, EmptySeq
<1> QED BY <1>1, <1>3 DEF RequestInv, Received

\* One message written, one goroutine that goes on, and the chains as before.
LEMMA WriteHonest ==
  ASSUME SyncInv, RequestInv, UNCHANGED chain,
         NEW n, NEW p, <<n, p>> \in Link, NEW m,
         Adds(stream, stream', Only(<<n, p>>, m)), Honest(n, p, m),
         \/ UNCHANGED reader
         \/ \E state : Become(n, p, state) /\ Able(n, p, state)
  PROVE  RequestInv'
<1>1. Grown
  BY DEF Grown
<1>2. \A l \in Link : l = <<l[1], l[2]>> /\ l[1] \in Node /\ l[2] \in Node
  BY LinkEnds
<1>3. Honest(n, p, m)'
  BY <1>1, <1>2, HonestKept, LinkEnds
<1>4. \A l \in Link : \A x \in Only(<<n, p>>, m)[l] : Honest(l[1], l[2], x)'
  BY <1>3 DEF Only
<1>5. \A l \in Link : reader'[l] = reader[l] \/ Able(l[1], l[2], reader[l])'
  <2>1. CASE UNCHANGED reader
    BY <2>1
  <2>2. ASSUME NEW state, Become(n, p, state), Able(n, p, state)
        PROVE  \A l \in Link :
                 reader'[l] = reader[l] \/ Able(l[1], l[2], reader[l])'
    <3>1. Able(n, p, state)'
      BY <1>1, <2>2, AbleKept, LinkEnds
    <3>2. reader'[<<n, p>>] = state
      BY <2>2, BecomeOnly
    <3>3. Able(n, p, reader[<<n, p>>])'
      BY <3>1, <3>2 DEF Able
    <3> QED BY <2>2, <3>3, BecomeOnly
  <2> QED BY <2>1, <2>2
<1> QED BY <1>1, <1>4, <1>5, RequestInvKept

LEMMA AnnounceHonest ==
  ASSUME SyncInv, RequestInv, NEW n, NEW p, <<n, p>> \in Link,
         HandleGetBlocks(n, p) \/ SendInv(n, p)
  PROVE  RequestInv'
<1>1. /\ n \in Node /\ chain[n] \in Seq(Block)
      /\ reader[<<n, p>>] \in Reader /\ Able(n, p, reader[<<n, p>>])
  BY LinkEnds DEF SyncInv, TypeOK, RequestInv
<1>2. Able(n, p, Idle)
  BY DEF Able, Idle
<1>3. CASE HandleGetBlocks(n, p)
  <2> DEFINE blocks == GetBlocksAfter(chain[n], Received(n, p).start, Limit)
             state == IF blocks = <<>> THEN Idle
                      ELSE Sending("announcing", Hashes(blocks))
  <2>1. /\ blocks \in Seq(Block)
        /\ \A i \in 1 .. Len(blocks) :
             \E k \in 1 .. Len(chain[n]) : blocks[i] = chain[n][k]
    <3>1. Limit \in Nat
      BY SyncAssumption
    <3>2. \A hash :
            /\ GetBlocksAfter(chain[n], hash, Limit) \in Seq(Block)
            /\ \A i \in 1 .. Len(GetBlocksAfter(chain[n], hash, Limit)) :
                 \E k \in 1 .. Len(chain[n]) :
                   GetBlocksAfter(chain[n], hash, Limit)[i] = chain[n][k]
      BY <1>1, <3>1, GetBlocksAfterTyped
    <3> QED BY <3>2
  <2>2. \A h \in Elements(Hashes(blocks)) :
          \E i \in 1 .. Len(blocks) : h = blocks[i].hash
    BY <2>1, HashesTyped
  <2>3. \A h \in Elements(Hashes(blocks)) : OnChain(n, h)
    <3> HIDE DEF blocks
    <3> QED BY <2>1, <2>2 DEF OnChain, Positions
  <2>4. Able(n, p, Sending("announcing", Hashes(blocks)))
    BY <2>3 DEF Able, Sending
  <2>5. Become(n, p, state) /\ Able(n, p, state)
    BY <1>2, <1>3, <2>4 DEF HandleGetBlocks
  <2>6. Adds(stream, stream', Only(<<n, p>>, Peers))
    BY <1>3, MessagesTyped, AnswerAdds DEF HandleGetBlocks
  <2>7. Honest(n, p, Peers)
    BY DEF Honest, Peers
  <2>8. UNCHANGED chain
    BY <1>3 DEF HandleGetBlocks
  <2> HIDE DEF state
  <2> QED BY <2>5, <2>6, <2>7, <2>8, WriteHonest
<1>4. CASE SendInv(n, p)
  <2> DEFINE m == Inv(reader[<<n, p>>].hashes)
  <2>1. m \in Message
    BY <1>1, <1>4, ReaderFields, MessagesTyped DEF SendInv
  <2>2. Adds(stream, stream', Only(<<n, p>>, m))
    BY <1>4, <2>1, WriteAdds DEF SendInv, SyncInv, TypeOK, Written
  <2>3. Honest(n, p, m)
    BY <1>1, <1>4 DEF SendInv, Able, Honest, Inv
  <2> HIDE DEF m
  <2> QED BY <1>2, <1>4, <2>2, <2>3, WriteHonest DEF SendInv
<1> QED BY <1>3, <1>4

LEMMA RequestHonest ==
  ASSUME SyncInv, RequestInv, NEW n, NEW p, <<n, p>> \in Link,
         HandleInv(n, p) \/ SendGetData(n, p)
  PROVE  RequestInv'
<1>1. reader[<<n, p>>] \in Reader /\ Able(n, p, reader[<<n, p>>])
  BY LinkEnds DEF SyncInv, TypeOK, RequestInv
<1>2. Able(n, p, Idle)
  BY DEF Able, Idle
<1>3. CASE HandleInv(n, p)
  <2> DEFINE hashes == Received(n, p).hashes
             missing == Missing(hashes, processed[n])
             state == IF missing = <<>> THEN Idle
                      ELSE Sending("requesting", missing)
  <2>1. hashes \in Seq(Hash) /\ Received(n, p).type = "inv"
    BY <1>3, ArrivedTyped, MessageFields DEF HandleInv, SyncInv
  <2>2. missing \in Seq(Elements(hashes) \ processed[n])
    BY <2>1, MissingTyped
  <2>3. Elements(missing) \subseteq Elements(hashes)
    <3>1. \A i \in 1 .. Len(missing) :
            missing[i] \in Elements(hashes) \ processed[n]
      <4> HIDE DEF missing, hashes
      <4> QED BY <2>2
    <3> QED BY <3>1 DEF Elements
  <2>4. \A h \in Elements(hashes) : OnChain(p, h)
    BY <1>3, <2>1, ReceivedHonest DEF HandleInv, Honest
  <2>5. Able(n, p, Sending("requesting", missing))
    BY <2>3, <2>4 DEF Able, Sending
  <2>6. Become(n, p, state) /\ Able(n, p, state)
    BY <1>2, <1>3, <2>5 DEF HandleInv
  <2>7. Adds(stream, stream', Only(<<n, p>>, Peers))
    BY <1>3, MessagesTyped, AnswerAdds DEF HandleInv
  <2>8. Honest(n, p, Peers)
    BY DEF Honest, Peers
  <2>9. UNCHANGED chain
    BY <1>3 DEF HandleInv
  <2> HIDE DEF state
  <2> QED BY <2>6, <2>7, <2>8, <2>9, WriteHonest
<1>4. CASE SendGetData(n, p)
  <2> DEFINE m == GetData(reader[<<n, p>>].hashes)
  <2>1. m \in Message
    BY <1>1, <1>4, ReaderFields, MessagesTyped DEF SendGetData
  <2>2. Adds(stream, stream', Only(<<n, p>>, m))
    BY <1>4, <2>1, WriteAdds DEF SendGetData, SyncInv, TypeOK, Written
  <2>3. Honest(n, p, m)
    BY <1>1, <1>4 DEF SendGetData, Able, Honest, GetData
  <2> HIDE DEF m
  <2> QED BY <1>2, <1>4, <2>2, <2>3, WriteHonest DEF SendGetData
<1> QED BY <1>3, <1>4

LEMMA ServeHonest ==
  ASSUME SyncInv, RequestInv, NEW n, NEW p, <<n, p>> \in Link,
         HandleGetData(n, p) \/ ServeBlock(n, p) \/ HandleFindBlock(n, p)
  PROVE  RequestInv'
<1>1. /\ n \in Node /\ chain[n] \in Seq(Block)
      /\ reader[<<n, p>>] \in Reader /\ Able(n, p, reader[<<n, p>>])
  BY LinkEnds DEF SyncInv, TypeOK, RequestInv
<1>2. Honest(n, p, Peers)
  BY DEF Honest, Peers
<1>3. CASE HandleGetData(n, p)
  <2> DEFINE state == Sending("serving", Received(n, p).hashes)
  <2>1. Received(n, p).type = "getdata"
    BY <1>3, ArrivedTyped DEF HandleGetData, SyncInv
  <2>2. Able(n, p, state)
    BY <1>3, <2>1, ReceivedHonest DEF HandleGetData, Honest, Able, Sending
  <2>3. Adds(stream, stream', Only(<<n, p>>, Peers))
    BY <1>3, MessagesTyped, AnswerAdds DEF HandleGetData
  <2>4. Become(n, p, state) /\ UNCHANGED chain
    BY <1>3 DEF HandleGetData
  <2> HIDE DEF state
  <2> QED BY <1>2, <2>2, <2>3, <2>4, WriteHonest
<1>4. CASE ServeBlock(n, p)
  <2> DEFINE todo == reader[<<n, p>>].hashes
             m == BlockMsg(GetBlockByHash(chain[n], Head(todo)))
  <2>1. todo \in Seq(Hash) /\ \A h \in Elements(todo) : OnChain(n, h)
    BY <1>1, <1>4, ReaderFields DEF ServeBlock, Able
  <2>2. CASE /\ todo # <<>>
             /\ stream' = IF OnChain(n, Head(todo))
                  THEN [stream EXCEPT ![<<n, p>>] = Append(@,
                          BlockMsg(GetBlockByHash(chain[n], Head(todo))))]
                  ELSE stream
             /\ Become(n, p, Sending("serving", Tail(todo)))
    <3>1. /\ Len(Tail(todo)) = Len(todo) - 1
          /\ \A i \in 1 .. Len(Tail(todo)) : Tail(todo)[i] = todo[i + 1]
          /\ Len(todo) \in Nat
      BY <2>1, <2>2, HeadTailProperties, EmptySeq
    <3>2. Elements(Tail(todo)) \subseteq Elements(todo)
      <4>1. ASSUME NEW i \in 1 .. Len(Tail(todo))
            PROVE  Tail(todo)[i] \in Elements(todo)
        <5>1. i + 1 \in 1 .. Len(todo) /\ Tail(todo)[i] = todo[i + 1]
          BY <3>1
        <5> QED BY <5>1 DEF Elements
      <4> QED BY <4>1 DEF Elements
    <3>3. Able(n, p, Sending("serving", Tail(todo)))
      BY <2>1, <3>2 DEF Able, Sending
    <3>4. CASE OnChain(n, Head(todo))
      <4>1. /\ m \in Message
            /\ Has(n, GetBlockByHash(chain[n], Head(todo)))
        BY <1>1, <3>4, GetBlockByHashTyped, MessagesTyped DEF OnChain, Has
      <4>2. Honest(n, p, m)
        BY <4>1 DEF Honest, BlockMsg
      <4>3. Adds(stream, stream', Only(<<n, p>>, m))
        BY <2>2, <3>4, <4>1, WriteAdds DEF SyncInv, TypeOK, Written
      <4>4. Become(n, p, Sending("serving", Tail(todo))) /\ UNCHANGED chain
        BY <1>4, <2>2 DEF ServeBlock
      <4> HIDE DEF m
      <4> QED BY <3>3, <4>2, <4>3, <4>4, WriteHonest
    <3>5. CASE ~OnChain(n, Head(todo))
      <4>1. Adds(stream, stream', Only(<<n, p>>, Peers))
        BY <2>2, <3>5, SameAdds
      <4>2. Become(n, p, Sending("serving", Tail(todo))) /\ UNCHANGED chain
        BY <1>4, <2>2 DEF ServeBlock
      <4> QED BY <1>2, <3>3, <4>1, <4>2, WriteHonest
    <3> QED BY <3>4, <3>5
  <2>3. CASE Become(n, p, Idle) /\ UNCHANGED stream
    <3>1. Able(n, p, Idle)
      BY DEF Able, Idle
    <3>2. Adds(stream, stream', Only(<<n, p>>, Peers))
      BY <2>3, SameAdds
    <3> QED BY <1>2, <1>4, <2>3, <3>1, <3>2, WriteHonest DEF ServeBlock
  <2> QED BY <1>4, <2>2, <2>3 DEF ServeBlock
<1>5. CASE HandleFindBlock(n, p)
  <2> DEFINE hash == Received(n, p).hash
             found == IF OnChain(n, hash)
                      THEN {GetBlockByHash(chain[n], hash)} ELSE {}
             m == BlockFound(found)
  <2>1. found \in SUBSET Block /\ \A b \in found : Has(n, b)
    BY <1>1, GetBlockByHashTyped DEF OnChain, Has
  <2>2. m \in Message /\ Honest(n, p, m)
    BY <2>1, MessagesTyped DEF Honest, BlockFound
  <2>3. Arrived(n, p, "findblock") /\ Answer(n, p, <<m>>)
    BY <1>5 DEF HandleFindBlock
  <2>4. UNCHANGED <<chain, reader>>
    BY <1>5 DEF HandleFindBlock
  <2> HIDE DEF m
  <2>5. Adds(stream, stream', Only(<<n, p>>, m))
    BY <2>2, <2>3, AnswerAdds
  <2> QED BY <2>2, <2>4, <2>5, WriteHonest
<1> QED BY <1>3, <1>4, <1>5

LEMMA NodeHonest ==
  ASSUME SyncInv, RequestInv, NEW n \in Node,
         \/ \E bpm \in Bpm : AddBlock(n, bpm)
         \/ SyncCommand(n) \/ DiscoverPeers(n) \/ SyncTask(n)
         \/ \E hash \in Hash :
              FindCommand(n, hash) \/ CleanupProcessedBlocks(n, hash)
  PROVE  RequestInv'
<1>1. stream \in Written /\ Adds(stream, stream, Nothing)
  BY SameAdds DEF SyncInv, TypeOK, Written
<1>2. ASSUME NEW bpm \in Bpm, AddBlock(n, bpm) PROVE RequestInv'
  <2>1. PICK now \in Clock[n] :
          LET b == NewBlock(Tip(chain[n]).index + 1, now, bpm,
                            Tip(chain[n]).hash) IN
          /\ b \in Block
          /\ Process(n, b, now, stream)
          /\ UNCHANGED <<session, best, reader, left>>
    BY <1>2 DEF AddBlock
  <2>2. \A l \in Link : reader'[l] = reader[l]
    BY <2>1
  <2> QED BY <1>1, <2>1, <2>2, ProcessHonest
<1>3. ASSUME NEW m \in Message, Plain(m), stream' = ToAll(stream, n, m),
             UNCHANGED <<chain, reader>>
      PROVE  RequestInv'
  <2>1. Adds(stream, stream', From(n, m))
    BY <1>1, <1>3, ToAllAdds
  <2>2. \A l \in Link : \A x \in From(n, m)[l] : Honest(l[1], l[2], x)'
    <3>1. \A l \in Link : \A x \in From(n, m)[l] : Plain(x)
      BY <1>3 DEF From
    <3> QED BY <3>1, PlainHonest
  <2> QED BY <1>3, <2>1, <2>2, QuietStep
<1>4. /\ GetBlocks(EmptyHash) \in Message /\ Plain(GetBlocks(EmptyHash))
      /\ GetPeers \in Message /\ Plain(GetPeers)
      /\ \A hash \in Hash : FindBlock(hash) \in Message /\ Plain(FindBlock(hash))
  BY MessagesTyped, PlainMessages
<1>5. CASE SyncCommand(n)
  BY <1>3, <1>4, <1>5 DEF SyncCommand, RequestSync
<1>6. CASE DiscoverPeers(n)
  BY <1>3, <1>4, <1>6 DEF DiscoverPeers
<1>7. CASE SyncTask(n)
  BY <1>3, <1>4, <1>7 DEF SyncTask, RequestSync
<1>8. ASSUME NEW hash \in Hash, FindCommand(n, hash) PROVE RequestInv'
  BY <1>3, <1>4, <1>8 DEF FindCommand
<1>9. ASSUME NEW hash \in Hash, CleanupProcessedBlocks(n, hash)
      PROVE  RequestInv'
  BY <1>1, <1>9, QuietStep DEF CleanupProcessedBlocks, Nothing
<1> QED BY <1>2, <1>5, <1>6, <1>7, <1>8, <1>9
-----------------------------------------------------------------------------
LEMMA InitHonest == Init => RequestInv
BY EmptySeq DEF Init, RequestInv, Able, Idle

LEMMA StepHonest == SyncInv /\ RequestInv /\ [Next]_vars => RequestInv'
<1> SUFFICES ASSUME SyncInv, RequestInv, [Next]_vars PROVE RequestInv'
  OBVIOUS
<1>1. ASSUME NEW l \in Link,
             \/ HandleStream(l[1], l[2])
             \/ ReadHeight(l[1], l[2]) \/ SendVersion(l[1], l[2])
             \/ ReadMessages(l[1], l[2])
      PROVE  RequestInv'
  <2>1. <<l[1], l[2]>> \in Link
    BY LinkEnds
  <2> QED BY <1>1, <2>1, HandshakeHonest, GreetingsHonest, BlocksHonest,
             GiveUpHonest, AnnounceHonest, RequestHonest, ServeHonest
          DEF ReadMessages
<1>2. CASE UNCHANGED vars
  <2>1. Adds(stream, stream', Nothing)
    BY <1>2, SameAdds DEF vars
  <2> QED BY <1>2, <2>1, QuietStep DEF vars, Nothing
<1> QED BY <1>1, <1>2, NodeHonest, SyncAssumption DEF Next

\* A block that failed validation travels no further: in any network, with
\* any number of producers, a node offers only blocks of its own chain.
THEOREM AlwaysOnlyOwnBlocks == Spec => []OnlyOwnBlocks
<1>1. SyncInv /\ RequestInv => OnlyOwnBlocks
  BY RequestInvMeans
<1> QED
  BY <1>1, InitKeeps, StepKeeps, InitHonest, StepHonest, PTL DEF Spec

\* Every block that a getdata names can be served, however late it is.
THEOREM RequestsAlwaysServable == Spec => []RequestsServable
<1>1. SyncInv /\ RequestInv => RequestsServable
  BY RequestInvMeans
<1> QED
  BY <1>1, InitKeeps, StepKeeps, InitHonest, StepHonest, PTL DEF Spec
-----------------------------------------------------------------------------
(***************************************************************************)
(* With one producer, for any network: nobody leaves the producer's chain, *)
(* and between connected nodes whose clocks agree nothing is missed or     *)
(* taken for handled too early.                                            *)
(***************************************************************************)
-----------------------------------------------------------------------------
(***************************************************************************)
(* Where an accepted block comes from                                      *)
(***************************************************************************)
\* What a reader is about to process is on the chain of the peer it reads.
HeldInv ==
  \A l \in Link :
    reader[l].at = "checked" => Has(l[2], reader[l].block)

\* How a reader comes to hold a block, and when it gives up.
ReaderStep(l) ==
  \/ reader'[l] = reader[l]
  \/ reader'[l].at \notin {"checked", "decided", "gone"}
  \/ /\ CheckBlock(l[1], l[2])
     /\ reader'[l] = Holding("checked", Received(l[1], l[2]).block)
  \/ /\ ProcessReceived(l[1], l[2])
     /\ reader'[l] = Holding("decided", reader[l].block)
  \/ GiveUp(l[1], l[2])

LEMMA ReaderSteps ==
  ASSUME SyncInv, [Next]_vars, NEW l \in Link
  PROVE  ReaderStep(l)
<1> DEFINE Rests(r) == r.at \notin {"checked", "decided", "gone"}
<1>1. ASSUME NEW n, NEW p, <<n, p>> \in Link, NEW state, Become(n, p, state),
             Rests(state)
      PROVE  ReaderStep(l)
  BY <1>1, BecomeOnly DEF ReaderStep
<1>2. /\ Rests(Idle)
      /\ \A what \in {"asking blocks", "asking peers"} : Rests(Asking(what))
      /\ \A start : Rests(Locating(start))
      /\ \A hashes : /\ Rests(Sending("announcing", hashes))
                     /\ Rests(Sending("requesting", hashes))
                     /\ Rests(Sending("serving", hashes))
  BY DEF Idle, Asking, Locating, Sending
<1>3. ASSUME NEW k \in Link, ReadMessages(k[1], k[2])
      PROVE  ReaderStep(l)
  <2> DEFINE n == k[1]
             p == k[2]
  <2> HIDE DEF Rests
  <2>1. <<n, p>> \in Link /\ k = <<n, p>>
    BY LinkEnds
  <2>2. CASE HandleVersion(n, p) \/ HandleGetPeers(n, p) \/ HandlePeers(n, p)
             \/ HandleFindBlock(n, p) \/ HandleBlockFound(n, p)
    BY <2>2 DEF HandleVersion, HandleGetPeers, HandlePeers, HandleFindBlock,
                HandleBlockFound, ReaderStep
  <2>3. CASE \/ HandleVerAck(n, p) \/ ReadTip(n, p)
             \/ SendGetBlocks(n, p) \/ SendGetPeers(n, p)
    BY <1>1, <1>2, <2>1, <2>3
       DEF HandleVerAck, ReadTip, SendGetBlocks, SendGetPeers
  <2>4. CASE CheckBlock(n, p)
    <3>1. CASE k = l
      <4>1. \/ reader'[l] = Idle
            \/ reader'[l] = Holding("checked", Received(n, p).block)
        BY <2>1, <2>4, <3>1, BecomeOnly DEF CheckBlock
      <4> QED BY <1>2, <2>4, <3>1, <4>1 DEF ReaderStep, Rests
    <3>2. CASE k # l
      BY <2>1, <2>4, <3>2, BecomeOnly DEF CheckBlock, ReaderStep
    <3> QED BY <3>1, <3>2
  <2>5. CASE ProcessReceived(n, p)
    BY <2>1, <2>5, BecomeOnly DEF ProcessReceived, ReaderStep
  <2>6. CASE GiveUp(n, p)
    BY <2>1, <2>6, BecomeOnly DEF GiveUp, ReaderStep
  <2>7. CASE MarkProcessed(n, p)
    BY <1>1, <1>2, <2>1, <2>7 DEF MarkProcessed
  <2>8. CASE HandleGetBlocks(n, p)
    <3> DEFINE blocks == GetBlocksAfter(chain[n], Received(n, p).start, Limit)
               state == IF blocks = <<>> THEN Idle
                        ELSE Sending("announcing", Hashes(blocks))
    <3>1. Become(n, p, state) /\ Rests(state)
      BY <1>2, <2>8 DEF HandleGetBlocks
    <3> HIDE DEF state
    <3> QED BY <1>1, <2>1, <3>1
  <2>9. CASE SendInv(n, p) \/ SendGetData(n, p) \/ HandleGetData(n, p)
    BY <1>1, <1>2, <2>1, <2>9 DEF SendInv, SendGetData, HandleGetData
  <2>10. CASE ServeBlock(n, p)
    BY <1>1, <1>2, <2>1, <2>10 DEF ServeBlock
  <2>11. CASE HandleInv(n, p)
    <3> DEFINE missing == Missing(Received(n, p).hashes, processed[n])
               state == IF missing = <<>> THEN Idle
                        ELSE Sending("requesting", missing)
    <3>1. Become(n, p, state) /\ Rests(state)
      BY <1>2, <2>11 DEF HandleInv
    <3> HIDE DEF state
    <3> QED BY <1>1, <2>1, <3>1
  <2> QED BY <1>3, <2>2, <2>3, <2>4, <2>5, <2>6, <2>7, <2>8, <2>9, <2>10, <2>11
          DEF ReadMessages
<1>4. ASSUME UNCHANGED reader PROVE ReaderStep(l)
  BY <1>4 DEF ReaderStep
<1>5. ASSUME NEW k \in Link,
             \/ HandleStream(k[1], k[2])
             \/ ReadHeight(k[1], k[2]) \/ SendVersion(k[1], k[2])
      PROVE  UNCHANGED reader
  BY <1>5 DEF HandleStream, ReadHeight, SendVersion
<1>6. ASSUME NEW n,
             \/ \E bpm \in Bpm : AddBlock(n, bpm)
             \/ SyncCommand(n) \/ DiscoverPeers(n) \/ SyncTask(n)
             \/ \E hash \in Hash :
                  FindCommand(n, hash) \/ CleanupProcessedBlocks(n, hash)
      PROVE  UNCHANGED reader
  BY <1>6 DEF AddBlock, SyncCommand, DiscoverPeers, SyncTask, FindCommand,
              CleanupProcessedBlocks
<1> QED BY <1>3, <1>4, <1>5, <1>6 DEF Next, vars

\* One block appended: the producer's own, or one that a peer has.
Appended(n, b, now) ==
  /\ Accepts(chain[n], b, now)
  /\ chain' = [chain EXCEPT ![n] = Append(@, b)]
  /\ \/ n \in Producer /\ b.time = now
     \/ \E q \in Node : <<n, q>> \in Link /\ Has(q, b)

LEMMA ChainSteps ==
  ASSUME SyncInv, RequestInv, HeldInv, [Next]_vars
  PROVE  \/ UNCHANGED chain
         \/ \E n \in Node, b \in Block : \E now \in Clock[n] : Appended(n, b, now)
<1> DEFINE Goal ==
      \/ UNCHANGED chain
      \/ \E n \in Node, b \in Block : \E now \in Clock[n] : Appended(n, b, now)
<1>1. ASSUME NEW n \in Node, NEW p, <<n, p>> \in Link, ReadMessages(n, p)
      PROVE  Goal
  <2>1. p \in Node /\ reader[<<n, p>>] \in Reader
    BY <1>1, LinkEnds DEF SyncInv, TypeOK
  <2>2. CASE ProcessReceived(n, p)
    <3> DEFINE b == reader[<<n, p>>].block
    <3>1. b \in Block /\ Has(p, b)
      BY <1>1, <2>1, <2>2, ReaderFields DEF ProcessReceived, HeldInv
    <3>2. PICK now \in Clock[n] : Process(n, b, now, stream)
      BY <2>2 DEF ProcessReceived
    <3> HIDE DEF b
    <3> QED BY <1>1, <2>1, <3>1, <3>2 DEF Process, Appended
  <2>3. CASE HandleBlockFound(n, p)
    <3>1. Received(n, p).type = "blockfound"
      BY <2>3 DEF HandleBlockFound, Arrived
    <3>2. Received(n, p) \in Message
      BY <1>1, <2>3, ArrivedTyped DEF HandleBlockFound, SyncInv
    <3>3. /\ Received(n, p).found \in SUBSET Block
          /\ \A b \in Received(n, p).found : Has(p, b)
      BY <1>1, <2>3, <3>1, <3>2, MessageFields, ReceivedHonest
         DEF HandleBlockFound, Honest
    <3>4. CASE UNCHANGED chain
      BY <3>4
    <3>5. ASSUME NEW b \in Received(n, p).found, NEW now \in Clock[n],
                 NEW lost, Process(n, b, now, Consumed(n, p, lost))
          PROVE  Goal
      BY <1>1, <2>1, <3>3, <3>5 DEF Process, Appended
    <3> QED BY <2>3, <3>4, <3>5 DEF HandleBlockFound
  <2>4. CASE ~ProcessReceived(n, p) /\ ~HandleBlockFound(n, p)
    BY <1>1, <2>4 DEF ReadMessages, HandleVersion, HandleVerAck, ReadTip,
       SendGetBlocks, SendGetPeers, HandleGetPeers, HandlePeers, CheckBlock,
       MarkProcessed, HandleGetBlocks, SendInv, HandleInv, SendGetData,
       HandleGetData, ServeBlock, HandleFindBlock, GiveUp
  <2> QED BY <2>2, <2>3, <2>4
<1>2. ASSUME NEW n \in Producer, NEW bpm \in Bpm, AddBlock(n, bpm) PROVE Goal
  <2>1. n \in Node
    BY SyncAssumption
  <2>2. PICK now \in Clock[n] :
          LET b == NewBlock(Tip(chain[n]).index + 1, now, bpm,
                            Tip(chain[n]).hash) IN
          b \in Block /\ Process(n, b, now, stream)
    BY <1>2 DEF AddBlock
  <2>3. \A index, bpmOf, prev : NewBlock(index, now, bpmOf, prev).time = now
    BY DEF NewBlock
  <2> QED BY <2>1, <2>2, <2>3 DEF Process, Appended
<1>3. ASSUME UNCHANGED chain PROVE Goal
  BY <1>3
<1>4. ASSUME NEW k \in Link,
             \/ HandleStream(k[1], k[2])
             \/ ReadHeight(k[1], k[2]) \/ SendVersion(k[1], k[2])
      PROVE  UNCHANGED chain
  BY <1>4 DEF HandleStream, ReadHeight, SendVersion
<1>5. ASSUME NEW n, \/ SyncCommand(n) \/ DiscoverPeers(n) \/ SyncTask(n)
                    \/ \E hash \in Hash :
                         FindCommand(n, hash) \/ CleanupProcessedBlocks(n, hash)
      PROVE  UNCHANGED chain
  BY <1>5 DEF SyncCommand, DiscoverPeers, SyncTask, FindCommand,
              CleanupProcessedBlocks
<1>6. ASSUME NEW k \in Link,
             \/ HandleStream(k[1], k[2])
             \/ ReadHeight(k[1], k[2]) \/ SendVersion(k[1], k[2])
             \/ ReadMessages(k[1], k[2])
      PROVE  Goal
  <2>1. k[1] \in Node /\ <<k[1], k[2]>> \in Link
    BY LinkEnds
  <2> QED BY <1>1, <1>3, <1>4, <1>6, <2>1
<1> HIDE DEF Goal
<1>7. ASSUME UNCHANGED vars PROVE Goal
  BY <1>3, <1>7 DEF vars
<1>8. Goal
  BY <1>2, <1>3, <1>5, <1>6, <1>7 DEF Next
<1> QED BY <1>8 DEF Goal

LEMMA ChainsGrow ==
  ASSUME SyncInv, RequestInv, HeldInv, [Next]_vars
  PROVE  Grown
<1>1. CASE UNCHANGED chain
  BY <1>1 DEF Grown
<1>2. ASSUME NEW n \in Node, NEW b \in Block, NEW now, Appended(n, b, now)
      PROVE  Grown
  BY <1>2 DEF Appended, Grown, SyncInv, TypeOK
<1> QED BY <1>1, <1>2, ChainSteps

LEMMA InitHeld == Init => HeldInv
BY DEF Init, HeldInv, Idle

LEMMA StepHeld == SyncInv /\ RequestInv /\ HeldInv /\ [Next]_vars => HeldInv'
<1> SUFFICES ASSUME SyncInv, RequestInv, HeldInv, [Next]_vars,
                    NEW l \in Link, reader'[l].at = "checked"
             PROVE  Has(l[2], reader[l].block)'
  BY DEF HeldInv
<1>1. /\ Grown /\ l[2] \in Node
      /\ \A b : Has(l[2], b) => Has(l[2], b)'
  BY ChainsGrow, HasKept, LinkEnds
<1>2. Has(l[2], reader'[l].block)
  <2>1. CASE reader'[l] = reader[l]
    BY <2>1 DEF HeldInv
  <2>2. CASE /\ CheckBlock(l[1], l[2])
             /\ reader'[l] = Holding("checked", Received(l[1], l[2]).block)
    <3>1. Honest(l[2], l[1], Received(l[1], l[2]))
      BY <2>2, ReceivedHonest, LinkEnds DEF CheckBlock
    <3> QED BY <2>2, <3>1 DEF Honest, Holding, CheckBlock, Arrived
  <2>3. CASE reader'[l] = Holding("decided", reader[l].block)
    BY <2>3 DEF Holding
  <2>4. CASE GiveUp(l[1], l[2])
    <3>1. reader'[l] = Gone
      BY <2>4, BecomeOnly, LinkEnds DEF GiveUp
    <3> QED BY <3>1 DEF Gone
  <2> QED BY <2>1, <2>2, <2>3, <2>4, ReaderSteps DEF ReaderStep
<1>3. \A b : b = reader'[l].block => Has(l[2], b)'
  BY <1>1, <1>2
<1> QED BY <1>3 DEF Has
-----------------------------------------------------------------------------
(***************************************************************************)
(* Nobody leaves the producer's chain                                      *)
(***************************************************************************)
\* The prefix relation, block by block.
LEMMA PrefixByBlocks ==
  ASSUME NEW c \in Seq(Block), NEW d \in Seq(Block)
  PROVE  IsPrefix(c, d) <=> /\ Len(c) <= Len(d)
                            /\ \A i \in 1 .. Len(c) : c[i] = d[i]
<1>1. Len(c) \in Nat /\ Len(d) \in Nat
  BY LenProperties
<1>2. ASSUME Len(c) <= Len(d)
      PROVE  IsPrefix(c, d) <=> \A i \in 1 .. Len(c) : c[i] = d[i]
  <2> DEFINE e == SubSeq(d, 1, Len(c))
  <2>1. \A i \in 1 .. Len(c) : c[i] \in Block /\ d[i] \in Block
    BY <1>1, <1>2
  <2>2. e \in Seq(Block) /\ Len(e) = Len(c) /\ \A i \in 1 .. Len(c) : e[i] = d[i]
    BY <1>1, <2>1, SubSeqProperties
  <2>3. SubSeq(c, 1, Len(c)) = c
    <3> DEFINE f == SubSeq(c, 1, Len(c))
    <3>1. f \in Seq(Block) /\ Len(f) = Len(c) /\ \A i \in 1 .. Len(c) : f[i] = c[i]
      BY <1>1, <2>1, SubSeqProperties
    <3> HIDE DEF f
    <3>2. f = c
      BY <3>1, SeqEqual
    <3> QED BY <3>2 DEF f
  <2>4. IsPrefix(c, d) <=> c = e
    BY <1>2, <2>3 DEF IsPrefix
  <2> HIDE DEF e
  <2>5. c = e <=> \A i \in 1 .. Len(c) : c[i] = e[i]
    BY <2>2, SeqEqual
  <2> QED BY <2>2, <2>4, <2>5
<1>3. ASSUME ~(Len(c) <= Len(d)) PROVE ~IsPrefix(c, d)
  BY <1>3 DEF IsPrefix
<1> QED BY <1>2, <1>3

LEMMA FollowsByBlocks ==
  ASSUME NEW c \in [Node -> Seq(Block)], NEW p \in Node
  PROVE  (\A n \in Node : IsPrefix(c[n], c[p])) <=>
           \A n \in Node : /\ Len(c[n]) <= Len(c[p])
                           /\ \A i \in 1 .. Len(c[n]) : c[n][i] = c[p][i]
BY PrefixByBlocks

\* The producer has every block of the others, at the same place.
LEMMA BlockOfProducer ==
  ASSUME SyncInv, NEW p \in Node, Producer = {p}, FollowsProducer,
         NEW q \in Node, NEW b, Has(q, b)
  PROVE  /\ b.index \in 0 .. Len(chain[q]) - 1
         /\ chain[q][b.index + 1] = b /\ chain[p][b.index + 1] = b
<1>1. PICK i \in 1 .. Len(chain[q]) : chain[q][i] = b
  BY DEF Has
<1>2. chain[q] \in Seq(Block) /\ WellFormed(chain[q]) /\ Len(chain[q]) \in Nat
  BY TipTyped DEF SyncInv, ChainsWellFormed
<1>3. b.index = i - 1
  BY <1>1, <1>2, IndexIsPosition
<1>4. chain[p][i] = b
  BY <1>1, FollowsByBlocks DEF FollowsProducer, SyncInv, TypeOK
<1>5. i = b.index + 1 /\ b.index \in 0 .. Len(chain[q]) - 1
  BY <1>2, <1>3
<1> QED BY <1>1, <1>4, <1>5

\* Nothing but the producer's next block can be accepted from a peer.
LEMMA AcceptedIsNext ==
  ASSUME SyncInv, NEW p \in Node, Producer = {p}, FollowsProducer,
         NEW n \in Node, NEW q \in Node, NEW b \in Block, Has(q, b),
         NEW now, Accepts(chain[n], b, now)
  PROVE  /\ Len(chain[n]) < Len(chain[p])
         /\ chain[p][Len(chain[n]) + 1] = b
<1>1. /\ chain[n] \in Seq(Block) /\ WellFormed(chain[n])
      /\ Len(chain[n]) \in Nat \ {0}
      /\ Len(chain[q]) \in Nat /\ Len(chain[p]) \in Nat
  BY TipTyped DEF SyncInv, ChainsWellFormed
<1>2. b.index = Tip(chain[n]).index + 1
  BY DEF Accepts, ValidAfter, Follows
<1>3. Tip(chain[n]).index = Len(chain[n]) - 1
  BY <1>1, IndexIsPosition DEF Tip
<1>4. b.index + 1 = Len(chain[n]) + 1
  BY <1>1, <1>2, <1>3
<1>5. b.index + 1 \in 1 .. Len(chain[q]) /\ chain[p][b.index + 1] = b
  BY BlockOfProducer
<1>6. Len(chain[q]) <= Len(chain[p])
  BY FollowsByBlocks DEF FollowsProducer, SyncInv, TypeOK
<1> QED BY <1>1, <1>4, <1>5, <1>6

LEMMA StepFollows ==
  ASSUME NEW p \in Node, Producer = {p},
         SyncInv, RequestInv, HeldInv, FollowsProducer, [Next]_vars
  PROVE  FollowsProducer'
<1>1. SyncInv'
  BY StepKeeps
<1>2. CASE UNCHANGED chain
  BY <1>2 DEF FollowsProducer
<1>3. ASSUME NEW n \in Node, NEW b \in Block, NEW now \in Clock[n],
             Appended(n, b, now)
      PROVE  FollowsProducer'
  <2> DEFINE c == chain[n]
  <2>1. \A m \in Node : /\ chain[m] \in Seq(Block) /\ Len(chain[m]) \in Nat
                        /\ Len(chain[m]) <= Len(chain[p])
                        /\ \A i \in 1 .. Len(chain[m]) :
                             chain[m][i] = chain[p][i]
    BY TipTyped, FollowsByBlocks DEF FollowsProducer, SyncInv, TypeOK
  <2>2. /\ chain'[n] = Append(c, b)
        /\ \A m \in Node \ {n} : chain'[m] = chain[m]
    BY <1>3 DEF Appended, SyncInv, TypeOK
  <2>3. /\ Len(Append(c, b)) = Len(c) + 1
        /\ \A i \in 1 .. Len(c) : Append(c, b)[i] = c[i]
        /\ Append(c, b)[Len(c) + 1] = b
    BY <2>1, AppendProperties
  <2>4. CASE n = p
    <3>1. \A m \in Node : /\ Len(chain'[m]) <= Len(chain'[p])
                          /\ \A i \in 1 .. Len(chain'[m]) :
                               chain'[m][i] = chain'[p][i]
      <4> TAKE m \in Node
      <4>1. CASE m = p
        <5>1. Len(chain'[p]) \in Nat
          BY <2>1, <2>2, <2>3, <2>4
        <5> QED BY <4>1, <5>1
      <4>2. CASE m # p
        <5>1. chain'[m] = chain[m] /\ chain'[p] = Append(chain[p], b)
          BY <2>2, <2>4, <4>2
        <5> QED BY <2>1, <2>3, <2>4, <5>1
      <4> QED BY <4>1, <4>2
    <3> QED BY <1>1, <3>1, FollowsByBlocks DEF FollowsProducer, SyncInv, TypeOK
  <2>5. CASE n # p
    <3>1. Len(c) < Len(chain[p]) /\ chain[p][Len(c) + 1] = b
      BY <1>3, <2>5, AcceptedIsNext DEF Appended
    <3>2. chain'[p] = chain[p]
      BY <2>2, <2>5
    <3>3. \A m \in Node : /\ Len(chain'[m]) <= Len(chain'[p])
                          /\ \A i \in 1 .. Len(chain'[m]) :
                               chain'[m][i] = chain'[p][i]
      <4> TAKE m \in Node
      <4>1. CASE m = n
        <5>1. /\ chain'[m] = Append(c, b) /\ Len(c) + 1 <= Len(chain[p])
              /\ Len(c) \in Nat
          BY <2>1, <2>2, <3>1, <4>1
        <5>2. \A i \in 1 .. Len(c) + 1 : Append(c, b)[i] = chain[p][i]
          <6> HIDE DEF c
          <6>1. \A i \in 1 .. Len(c) : c[i] = chain[p][i]
            BY <2>1 DEF c
          <6> QED BY <2>3, <3>1, <5>1, <6>1
        <5> QED BY <2>3, <3>2, <5>1, <5>2
      <4>2. CASE m # n
        BY <2>1, <2>2, <3>2, <4>2
      <4> QED BY <4>1, <4>2
    <3> QED BY <1>1, <3>3, FollowsByBlocks DEF FollowsProducer, SyncInv, TypeOK
  <2> QED BY <2>4, <2>5
<1> QED BY <1>2, <1>3, ChainSteps

\* With one producer, in any network, with any clocks and whatever users
\* command, every chain is at all times a prefix of the producer's.
THEOREM AlwaysFollowsProducer ==
  ASSUME NEW p \in Node, Producer = {p},
         \A n \in Node : IsPrefix(InitialChain[n], InitialChain[p])
  PROVE  Spec => []FollowsProducer
<1>1. Init => FollowsProducer
  BY DEF Init, FollowsProducer
<1>2. SyncInv /\ RequestInv /\ HeldInv /\ FollowsProducer /\ [Next]_vars
        => FollowsProducer'
  BY StepFollows
<1> QED BY <1>1, <1>2, InitKeeps, StepKeeps, InitHonest, StepHonest,
           InitHeld, StepHeld, PTL DEF Spec
-----------------------------------------------------------------------------
(***************************************************************************)
(* The order in which blocks travel.  s are the messages under way to a    *)
(* node with `to' blocks, written by one with `from' blocks, r the reader  *)
(* that takes them.                                                        *)
(***************************************************************************)
Brings(m, j) == m.type = "block" /\ m.block.index = j
Holds(r, j) == r.at = "checked" /\ r.block.index = j

\* The block of index j has come, or comes before the k-th message.
ComesBefore(s, r, to, k, j) ==
  \/ j < to
  \/ Holds(r, j)
  \/ \E i \in 1 .. k - 1 : Brings(s[i], j)

\* No block comes before one of a lower index, and all of them come.
InOrder(s, r, from, to) ==
  /\ \A k \in 1 .. Len(s) : \A x \in Nat :
       Brings(s[k], x) => \A j \in 0 .. x - 1 : ComesBefore(s, r, to, k, j)
  /\ \A j \in 0 .. from - 1 : ComesBefore(s, r, to, Len(s) + 1, j)
  /\ \A x \in Nat : Holds(r, x) => x <= to

\* The reader goes on, and what it held is on the chain.
LEMMA ReaderGoesOn ==
  ASSUME NEW s, NEW r, NEW from \in Nat, NEW to \in Nat, NEW next, NEW upTo \in Nat,
         InOrder(s, r, from, to), to <= upTo,
         \A j \in Nat : Holds(r, j) => j < upTo \/ Holds(next, j),
         \A j \in Nat : Holds(next, j) => j <= upTo
  PROVE  InOrder(s, next, from, upTo)
<1>1. ASSUME NEW k, NEW j \in Nat, ComesBefore(s, r, to, k, j)
      PROVE  ComesBefore(s, next, upTo, k, j)
  BY <1>1 DEF ComesBefore
<1>2. \A x \in Nat : 0 .. x - 1 \subseteq Nat
  OBVIOUS
<1> QED BY <1>1, <1>2 DEF InOrder

\* The reader takes the first message, with its block if it brings one.
LEMMA FirstIsTaken ==
  ASSUME NEW s \in Seq(Message), s # <<>>,
         NEW r, NEW from \in Nat, NEW to \in Nat, NEW next,
         InOrder(s, r, from, to), r.at # "checked",
         \A j \in Nat : Brings(s[1], j) => j < to \/ Holds(next, j),
         \A j \in Nat : Holds(next, j) => Brings(s[1], j)
  PROVE  InOrder(SubSeq(s, 2, Len(s)), next, from, to)
<1> DEFINE t == SubSeq(s, 2, Len(s))
<1>1. Len(s) \in Nat \ {0} /\ 1 \in 1 .. Len(s)
  BY LenProperties, EmptySeq
<1>2. /\ Len(t) = Len(s) - 1
      /\ \A i \in 1 .. Len(t) : t[i] = s[i + 1]
  <2>1. 0 \in Nat /\ 0 < Len(s)
    BY <1>1
  <2>2. /\ Len(SubSeq(s, 0 + 2, Len(s))) = Len(s) - 0 - 1
        /\ \A i \in 1 .. Len(s) - 0 - 1 :
             SubSeq(s, 0 + 2, Len(s))[i] = s[i + 0 + 1]
    BY <2>1, RestOfSeq
  <2> QED BY <1>1, <2>2
<1> HIDE DEF t
<1>3. ASSUME NEW k \in 1 .. Len(t) + 1, NEW j \in Nat,
             ComesBefore(s, r, to, k + 1, j)
      PROVE  ComesBefore(t, next, to, k, j)
  <2>1. CASE j < to
    BY <2>1 DEF ComesBefore
  <2>2. CASE Brings(s[1], j)
    BY <2>2 DEF ComesBefore
  <2>3. ASSUME NEW i \in 1 .. k, Brings(s[i], j), i # 1
        PROVE  ComesBefore(t, next, to, k, j)
    <3>1. i - 1 \in 1 .. k - 1 /\ i - 1 \in 1 .. Len(t) /\ (i - 1) + 1 = i
      BY <1>1, <1>2, <2>3
    <3>2. t[i - 1] = s[i]
      BY <1>2, <3>1
    <3> QED BY <2>3, <3>1, <3>2 DEF ComesBefore
  <2>4. ~Holds(r, j)
    BY DEF Holds
  <2>5. (k + 1) - 1 = k
    BY <1>1, <1>2
  <2> QED BY <1>3, <2>1, <2>2, <2>3, <2>4, <2>5 DEF ComesBefore
<1>4. \A x \in Nat : 0 .. x - 1 \subseteq Nat
  OBVIOUS
<1>5. ASSUME NEW k \in 1 .. Len(t), NEW x \in Nat, Brings(t[k], x),
             NEW j \in 0 .. x - 1
      PROVE  ComesBefore(t, next, to, k, j)
  <2>1. k + 1 \in 1 .. Len(s) /\ t[k] = s[k + 1] /\ k \in 1 .. Len(t) + 1
    BY <1>1, <1>2
  <2>2. ComesBefore(s, r, to, k + 1, j)
    BY <1>5, <2>1 DEF InOrder
  <2> QED BY <1>3, <2>1, <2>2
<1>6. ASSUME NEW j \in 0 .. from - 1
      PROVE  ComesBefore(t, next, to, Len(t) + 1, j)
  <2>1. /\ ComesBefore(s, r, to, Len(s) + 1, j)
        /\ Len(t) + 1 \in 1 .. Len(t) + 1 /\ (Len(t) + 1) + 1 = Len(s) + 1
    BY <1>1, <1>2 DEF InOrder
  <2> QED BY <1>3, <2>1
<1>7. ASSUME NEW x \in Nat, Holds(next, x) PROVE x <= to
  <2>1. \A j \in 0 .. x - 1 : ComesBefore(s, r, to, 1, j)
    BY <1>1, <1>7 DEF InOrder
  <2>2. \A j \in 0 .. x - 1 : j < to
    BY <2>1 DEF ComesBefore, Holds
  <2>3. CASE x = 0
    BY <2>3
  <2>4. CASE x # 0
    <3>1. x - 1 \in 0 .. x - 1
      BY <2>4
    <3>2. x - 1 < to
      BY <2>2, <3>1
    <3> QED BY <3>2
  <2> QED BY <2>3, <2>4
<1>8. InOrder(t, next, from, to)
  BY <1>5, <1>6, <1>7 DEF InOrder
<1> QED BY <1>8 DEF t

\* The writer adds a message: with a block it has, or with its new one.
LEMMA LastIsWritten ==
  ASSUME NEW s \in Seq(Message), NEW r, NEW from \in Nat, NEW to \in Nat,
         InOrder(s, r, from, to), NEW m \in Message, NEW upFrom \in Nat,
         \/ upFrom = from /\ \A x \in Nat : Brings(m, x) => x < from
         \/ upFrom = from + 1 /\ \A x \in Nat : Brings(m, x) <=> x = from
  PROVE  InOrder(Append(s, m), r, upFrom, to)
<1> DEFINE t == Append(s, m)
<1>1. /\ Len(t) = Len(s) + 1 /\ Len(s) \in Nat
      /\ \A i \in 1 .. Len(s) : t[i] = s[i]
      /\ t[Len(s) + 1] = m
  BY AppendProperties, LenProperties
<1> HIDE DEF t
<1>2. ASSUME NEW k \in 1 .. Len(s) + 1, NEW j, ComesBefore(s, r, to, k, j)
      PROVE  ComesBefore(t, r, to, k, j) /\ ComesBefore(t, r, to, Len(t) + 1, j)
  <2>1. ASSUME NEW i \in 1 .. k - 1
        PROVE  t[i] = s[i] /\ i \in 1 .. (Len(t) + 1) - 1
    BY <1>1
  <2> QED BY <1>2, <2>1 DEF ComesBefore
<1>3. \A j \in 0 .. from - 1 :
        /\ ComesBefore(t, r, to, Len(s) + 1, j)
        /\ ComesBefore(t, r, to, Len(t) + 1, j)
  BY <1>1, <1>2 DEF InOrder
<1>4. ASSUME NEW k \in 1 .. Len(t), NEW x \in Nat, Brings(t[k], x),
             NEW j \in 0 .. x - 1
      PROVE  ComesBefore(t, r, to, k, j)
  <2>1. CASE k = Len(s) + 1
    <3>1. x <= from
      BY <1>1, <1>4, <2>1
    <3> QED BY <1>3, <2>1, <3>1
  <2>2. CASE k # Len(s) + 1
    <3>1. k \in 1 .. Len(s) /\ t[k] = s[k] /\ k \in 1 .. Len(s) + 1
      BY <1>1, <2>2
    <3>2. ComesBefore(s, r, to, k, j)
      BY <1>4, <3>1 DEF InOrder
    <3> QED BY <1>2, <3>1, <3>2
  <2> QED BY <2>1, <2>2
<1>5. ASSUME NEW j \in 0 .. upFrom - 1
      PROVE  ComesBefore(t, r, to, Len(t) + 1, j)
  <2>1. CASE j \in 0 .. from - 1
    BY <1>3, <2>1
  <2>2. CASE j \notin 0 .. from - 1
    <3>1. j = from /\ Brings(m, j)
      BY <2>2
    <3>2. Len(s) + 1 \in 1 .. (Len(t) + 1) - 1
      BY <1>1
    <3> QED BY <1>1, <3>1, <3>2 DEF ComesBefore
  <2> QED BY <2>1, <2>2
<1>6. InOrder(t, r, upFrom, to)
  BY <1>4, <1>5 DEF InOrder
<1> QED BY <1>6 DEF t
-----------------------------------------------------------------------------
(***************************************************************************)
(* The same for all streams s: rd are the readers, wrote the chains of the *)
(* writers and have those of the readers.                                  *)
(***************************************************************************)
Ordered(s, rd, wrote, have) ==
  \A l \in Link : InOrder(s[l], rd[<<l[2], l[1]>>],
                          Len(wrote[l[1]]), Len(have[l[2]]))

OrderInv == Ordered(stream, reader, chain, chain)

Chains == [Node -> Seq(Block)]

LEMMA Lengths ==
  ASSUME NEW c \in Chains, NEW n \in Node
  PROVE  Len(c[n]) \in Nat
BY LenProperties DEF Chains

\* One message is written to one peer.
LEMMA WriteOrdered ==
  ASSUME NEW s \in Written, NEW rd, NEW wrote \in Chains, NEW have \in Chains,
         Ordered(s, rd, wrote, have), NEW k \in Link, NEW m \in Message,
         \A x \in Nat : Brings(m, x) => x < Len(wrote[k[1]])
  PROVE  Ordered([s EXCEPT ![k] = Append(@, m)], rd, wrote, have)
<1> DEFINE t == [s EXCEPT ![k] = Append(@, m)]
<1> SUFFICES ASSUME NEW l \in Link
             PROVE  InOrder(t[l], rd[<<l[2], l[1]>>],
                            Len(wrote[l[1]]), Len(have[l[2]]))
  BY DEF Ordered
<1>1. /\ s[l] \in Seq(Message)
      /\ Len(wrote[l[1]]) \in Nat /\ Len(have[l[2]]) \in Nat
      /\ InOrder(s[l], rd[<<l[2], l[1]>>], Len(wrote[l[1]]), Len(have[l[2]]))
  BY LinkEnds, Lengths DEF Written, Ordered
<1>2. CASE l = k
  <2>1. t[l] = Append(s[l], m)
    BY <1>2 DEF Written
  <2> HIDE DEF t
  <2> QED BY <1>1, <1>2, <2>1, LastIsWritten
<1>3. CASE l # k
  <2>1. t[l] = s[l]
    BY <1>3 DEF Written
  <2> QED BY <1>1, <2>1
<1> QED BY <1>2, <1>3

\* One message is written to all peers; with a block, right after it was
\* appended or at any time later.
LEMMA ToAllOrdered ==
  ASSUME NEW s \in Written, NEW rd, NEW wrote \in Chains, NEW have \in Chains,
         Ordered(s, rd, wrote, have), NEW n \in Node, NEW m \in Message,
         Connected(n) = {l \in Link : l[1] = n}, NEW now \in Chains,
         \A q \in Node \ {n} : now[q] = wrote[q],
         \/ /\ now[n] = wrote[n]
            /\ \A x \in Nat : Brings(m, x) => x < Len(wrote[n])
         \/ /\ Len(now[n]) = Len(wrote[n]) + 1
            /\ \A x \in Nat : Brings(m, x) <=> x = Len(wrote[n])
  PROVE  Ordered(ToAll(s, n, m), rd, now, have)
<1> SUFFICES ASSUME NEW l \in Link
             PROVE  InOrder(ToAll(s, n, m)[l], rd[<<l[2], l[1]>>],
                            Len(now[l[1]]), Len(have[l[2]]))
  BY DEF Ordered
<1>1. /\ s[l] \in Seq(Message)
      /\ Len(wrote[l[1]]) \in Nat /\ Len(have[l[2]]) \in Nat
      /\ Len(now[l[1]]) \in Nat /\ l[1] \in Node
      /\ InOrder(s[l], rd[<<l[2], l[1]>>], Len(wrote[l[1]]), Len(have[l[2]]))
  BY LinkEnds, Lengths DEF Written, Ordered
<1>2. CASE l[1] = n
  <2>1. ToAll(s, n, m)[l] = Append(s[l], m)
    BY <1>2 DEF ToAll
  <2>2. \/ /\ Len(now[l[1]]) = Len(wrote[l[1]])
           /\ \A x \in Nat : Brings(m, x) => x < Len(wrote[l[1]])
        \/ /\ Len(now[l[1]]) = Len(wrote[l[1]]) + 1
           /\ \A x \in Nat : Brings(m, x) <=> x = Len(wrote[l[1]])
    BY <1>2
  <2> DEFINE was == Len(wrote[l[1]])
             from == Len(now[l[1]])
             to == Len(have[l[2]])
             r == rd[<<l[2], l[1]>>]
  <2>3. /\ was \in Nat /\ from \in Nat /\ to \in Nat
        /\ InOrder(s[l], r, was, to)
    BY <1>1
  <2> HIDE DEF was, from, to, r
  <2>4. \/ from = was /\ \A x \in Nat : Brings(m, x) => x < was
        \/ from = was + 1 /\ \A x \in Nat : Brings(m, x) <=> x = was
    BY <2>2 DEF was, from
  <2>5. InOrder(Append(s[l], m), r, from, to)
    BY <1>1, <2>3, <2>4, LastIsWritten
  <2> QED BY <2>1, <2>5 DEF from, to, r
<1>3. CASE l[1] # n
  <2>1. ToAll(s, n, m)[l] = s[l] /\ now[l[1]] = wrote[l[1]]
    BY <1>1, <1>3 DEF ToAll
  <2> QED BY <1>1, <2>1
<1> QED BY <1>2, <1>3

\* n's reader for p takes the next message.
LEMMA TakeOrdered ==
  ASSUME SyncInv, OrderInv, ReadAhead = 0, NEW n, NEW p, <<n, p>> \in Link,
         NEW type, Arrived(n, p, type), NEW lost \in Lost(n, p), NEW rd,
         \A l \in Link \ {<<n, p>>} : rd[l] = reader[l],
         \A j \in Nat : Brings(Received(n, p), j) =>
                          j < Len(chain[n]) \/ Holds(rd[<<n, p>>], j),
         \A j \in Nat : Holds(rd[<<n, p>>], j) => Brings(Received(n, p), j)
  PROVE  Ordered(Consumed(n, p, lost), rd, chain, chain)
<1> DEFINE t == Consumed(n, p, lost)
           k == <<p, n>>
<1> SUFFICES ASSUME NEW l \in Link
             PROVE  InOrder(t[l], rd[<<l[2], l[1]>>],
                            Len(chain[l[1]]), Len(chain[l[2]]))
  BY DEF Ordered
<1>1. /\ stream[l] \in Seq(Message)
      /\ Len(chain[l[1]]) \in Nat /\ Len(chain[l[2]]) \in Nat
      /\ InOrder(stream[l], reader[<<l[2], l[1]>>],
                 Len(chain[l[1]]), Len(chain[l[2]]))
      /\ <<l[2], l[1]>> \in Link /\ l = <<l[1], l[2]>> /\ k \in Link
  BY LinkEnds, TipTyped DEF SyncInv, TypeOK, Ordered, OrderInv
<1>2. CASE l = k
  <2>1. lost = 0
    BY DEF Lost
  <2>2. t[l] = SubSeq(stream[l], 2, Len(stream[l]))
    BY <1>2, <2>1 DEF Consumed, SyncInv, TypeOK
  <2>3. /\ stream[l] # <<>> /\ reader[<<n, p>>] = Idle
        /\ Received(n, p) = Head(stream[l])
    BY <1>2 DEF Arrived, Received
  <2>4. Head(stream[l]) = stream[l][1] /\ Idle.at # "checked"
    BY <1>1, <2>3 DEF Idle
  <2>5. l[1] = p /\ l[2] = n
    BY <1>2
  <2> DEFINE r == reader[<<l[2], l[1]>>]
             next == rd[<<l[2], l[1]>>]
  <2>6. /\ \A j \in Nat : Brings(stream[l][1], j) =>
                             j < Len(chain[l[2]]) \/ Holds(next, j)
        /\ \A j \in Nat : Holds(next, j) => Brings(stream[l][1], j)
        /\ r.at # "checked"
    BY <2>3, <2>4, <2>5
  <2>7. InOrder(stream[l], r, Len(chain[l[1]]), Len(chain[l[2]]))
    BY <1>1
  <2> HIDE DEF t, r, next
  <2>8. InOrder(SubSeq(stream[l], 2, Len(stream[l])), next,
                Len(chain[l[1]]), Len(chain[l[2]]))
    BY <1>1, <2>3, <2>6, <2>7, FirstIsTaken
  <2> QED BY <2>2, <2>8 DEF next
<1>3. CASE l # k
  <2>1. t[l] = stream[l]
    BY <1>3 DEF Consumed, SyncInv, TypeOK
  <2>2. <<l[2], l[1]>> # <<n, p>>
    BY <1>1, <1>3
  <2>3. rd[<<l[2], l[1]>>] = reader[<<l[2], l[1]>>]
    BY <1>1, <2>2
  <2> QED BY <1>1, <2>1, <2>3
<1> QED BY <1>2, <1>3

\* Readers go on, and the chain of one node has grown.
LEMMA GoOnOrdered ==
  ASSUME NEW s, NEW rd, NEW wrote \in Chains, NEW have \in Chains,
         Ordered(s, rd, wrote, have), NEW next, NEW now \in Chains,
         \A q \in Node : Len(have[q]) <= Len(now[q]),
         \A l \in Link : \/ next[l] = rd[l]
                         \/ \A j \in Nat : /\ Holds(rd[l], j) => j < Len(now[l[1]])
                                           /\ ~Holds(next[l], j)
  PROVE  Ordered(s, next, wrote, now)
<1> SUFFICES ASSUME NEW l \in Link
             PROVE  InOrder(s[l], next[<<l[2], l[1]>>],
                            Len(wrote[l[1]]), Len(now[l[2]]))
  BY DEF Ordered
<1> DEFINE k == <<l[2], l[1]>>
<1>1. /\ Len(wrote[l[1]]) \in Nat /\ Len(have[l[2]]) \in Nat
      /\ Len(now[l[2]]) \in Nat /\ Len(have[l[2]]) <= Len(now[l[2]])
      /\ InOrder(s[l], rd[k], Len(wrote[l[1]]), Len(have[l[2]]))
      /\ k \in Link /\ k[1] = l[2]
  BY LinkEnds, Lengths DEF Ordered
<1>2. \A j \in Nat : Holds(rd[k], j) => j <= Len(now[l[2]])
  BY <1>1 DEF InOrder
<1>3. /\ \A j \in Nat : Holds(rd[k], j) => j < Len(now[l[2]]) \/ Holds(next[k], j)
      /\ \A j \in Nat : Holds(next[k], j) => j <= Len(now[l[2]])
  BY <1>1, <1>2
<1> HIDE DEF k
<1>4. InOrder(s[l], next[k], Len(wrote[l[1]]), Len(now[l[2]]))
  BY <1>1, <1>3, ReaderGoesOn
<1> QED BY <1>4 DEF k
-----------------------------------------------------------------------------
(***************************************************************************)
(* Connected nodes with one producer, none of whom lags behind the         *)
(* producer's clock by more than the drift that is allowed.                *)
(***************************************************************************)
OneSource(p) ==
  /\ Producer = {p}
  /\ Established
  /\ ReadAhead = 0
  /\ \A n \in Node : InitialChain[n] = InitialChain[p]
  /\ \A n \in Node : \A t \in Clock[p], now \in Clock[n] :
       t <= now + MaxTimeDrift

\* Every connection is up.
GreetedInv == \A l \in Link : session[l] = Greeted /\ reader[l] # Gone

\* Everybody has the initial blocks; the others carry the producer's time.
TimesInv(p) ==
  /\ \A n \in Node : Len(InitialChain[p]) <= Len(chain[n])
  /\ \A k \in Len(InitialChain[p]) + 1 .. Len(chain[p]) :
       chain[p][k].time \in Clock[p]

\* What is decided, and so is about to be marked, is on the chain.
DecidedInv ==
  \A l \in Link :
    reader[l].at = "decided" => OnChain(l[1], reader[l].block.hash)

\* What holds in any network, and with any one producer.
FollowInv == SyncInv /\ RequestInv /\ HeldInv /\ FollowsProducer

GossipInv(p) ==
  /\ GreetedInv
  /\ TimesInv(p)
  /\ HandledMeansOnChain
  /\ DecidedInv
  /\ OrderInv

LEMMA AllConnected ==
  ASSUME GreetedInv, NEW n
  PROVE  Connected(n) = {l \in Link : l[1] = n}
BY DEF GreetedInv, Connected, Greeted, None

LEMMA StepGreeted ==
  ASSUME NEW p, OneSource(p), SyncInv, GreetedInv, [Next]_vars
  PROVE  GreetedInv'
<1>1. UNCHANGED session
  <2>1. ASSUME NEW l \in Link,
               \/ HandleStream(l[1], l[2])
               \/ ReadHeight(l[1], l[2]) \/ SendVersion(l[1], l[2])
        PROVE  FALSE
    <3>1. session[<<l[1], l[2]>>] = Greeted
      BY LinkEnds DEF GreetedInv
    <3>2. Greeted # None /\ Greeted # Registered /\ Greeted.at # "versioning"
      BY DEF Greeted, None, Registered
    <3> QED BY <2>1, <3>1, <3>2 DEF HandleStream, ReadHeight, SendVersion
  <2>2. ASSUME NEW l \in Link, ReadMessages(l[1], l[2])
        PROVE  UNCHANGED session
    BY <2>2 DEF ReadMessages, HandleVersion, HandleVerAck, ReadTip,
       SendGetBlocks, SendGetPeers, HandleGetPeers, HandlePeers, CheckBlock,
       ProcessReceived, MarkProcessed, HandleGetBlocks, SendInv, HandleInv,
       SendGetData, HandleGetData, ServeBlock, HandleFindBlock,
       HandleBlockFound, GiveUp
  <2>3. ASSUME NEW n,
               \/ \E bpm \in Bpm : AddBlock(n, bpm)
               \/ SyncCommand(n) \/ DiscoverPeers(n) \/ SyncTask(n)
               \/ \E hash \in Hash :
                    FindCommand(n, hash) \/ CleanupProcessedBlocks(n, hash)
        PROVE  UNCHANGED session
    BY <2>3 DEF AddBlock, SyncCommand, DiscoverPeers, SyncTask, FindCommand,
                CleanupProcessedBlocks
  <2> QED BY <2>1, <2>2, <2>3 DEF Next, vars
<1>2. ASSUME NEW l \in Link PROVE reader'[l] # Gone
  <2>1. ~GiveUp(l[1], l[2])
    BY DEF GiveUp, OneSource
  <2>2. /\ Gone.at = "gone"
        /\ \A b : Holding("checked", b).at # "gone"
        /\ \A b : Holding("decided", b).at # "gone"
    BY DEF Gone, Holding
  <2> QED BY <2>1, <2>2, ReaderSteps DEF ReaderStep, GreetedInv
<1> QED BY <1>1, <1>2 DEF GreetedInv

LEMMA StepTimes ==
  ASSUME NEW p \in Node, OneSource(p), FollowInv, TimesInv(p), [Next]_vars
  PROVE  TimesInv(p)'
<1>1. CASE UNCHANGED chain
  BY <1>1 DEF TimesInv
<1>2. ASSUME NEW n \in Node, NEW b \in Block, NEW now \in Clock[n],
             Appended(n, b, now)
      PROVE  TimesInv(p)'
  <2>1. \A m \in Node : chain[m] \in Seq(Block) /\ Len(chain[m]) \in Nat
    BY TipTyped DEF FollowInv, SyncInv
  <2>2. /\ chain'[n] = Append(chain[n], b)
        /\ \A m \in Node \ {n} : chain'[m] = chain[m]
    BY <1>2 DEF Appended, FollowInv, SyncInv, TypeOK
  <2>3. /\ Len(Append(chain[n], b)) = Len(chain[n]) + 1
        /\ \A i \in 1 .. Len(chain[n]) : Append(chain[n], b)[i] = chain[n][i]
        /\ Append(chain[n], b)[Len(chain[n]) + 1] = b
    BY <2>1, AppendProperties
  <2>4. Len(InitialChain[p]) \in Nat
    BY SyncAssumption, LenProperties
  <2>5. \A m \in Node : Len(InitialChain[p]) <= Len(chain'[m])
    BY <2>1, <2>2, <2>3, <2>4 DEF TimesInv
  <2>6. CASE n = p
    <3>1. ~ \E q \in Node : Has(q, b)
      <4>1. /\ SyncInv /\ FollowsProducer /\ Producer = {p}
            /\ Accepts(chain[p], b, now)
        BY <1>2, <2>6 DEF Appended, FollowInv, OneSource
      <4>2. ASSUME NEW q \in Node, Has(q, b) PROVE Len(chain[p]) < Len(chain[p])
        BY <4>1, <4>2, AcceptedIsNext
      <4> QED BY <2>1, <4>2
    <3>2. b.time \in Clock[p]
      BY <1>2, <2>6, <3>1 DEF Appended
    <3>3. ASSUME NEW k \in Len(InitialChain[p]) + 1 .. Len(chain[p]) + 1
          PROVE  chain'[p][k].time \in Clock[p]
      <4>1. CASE k \in 1 .. Len(chain[p])
        <5>1. chain'[p][k] = chain[p][k]
          BY <2>2, <2>3, <2>6, <4>1
        <5>2. k \in Len(InitialChain[p]) + 1 .. Len(chain[p])
          BY <2>1, <2>4, <4>1
        <5> QED BY <5>1, <5>2 DEF TimesInv
      <4>2. CASE k = Len(chain[p]) + 1
        BY <2>2, <2>3, <2>6, <3>2, <4>2
      <4> QED BY <2>1, <2>4, <4>1, <4>2
    <3> QED BY <2>2, <2>3, <2>5, <2>6, <3>3 DEF TimesInv
  <2>7. CASE n # p
    <3>1. chain'[p] = chain[p]
      BY <2>2, <2>7
    <3> QED BY <2>5, <3>1 DEF TimesInv
  <2> QED BY <2>6, <2>7
<1> QED BY <1>1, <1>2, ChainSteps DEF FollowInv

\* A node accepts the block of a peer whose turn it is.
LEMMA NextIsAccepted ==
  ASSUME NEW p \in Node, OneSource(p), FollowInv, TimesInv(p),
         NEW n \in Node, NEW q \in Node, NEW b, Has(q, b),
         b.index = Len(chain[n]), NEW now \in Clock[n]
  PROVE  Accepts(chain[n], b, now)
<1> DEFINE c == chain[p]
           k == Len(chain[n]) + 1
<1>1. /\ c \in Seq(Block) /\ WellFormed(c) /\ Len(c) \in Nat
      /\ chain[n] \in Seq(Block) /\ Len(chain[n]) \in Nat \ {0}
      /\ Len(chain[q]) \in Nat
  BY TipTyped DEF FollowInv, SyncInv, ChainsWellFormed
<1>2. /\ Len(chain[q]) <= Len(c)
      /\ \A i \in 1 .. Len(chain[n]) : chain[n][i] = c[i]
  BY FollowsByBlocks DEF FollowInv, FollowsProducer, SyncInv, TypeOK, OneSource
<1>3. b.index \in 0 .. Len(chain[q]) - 1 /\ c[b.index + 1] = b
  BY BlockOfProducer DEF FollowInv, OneSource
<1>4. k \in 2 .. Len(c) /\ c[k] = b /\ c[k - 1] = Tip(chain[n])
  BY <1>1, <1>2, <1>3 DEF Tip
<1>5. HashMatches(b) /\ Follows(b, Tip(chain[n])) /\ b.bpm >= 0
  BY <1>1, <1>4 DEF WellFormed
<1>6. NotInFuture(b, now)
  <2>1. Len(InitialChain[p]) \in Nat /\ Len(InitialChain[p]) <= Len(chain[n])
    BY SyncAssumption, LenProperties DEF TimesInv
  <2>2. k \in Len(InitialChain[p]) + 1 .. Len(c)
    BY <1>1, <1>4, <2>1
  <2>3. b.time \in Clock[p]
    BY <1>4, <2>2 DEF TimesInv
  <2> QED BY <2>3 DEF NotInFuture, OneSource
<1> QED BY <1>5, <1>6 DEF Accepts, ValidAfter

\* What a node accepts it has not handled yet, and so sends on.
LEMMA AcceptedIsNew ==
  ASSUME SyncInv, HandledMeansOnChain, NEW n \in Node, NEW b \in Block,
         NEW now, Accepts(chain[n], b, now)
  PROVE  b.hash \notin processed[n] /\ b.index = Len(chain[n])
<1> DEFINE c == chain[n]
           d == Append(c, b)
<1>1. /\ c \in Seq(Block) /\ WellFormed(c) /\ Len(c) \in Nat \ {0}
  BY TipTyped DEF SyncInv, ChainsWellFormed
<1>2. d \in Seq(Block) /\ WellFormed(d) /\ Len(d) = Len(c) + 1 /\ d[Len(d)] = b
  BY <1>1, AppendProperties, AppendWellFormed
<1>3. b.index = Len(c)
  <2>1. Tip(c).index = Len(c) - 1
    BY <1>1, IndexIsPosition DEF Tip
  <2> QED BY <1>1, <2>1 DEF Accepts, ValidAfter, Follows
<1>4. ASSUME b.hash \in processed[n] PROVE FALSE
  <2>1. PICK i \in 1 .. Len(c) : c[i].hash = b.hash
    BY <1>4 DEF HandledMeansOnChain, OnChain, Positions
  <2>2. Len(d) \in 1 .. Len(d) /\ d[Len(d)].hash = c[i].hash
    BY <1>1, <1>2, <2>1
  <2> HIDE DEF d
  <2>3. Len(d) = i
    BY <1>1, <1>2, <2>1, <2>2, HashDeterminesHistory
  <2> QED BY <1>1, <1>2, <2>1, <2>3
<1> QED BY <1>3, <1>4
-----------------------------------------------------------------------------
(***************************************************************************)
(* Every step keeps the order                                              *)
(***************************************************************************)
\* A message without a block is in order wherever it is written.
LEMMA NoBlock ==
  ASSUME NEW m, m.type # "block"
  PROVE  \A x \in Nat : ~Brings(m, x)
BY DEF Brings

LEMMA NoBlocks ==
  /\ \A height : Version(height).type # "block"
  /\ VerAck.type # "block" /\ GetPeers.type # "block" /\ Peers.type # "block"
  /\ \A start : GetBlocks(start).type # "block"
  /\ \A hashes : /\ Inv(hashes).type # "block"
                 /\ GetData(hashes).type # "block"
  /\ \A hash : FindBlock(hash).type # "block"
  /\ \A found : BlockFound(found).type # "block"
BY DEF Version, VerAck, GetPeers, Peers, GetBlocks, Inv, GetData, FindBlock,
       BlockFound

\* A handler of anything but a block, with at most one answer.
LEMMA AnswerOrdered ==
  ASSUME SyncInv, OrderInv, ReadAhead = 0, NEW n, NEW p, <<n, p>> \in Link,
         NEW type, Arrived(n, p, type), type # "block",
         NEW m \in Message, m.type # "block", NEW replies,
         replies = <<>> \/ replies = <<m>>, Answer(n, p, replies),
         UNCHANGED chain,
         \/ UNCHANGED reader
         \/ \E state : Become(n, p, state) /\ state.at # "checked"
  PROVE  OrderInv'
<1>1. PICK lost \in Lost(n, p) :
        stream' = [Consumed(n, p, lost) EXCEPT ![<<n, p>>] = @ \o replies]
  BY DEF Answer
<1> DEFINE s == Consumed(n, p, lost)
<1>2. s \in Written /\ Received(n, p).type = type
  BY ArrivedTyped DEF SyncInv
<1>3. /\ \A l \in Link \ {<<n, p>>} : reader'[l] = reader[l]
      /\ reader'[<<n, p>>].at # "checked"
  BY BecomeOnly DEF Arrived, Idle
<1>4. /\ \A j \in Nat : ~Brings(Received(n, p), j)
      /\ \A j \in Nat : ~Holds(reader'[<<n, p>>], j)
  BY <1>2, <1>3 DEF Brings, Holds
<1>5. Ordered(s, reader', chain, chain)
  BY <1>3, <1>4, TakeOrdered
<1>6. chain \in Chains /\ \A x \in Nat : Brings(m, x) => x < Len(chain[n])
  BY NoBlock DEF Chains, SyncInv, TypeOK
<1>7. s[<<n, p>>] \in Seq(Message)
  BY <1>2 DEF Written
<1> HIDE DEF s
<1>8. Ordered(stream', reader', chain, chain)
  <2>1. stream' = [s EXCEPT ![<<n, p>>] = @ \o replies]
    BY <1>1 DEF s
  <2>2. CASE replies = <<>>
    <3>1. stream' = s
      BY <1>2, <1>7, <2>1, <2>2, ConcatEmptySeq DEF Written
    <3> QED BY <1>5, <3>1
  <2>3. CASE replies = <<m>>
    <3>1. stream' = [s EXCEPT ![<<n, p>>] = Append(@, m)]
      BY <1>2, <1>7, <2>1, <2>3, AppendIsConcat
    <3> QED BY <1>2, <1>5, <1>6, <3>1, WriteOrdered
  <2> QED BY <2>2, <2>3
<1> QED BY <1>8 DEF OrderInv

\* A goroutine that writes one message, without a block or with one it has.
LEMMA WriteKeepsOrder ==
  ASSUME SyncInv, OrderInv, NEW n, NEW p, <<n, p>> \in Link,
         NEW m \in Message, \A x \in Nat : Brings(m, x) => x < Len(chain[n]),
         stream' = [stream EXCEPT ![<<n, p>>] = Append(@, m)],
         UNCHANGED chain, reader[<<n, p>>].at # "checked",
         NEW state, Become(n, p, state), state.at # "checked"
  PROVE  OrderInv'
<1>1. chain \in Chains /\ stream \in Written
  BY DEF Chains, Written, SyncInv, TypeOK
<1>2. /\ \A l \in Link \ {<<n, p>>} : reader'[l] = reader[l]
      /\ \A j \in Nat : ~Holds(reader'[<<n, p>>], j)
      /\ \A j \in Nat : ~Holds(reader[<<n, p>>], j)
  BY BecomeOnly DEF Holds
<1>3. \A q \in Node : Len(chain[q]) <= Len(chain[q])
  BY <1>1, Lengths
<1>4. Ordered(stream, reader', chain, chain)
  BY <1>1, <1>2, <1>3, GoOnOrdered DEF OrderInv
<1>5. Ordered(stream', reader', chain, chain)
  BY <1>1, <1>4, WriteOrdered
<1> QED BY <1>5 DEF OrderInv

\* ProcessBlock sends on what it appended; s is the streams less what was
\* read, and the readers rd already count on the block.
LEMMA ProcessOrdered ==
  ASSUME SyncInv, HandledMeansOnChain, GreetedInv,
         NEW n \in Node, NEW b \in Block, NEW now, NEW s \in Written, NEW rd,
         Process(n, b, now, s), Ordered(s, rd, chain, chain'),
         chain' \in Chains
  PROVE  Ordered(stream', rd, chain', chain')
<1>1. CASE ~Accepts(chain[n], b, now)
  BY <1>1 DEF Process
<1>2. CASE Accepts(chain[n], b, now)
  <2>1. b.hash \notin processed[n] /\ b.index = Len(chain[n])
    BY <1>2, AcceptedIsNew
  <2>2. stream' = ToAll(s, n, BlockMsg(b))
    BY <1>2, <2>1 DEF Process, Relay
  <2>3. chain \in Chains /\ chain[n] \in Seq(Block)
    BY DEF Chains, SyncInv, TypeOK
  <2>4. /\ chain'[n] = Append(chain[n], b)
        /\ \A q \in Node \ {n} : chain'[q] = chain[q]
    BY <1>2, <2>3 DEF Process, Chains
  <2>5. Len(chain'[n]) = Len(chain[n]) + 1
    BY <2>3, <2>4, AppendProperties
  <2>6. /\ \A x \in Nat : Brings(BlockMsg(b), x) <=> x = Len(chain[n])
        /\ BlockMsg(b) \in Message
    BY <2>1, MessagesTyped DEF Brings, BlockMsg
  <2> QED BY <2>2, <2>3, <2>4, <2>5, <2>6, AllConnected, ToAllOrdered
<1> QED BY <1>1, <1>2

LEMMA ProcessChains ==
  ASSUME SyncInv, NEW n \in Node, NEW b \in Block, NEW now, NEW s \in Written,
         Process(n, b, now, s)
  PROVE  /\ chain \in Chains /\ chain' \in Chains
         /\ \A q \in Node : Len(chain[q]) <= Len(chain'[q])
         /\ Accepts(chain[n], b, now) =>
              Len(chain'[n]) = Len(chain[n]) + 1 /\ Has(n, b)'
<1>1. chain \in Chains /\ chain' \in Chains
  BY ProcessKeeps DEF Chains, SyncInv, TypeOK
<1>2. CASE ~Accepts(chain[n], b, now)
  BY <1>1, <1>2, Lengths DEF Process
<1>3. CASE Accepts(chain[n], b, now)
  <2>1. /\ chain'[n] = Append(chain[n], b)
        /\ \A q \in Node \ {n} : chain'[q] = chain[q]
    BY <1>1, <1>3 DEF Process, Chains
  <2>2. /\ Len(chain[n]) \in Nat /\ Len(chain'[n]) = Len(chain[n]) + 1
        /\ chain'[n][Len(chain[n]) + 1] = b
    BY <1>1, <2>1, AppendProperties, Lengths DEF Chains
  <2>3. \A q \in Node : Len(chain[q]) \in Nat
    BY <1>1, Lengths
  <2>4. Has(n, b)'
    BY <2>2 DEF Has
  <2> QED BY <1>1, <2>1, <2>2, <2>3, <2>4
<1> QED BY <1>2, <1>3

\* After a received block was processed the node has it.
LEMMA ReceivedIsKnown ==
  ASSUME NEW p \in Node, OneSource(p), FollowInv, GossipInv(p),
         NEW n, NEW q, <<n, q>> \in Link, ProcessReceived(n, q),
         NEW b, b = reader[<<n, q>>].block
  PROVE  b.index < Len(chain'[n]) /\ OnChain(n, b.hash)'
<1>1. n \in Node /\ q \in Node /\ <<q, n>> \in Link
  BY LinkEnds
<1>2. /\ reader[<<n, q>>].at = "checked"
      /\ \E now \in Clock[n] : Process(n, b, now, stream)
  BY DEF ProcessReceived
<1>3. b \in Block /\ Has(q, b)
  <2>1. reader[<<n, q>>] \in Reader
    BY DEF FollowInv, SyncInv, TypeOK
  <2> QED BY <1>2, <2>1, ReaderFields DEF FollowInv, HeldInv
<1>4. PICK now \in Clock[n] : Process(n, b, now, stream)
  BY <1>2
<1>5. stream \in Written /\ SyncInv
  BY DEF Written, FollowInv, SyncInv, TypeOK
<1>6. /\ chain \in Chains /\ chain' \in Chains
      /\ Len(chain[n]) \in Nat /\ Len(chain[n]) <= Len(chain'[n])
      /\ Accepts(chain[n], b, now) =>
           Len(chain'[n]) = Len(chain[n]) + 1 /\ Has(n, b)'
  <2>1. /\ chain \in Chains /\ chain' \in Chains
        /\ Len(chain[n]) <= Len(chain'[n])
        /\ Accepts(chain[n], b, now) =>
             Len(chain'[n]) = Len(chain[n]) + 1 /\ Has(n, b)'
    BY <1>1, <1>3, <1>4, <1>5, ProcessChains
  <2> QED BY <1>1, <2>1, Lengths
<1>7. b.index \in Nat
  <2>1. b.index \in 0 .. Len(chain[q]) - 1
    BY <1>1, <1>3, BlockOfProducer DEF FollowInv, OneSource
  <2> QED BY <2>1
<1>8. b.index <= Len(chain[n])
  <2>1. InOrder(stream[<<q, n>>], reader[<<n, q>>],
                Len(chain[q]), Len(chain[n]))
    BY <1>1 DEF GossipInv, OrderInv, Ordered
  <2>2. Holds(reader[<<n, q>>], b.index)
    BY <1>2 DEF Holds
  <2> QED BY <1>7, <2>1, <2>2 DEF InOrder
<1>9. CASE b.index = Len(chain[n])
  <2>1. Accepts(chain[n], b, now)
    BY <1>1, <1>3, <1>4, <1>9, NextIsAccepted DEF GossipInv
  <2>2. Has(n, b)'
    BY <1>6, <2>1
  <2>3. OnChain(n, b.hash)'
    BY <2>2 DEF Has, OnChain, Positions
  <2>4. b.index < Len(chain'[n])
    BY <1>6, <1>9, <2>1
  <2> QED BY <2>3, <2>4
<1>10. CASE b.index # Len(chain[n])
  <2>1. b.index < Len(chain[n]) /\ b.index + 1 \in 1 .. Len(chain[n])
    BY <1>6, <1>7, <1>8, <1>10
  <2>2. chain[p][b.index + 1] = b
    BY <1>1, <1>3, BlockOfProducer DEF FollowInv, OneSource
  <2>3. chain[n][b.index + 1] = b
    BY <1>1, <2>1, <2>2, FollowsByBlocks
       DEF FollowInv, FollowsProducer, SyncInv, TypeOK, OneSource
  <2>4. OnChain(n, b.hash)
    BY <2>1, <2>3 DEF OnChain, Positions
  <2>5. Grown
    BY <1>1, <1>3, <1>4, <1>5, ProcessGrows
  <2>6. OnChain(n, b.hash)'
    BY <1>1, <1>5, <2>4, <2>5, OnChainKept
  <2>7. b.index < Len(chain'[n])
    <3>1. Len(chain'[n]) \in Nat
      BY <1>1, <1>6, Lengths
    <3> QED BY <1>6, <1>7, <2>1, <3>1
  <2> QED BY <2>6, <2>7
<1> QED BY <1>9, <1>10

\* The handlers that answer with no block
LEMMA AnswersKeepOrder ==
  ASSUME SyncInv, OrderInv, ReadAhead = 0, NEW n, NEW p, <<n, p>> \in Link,
         \/ HandleVersion(n, p) \/ HandleVerAck(n, p)
         \/ HandleGetPeers(n, p) \/ HandlePeers(n, p)
         \/ HandleGetBlocks(n, p) \/ HandleInv(n, p)
         \/ HandleGetData(n, p) \/ HandleFindBlock(n, p)
  PROVE  OrderInv'
<1>1. n \in Node /\ chain[n] \in Seq(Block)
  BY LinkEnds DEF SyncInv, TypeOK
<1>2. CASE HandleVersion(n, p)
  BY <1>2, MessagesTyped, NoBlocks, AnswerOrdered DEF HandleVersion
<1>3. CASE HandleVerAck(n, p)
  <2>1. \A what \in {"asking blocks", "asking peers"} :
          Asking(what).at # "checked"
    BY DEF Asking
  <2> QED
    BY <1>3, <2>1, MessagesTyped, NoBlocks, AnswerOrdered DEF HandleVerAck
<1>4. CASE HandleGetPeers(n, p)
  BY <1>4, MessagesTyped, NoBlocks, AnswerOrdered DEF HandleGetPeers
<1>5. CASE HandlePeers(n, p)
  BY <1>5, MessagesTyped, NoBlocks, AnswerOrdered DEF HandlePeers
<1>6. CASE HandleGetBlocks(n, p)
  <2> DEFINE blocks == GetBlocksAfter(chain[n], Received(n, p).start, Limit)
             state == IF blocks = <<>> THEN Idle
                      ELSE Sending("announcing", Hashes(blocks))
  <2>1. Become(n, p, state) /\ state.at # "checked"
    BY <1>6 DEF HandleGetBlocks, Idle, Sending
  <2> HIDE DEF state
  <2> QED
    BY <1>6, <2>1, MessagesTyped, NoBlocks, AnswerOrdered DEF HandleGetBlocks
<1>7. CASE HandleInv(n, p)
  <2> DEFINE missing == Missing(Received(n, p).hashes, processed[n])
             state == IF missing = <<>> THEN Idle
                      ELSE Sending("requesting", missing)
  <2>1. Become(n, p, state) /\ state.at # "checked"
    BY <1>7 DEF HandleInv, Idle, Sending
  <2> HIDE DEF state
  <2> QED BY <1>7, <2>1, MessagesTyped, NoBlocks, AnswerOrdered DEF HandleInv
<1>8. CASE HandleGetData(n, p)
  <2>1. \A hashes : Sending("serving", hashes).at # "checked"
    BY DEF Sending
  <2> QED
    BY <1>8, <2>1, MessagesTyped, NoBlocks, AnswerOrdered DEF HandleGetData
<1>9. CASE HandleFindBlock(n, p)
  <2> DEFINE hash == Received(n, p).hash
             found == IF OnChain(n, hash)
                      THEN {GetBlockByHash(chain[n], hash)} ELSE {}
             m == BlockFound(found)
  <2>1. found \in SUBSET Block
    BY <1>1, GetBlockByHashTyped DEF OnChain
  <2>2. m \in Message /\ m.type # "block"
    BY <2>1, MessagesTyped, NoBlocks
  <2>3. Answer(n, p, <<m>>)
    BY <1>9 DEF HandleFindBlock
  <2> HIDE DEF m
  <2> QED BY <1>9, <2>2, <2>3, AnswerOrdered DEF HandleFindBlock
<1> QED BY <1>2, <1>3, <1>4, <1>5, <1>6, <1>7, <1>8, <1>9

\* The goroutines that go on without a message, and those that write
LEMMA WritesKeepOrder ==
  ASSUME NEW q \in Node, Producer = {q}, FollowInv, OrderInv,
         NEW n, NEW p, <<n, p>> \in Link,
         \/ ReadTip(n, p) \/ SendGetBlocks(n, p) \/ SendGetPeers(n, p)
         \/ SendInv(n, p) \/ SendGetData(n, p) \/ ServeBlock(n, p)
  PROVE  OrderInv'
<1>1. /\ n \in Node /\ chain[n] \in Seq(Block)
      /\ reader[<<n, p>>] \in Reader /\ SyncInv
  BY LinkEnds DEF FollowInv, SyncInv, TypeOK
<1>2. /\ \A what \in {"asking blocks", "asking peers"} :
           Asking(what).at # "checked"
      /\ \A hashes : Sending("serving", hashes).at # "checked"
      /\ Idle.at # "checked"
  BY DEF Asking, Sending, Idle
<1>3. \A m \in Message : m.type # "block" =>
        \A x \in Nat : Brings(m, x) => x < Len(chain[n])
  BY NoBlock
<1>4. CASE SendGetBlocks(n, p)
  <2> DEFINE m == GetBlocks(reader[<<n, p>>].start)
  <2>1. m \in Message /\ m.type # "block"
    BY <1>1, <1>4, ReaderFields, MessagesTyped, NoBlocks DEF SendGetBlocks
  <2> HIDE DEF m
  <2> QED
    BY <1>1, <1>2, <1>3, <1>4, <2>1, WriteKeepsOrder DEF SendGetBlocks, m
<1>5. CASE SendGetPeers(n, p)
  BY <1>1, <1>2, <1>3, <1>5, MessagesTyped, NoBlocks, WriteKeepsOrder
     DEF SendGetPeers
<1>6. CASE SendInv(n, p)
  <2> DEFINE m == Inv(reader[<<n, p>>].hashes)
  <2>1. m \in Message /\ m.type # "block"
    BY <1>1, <1>6, ReaderFields, MessagesTyped, NoBlocks DEF SendInv
  <2> HIDE DEF m
  <2> QED BY <1>1, <1>2, <1>3, <1>6, <2>1, WriteKeepsOrder DEF SendInv, m
<1>7. CASE ServeBlock(n, p)
  <2> DEFINE todo == reader[<<n, p>>].hashes
             b == GetBlockByHash(chain[n], Head(todo))
  <2>1. UNCHANGED chain /\ reader[<<n, p>>].at # "checked"
    BY <1>7 DEF ServeBlock
  <2>2. CASE /\ OnChain(n, Head(todo))
             /\ stream' = [stream EXCEPT ![<<n, p>>] = Append(@, BlockMsg(b))]
             /\ Become(n, p, Sending("serving", Tail(todo)))
    <3>1. b \in Block /\ Has(n, b)
      BY <1>1, <2>2, GetBlockByHashTyped DEF OnChain, Has
    <3>2. b.index \in 0 .. Len(chain[n]) - 1 /\ Len(chain[n]) \in Nat
      BY <1>1, <3>1, BlockOfProducer, TipTyped DEF FollowInv, SyncInv
    <3> HIDE DEF b
    <3>3. \A x \in Nat : Brings(BlockMsg(b), x) => x < Len(chain[n])
      BY <3>2 DEF Brings, BlockMsg
    <3>4. BlockMsg(b) \in Message
      BY <3>1, MessagesTyped
    <3> QED BY <1>1, <1>2, <2>1, <2>2, <3>3, <3>4, WriteKeepsOrder
  <2>3. CASE /\ UNCHANGED stream
             /\ \/ Become(n, p, Sending("serving", Tail(todo)))
                \/ Become(n, p, Idle)
    <3>1. PICK state : Become(n, p, state) /\ state.at # "checked"
      BY <1>2, <2>3
    <3>2. /\ \A l \in Link \ {<<n, p>>} : reader'[l] = reader[l]
          /\ \A j \in Nat : ~Holds(reader'[<<n, p>>], j)
          /\ \A j \in Nat : ~Holds(reader[<<n, p>>], j)
      BY <1>1, <2>1, <3>1, BecomeOnly DEF Holds
    <3>3. chain \in Chains /\ \A k \in Node : Len(chain[k]) <= Len(chain[k])
      <4>1. chain \in Chains
        BY <1>1 DEF Chains, SyncInv, TypeOK
      <4> QED BY <4>1, Lengths
    <3>4. Ordered(stream, reader', chain, chain)
      BY <3>2, <3>3, GoOnOrdered DEF OrderInv
    <3> QED BY <2>1, <2>3, <3>4 DEF OrderInv
  <2> QED BY <1>7, <2>2, <2>3 DEF ServeBlock
<1>8. CASE SendGetData(n, p)
  <2> DEFINE m == GetData(reader[<<n, p>>].hashes)
  <2>1. m \in Message /\ m.type # "block"
    BY <1>1, <1>8, ReaderFields, MessagesTyped, NoBlocks DEF SendGetData
  <2> HIDE DEF m
  <2> QED BY <1>1, <1>2, <1>3, <1>8, <2>1, WriteKeepsOrder DEF SendGetData, m
<1>9. CASE ReadTip(n, p)
  <2>1. chain \in Chains /\ stream \in Written
    BY <1>1 DEF Chains, Written, SyncInv, TypeOK
  <2>2. /\ \A l \in Link \ {<<n, p>>} : reader'[l] = reader[l]
        /\ reader'[<<n, p>>].at # "checked" /\ reader[<<n, p>>].at # "checked"
    <3>1. Become(n, p, Locating(Tip(chain[n]).hash))
      BY <1>9 DEF ReadTip
    <3>2. Locating(Tip(chain[n]).hash).at # "checked"
      BY DEF Locating
    <3>3. reader[<<n, p>>].at # "checked"
      <4>1. reader[<<n, p>>] = Asking("asking blocks")
        BY <1>9 DEF ReadTip
      <4> QED BY <1>2, <4>1
    <3> QED BY <1>1, <3>1, <3>2, <3>3, BecomeOnly
  <2>3. /\ \A j \in Nat : ~Holds(reader'[<<n, p>>], j)
        /\ \A j \in Nat : ~Holds(reader[<<n, p>>], j)
    BY <2>2 DEF Holds
  <2>4. \A m \in Node : Len(chain[m]) <= Len(chain[m])
    BY <2>1, Lengths
  <2>5. Ordered(stream, reader', chain, chain)
    BY <2>1, <2>2, <2>3, <2>4, GoOnOrdered DEF OrderInv
  <2> QED BY <1>9, <2>5 DEF OrderInv, ReadTip
<1> QED BY <1>4, <1>5, <1>6, <1>7, <1>8, <1>9

\* A block whose hash a node has on its chain is one it need not wait for.
LEMMA KnownIsPassed ==
  ASSUME SyncInv, NEW n \in Node, NEW q \in Node, NEW b, Has(q, b),
         OnChain(n, b.hash)
  PROVE  b.index < Len(chain[n])
<1>1. PICK i \in 1 .. Len(chain[n]) : chain[n][i].hash = b.hash
  BY DEF OnChain, Positions
<1>2. PICK k \in 1 .. Len(chain[q]) : chain[q][k] = b
  BY DEF Has
<1>3. /\ chain[n] \in Seq(Block) /\ WellFormed(chain[n])
      /\ chain[q] \in Seq(Block) /\ WellFormed(chain[q])
      /\ Len(chain[n]) \in Nat
  BY TipTyped DEF SyncInv, ChainsWellFormed
<1>4. chain[n][i] = b
  BY <1>1, <1>2, <1>3, WellFormedHashes, HashDeterminesBlock
<1>5. b.index = i - 1
  BY <1>3, <1>4, IndexIsPosition
<1> QED BY <1>3, <1>5

\* MsgBlock, MsgBlockFound
LEMMA BlocksKeepOrder ==
  ASSUME NEW source \in Node, OneSource(source), FollowInv, GossipInv(source),
         NEW n, NEW p, <<n, p>> \in Link,
         \/ CheckBlock(n, p) \/ ProcessReceived(n, p) \/ MarkProcessed(n, p)
         \/ HandleBlockFound(n, p)
  PROVE  OrderInv'
<1>1. /\ n \in Node /\ p \in Node /\ reader[<<n, p>>] \in Reader
      /\ SyncInv /\ RequestInv /\ OrderInv /\ HandledMeansOnChain /\ GreetedInv
      /\ ReadAhead = 0 /\ stream \in Written /\ chain \in Chains
  BY LinkEnds
     DEF FollowInv, SyncInv, TypeOK, GossipInv, OneSource, Written, Chains
<1>2. \A q \in Node : Len(chain[q]) \in Nat /\ Len(chain[q]) <= Len(chain[q])
  BY <1>1, Lengths
<1>3. CASE CheckBlock(n, p)
  <2> DEFINE b == Received(n, p).block
  <2>1. Arrived(n, p, "block") /\ Received(n, p).type = "block"
    BY <1>3 DEF CheckBlock, Arrived
  <2>2. b \in Block /\ Has(p, b)
    BY <1>1, <2>1, ArrivedTyped, MessageFields, ReceivedHonest
       DEF SyncInv, Honest
  <2>3. /\ \A l \in Link \ {<<n, p>>} : reader'[l] = reader[l]
        /\ reader'[<<n, p>>] = IF b.hash \in processed[n] THEN Idle
                               ELSE Holding("checked", b)
        /\ UNCHANGED chain
        /\ Answer(n, p, <<>>)
    BY <1>1, <1>3, BecomeOnly DEF CheckBlock
  <2>4. \A j \in Nat : Brings(Received(n, p), j) <=> j = b.index
    BY <2>1 DEF Brings
  <2>5. \A j \in Nat : /\ Holds(Holding("checked", b), j) <=> j = b.index
                       /\ ~Holds(Idle, j)
    BY DEF Holds, Holding, Idle
  <2>6. b.hash \in processed[n] => b.index < Len(chain[n])
    BY <1>1, <2>2, KnownIsPassed DEF HandledMeansOnChain
  <2> HIDE DEF b
  <2>7. /\ \A j \in Nat : Brings(Received(n, p), j) =>
                            j < Len(chain[n]) \/ Holds(reader'[<<n, p>>], j)
        /\ \A j \in Nat :
             Holds(reader'[<<n, p>>], j) => Brings(Received(n, p), j)
    BY <2>3, <2>4, <2>5, <2>6
  <2>8. \A lost \in Lost(n, p) :
          /\ Ordered(Consumed(n, p, lost), reader', chain, chain)
          /\ Consumed(n, p, lost) \in Written
    BY <1>1, <2>1, <2>3, <2>7, TakeOrdered, ArrivedTyped DEF SyncInv
  <2>9. PICK lost \in Lost(n, p) :
          stream' = [Consumed(n, p, lost) EXCEPT ![<<n, p>>] = @ \o <<>>]
    BY <2>3 DEF Answer
  <2>10. stream' = Consumed(n, p, lost)
    <3>1. Consumed(n, p, lost)[<<n, p>>] \in Seq(Message)
      BY <2>8 DEF Written
    <3> QED BY <2>8, <2>9, <3>1, ConcatEmptySeq DEF Written
  <2> QED BY <2>3, <2>8, <2>10 DEF OrderInv
<1>4. CASE ProcessReceived(n, p)
  <2> DEFINE b == reader[<<n, p>>].block
  <2>1. b \in Block /\ reader[<<n, p>>].at = "checked"
    BY <1>1, <1>4, ReaderFields DEF ProcessReceived
  <2>2. PICK now \in Clock[n] : Process(n, b, now, stream)
    BY <1>4 DEF ProcessReceived
  <2>3. chain' \in Chains /\ \A q \in Node : Len(chain[q]) <= Len(chain'[q])
    BY <1>1, <2>1, <2>2, ProcessChains
  <2>4. b.index < Len(chain'[n])
    BY <1>4, ReceivedIsKnown
  <2>5. /\ \A l \in Link \ {<<n, p>>} : reader'[l] = reader[l]
        /\ reader'[<<n, p>>] = Holding("decided", b)
    BY <1>1, <1>4, BecomeOnly DEF ProcessReceived
  <2>6. \A j \in Nat : /\ Holds(reader[<<n, p>>], j) => j < Len(chain'[n])
                       /\ ~Holds(reader'[<<n, p>>], j)
    BY <2>4, <2>5 DEF Holds, Holding
  <2>7. Ordered(stream, reader', chain, chain')
    <3>1. \A l \in Link :
            \/ reader'[l] = reader[l]
            \/ \A j \in Nat : /\ Holds(reader[l], j) => j < Len(chain'[l[1]])
                              /\ ~Holds(reader'[l], j)
      BY <2>5, <2>6
    <3> QED BY <1>1, <2>3, <3>1, GoOnOrdered DEF OrderInv
  <2> HIDE DEF b
  <2>8. Ordered(stream', reader', chain', chain')
    BY <1>1, <2>1, <2>2, <2>3, <2>7, ProcessOrdered
  <2> QED BY <2>8 DEF OrderInv
<1>5. CASE MarkProcessed(n, p)
  <2>1. /\ \A l \in Link \ {<<n, p>>} : reader'[l] = reader[l]
        /\ \A j \in Nat : ~Holds(reader'[<<n, p>>], j)
        /\ \A j \in Nat : ~Holds(reader[<<n, p>>], j)
        /\ UNCHANGED <<chain, stream>>
    BY <1>1, <1>5, BecomeOnly DEF MarkProcessed, Holds, Idle
  <2>2. Ordered(stream, reader', chain, chain)
    BY <1>1, <1>2, <2>1, GoOnOrdered DEF OrderInv
  <2> QED BY <2>1, <2>2 DEF OrderInv
<1>6. CASE HandleBlockFound(n, p)
  <2>1. /\ Arrived(n, p, "blockfound") /\ UNCHANGED reader
        /\ Received(n, p).type = "blockfound"
    BY <1>6 DEF HandleBlockFound, Arrived
  <2>2. Received(n, p).found \in SUBSET Block
    BY <1>1, <2>1, ArrivedTyped, MessageFields DEF SyncInv
  <2>3. /\ \A j \in Nat : ~Brings(Received(n, p), j)
        /\ \A j \in Nat : ~Holds(reader[<<n, p>>], j)
    BY <2>1 DEF Brings, Holds, Arrived, Idle
  <2>4. \A lost \in Lost(n, p) :
          /\ Ordered(Consumed(n, p, lost), reader, chain, chain)
          /\ Consumed(n, p, lost) \in Written
    BY <1>1, <2>1, <2>3, TakeOrdered, ArrivedTyped DEF SyncInv
  <2>5. ASSUME NEW b \in Received(n, p).found, NEW now, NEW lost \in Lost(n, p),
               Process(n, b, now, Consumed(n, p, lost))
        PROVE  OrderInv'
    <3>1. chain' \in Chains /\ \A q \in Node : Len(chain[q]) <= Len(chain'[q])
      BY <1>1, <2>2, <2>4, <2>5, ProcessChains
    <3>2. Ordered(Consumed(n, p, lost), reader, chain, chain')
      BY <1>1, <2>4, <3>1, GoOnOrdered
    <3>3. Ordered(stream', reader, chain', chain')
      BY <1>1, <2>2, <2>4, <2>5, <3>1, <3>2, ProcessOrdered
    <3> QED BY <2>1, <3>3 DEF OrderInv
  <2>6. CASE Answer(n, p, <<>>) /\ UNCHANGED <<chain, processed>>
    BY <1>1, <2>1, <2>6, MessagesTyped, NoBlocks, AnswerOrdered
  <2> QED BY <1>6, <2>5, <2>6 DEF HandleBlockFound
<1> QED BY <1>3, <1>4, <1>5, <1>6

\* The user, the tickers
LEMMA NodeKeepsOrder ==
  ASSUME NEW source \in Node, OneSource(source), FollowInv, GossipInv(source),
         NEW n \in Node,
         \/ \E bpm \in Bpm : AddBlock(n, bpm)
         \/ SyncCommand(n) \/ DiscoverPeers(n) \/ SyncTask(n)
         \/ \E hash \in Hash :
              FindCommand(n, hash) \/ CleanupProcessedBlocks(n, hash)
  PROVE  OrderInv'
<1>1. /\ SyncInv /\ OrderInv /\ HandledMeansOnChain /\ GreetedInv
      /\ stream \in Written /\ chain \in Chains
  BY DEF FollowInv, SyncInv, TypeOK, GossipInv, Written, Chains
<1>2. ASSUME NEW bpm \in Bpm, AddBlock(n, bpm) PROVE OrderInv'
  <2>1. PICK now \in Clock[n] :
          LET b == NewBlock(Tip(chain[n]).index + 1, now, bpm,
                            Tip(chain[n]).hash) IN
          /\ b \in Block
          /\ Process(n, b, now, stream)
          /\ UNCHANGED <<session, best, reader, left>>
    BY <1>2 DEF AddBlock
  <2>2. PICK b \in Block : Process(n, b, now, stream) /\ UNCHANGED reader
    BY <2>1
  <2>3. chain' \in Chains /\ \A q \in Node : Len(chain[q]) <= Len(chain'[q])
    BY <1>1, <2>2, ProcessChains
  <2>4. Ordered(stream, reader, chain, chain')
    BY <1>1, <2>3, GoOnOrdered DEF OrderInv
  <2>5. Ordered(stream', reader, chain', chain')
    BY <1>1, <2>2, <2>3, <2>4, ProcessOrdered
  <2> QED BY <2>2, <2>5 DEF OrderInv
<1>3. ASSUME NEW m \in Message, m.type # "block", stream' = ToAll(stream, n, m),
             UNCHANGED <<chain, reader>>
      PROVE  OrderInv'
  <2>1. Ordered(stream', reader, chain, chain)
    BY <1>1, <1>3, NoBlock, AllConnected, ToAllOrdered DEF OrderInv
  <2> QED BY <1>3, <2>1 DEF OrderInv
<1>4. /\ GetBlocks(EmptyHash) \in Message
      /\ GetBlocks(EmptyHash).type # "block"
      /\ GetPeers \in Message /\ GetPeers.type # "block"
      /\ \A hash \in Hash : /\ FindBlock(hash) \in Message
                            /\ FindBlock(hash).type # "block"
  BY MessagesTyped, NoBlocks
<1>5. CASE SyncCommand(n) \/ DiscoverPeers(n) \/ SyncTask(n)
  BY <1>3, <1>4, <1>5 DEF SyncCommand, DiscoverPeers, SyncTask, RequestSync
<1>6. ASSUME NEW hash \in Hash, FindCommand(n, hash) PROVE OrderInv'
  BY <1>3, <1>4, <1>6 DEF FindCommand
<1>7. ASSUME NEW hash \in Hash, CleanupProcessedBlocks(n, hash) PROVE OrderInv'
  BY <1>1, <1>7 DEF CleanupProcessedBlocks, OrderInv
<1> QED BY <1>2, <1>5, <1>6, <1>7

LEMMA StepOrder ==
  ASSUME NEW p \in Node, OneSource(p), FollowInv, GossipInv(p), [Next]_vars
  PROVE  OrderInv'
<1>1. SyncInv /\ OrderInv /\ ReadAhead = 0 /\ Producer = {p} /\ GreetedInv
  BY DEF FollowInv, GossipInv, OneSource
<1>2. ASSUME NEW l \in Link, ReadMessages(l[1], l[2]) PROVE OrderInv'
  <2>1. <<l[1], l[2]>> \in Link
    BY LinkEnds
  <2>2. ~GiveUp(l[1], l[2])
    BY <1>1 DEF GiveUp
  <2> QED BY <1>1, <1>2, <2>1, <2>2, AnswersKeepOrder, WritesKeepOrder,
             BlocksKeepOrder DEF ReadMessages
<1>3. ASSUME NEW l \in Link,
             \/ HandleStream(l[1], l[2])
             \/ ReadHeight(l[1], l[2]) \/ SendVersion(l[1], l[2])
      PROVE  FALSE
  <2>1. session[<<l[1], l[2]>>] = Greeted
    BY <1>1, LinkEnds DEF GreetedInv
  <2>2. Greeted # None /\ Greeted # Registered /\ Greeted.at # "versioning"
    BY DEF Greeted, None, Registered
  <2> QED BY <1>3, <2>1, <2>2 DEF HandleStream, ReadHeight, SendVersion
<1>4. CASE UNCHANGED vars
  BY <1>1, <1>4 DEF vars, OrderInv
<1>5. Producer \subseteq Node /\ Daemon \subseteq Node /\ Old \subseteq Node
  BY SyncAssumption
<1> QED BY <1>2, <1>3, <1>4, <1>5, NodeKeepsOrder DEF Next
-----------------------------------------------------------------------------
(***************************************************************************)
(* What is handled is on the chain                                         *)
(***************************************************************************)
\* An entry that is made is for a block the node has.
LEMMA HandledSteps ==
  ASSUME NEW p \in Node, OneSource(p), FollowInv, GossipInv(p), [Next]_vars,
         NEW n \in Node, NEW h \in processed'[n]
  PROVE  h \in processed[n] \/ OnChain(n, h)'
<1>1. SyncInv /\ processed \in [Node -> SUBSET Hash]
  BY DEF FollowInv, SyncInv, TypeOK
<1>2. ASSUME NEW m \in Node, NEW b \in Block, NEW now, NEW s \in Written,
             Process(m, b, now, s)
      PROVE  h \in processed[n] \/ OnChain(n, h)'
  <2>1. CASE ~Accepts(chain[m], b, now)
    BY <1>2, <2>1 DEF Process
  <2>2. CASE Accepts(chain[m], b, now)
    <3>1. processed'[n] \subseteq IF n = m THEN processed[n] \union {b.hash}
                                  ELSE processed[n]
      BY <1>1, <1>2, <2>2 DEF Process
    <3>2. Has(m, b)'
      BY <1>1, <1>2, <2>2, ProcessChains
    <3>3. OnChain(m, b.hash)'
      BY <3>2 DEF Has, OnChain, Positions
    <3> QED BY <3>1, <3>3
  <2> QED BY <2>1, <2>2
<1>3. ASSUME NEW m \in Node, NEW q, <<m, q>> \in Link, ReadMessages(m, q)
      PROVE  h \in processed[n] \/ OnChain(n, h)'
  <2>1. CASE ProcessReceived(m, q)
    <3>1. reader[<<m, q>>].block \in Block
      <4>1. reader[<<m, q>>] \in Reader
        BY <1>1, <1>3 DEF SyncInv, TypeOK
      <4> QED BY <2>1, <4>1, ReaderFields DEF ProcessReceived
    <3>2. stream \in Written
      BY <1>1 DEF SyncInv, TypeOK, Written
    <3> QED BY <1>2, <1>3, <2>1, <3>1, <3>2 DEF ProcessReceived
  <2>2. CASE MarkProcessed(m, q)
    <3>1. h \in processed[n] \/ (n = m /\ h = reader[<<m, q>>].block.hash)
      BY <1>1, <2>2 DEF MarkProcessed
    <3>2. OnChain(m, reader[<<m, q>>].block.hash)
      BY <1>3, <2>2 DEF MarkProcessed, GossipInv, DecidedInv
    <3>3. \A x : OnChain(m, x) => OnChain(m, x)'
      BY <2>2 DEF MarkProcessed, OnChain
    <3> QED BY <3>1, <3>2, <3>3
  <2>3. CASE HandleBlockFound(m, q)
    <3>1. /\ Received(m, q).found \in SUBSET Block
          /\ \A lost \in Lost(m, q) : Consumed(m, q, lost) \in Written
      BY <1>1, <1>3, <2>3, ArrivedTyped, MessageFields
         DEF HandleBlockFound, SyncInv
    <3> QED BY <1>2, <1>3, <2>3, <3>1 DEF HandleBlockFound
  <2>4. CASE UNCHANGED processed
    BY <2>4
  <2> QED BY <1>3, <2>1, <2>2, <2>3, <2>4
          DEF ReadMessages, HandleVersion, HandleVerAck, ReadTip,
              SendGetBlocks, SendGetPeers, HandleGetPeers, HandlePeers,
              CheckBlock, HandleGetBlocks, SendInv, HandleInv, SendGetData,
              HandleGetData, ServeBlock, HandleFindBlock, GiveUp
<1>4. ASSUME NEW m \in Node, NEW bpm \in Bpm, AddBlock(m, bpm)
      PROVE  h \in processed[n] \/ OnChain(n, h)'
  <2>1. stream \in Written
    BY <1>1 DEF SyncInv, TypeOK, Written
  <2> QED BY <1>2, <1>4, <2>1 DEF AddBlock
<1>5. ASSUME NEW m \in Node, NEW hash \in Hash, CleanupProcessedBlocks(m, hash)
      PROVE  h \in processed[n]
  BY <1>1, <1>5 DEF CleanupProcessedBlocks
<1>6. CASE UNCHANGED processed
  BY <1>6
<1>7. ASSUME NEW l \in Link,
             \/ HandleStream(l[1], l[2])
             \/ ReadHeight(l[1], l[2]) \/ SendVersion(l[1], l[2])
      PROVE  UNCHANGED processed
  BY <1>7 DEF HandleStream, ReadHeight, SendVersion
<1>8. ASSUME NEW m, \/ SyncCommand(m) \/ DiscoverPeers(m) \/ SyncTask(m)
                    \/ \E hash \in Hash : FindCommand(m, hash)
      PROVE  UNCHANGED processed
  BY <1>8 DEF SyncCommand, DiscoverPeers, SyncTask, FindCommand
<1>9. \A l \in Link : l[1] \in Node /\ <<l[1], l[2]>> \in Link
  BY LinkEnds
<1>10. Producer \subseteq Node /\ Old \subseteq Node
  BY SyncAssumption
<1>11. CASE \E l \in Link : \/ HandleStream(l[1], l[2])
                            \/ ReadHeight(l[1], l[2]) \/ SendVersion(l[1], l[2])
                            \/ ReadMessages(l[1], l[2])
  BY <1>3, <1>6, <1>7, <1>9, <1>11
<1>12. CASE UNCHANGED vars
  BY <1>6, <1>12 DEF vars
<1> QED BY <1>4, <1>5, <1>6, <1>8, <1>10, <1>11, <1>12 DEF Next

LEMMA StepHandled ==
  ASSUME NEW p \in Node, OneSource(p), FollowInv, GossipInv(p), [Next]_vars
  PROVE  HandledMeansOnChain' /\ DecidedInv'
<1>1. SyncInv /\ Grown
  BY ChainsGrow DEF FollowInv
<1>2. ASSUME NEW n \in Node, NEW h \in processed'[n] PROVE OnChain(n, h)'
  BY <1>1, HandledSteps, OnChainKept DEF GossipInv, HandledMeansOnChain
<1>3. ASSUME NEW l \in Link, reader'[l].at = "decided",
             NEW b, b = reader'[l].block
      PROVE  OnChain(l[1], b.hash)'
  <2>1. l[1] \in Node /\ <<l[1], l[2]>> \in Link /\ l = <<l[1], l[2]>>
    BY LinkEnds
  <2>2. CASE reader'[l] = reader[l]
    BY <1>1, <1>3, <2>1, <2>2, OnChainKept DEF GossipInv, DecidedInv
  <2>3. CASE /\ ProcessReceived(l[1], l[2])
             /\ reader'[l] = Holding("decided", reader[l].block)
    <3>1. b = reader[<<l[1], l[2]>>].block
      BY <1>3, <2>1, <2>3 DEF Holding
    <3> QED BY <2>1, <2>3, <3>1, ReceivedIsKnown
  <2>4. ~GiveUp(l[1], l[2])
    BY DEF GiveUp, OneSource
  <2>5. \A x : Holding("checked", x).at # "decided"
    BY DEF Holding
  <2> QED BY <1>1, <1>3, <2>2, <2>3, <2>4, <2>5, ReaderSteps DEF ReaderStep
<1>4. ASSUME NEW l \in Link, reader'[l].at = "decided"
      PROVE  OnChain(l[1], reader[l].block.hash)'
  BY <1>3, <1>4 DEF OnChain
<1> QED BY <1>2, <1>4 DEF HandledMeansOnChain, DecidedInv

LEMMA InitGossip ==
  ASSUME NEW p \in Node, OneSource(p), Init
  PROVE  GossipInv(p)
<1>1. GreetedInv
  BY DEF Init, OneSource, GreetedInv, Greeted, Idle, Gone
<1>2. \A n \in Node : chain[n] = InitialChain[p] /\ Len(chain[n]) \in Nat
  BY SyncAssumption, LenProperties DEF Init, OneSource
<1>3. TimesInv(p)
  BY <1>2 DEF TimesInv
<1>4. HandledMeansOnChain /\ DecidedInv
  BY DEF Init, HandledMeansOnChain, DecidedInv, Idle
<1>5. OrderInv
  <2>1. ASSUME NEW l \in Link
        PROVE  InOrder(<<>>, Idle, Len(chain[l[1]]), Len(chain[l[2]]))
    <3>1. Len(chain[l[1]]) = Len(chain[l[2]])
      BY <1>2, LinkEnds
    <3>2. \A x : ~Holds(Idle, x)
      BY DEF Holds, Idle
    <3>3. Len(<<>>) = 0
      OBVIOUS
    <3> QED BY <1>2, <3>1, <3>2, <3>3, LinkEnds DEF InOrder, ComesBefore
  <2>2. \A l \in Link : /\ stream[l] = <<>>
                        /\ reader[<<l[2], l[1]>>] = Idle
    BY LinkEnds DEF Init
  <2> QED BY <2>1, <2>2 DEF OrderInv, Ordered
<1> QED BY <1>1, <1>3, <1>4, <1>5 DEF GossipInv

LEMMA StepGossip ==
  ASSUME NEW p \in Node, OneSource(p), FollowInv, GossipInv(p), [Next]_vars
  PROVE  GossipInv(p)'
<1>1. GreetedInv'
  BY StepGreeted DEF FollowInv, GossipInv
<1>2. TimesInv(p)'
  BY StepTimes DEF GossipInv
<1>3. OrderInv'
  BY StepOrder
<1> QED BY <1>1, <1>2, <1>3, StepHandled DEF GossipInv

\* When nothing is under way, neighbours have the same chain.
LEMMA QuietNeighbours ==
  ASSUME NEW p \in Node, OneSource(p), FollowInv, GossipInv(p), Quiet,
         NEW l \in Link
  PROVE  chain[l[1]] = chain[l[2]]
<1>1. l[1] \in Node /\ l[2] \in Node /\ <<l[2], l[1]>> \in Link
  BY LinkEnds
<1>2. \A n \in Node : /\ chain[n] \in Seq(Block) /\ Len(chain[n]) \in Nat
                      /\ Len(chain[n]) <= Len(chain[p])
                      /\ \A i \in 1 .. Len(chain[n]) : chain[n][i] = chain[p][i]
  BY TipTyped, FollowsByBlocks
     DEF FollowInv, FollowsProducer, SyncInv, TypeOK, OneSource
<1>3. ASSUME NEW k \in Link PROVE Len(chain[k[1]]) <= Len(chain[k[2]])
  <2>1. /\ stream[k] = <<>> /\ reader[<<k[2], k[1]>>] = Idle
        /\ Len(chain[k[1]]) \in Nat /\ Len(chain[k[2]]) \in Nat
    BY <1>2, LinkEnds DEF Quiet
  <2>2. InOrder(<<>>, Idle, Len(chain[k[1]]), Len(chain[k[2]]))
    BY <2>1 DEF GossipInv, OrderInv, Ordered
  <2>3. \A j : ~Holds(Idle, j)
    BY DEF Holds, Idle
  <2>4. \A j \in 0 .. Len(chain[k[1]]) - 1 : j < Len(chain[k[2]])
    BY <2>2, <2>3 DEF InOrder, ComesBefore
  <2>5. CASE Len(chain[k[1]]) = 0
    BY <2>1, <2>5
  <2>6. CASE Len(chain[k[1]]) # 0
    <3>1. Len(chain[k[1]]) - 1 \in 0 .. Len(chain[k[1]]) - 1
      BY <2>1, <2>6
    <3>2. Len(chain[k[1]]) - 1 < Len(chain[k[2]])
      BY <2>4, <3>1
    <3> QED BY <2>1, <3>2
  <2> QED BY <2>5, <2>6
<1>4. Len(chain[l[1]]) <= Len(chain[l[2]]) /\ Len(chain[l[2]]) <= Len(chain[l[1]])
  <2>1. <<l[2], l[1]>>[1] = l[2] /\ <<l[2], l[1]>>[2] = l[1]
    OBVIOUS
  <2> QED BY <1>1, <1>3, <2>1
<1>5. Len(chain[l[1]]) = Len(chain[l[2]])
  BY <1>1, <1>2, <1>4
<1>6. \A i \in 1 .. Len(chain[l[1]]) : chain[l[1]][i] = chain[l[2]][i]
  BY <1>1, <1>2, <1>5
<1> QED BY <1>1, <1>2, <1>5, <1>6, SeqEqual

\* In a network of which every part has a connection to the rest.
LEMMA GossipAgrees ==
  ASSUME NEW p \in Node, OneSource(p), FollowInv, GossipInv(p),
         \A S \in SUBSET Node :
           S # {} /\ (\A l \in Link : l[1] \in S => l[2] \in S) => S = Node
  PROVE  QuietMeansAgreed
<1> SUFFICES ASSUME Quiet PROVE Agreed
  BY DEF QuietMeansAgreed
<1> DEFINE S == {n \in Node : chain[n] = chain[p]}
<1>1. S # {}
  OBVIOUS
<1>2. \A l \in Link : l[1] \in S => l[2] \in S
  BY QuietNeighbours, LinkEnds
<1>3. S = Node
  BY <1>1, <1>2
<1> QED BY <1>3 DEF Agreed

LEMMA AlwaysGossip ==
  ASSUME NEW p \in Node, OneSource(p)
  PROVE  Spec => [](FollowInv /\ GossipInv(p))
<1>1. Init => FollowInv /\ GossipInv(p)
  <2> SUFFICES ASSUME Init PROVE FollowInv /\ GossipInv(p)
    OBVIOUS
  <2>1. \A n \in Node : IsPrefix(InitialChain[n], InitialChain[p])
    BY PrefixByBlocks, SyncAssumption, LenProperties DEF OneSource
  <2>2. FollowsProducer
    BY <2>1 DEF Init, FollowsProducer, OneSource
  <2> QED BY <2>2, InitKeeps, InitHonest, InitHeld, InitGossip DEF FollowInv
<1>2. FollowInv /\ GossipInv(p) /\ [Next]_vars => (FollowInv /\ GossipInv(p))'
  <2> SUFFICES ASSUME FollowInv, GossipInv(p), [Next]_vars
               PROVE  FollowInv' /\ GossipInv(p)'
    OBVIOUS
  <2>1. FollowInv'
    BY StepKeeps, StepHonest, StepHeld, StepFollows DEF FollowInv, OneSource
  <2> QED BY <2>1, StepGossip
<1> QED BY <1>1, <1>2, PTL DEF Spec

\* Between connected nodes with one producer and clocks that agree, a block
\* that a node has handled is on its chain: the entry that MsgBlock looks up
\* never shadows a block the node lacks.  Duplicates, commands and entries
\* that expire change nothing about it, for any network.
THEOREM HandledAlwaysOnChain ==
  ASSUME NEW p \in Node, OneSource(p)
  PROVE  Spec => []HandledMeansOnChain
<1>1. GossipInv(p) => HandledMeansOnChain
  BY DEF GossipInv
<1> QED BY <1>1, AlwaysGossip, PTL

\* There, whenever nothing is under way all nodes have the same chain,
\* however the network is connected.
THEOREM QuietAlwaysAgreed ==
  ASSUME NEW p \in Node, OneSource(p),
         \A S \in SUBSET Node :
           S # {} /\ (\A l \in Link : l[1] \in S => l[2] \in S) => S = Node
  PROVE  Spec => []QuietMeansAgreed
<1>1. FollowInv /\ GossipInv(p) => QuietMeansAgreed
  BY GossipAgrees
<1> QED BY <1>1, AlwaysGossip, PTL
=============================================================================
