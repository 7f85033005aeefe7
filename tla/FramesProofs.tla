---------------------------- MODULE FramesProofs ----------------------------
(***************************************************************************)
(* Theorems about Frames, for messages of any length, a buffer of any size *)
(* and any number of messages.                                             *)
(***************************************************************************)
EXTENDS Frames, TLAPS

\* Messages end one after the other.
Ordered ==
  \A i, j \in 0 .. Len(ends) : i < j => Before(i) < Before(j)

\* ReadMessage holds no newline it has not acted upon.
NoLineHeld == open => Lines(from, read) = {}

\* A message that was written alone is next, and begins where a reader does.
AloneIsNext ==
  \A i \in alone :
    \/ i \in Range(delivered)
    \/ open /\ from = Before(i - 1) /\ read < ends[i]

\* A message that was delivered is over.
DeliveredIsOver == \A i \in Range(delivered) : ends[i] <= from

FramesInv ==
  /\ TypeOK /\ Ordered /\ NoLineHeld /\ AloneIsNext
  /\ DeliveredIsOver /\ StopsOnlyAfterOverlap

\* What a write leaves as it was, and where its own message ends.
LEMMA Longer ==
  ASSUME TypeOK, Ordered, NEW size \in Size, SendMessage(size)
  PROVE  /\ Len(ends') = Len(ends) + 1 /\ ends' \in Seq(Nat)
         /\ \A i \in 0 .. Len(ends) : Before(i)' = Before(i)
         /\ \A i \in 1 .. Len(ends) : ends'[i] = ends[i]
         /\ ends'[Len(ends) + 1] = Written + size
         /\ Written' = Written + size /\ Written \in Nat
         /\ \A i \in 0 .. Len(ends) : Before(i) <= Written
         /\ Ordered'
<1>1. size \in Nat /\ size > 0 /\ ends \in Seq(Nat) /\ Len(ends) \in Nat
  BY FramesAssumption DEF TypeOK
<1>2. Written \in Nat /\ \A i \in 0 .. Len(ends) : Before(i) \in Nat
  BY <1>1 DEF Written, Before
<1>3. /\ Len(ends') = Len(ends) + 1 /\ ends' \in Seq(Nat)
      /\ \A i \in 1 .. Len(ends) : ends'[i] = ends[i]
      /\ ends'[Len(ends) + 1] = Written + size
  BY <1>1, <1>2 DEF SendMessage
<1>4. /\ \A i \in 0 .. Len(ends) : Before(i)' = Before(i)
      /\ \A i : i = Len(ends) + 1 => Before(i)' = Written + size
  <2>1. ASSUME NEW i \in 0 .. Len(ends) PROVE Before(i)' = Before(i)
    <3>1. CASE i = 0
      BY <3>1 DEF Before
    <3>2. CASE i # 0
      <4>1. i \in 1 .. Len(ends)
        BY <1>1, <3>2
      <4>2. ends'[i] = ends[i]
        BY <1>3, <4>1
      <4> QED BY <3>2, <4>2 DEF Before
    <3> QED BY <3>1, <3>2
  <2>2. Len(ends) + 1 # 0
    BY <1>1
  <2>3. ASSUME NEW i, i = Len(ends) + 1 PROVE Before(i)' = Written + size
    BY <1>3, <2>2, <2>3 DEF Before
  <2> QED BY <2>1, <2>3
<1>5. \A i \in 0 .. Len(ends) : Before(i) <= Written
  BY <1>1, <1>2 DEF Ordered, Written
<1>6. Ordered'
  <2> SUFFICES ASSUME NEW i \in 0 .. Len(ends'), NEW j \in 0 .. Len(ends'),
                      i < j
               PROVE  Before(i)' < Before(j)'
    BY DEF Ordered
  <2>1. CASE j \in 0 .. Len(ends)
    BY <1>1, <1>4, <2>1 DEF Ordered
  <2>2. CASE j = Len(ends) + 1
    <3>1. i \in 0 .. Len(ends)
      BY <1>1, <2>2
    <3>2. Before(i)' = Before(i) /\ Before(i) <= Written /\ Before(i) \in Nat
      BY <1>2, <1>4, <1>5, <3>1
    <3>3. Before(j)' = Written + size
      BY <1>4, <2>2
    <3> QED BY <1>1, <1>2, <3>2, <3>3
  <2> QED BY <1>1, <1>3, <2>1, <2>2
<1>7. Written' = Written + size
  <2>1. Len(ends') # 0
    BY <1>1, <1>3
  <2> QED BY <1>3, <2>1 DEF Written, Before
<1> QED BY <1>2, <1>3, <1>4, <1>5, <1>6, <1>7

\* An open reader with nothing left to read is at the beginning of a message.
LEMMA AllRead ==
  ASSUME TypeOK, NoLineHeld, open, read = Written
  PROVE  from = Written
<1>1. ends \in Seq(Nat) /\ Len(ends) \in Nat /\ from \in 0 .. read
  BY DEF TypeOK
<1>2. CASE Len(ends) = 0
  BY <1>1, <1>2 DEF Written, Before
<1>3. CASE Len(ends) # 0
  <2>1. Len(ends) \notin Lines(from, read)
    BY DEF NoLineHeld
  <2>2. Written = ends[Len(ends)] /\ Written \in Nat
    BY <1>1, <1>3 DEF Written, Before
  <2> QED BY <1>1, <1>3, <2>1, <2>2 DEF Lines
<1> QED BY <1>2, <1>3

LEMMA SendKeeps ==
  ASSUME FramesInv, NEW size \in Size, SendMessage(size)
  PROVE  FramesInv'
<1> USE DEF FramesInv
<1>1. /\ Len(ends') = Len(ends) + 1 /\ ends' \in Seq(Nat)
      /\ \A i \in 0 .. Len(ends) : Before(i)' = Before(i)
      /\ \A i \in 1 .. Len(ends) : ends'[i] = ends[i]
      /\ ends'[Len(ends) + 1] = Written + size
      /\ Written' = Written + size /\ Written \in Nat
      /\ \A i \in 0 .. Len(ends) : Before(i) <= Written
      /\ Ordered'
  BY Longer
<1>2. size \in Nat /\ size > 0 /\ Len(ends) \in Nat
  BY FramesAssumption DEF TypeOK
<1>3. UNCHANGED <<read, from, delivered, open>>
  BY DEF SendMessage
<1>4. alone' \subseteq alone \union {Len(ends) + 1}
  BY DEF SendMessage
<1>5. TypeOK'
  <2>1. read' \in 0 .. Written' /\ from' \in 0 .. read' /\ open' \in BOOLEAN
    BY <1>1, <1>2, <1>3 DEF TypeOK
  <2>2. 1 .. Len(ends) \subseteq 1 .. Len(ends')
    BY <1>1, <1>2
  <2>3. delivered' \in Seq(1 .. Len(ends'))
    <3>1. delivered \in Seq(1 .. Len(ends))
      BY DEF TypeOK
    <3> DEFINE S == 1 .. Len(ends)
               T == 1 .. Len(ends')
    <3>2. S \subseteq T /\ delivered \in Seq(S) /\ delivered' = delivered
      BY <1>3, <2>2, <3>1
    <3> HIDE DEF S, T
    <3>3. delivered' \in Seq(T)
      BY <3>2
    <3> QED BY <3>3 DEF T
  <2>4. alone' \subseteq 1 .. Len(ends')
    <3>1. alone \subseteq 1 .. Len(ends)
      BY DEF TypeOK
    <3>2. Len(ends) + 1 \in 1 .. Len(ends')
      BY <1>1, <1>2
    <3> QED BY <1>4, <2>2, <3>1, <3>2
  <2> QED BY <1>1, <2>1, <2>3, <2>4 DEF TypeOK
<1>6. NoLineHeld'
  <2> SUFFICES ASSUME open, NEW i \in 1 .. Len(ends'),
                      from < ends'[i], ends'[i] <= read
               PROVE  FALSE
    BY <1>3 DEF NoLineHeld, Lines
  <2>1. CASE i \in 1 .. Len(ends)
    <3>1. i \in Lines(from, read)
      BY <1>1, <2>1 DEF Lines
    <3> QED BY <3>1 DEF NoLineHeld
  <2>2. CASE i = Len(ends) + 1
    <3>1. ends'[i] = Written + size /\ read \in 0 .. Written
      BY <1>1, <2>2 DEF TypeOK
    <3> QED BY <1>1, <1>2, <3>1
  <2> QED BY <1>1, <1>2, <2>1, <2>2
<1>7. AloneIsNext'
  <2> SUFFICES ASSUME NEW i \in alone'
               PROVE  \/ i \in Range(delivered)'
                      \/ open' /\ from' = Before(i - 1)' /\ read' < ends'[i]
    BY DEF AloneIsNext
  <2>1. CASE i \in alone
    <3>1. i \in 1 .. Len(ends) /\ (i - 1) \in 0 .. Len(ends)
      BY <1>2, <2>1 DEF TypeOK
    <3>2. Before(i - 1)' = Before(i - 1) /\ ends'[i] = ends[i]
      BY <1>1, <3>1
    <3>3. Range(delivered)' = Range(delivered)
      BY <1>3
    <3> QED BY <1>3, <2>1, <3>2, <3>3 DEF AloneIsNext
  <2>2. CASE i = Len(ends) + 1 /\ i \notin alone
    <3>1. open /\ read = Written
      BY <2>2 DEF SendMessage
    <3>2. from = Written
      BY <3>1, AllRead
    <3>3. Before(i - 1)' = Written
      BY <1>1, <1>2, <2>2 DEF Written
    <3> QED BY <1>1, <1>2, <1>3, <2>2, <3>1, <3>2, <3>3
  <2> QED BY <1>4, <2>1, <2>2
<1>8. StopsOnlyAfterOverlap'
  <2> SUFFICES ASSUME ~open' PROVE alone' # 1 .. Len(ends')
    BY DEF StopsOnlyAfterOverlap
  <2>1. ~open /\ alone' = alone
    BY <1>3 DEF SendMessage
  <2> QED BY <1>1, <1>2, <2>1 DEF TypeOK
<1>9. DeliveredIsOver'
  <2> SUFFICES ASSUME NEW i \in Range(delivered) PROVE ends'[i] <= from
    BY <1>3 DEF DeliveredIsOver
  <2>1. i \in 1 .. Len(ends)
    BY DEF TypeOK, Range
  <2> QED BY <1>1, <2>1 DEF DeliveredIsOver
<1> QED BY <1>1, <1>5, <1>6, <1>7, <1>8, <1>9

\* What a read that brings a newline finds.
LEMMA FirstLine ==
  ASSUME TypeOK, Ordered, NoLineHeld, open, NEW k \in Nat \ {0}, Fill(k),
         NEW i \in Lines(from, read + k), IsFirst(i, Lines(from, read + k))
  PROVE  /\ i \in 1 .. Len(ends) /\ from < ends[i] /\ read < ends[i]
         /\ ends[i] <= read + k
         /\ \A j \in 0 .. (i - 1) : Before(j) <= from
         /\ \A j \in 1 .. Len(ends) : j < i => ends[j] <= from
<1>1. /\ ends \in Seq(Nat) /\ Len(ends) \in Nat
      /\ read \in Nat /\ from \in Nat /\ from <= read
      /\ \A j \in 1 .. Len(ends) : ends[j] \in Nat
  <2>1. Written \in Nat
    BY DEF TypeOK, Written, Before
  <2> QED BY <2>1 DEF TypeOK
<1>2. i \in 1 .. Len(ends) /\ from < ends[i] /\ ends[i] <= read + k
  BY DEF Lines
<1>3. i \notin Lines(from, read)
  BY DEF NoLineHeld
<1>4. read < ends[i]
  BY <1>1, <1>2, <1>3 DEF Lines
<1>5. ASSUME NEW j \in 1 .. Len(ends), j < i
      PROVE  ends[j] <= from
  <2>1. Before(j) < Before(i)
    BY <1>1, <1>2, <1>5 DEF Ordered
  <2>2. ends[j] < ends[i]
    BY <1>1, <1>2, <1>5, <2>1 DEF Before
  <2>3. j \notin Lines(from, read + k)
    BY <1>1, <1>2, <1>5 DEF IsFirst
  <2> QED BY <1>1, <1>2, <1>5, <2>2, <2>3 DEF Lines
<1>6. \A j \in 0 .. (i - 1) : Before(j) <= from
  BY <1>1, <1>2, <1>5 DEF Before
<1> QED BY <1>2, <1>4, <1>5, <1>6

LEMMA ReadKeeps ==
  ASSUME FramesInv, ReadMessage
  PROVE  FramesInv'
<1> USE DEF FramesInv
<1>1. PICK k \in 1 .. Room :
        /\ Fill(k)
        /\ LET lines == Lines(from, read + k) IN
           \/ lines = {} /\ ReadOn(k)
           \/ \E i \in lines : IsFirst(i, lines) /\ Decode(i)
  BY DEF ReadMessage
<1>2. open /\ UNCHANGED <<ends, alone>>
  BY DEF ReadMessage
<1>3. /\ ends \in Seq(Nat) /\ Len(ends) \in Nat /\ Written \in Nat
      /\ read \in Nat /\ from \in Nat /\ from <= read
      /\ \A j \in 1 .. Len(ends) : ends[j] \in Nat
  <2>1. Written \in Nat
    BY DEF TypeOK, Written, Before
  <2> QED BY <2>1 DEF TypeOK
<1>4. k \in Nat \ {0} /\ read' = read + k /\ read' <= Written
  <2>1. k \in Int /\ k >= 1
    OBVIOUS
  <2> QED BY <1>1, <2>1, <1>3 DEF Fill
<1>5. /\ \A i : Before(i)' = Before(i)
      /\ Written' = Written
      /\ \A a, b : Lines(a, b)' = Lines(a', b')
  BY <1>2 DEF Before, Written, Lines
<1>6. Ordered'
  BY <1>2, <1>5 DEF Ordered
<1>7. CASE Lines(from, read + k) = {} /\ ReadOn(k)
  <2>1. UNCHANGED <<from, delivered, open>>
    BY <1>7 DEF ReadOn
  <2>2. TypeOK'
    BY <1>2, <1>3, <1>4, <1>5, <2>1 DEF TypeOK
  <2>3. NoLineHeld'
    BY <1>2, <1>4, <1>7, <2>1 DEF NoLineHeld, Lines
  <2>4. AloneIsNext'
    <3> SUFFICES ASSUME NEW i \in alone
                 PROVE  \/ i \in Range(delivered)'
                        \/ open' /\ from' = Before(i - 1)' /\ read' < ends'[i]
      BY <1>2 DEF AloneIsNext
    <3>1. CASE i \in Range(delivered)
      BY <2>1, <3>1
    <3>2. CASE i \notin Range(delivered)
      <4>1. open /\ from = Before(i - 1) /\ read < ends[i]
        BY <3>2 DEF AloneIsNext
      <4>2. i \in 1 .. Len(ends) /\ i \notin Lines(from, read + k)
        BY <1>7 DEF TypeOK
      <4>3. read + k < ends[i]
        BY <1>3, <1>4, <4>1, <4>2 DEF Lines
      <4> QED BY <1>2, <1>4, <1>5, <2>1, <4>1, <4>3
    <3> QED BY <3>1, <3>2
  <2>5. StopsOnlyAfterOverlap'
    BY <1>2, <2>1 DEF StopsOnlyAfterOverlap
  <2>6. DeliveredIsOver'
    BY <1>2, <2>1 DEF DeliveredIsOver
  <2> QED BY <1>6, <2>2, <2>3, <2>4, <2>5, <2>6
<1>8. ASSUME NEW i \in Lines(from, read + k),
             IsFirst(i, Lines(from, read + k)), Decode(i)
      PROVE  FramesInv'
  <2>1. /\ i \in 1 .. Len(ends) /\ from < ends[i] /\ read < ends[i]
        /\ \A j \in 1 .. Len(ends) : j < i => ends[j] <= from
    BY <1>1, <1>2, <1>4, <1>8, FirstLine
  <2>2. CASE /\ from = Before(i - 1)
             /\ delivered' = Append(delivered, i)
             /\ from' = read'
             /\ UNCHANGED open
    <3>1. delivered \in Seq(1 .. Len(ends))
      BY DEF TypeOK
    <3>2. /\ delivered' \in Seq(1 .. Len(ends'))
          /\ Range(delivered) \subseteq Range(delivered')
          /\ i \in Range(delivered')
      <4>1. delivered' \in Seq(1 .. Len(ends))
        BY <2>1, <2>2, <3>1
      <4>2. /\ Len(delivered') = Len(delivered) + 1
            /\ \A j \in 1 .. Len(delivered) : delivered'[j] = delivered[j]
            /\ delivered'[Len(delivered) + 1] = i
            /\ DOMAIN delivered = 1 .. Len(delivered)
            /\ DOMAIN delivered' = 1 .. Len(delivered')
            /\ Len(delivered) \in Nat
        BY <2>1, <2>2, <3>1
      <4> QED BY <1>2, <4>1, <4>2 DEF Range
    <3>3. TypeOK'
      <4>1. /\ read' \in 0 .. Written' /\ from' \in 0 .. read'
            /\ open' \in BOOLEAN
        BY <1>3, <1>4, <1>5, <2>2 DEF TypeOK
      <4> QED BY <1>2, <3>2, <4>1 DEF TypeOK
    <3>4. NoLineHeld'
      BY <1>2, <1>3, <1>4, <2>2 DEF NoLineHeld, Lines
    <3>5. AloneIsNext'
      <4> SUFFICES ASSUME NEW j \in alone, j \notin Range(delivered')
                   PROVE  FALSE
        BY <1>2 DEF AloneIsNext
      <4>1. from = Before(j - 1) /\ read < ends[j] /\ j \in 1 .. Len(ends)
        BY <3>2 DEF AloneIsNext, TypeOK
      <4>2. j # i /\ (i - 1) \in 0 .. Len(ends) /\ (j - 1) \in 0 .. Len(ends)
        <5>1. j # i
          BY <3>2
        <5>2. (i - 1) \in 0 .. Len(ends)
          BY <2>1
        <5> QED BY <4>1, <5>1, <5>2
      <4>3. i - 1 < j - 1 \/ j - 1 < i - 1
        BY <2>1, <4>1, <4>2
      <4>4. Before(i - 1) # Before(j - 1)
        <5>1. Before(i - 1) \in Int /\ Before(j - 1) \in Int
          BY <1>3, <2>2, <4>1
        <5> QED BY <4>2, <4>3, <5>1 DEF Ordered
      <4> QED BY <2>2, <4>1, <4>4
    <3>6. StopsOnlyAfterOverlap'
      BY <1>2, <2>2 DEF StopsOnlyAfterOverlap
    <3>7. DeliveredIsOver'
      <4> SUFFICES ASSUME NEW j \in Range(delivered') PROVE ends[j] <= read'
        BY <1>2, <2>2 DEF DeliveredIsOver
      <4>1. j \in Range(delivered) \/ j = i
        BY <2>1, <2>2, <3>1 DEF Range
      <4>2. ends[i] <= read'
        BY <1>4, <1>8 DEF Lines
      <4>3. ASSUME j \in Range(delivered) PROVE ends[j] <= read'
        <5>1. ends[j] <= from /\ j \in 1 .. Len(ends)
          BY <3>1, <4>3 DEF DeliveredIsOver, Range
        <5> QED BY <1>3, <1>4, <5>1
      <4> QED BY <4>1, <4>2, <4>3
    <3> QED BY <1>6, <3>3, <3>4, <3>5, <3>6, <3>7
  <2>3. CASE /\ from # Before(i - 1)
             /\ open' = FALSE
             /\ UNCHANGED <<from, delivered>>
    <3>1. TypeOK'
      <4>1. read' \in 0 .. Written' /\ from' \in 0 .. read'
        BY <1>3, <1>4, <1>5, <2>3
      <4>2. open' \in BOOLEAN
        BY <2>3
      <4> QED BY <1>2, <2>3, <4>1, <4>2 DEF TypeOK
    <3>2. NoLineHeld'
      BY <2>3 DEF NoLineHeld
    <3>3. alone \subseteq Range(delivered)
      <4> SUFFICES ASSUME NEW j \in alone, j \notin Range(delivered)
                   PROVE  FALSE
        OBVIOUS
      <4>1. from = Before(j - 1) /\ j \in 1 .. Len(ends)
        BY DEF AloneIsNext, TypeOK
      <4>2. /\ (i - 1) \in 0 .. Len(ends) /\ (j - 1) \in 0 .. Len(ends)
            /\ i \in 0 .. Len(ends)
        BY <1>3, <2>1, <4>1
      <4>3. j # i
        BY <2>3, <4>1
      <4>4. CASE j < i
        <5>1. j \in 0 .. Len(ends) /\ j # 0 /\ j - 1 < j
          BY <4>1
        <5>3. Before(j - 1) < Before(j)
          BY <4>2, <5>1 DEF Ordered
        <5>2. Before(j) = ends[j] /\ ends[j] <= from
          BY <2>1, <4>1, <4>4, <5>1 DEF Before
        <5> QED BY <1>3, <4>1, <5>2, <5>3
      <4>5. CASE i < j
        <5>1. Before(i) <= Before(j - 1)
          <6>1. CASE i = j - 1
            <7>1. Before(i) \in Nat
              BY <1>3, <2>1 DEF Before
            <7> QED BY <6>1, <7>1
          <6>2. CASE i < j - 1
            <7>1. Before(i) < Before(j - 1)
              BY <4>2, <6>2 DEF Ordered
            <7>2. Before(i) \in Nat
              BY <1>3, <2>1 DEF Before
            <7> QED BY <1>3, <4>1, <7>1, <7>2
          <6> QED BY <4>1, <4>5, <2>1, <6>1, <6>2
        <5>2. Before(i) = ends[i]
          BY <2>1 DEF Before
        <5> QED BY <1>3, <2>1, <4>1, <5>1, <5>2
      <4> QED BY <2>1, <4>1, <4>3, <4>4, <4>5
    <3>4. i \notin alone
      <4> SUFFICES ASSUME i \in alone PROVE FALSE
        OBVIOUS
      <4>1. ends[i] <= from
        BY <3>3 DEF DeliveredIsOver
      <4> QED BY <1>3, <2>1, <4>1
    <3>5. AloneIsNext' /\ DeliveredIsOver' /\ StopsOnlyAfterOverlap'
      <4>1. Range(delivered') = Range(delivered) /\ alone' = alone
        BY <1>2, <2>3
      <4>2. AloneIsNext'
        BY <3>3, <4>1 DEF AloneIsNext
      <4>3. DeliveredIsOver'
        BY <1>2, <2>3, <4>1 DEF DeliveredIsOver
      <4>4. StopsOnlyAfterOverlap'
        BY <1>2, <2>1, <3>4 DEF StopsOnlyAfterOverlap
      <4> QED BY <4>2, <4>3, <4>4
    <3> QED BY <1>6, <3>1, <3>2, <3>5
  <2> QED BY <1>8, <2>2, <2>3 DEF Decode
<1> QED BY <1>1, <1>7, <1>8

THEOREM Inductive == Spec => []FramesInv
<1>1. Init => FramesInv
  <2> SUFFICES ASSUME Init PROVE FramesInv
    OBVIOUS
  <2>1. Len(ends) = 0 /\ ends \in Seq(Nat) /\ Written = 0
    BY DEF Init, Written, Before
  <2>2. TypeOK
    BY <2>1 DEF Init, TypeOK
  <2>3. Ordered /\ NoLineHeld /\ AloneIsNext /\ StopsOnlyAfterOverlap
    BY <2>1 DEF Init, Ordered, NoLineHeld, Lines, AloneIsNext,
                StopsOnlyAfterOverlap
  <2>4. DeliveredIsOver
    BY DEF Init, DeliveredIsOver, Range
  <2> QED BY <2>2, <2>3, <2>4 DEF FramesInv
<1>2. FramesInv /\ [Next]_vars => FramesInv'
  <2> SUFFICES ASSUME FramesInv, [Next]_vars PROVE FramesInv'
    OBVIOUS
  <2>1. CASE UNCHANGED vars
    BY <2>1 DEF vars, FramesInv, TypeOK, Ordered, NoLineHeld, AloneIsNext,
                DeliveredIsOver, StopsOnlyAfterOverlap, Written, Before, Lines
  <2> QED BY <2>1, SendKeeps, ReadKeeps DEF Next
<1> QED BY <1>1, <1>2, PTL DEF Spec

\* Every variable of Frames keeps its type, for any sizes.
THEOREM TypeCorrect == Spec => []TypeOK
<1>1. FramesInv => TypeOK
  BY DEF FramesInv
<1> QED BY <1>1, Inductive, PTL

\* A message written while nothing else is unread arrives, however long it is
\* and however its bytes come in (ReadMessage, SendMessage).
THEOREM AloneAlwaysArrives == Spec => []AloneArrives
<1>1. FramesInv => AloneArrives
  BY DEF FramesInv, AloneIsNext, AloneArrives
<1> QED BY <1>1, Inductive, PTL

\* A reader gives up only after two messages were in the stream at once.
THEOREM AlwaysStopsAfterOverlap == Spec => []StopsOnlyAfterOverlap
<1>1. FramesInv => StopsOnlyAfterOverlap
  BY DEF FramesInv
<1> QED BY <1>1, Inductive, PTL
-----------------------------------------------------------------------------
(***************************************************************************)
(* Frames implements LossyStream.                                          *)
(***************************************************************************)
LEMMA InitRefines == Init => Stream!Init
<1> SUFFICES ASSUME Init PROVE Stream!Init
  OBVIOUS
<1>1. Len(ends) = 0 /\ Settled = {}
  BY DEF Init, Settled
<1>2. ~Torn
  <2>1. 0 \in 0 .. Len(ends) /\ from = Before(0)
    BY <1>1 DEF Init, Before
  <2> QED BY <2>1 DEF Torn
<1> QED BY <1>1, <1>2 DEF Init, Stream!Init

LEMMA SendRefines ==
  ASSUME FramesInv, NEW size \in Size, SendMessage(size)
  PROVE  Stream!Send
<1> USE DEF FramesInv
<1>1. /\ Len(ends') = Len(ends) + 1
      /\ \A i \in 0 .. Len(ends) : Before(i)' = Before(i)
      /\ \A i \in 1 .. Len(ends) : ends'[i] = ends[i]
      /\ ends'[Len(ends) + 1] = Written + size
      /\ Written' = Written + size /\ Written \in Nat
  BY Longer
<1>2. size \in Nat /\ size > 0 /\ Len(ends) \in Nat
  BY FramesAssumption DEF TypeOK
<1>3. UNCHANGED <<read, from, delivered, open>>
  BY DEF SendMessage
<1>4. from \in Nat /\ from <= Written
  BY <1>1 DEF TypeOK
<1>5. Settled' = Settled
  <2>1. ASSUME NEW i \in Settled' PROVE i \in Settled
    <3>1. i \in 1 .. Len(ends') /\ ends'[i] <= from
      BY <1>3, <2>1 DEF Settled
    <3>2. i # Len(ends) + 1
      BY <1>1, <1>2, <1>4, <3>1
    <3>3. i \in 1 .. Len(ends)
      BY <1>1, <1>2, <3>1, <3>2
    <3> QED BY <1>1, <3>1, <3>3 DEF Settled
  <2>2. ASSUME NEW i \in Settled PROVE i \in Settled'
    <3>1. i \in 1 .. Len(ends) /\ ends[i] <= from
      BY DEF Settled
    <3>2. i \in 1 .. Len(ends')
      BY <1>1, <1>2, <3>1
    <3> QED BY <1>1, <1>3, <3>1, <3>2 DEF Settled
  <2> QED BY <2>1, <2>2
<1>6. Torn' = Torn
  <2>1. ASSUME Torn PROVE Torn'
    <3> SUFFICES ASSUME NEW i \in 0 .. Len(ends') PROVE from # Before(i)'
      BY <1>3 DEF Torn
    <3>1. CASE i \in 0 .. Len(ends)
      BY <1>1, <2>1, <3>1 DEF Torn
    <3>2. CASE i = Len(ends) + 1
      <4>1. Before(i)' = Written + size
        BY <1>1, <1>2, <3>2 DEF Before
      <4> QED BY <1>1, <1>2, <1>4, <4>1
    <3> QED BY <1>1, <1>2, <3>1, <3>2
  <2>2. ASSUME Torn' PROVE Torn
    <3> SUFFICES ASSUME NEW i \in 0 .. Len(ends) PROVE from # Before(i)
      BY DEF Torn
    <3>1. i \in 0 .. Len(ends')
      BY <1>1, <1>2
    <3>2. from' # Before(i)'
      BY <2>2, <3>1 DEF Torn
    <3> QED BY <1>1, <1>3, <3>2
  <2>3. Torn \in BOOLEAN /\ Torn' \in BOOLEAN
    BY DEF Torn
  <2> QED BY <2>1, <2>2, <2>3
<1> QED BY <1>1, <1>3, <1>5, <1>6 DEF Stream!Send

LEMMA ReadRefines ==
  ASSUME FramesInv, ReadMessage
  PROVE  Stream!Receive \/ Stream!GiveUp \/ UNCHANGED Stream!vars
<1> USE DEF FramesInv
<1>1. PICK k \in 1 .. Room :
        /\ Fill(k)
        /\ LET lines == Lines(from, read + k) IN
           \/ lines = {} /\ ReadOn(k)
           \/ \E i \in lines : IsFirst(i, lines) /\ Decode(i)
  BY DEF ReadMessage
<1>2. open /\ ends' = ends
  BY DEF ReadMessage
<1>3. /\ Len(ends) \in Nat /\ Written \in Nat
      /\ read \in Nat /\ from \in Nat /\ from <= read
      /\ \A j \in 1 .. Len(ends) : ends[j] \in Nat
      /\ \A j \in 0 .. Len(ends) : Before(j) \in Nat
  <2>1. \A j \in 0 .. Len(ends) : Before(j) \in Nat
    BY DEF TypeOK, Before
  <2>2. Written \in Nat
    BY DEF TypeOK, Written, Before
  <2> QED BY <2>1, <2>2 DEF TypeOK
<1>4. k \in Nat \ {0} /\ read' = read + k /\ read' <= Written
  <2>1. k \in Int /\ k >= 1
    OBVIOUS
  <2> QED BY <1>1, <2>1, <1>3 DEF Fill
<1>5. CASE ReadOn(k)
  <2>1. UNCHANGED <<from, delivered, open>>
    BY <1>5 DEF ReadOn
  <2>2. Settled' = Settled /\ Torn' = Torn
    BY <1>2, <2>1 DEF Settled, Torn, Before
  <2> QED BY <1>2, <2>1, <2>2 DEF Stream!vars
<1>6. ASSUME NEW i \in Lines(from, read + k),
             IsFirst(i, Lines(from, read + k)), Decode(i)
      PROVE  Stream!Receive \/ Stream!GiveUp
  <2>1. /\ i \in 1 .. Len(ends) /\ from < ends[i] /\ read < ends[i]
        /\ ends[i] <= read + k
        /\ \A j \in 0 .. (i - 1) : Before(j) <= from
        /\ \A j \in 1 .. Len(ends) : j < i => ends[j] <= from
    BY <1>1, <1>2, <1>4, <1>6, FirstLine
  <2>2. Before(i) = ends[i] /\ (i - 1) \in 0 .. Len(ends)
    BY <1>3, <2>1 DEF Before
  <2>3. \A j \in 0 .. Len(ends) : from = Before(j) => j = i - 1
    <3> SUFFICES ASSUME NEW j \in 0 .. Len(ends), from = Before(j), j # i - 1
                 PROVE  FALSE
      OBVIOUS
    <3>1. CASE j < i - 1
      <4>1. Before(j) < Before(i - 1)
        BY <2>2, <3>1 DEF Ordered
      <4>2. Before(i - 1) <= from
        BY <1>3, <2>1
      <4> QED BY <1>3, <2>2, <4>1, <4>2
    <3>2. CASE i = j
      BY <1>3, <2>1, <2>2, <3>2
    <3>3. CASE i < j
      <4>1. Before(i) < Before(j)
        BY <2>1, <3>3 DEF Ordered
      <4> QED BY <1>3, <2>1, <2>2, <4>1
    <3> QED BY <2>1, <3>1, <3>2, <3>3
  <2>4. CASE /\ from = Before(i - 1)
             /\ delivered' = Append(delivered, i)
             /\ from' = read'
             /\ UNCHANGED open
    <3> DEFINE Pending == (1 .. Len(ends)) \ Settled
               gone == Settled' \ Settled
    <3>1. ~Torn
      BY <2>2, <2>4 DEF Torn
    <3>2. Pending = {j \in 1 .. Len(ends) : from < ends[j]}
      BY <1>3 DEF Settled
    <3>3. Settled \subseteq Settled' /\ Settled' \subseteq 1 .. Len(ends)
      BY <1>2, <1>3, <1>4, <2>4 DEF Settled
    <3>4. gone \in SUBSET Pending
      BY <3>3
    <3>5. i \in Pending /\ i \in gone
      BY <1>2, <1>3, <1>4, <2>1, <2>4 DEF Settled
    <3>6. ASSUME NEW j \in Pending PROVE i <= j
      <4>1. j \in 1 .. Len(ends) /\ from < ends[j]
        BY <3>2
      <4>2. ~ (ends[j] <= from)
        BY <1>3, <4>1
      <4>3. ~ (j < i)
        BY <2>1, <4>1, <4>2
      <4> QED BY <2>1, <4>1, <4>3
    <3>7. \A j \in gone, l \in Pending : l <= j => l \in gone
      <4> SUFFICES ASSUME NEW j \in gone, NEW l \in Pending, l <= j
                   PROVE  l \in Settled'
        OBVIOUS
      <4>1. /\ j \in 1 .. Len(ends) /\ l \in 1 .. Len(ends)
            /\ ends[j] <= read'
        BY <1>2, <2>4 DEF Settled
      <4>2. ends[l] <= ends[j]
        <5>1. CASE l = j
          BY <1>3, <4>1, <5>1
        <5>2. CASE l < j
          <6>1. l \in 0 .. Len(ends) /\ j \in 0 .. Len(ends)
                /\ l # 0 /\ j # 0
            BY <4>1
          <6>2. Before(l) < Before(j)
            BY <5>2, <6>1 DEF Ordered
          <6> QED BY <1>3, <4>1, <6>1, <6>2 DEF Before
        <5> QED BY <4>1, <5>1, <5>2
      <4> QED BY <1>2, <1>3, <1>4, <2>4, <4>1, <4>2 DEF Settled
    <3>8. Settled' = Settled \union gone
      BY <3>3
    <3>9. Torn' \in {FALSE, Settled' # 1 .. Len(ends)}
      <4>1. Torn' \in BOOLEAN
        BY DEF Torn
      <4>2. ASSUME Torn' PROVE Settled' # 1 .. Len(ends)
        <5>1. \A j \in 0 .. Len(ends) : read' # Before(j)
          BY <1>2, <2>4, <4>2 DEF Torn, Before
        <5>2. Len(ends) \in 1 .. Len(ends) /\ Len(ends) \in 0 .. Len(ends)
          BY <1>3, <2>1
        <5>3. Written = ends[Len(ends)] /\ read' # Written
          BY <5>1, <5>2 DEF Written, Before
        <5>4. Len(ends) \notin Settled'
          <6>1. read' < ends[Len(ends)]
            BY <1>3, <1>4, <5>3
          <6>2. ~(ends'[Len(ends)] <= from')
            BY <1>2, <1>3, <1>4, <2>4, <5>2, <6>1
          <6> QED BY <6>2 DEF Settled
        <5> QED BY <5>2, <5>4
      <4> QED BY <4>1, <4>2
    <3>10. Stream!Pending = Pending
      BY DEF Stream!Pending
    <3> HIDE DEF Pending, gone
    <3>11. Stream!Receive
      BY <1>2, <2>4, <3>1, <3>4, <3>5, <3>6, <3>7, <3>8, <3>9, <3>10
         DEF Stream!Receive
    <3> QED BY <3>11
  <2>5. CASE /\ from # Before(i - 1)
             /\ open' = FALSE
             /\ UNCHANGED <<from, delivered>>
    <3>1. Torn
      BY <2>3, <2>5 DEF Torn
    <3>2. Settled' = Settled /\ Torn' = Torn
      BY <1>2, <2>5 DEF Settled, Torn, Before
    <3> QED BY <1>2, <2>5, <3>1, <3>2 DEF Stream!GiveUp
  <2> QED BY <1>6, <2>4, <2>5 DEF Decode
<1> QED BY <1>1, <1>5, <1>6

\* Messages arrive in order, at most once and whole, from any writer, with any
\* buffer: ReadMessage and SendMessage implement LossyStream.
THEOREM Refinement == Spec => ImplementsLossyStream
<1>1. FramesInv /\ [Next]_vars => [Stream!Next]_(Stream!vars)
  <2> SUFFICES ASSUME FramesInv, [Next]_vars
               PROVE  [Stream!Next]_(Stream!vars)
    OBVIOUS
  <2>1. CASE UNCHANGED vars
    <3>1. Settled' = Settled /\ Torn' = Torn
      BY <2>1 DEF vars, Settled, Torn, Before
    <3> QED BY <2>1, <3>1 DEF vars, Stream!vars
  <2> QED BY <2>1, SendRefines, ReadRefines DEF Next, Stream!Next
<1> QED
  BY <1>1, InitRefines, Inductive, PTL
     DEF Spec, ImplementsLossyStream, Stream!Spec
=============================================================================
