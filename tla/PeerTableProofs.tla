-------------------------- MODULE PeerTableProofs ---------------------------
(***************************************************************************)
(* Proofs about PeerTable, for any nodes, any number of goroutines that    *)
(* dial and any number of streams.                                         *)
(***************************************************************************)
EXTENDS PeerTable, TLAPS

\* Both ends of a stream are nodes that run, and different ones.
LEMMA EndsArePairs ==
  ASSUME NEW s \in Stream
  PROVE  /\ <<s[1], s[2]>> \in Pairs /\ <<s[2], s[1]>> \in Pairs
         /\ s[1] \in Node /\ s[2] \in Node /\ s[1] # s[2]
         /\ s # NoStream
BY DEF Stream, Pairs, NoStream

AtEnd(n, s) == n = s[1] \/ n = s[2]

LEMMA RemoteIsOther ==
  ASSUME NEW s \in Stream, NEW n \in Node, AtEnd(n, s)
  PROVE  <<n, Remote(n, s)>> \in Pairs
BY EndsArePairs DEF Remote, AtEnd
-----------------------------------------------------------------------------
(***************************************************************************)
(* Types                                                                   *)
(***************************************************************************)
Dials ==
  {NoDial}
    \union [at : {"dialling"}, to : Node, rest : SUBSET Node, once : BOOLEAN]
    \union [at : {"opened"}, stream : Stream, rest : SUBSET Node,
            once : BOOLEAN]

\* What goroutine d of n may be at: it dials others.
DialsOf(n) ==
  {NoDial}
    \union [at : {"dialling"}, to : Node \ {n}, rest : SUBSET (Node \ {n}),
            once : BOOLEAN]
    \union [at : {"opened"}, stream : Stream, rest : SUBSET (Node \ {n}),
            once : BOOLEAN]

DialsOthers ==
  \A d \in Dialer : /\ dial[d] \in DialsOf(d[1])
                    /\ dial[d] # NoDial => phase[d[1]] = "up"

TypeInv == TypeOK /\ DialsOthers

\* The addresses that are left are those of others.
LEMMA TurnTyped ==
  ASSUME NEW n \in Node, NEW rest \in SUBSET (Node \ {n}), NEW once \in BOOLEAN,
         NEW turn \in Turn(rest, once)
  PROVE  turn \in DialsOf(n)
<1>1. CASE rest = {}
  BY <1>1 DEF Turn, DialsOf
<1>2. CASE rest # {}
  <2>1. PICK p \in rest : turn = Dialling(p, rest \ {p}, once)
    BY <1>2 DEF Turn
  <2>2. (once /\ rest \ {p} # {}) \in BOOLEAN
    OBVIOUS
  <2> QED BY <2>1, <2>2 DEF DialsOf, Dialling
<1> QED BY <1>1, <1>2

LEMMA DialFields ==
  ASSUME TypeInv, NEW d \in Dialer, dial[d].at # "idle"
  PROVE  /\ d[1] \in Node /\ phase[d[1]] = "up"
         /\ dial[d].rest \in SUBSET (Node \ {d[1]})
         /\ dial[d].once \in BOOLEAN
         /\ dial[d].at = "dialling" => dial[d].to \in Node \ {d[1]}
         /\ dial[d].at = "opened" => dial[d].stream \in Stream
BY PeerTableAssumption DEF TypeInv, DialsOthers, DialsOf, NoDial

\* A goroutine of a node that is up goes on to something it may be at.
LEMMA DialStep ==
  ASSUME TypeInv, NEW d \in Dialer, NEW new \in DialsOf(d[1]),
         phase[d[1]] = "up", dial' = [dial EXCEPT ![d] = new], phase' = phase
  PROVE  dial' \in [Dialer -> Dials] /\ DialsOthers'
<1>1. dial \in [Dialer -> Dials] /\ DialsOf(d[1]) \subseteq Dials
  BY DEF TypeInv, TypeOK, Dials, DialsOf
<1>2. dial' \in [Dialer -> Dials]
  BY <1>1
<1>3. \A e \in Dialer : dial'[e] = IF e = d THEN new ELSE dial[e]
  BY <1>1
<1> QED BY <1>2, <1>3 DEF TypeInv, DialsOthers

LEMMA BeginsTyped ==
  ASSUME TypeInv, NEW d \in Dialer, d[1] \in Node, phase[d[1]] = "up",
         NEW rest \in SUBSET (Node \ {d[1]}), NEW once \in BOOLEAN,
         Begins(d, rest, once)
  PROVE  dial' \in [Dialer -> Dials] /\ DialsOthers'
<1>1. PICK turn \in Turn(rest, once) : dial' = [dial EXCEPT ![d] = turn]
  BY DEF Begins
<1>2. turn \in DialsOf(d[1])
  BY TurnTyped
<1> QED BY <1>1, <1>2, DialStep DEF Begins

LEMMA NewStreamTyped ==
  ASSUME TypeInv, NEW d \in Dialer, NewStream(d)
  PROVE  TypeInv'
<1> DEFINE n == d[1] p == dial[d].to
<1>1. /\ n \in Node /\ p \in Node \ {n}
      /\ phase[n] = "up" /\ phase[p] = "up"
      /\ dial[d].rest \in SUBSET (Node \ {n}) /\ dial[d].once \in BOOLEAN
  BY DialFields DEF NewStream
<1>2. PICK k \in 1 .. MaxStreams :
        /\ alive' = alive \union {<<n, p, k>>}
        /\ pending' = pending \union {<<n, <<n, p, k>>>>, <<p, <<n, p, k>>>>}
        /\ dial' = [dial EXCEPT ![d] = Opened(<<n, p, k>>, dial[d].rest, dial[d].once)]
  BY DEF NewStream
<1>3. <<n, p, k>> \in Stream
  <2>1. <<n, p>> \in Pairs \intersect (Runs \X Runs)
    BY <1>1 DEF TypeInv, TypeOK, Pairs
  <2> QED BY <2>1 DEF Stream
<1>4. Opened(<<n, p, k>>, dial[d].rest, dial[d].once) \in DialsOf(n)
  BY <1>1, <1>3 DEF Opened, DialsOf
<1>5. dial' \in [Dialer -> Dials] /\ DialsOthers'
  BY <1>1, <1>2, <1>4, DialStep DEF NewStream
<1>6. alive' \subseteq Stream /\ pending' \subseteq Node \X Stream
  BY <1>1, <1>2, <1>3 DEF TypeInv, TypeOK
<1> QED BY <1>5, <1>6 DEF NewStream, TypeInv, TypeOK, Dials, counters

\* A node that stops leaves nothing behind.
LEMMA StopTyped ==
  ASSUME TypeInv, NEW n \in Node, Stop(n)
  PROVE  TypeInv'
<1>1. /\ phase' \in [Node -> {"off", "starting", "up", "gone"}]
      /\ \A m \in Node \ Runs : phase'[m] = "off"
  BY PeerTableAssumption DEF Stop, TypeInv, TypeOK
<1>2. dial' \in [Dialer -> Dials]
  BY DEF Stop, TypeInv, TypeOK, Dials
<1>3. DialsOthers'
  BY DEF Stop, TypeInv, TypeOK, DialsOthers, DialsOf
<1>4. /\ table' \in [Pairs -> Stream \union {NoStream}]
      /\ alive' \subseteq Stream
      /\ pending' \subseteq Node \X Stream
      /\ reading' \subseteq Node \X Stream
  BY DEF Stop, TypeInv, TypeOK
<1> QED BY <1>1, <1>2, <1>3, <1>4 DEF Stop, TypeInv, TypeOK, Dials, counters

\* The inductive form of TypeOK holds for ever.
THEOREM TypesKept == Spec => []TypeInv
<1>1. Init => TypeInv
  BY PeerTableAssumption DEF Init, TypeInv, TypeOK, DialsOthers, DialsOf
<1>2. TypeInv /\ [Next]_vars => TypeInv'
  <2> SUFFICES ASSUME TypeInv, [Next]_vars PROVE TypeInv'
    OBVIOUS
  <2>1. ASSUME NEW n \in Node, NewHost(n) \/ NewServer(n) \/ Panic(n)
        PROVE  TypeInv'
    <3>1. /\ phase' \in [Node -> {"off", "starting", "up", "gone"}]
          /\ \A m \in Node \ Runs : phase'[m] = "off"
          /\ \A m \in Node : phase[m] = "up" => phase'[m] = "up"
      BY <2>1 DEF NewHost, NewServer, Panic, TypeInv, TypeOK
    <3>2. UNCHANGED <<alive, pending, table, reading, dial, failed, counters>>
      BY <2>1 DEF NewHost, NewServer, Panic
    <3>3. DialsOthers'
      BY <3>1, <3>2, PeerTableAssumption DEF TypeInv, DialsOthers
    <3> QED BY <3>1, <3>2, <3>3 DEF TypeInv, TypeOK, counters
  <2>2. ASSUME NEW n \in Node, Stop(n) PROVE TypeInv'
    BY <2>2, StopTyped
  <2>3. ASSUME NEW d \in Dialer, NEW p \in Node,
               HandlePeerFound(d, p) \/ ConnectToPeer(d, p)
        PROVE  TypeInv'
    <3>1. PICK rest \in {{}, {p}} : Begins(d, rest, FALSE)
      BY <2>3 DEF HandlePeerFound, ConnectToPeer
    <3>2. /\ d[1] \in Node /\ phase[d[1]] = "up"
          /\ rest \in SUBSET (Node \ {d[1]})
      BY <2>3, <3>1, PeerTableAssumption
         DEF HandlePeerFound, ConnectToPeer, CanDial, Hears
    <3>3. dial' \in [Dialer -> Dials] /\ DialsOthers'
      BY <3>1, <3>2, BeginsTyped
    <3>4. starts' \in Nat /\ UNCHANGED <<failures, misreads>>
      <4>1. CASE HandlePeerFound(d, p)
        BY <4>1 DEF HandlePeerFound, counters, TypeInv, TypeOK
      <4>2. CASE ConnectToPeer(d, p)
        BY <4>2 DEF ConnectToPeer, CountStart, TypeInv, TypeOK
      <4> QED BY <2>3, <4>1, <4>2
    <3> QED BY <3>1, <3>3, <3>4 DEF Begins, TypeInv, TypeOK, Dials
  <2>4. ASSUME NEW d \in Dialer, NEW addresses \in SUBSET Node,
               NEW once \in BOOLEAN,
               TryAddresses(d, addresses, once)
        PROVE  TypeInv'
    <3>1. /\ d[1] \in Node /\ phase[d[1]] = "up" /\ Begins(d, addresses, once)
          /\ addresses \in SUBSET (Node \ {d[1]})
      BY <2>4, PeerTableAssumption DEF TryAddresses, CanDial
    <3>2. dial' \in [Dialer -> Dials] /\ DialsOthers'
      BY <3>1, BeginsTyped
    <3>3. starts' \in Nat /\ UNCHANGED <<failures, misreads>>
      BY <2>4 DEF TryAddresses, CountStart, TypeInv, TypeOK
    <3> QED BY <3>1, <3>2, <3>3 DEF Begins, TypeInv, TypeOK, Dials
  <2>5. ASSUME NEW d \in Dialer, DialFails(d) PROVE TypeInv'
    <3>1. /\ d[1] \in Node /\ phase[d[1]] = "up"
          /\ dial[d].rest \in SUBSET (Node \ {d[1]})
          /\ dial[d].once \in BOOLEAN
          /\ dial[d].to \in Node \ {d[1]}
      BY <2>5, DialFields DEF DialFails
    <3>2. PICK turn \in Turn(dial[d].rest, dial[d].once) :
            dial' = [dial EXCEPT ![d] = turn]
      BY <2>5 DEF DialFails
    <3>3. dial' \in [Dialer -> Dials] /\ DialsOthers'
      BY <2>5, <3>1, <3>2, TurnTyped, DialStep DEF DialFails
    <3>4. failed' \subseteq Pairs /\ failures' \in Nat
      BY <2>5, <3>1 DEF DialFails, TypeInv, TypeOK, Pairs
    <3> QED BY <2>5, <3>3, <3>4 DEF DialFails, TypeInv, TypeOK, Dials
  <2>6. ASSUME NEW d \in Dialer, NewStream(d) PROVE TypeInv'
    BY <2>6, NewStreamTyped
  <2>7. ASSUME NEW d \in Dialer, DialReturns(d) PROVE TypeInv'
    <3>1. /\ d[1] \in Node /\ phase[d[1]] = "up"
          /\ dial[d].rest \in SUBSET (Node \ {d[1]})
          /\ dial[d].once \in BOOLEAN
      BY <2>7, DialFields DEF DialReturns
    <3>2. PICK rest \in {{}, dial[d].rest} :
            \E turn \in Turn(rest, dial[d].once) :
              dial' = [dial EXCEPT ![d] = turn]
      BY <2>7 DEF DialReturns
    <3>3. dial' \in [Dialer -> Dials] /\ DialsOthers'
      BY <2>7, <3>1, <3>2, TurnTyped, DialStep DEF DialReturns
    <3> QED BY <2>7, <3>3 DEF DialReturns, TypeInv, TypeOK, Dials, counters
  <2>8. ASSUME NEW n \in Node, NEW s \in Stream,
               HandleStream(n, s) \/ NeverHandled(n, s) \/ ReaderExits(n, s)
        PROVE  TypeInv'
    <3>1. /\ table' \in [Pairs -> Stream \union {NoStream}]
          /\ alive' \subseteq alive /\ pending' \subseteq pending
          /\ reading' \subseteq reading \union {<<n, s>>}
      BY <2>8
      DEF HandleStream, Register, Refuse, NeverHandled, ReaderExits, Forget,
          TypeInv, TypeOK
    <3>2. UNCHANGED <<phase, dial, failed, starts, failures>>
      BY <2>8 DEF HandleStream, NeverHandled, ReaderExits, counters
    <3>3. misreads' \in Nat
      BY <2>8
      DEF HandleStream, NeverHandled, ReaderExits, counters, TypeInv, TypeOK
    <3> QED BY <3>1, <3>2, <3>3 DEF TypeInv, TypeOK, DialsOthers
  <2>9. ASSUME NEW l \in Pairs,
               ForgetFailure(l[1], l[2]) \/ ConnectionLost(l[1], l[2])
        PROVE  TypeInv'
    <3>1. /\ alive' \subseteq alive /\ failed' \subseteq failed
          /\ UNCHANGED <<phase, pending, table, reading, dial, starts, misreads>>
      BY <2>9 DEF ForgetFailure, ConnectionLost, counters
    <3>2. failures' \in Nat
      BY <2>9 DEF ForgetFailure, ConnectionLost, counters, TypeInv, TypeOK
    <3> QED BY <3>1, <3>2 DEF TypeInv, TypeOK, DialsOthers
  <2>10. CASE UNCHANGED vars
    BY <2>10 DEF vars, counters, TypeInv, TypeOK, DialsOthers
  <2>11. ASSUME NEW d \in Dialer, NEW p \in Node, TryLocalDiscovery(d, p)
         PROVE  TypeInv'
    BY <2>4, <2>11 DEF TryLocalDiscovery
  <2>12. ASSUME NEW d \in Dialer, NEW addresses \in SUBSET Node,
                \/ ConnectToBootNodes(d, addresses)
                \/ FetchSeedsFromHTTP(d, addresses)
                \/ HandlePeers(d, addresses)
         PROVE  TypeInv'
    BY <2>4, <2>12 DEF ConnectToBootNodes, FetchSeedsFromHTTP, HandlePeers
  <2> QED
    BY <2>1, <2>2, <2>3, <2>5, <2>6, <2>7, <2>8, <2>9, <2>10, <2>11, <2>12
    DEF Next
<1> QED BY <1>1, <1>2, PTL DEF Spec

\* Every variable of PeerTable keeps its type.
THEOREM TypeCorrect == Spec => []TypeOK
<1>1. TypeInv => TypeOK
  BY DEF TypeInv
<1> QED BY <1>1, TypesKept, PTL
-----------------------------------------------------------------------------
(***************************************************************************)
(* A goroutine that handles or reads a stream is at one of its ends, and   *)
(* an entry holds a stream of that very peer.                              *)
(***************************************************************************)
EndsInv ==
  /\ \A n \in Node, s \in Stream :
       <<n, s>> \in pending \union reading => AtEnd(n, s)
  /\ \A l \in Pairs : table[l] # NoStream => Remote(l[1], table[l]) = l[2]

TableInv == EndsInv /\ EntryIsRead

\* What the actions do to streams, to the table and to the readers, by the ways
\* in which they touch them; everything else is left to TypeOK.
LEMMA StepCases ==
  ASSUME [Next]_vars
  PROVE  \/ \E n \in Node : Stop(n)
         \/ \E d \in Dialer : NewStream(d)
         \/ \E n \in Node, s \in Stream :
              HandleStream(n, s) \/ NeverHandled(n, s) \/ ReaderExits(n, s)
         \/ /\ UNCHANGED <<table, reading, pending, misreads>>
            /\ alive' \subseteq alive
<1> DEFINE Untouched == /\ UNCHANGED <<table, reading, pending, misreads>>
                        /\ alive' \subseteq alive
<1>1. ASSUME NEW n \in Node, NewHost(n) \/ NewServer(n) \/ Panic(n)
      PROVE  Untouched
  BY <1>1 DEF NewHost, NewServer, Panic, counters
<1>2. ASSUME NEW d \in Dialer, NEW p \in Node,
             \/ HandlePeerFound(d, p) \/ ConnectToPeer(d, p)
             \/ TryLocalDiscovery(d, p)
      PROVE  Untouched
  BY <1>2
  DEF HandlePeerFound, ConnectToPeer, TryLocalDiscovery, TryAddresses, Begins,
      CountStart, counters
<1>3. ASSUME NEW d \in Dialer, NEW addresses \in SUBSET Node,
             \/ ConnectToBootNodes(d, addresses)
             \/ FetchSeedsFromHTTP(d, addresses)
             \/ HandlePeers(d, addresses)
      PROVE  Untouched
  BY <1>3
  DEF ConnectToBootNodes, FetchSeedsFromHTTP, HandlePeers, TryAddresses, Begins,
      CountStart
<1>4. ASSUME NEW d \in Dialer, DialFails(d) \/ DialReturns(d)
      PROVE  Untouched
  BY <1>4 DEF DialFails, DialReturns, counters
<1>5. ASSUME NEW l \in Pairs,
             ForgetFailure(l[1], l[2]) \/ ConnectionLost(l[1], l[2])
      PROVE  Untouched
  BY <1>5 DEF ForgetFailure, ConnectionLost, counters
<1>6. ASSUME UNCHANGED vars
      PROVE  Untouched
  BY <1>6 DEF vars, counters
<1> QED BY <1>1, <1>2, <1>3, <1>4, <1>5, <1>6 DEF Next
-----------------------------------------------------------------------------
\* A process that ends takes its entries and its readers with it.
LEMMA StopKeeps ==
  ASSUME TypeInv, TableInv, NEW n \in Node, Stop(n)
  PROVE  TableInv'
<1>1. /\ table' = [l \in Pairs |-> IF l[1] = n THEN NoStream ELSE table[l]]
      /\ pending' = {w \in pending : w[1] # n}
      /\ reading' = {w \in reading : w[1] # n}
  BY DEF Stop
<1>2. EndsInv'
  BY <1>1 DEF TableInv, EndsInv
<1>3. ASSUME NEW l \in Pairs, table'[l] # NoStream
      PROVE  <<l[1], table'[l]>> \in reading'
  BY <1>1, <1>3 DEF TableInv, EntryIsRead
<1>4. ASSUME NEW m \in Node, NEW t \in Stream, <<m, t>> \in reading'
      PROVE  table'[<<m, Remote(m, t)>>] = t
  <2>1. <<m, Remote(m, t)>> \in Pairs
    BY <1>1, <1>4, RemoteIsOther DEF TableInv, EndsInv
  <2>2. m # n /\ table[<<m, Remote(m, t)>>] = t
    BY <1>1, <1>4 DEF TableInv, EntryIsRead
  <2> QED BY <1>1, <2>1, <2>2
<1> QED BY <1>2, <1>3, <1>4 DEF TableInv, EntryIsRead

LEMMA NewStreamKeeps ==
  ASSUME TypeInv, TableInv, NEW d \in Dialer, NewStream(d)
  PROVE  TableInv'
<1> DEFINE n == d[1] p == dial[d].to
<1>1. PICK k \in 1 .. MaxStreams :
        pending' = pending \union {<<n, <<n, p, k>>>>, <<p, <<n, p, k>>>>}
  BY DEF NewStream
<1>2. AtEnd(n, <<n, p, k>>) /\ AtEnd(p, <<n, p, k>>)
  BY DEF AtEnd
<1>3. UNCHANGED <<table, reading>>
  BY DEF NewStream
<1> QED BY <1>1, <1>2, <1>3 DEF TableInv, EndsInv, EntryIsRead

\* handleStream registers a stream only where there is no entry, and then
\* no goroutine reads another stream of that peer.
LEMMA HandleStreamKeeps ==
  ASSUME TypeInv, TableInv, NEW n \in Node, NEW s \in Stream,
         HandleStream(n, s)
  PROVE  TableInv'
<1> DEFINE r == Remote(n, s)
<1>1. AtEnd(n, s) /\ <<n, r>> \in Pairs
  BY RemoteIsOther DEF HandleStream, TableInv, EndsInv
<1>2. CASE UNCHANGED <<table, reading>>
  BY <1>2 DEF HandleStream, TableInv, EndsInv, EntryIsRead
<1>3. CASE table[<<n, r>>] = NoStream /\ Register(n, s)
  <2>1. /\ table' = [table EXCEPT ![<<n, r>>] = s]
        /\ reading' = reading \union {<<n, s>>}
        /\ pending' \subseteq pending
    BY <1>3 DEF Register, HandleStream
  <2>2. /\ table \in [Pairs -> Stream \union {NoStream}]
        /\ reading \subseteq Node \X Stream
    BY DEF TypeInv, TypeOK
  <2>3. EndsInv'
    <3>1. \A m \in Node, t \in Stream :
            <<m, t>> \in pending' \union reading' => AtEnd(m, t)
      BY <1>1, <2>1 DEF TableInv, EndsInv
    <3>2. \A l \in Pairs : table'[l] # NoStream =>
            Remote(l[1], table'[l]) = l[2]
      BY <2>1, <2>2 DEF TableInv, EndsInv
    <3> QED BY <3>1, <3>2 DEF EndsInv
  <2>4. EntryIsRead'
    <3>1. ASSUME NEW l \in Pairs, table'[l] # NoStream
          PROVE  <<l[1], table'[l]>> \in reading'
      BY <2>1, <2>2, <3>1 DEF TableInv, EntryIsRead
    <3>2. ASSUME NEW m \in Node, NEW t \in Stream, <<m, t>> \in reading'
          PROVE  table'[<<m, Remote(m, t)>>] = t
      <4>1. CASE <<m, t>> = <<n, s>>
        BY <1>1, <2>1, <2>2, <4>1
      <4>2. CASE <<m, t>> # <<n, s>>
        <5>1. table[<<m, Remote(m, t)>>] = t
          BY <2>1, <3>2, <4>2 DEF TableInv, EntryIsRead
        <5>2. <<m, Remote(m, t)>> # <<n, r>>
          BY <1>3, <5>1, EndsArePairs
        <5>3. <<m, Remote(m, t)>> \in Pairs
          BY <2>1, <3>2, <4>2, RemoteIsOther DEF TableInv, EndsInv
        <5> QED BY <2>1, <2>2, <5>1, <5>2, <5>3
      <4> QED BY <4>1, <4>2
    <3> QED BY <3>1, <3>2 DEF EntryIsRead
  <2> QED BY <2>3, <2>4 DEF TableInv
<1> QED BY <1>2, <1>3 DEF HandleStream

\* The entry that the end of readMessages deletes by the peer's ID is the
\* entry of its own stream.
LEMMA ReaderExitsKeeps ==
  ASSUME TypeInv, TableInv, NEW n \in Node, NEW s \in Stream,
         ReaderExits(n, s)
  PROVE  TableInv'
<1> DEFINE r == Remote(n, s)
<1>1. table[<<n, r>>] = s /\ <<n, r>> \in Pairs
  BY RemoteIsOther DEF ReaderExits, TableInv, EndsInv, EntryIsRead
<1>2. /\ table' = [table EXCEPT ![<<n, r>>] = NoStream]
      /\ reading' = reading \ {<<n, s>>}
      /\ pending' = pending
  BY DEF ReaderExits, Forget
<1>3. table \in [Pairs -> Stream \union {NoStream}]
  BY DEF TypeInv, TypeOK
<1>4. EndsInv'
  BY <1>2, <1>3 DEF TableInv, EndsInv
<1>5. ASSUME NEW l \in Pairs, table'[l] # NoStream
      PROVE  <<l[1], table'[l]>> \in reading'
  <2>1. l # <<n, r>> /\ table'[l] = table[l]
    BY <1>1, <1>2, <1>3, <1>5
  <2>2. <<l[1], table[l]>> \in reading /\ Remote(l[1], table[l]) = l[2]
    BY <1>5, <2>1 DEF TableInv, EndsInv, EntryIsRead
  <2>3. <<l[1], table[l]>> # <<n, s>>
    BY <2>1, <2>2 DEF Pairs
  <2> QED BY <1>2, <2>1, <2>2, <2>3
<1>6. ASSUME NEW m \in Node, NEW t \in Stream, <<m, t>> \in reading'
      PROVE  table'[<<m, Remote(m, t)>>] = t
  <2>1. table[<<m, Remote(m, t)>>] = t /\ <<m, t>> # <<n, s>>
    BY <1>2, <1>6 DEF TableInv, EntryIsRead
  <2>2. <<m, Remote(m, t)>> # <<n, r>>
    BY <1>1, <2>1
  <2>3. <<m, Remote(m, t)>> \in Pairs
    BY <1>2, <1>6, RemoteIsOther DEF TableInv, EndsInv
  <2> QED BY <1>2, <1>3, <2>1, <2>2, <2>3
<1>7. EntryIsRead'
  BY <1>5, <1>6 DEF EntryIsRead
<1> QED BY <1>4, <1>7 DEF TableInv

\* The inductive form of EntryIsRead holds for ever.
THEOREM TableKept == Spec => []TableInv
<1>1. Init => TableInv
  BY DEF Init, TableInv, EndsInv, EntryIsRead
<1>2. TypeInv /\ TableInv /\ [Next]_vars => TableInv'
  <2> SUFFICES ASSUME TypeInv, TableInv, [Next]_vars PROVE TableInv'
    OBVIOUS
  <2>1. CASE UNCHANGED <<table, reading>> /\ pending' \subseteq pending
    BY <2>1 DEF TableInv, EndsInv, EntryIsRead
  <2>2. ASSUME NEW n \in Node, NEW s \in Stream, NeverHandled(n, s)
        PROVE  UNCHANGED <<table, reading>> /\ pending' \subseteq pending
    BY <2>2 DEF NeverHandled
  <2> QED
    BY <2>1, <2>2, StepCases, StopKeeps, NewStreamKeeps, HandleStreamKeeps,
       ReaderExitsKeeps
<1> QED BY <1>1, <1>2, TypesKept, PTL DEF Spec

\* The entry for a peer and the goroutine that reads from it live and die
\* together, whatever crosses, fails, stops or is given up (handleStream, and
\* the deferred delete in readMessages).
THEOREM EntryAlwaysRead == Spec => []EntryIsRead
<1>1. TableInv => EntryIsRead
  BY DEF TableInv
<1> QED BY <1>1, TableKept, PTL
-----------------------------------------------------------------------------
(***************************************************************************)
(* Both ends of a stream.  Neither looks at the table of the other; but    *)
(* each resets a stream that it does not register, and as long as nobody   *)
(* gives up on one that is alive, a stream is alive only while each end is *)
(* about to look at it or reads from it.                                   *)
(***************************************************************************)
HeldAtBothEnds ==
  misreads = 0 =>
    \A s \in alive : \A n \in {s[1], s[2]} : <<n, s>> \in pending \union reading

\* A goroutine lets go of a stream that is dead, or resets it, or gives up.
LEMMA LetGoKeeps ==
  ASSUME TypeInv, TableInv, HeldAtBothEnds, NEW n \in Node, NEW s \in Stream,
         HandleStream(n, s) \/ NeverHandled(n, s) \/ ReaderExits(n, s)
  PROVE  HeldAtBothEnds'
<1>1. CASE HandleStream(n, s)
  <2>1. misreads' = misreads /\ pending' = pending \ {<<n, s>>}
    BY <1>1 DEF HandleStream, counters
  <2>2. CASE Register(n, s)
    BY <2>1, <2>2 DEF Register, HeldAtBothEnds
  <2>3. CASE Refuse(s) /\ UNCHANGED reading
    BY <2>1, <2>3 DEF Refuse, HeldAtBothEnds
  <2> QED BY <1>1, <2>2, <2>3 DEF HandleStream
<1>2. CASE NeverHandled(n, s)
  BY <1>2 DEF NeverHandled, counters, HeldAtBothEnds
<1>3. CASE ReaderExits(n, s)
  <2>1. CASE s \notin alive /\ UNCHANGED misreads
    BY <1>3, <2>1 DEF ReaderExits, HeldAtBothEnds
  <2>2. CASE misreads' = misreads + 1
    BY <2>2 DEF TypeInv, TypeOK, HeldAtBothEnds
  <2> QED BY <1>3, <2>1, <2>2 DEF ReaderExits
<1> QED BY <1>1, <1>2, <1>3

\* What is read at both ends is the entry of both.
LEMMA HeldMeansMutual ==
  ASSUME TypeInv, TableInv, HeldAtBothEnds
  PROVE  QuietMeansMutual
<1> SUFFICES ASSUME Quiet, misreads = 0
             PROVE  /\ \A l \in Pairs : table[l] = table[<<l[2], l[1]>>]
                    /\ \A s \in alive : table[<<s[1], s[2]>>] = s
  BY DEF QuietMeansMutual
<1>1. ASSUME NEW s \in alive
      PROVE  table[<<s[1], s[2]>>] = s /\ table[<<s[2], s[1]>>] = s
  <2>1. s \in Stream /\ <<s[1], s>> \in reading /\ <<s[2], s>> \in reading
    BY DEF HeldAtBothEnds, Quiet, TypeInv, TypeOK
  <2>2. Remote(s[1], s) = s[2] /\ Remote(s[2], s) = s[1]
    BY <2>1, EndsArePairs DEF Remote
  <2> QED BY <2>1, <2>2, EndsArePairs DEF TableInv, EntryIsRead
<1>2. ASSUME NEW l \in Pairs, table[l] # NoStream
      PROVE  table[<<l[2], l[1]>>] = table[l]
  <2> DEFINE s == table[l]
  <2>1. s \in Stream /\ <<l[1], s>> \in reading
    BY <1>2 DEF TableInv, EntryIsRead, TypeInv, TypeOK
  <2>2. s \in alive
    BY <2>1 DEF Quiet
  <2>3. AtEnd(l[1], s) /\ Remote(l[1], s) = l[2]
    BY <1>2, <2>1 DEF TableInv, EndsInv, Pairs
  <2>4. \/ l[1] = s[1] /\ l[2] = s[2]
        \/ l[1] = s[2] /\ l[2] = s[1]
    BY <2>1, <2>3, EndsArePairs DEF AtEnd, Remote
  <2>5. table[<<s[1], s[2]>>] = s /\ table[<<s[2], s[1]>>] = s
    BY <1>1, <2>2
  <2> HIDE DEF s
  <2>6. table[<<l[2], l[1]>>] = s
    BY <2>4, <2>5
  <2> QED BY <2>6 DEF s
<1>3. ASSUME NEW l \in Pairs PROVE table[l] = table[<<l[2], l[1]>>]
  <2>1. <<l[2], l[1]>> \in Pairs /\ l = <<l[1], l[2]>>
    BY DEF Pairs
  <2>2. table[<<l[2], l[1]>>] # NoStream => table[l] = table[<<l[2], l[1]>>]
    BY <1>2, <2>1
  <2> QED BY <1>2, <2>2
<1> QED BY <1>1, <1>3

\* Once all is quiet the two ends of every connection agree on one stream that
\* is alive, or on none, and every stream that is alive is such a one, whatever
\* crossed, was refused, failed or stopped, unless a reader gave one up
\* (handleStream at both ends, readMessages).
THEOREM AlwaysMutual == Spec => []QuietMeansMutual
<1>1. Init => HeldAtBothEnds
  BY DEF Init, HeldAtBothEnds
<1>2. TypeInv /\ TableInv /\ HeldAtBothEnds /\ [Next]_vars => HeldAtBothEnds'
  <2> SUFFICES ASSUME TypeInv, TableInv, HeldAtBothEnds, [Next]_vars
               PROVE  HeldAtBothEnds'
    OBVIOUS
  <2>1. ASSUME NEW n \in Node, Stop(n) PROVE HeldAtBothEnds'
    BY <2>1 DEF Stop, counters, HeldAtBothEnds
  <2>2. ASSUME NEW d \in Dialer, NewStream(d) PROVE HeldAtBothEnds'
    <3> DEFINE n == d[1] p == dial[d].to
    <3>1. PICK k \in 1 .. MaxStreams :
            /\ alive' = alive \union {<<n, p, k>>}
            /\ pending' = pending \union {<<n, <<n, p, k>>>>, <<p, <<n, p, k>>>>}
      BY <2>2 DEF NewStream
    <3>2. UNCHANGED <<reading, misreads>>
      BY <2>2 DEF NewStream, counters
    <3>3. <<n, p, k>>[1] = n /\ <<n, p, k>>[2] = p
      OBVIOUS
    <3> HIDE DEF n, p
    <3> QED BY <3>1, <3>2, <3>3 DEF HeldAtBothEnds
  <2>3. CASE /\ UNCHANGED <<table, reading, pending, misreads>>
             /\ alive' \subseteq alive
    BY <2>3 DEF HeldAtBothEnds
  <2> QED BY <2>1, <2>2, <2>3, LetGoKeeps, StepCases
<1> QED BY <1>1, <1>2, HeldMeansMutual, TypesKept, TableKept, PTL DEF Spec
=============================================================================
