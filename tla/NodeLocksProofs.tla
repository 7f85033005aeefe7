-------------------------- MODULE NodeLocksProofs --------------------------
(***************************************************************************)
(* Proofs about NodeLocks, for any nodes, connections, tasks and bounds.   *)
(***************************************************************************)
EXTENDS NodeLocks, FiniteSetTheorems, SequenceTheorems, TLAPS

\* Every nonempty set of naturals has a least element, which takes the place of
\* induction below.
LEMMA LeastNumber ==
  ASSUME NEW S, S \subseteq Nat, S # {}
  PROVE  \E x \in S : \A y \in S : x <= y
<1> DEFINE R == StrictSubsetOrdering(Nat)
           F == FiniteSubsetsOf(Nat)
           T == {0 .. x : x \in S}
<1>1. IsWellFoundedOn(R, F)
  BY FS_StrictSubsetOrderingWellFounded
<1>2. T \subseteq F /\ T # {}
  <2>1. ASSUME NEW x \in S PROVE (0 .. x) \in F
    <3>1. x \in Nat /\ 0 \in Int /\ x \in Int
      OBVIOUS
    <3>2. IsFiniteSet(0 .. x)
      BY <3>1, FS_Interval
    <3>3. (0 .. x) \subseteq Nat
      BY <3>1
    <3> QED BY <3>2, <3>3 DEF FiniteSubsetsOf
  <2> HIDE DEF F
  <2> QED BY <2>1
<1> HIDE DEF R, F, T
<1>3. PICK u \in T : \A v \in T : <<v, u>> \notin R
  BY <1>1, <1>2, WFMin
<1>4. PICK x \in S : u = 0 .. x
  BY <1>3 DEF T
<1>5. ASSUME NEW y \in S, y < x PROVE FALSE
  <2>1. (0 .. y) \in T
    BY DEF T
  <2>2. (0 .. y) \subseteq u
    BY <1>4, <1>5
  <2>3. x \in u /\ x \notin 0 .. y
    BY <1>4, <1>5
  <2>4. <<0 .. y, u>> \in R
    BY <1>4, <2>2, <2>3 DEF R, StrictSubsetOrdering
  <2> QED BY <1>3, <2>1, <2>4
<1> QED BY <1>5

-----------------------------------------------------------------------------
(***************************************************************************)
(* Scripts that follow the order of the locks                              *)
(***************************************************************************)
Rank(m) == IF m = "mu" THEN 1 ELSE 2

Guard(data) ==
  CASE data = "chain" -> "mu"
    [] data = "processed" -> "processedMutex"
    [] data = "peers" -> "peerMutex"

\* A goroutine holds a lock when it owes the instruction that gives it back.
Release == [do : {"unlock", "runlock"}, on : Mutex]

After(i, H) ==
  CASE i.do = "lock" -> H \union {Unlock(i.on)}
    [] i.do = "rlock" -> H \union {RUnlock(i.on)}
    [] i.do \in {"unlock", "runlock"} -> H \ {i}
    [] OTHER -> H

\* What g may do while it holds H.  w: whether it may append a block.
Legal(g, w, i, H) ==
  /\ i.do \in {"lock", "rlock"} => \A x \in H : Rank(x.on) < Rank(i.on)
  /\ i.do \in {"unlock", "runlock"} => i \in H
  /\ i.do = "read" =>
       \/ Unlock(Guard(i.on)) \in H
       \/ RUnlock(Guard(i.on)) \in H
       \/ i.on = "peers" /\ g[2] = "discovery"
  /\ i.do = "write" => Unlock(Guard(i.on)) \in H
  /\ i = Write("chain") => w
  /\ i.do \in {"join", "leave"} =>
       Unlock("peerMutex") \in H /\ <<g[1], i.peer>> \in Link
  /\ i.do \in {"send", "sendnext"} => <<g[1], i.to>> \in Link
  /\ i.do \in {"sendall", "sendnext"} => RUnlock("peerMutex") \in H
  /\ i.do # "drain"

\* h tells what g holds before each instruction of s and at the end.
Follows(g, w, s, h) ==
  \A k \in 1 .. Len(s) :
    Legal(g, w, s[k], h[k]) /\ h[k + 1] = After(s[k], h[k])

\* s takes g from holding H to holding E.
Runs(g, w, s, H, E) ==
  /\ s \in Seq(Instruction)
  /\ \E h \in [1 .. Len(s) + 1 -> SUBSET Release] :
       h[1] = H /\ h[Len(s) + 1] = E /\ Follows(g, w, s, h)

LEMMA RunsNothing ==
  ASSUME NEW g, NEW w, NEW H \in SUBSET Release
  PROVE  Runs(g, w, <<>>, H, H)
<1> DEFINE h == [k \in 1 .. 1 |-> H]
<1>1. /\ h \in [1 .. Len(<<>>) + 1 -> SUBSET Release]
      /\ h[1] = H /\ h[Len(<<>>) + 1] = H
      /\ Follows(g, w, <<>>, h)
  BY DEF Follows
<1> QED BY <1>1 DEF Runs

LEMMA RunsOne ==
  ASSUME NEW g, NEW w, NEW H \in SUBSET Release, NEW i \in Instruction,
         Legal(g, w, i, H), After(i, H) \in SUBSET Release
  PROVE  Runs(g, w, <<i>>, H, After(i, H))
<1> DEFINE h == [k \in 1 .. 2 |-> IF k = 1 THEN H ELSE After(i, H)]
           s == <<i>>
<1>1. s \in Seq(Instruction) /\ Len(s) = 1 /\ s[1] = i
  OBVIOUS
<1> HIDE DEF s
<1>2. /\ h \in [1 .. Len(s) + 1 -> SUBSET Release]
      /\ h[1] = H /\ h[Len(s) + 1] = After(i, H)
      /\ Follows(g, w, s, h)
  BY <1>1 DEF Follows
<1>3. Runs(g, w, s, H, After(i, H))
  BY <1>1, <1>2 DEF Runs
<1> QED BY <1>3 DEF s

LEMMA RunsBoth ==
  ASSUME NEW g, NEW w, NEW s, NEW t, NEW H, NEW D, NEW E,
         Runs(g, w, s, H, D), Runs(g, w, t, D, E)
  PROVE  Runs(g, w, s \o t, H, E)
<1>1. s \in Seq(Instruction) /\ t \in Seq(Instruction)
  BY DEF Runs
<1> DEFINE u == s \o t
           m == Len(s)
           n == Len(t)
<1>2. /\ m \in Nat /\ n \in Nat
      /\ u \in Seq(Instruction) /\ Len(u) = m + n
      /\ \A k \in 1 .. m + n : u[k] = IF k <= m THEN s[k] ELSE t[k - m]
  BY <1>1, LenProperties, ConcatProperties
<1> HIDE DEF u, m, n
<1>3. PICK a \in [1 .. m + 1 -> SUBSET Release] :
        a[1] = H /\ a[m + 1] = D /\ Follows(g, w, s, a)
  BY DEF Runs, m
<1>4. PICK b \in [1 .. n + 1 -> SUBSET Release] :
        b[1] = D /\ b[n + 1] = E /\ Follows(g, w, t, b)
  BY DEF Runs, n
<1> DEFINE h == [k \in 1 .. m + n + 1 |-> IF k <= m THEN a[k] ELSE b[k - m]]
<1>5. /\ \A k \in 1 .. m + 1 : h[k] = a[k]
      /\ \A k \in m + 1 .. m + n + 1 : h[k] = b[k - m]
  <2>1. ASSUME NEW k \in 1 .. m + 1 PROVE h[k] = a[k]
    <3>1. CASE k <= m
      BY <1>2, <3>1
    <3>2. CASE k = m + 1
      BY <1>2, <1>3, <1>4, <3>2
    <3> QED BY <1>2, <3>1, <3>2
  <2>2. ASSUME NEW k \in m + 1 .. m + n + 1 PROVE h[k] = b[k - m]
    BY <1>2
  <2> QED BY <2>1, <2>2
<1>6. h \in [1 .. m + n + 1 -> SUBSET Release]
  <2>1. ASSUME NEW k \in 1 .. m + n + 1
        PROVE  (IF k <= m THEN a[k] ELSE b[k - m]) \in SUBSET Release
    <3>1. CASE k <= m
      <4>1. k \in 1 .. m + 1
        BY <1>2, <3>1
      <4> QED BY <1>3, <3>1, <4>1
    <3>2. CASE ~(k <= m)
      <4>1. k - m \in 1 .. n + 1
        BY <1>2, <3>2
      <4> QED BY <1>4, <3>2, <4>1
    <3> QED BY <3>1, <3>2
  <2> QED BY <2>1
<1> HIDE DEF h
<1>7. h[1] = H /\ h[m + n + 1] = E
  BY <1>2, <1>3, <1>4, <1>5
<1>8. Follows(g, w, u, h)
  <2> SUFFICES ASSUME NEW k \in 1 .. m + n
               PROVE  Legal(g, w, u[k], h[k]) /\ h[k + 1] = After(u[k], h[k])
    BY <1>2 DEF Follows
  <2>1. CASE k <= m
    <3>1. k \in 1 .. m /\ u[k] = s[k] /\ h[k] = a[k] /\ h[k + 1] = a[k + 1]
      BY <1>2, <1>5, <2>1
    <3>2. Legal(g, w, s[k], a[k]) /\ a[k + 1] = After(s[k], a[k])
      BY <1>3, <3>1 DEF Follows, m
    <3> QED BY <3>1, <3>2
  <2>2. CASE ~(k <= m)
    <3> DEFINE j == k - m
    <3>1. j \in 1 .. n /\ u[k] = t[j] /\ h[k] = b[j] /\ h[k + 1] = b[j + 1]
      BY <1>2, <1>5, <2>2
    <3> HIDE DEF j
    <3>2. Legal(g, w, t[j], b[j]) /\ b[j + 1] = After(t[j], b[j])
      BY <1>4, <3>1 DEF Follows, n
    <3> QED BY <3>1, <3>2
  <2> QED BY <2>1, <2>2
<1>9. Runs(g, w, u, H, E)
  BY <1>2, <1>6, <1>7, <1>8 DEF Runs
<1> QED BY <1>9 DEF u

LEMMA MoreAllowed ==
  ASSUME NEW g, NEW w, NEW s, NEW H, NEW E, Runs(g, w, s, H, E)
  PROVE  Runs(g, TRUE, s, H, E)
<1>1. PICK h \in [1 .. Len(s) + 1 -> SUBSET Release] :
        h[1] = H /\ h[Len(s) + 1] = E /\ Follows(g, w, s, h)
  BY DEF Runs
<1>2. Follows(g, TRUE, s, h)
  BY <1>1 DEF Follows, Legal
<1> QED BY <1>1, <1>2 DEF Runs

LEMMA InstructionsTyped ==
  /\ \A m \in Mutex :
       /\ Lock(m) \in Instruction /\ Drain(m) \in Instruction
       /\ RLock(m) \in Instruction
       /\ Unlock(m) \in Instruction /\ Unlock(m) \in Release
       /\ RUnlock(m) \in Instruction /\ RUnlock(m) \in Release
  /\ \A data \in {"chain", "processed", "peers"} :
       /\ Read(data) \in Instruction /\ Write(data) \in Instruction
       /\ Guard(data) \in Mutex
  /\ \A p \in Node : Join(p) \in Instruction /\ Leave(p) \in Instruction
  /\ \A type \in MessageType :
       /\ SendAll(type) \in Instruction
       /\ \A p \in Node : /\ Send(p, type) \in Instruction
                          /\ SendNext(p, type) \in Instruction
BY DEF Instruction, Release, Mutex, Guard, Lock, Drain, RLock, Unlock,
       RUnlock, Read, Write, Join, Leave, SendAll, Send, SendNext

-----------------------------------------------------------------------------
(***************************************************************************)
(* The scripts of the server                                               *)
(***************************************************************************)
\* Nothing in H is taken after m, nor is m in it.
Before(H, m) == H \in SUBSET Release /\ \A x \in H : Rank(x.on) < Rank(m)

LEMMA RunsLocked ==
  ASSUME NEW g, NEW w, NEW m \in Mutex, NEW H, NEW body, Before(H, m),
         Runs(g, w, body, H \union {Unlock(m)}, H \union {Unlock(m)})
  PROVE  Runs(g, w, Locked(m, body), H, H)
<1> DEFINE D == H \union {Unlock(m)}
<1>1. Lock(m) \in Instruction /\ Unlock(m) \in Instruction
      /\ Unlock(m) \in Release /\ H \in SUBSET Release
  BY InstructionsTyped DEF Before
<1>2. Legal(g, w, Lock(m), H) /\ After(Lock(m), H) = D
  BY DEF Legal, After, Before, Lock, Unlock, Write
<1>3. Legal(g, w, Unlock(m), D) /\ After(Unlock(m), D) = H
  <2>1. Unlock(m) \notin H
    BY DEF Before, Rank, Unlock
  <2> QED BY <2>1 DEF Legal, After, Unlock, Write
<1>4. Runs(g, w, <<Lock(m)>>, H, D)
  BY <1>1, <1>2, RunsOne
<1>5. Runs(g, w, <<Unlock(m)>>, D, H)
  BY <1>1, <1>3, RunsOne
<1>6. Runs(g, w, <<Lock(m)>> \o body, H, D)
  BY <1>4, RunsBoth
<1> QED BY <1>5, <1>6, RunsBoth DEF Locked

LEMMA RunsRLocked ==
  ASSUME NEW g, NEW w, NEW m \in Mutex, NEW H, NEW body, Before(H, m),
         Runs(g, w, body, H \union {RUnlock(m)}, H \union {RUnlock(m)})
  PROVE  Runs(g, w, RLocked(m, body), H, H)
<1> DEFINE D == H \union {RUnlock(m)}
<1>1. RLock(m) \in Instruction /\ RUnlock(m) \in Instruction
      /\ RUnlock(m) \in Release /\ H \in SUBSET Release
  BY InstructionsTyped DEF Before
<1>2. Legal(g, w, RLock(m), H) /\ After(RLock(m), H) = D
  BY DEF Legal, After, Before, RLock, RUnlock, Write
<1>3. Legal(g, w, RUnlock(m), D) /\ After(RUnlock(m), D) = H
  <2>1. RUnlock(m) \notin H
    BY DEF Before, Rank, RUnlock
  <2> QED BY <2>1 DEF Legal, After, RUnlock, Write
<1>4. Runs(g, w, <<RLock(m)>>, H, D)
  BY <1>1, <1>2, RunsOne
<1>5. Runs(g, w, <<RUnlock(m)>>, D, H)
  BY <1>1, <1>3, RunsOne
<1>6. Runs(g, w, <<RLock(m)>> \o body, H, D)
  BY <1>4, RunsBoth
<1> QED BY <1>5, <1>6, RunsBoth DEF RLocked

\* What neither takes nor gives back a lock.
LEMMA RunsPlain ==
  ASSUME NEW g, NEW w, NEW H \in SUBSET Release, NEW i \in Instruction,
         i.do \notin {"lock", "drain", "rlock", "unlock", "runlock"},
         Legal(g, w, i, H)
  PROVE  Runs(g, w, <<i>>, H, H)
<1>1. After(i, H) = H
  BY DEF After
<1> QED BY <1>1, RunsOne

LEMMA RunsUnderLock ==
  ASSUME NEW g, NEW w, NEW H, NEW data \in {"chain", "processed", "peers"},
         Before(H, Guard(data)), data = "chain" => w
  PROVE  Runs(g, w, Locked(Guard(data), <<Write(data)>>), H, H)
<1> DEFINE m == Guard(data)
           D == H \union {Unlock(m)}
<1>1. m \in Mutex /\ D \in SUBSET Release /\ Write(data) \in Instruction
  BY InstructionsTyped DEF Before
<1>2. Legal(g, w, Write(data), D) /\ Write(data).do = "write"
  BY DEF Legal, Write
<1>3. Runs(g, w, <<Write(data)>>, D, D)
  BY <1>1, <1>2, RunsPlain
<1> QED BY <1>1, <1>3, RunsLocked

LEMMA RunsLooking ==
  ASSUME NEW g, NEW w, NEW H, NEW data \in {"chain", "processed", "peers"},
         Before(H, Guard(data))
  PROVE  /\ Runs(g, w, Locked(Guard(data), <<Read(data)>>), H, H)
         /\ Runs(g, w, RLocked(Guard(data), <<Read(data)>>), H, H)
<1> DEFINE m == Guard(data)
<1>1. m \in Mutex /\ Unlock(m) \in Release /\ RUnlock(m) \in Release
      /\ Read(data) \in Instruction /\ H \in SUBSET Release
  BY InstructionsTyped DEF Before
<1>2. ASSUME NEW i \in {Unlock(m), RUnlock(m)}
      PROVE  Runs(g, w, <<Read(data)>>, H \union {i}, H \union {i})
  <2> DEFINE D == H \union {i}
  <2>1. D \in SUBSET Release
    BY <1>1
  <2>2. Legal(g, w, Read(data), D) /\ Read(data).do = "read"
    BY DEF Legal, Read, Write
  <2> QED BY <1>1, <2>1, <2>2, RunsPlain
<1> QED BY <1>1, <1>2, RunsLocked, RunsRLocked

LEMMA Ranks ==
  /\ \A m \in Mutex : Before({}, m)
  /\ \A m \in {"processedMutex", "peerMutex"} : Before({Unlock("mu")}, m)
  /\ {} \in SUBSET Release /\ {Unlock("mu")} \in SUBSET Release
  /\ Guard("chain") = "mu" /\ Guard("processed") = "processedMutex"
  /\ Guard("peers") = "peerMutex"
  /\ "mu" \in Mutex /\ "processedMutex" \in Mutex /\ "peerMutex" \in Mutex
BY DEF Before, Rank, Release, Mutex, Unlock, Guard

\* What is sent to all peers.
LEMMA RunsToPeers ==
  ASSUME NEW g, NEW w, NEW H, Before(H, "peerMutex"), NEW type \in MessageType
  PROVE  Runs(g, w, ToPeers(type), H, H)
<1> DEFINE D == H \union {RUnlock("peerMutex")}
<1>1. D \in SUBSET Release /\ SendAll(type) \in Instruction
  BY InstructionsTyped DEF Before, Mutex
<1>2. Legal(g, w, SendAll(type), D) /\ SendAll(type).do = "sendall"
  BY DEF Legal, SendAll, Write
<1>3. Runs(g, w, <<SendAll(type)>>, D, D)
  BY <1>1, <1>2, RunsPlain
<1> QED BY <1>3, Ranks, RunsRLocked DEF ToPeers

LEMMA RunsSend ==
  ASSUME NEW g, NEW w, NEW p \in Node, <<g[1], p>> \in Link,
         NEW type \in MessageType
  PROVE  Runs(g, w, <<Send(p, type)>>, {}, {})
<1>1. Send(p, type) \in Instruction /\ Send(p, type).do = "send"
  BY InstructionsTyped DEF Send
<1>2. Legal(g, w, Send(p, type), {})
  BY DEF Legal, Send, Write
<1> QED BY <1>1, <1>2, Ranks, RunsPlain

LEMMA RunsReadChain ==
  ASSUME NEW g, NEW w
  PROVE  /\ Runs(g, w, ReadChain, {}, {})
         /\ Runs(g, w, Refused, {}, {})
BY Ranks, RunsLooking DEF ReadChain, Refused

LEMMA RunsEnter ==
  ASSUME NEW g, NEW w, NEW H, Before(H, "processedMutex")
  PROVE  /\ Runs(g, w, IsHandled, H, H)
         /\ Runs(g, w, Enter, H, H)
         /\ Runs(g, w, Locked("processedMutex", <<Read("processed")>>), H, H)
BY Ranks, RunsLooking, RunsUnderLock DEF IsHandled, Enter

LEMMA RunsCallback ==
  ASSUME NEW g, NEW w, NEW s \in Callback
  PROVE  Runs(g, w, s, {Unlock("mu")}, {Unlock("mu")})
<1> DEFINE H == {Unlock("mu")}
<1>1. Before(H, "processedMutex") /\ Before(H, "peerMutex")
  BY Ranks
<1> HIDE DEF H
<1>2. /\ Runs(g, w, Enter, H, H)
      /\ Runs(g, w, Locked("processedMutex", <<Read("processed")>>), H, H)
      /\ Runs(g, w, ToPeers("block"), H, H)
  BY <1>1, RunsEnter, RunsToPeers DEF MessageType
<1>3. Runs(g, w, Broadcast, H, H)
  BY <1>2, RunsBoth DEF Broadcast, Enter
<1>4. Runs(g, w, Enter \o Broadcast, H, H)
  BY <1>2, <1>3, RunsBoth
<1>5. Runs(g, w, s, H, H)
  BY <1>2, <1>4 DEF Callback, Enter
<1> QED BY <1>5 DEF H

LEMMA RunsAppended ==
  ASSUME NEW g, NEW s \in Appended
  PROVE  Runs(g, TRUE, s, {}, {})
<1> DEFINE D == {} \union {Unlock("mu")}
<1>1. PICK callback \in Callback :
        s = Locked("mu", <<Write("chain")>> \o callback)
  BY DEF Appended
<1>2. D = {Unlock("mu")} /\ D \in SUBSET Release
  BY Ranks
<1> HIDE DEF D
<1>3. Runs(g, TRUE, callback, D, D)
  BY <1>2, RunsCallback
<1>4. Runs(g, TRUE, <<Write("chain")>>, D, D)
  <2>1. Write("chain") \in Instruction /\ Write("chain").do = "write"
    BY InstructionsTyped DEF Write
  <2>2. Legal(g, TRUE, Write("chain"), D)
    BY <1>2, Ranks DEF Legal, Write
  <2> QED BY <1>2, <2>1, <2>2, RunsPlain
<1>5. Runs(g, TRUE, <<Write("chain")>> \o callback, D, D)
  BY <1>3, <1>4, RunsBoth
<1> QED BY <1>1, <1>5, Ranks, RunsLocked DEF D

\* Whether n may append one more block.
MayAppend(n) == grown[n] < MaxBlocks

LEMMA RunsProcess ==
  ASSUME NEW g, NEW n, NEW s \in Process(n)
  PROVE  Runs(g, MayAppend(n), s, {}, {})
<1>1. CASE s = Refused
  BY <1>1, RunsReadChain
<1>2. CASE s # Refused
  <2>1. s \in Appended /\ grown[n] < MaxBlocks
    BY <1>2 DEF Process
  <2>2. MayAppend(n) = TRUE
    BY <2>1 DEF MayAppend
  <2> QED BY <2>1, <2>2, RunsAppended
<1> QED BY <1>1, <1>2

-----------------------------------------------------------------------------
(***************************************************************************)
(* The scripts of handlers and tasks                                       *)
(***************************************************************************)
\* The equation that FlattenSeq solves.
Flattens(f, c, n) ==
  f = [i \in 1 .. n |-> IF i = 1 THEN c[i] ELSE f[i - 1] \o c[i]]

LEMMA FlattenExists ==
  ASSUME NEW c, NEW n \in Nat
  PROVE  \E f : Flattens(f, c, n)
<1> DEFINE Bad == {k \in Nat : ~ \E f : Flattens(f, c, k)}
<1>1. ASSUME Bad # {} PROVE FALSE
  <2>1. PICK k \in Bad : \A j \in Bad : k <= j
    BY <1>1, LeastNumber
  <2>2. k \in Nat
    OBVIOUS
  <2>3. CASE k = 0
    <3>1. Flattens([i \in 1 .. 0 |-> <<>>], c, 0)
      BY DEF Flattens
    <3> QED BY <2>1, <2>3, <3>1
  <2>4. CASE k # 0
    <3>1. k - 1 \in Nat /\ k - 1 \notin Bad
      BY <2>1, <2>2, <2>4
    <3>2. PICK f : Flattens(f, c, k - 1)
      BY <3>1
    <3> DEFINE last == IF k = 1 THEN c[k] ELSE f[k - 1] \o c[k]
               d == [i \in 1 .. k |-> IF i = k THEN last ELSE f[i]]
    <3>3. \A i \in 1 .. k - 1 :
            f[i] = IF i = 1 THEN c[i] ELSE f[i - 1] \o c[i]
      BY <3>2 DEF Flattens
    <3> HIDE DEF last
    <3>4. \A i \in 1 .. k - 1 : d[i] = f[i]
      BY <2>2
    <3>5. d[k] = last
      BY <2>2, <2>4
    <3>6. \A i \in 1 .. k :
            d[i] = IF i = 1 THEN c[i] ELSE d[i - 1] \o c[i]
      <4> TAKE i \in 1 .. k
      <4> HIDE DEF d
      <4>1. CASE i = k
        BY <2>2, <2>4, <3>4, <3>5, <4>1 DEF last
      <4>2. CASE i # k
        BY <2>2, <3>3, <3>4, <4>2
      <4> QED BY <4>1, <4>2
    <3>7. Flattens(d, c, k)
      BY <3>6 DEF Flattens
    <3> QED BY <2>1, <3>7
  <2> QED BY <2>3, <2>4
<1> QED BY <1>1

LEMMA RunsFlattened ==
  ASSUME NEW g, NEW w, NEW n \in Nat, NEW c, c = [i \in 1 .. n |-> c[i]],
         \A i \in 1 .. n : Runs(g, w, c[i], {}, {})
  PROVE  Runs(g, w, FlattenSeq(c), {}, {})
<1> DEFINE f == CHOOSE f : Flattens(f, c, n)
           Bad == {k \in 1 .. n : ~ Runs(g, w, f[k], {}, {})}
<1>1. Flattens(f, c, n)
  BY FlattenExists
<1>2. Len(c) = n
  OBVIOUS
<1>3. CASE n = 0
  <2>1. FlattenSeq(c) = <<>>
    BY <1>2, <1>3 DEF FlattenSeq
  <2> QED BY <2>1, Ranks, RunsNothing
<1>4. CASE n # 0
  <2>1. FlattenSeq(c) = f[n]
    BY <1>2, <1>4, Zenon DEF FlattenSeq, Flattens
  <2> HIDE DEF f
  <2>2. ASSUME Bad # {} PROVE FALSE
    <3>1. Bad \subseteq Nat
      OBVIOUS
    <3>2. PICK k \in Bad : \A j \in Bad : k <= j
      BY <2>2, <3>1, LeastNumber
    <3>3. f[k] = IF k = 1 THEN c[k] ELSE f[k - 1] \o c[k]
      BY <1>1, <3>2 DEF Flattens
    <3>4. CASE k = 1
      BY <3>2, <3>3, <3>4
    <3>5. CASE k # 1
      <4>1. k - 1 \in 1 .. n /\ k - 1 \notin Bad
        BY <3>2, <3>5
      <4>2. Runs(g, w, f[k - 1], {}, {}) /\ Runs(g, w, c[k], {}, {})
        BY <3>2, <4>1
      <4> QED BY <3>2, <3>3, <3>5, <4>2, RunsBoth
    <3> QED BY <3>4, <3>5
  <2> QED BY <1>4, <2>1, <2>2
<1> QED BY <1>3, <1>4

LEMMA RunsServe ==
  ASSUME NEW g, NEW w, NEW p \in Node, <<g[1], p>> \in Link,
         NEW k \in Nat, NEW found \in [1 .. k -> BOOLEAN]
  PROVE  Runs(g, w, ServeBlocks(p, found), {}, {})
<1> DEFINE part(i) ==
             ReadChain \o (IF found[i] THEN <<Send(p, "block")>> ELSE <<>>)
           c == [i \in 1 .. k |-> part(i)]
<1>1. ASSUME NEW i \in 1 .. k PROVE Runs(g, w, part(i), {}, {})
  <2>1. /\ Runs(g, w, <<Send(p, "block")>>, {}, {})
        /\ Runs(g, w, <<>>, {}, {})
    BY Ranks, RunsSend, RunsNothing DEF MessageType
  <2>2. Runs(g, w, IF found[i] THEN <<Send(p, "block")>> ELSE <<>>, {}, {})
    BY <2>1
  <2> QED BY <2>2, RunsReadChain, RunsBoth
<1> HIDE DEF part
<1>2. \A i \in 1 .. k : Runs(g, w, c[i], {}, {})
  BY <1>1
<1>3. c = [i \in 1 .. k |-> c[i]]
  OBVIOUS
<1> HIDE DEF c
<1>4. Runs(g, w, FlattenSeq(c), {}, {})
  BY <1>2, <1>3, RunsFlattened
<1>5. Len(found) = k
  OBVIOUS
<1> QED BY <1>4, <1>5 DEF ServeBlocks, c, part

\* The one script that looks at shared data without a lock and is not a task.
LookUp(p) == <<Read("peers"), Send(p, "peers")>>

LEMMA RunsHandle ==
  ASSUME NEW g \in Link, NEW type \in MessageType,
         NEW s \in Handle(g[1], g[2], type), s # LookUp(g[2])
  PROVE  Runs(g, MayAppend(g[1]), s, {}, {})
<1> DEFINE n == g[1]
           p == g[2]
           w == MayAppend(n)
           R(t) == Runs(g, w, t, {}, {})
<1>0. ASSUME NEW t, NEW u, R(t), R(u)
      PROVE  R(t \o u)
  BY <1>0, RunsBoth
<1>1. p \in Node /\ <<n, p>> \in Link
  BY LocksAssumption
<1>2. \A t \in MessageType : R(<<Send(p, t)>>)
  BY <1>1, RunsSend
<1>3. R(ReadChain) /\ R(IsHandled) /\ R(Enter) /\ R(<<>>)
  BY Ranks, RunsReadChain, RunsEnter, RunsNothing
<1>4. \A t \in Process(n) : R(t)
  BY RunsProcess
<1>5. \A found \in SeqOf(BOOLEAN, MaxServed) : R(ServeBlocks(p, found))
  BY <1>1, RunsServe, LocksAssumption DEF SeqOf
<1>6. R(<<Send(p, "getblocks"), Send(p, "getpeers")>>)
  <2>1. <<Send(p, "getblocks"), Send(p, "getpeers")>>
          = <<Send(p, "getblocks")>> \o <<Send(p, "getpeers")>>
    OBVIOUS
  <2>2. R(<<Send(p, "getblocks")>>) /\ R(<<Send(p, "getpeers")>>)
    BY <1>2 DEF MessageType
  <2> HIDE DEF R
  <2> QED BY <1>0, <2>1, <2>2
<1> HIDE DEF R, w
<1>7. R(s)
  <2>1. CASE type = "version"
    BY <1>2, <2>1 DEF Handle, MessageType
  <2>2. CASE type = "verack"
    <3>1. R(ReadChain \o <<Send(p, "getpeers")>>)
      BY <1>0, <1>2, <1>3 DEF MessageType
    <3>2. R(ReadChain \o ReadChain
              \o <<Send(p, "getblocks"), Send(p, "getpeers")>>)
      BY <1>0, <1>3, <1>6
    <3> QED BY <2>2, <3>1, <3>2 DEF Handle
  <2>3. CASE type = "block"
    <3>1. s \in {IsHandled}
            \union {IsHandled \o handling \o Enter :
                       handling \in ReceiveBlock(n)}
      BY <2>3 DEF Handle
    <3>2. \A handling \in ReceiveBlock(n) : R(handling)
      BY <1>0, <1>3, <1>4 DEF ReceiveBlock
    <3> QED BY <1>0, <1>3, <3>1, <3>2
  <2>4. CASE type = "getblocks"
    <3>1. R(ReadChain \o <<Send(p, "inv")>>)
      BY <1>0, <1>2, <1>3 DEF MessageType
    <3> QED BY <1>3, <2>4, <3>1 DEF Handle
  <2>5. CASE type = "inv"
    <3>1. R(IsHandled \o <<Send(p, "getdata")>>)
      BY <1>0, <1>2, <1>3 DEF MessageType
    <3> QED BY <1>3, <2>5, <3>1 DEF Handle
  <2>6. CASE type = "getdata"
    BY <1>5, <2>6 DEF Handle
  <2>7. CASE type = "getpeers"
    BY <2>7 DEF Handle, LookUp
  <2>8. CASE type = "peers"
    BY <1>3, <2>8 DEF Handle
  <2>9. CASE type = "findblock"
    <3>1. R(ReadChain \o <<Send(p, "blockfound")>>)
      BY <1>0, <1>2, <1>3 DEF MessageType
    <3> QED BY <2>9, <3>1 DEF Handle
  <2>10. CASE type = "blockfound"
    BY <1>3, <1>4, <2>10 DEF Handle
  <2> QED
    BY <2>1, <2>2, <2>3, <2>4, <2>5, <2>6, <2>7, <2>8, <2>9, <2>10
    DEF MessageType
<1> QED BY <1>7 DEF R, w

LEMMA RunsTable ==
  ASSUME NEW g, NEW w, NEW p \in Node, <<g[1], p>> \in Link
  PROVE  /\ Runs(g, w, Deregister(p), {}, {})
         /\ Runs(g, w, HandleStream(p), {}, {})
<1> DEFINE D == {} \union {Unlock("peerMutex")}
<1>1. D \in SUBSET Release /\ Unlock("peerMutex") \in D
  BY InstructionsTyped DEF Mutex
<1> HIDE DEF D
<1>2. ASSUME NEW i \in {Join(p), Leave(p)}
      PROVE  Runs(g, w, Locked("peerMutex", <<i>>), {}, {})
  <2>1. i \in Instruction /\ i.do \in {"join", "leave"} /\ i.peer = p
    <3>1. CASE i = Join(p)
      BY <3>1, InstructionsTyped DEF Join
    <3>2. CASE i = Leave(p)
      BY <3>2, InstructionsTyped DEF Leave
    <3> QED BY <3>1, <3>2
  <2>2. i # Write("chain")
    BY <2>1 DEF Write
  <2>3. Legal(g, w, i, D)
    BY <1>1, <2>1, <2>2 DEF Legal
  <2>4. Runs(g, w, <<i>>, D, D)
    BY <1>1, <2>1, <2>3, RunsPlain
  <2> QED BY <2>4, Ranks, RunsLocked DEF D
<1>3. /\ Runs(g, w, ReadChain, {}, {})
      /\ Runs(g, w, <<Send(p, "version")>>, {}, {})
  BY RunsReadChain, RunsSend DEF MessageType
<1> QED BY <1>2, <1>3, RunsBoth DEF Deregister, HandleStream

LEMMA RunsWork ==
  ASSUME NEW g \in Task, NEW s \in Work(g[1], g[2])
  PROVE  Runs(g, MayAppend(g[1]), s, {}, {})
<1> DEFINE w == MayAppend(g[1])
           R(t) == Runs(g, w, t, {}, {})
<1>0. ASSUME NEW t, NEW u, R(t), R(u)
      PROVE  R(t \o u)
  BY <1>0, RunsBoth
<1>1. R(ReadChain) /\ R(Enter) /\ R(GetPeers)
  BY Ranks, RunsReadChain, RunsEnter, RunsLooking DEF GetPeers
<1>2. \A type \in MessageType : R(ToPeers(type))
  BY Ranks, RunsToPeers
<1>3. ASSUME g[2] = "discovery" PROVE R(<<Read("peers")>>)
  <2>1. Read("peers") \in Instruction /\ Read("peers").do = "read"
    BY InstructionsTyped DEF Read
  <2>2. Legal(g, w, Read("peers"), {})
    BY <1>3 DEF Legal, Read, Write
  <2> QED BY <2>1, <2>2, Ranks, RunsPlain
<1>4. \A t \in Process(g[1]) : R(t)
  BY RunsProcess
<1>5. g[2] \in Kind
  BY LocksAssumption
<1> HIDE DEF R, w
<1>6. R(s)
  <2>1. CASE g[2] = "add"
    BY <1>4, <2>1 DEF Work
  <2>2. CASE g[2] \in {"getblocks", "getpeers", "findblock"}
    BY <1>2, <2>2 DEF Work, MessageType
  <2>3. CASE g[2] = "discovery"
    <3>1. <<Read("peers"), Read("peers")>>
            = <<Read("peers")>> \o <<Read("peers")>>
      OBVIOUS
    <3>2. R(<<Read("peers"), Read("peers")>>)
      BY <1>0, <1>3, <2>3, <3>1
    <3>3. R(<<Read("peers"), Read("peers")>> \o ToPeers("getpeers"))
      BY <1>0, <1>2, <3>2 DEF MessageType
    <3> QED BY <1>3, <2>3, <3>3 DEF Work, Discover
  <2>4. CASE g[2] = "sync"
    <3>1. R(GetPeers \o ReadChain \o ReadChain \o ToPeers("getblocks"))
      BY <1>0, <1>1, <1>2 DEF MessageType
    <3> QED BY <1>0, <1>1, <2>4, <3>1 DEF Work, SyncTask
  <2>5. CASE g[2] = "stats"
    BY <1>0, <1>1, <2>5 DEF Work
  <2>6. CASE g[2] = "cleanup"
    BY <1>1, <2>6 DEF Work
  <2>7. CASE g[2] \in {"save", "validation"}
    BY <1>1, <2>7 DEF Work
  <2> QED BY <1>5, <2>1, <2>2, <2>3, <2>4, <2>5, <2>6, <2>7 DEF Kind
<1> QED BY <1>6 DEF R, w

-----------------------------------------------------------------------------
(***************************************************************************)
(* The invariant: what is left of a script gives back what is held         *)
(***************************************************************************)
Lockable == Node \X Mutex

DrainsOf(s, m) == s # <<>> /\ Head(s) = Drain(m)

\* What g owes: the locks it has, but for one it has only announced itself at.
HeldIn(g, w, r, s) ==
  {u \in Release :
     IF u.do = "unlock" THEN g \in w[<<g[1], u.on>>] /\ ~DrainsOf(s, u.on)
     ELSE g \in r[<<g[1], u.on>>]}

\* s as it was before g announced itself.
Plan(s) ==
  IF s # <<>> /\ Head(s).do = "drain" THEN <<Lock(Head(s).on)>> \o Tail(s)
  ELSE s

Sound(g, w, r, s) ==
  \/ Runs(g, TRUE, Plan(s), HeldIn(g, w, r, s), {})
  \/ g \in Link /\ s = LookUp(g[2]) /\ HeldIn(g, w, r, s) = {}

LockTypes ==
  /\ script \in [Goroutine -> Seq(Instruction)]
  /\ writers \in [Lockable -> SUBSET Goroutine]
  /\ readers \in [Lockable -> SUBSET Goroutine]

\* A lock has one writer, and it and the readers are goroutines of the node.
\* While there is a writer there are no readers, unless it still waits for them.
LocksKept ==
  /\ \A lock \in Lockable : \A g, h \in writers[lock] : g = h /\ g[1] = lock[1]
  /\ \A lock \in Lockable : \A g \in readers[lock] : g[1] = lock[1]
  /\ \A lock \in Lockable : \A g \in writers[lock] :
       readers[lock] = {} \/ DrainsOf(script[g], lock[2])
  /\ \A g \in Goroutine : \A m \in Mutex :
       DrainsOf(script[g], m) => g \in writers[<<g[1], m>>]

ScriptsInv ==
  /\ LockTypes
  /\ LocksKept
  /\ \A g \in Goroutine : Sound(g, writers, readers, script[g])

DataInv ==
  /\ stream \in [Link -> Seq(MessageType)]
  /\ \A l \in Link : Len(stream[l]) <= Capacity
  /\ table \in [Node -> SUBSET Node]
  /\ \A n \in Node : table[n] \subseteq Neighbours(n)
  /\ reader \in [Link -> BOOLEAN]
  /\ grown \in [Node -> 0 .. MaxBlocks]
  /\ starts \in 0 .. MaxStarts
  /\ made \subseteq Acceptor

LocksInv == ScriptsInv /\ DataInv

LEMMA GoroutineEnds ==
  /\ \A g \in Goroutine :
       g[1] \in Node /\ \A m \in Mutex : <<g[1], m>> \in Lockable
  /\ \A g \in Link : g \in Goroutine /\ g = <<g[1], g[2]>> /\ g[2] \in Node
                     /\ <<g[2], g[1]>> \in Link
  /\ \A g \in Acceptor : g \in Goroutine /\ g[2] \in Node
                         /\ <<g[1], g[2]>> \in Link
  /\ \A g \in Task : g \in Goroutine
<1>1. \A l \in Link : l = <<l[1], l[2]>> /\ l[1] \in Node /\ l[2] \in Node
                      /\ <<l[2], l[1]>> \in Link
  <2>1. \A l \in Link : l \in Node \X Node /\ <<l[2], l[1]>> \in Link
    BY LocksAssumption
  <2>2. \A l \in Node \X Node :
          l = <<l[1], l[2]>> /\ l[1] \in Node /\ l[2] \in Node
    OBVIOUS
  <2> QED BY <2>1, <2>2
<1>2. ASSUME NEW g \in Acceptor
      PROVE  g[1] \in Node /\ g[2] \in Node /\ <<g[1], g[2]>> \in Link
  <2>1. PICK l \in Link : g = <<l[1], l[2], "handleStream">>
    BY DEF Acceptor
  <2> QED BY <1>1, <2>1
<1>3. \A g \in Task : g[1] \in Node
  BY LocksAssumption
<1> QED BY <1>1, <1>2, <1>3 DEF Goroutine, Lockable

LEMMA LockableEnds ==
  ASSUME NEW lock \in Lockable
  PROVE  lock = <<lock[1], lock[2]>> /\ lock[1] \in Node /\ lock[2] \in Mutex
BY DEF Lockable

LEMMA RunsTail ==
  ASSUME NEW g, NEW w, NEW s, NEW H, NEW E, Runs(g, w, s, H, E), s # <<>>
  PROVE  /\ Legal(g, w, Head(s), H)
         /\ Runs(g, w, Tail(s), After(Head(s), H), E)
<1>1. s \in Seq(Instruction)
  BY DEF Runs
<1> DEFINE u == Tail(s)
           n == Len(s) - 1
<1>2. /\ n \in Nat /\ Len(s) = n + 1
      /\ u \in Seq(Instruction) /\ Len(u) = n
      /\ \A k \in 1 .. n : u[k] = s[k + 1]
      /\ Head(s) = s[1]
  BY <1>1, HeadTailProperties, LenProperties, EmptySeq
<1> HIDE DEF u, n
<1>3. PICK a \in [1 .. n + 2 -> SUBSET Release] :
        a[1] = H /\ a[n + 2] = E /\ Follows(g, w, s, a)
  BY <1>2 DEF Runs
<1>4. \A k \in 1 .. n + 1 : Legal(g, w, s[k], a[k]) /\ a[k + 1] = After(s[k], a[k])
  BY <1>2, <1>3 DEF Follows
<1> DEFINE h == [k \in 1 .. n + 1 |-> a[k + 1]]
<1>5. /\ h \in [1 .. n + 1 -> SUBSET Release]
      /\ \A k \in 1 .. n + 1 : h[k] = a[k + 1]
  BY <1>2, <1>3
<1> HIDE DEF h
<1>6. h[1] = After(Head(s), H) /\ h[n + 1] = E /\ Legal(g, w, Head(s), H)
  BY <1>2, <1>3, <1>4, <1>5
<1>7. Follows(g, w, u, h)
  BY <1>2, <1>4, <1>5 DEF Follows
<1>8. Runs(g, w, u, After(Head(s), H), E)
  BY <1>2, <1>5, <1>6, <1>7 DEF Runs
<1> QED BY <1>6, <1>8 DEF u

\* A script that has begun legally does not begin with a wait for readers.
LEMMA RunsPlan ==
  ASSUME NEW g, NEW w, NEW s, NEW H, NEW E, Runs(g, w, s, H, E)
  PROVE  /\ Plan(s) = s
         /\ \A m : ~DrainsOf(s, m)
         /\ \A v, r : HeldIn(g, v, r, s) = HeldIn(g, v, r, <<>>)
<1>1. s # <<>> => Head(s).do # "drain"
  BY RunsTail DEF Legal
<1>2. \A m : ~DrainsOf(s, m) /\ ~DrainsOf(<<>>, m)
  BY <1>1 DEF DrainsOf, Drain
<1> QED BY <1>1, <1>2 DEF Plan, HeldIn

\* Locks that are given back without waiting.
LEMMA RunsRest ==
  ASSUME NEW g, NEW w, NEW s, NEW H, NEW E, Runs(g, w, s, H, E),
         NEW j \in 1 .. Len(s) + 1,
         \A k \in 1 .. j - 1 : s[k].do \in {"unlock", "runlock"}
  PROVE  Runs(g, w, SubSeq(s, j, Len(s)), H \ {s[k] : k \in 1 .. j - 1}, E)
<1>1. s \in Seq(Instruction)
  BY DEF Runs
<1> DEFINE u == SubSeq(s, j, Len(s))
           n == Len(s)
           D == H \ {s[k] : k \in 1 .. j - 1}
<1>2. n \in Nat /\ j \in 1 .. n + 1
  BY <1>1, LenProperties
<1>3. /\ u \in Seq(Instruction) /\ Len(u) = n - j + 1
      /\ \A k \in 1 .. n - j + 1 : u[k] = s[j + k - 1]
  <2>1. \A i \in j .. n : s[i] \in Instruction
    BY <1>1, <1>2, ElementOfSeq
  <2> QED BY <1>2, <2>1, SubSeqProperties
<1> HIDE DEF u
<1>4. PICK a \in [1 .. n + 1 -> SUBSET Release] :
        a[1] = H /\ a[n + 1] = E /\ Follows(g, w, s, a)
  BY DEF Runs
<1>5. \A k \in 1 .. n : Legal(g, w, s[k], a[k]) /\ a[k + 1] = After(s[k], a[k])
  BY <1>4 DEF Follows
<1> HIDE DEF n
<1> DEFINE Bad == {k \in 1 .. j : a[k] # H \ {s[i] : i \in 1 .. k - 1}}
<1>6. ASSUME Bad # {} PROVE FALSE
  <2>1. Bad \subseteq Nat
    OBVIOUS
  <2>2. PICK k \in Bad : \A i \in Bad : k <= i
    BY <1>6, <2>1, LeastNumber
  <2>3. k # 1
    BY <1>4
  <2>4. k - 1 \in 1 .. j - 1 /\ k - 1 \in 1 .. n /\ k - 1 \notin Bad
    BY <1>2, <2>2, <2>3
  <2>5. a[k - 1] = H \ {s[i] : i \in 1 .. k - 2}
    BY <2>4
  <2>6. a[k] = a[k - 1] \ {s[k - 1]}
    <3>1. s[k - 1].do \in {"unlock", "runlock"}
      BY <2>4
    <3>2. After(s[k - 1], a[k - 1]) = a[k - 1] \ {s[k - 1]}
      BY <3>1 DEF After
    <3>3. a[(k - 1) + 1] = After(s[k - 1], a[k - 1])
      BY <1>5, <2>4
    <3> QED BY <2>4, <3>2, <3>3
  <2>7. \A i \in 1 .. k - 1 : i \in 1 .. k - 2 \/ i = k - 1
    BY <2>4
  <2>8. k - 1 \in 1 .. k - 1 /\ \A i \in 1 .. k - 2 : i \in 1 .. k - 1
    BY <2>4
  <2>9. H \ {s[i] : i \in 1 .. k - 1} = (H \ {s[i] : i \in 1 .. k - 2}) \ {s[k - 1]}
    BY <2>7, <2>8, Zenon
  <2> QED BY <2>2, <2>5, <2>6, <2>9
<1>7. a[j] = D
  BY <1>2, <1>6
<1> HIDE DEF Bad, D
<1> DEFINE h == [k \in 1 .. n - j + 2 |-> a[j + k - 1]]
<1>8. h \in [1 .. n - j + 2 -> SUBSET Release]
      /\ \A k \in 1 .. n - j + 2 : h[k] = a[j + k - 1]
  BY <1>2, <1>4
<1> HIDE DEF h
<1>9. h[1] = D /\ h[n - j + 2] = E
  <2>1. h[1] = a[j] /\ h[n - j + 2] = a[n + 1]
    BY <1>2, <1>8
  <2> QED BY <1>4, <1>7, <2>1
<1>10. Follows(g, w, u, h)
  <2> SUFFICES ASSUME NEW k \in 1 .. n - j + 1
               PROVE  Legal(g, w, u[k], h[k]) /\ h[k + 1] = After(u[k], h[k])
    BY <1>3 DEF Follows, n
  <2> DEFINE i == j + k - 1
  <2>1. i \in 1 .. n /\ u[k] = s[i] /\ h[k] = a[i] /\ h[k + 1] = a[i + 1]
    BY <1>2, <1>3, <1>8
  <2> HIDE DEF i
  <2> QED BY <1>5, <2>1
<1>11. Len(u) + 1 = n - j + 2
  BY <1>2, <1>3 DEF n
<1>12. Runs(g, w, u, D, E)
  BY <1>3, <1>8, <1>9, <1>10, <1>11 DEF Runs
<1> QED BY <1>12 DEF u, D, n

LEMMA MinIsLeast ==
  ASSUME NEW S, S \subseteq Nat, S # {}
  PROVE  Min(S) \in S /\ \A x \in S : Min(S) <= x
<1>1. \E x \in S : \A y \in S : x <= y
  BY LeastNumber
<1> QED BY <1>1 DEF Min

LEMMA ReleaseIs ==
  \A u \in Release : /\ u.on \in Mutex
                     /\ u = IF u.do = "unlock" THEN Unlock(u.on) ELSE RUnlock(u.on)
                     /\ u.do # "unlock" => u.do = "runlock"
BY DEF Release, Unlock, RUnlock

-----------------------------------------------------------------------------
(***************************************************************************)
(* How steps change what is held                                           *)
(***************************************************************************)
\* What Advance does to g and to everybody else.
Advanced(g, w, r) ==
  /\ LockTypes'
  /\ script' = [script EXCEPT ![g] = script'[g]]
  /\ \A lock \in Lockable :
       /\ writers'[lock] \subseteq w[lock] /\ w[lock] \ {g} \subseteq writers'[lock]
       /\ readers'[lock] \subseteq r[lock] /\ r[lock] \ {g} \subseteq readers'[lock]
  /\ \A m : ~DrainsOf(script'[g], m)
  /\ Sound(g, writers', readers', script'[g])

LEMMA AdvanceKeeps ==
  ASSUME LockTypes, NEW g \in Goroutine, ~Idle(g),
         NEW w \in [Lockable -> SUBSET Goroutine],
         NEW r \in [Lockable -> SUBSET Goroutine],
         Runs(g, TRUE, Tail(script[g]), HeldIn(g, w, r, <<>>), {}),
         Advance(g, w, r)
  PROVE  Advanced(g, w, r)
<1> DEFINE s == script[g]
           u == Tail(s)
           n == Len(s)
           C == {k \in 2 .. n + 1 : k <= n => s[k].do \notin {"unlock", "runlock"}}
           next == Min(C)
           t == SubSeq(s, next, n)
           D == HeldIn(g, w, r, <<>>)
           GivesBack(i) == \E k \in 2 .. next - 1 : s[k] = i
<1>1. /\ script' = [script EXCEPT ![g] = t]
      /\ writers' = [lock \in Lockable |->
                       IF lock[1] = g[1] /\ GivesBack(Unlock(lock[2]))
                       THEN w[lock] \ {g} ELSE w[lock]]
      /\ readers' = [lock \in Lockable |->
                       IF lock[1] = g[1] /\ GivesBack(RUnlock(lock[2]))
                       THEN r[lock] \ {g} ELSE r[lock]]
  BY DEF Advance, Lockable
<1>2. /\ s \in Seq(Instruction) /\ n \in Nat /\ n >= 1
      /\ u \in Seq(Instruction) /\ Len(u) = n - 1
      /\ \A k \in 1 .. n - 1 : u[k] = s[k + 1]
  <2>1. s \in Seq(Instruction) /\ s # <<>>
    BY DEF LockTypes, Idle
  <2> HIDE DEF s
  <2> QED BY <2>1, HeadTailProperties, LenProperties, EmptySeq
<1> HIDE DEF s, u
<1> HIDE DEF n
<1>3. next \in 2 .. n + 1 /\ \A k \in 2 .. next - 1 :
                                k \in 2 .. n /\ s[k].do \in {"unlock", "runlock"}
  <2>1. C \subseteq Nat /\ n + 1 \in C
    BY <1>2
  <2>2. next \in C /\ \A k \in C : next <= k
    <3> HIDE DEF C
    <3> QED BY <2>1, MinIsLeast
  <2>3. next \in 2 .. n + 1
    BY <2>2
  <2>4. ASSUME NEW k \in 2 .. next - 1
        PROVE  k \in 2 .. n /\ s[k].do \in {"unlock", "runlock"}
    <3> HIDE DEF next
    <3>1. k \in 2 .. n /\ ~(next <= k)
      BY <1>2, <2>3
    <3> QED BY <1>2, <2>2, <3>1
  <2> QED BY <2>3, <2>4
<1> HIDE DEF C, next
<1> DEFINE j == next - 1
<1>4. j \in 1 .. Len(u) + 1
      /\ \A k \in 1 .. j - 1 : u[k] = s[k + 1] /\ u[k].do \in {"unlock", "runlock"}
  BY <1>2, <1>3
<1>5. SubSeq(u, j, Len(u)) = t
  <2> DEFINE v == SubSeq(u, j, Len(u))
  <2>1. /\ v \in Seq(Instruction) /\ Len(v) = n - next + 1
        /\ \A i \in 1 .. n - next + 1 : v[i] = u[j + i - 1]
    <3>1. \A i \in j .. Len(u) : u[i] \in Instruction
      BY <1>2, <1>4, ElementOfSeq
    <3> QED BY <1>2, <1>3, <1>4, <3>1, SubSeqProperties
  <2>2. /\ t \in Seq(Instruction) /\ Len(t) = n - next + 1
        /\ \A i \in 1 .. n - next + 1 : t[i] = s[next + i - 1]
    <3>1. \A i \in next .. n : s[i] \in Instruction
      BY <1>2, <1>3, ElementOfSeq DEF n
    <3> QED BY <1>2, <1>3, <3>1, SubSeqProperties
  <2>3. \A i \in 1 .. n - next + 1 : u[j + i - 1] = s[next + i - 1]
    BY <1>2, <1>3
  <2> HIDE DEF t, v, j
  <2>4. Len(v) = Len(t) /\ \A i \in 1 .. Len(v) : v[i] = t[i]
    BY <2>1, <2>2, <2>3
  <2>5. v = t
    BY <2>1, <2>2, <2>4, SeqEqual
  <2> QED BY <2>5 DEF v
<1> DEFINE E == D \ {u[k] : k \in 1 .. j - 1}
<1> HIDE DEF t, D
<1>6. Runs(g, TRUE, t, E, {})
  <2> HIDE DEF j
  <2>1. Runs(g, TRUE, u, D, {})
    BY DEF u, s, D
  <2> QED BY <1>4, <1>5, <2>1, RunsRest
<1>7. t \in Seq(Instruction)
  BY <1>6 DEF Runs
<1>8. \A i : GivesBack(i) <=> i \in {u[k] : k \in 1 .. j - 1}
  <2>1. ASSUME NEW i, GivesBack(i) PROVE i \in {u[k] : k \in 1 .. j - 1}
    <3>1. PICK k \in 2 .. next - 1 : s[k] = i
      BY <2>1
    <3>2. k - 1 \in 1 .. j - 1 /\ u[k - 1] = s[k]
      BY <1>2, <1>3
    <3> QED BY <3>1, <3>2
  <2>2. ASSUME NEW i, i \in {u[k] : k \in 1 .. j - 1} PROVE GivesBack(i)
    <3>1. PICK k \in 1 .. j - 1 : u[k] = i
      BY <2>2
    <3>2. k + 1 \in 2 .. next - 1 /\ u[k] = s[k + 1]
      BY <1>3, <1>4
    <3> QED BY <3>1, <3>2
  <2> QED BY <2>1, <2>2
<1> HIDE DEF GivesBack, j
<1>9. script'[g] = t
  BY <1>1 DEF LockTypes
<1>10. LockTypes'
  <2>1. script' \in [Goroutine -> Seq(Instruction)]
    BY <1>1, <1>7 DEF LockTypes
  <2>2. writers' \in [Lockable -> SUBSET Goroutine]
    BY <1>1
  <2>3. readers' \in [Lockable -> SUBSET Goroutine]
    BY <1>1
  <2> QED BY <2>1, <2>2, <2>3 DEF LockTypes
<1>11. \A lock \in Lockable :
         /\ writers'[lock] \subseteq w[lock] /\ w[lock] \ {g} \subseteq writers'[lock]
         /\ readers'[lock] \subseteq r[lock] /\ r[lock] \ {g} \subseteq readers'[lock]
  BY <1>1
<1>12. /\ Plan(t) = t /\ \A m : ~DrainsOf(t, m)
       /\ HeldIn(g, writers', readers', t) = HeldIn(g, writers', readers', <<>>)
  BY <1>6, RunsPlan
<1>13. HeldIn(g, writers', readers', <<>>) = E
  <2> SUFFICES ASSUME NEW x \in Release
               PROVE  x \in HeldIn(g, writers', readers', <<>>)
                        <=> x \in D /\ ~GivesBack(x)
    BY <1>8 DEF HeldIn, D
  <2> DEFINE lock == <<g[1], x.on>>
  <2>1. lock \in Lockable /\ lock[1] = g[1] /\ lock[2] = x.on
    BY ReleaseIs, GoroutineEnds
  <2> HIDE DEF lock
  <2>2. \A m : ~DrainsOf(<<>>, m)
    BY DEF DrainsOf
  <2>3. CASE x.do = "unlock"
    <3>1. x = Unlock(x.on)
      BY <2>3, ReleaseIs
    <3>2. g \in writers'[lock] <=> g \in w[lock] /\ ~GivesBack(x)
      BY <1>1, <2>1, <3>1
    <3>3. /\ x \in HeldIn(g, writers', readers', <<>>) <=> g \in writers'[lock]
          /\ x \in D <=> g \in w[lock]
      BY <2>2, <2>3 DEF HeldIn, D, lock
    <3> QED BY <3>2, <3>3
  <2>4. CASE x.do # "unlock"
    <3>1. x = RUnlock(x.on)
      BY <2>4, ReleaseIs
    <3>2. g \in readers'[lock] <=> g \in r[lock] /\ ~GivesBack(x)
      BY <1>1, <2>1, <3>1
    <3>3. /\ x \in HeldIn(g, writers', readers', <<>>) <=> g \in readers'[lock]
          /\ x \in D <=> g \in r[lock]
      BY <2>4 DEF HeldIn, D, lock
    <3> QED BY <3>2, <3>3
  <2> QED BY <2>3, <2>4
<1>14. Sound(g, writers', readers', t)
  BY <1>6, <1>12, <1>13 DEF Sound
<1> QED BY <1>1, <1>9, <1>10, <1>11, <1>12, <1>14 DEF Advanced

LEMMA InstructionIs ==
  ASSUME NEW i \in Instruction
  PROVE  /\ i.do = "lock" => i.on \in Mutex /\ i = Lock(i.on)
         /\ i.do = "drain" => i.on \in Mutex /\ i = Drain(i.on)
         /\ i.do = "rlock" => i.on \in Mutex /\ i = RLock(i.on)
         /\ i.do \in {"unlock", "runlock"} => i.on \in Mutex
         /\ i.do \in {"read", "write"} => i.on \in {"chain", "processed", "peers"}
         /\ i.do \in {"join", "leave"} => i.peer \in Node
         /\ i.do \in {"send", "sendnext"} => i.to \in Node /\ i.type \in MessageType
         /\ i.do = "sendall" => i.type \in MessageType
BY DEF Instruction, Lock, Drain, RLock

LEMMA ScriptOf ==
  ASSUME LockTypes, NEW g \in Goroutine, ~Idle(g)
  PROVE  /\ script[g] \in Seq(Instruction) /\ script[g] # <<>>
         /\ Upcoming(g) \in Instruction
         /\ Upcoming(g) = Head(script[g])
         /\ Tail(script[g]) \in Seq(Instruction)
BY HeadTailProperties DEF LockTypes, Idle, Upcoming

\* The others keep their scripts and their locks.
Spares(g) ==
  /\ script' = [script EXCEPT ![g] = script'[g]]
  /\ \A lock \in Lockable : \A h \in Goroutine \ {g} :
       /\ h \in writers'[lock] <=> h \in writers[lock]
       /\ h \in readers'[lock] <=> h \in readers[lock]

LEMMA OthersSound ==
  ASSUME ScriptsInv, NEW g \in Goroutine, Spares(g), NEW h \in Goroutine \ {g}
  PROVE  script'[h] = script[h] /\ Sound(h, writers', readers', script'[h])
<1>1. script'[h] = script[h]
  BY DEF Spares, ScriptsInv, LockTypes
<1>2. HeldIn(h, writers', readers', script[h])
        = HeldIn(h, writers, readers, script[h])
  <2>1. \A x \in Release : <<h[1], x.on>> \in Lockable
    BY ReleaseIs, GoroutineEnds
  <2> QED BY <2>1 DEF HeldIn, Spares
<1> QED BY <1>1, <1>2 DEF Sound, ScriptsInv

\* A step that takes at most one lock, which is free, and then goes on.
LEMMA GrantKeeps ==
  ASSUME ScriptsInv, NEW g \in Goroutine, NEW w, NEW r, Advanced(g, w, r),
         \A lock \in Lockable :
           \/ w[lock] = writers[lock]
           \/ w[lock] = {g} /\ writers[lock] = {} /\ g[1] = lock[1] /\ r[lock] = {},
         \A lock \in Lockable :
           \/ r[lock] = readers[lock]
           \/ r[lock] = readers[lock] \union {g} /\ g[1] = lock[1] /\ w[lock] = {},
         \A lock \in Lockable :
           g \in writers[lock] /\ DrainsOf(script[g], lock[2]) => r[lock] = {}
  PROVE  ScriptsInv'
<1>1. LockTypes /\ LocksKept /\ LockTypes'
  BY DEF ScriptsInv, Advanced
<1>2. \A lock \in Lockable :
        /\ writers'[lock] \subseteq w[lock] /\ w[lock] \ {g} \subseteq writers'[lock]
        /\ readers'[lock] \subseteq r[lock] /\ r[lock] \ {g} \subseteq readers'[lock]
  BY DEF Advanced
<1>3. \A lock \in Lockable :
        /\ w[lock] \ {g} = writers[lock] \ {g}
        /\ r[lock] \ {g} = readers[lock] \ {g}
  OBVIOUS
<1>4. Spares(g)
  BY <1>2, <1>3 DEF Advanced, Spares
<1>5. ASSUME NEW lock \in Lockable,
             NEW a \in writers'[lock], NEW b \in writers'[lock]
      PROVE  a = b /\ a[1] = lock[1]
  BY <1>1, <1>2, <1>5 DEF LocksKept
<1>6. ASSUME NEW lock \in Lockable, NEW a \in readers'[lock]
      PROVE  a[1] = lock[1]
  BY <1>1, <1>2, <1>6 DEF LocksKept
<1>7. ASSUME NEW lock \in Lockable, NEW a \in writers'[lock],
             readers'[lock] # {}
      PROVE  DrainsOf(script'[a], lock[2])
  <2>1. a \in w[lock] /\ r[lock] # {}
    BY <1>2, <1>7
  <2>2. w[lock] = writers[lock] /\ r[lock] = readers[lock]
    BY <2>1
  <2>3. DrainsOf(script[a], lock[2])
    BY <1>1, <2>1, <2>2 DEF LocksKept
  <2>4. a # g
    BY <2>1, <2>2, <2>3
  <2>5. a \in Goroutine
    BY <1>1, <1>7 DEF LockTypes
  <2> QED BY <1>4, <2>3, <2>4, <2>5, OthersSound
<1>8. ASSUME NEW a \in Goroutine, NEW m \in Mutex, DrainsOf(script'[a], m)
      PROVE  a \in writers'[<<a[1], m>>]
  <2>1. a # g
    BY <1>8 DEF Advanced
  <2>2. script'[a] = script[a]
    BY <1>4, <2>1, OthersSound
  <2>3. a \in writers[<<a[1], m>>]
    BY <1>1, <1>8, <2>2 DEF LocksKept
  <2>4. <<a[1], m>> \in Lockable
    BY GoroutineEnds
  <2> QED BY <1>2, <1>3, <2>1, <2>3, <2>4
<1>9. LocksKept'
  BY <1>5, <1>6, <1>7, <1>8 DEF LocksKept
<1>10. ASSUME NEW h \in Goroutine
       PROVE  Sound(h, writers', readers', script'[h])
  BY <1>4, OthersSound DEF Advanced
<1> QED BY <1>1, <1>9, <1>10 DEF ScriptsInv

\* A step that takes no lock.
LEMMA PlainStepKeeps ==
  ASSUME ScriptsInv, NEW g \in Goroutine, ~Idle(g),
         Upcoming(g).do \notin {"lock", "drain", "rlock", "unlock", "runlock"},
         Advance(g, writers, readers)
  PROVE  ScriptsInv'
<1> DEFINE s == script[g]
           H == HeldIn(g, writers, readers, s)
<1>1. LockTypes /\ Sound(g, writers, readers, s)
  BY DEF ScriptsInv
<1>2. s # <<>> /\ Head(s).do \notin {"lock", "drain", "rlock", "unlock", "runlock"}
  BY <1>1, ScriptOf
<1>3. Plan(s) = s /\ \A m : ~DrainsOf(s, m)
  BY <1>2 DEF Plan, DrainsOf, Drain
<1>4. H = HeldIn(g, writers, readers, <<>>)
  <2>1. \A m : ~DrainsOf(<<>>, m)
    BY DEF DrainsOf
  <2> HIDE DEF s
  <2> QED BY <1>3, <2>1 DEF HeldIn
<1> HIDE DEF H
<1>5. Runs(g, TRUE, Tail(s), H, {})
  <2>1. CASE Runs(g, TRUE, Plan(s), H, {})
    <3> HIDE DEF s
    <3>1. Runs(g, TRUE, Tail(s), After(Head(s), H), {})
      BY <1>2, <1>3, <2>1, RunsTail
    <3>2. After(Head(s), H) = H
      BY <1>2 DEF After
    <3> QED BY <3>1, <3>2
  <2>2. CASE g \in Link /\ s = LookUp(g[2]) /\ H = {}
    <3>1. Tail(s) = <<Send(g[2], "peers")>>
      BY <2>2 DEF LookUp
    <3>2. g[2] \in Node /\ <<g[1], g[2]>> \in Link
      BY <2>2, GoroutineEnds
    <3> HIDE DEF s
    <3> QED BY <2>2, <3>1, <3>2, RunsSend DEF MessageType
  <2> QED BY <1>1, <2>1, <2>2 DEF Sound, H
<1>6. Advanced(g, writers, readers)
  BY <1>1, <1>4, <1>5, AdvanceKeeps DEF LockTypes
<1> QED BY <1>3, <1>6, GrantKeeps

\* A goroutine that asks for a lock is on a script that allows it.
LEMMA AsksLegally ==
  ASSUME ScriptsInv, NEW g \in Goroutine, ~Idle(g),
         Upcoming(g).do \in {"lock", "drain", "rlock"}
  PROVE  LET i == Upcoming(g)
             H == HeldIn(g, writers, readers, script[g])
             asked == IF i.do = "rlock" THEN RLock(i.on) ELSE Lock(i.on)
         IN  /\ Legal(g, TRUE, asked, H)
             /\ Runs(g, TRUE, Tail(script[g]), After(asked, H), {})
             /\ i.on \in Mutex /\ <<g[1], i.on>> \in Lockable
             /\ i.do # "drain" => i = asked
             /\ i.do = "drain" => i = Drain(i.on)
<1> DEFINE i == Upcoming(g)
           s == script[g]
           H == HeldIn(g, writers, readers, s)
           asked == IF i.do = "rlock" THEN RLock(i.on) ELSE Lock(i.on)
<1>1. /\ s \in Seq(Instruction) /\ s # <<>> /\ i \in Instruction /\ i = Head(s)
      /\ Tail(s) \in Seq(Instruction)
  BY ScriptOf DEF ScriptsInv
<1>2. /\ i.on \in Mutex
      /\ i.do # "drain" => i = asked
      /\ i.do = "drain" => i = Drain(i.on)
  BY <1>1, InstructionIs
<1>3. <<g[1], i.on>> \in Lockable
  BY <1>2, GoroutineEnds
<1>4. Runs(g, TRUE, Plan(s), H, {})
  <2>1. s # LookUp(g[2])
    <3>1. Head(LookUp(g[2])).do = "read"
      BY DEF LookUp, Read
    <3> QED BY <1>1, <3>1
  <2> QED BY <2>1 DEF ScriptsInv, Sound
<1> HIDE DEF H, s
<1>5. Plan(s) # <<>> /\ Head(Plan(s)) = asked /\ Tail(Plan(s)) = Tail(s)
  <2>1. CASE i.do # "drain"
    BY <1>1, <1>2, <2>1 DEF Plan
  <2>2. CASE i.do = "drain"
    <3>1. Plan(s) = <<asked>> \o Tail(s) /\ asked \in Instruction
      BY <1>1, <1>2, <2>2, InstructionsTyped DEF Plan
    <3> HIDE DEF asked
    <3>2. <<asked>> \in Seq(Instruction) /\ Len(<<asked>>) = 1
      BY <3>1
    <3>3. \A t \in Seq(Instruction) :
            /\ <<asked>> \o t # <<>> /\ Head(<<asked>> \o t) = asked
            /\ Tail(<<asked>> \o t) = t
      BY <3>1
    <3> QED BY <1>1, <3>1, <3>3
  <2> QED BY <2>1, <2>2
<1> HIDE DEF asked
<1>6. Legal(g, TRUE, asked, H) /\ Runs(g, TRUE, Tail(s), After(asked, H), {})
  BY <1>4, <1>5, RunsTail
<1> QED BY <1>2, <1>3, <1>6 DEF H, s, asked

LEMMA AcquireKeeps ==
  ASSUME ScriptsInv, NEW g \in Goroutine, Acquire(g)
  PROVE  ScriptsInv'
<1> DEFINE i == Upcoming(g)
           m == i.on
           lock == <<g[1], m>>
           s == script[g]
           H == HeldIn(g, writers, readers, s)
<1>1. ~Idle(g) /\ Blockers(g) = {} /\ i.do \in {"lock", "drain", "rlock"}
  BY DEF Acquire
<1>2. /\ LockTypes /\ LocksKept /\ s # <<>> /\ i = Head(s)
      /\ s \in Seq(Instruction) /\ Tail(s) \in Seq(Instruction)
  BY <1>1, ScriptOf DEF ScriptsInv
<1>3. m \in Mutex /\ lock \in Lockable /\ lock[1] = g[1] /\ lock[2] = m
  BY <1>1, AsksLegally
<1>4. /\ i.do \in {"lock", "rlock"} => writers[lock] = {}
      /\ i.do = "drain" => readers[lock] = {}
  BY <1>1 DEF Blockers
<1>5. i.do # "drain" =>
        /\ \A k : ~DrainsOf(s, k)
        /\ H = HeldIn(g, writers, readers, <<>>)
  <2>1. ASSUME i.do # "drain", NEW k PROVE ~DrainsOf(s, k)
    BY <1>2, <2>1 DEF DrainsOf, Drain
  <2>2. \A k : ~DrainsOf(<<>>, k)
    BY DEF DrainsOf
  <2> HIDE DEF s
  <2> QED BY <2>1, <2>2 DEF HeldIn
<1>6. ASSUME NEW w \in [Lockable -> SUBSET Goroutine],
             NEW r \in [Lockable -> SUBSET Goroutine],
             NEW D, D = HeldIn(g, w, r, <<>>),
             Runs(g, TRUE, Tail(s), D, {}), Advance(g, w, r)
      PROVE  Advanced(g, w, r)
  BY <1>1, <1>2, <1>6, AdvanceKeeps
<1>7. CASE i.do = "lock" /\ readers[lock] = {}
           /\ Advance(g, [writers EXCEPT ![lock] = @ \union {g}], readers)
  <2> DEFINE w == [writers EXCEPT ![lock] = @ \union {g}]
  <2>1. /\ w \in [Lockable -> SUBSET Goroutine]
        /\ w[lock] = {g} /\ \A k \in Lockable \ {lock} : w[k] = writers[k]
    BY <1>2, <1>3, <1>4, <1>7 DEF LockTypes
  <2> HIDE DEF w
  <2>2. HeldIn(g, w, readers, <<>>) = After(Lock(m), H)
    <3>1. After(Lock(m), H) = H \union {Unlock(m)}
      BY DEF After, Lock
    <3> SUFFICES ASSUME NEW x \in Release
                 PROVE  x \in HeldIn(g, w, readers, <<>>)
                          <=> x \in HeldIn(g, writers, readers, <<>>) \/ x = Unlock(m)
      BY <1>3, <1>5, <1>7, <3>1, InstructionsTyped DEF HeldIn
    <3>2. <<g[1], x.on>> \in Lockable /\ (<<g[1], x.on>> = lock <=> x.on = m)
      BY ReleaseIs, GoroutineEnds
    <3>3. x = Unlock(m) <=> x.do = "unlock" /\ x.on = m
      BY ReleaseIs DEF Unlock
    <3> HIDE DEF lock, m
    <3>4. g \in w[<<g[1], x.on>>] <=> g \in writers[<<g[1], x.on>>] \/ x.on = m
      BY <2>1, <3>2
    <3> QED BY <3>3, <3>4 DEF HeldIn, DrainsOf
  <2>3. Runs(g, TRUE, Tail(s), After(Lock(m), H), {})
    BY <1>1, <1>7, AsksLegally
  <2>4. Advanced(g, w, readers)
    BY <1>2, <1>6, <1>7, <2>1, <2>2, <2>3 DEF w, LockTypes
  <2> HIDE DEF lock, H, s
  <2> QED BY <1>3, <1>4, <1>5, <1>7, <2>1, <2>4, GrantKeeps DEF s
<1>8. CASE i.do = "drain" /\ Advance(g, writers, readers)
  <2>1. i = Drain(m) /\ g \in writers[lock] /\ readers[lock] = {}
    <3>1. i = Drain(m)
      BY <1>1, <1>8, AsksLegally
    <3> QED BY <1>2, <1>3, <1>4, <1>8, <3>1 DEF LocksKept, DrainsOf
  <2>2. \A k : DrainsOf(s, k) <=> k = m
    BY <1>2, <2>1 DEF DrainsOf, Drain
  <2>3. HeldIn(g, writers, readers, <<>>) = After(Lock(m), H)
    <3>1. After(Lock(m), H) = H \union {Unlock(m)}
      BY DEF After, Lock
    <3> SUFFICES ASSUME NEW x \in Release
                 PROVE  x \in HeldIn(g, writers, readers, <<>>)
                          <=> x \in H \/ x = Unlock(m)
      BY <1>3, <3>1, InstructionsTyped DEF HeldIn
    <3>2. x = Unlock(m) <=> x.do = "unlock" /\ x.on = m
      BY ReleaseIs DEF Unlock
    <3>3. \A k : ~DrainsOf(<<>>, k)
      BY DEF DrainsOf
    <3> HIDE DEF s, m
    <3> QED BY <2>1, <2>2, <3>2, <3>3 DEF HeldIn
  <2>4. Runs(g, TRUE, Tail(s), After(Lock(m), H), {})
    BY <1>1, <1>8, AsksLegally
  <2>5. Advanced(g, writers, readers)
    BY <1>2, <1>6, <1>8, <2>3, <2>4 DEF LockTypes
  <2>6. \A k \in Lockable :
          g \in writers[k] /\ DrainsOf(s, k[2]) => readers[k] = {}
    <3> TAKE k \in Lockable
    <3> HAVE g \in writers[k] /\ DrainsOf(s, k[2])
    <3>1. k[2] = m
      BY <2>2
    <3>2. k[1] = g[1]
      BY <1>2 DEF LocksKept
    <3>3. k = lock
      BY <3>1, <3>2, LockableEnds
    <3> QED BY <2>1, <3>3
  <2> QED BY <2>5, <2>6, GrantKeeps
<1>9. CASE i.do = "rlock"
           /\ Advance(g, writers, [readers EXCEPT ![lock] = @ \union {g}])
  <2> DEFINE r == [readers EXCEPT ![lock] = @ \union {g}]
  <2>1. /\ r \in [Lockable -> SUBSET Goroutine]
        /\ r[lock] = readers[lock] \union {g}
        /\ \A k \in Lockable \ {lock} : r[k] = readers[k]
    BY <1>2, <1>3 DEF LockTypes
  <2> HIDE DEF r
  <2>2. HeldIn(g, writers, r, <<>>) = After(RLock(m), H)
    <3>1. After(RLock(m), H) = H \union {RUnlock(m)}
      BY DEF After, RLock
    <3> SUFFICES ASSUME NEW x \in Release
                 PROVE  x \in HeldIn(g, writers, r, <<>>)
                          <=> x \in HeldIn(g, writers, readers, <<>>) \/ x = RUnlock(m)
      BY <1>3, <1>5, <1>9, <3>1, InstructionsTyped DEF HeldIn
    <3>2. <<g[1], x.on>> \in Lockable /\ (<<g[1], x.on>> = lock <=> x.on = m)
      BY ReleaseIs, GoroutineEnds
    <3>3. x = RUnlock(m) <=> x.do # "unlock" /\ x.on = m
      BY ReleaseIs DEF RUnlock
    <3> HIDE DEF lock, m
    <3>4. g \in r[<<g[1], x.on>>] <=> g \in readers[<<g[1], x.on>>] \/ x.on = m
      BY <2>1, <3>2
    <3> QED BY <3>3, <3>4 DEF HeldIn, DrainsOf
  <2>3. Runs(g, TRUE, Tail(s), After(RLock(m), H), {})
    BY <1>1, <1>9, AsksLegally
  <2>4. Advanced(g, writers, r)
    BY <1>2, <1>6, <1>9, <2>1, <2>2, <2>3 DEF r, LockTypes
  <2> HIDE DEF lock, H, s
  <2> QED BY <1>3, <1>4, <1>5, <1>9, <2>1, <2>4, GrantKeeps DEF s
<1>10. CASE /\ i.do = "lock" /\ readers[lock] # {}
            /\ script' = [script EXCEPT ![g] = <<Drain(m)>> \o Tail(@)]
            /\ writers' = [writers EXCEPT ![lock] = @ \union {g}]
            /\ UNCHANGED readers
  <2> DEFINE t == <<Drain(m)>> \o Tail(s)
  <2>1. i = Lock(m) /\ Drain(m) \in Instruction
    BY <1>1, <1>3, <1>10, AsksLegally, InstructionsTyped
  <2>2. /\ t \in Seq(Instruction) /\ t # <<>>
        /\ Head(t) = Drain(m) /\ Tail(t) = Tail(s)
    <3> HIDE DEF s, m
    <3> QED BY <1>2, <2>1
  <2>3. s = <<Lock(m)>> \o Tail(s)
    <3>1. \A u \in Seq(Instruction) : u # <<>> => u = <<Head(u)>> \o Tail(u)
      OBVIOUS
    <3> HIDE DEF s, m
    <3> QED BY <1>2, <2>1, <3>1
  <2> HIDE DEF t
  <2>4. Plan(t) = s /\ Plan(s) = s
    <3> HIDE DEF s, m
    <3>0. Head(t).do = "drain" /\ Head(t).on = m
      BY <2>2 DEF Drain
    <3>1. Plan(t) = s
      BY <2>2, <2>3, <3>0, Zenon DEF Plan
    <3>2. Plan(s) = s
      BY <1>2, <1>10 DEF Plan
    <3> QED BY <3>1, <3>2
  <2>5. \A k : DrainsOf(t, k) <=> k = m
    BY <2>2 DEF DrainsOf, Drain
  <2>6. /\ script' = [script EXCEPT ![g] = t] /\ script'[g] = t
        /\ writers'[lock] = {g}
        /\ \A k \in Lockable \ {lock} : writers'[k] = writers[k]
        /\ readers' = readers
    BY <1>2, <1>3, <1>4, <1>10 DEF t, LockTypes
  <2>7. LockTypes'
    BY <1>2, <1>3, <1>10, <2>2 DEF LockTypes, t
  <2>8. Spares(g)
    <3> HIDE DEF lock
    <3> QED BY <1>3, <1>4, <1>10, <2>6 DEF Spares
  <2>9. HeldIn(g, writers', readers', t) = H
    <3> SUFFICES ASSUME NEW x \in Release
                 PROVE  x \in HeldIn(g, writers', readers', t)
                          <=> x \in HeldIn(g, writers, readers, <<>>)
      BY <1>5, <1>10 DEF HeldIn
    <3>1. <<g[1], x.on>> \in Lockable /\ (<<g[1], x.on>> = lock <=> x.on = m)
      BY ReleaseIs, GoroutineEnds
    <3> HIDE DEF lock, m
    <3>2. CASE x.on = m
      BY <1>4, <1>10, <2>5, <2>6, <3>1, <3>2 DEF HeldIn, DrainsOf
    <3>3. CASE x.on # m
      BY <2>5, <2>6, <3>1, <3>3 DEF HeldIn, DrainsOf
    <3> QED BY <3>2, <3>3
  <2>10. Sound(g, writers', readers', t)
    <3>1. s # LookUp(g[2])
      <4>1. Head(LookUp(g[2])).do = "read"
        BY DEF LookUp, Read
      <4> QED BY <1>2, <1>10, <4>1
    <3>2. Runs(g, TRUE, s, H, {})
      BY <2>4, <3>1 DEF ScriptsInv, Sound
    <3> QED BY <2>4, <2>9, <3>2 DEF Sound
  <2>11. \A h \in Goroutine : Sound(h, writers', readers', script'[h])
    BY <2>6, <2>8, <2>10, OthersSound
  <2>12. LocksKept'
    <3>1. ASSUME NEW k \in Lockable,
                 NEW a \in writers'[k], NEW b \in writers'[k]
          PROVE  a = b /\ a[1] = k[1]
      BY <1>2, <1>3, <2>6, <3>1 DEF LocksKept
    <3>2. ASSUME NEW k \in Lockable, NEW a \in readers'[k]
          PROVE  a[1] = k[1]
      BY <1>2, <2>6, <3>2 DEF LocksKept
    <3>3. ASSUME NEW k \in Lockable, NEW a \in writers'[k], readers'[k] # {}
          PROVE  DrainsOf(script'[a], k[2])
      <4>1. CASE k = lock
        BY <1>3, <2>5, <2>6, <3>3, <4>1
      <4>2. CASE k # lock
        <5>1. a \in writers[k] /\ DrainsOf(script[a], k[2])
          BY <1>2, <2>6, <3>3, <4>2 DEF LocksKept
        <5>2. a # g
          BY <1>5, <1>10, <5>1
        <5>3. a \in Goroutine
          BY <1>2, <5>1 DEF LockTypes
        <5> QED BY <2>8, <5>1, <5>2, <5>3, OthersSound
      <4> QED BY <4>1, <4>2
    <3>4. ASSUME NEW a \in Goroutine, NEW k \in Mutex, DrainsOf(script'[a], k)
          PROVE  a \in writers'[<<a[1], k>>]
      <4>1. CASE a = g
        BY <2>5, <2>6, <3>4, <4>1
      <4>2. CASE a # g
        <5>1. script'[a] = script[a]
          BY <2>8, <4>2, OthersSound
        <5>2. a \in writers[<<a[1], k>>] /\ <<a[1], k>> \in Lockable
          BY <1>2, <3>4, <5>1, GoroutineEnds DEF LocksKept
        <5> QED BY <2>8, <4>2, <5>2 DEF Spares
      <4> QED BY <4>1, <4>2
    <3> QED BY <3>1, <3>2, <3>3, <3>4 DEF LocksKept
  <2> QED BY <2>7, <2>11, <2>12 DEF ScriptsInv
<1> QED BY <1>7, <1>8, <1>9, <1>10 DEF Acquire

LEMMA IdleHoldsNothing ==
  ASSUME ScriptsInv, NEW g \in Goroutine, Idle(g)
  PROVE  HeldIn(g, writers, readers, <<>>) = {}
<1>1. script[g] = <<>> /\ Sound(g, writers, readers, <<>>)
  BY DEF Idle, ScriptsInv
<1>2. <<>> # LookUp(g[2]) /\ Plan(<<>>) = <<>>
  BY DEF LookUp, Plan
<1> DEFINE H == HeldIn(g, writers, readers, <<>>)
<1>3. Runs(g, TRUE, <<>>, H, {})
  BY <1>1, <1>2 DEF Sound
<1> HIDE DEF H
<1>4. PICK h \in [1 .. Len(<<>>) + 1 -> SUBSET Release] :
        h[1] = H /\ h[Len(<<>>) + 1] = {}
  BY <1>3 DEF Runs
<1>5. Len(<<>>) = 0
  OBVIOUS
<1> QED BY <1>4, <1>5 DEF H

LEMMA LookUpTyped ==
  ASSUME NEW p \in Node
  PROVE  /\ LookUp(p) \in Seq(Instruction)
         /\ Plan(LookUp(p)) = LookUp(p)
         /\ \A m : ~DrainsOf(LookUp(p), m)
         /\ ~Appends(LookUp(p))
<1>1. Read("peers") \in Instruction /\ Send(p, "peers") \in Instruction
  BY InstructionsTyped DEF MessageType
<1>2. /\ LookUp(p) # <<>> /\ Len(LookUp(p)) = 2
      /\ LookUp(p)[1] = Read("peers") /\ LookUp(p)[2] = Send(p, "peers")
      /\ Head(LookUp(p)) = Read("peers")
  BY DEF LookUp
<1>3. \A m : Read("peers") # Drain(m) /\ Read("peers").do = "read"
  BY DEF Read, Drain
<1>4. Read("peers") # Write("chain") /\ Send(p, "peers") # Write("chain")
  BY DEF Read, Send, Write
<1>5. ~Appends(LookUp(p))
  <2>1. \A k \in 1 .. 2 : k = 1 \/ k = 2
    OBVIOUS
  <2> QED BY <1>2, <1>4, <2>1 DEF Appends
<1> QED BY <1>1, <1>2, <1>3, <1>5 DEF LookUp, Plan, DrainsOf

\* What a goroutine may begin with.
Startable(g, s) ==
  \/ Runs(g, MayAppend(g[1]), s, {}, {})
  \/ g \in Link /\ s = LookUp(g[2])

LEMMA BeginKeeps ==
  ASSUME ScriptsInv, NEW g \in Goroutine, NEW s, Begin(g, s), Startable(g, s),
         writers' = writers, readers' = readers
  PROVE  ScriptsInv'
<1>1. LockTypes /\ LocksKept
  BY DEF ScriptsInv
<1>2. script' = [script EXCEPT ![g] = s] /\ script'[g] = s
  BY <1>1 DEF Begin, LockTypes
<1>3. HeldIn(g, writers, readers, <<>>) = {}
  BY IdleHoldsNothing DEF Begin
<1>4. s \in Seq(Instruction) /\ Plan(s) = s /\ \A m : ~DrainsOf(s, m)
  <2>1. CASE Runs(g, MayAppend(g[1]), s, {}, {})
    BY <2>1, RunsPlan DEF Runs
  <2>2. CASE g \in Link /\ s = LookUp(g[2])
    BY <2>2, LookUpTyped, GoroutineEnds
  <2> QED BY <2>1, <2>2 DEF Startable
<1>5. HeldIn(g, writers', readers', s) = {}
  <2>1. \A m : ~DrainsOf(<<>>, m)
    BY DEF DrainsOf
  <2>2. HeldIn(g, writers, readers, s) = HeldIn(g, writers, readers, <<>>)
    BY <1>4, <2>1 DEF HeldIn
  <2> QED BY <1>3, <2>2
<1>6. Sound(g, writers', readers', s)
  <2>1. CASE Runs(g, MayAppend(g[1]), s, {}, {})
    <3>1. Runs(g, TRUE, s, {}, {})
      BY <2>1, MoreAllowed
    <3> QED BY <1>4, <1>5, <3>1 DEF Sound
  <2>2. CASE g \in Link /\ s = LookUp(g[2])
    BY <1>5, <2>2 DEF Sound
  <2> QED BY <2>1, <2>2 DEF Startable
<1>7. Spares(g)
  BY <1>2 DEF Spares
<1>8. \A h \in Goroutine : Sound(h, writers', readers', script'[h])
  BY <1>2, <1>6, <1>7, OthersSound
<1>9. LockTypes'
  BY <1>1, <1>2, <1>4 DEF LockTypes
<1>10. \A h \in Goroutine : \A m :
         DrainsOf(script'[h], m) <=> DrainsOf(script[h], m)
  <2>1. ~ \E m : DrainsOf(script[g], m)
    BY DEF Begin, Idle, DrainsOf
  <2> QED BY <1>2, <1>4, <1>7, <2>1, OthersSound
<1>11. LocksKept'
  <2>1. \A lock \in Lockable : \A h \in writers[lock] : h \in Goroutine
    BY <1>1 DEF LockTypes
  <2> QED BY <1>1, <1>10, <2>1 DEF LocksKept
<1> QED BY <1>8, <1>9, <1>11 DEF ScriptsInv

LEMMA BeginTyped ==
  ASSUME DataInv, NEW g \in Goroutine, NEW s, Begin(g, s), Startable(g, s)
  PROVE  grown' \in [Node -> 0 .. MaxBlocks]
<1>1. g[1] \in Node /\ MaxBlocks \in Nat
  BY GoroutineEnds, LocksAssumption
<1>2. Appends(s) => grown[g[1]] < MaxBlocks
  <2>1. CASE Runs(g, MayAppend(g[1]), s, {}, {})
    <3>1. PICK h : Follows(g, MayAppend(g[1]), s, h)
      BY <2>1 DEF Runs
    <3>2. ASSUME Appends(s) PROVE MayAppend(g[1])
      BY <3>1, <3>2 DEF Appends, Follows, Legal
    <3> QED BY <3>2 DEF MayAppend
  <2>2. CASE g \in Link /\ s = LookUp(g[2])
    BY <2>2, LookUpTyped, GoroutineEnds
  <2> QED BY <2>1, <2>2 DEF Startable
<1>3. grown[g[1]] + (IF Appends(s) THEN 1 ELSE 0) \in 0 .. MaxBlocks
  <2>1. grown[g[1]] \in 0 .. MaxBlocks
    BY <1>1 DEF DataInv
  <2>2. CASE Appends(s)
    BY <1>1, <1>2, <2>1, <2>2
  <2>3. CASE ~Appends(s)
    BY <1>1, <2>1, <2>3
  <2> QED BY <2>2, <2>3
<1> QED BY <1>1, <1>3 DEF Begin, DataInv

LEMMA StartableWork ==
  /\ \A g \in Task : \A s \in Work(g[1], g[2]) : Startable(g, s)
  /\ \A g \in Link : \A type \in MessageType :
       \A s \in Handle(g[1], g[2], type) : Startable(g, s)
  /\ \A g \in Link : Startable(g, Deregister(g[2]))
  /\ \A g \in Acceptor : Startable(g, HandleStream(g[2]))
<1>1. \A g \in Task : \A s \in Work(g[1], g[2]) : Startable(g, s)
  BY RunsWork DEF Startable
<1>2. ASSUME NEW g \in Link, NEW type \in MessageType,
             NEW s \in Handle(g[1], g[2], type)
      PROVE  Startable(g, s)
  BY RunsHandle DEF Startable
<1>3. \A g \in Link \union Acceptor : g[2] \in Node /\ <<g[1], g[2]>> \in Link
  BY GoroutineEnds
<1> QED BY <1>1, <1>2, <1>3, RunsTable DEF Startable

-----------------------------------------------------------------------------
(***************************************************************************)
(* The invariant is kept                                                   *)
(***************************************************************************)
LEMMA InitLocks ==
  Init => LocksInv
<1> SUFFICES ASSUME Init PROVE LocksInv
  OBVIOUS
<1>1. LockTypes /\ LocksKept
  BY EmptySeq DEF Init, LockTypes, LocksKept, Lockable, DrainsOf
<1>2. ASSUME NEW g \in Goroutine PROVE Sound(g, writers, readers, script[g])
  <2>1. \A u \in Release : <<g[1], u.on>> \in Lockable
    BY ReleaseIs, GoroutineEnds
  <2>2. script[g] = <<>> /\ HeldIn(g, writers, readers, <<>>) = {}
    BY <2>1 DEF Init, HeldIn, Lockable
  <2>3. Plan(<<>>) = <<>>
    BY DEF Plan
  <2> QED BY <2>2, <2>3, Ranks, RunsNothing DEF Sound
<1>3. DataInv
  <2>1. /\ MaxBlocks \in Nat /\ MaxStarts \in Nat /\ Capacity \in Nat
        /\ Established \in BOOLEAN
    BY LocksAssumption
  <2>2. \A n \in Node : Neighbours(n) \subseteq Node
    BY DEF Neighbours
  <2>3. /\ stream \in [Link -> Seq(MessageType)]
        /\ \A l \in Link : Len(stream[l]) <= Capacity
    BY <2>1 DEF Init
  <2>4. /\ table \in [Node -> SUBSET Node]
        /\ \A n \in Node : table[n] \subseteq Neighbours(n)
    BY <2>2 DEF Init
  <2> QED BY <2>1, <2>3, <2>4 DEF Init, DataInv
<1> QED BY <1>1, <1>2, <1>3 DEF LocksInv, ScriptsInv

\* Streams stay in their bounds when a message is written or taken.
LEMMA StreamsKept ==
  ASSUME DataInv
  PROVE  /\ \A l \in Link, type \in MessageType :
              LET after == [stream EXCEPT ![l] = Append(@, type)] IN
              ~Full(l) => /\ after \in [Link -> Seq(MessageType)]
                          /\ \A k \in Link : Len(after[k]) <= Capacity
         /\ \A l \in Link :
              LET after == [stream EXCEPT ![l] = Tail(@)] IN
              stream[l] # <<>> =>
                /\ after \in [Link -> Seq(MessageType)]
                /\ \A k \in Link : Len(after[k]) <= Capacity
                /\ Head(stream[l]) \in MessageType
<1>1. /\ Capacity \in Nat
      /\ \A l \in Link :
           stream[l] \in Seq(MessageType) /\ Len(stream[l]) <= Capacity
  BY LocksAssumption DEF DataInv
<1>2. ASSUME NEW l \in Link, NEW type \in MessageType, ~Full(l)
      PROVE  /\ Append(stream[l], type) \in Seq(MessageType)
             /\ Len(Append(stream[l], type)) <= Capacity
  BY <1>1, <1>2, AppendProperties, LenProperties DEF Full
<1>3. ASSUME NEW l \in Link, stream[l] # <<>>
      PROVE  /\ Tail(stream[l]) \in Seq(MessageType) /\ Head(stream[l]) \in MessageType
             /\ Len(Tail(stream[l])) <= Capacity
  BY <1>1, <1>3, HeadTailProperties, LenProperties
<1>4. ASSUME NEW l \in Link, NEW q \in Seq(MessageType), Len(q) <= Capacity
      PROVE  /\ [stream EXCEPT ![l] = q] \in [Link -> Seq(MessageType)]
             /\ \A k \in Link : Len([stream EXCEPT ![l] = q][k]) <= Capacity
  BY <1>1, <1>4 DEF DataInv
<1> QED BY <1>2, <1>3, <1>4

\* What a goroutine does next, but for asking for locks, it may do.
LEMMA DoesLegally ==
  ASSUME ScriptsInv, NEW g \in Goroutine, ~Idle(g),
         Upcoming(g).do \notin {"lock", "drain", "rlock"},
         Upcoming(g) # Read("peers")
  PROVE  /\ Legal(g, TRUE, Upcoming(g), HeldIn(g, writers, readers, <<>>))
         /\ Runs(g, TRUE, Tail(script[g]),
                 After(Upcoming(g), HeldIn(g, writers, readers, <<>>)), {})
         /\ \A m : ~DrainsOf(script[g], m)
<1> DEFINE s == script[g]
           H == HeldIn(g, writers, readers, s)
<1>1. s \in Seq(Instruction) /\ s # <<>> /\ Head(s) = Upcoming(g)
  BY ScriptOf DEF ScriptsInv
<1>2. Plan(s) = s
  BY <1>1 DEF Plan
<1>3. s # LookUp(g[2])
  <2>1. Head(LookUp(g[2])) = Read("peers")
    BY DEF LookUp
  <2> QED BY <1>1, <2>1
<1>4. Runs(g, TRUE, s, H, {})
  BY <1>2, <1>3 DEF ScriptsInv, Sound
<1> HIDE DEF s, H
<1>5. /\ Legal(g, TRUE, Head(s), H) /\ Runs(g, TRUE, Tail(s), After(Head(s), H), {})
      /\ \A m : ~DrainsOf(s, m)
      /\ H = HeldIn(g, writers, readers, <<>>)
  BY <1>1, <1>4, RunsTail, RunsPlan DEF H, s
<1> QED BY <1>1, <1>5 DEF s

\* A loop over the peers begins.
LEMMA RunsSendNext ==
  ASSUME NEW g, NEW w, NEW H \in SUBSET Release, RUnlock("peerMutex") \in H,
         NEW n \in Nat, NEW order \in [1 .. n -> Node], NEW type \in MessageType,
         \A k \in 1 .. n : <<g[1], order[k]>> \in Link
  PROVE  Runs(g, w, [k \in 1 .. n |-> SendNext(order[k], type)], H, H)
<1> DEFINE s == [k \in 1 .. n |-> SendNext(order[k], type)]
           h == [k \in 1 .. n + 1 |-> H]
<1>1. \A k \in 1 .. n : s[k] = SendNext(order[k], type) /\ s[k] \in Instruction
  BY InstructionsTyped
<1>2. s \in Seq(Instruction) /\ Len(s) = n
  BY <1>1
<1> HIDE DEF s
<1>3. \A k \in 1 .. n : Legal(g, w, s[k], H) /\ After(s[k], H) = H
  <2> TAKE k \in 1 .. n
  <2> DEFINE p == order[k]
  <2>0. s[k] = SendNext(p, type)
    BY <1>1
  <2>1. s[k].do = "sendnext" /\ s[k].to = p
    <3> HIDE DEF p
    <3> QED BY <2>0 DEF SendNext
  <2>2. s[k] # Write("chain")
    BY <2>1 DEF Write
  <2> QED BY <2>1, <2>2 DEF Legal, After
<1>4. h \in [1 .. n + 1 -> SUBSET Release] /\ \A k \in 1 .. n + 1 : h[k] = H
  OBVIOUS
<1> HIDE DEF h
<1>5. Follows(g, w, s, h)
  BY <1>2, <1>3, <1>4 DEF Follows
<1>6. Runs(g, w, s, H, H)
  BY <1>2, <1>4, <1>5 DEF Runs
<1> QED BY <1>6 DEF s

LEMMA LoopKeeps ==
  ASSUME LocksInv, NEW g \in Goroutine, Loop(g)
  PROVE  ScriptsInv'
<1> DEFINE n == g[1]
           s == script[g]
           i == Upcoming(g)
           H == HeldIn(g, writers, readers, <<>>)
<1>1. ScriptsInv /\ DataInv /\ ~Idle(g) /\ i.do = "sendall"
  BY DEF LocksInv, Loop, Does
<1>2. /\ LockTypes /\ s \in Seq(Instruction) /\ Tail(s) \in Seq(Instruction)
      /\ i \in Instruction /\ i.type \in MessageType /\ n \in Node
  BY <1>1, ScriptOf, InstructionIs, GoroutineEnds DEF ScriptsInv
<1>3. CASE Advance(g, writers, readers)
  BY <1>1, <1>3, PlainStepKeeps
<1>4. CASE /\ table[n] # {} /\ UNCHANGED <<writers, readers>>
           /\ \E order \in SetToSeqs(table[n]) :
                script' = [script EXCEPT ![g] =
                             [k \in 1 .. Len(order) |-> SendNext(order[k], i.type)]
                               \o Tail(@)]
  <2>1. PICK order \in SetToSeqs(table[n]) :
          script' = [script EXCEPT ![g] =
                       [k \in 1 .. Len(order) |-> SendNext(order[k], i.type)]
                         \o Tail(@)]
    BY <1>4
  <2> DEFINE c == Cardinality(table[n])
             turns == [k \in 1 .. c |-> SendNext(order[k], i.type)]
             t == turns \o Tail(s)
  <2>2. c \in Nat
    <3>1. IsFiniteSet(Neighbours(n)) /\ table[n] \subseteq Neighbours(n)
      BY <1>1, <1>2, LocksAssumption DEF DataInv
    <3> QED BY <3>1, FS_Subset, FS_CardinalityType
  <2>3. order \in [1 .. c -> table[n]] /\ Len(order) = c
    BY <2>2 DEF SetToSeqs
  <2>4. /\ order \in [1 .. c -> Node]
        /\ \A k \in 1 .. c : <<n, order[k]>> \in Link
    BY <1>1, <1>2, <2>3 DEF DataInv, Neighbours
  <2>5. /\ Legal(g, TRUE, i, H) /\ Runs(g, TRUE, Tail(s), After(i, H), {})
        /\ \A m : ~DrainsOf(s, m)
    <3>1. i # Read("peers")
      BY <1>1 DEF Read
    <3> QED BY <1>1, <3>1, DoesLegally
  <2>6. RUnlock("peerMutex") \in H /\ After(i, H) = H /\ H \in SUBSET Release
    BY <1>1, <2>5 DEF Legal, After, HeldIn
  <2> HIDE DEF H, s, c
  <2>7. script' = [script EXCEPT ![g] = t] /\ script'[g] = t
    BY <1>2, <2>1, <2>3 DEF LockTypes, s
  <2>8. Runs(g, TRUE, turns, H, H)
    BY <1>2, <2>2, <2>4, <2>6, RunsSendNext
  <2> HIDE DEF turns
  <2>9. Runs(g, TRUE, t, H, {})
    BY <2>5, <2>6, <2>8, RunsBoth
  <2> HIDE DEF t
  <2>10. /\ t \in Seq(Instruction) /\ Plan(t) = t /\ \A m : ~DrainsOf(t, m)
         /\ HeldIn(g, writers', readers', t) = HeldIn(g, writers', readers', <<>>)
    BY <2>9, RunsPlan DEF Runs
  <2>11. HeldIn(g, writers', readers', t) = H
    BY <1>4, <2>10 DEF H
  <2>12. Advanced(g, writers, readers)
    <3>1. Sound(g, writers', readers', t)
      BY <2>9, <2>10, <2>11 DEF Sound
    <3>2. LockTypes'
      BY <1>2, <1>4, <2>7, <2>10 DEF LockTypes
    <3> QED BY <1>4, <2>7, <2>10, <3>1, <3>2 DEF Advanced
  <2>13. \A lock \in Lockable :
           g \in writers[lock] /\ DrainsOf(script[g], lock[2]) => readers[lock] = {}
    BY <2>5 DEF s
  <2> QED BY <1>1, <2>12, <2>13, GrantKeeps
<1> QED BY <1>3, <1>4 DEF Loop

LEMMA StepKeepsLocks ==
  ASSUME LocksInv, NEW g \in Goroutine, Step(g)
  PROVE  LocksInv'
<1> DEFINE i == Upcoming(g)
<1>1. ScriptsInv /\ DataInv /\ LockTypes
  BY DEF LocksInv, ScriptsInv
<1>2. CASE Acquire(g)
  <2>1. ScriptsInv'
    BY <1>1, <1>2, AcquireKeeps
  <2>2. DataInv'
    BY <1>1, <1>2 DEF Acquire, DataInv
  <2> QED BY <2>1, <2>2 DEF LocksInv
<1>3. CASE Access(g)
  <2>1. ~Idle(g) /\ i.do \in {"read", "write"}
    BY <1>3 DEF Access, Does
  <2>2. ScriptsInv'
    BY <1>1, <1>3, <2>1, PlainStepKeeps DEF Access
  <2>3. DataInv'
    BY <1>1, <1>3 DEF Access, DataInv
  <2> QED BY <2>2, <2>3 DEF LocksInv
<1>4. CASE ChangeTable(g)
  <2> DEFINE n == g[1]
             p == i.peer
  <2>1. ~Idle(g) /\ i.do \in {"join", "leave"}
    BY <1>4 DEF ChangeTable, Does
  <2>2. ScriptsInv'
    BY <1>1, <1>4, <2>1, PlainStepKeeps DEF ChangeTable
  <2>3. <<n, p>> \in Link /\ n \in Node /\ p \in Node
    <3>1. i # Read("peers")
      BY <2>1 DEF Read
    <3>2. Legal(g, TRUE, i, HeldIn(g, writers, readers, <<>>))
      BY <1>1, <2>1, <3>1, DoesLegally
    <3>3. i \in Instruction
      BY <1>1, <2>1, ScriptOf
    <3> QED BY <2>1, <3>2, <3>3, InstructionIs, GoroutineEnds DEF Legal
  <2>4. /\ table' \in [Node -> SUBSET Node]
        /\ \A q \in Node : table'[q] \subseteq Neighbours(q)
    <3>1. /\ table \in [Node -> SUBSET Node]
          /\ \A q \in Node : table[q] \subseteq Neighbours(q)
      BY <1>1 DEF DataInv
    <3>2. p \in Neighbours(n)
      BY <2>3 DEF Neighbours
    <3>3. \/ table' = [table EXCEPT ![n] = @ \union {p}]
          \/ table' = [table EXCEPT ![n] = @ \ {p}]
      BY <1>4 DEF ChangeTable
    <3> HIDE DEF n, p
    <3> QED BY <2>3, <3>1, <3>2, <3>3
  <2>5. reader' \in [Link -> BOOLEAN]
    <3>1. reader \in [Link -> BOOLEAN]
      BY <1>1 DEF DataInv
    <3>2. reader' = [reader EXCEPT ![<<n, p>>] = TRUE] \/ reader' = reader
      BY <1>4 DEF ChangeTable
    <3> HIDE DEF n, p
    <3> QED BY <2>3, <3>1, <3>2
  <2>6. UNCHANGED <<stream, grown, starts, made>>
    BY <1>4 DEF ChangeTable
  <2>7. DataInv'
    BY <1>1, <2>4, <2>5, <2>6 DEF DataInv
  <2> QED BY <2>2, <2>7 DEF LocksInv
<1>5. CASE Loop(g)
  <2>1. ScriptsInv'
    BY <1>5, LoopKeeps
  <2>2. DataInv'
    BY <1>1, <1>5 DEF Loop, DataInv
  <2> QED BY <2>1, <2>2 DEF LocksInv
<1>6. CASE SendMessage(g)
  <2> DEFINE l == <<g[1], i.to>>
  <2>1. ~Idle(g) /\ i.do \in {"send", "sendnext"}
    BY <1>6 DEF SendMessage, Does
  <2>2. ScriptsInv'
    BY <1>1, <1>6, <2>1, PlainStepKeeps DEF SendMessage
  <2>3. l \in Link /\ i.type \in MessageType
    <3>1. i # Read("peers")
      BY <2>1 DEF Read
    <3>2. Legal(g, TRUE, i, HeldIn(g, writers, readers, <<>>))
      BY <1>1, <2>1, <3>1, DoesLegally
    <3>3. i \in Instruction
      BY <1>1, <2>1, ScriptOf
    <3> QED BY <2>1, <3>2, <3>3, InstructionIs DEF Legal
  <2>4. ~Full(l) /\ stream' = [stream EXCEPT ![l] = Append(@, i.type)]
    BY <1>6 DEF SendMessage
  <2> HIDE DEF l
  <2>5. /\ stream' \in [Link -> Seq(MessageType)]
        /\ \A k \in Link : Len(stream'[k]) <= Capacity
    BY <1>1, <2>3, <2>4, StreamsKept
  <2>6. UNCHANGED <<table, reader, grown, starts, made>>
    BY <1>6 DEF SendMessage
  <2>7. DataInv'
    BY <1>1, <2>5, <2>6 DEF DataInv
  <2> QED BY <2>2, <2>7 DEF LocksInv
<1> QED BY <1>2, <1>3, <1>4, <1>5, <1>6 DEF Step

LEMMA NextKeepsLocks ==
  LocksInv /\ [Next]_vars => LocksInv'
<1> SUFFICES ASSUME LocksInv, [Next]_vars PROVE LocksInv'
  OBVIOUS
<1>1. ScriptsInv /\ DataInv
  BY DEF LocksInv
<1>2. ASSUME NEW g \in Goroutine, Step(g) PROVE LocksInv'
  BY <1>2, StepKeepsLocks
<1>3. ASSUME NEW l \in Link, Receive(l[1], l[2]) PROVE LocksInv'
  <2> DEFINE k == <<l[2], l[1]>>
  <2>1. l = <<l[1], l[2]>> /\ l \in Goroutine /\ k \in Link
    BY GoroutineEnds
  <2>2. stream[k] # <<>> /\ stream' = [stream EXCEPT ![k] = Tail(@)]
        /\ UNCHANGED <<writers, readers, table, reader, starts, made>>
    BY <1>3 DEF Receive
  <2>3. PICK s \in Handle(l[1], l[2], Head(stream[k])) : Begin(<<l[1], l[2]>>, s)
    BY <1>3 DEF Receive
  <2> HIDE DEF k
  <2>4. /\ stream' \in [Link -> Seq(MessageType)]
        /\ \A j \in Link : Len(stream'[j]) <= Capacity
        /\ Head(stream[k]) \in MessageType
    BY <1>1, <2>1, <2>2, StreamsKept
  <2>5. Begin(l, s) /\ Startable(l, s)
    BY <2>1, <2>3, <2>4, StartableWork
  <2>6. ScriptsInv'
    BY <1>1, <2>1, <2>2, <2>5, BeginKeeps
  <2>7. grown' \in [Node -> 0 .. MaxBlocks]
    BY <1>1, <2>1, <2>5, BeginTyped
  <2>8. DataInv'
    BY <1>1, <2>2, <2>4, <2>7 DEF DataInv
  <2> QED BY <2>6, <2>8 DEF LocksInv
<1>4. ASSUME NEW l \in Link, GiveUp(l[1], l[2]) PROVE LocksInv'
  <2>1. l = <<l[1], l[2]>> /\ l \in Goroutine
    BY GoroutineEnds
  <2>2. /\ Begin(l, Deregister(l[2])) /\ Startable(l, Deregister(l[2]))
        /\ reader' = [reader EXCEPT ![l] = FALSE]
        /\ UNCHANGED <<writers, readers, stream, table, starts, made>>
    BY <1>4, <2>1, StartableWork DEF GiveUp
  <2>3. ScriptsInv'
    BY <1>1, <2>1, <2>2, BeginKeeps
  <2>4. grown' \in [Node -> 0 .. MaxBlocks]
    BY <1>1, <2>1, <2>2, BeginTyped
  <2>5. DataInv'
    BY <1>1, <2>2, <2>4 DEF DataInv
  <2> QED BY <2>3, <2>5 DEF LocksInv
<1>5. ASSUME NEW g \in Acceptor, Connect(g) PROVE LocksInv'
  <2>1. g \in Goroutine
    BY GoroutineEnds
  <2>2. /\ Begin(g, HandleStream(g[2])) /\ Startable(g, HandleStream(g[2]))
        /\ made' = made \union {g}
        /\ UNCHANGED <<writers, readers, stream, table, reader, starts>>
    BY <1>5, StartableWork DEF Connect
  <2>3. ScriptsInv'
    BY <1>1, <2>1, <2>2, BeginKeeps
  <2>4. grown' \in [Node -> 0 .. MaxBlocks]
    BY <1>1, <2>1, <2>2, BeginTyped
  <2>5. DataInv'
    BY <1>1, <2>2, <2>4 DEF DataInv
  <2> QED BY <2>3, <2>5 DEF LocksInv
<1>6. ASSUME NEW t \in Task, StartTask(t) PROVE LocksInv'
  <2>1. t \in Goroutine
    BY GoroutineEnds
  <2>2. PICK s \in Work(t[1], t[2]) : Begin(t, s)
    BY <1>6 DEF StartTask
  <2>3. Startable(t, s)
    BY StartableWork
  <2>4. /\ starts < MaxStarts /\ starts' = starts + 1
        /\ UNCHANGED <<writers, readers, stream, table, reader, made>>
    BY <1>6 DEF StartTask
  <2>5. ScriptsInv'
    BY <1>1, <2>1, <2>2, <2>3, <2>4, BeginKeeps
  <2>6. grown' \in [Node -> 0 .. MaxBlocks]
    BY <1>1, <2>1, <2>2, <2>3, BeginTyped
  <2>7. starts' \in 0 .. MaxStarts
    <3>1. starts \in 0 .. MaxStarts /\ MaxStarts \in Nat
      BY <1>1, LocksAssumption DEF DataInv
    <3> QED BY <2>4, <3>1
  <2>8. DataInv'
    BY <1>1, <2>4, <2>6, <2>7 DEF DataInv
  <2> QED BY <2>5, <2>8 DEF LocksInv
<1>7. CASE UNCHANGED vars
  BY <1>7 DEF vars, LocksInv, ScriptsInv, DataInv, LockTypes, LocksKept
<1> QED BY <1>2, <1>3, <1>4, <1>5, <1>6, <1>7 DEF Next

\* Every reachable state of the locks, scripts and streams is well typed; a
\* lock has at most one writer, of its own node, and no stream overflows.
THEOREM TypeCorrect == Spec => []TypeOK
<1>1. LocksInv => TypeOK
  BY DEF LocksInv, ScriptsInv, DataInv, LockTypes, LocksKept, TypeOK, Lockable
<1> QED BY <1>1, InitLocks, NextKeepsLocks, PTL DEF Spec

-----------------------------------------------------------------------------
(***************************************************************************)
(* Nobody waits in a circle                                                *)
(***************************************************************************)
\* Grows along a chain of goroutines that wait for each other: by the rank of
\* the lock, and by one where a writer that has announced itself waits.
Wait(g) ==
  2 * Rank(Upcoming(g).on) + (IF Upcoming(g).do = "drain" THEN 1 ELSE 0)

LEMMA WaitingAsks ==
  ASSUME ScriptsInv, NEW g \in Waiting
  PROVE  /\ g \in Goroutine /\ ~Idle(g)
         /\ Upcoming(g).do \in {"lock", "drain", "rlock"}
         /\ Upcoming(g).on \in Mutex /\ <<g[1], Upcoming(g).on>> \in Lockable
         /\ Upcoming(g).do = "drain" => Upcoming(g) = Drain(Upcoming(g).on)
         /\ \A x \in HeldIn(g, writers, readers, script[g]) :
              Rank(x.on) < Rank(Upcoming(g).on)
         /\ Wait(g) \in 2 .. 5
<1>1. g \in Goroutine /\ ~Idle(g) /\ Upcoming(g).do \in {"lock", "drain", "rlock"}
  BY DEF Waiting, Blockers
<1> DEFINE i == Upcoming(g)
           H == HeldIn(g, writers, readers, script[g])
           asked == IF i.do = "rlock" THEN RLock(i.on) ELSE Lock(i.on)
<1>2. /\ i.on \in Mutex /\ <<g[1], i.on>> \in Lockable
      /\ i.do = "drain" => i = Drain(i.on)
      /\ Legal(g, TRUE, asked, H)
  BY <1>1, AsksLegally
<1>3. asked.do \in {"lock", "rlock"} /\ asked.on = i.on
  BY DEF Lock, RLock
<1> HIDE DEF H, asked
<1>4. \A x \in H : Rank(x.on) < Rank(i.on)
  BY <1>2, <1>3 DEF Legal
<1>5. Wait(g) \in 2 .. 5
  BY DEF Wait, Rank
<1> QED BY <1>1, <1>2, <1>4, <1>5 DEF H

\* Whoever g waits for has the lock, or has announced itself at it, and is a
\* goroutine of the same node.
LEMMA BlockerHolds ==
  ASSUME ScriptsInv, NEW g \in Waiting, NEW h \in Blockers(g)
  PROVE  LET m == Upcoming(g).on IN
         /\ h \in Goroutine /\ h[1] = g[1]
         /\ \/ Unlock(m) \in HeldIn(h, writers, readers, script[h])
            \/ RUnlock(m) \in HeldIn(h, writers, readers, script[h])
            \/ Upcoming(g).do # "drain" /\ DrainsOf(script[h], m)
<1> DEFINE m == Upcoming(g).on
           lock == <<g[1], m>>
<1>1. /\ lock \in Lockable /\ m \in Mutex /\ lock[1] = g[1]
      /\ Upcoming(g).do \in {"lock", "drain", "rlock"} /\ ~Idle(g)
  BY WaitingAsks
<1>2. LockTypes /\ LocksKept
  BY DEF ScriptsInv
<1>3. \/ Upcoming(g).do # "drain" /\ h \in writers[lock]
      \/ h \in readers[lock]
  BY <1>1 DEF Blockers
<1>4. h \in Goroutine /\ h[1] = g[1]
  BY <1>1, <1>2, <1>3 DEF LockTypes, LocksKept
<1>5. /\ Unlock(m) \in Release /\ Unlock(m).do = "unlock" /\ Unlock(m).on = m
      /\ RUnlock(m) \in Release /\ RUnlock(m).do # "unlock" /\ RUnlock(m).on = m
  BY <1>1, InstructionsTyped DEF Unlock, RUnlock
<1>6. CASE Upcoming(g).do # "drain" /\ h \in writers[lock]
  BY <1>4, <1>5, <1>6 DEF HeldIn
<1>7. CASE h \in readers[lock]
  BY <1>4, <1>5, <1>7 DEF HeldIn
<1> QED BY <1>3, <1>4, <1>6, <1>7

LEMMA WaitsGrow ==
  ASSUME ScriptsInv, NEW g \in Waiting, NEW h \in Waiting, h \in Blockers(g)
  PROVE  Wait(g) < Wait(h)
<1> DEFINE m == Upcoming(g).on
           k == Upcoming(h).on
           H == HeldIn(h, writers, readers, script[h])
<1>1. /\ m \in Mutex /\ k \in Mutex
      /\ \A x \in H : Rank(x.on) < Rank(k)
  BY WaitingAsks
<1>2. Rank(m) \in Int /\ Rank(k) \in Int
  BY DEF Rank
<1>3. CASE Unlock(m) \in H \/ RUnlock(m) \in H
  <2>1. Unlock(m).on = m /\ RUnlock(m).on = m
    BY DEF Unlock, RUnlock
  <2>2. Rank(m) < Rank(k)
    <3> HIDE DEF H, m, k
    <3> QED BY <1>1, <1>3, <2>1
  <2> HIDE DEF m, k
  <2>3. 2 * Rank(m) + 1 < 2 * Rank(k)
    BY <1>2, <2>2
  <2> QED BY <1>2, <2>3 DEF Wait, m, k
<1>4. CASE Upcoming(g).do # "drain" /\ DrainsOf(script[h], m)
  <2>1. Upcoming(h) = Drain(m)
    BY <1>4 DEF DrainsOf, Upcoming
  <2>2. Upcoming(h).do = "drain" /\ k = m
    BY <2>1 DEF Drain
  <2> QED BY <1>2, <1>4, <2>2 DEF Wait
<1> QED BY <1>3, <1>4, BlockerHolds

LEMMA LocksOrdered ==
  ASSUME ScriptsInv
  PROVE  NoLockCycle
<1> SUFFICES ASSUME NEW S \in SUBSET Waiting, S # {}
             PROVE  \E g \in S : Blockers(g) \intersect S = {}
  BY DEF NoLockCycle
<1> DEFINE D == {5 - Wait(g) : g \in S}
<1>1. \A g \in S : Wait(g) \in 2 .. 5
  BY WaitingAsks
<1>2. D \subseteq Nat /\ D # {}
  BY <1>1
<1>3. PICK d \in D : \A x \in D : d <= x
  <2> HIDE DEF D
  <2> QED BY <1>2, LeastNumber
<1>4. PICK g \in S : d = 5 - Wait(g)
  BY <1>3
<1>5. ASSUME NEW h \in Blockers(g) \intersect S PROVE FALSE
  <2>1. Wait(g) < Wait(h)
    BY WaitsGrow
  <2>2. 5 - Wait(h) \in D
    OBVIOUS
  <2>3. 5 - Wait(g) <= 5 - Wait(h)
    BY <1>3, <1>4, <2>2
  <2> QED BY <1>1, <2>1, <2>3
<1> QED BY <1>5

\* In any node, whatever its goroutines do, some goroutine of those that wait
\* for locks waits only for one that can go on.
THEOREM NeverACircle == Spec => []NoLockCycle
<1>1. LocksInv => NoLockCycle
  BY LocksOrdered DEF LocksInv
<1> QED BY <1>1, InitLocks, NextKeepsLocks, PTL DEF Spec

-----------------------------------------------------------------------------
(***************************************************************************)
(* Shared data is looked at and changed under its lock                     *)
(***************************************************************************)
LEMMA ChangesLocked ==
  ASSUME ScriptsInv, NEW data \in {"chain", "processed", "peers"},
         NEW g \in Goroutine, Changes(g, data)
  PROVE  LET lock == <<g[1], Guard(data)>> IN
         lock \in Lockable /\ writers[lock] = {g} /\ readers[lock] = {}
<1> DEFINE i == Upcoming(g)
           H == HeldIn(g, writers, readers, <<>>)
           m == Guard(data)
           lock == <<g[1], m>>
<1>1. /\ ~Idle(g) /\ i.do \in {"write", "join", "leave"}
      /\ i.do = "write" => i.on = data
      /\ i.do # "write" => data = "peers"
  BY DEF Changes, Does
<1>2. Legal(g, TRUE, i, H) /\ \A k : ~DrainsOf(script[g], k)
  <2>1. i # Read("peers")
    BY <1>1 DEF Read
  <2> QED BY <1>1, <2>1, DoesLegally
<1>3. Unlock(m) \in H
  BY <1>1, <1>2, Ranks DEF Legal
<1>4. lock \in Lockable /\ lock[2] = m
  BY InstructionsTyped, GoroutineEnds
<1>5. g \in writers[lock]
  <2>1. Unlock(m).do = "unlock" /\ Unlock(m).on = m
    BY DEF Unlock
  <2> HIDE DEF m
  <2> QED BY <1>3, <2>1 DEF HeldIn
<1> HIDE DEF lock, m
<1>6. readers[lock] = {} /\ \A h \in writers[lock] : h = g
  BY <1>2, <1>4, <1>5 DEF ScriptsInv, LocksKept
<1> QED BY <1>4, <1>5, <1>6 DEF lock, m

\* Who looks at shared data has its lock, but for the two exceptions.
LEMMA LooksLocked ==
  ASSUME ScriptsInv, NEW data \in {"chain", "processed", "peers"},
         NEW h \in Goroutine, Looks(h, data)
  PROVE  LET lock == <<h[1], Guard(data)>> IN
         \/ h \in writers[lock] \/ h \in readers[lock]
         \/ HandlesGetPeers(h) \/ CountsPeers(h)
<1> DEFINE i == Upcoming(h)
           H == HeldIn(h, writers, readers, script[h])
           m == Guard(data)
           lock == <<h[1], m>>
<1>1. /\ ~Idle(h) /\ i.do \in {"read", "sendnext"}
      /\ i.do = "read" => i.on = data
      /\ i.do # "read" => data = "peers"
  BY DEF Looks, Does
<1>2. Sound(h, writers, readers, script[h])
  BY DEF ScriptsInv
<1>3. CASE h \in Link /\ script[h] = LookUp(h[2])
  <2>1. Tail(script[h]) = <<Send(h[2], "peers")>>
    BY <1>3 DEF LookUp
  <2> QED BY <1>1, <1>3, <2>1 DEF HandlesGetPeers
<1>4. CASE Runs(h, TRUE, Plan(script[h]), H, {})
  <2>1. script[h] # <<>> /\ Head(script[h]) = i
    BY <1>1, ScriptOf DEF ScriptsInv
  <2>2. Plan(script[h]) = script[h]
    BY <1>1, <2>1 DEF Plan
  <2> HIDE DEF H
  <2>3. Legal(h, TRUE, i, H)
    BY <1>4, <2>1, <2>2, RunsTail
  <2>4. CASE Unlock(m) \in H \/ RUnlock(m) \in H
    <3>1. /\ Unlock(m).do = "unlock" /\ Unlock(m).on = m
          /\ RUnlock(m).do # "unlock" /\ RUnlock(m).on = m
      BY DEF Unlock, RUnlock
    <3> HIDE DEF m
    <3>2. h \in writers[lock] \/ h \in readers[lock]
      BY <2>4, <3>1 DEF HeldIn, H
    <3> QED BY <3>2 DEF m
  <2>5. CASE i.do = "read" /\ i.on = "peers" /\ h[2] = "discovery"
    BY <1>1, <2>5 DEF CountsPeers, Does
  <2>6. i.do = "sendnext" => RUnlock(m) \in H
    BY <1>1, <2>3, Ranks DEF Legal
  <2> QED BY <1>1, <2>3, <2>4, <2>5, <2>6 DEF Legal
<1> QED BY <1>2, <1>3, <1>4 DEF Sound

LEMMA LocksProtect ==
  ASSUME ScriptsInv
  PROVE  OnlyPeerLookupsRace
<1> SUFFICES ASSUME NEW data \in {"chain", "processed", "peers"},
                    NEW g \in Changing(data), NEW h \in Goroutine \ {g},
                    h[1] = g[1], Looks(h, data) \/ Changes(h, data)
             PROVE  HandlesGetPeers(h) \/ CountsPeers(h)
  BY DEF OnlyPeerLookupsRace
<1> DEFINE lock == <<g[1], Guard(data)>>
<1>1. g \in Goroutine /\ Changes(g, data)
  BY DEF Changing
<1>2. writers[lock] = {g} /\ readers[lock] = {} /\ <<h[1], Guard(data)>> = lock
  BY <1>1, ChangesLocked
<1> HIDE DEF lock
<1>3. CASE Looks(h, data)
  BY <1>2, <1>3, LooksLocked
<1>4. CASE Changes(h, data)
  <2>1. writers[lock] = {h}
    BY <1>2, <1>4, ChangesLocked
  <2> QED BY <1>2, <2>1
<1> QED BY <1>3, <1>4

\* In any network the chain, processedBlocks and s.peers are never changed
\* while another goroutine looks at them, but for the handler of MsgGetPeers
\* and the count of periodicPeerDiscovery.
THEOREM OnlyLookupsEverRace == Spec => []OnlyPeerLookupsRace
<1>1. LocksInv => OnlyPeerLookupsRace
  BY LocksProtect DEF LocksInv
<1> QED BY <1>1, InitLocks, NextKeepsLocks, PTL DEF Spec

-----------------------------------------------------------------------------
(***************************************************************************)
(* Nodes halt only in a jam                                                *)
(***************************************************************************)
\* Who has a lock, or has announced itself, has something left to do.
LEMMA HolderBusy ==
  ASSUME ScriptsInv, NEW g \in Waiting, NEW h \in Blockers(g)
  PROVE  h \in Goroutine /\ h[1] = g[1] /\ ~Idle(h)
<1>1. h \in Goroutine /\ h[1] = g[1]
  BY BlockerHolds
<1>2. ASSUME Idle(h) PROVE FALSE
  <2>1. script[h] = <<>> /\ HeldIn(h, writers, readers, script[h]) = {}
    BY <1>1, <1>2, IdleHoldsNothing DEF Idle
  <2>2. \A m : ~DrainsOf(script[h], m)
    BY <2>1 DEF DrainsOf
  <2> QED BY <2>1, <2>2, BlockerHolds
<1> QED BY <1>1, <1>2

\* Where somebody is stuck, somebody of the same node is stuck in a write.
LEMMA StuckWrites ==
  ASSUME ScriptsInv, Halted, NEW g \in Goroutine, Stuck(g)
  PROVE  \E l \in Link : l[1] = g[1] /\ Full(l)
<1>1. ASSUME NEW h \in Goroutine, Stuck(h), Blockers(h) = {}
      PROVE  \E l \in Link : l[1] = h[1] /\ Full(l)
  <2> DEFINE i == Upcoming(h)
             l == <<h[1], i.to>>
  <2>1. ~Idle(h) /\ i.do \in {"send", "sendnext"} /\ Full(l)
    BY <1>1 DEF Stuck, Does
  <2>2. Legal(h, TRUE, i, HeldIn(h, writers, readers, <<>>))
    <3>1. i # Read("peers")
      BY <2>1 DEF Read
    <3> QED BY <2>1, <3>1, DoesLegally
  <2>3. l \in Link /\ l[1] = h[1]
    BY <2>1, <2>2 DEF Legal
  <2> QED BY <2>1, <2>3
<1>2. CASE Blockers(g) = {}
  BY <1>1, <1>2
<1>3. CASE Blockers(g) # {}
  <2> DEFINE W == {h \in Waiting : h[1] = g[1]}
  <2>1. g \in W
    BY <1>3 DEF Waiting
  <2>2. W \in SUBSET Waiting /\ W # {}
    BY <2>1
  <2> HIDE DEF W
  <2>3. PICK h \in W : Blockers(h) \intersect W = {}
    BY <2>2, LocksOrdered DEF NoLockCycle
  <2>4. h \in Waiting /\ h[1] = g[1] /\ Blockers(h) # {}
    BY <2>3 DEF W, Waiting
  <2>5. PICK b \in Blockers(h) : TRUE
    BY <2>4
  <2>6. b \in Goroutine /\ b[1] = g[1] /\ ~Idle(b)
    BY <2>4, HolderBusy
  <2>7. Blockers(b) = {}
    BY <2>3, <2>5, <2>6 DEF W, Waiting
  <2>8. Stuck(b)
    BY <2>6 DEF Halted
  <2> QED BY <1>1, <2>6, <2>7, <2>8
<1> QED BY <1>2, <1>3

LEMMA HaltIsAJam ==
  ASSUME LocksInv
  PROVE  HaltsOnlyInAJam
<1> SUFFICES ASSUME Halted PROVE \E S \in SUBSET Link : Jam(S)
  BY DEF HaltsOnlyInAJam
<1>1. ScriptsInv
  BY DEF LocksInv
<1> DEFINE S == {l \in Link : Full(l)}
<1>2. S # {}
  <2>1. PICK g \in Goroutine : Stuck(g)
    BY DEF Halted
  <2> QED BY <1>1, <2>1, StuckWrites
<1>3. ASSUME NEW l \in S
      PROVE  Full(l) /\ (~reader[<<l[2], l[1]>>] \/ \E k \in S : k[1] = l[2])
  <2> DEFINE back == <<l[2], l[1]>>
  <2>1. /\ l \in Link /\ Full(l) /\ l = <<l[1], l[2]>>
        /\ back \in Link /\ back \in Goroutine /\ back[1] = l[2] /\ back[2] = l[1]
    BY GoroutineEnds
  <2>2. stream[l] # <<>>
    <3>1. Capacity # 0
      BY LocksAssumption
    <3> QED BY <2>1, <3>1 DEF Full
  <2>3. CASE ~reader[back]
    BY <2>1, <2>3
  <2>4. CASE reader[back]
    <3> HIDE DEF back
    <3>1. ~Idle(back)
      BY <2>1, <2>2, <2>4 DEF Halted
    <3>2. Stuck(back)
      BY <2>1, <3>1 DEF Halted
    <3>3. PICK k \in Link : k[1] = back[1] /\ Full(k)
      BY <1>1, <2>1, <3>2, StuckWrites
    <3> QED BY <2>1, <3>3
  <2> QED BY <2>3, <2>4
<1>4. Jam(S)
  BY <1>2, <1>3 DEF Jam
<1> QED BY <1>4

\* Nodes of any network come to a halt only where streams are full that nobody
\* reads any more, or that form a circle of nodes each of which writes before
\* it reads on.
THEOREM HaltsAreJams == Spec => []HaltsOnlyInAJam
BY HaltIsAJam, InitLocks, NextKeepsLocks, PTL DEF Spec
=============================================================================
