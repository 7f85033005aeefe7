------------------------------ MODULE NodeLocks ------------------------------
(***************************************************************************)
(* The locks of a node and the goroutines that take them: bc.mu, and       *)
(* processedMutex and peerMutex of the server.  Streams hold a limited     *)
(* number of messages, and a write to a full one waits.                    *)
(*                                                                         *)
(* What a goroutine does between two waits for work is a script: the locks *)
(* it takes and gives back, the shared data it looks at or changes, the    *)
(* messages it writes.  Where the code branches on data there is a script  *)
(* for each branch.  Only the types of messages are modelled.  A sync.     *)
(* RWMutex lets no reader in once a writer has announced itself; the       *)
(* writer then waits until the readers are gone.                           *)
(***************************************************************************)
EXTENDS Integers, SequencesExt

CONSTANTS
  Node,
  Link,       \* <<n, p>> and <<p, n>> are the two ends of a connection
  Task,       \* <<n, kind>>: the goroutines of n that no connection starts
  Established,\* whether the handshakes are over when the model starts
  MayGiveUp,  \* the ends whose reader may find what it cannot decode
  \* Bounds of the instance: messages a stream holds, how often tasks start,
  \* blocks a node appends, blocks that one getdata names.  A connection is
  \* made once.
  Capacity, MaxStarts, MaxBlocks, MaxServed

\* What runs besides the goroutines of connections: commands, maintenance
\* loops, and the daemon's last Save.
Kind == {"add", "getblocks", "getpeers", "findblock", "discovery", "sync",
         "stats", "cleanup", "save", "validation"}

Neighbours(n) == {p \in Node : <<n, p>> \in Link}

ASSUME LocksAssumption ==
  /\ Link \subseteq Node \X Node
  /\ \A l \in Link : l[1] # l[2] /\ <<l[2], l[1]>> \in Link
  /\ \A n \in Node : IsFiniteSet(Neighbours(n))
  /\ Task \subseteq Node \X Kind
  /\ Established \in BOOLEAN /\ MayGiveUp \subseteq Link
  /\ Capacity \in Nat \ {0}
  /\ {MaxStarts, MaxBlocks, MaxServed} \subseteq Nat

VARIABLES
  script,   \* script[g]: what g has left to do; <<>>: it waits for work
  writers,  \* writers[<<n, m>>]: the goroutine that announced itself or holds m
  readers,  \* readers[<<n, m>>]: the goroutines that hold m for reading
  stream,   \* stream[<<n, p>>]: written by n, not yet read by p
  table,    \* table[n]: the keys of s.peers
  reader,   \* reader[<<n, p>>]: whether n's readMessages for p runs
  grown,    \* grown[n]: blocks appended at n
  starts,   \* how often tasks have started
  made      \* the ends of connections whose handleStream has been called

vars == <<script, writers, readers, stream, table, reader, grown, starts,
          made>>

Mutex == {"mu", "processedMutex", "peerMutex"}
Acceptor == {<<l[1], l[2], "handleStream">> : l \in Link}
Goroutine == Link \union Acceptor \union Task
MessageType == {"version", "verack", "getblocks", "inv", "getdata", "block",
                "getpeers", "peers", "findblock", "blockfound"}
-----------------------------------------------------------------------------
(***************************************************************************)
(* Scripts                                                                 *)
(***************************************************************************)
Lock(m) == [do |-> "lock", on |-> m]
\* Announced, while there are readers.
Drain(m) == [do |-> "drain", on |-> m]
RLock(m) == [do |-> "rlock", on |-> m]
Unlock(m) == [do |-> "unlock", on |-> m]
RUnlock(m) == [do |-> "runlock", on |-> m]
Read(data) == [do |-> "read", on |-> data]
Write(data) == [do |-> "write", on |-> data]
Join(p) == [do |-> "join", peer |-> p]
Leave(p) == [do |-> "leave", peer |-> p]
Send(p, type) == [do |-> "send", to |-> p, type |-> type]
SendAll(type) == [do |-> "sendall", type |-> type]
\* One turn of a loop over s.peers.
SendNext(p, type) == [do |-> "sendnext", to |-> p, type |-> type]

Instruction ==
  [do : {"lock", "drain", "rlock", "unlock", "runlock"}, on : Mutex]
    \union [do : {"read", "write"}, on : {"chain", "processed", "peers"}]
    \union [do : {"join", "leave"}, peer : Node]
    \union [do : {"send", "sendnext"}, to : Node, type : MessageType]
    \union [do : {"sendall"}, type : MessageType]

Locked(m, body) == <<Lock(m)>> \o body \o <<Unlock(m)>>
RLocked(m, body) == <<RLock(m)>> \o body \o <<RUnlock(m)>>

ReadChain == RLocked("mu", <<Read("chain")>>)

ToPeers(type) == RLocked("peerMutex", <<SendAll(type)>>)

\* BroadcastBlock
Broadcast ==
  Locked("processedMutex", <<Write("processed")>>) \o ToPeers("block")

\* A refuted variant: processedMutex is kept while the block is sent.
CallbackHolding ==
  {Locked("processedMutex", <<Read("processed")>>),
   Locked("processedMutex", <<Write("processed")>> \o Broadcast)}

\* The callback of NewServer, for a hash that is entered and one that is not.
Callback ==
  {Locked("processedMutex", <<Read("processed")>>),
   Locked("processedMutex", <<Write("processed")>>) \o Broadcast}

\* A refuted variant: returns without giving the lock back.
RefusedKeeping == <<Lock("mu"), Read("chain")>>
Refused == Locked("mu", <<Read("chain")>>)

\* A refuted variant: the callback asks the chain, which is locked, for its head.
AppendedReading ==
  {Locked("mu", <<Write("chain")>> \o ReadChain \o callback) :
     callback \in Callback}
Appended ==
  {Locked("mu", <<Write("chain")>> \o callback) : callback \in Callback}

\* ProcessBlock and AddBlock at n.
Process(n) == {Refused} \union (IF grown[n] < MaxBlocks THEN Appended ELSE {})

\* A refuted variant: a type that no handler knows.
ServeInOne(p, found) == ReadChain \o <<Send(p, "blocks")>>

\* found[k]: whether n has the k-th of the blocks asked for.
ServeBlocks(p, found) ==
  FlattenSeq([k \in 1 .. Len(found) |->
    ReadChain \o (IF found[k] THEN <<Send(p, "block")>> ELSE <<>>)])

IsHandled == RLocked("processedMutex", <<Read("processed")>>)
Enter == Locked("processedMutex", <<Write("processed")>>)

\* OnBlockReceived, which reads the length of the chain in sbcd, and ProcessBlock.
ReceiveBlock(n) ==
  Process(n) \union {ReadChain \o process : process \in Process(n)}

\* What the handler of n may do with a message from p.
Handle(n, p, type) ==
  CASE type = "version" -> {<<Send(p, "verack")>>}
    [] type = "verack" ->
         {ReadChain \o <<Send(p, "getpeers")>>,
          ReadChain \o ReadChain
            \o <<Send(p, "getblocks"), Send(p, "getpeers")>>}
    [] type = "block" ->
         {IsHandled}
           \union {IsHandled \o handling \o Enter :
                      handling \in ReceiveBlock(n)}
    [] type = "getblocks" -> {ReadChain, ReadChain \o <<Send(p, "inv")>>}
    [] type = "inv" -> {IsHandled, IsHandled \o <<Send(p, "getdata")>>}
    [] type = "getdata" -> {ServeBlocks(p, found) : found \in SeqOf(BOOLEAN, MaxServed)}
    [] type = "getpeers" -> {<<Read("peers"), Send(p, "peers")>>}
    [] type = "peers" -> {<<>>}
    [] type = "findblock" -> {ReadChain \o <<Send(p, "blockfound")>>}
    [] type = "blockfound" -> {<<>>} \union Process(n)

\* A refuted variant: the table is changed without the lock.
DeregisterUnlocked(p) == <<Leave(p)>>

\* The end of readMessages.
Deregister(p) == Locked("peerMutex", <<Leave(p)>>)

HandleStream(p) ==
  Locked("peerMutex", <<Join(p)>>) \o ReadChain \o <<Send(p, "version")>>

GetPeers == RLocked("peerMutex", <<Read("peers")>>)

SyncTask ==
  {GetPeers, GetPeers \o ReadChain,
   GetPeers \o ReadChain \o ReadChain \o ToPeers("getblocks")}

\* periodicPeerDiscovery, which counts s.peers unlocked.
Discover ==
  {<<Read("peers")>>, <<Read("peers"), Read("peers")>> \o ToPeers("getpeers")}

\* What a task of n does when it is started.
Work(n, what) ==
  CASE what = "add" -> Process(n)
    [] what \in {"getblocks", "getpeers", "findblock"} -> {ToPeers(what)}
    [] what = "discovery" -> Discover
    [] what = "sync" -> SyncTask
    [] what = "stats" -> {GetPeers \o ReadChain \o ReadChain}
    [] what = "cleanup" -> {Enter}
    [] what \in {"save", "validation"} -> {ReadChain}

Appends(s) == \E k \in 1 .. Len(s) : s[k] = Write("chain")
-----------------------------------------------------------------------------
TypeOK ==
  /\ script \in [Goroutine -> Seq(Instruction)]
  /\ writers \in [Node \X Mutex -> SUBSET Goroutine]
  /\ readers \in [Node \X Mutex -> SUBSET Goroutine]
  /\ \A lock \in Node \X Mutex :
       \A g, h \in writers[lock] : g = h /\ g[1] = lock[1]
  /\ stream \in [Link -> Seq(MessageType)]
  /\ \A l \in Link : Len(stream[l]) <= Capacity
  /\ table \in [Node -> SUBSET Node]
  /\ reader \in [Link -> BOOLEAN]
  /\ grown \in [Node -> 0 .. MaxBlocks]
  /\ starts \in 0 .. MaxStarts
  /\ made \subseteq Acceptor

Init ==
  /\ script = [g \in Goroutine |-> <<>>]
  /\ writers = [lock \in Node \X Mutex |-> {}]
  /\ readers = [lock \in Node \X Mutex |-> {}]
  /\ stream = [l \in Link |-> <<>>]
  /\ table = [n \in Node |->
                IF Established THEN Neighbours(n) ELSE {}]
  /\ reader = [l \in Link |-> Established]
  /\ grown = [n \in Node |-> 0]
  /\ starts = 0 /\ made = {}
-----------------------------------------------------------------------------
(***************************************************************************)
(* Steps                                                                   *)
(***************************************************************************)
Idle(g) == script[g] = <<>>

\* What g does next.
Upcoming(g) == Head(script[g])
Does(g, what) == ~Idle(g) /\ Upcoming(g).do = what

Full(l) == Len(stream[l]) = Capacity

\* The goroutines that keep g from the lock it asks for.
Blockers(g) ==
  IF Idle(g) THEN {}
  ELSE LET lock == <<g[1], Upcoming(g).on>> IN
       CASE Upcoming(g).do \in {"lock", "rlock"} -> writers[lock]
         [] Upcoming(g).do = "drain" -> readers[lock]
         [] OTHER -> {}

Begin(g, s) ==
  /\ Idle(g)
  /\ script' = [script EXCEPT ![g] = s]
  /\ grown' = [grown EXCEPT ![g[1]] = @ + (IF Appends(s) THEN 1 ELSE 0)]

StartTask(t) ==
  /\ starts < MaxStarts
  /\ starts' = starts + 1
  /\ \E s \in Work(t[1], t[2]) : Begin(t, s)
  /\ UNCHANGED <<writers, readers, stream, table, reader, made>>

Connect(g) ==
  /\ ~Established /\ g \notin made
  /\ made' = made \union {g}
  /\ Begin(g, HandleStream(g[2]))
  /\ UNCHANGED <<writers, readers, stream, table, reader, starts>>

\* readMessages takes a message and handles it.
Receive(n, p) ==
  /\ reader[<<n, p>>] /\ stream[<<p, n>>] # <<>>
  /\ \E s \in Handle(n, p, Head(stream[<<p, n>>])) : Begin(<<n, p>>, s)
  /\ stream' = [stream EXCEPT ![<<p, n>>] = Tail(@)]
  /\ UNCHANGED <<writers, readers, table, reader, starts, made>>

GiveUp(n, p) ==
  /\ <<n, p>> \in MayGiveUp
  /\ reader[<<n, p>>] /\ stream[<<p, n>>] # <<>>
  /\ Begin(<<n, p>>, Deregister(p))
  /\ reader' = [reader EXCEPT ![<<n, p>>] = FALSE]
  /\ UNCHANGED <<writers, readers, stream, table, starts, made>>

\* g goes on.  To give a lock back it never waits, so that is part of the step
\* before.  w and r: who has the locks before that.
Advance(g, w, r) ==
  LET s == script[g]
      next == Min({k \in 2 .. Len(s) + 1 :
                     k <= Len(s) => s[k].do \notin {"unlock", "runlock"}})
      GivesBack(i) == \E k \in 2 .. next - 1 : s[k] = i
  IN
  /\ script' = [script EXCEPT ![g] = SubSeq(s, next, Len(s))]
  /\ writers' = [lock \in Node \X Mutex |->
                   IF lock[1] = g[1] /\ GivesBack(Unlock(lock[2]))
                   THEN w[lock] \ {g} ELSE w[lock]]
  /\ readers' = [lock \in Node \X Mutex |->
                   IF lock[1] = g[1] /\ GivesBack(RUnlock(lock[2]))
                   THEN r[lock] \ {g} ELSE r[lock]]

Acquire(g) ==
  /\ ~Idle(g) /\ Blockers(g) = {}
  /\ LET i == Upcoming(g) lock == <<g[1], i.on>> IN
     \/ /\ i.do = "lock" /\ readers[lock] = {}
        /\ Advance(g, [writers EXCEPT ![lock] = @ \union {g}], readers)
     \/ /\ i.do = "lock" /\ readers[lock] # {}
        /\ script' = [script EXCEPT ![g] = <<Drain(i.on)>> \o Tail(@)]
        /\ writers' = [writers EXCEPT ![lock] = @ \union {g}]
        /\ UNCHANGED readers
     \/ /\ i.do = "drain"
        /\ Advance(g, writers, readers)
     \/ /\ i.do = "rlock"
        /\ Advance(g, writers, [readers EXCEPT ![lock] = @ \union {g}])
  /\ UNCHANGED <<stream, table, reader, grown, starts, made>>

Access(g) ==
  /\ Does(g, "read") \/ Does(g, "write")
  /\ Advance(g, writers, readers)
  /\ UNCHANGED <<stream, table, reader, grown, starts, made>>

\* s.peers changes; the goroutine that joins starts readMessages.
ChangeTable(g) ==
  /\ LET n == g[1] p == Upcoming(g).peer IN
     \/ /\ Does(g, "join")
        /\ table' = [table EXCEPT ![n] = @ \union {p}]
        /\ reader' = [reader EXCEPT ![<<n, p>>] = TRUE]
     \/ /\ Does(g, "leave")
        /\ table' = [table EXCEPT ![n] = @ \ {p}]
        /\ UNCHANGED reader
  /\ Advance(g, writers, readers)
  /\ UNCHANGED <<stream, grown, starts, made>>

\* The loop over s.peers, in any order.
Loop(g) ==
  /\ Does(g, "sendall")
  /\ \/ /\ table[g[1]] = {}
        /\ Advance(g, writers, readers)
     \/ /\ table[g[1]] # {}
        /\ \E order \in SetToSeqs(table[g[1]]) :
             script' = [script EXCEPT ![g] =
                          [k \in 1 .. Len(order) |->
                             SendNext(order[k], Upcoming(g).type)] \o Tail(@)]
        /\ UNCHANGED <<writers, readers>>
  /\ UNCHANGED <<stream, table, reader, grown, starts, made>>

SendMessage(g) ==
  /\ Does(g, "send") \/ Does(g, "sendnext")
  /\ LET l == <<g[1], Upcoming(g).to>> IN
       /\ ~Full(l)
       /\ stream' = [stream EXCEPT ![l] = Append(@, Upcoming(g).type)]
  /\ Advance(g, writers, readers)
  /\ UNCHANGED <<table, reader, grown, starts, made>>

Step(g) ==
  \/ Acquire(g) \/ Access(g) \/ ChangeTable(g) \/ Loop(g) \/ SendMessage(g)

Next ==
  \/ \E g \in Goroutine : Step(g)
  \/ \E l \in Link : Receive(l[1], l[2]) \/ GiveUp(l[1], l[2])
  \/ \E g \in Acceptor : Connect(g)
  \/ \E t \in Task : StartTask(t)

Spec == Init /\ [][Next]_vars

\* The runtime runs every goroutine that can go on.  Weak fairness is enough
\* because the bounds leave every goroutine a limited number of steps, so that
\* no lock or stream is taken by others for ever.
Fairness ==
  /\ \A g \in Acceptor \union Task : WF_vars(Step(g))
  /\ \A l \in Link : WF_vars(Step(l) \/ Receive(l[1], l[2]))

FairSpec == Spec /\ Fairness
-----------------------------------------------------------------------------
(***************************************************************************)
(* What makes it correct                                                   *)
(***************************************************************************)
Waiting == {g \in Goroutine : Blockers(g) # {}}

\* Goroutines never wait for one another in a circle, be it that each takes
\* locks the other holds or that a reader that reads again waits for a writer
\* that waits for it: bc.mu is taken before processedMutex or peerMutex, and
\* no goroutine asks for a lock it holds.
NoLockCycle ==
  \A S \in SUBSET Waiting : S # {} => \E g \in S : Blockers(g) \intersect S = {}

\* The shared data g is about to look at, and to change.
Looks(g, data) ==
  \/ Does(g, "read") /\ Upcoming(g).on = data
  \/ Does(g, "sendnext") /\ data = "peers"
Changes(g, data) ==
  \/ Does(g, "write") /\ Upcoming(g).on = data
  \/ (Does(g, "join") \/ Does(g, "leave")) /\ data = "peers"

Changing(data) == {g \in Goroutine : Changes(g, data)}

HandlesGetPeers(g) ==
  g \in Link /\ ~Idle(g) /\ Tail(script[g]) = <<Send(g[2], "peers")>>

CountsPeers(g) == g[2] = "discovery" /\ Does(g, "read")

\* The chain, processedBlocks and s.peers are changed by one goroutine at a
\* time, and not while another looks, even in the middle of a broadcast.  There
\* are two exceptions: the handler of MsgGetPeers ranges over s.peers unlocked,
\* and periodicPeerDiscovery counts it.
OnlyPeerLookupsRace ==
  \A data \in {"chain", "processed", "peers"} :
    \A g \in Changing(data) : \A h \in Goroutine \ {g} :
      h[1] = g[1] /\ (Looks(h, data) \/ Changes(h, data)) =>
        HandlesGetPeers(h) \/ CountsPeers(h)

\* Full streams that are not read before another one of them is.
Jam(S) ==
  /\ S # {}
  /\ \A l \in S : /\ Full(l)
                 /\ \/ ~reader[<<l[2], l[1]>>]
                    \/ \E k \in S : k[1] = l[2]

Stuck(g) ==
  \/ Blockers(g) # {}
  \/ (Does(g, "send") \/ Does(g, "sendnext")) /\ Full(<<g[1], Upcoming(g).to>>)

\* Nobody can go on, and somebody has not finished.
Halted ==
  /\ \E g \in Goroutine : Stuck(g)
  /\ \A g \in Goroutine : Idle(g) \/ Stuck(g)
  /\ \A l \in Link : Idle(l) /\ reader[l] => stream[<<l[2], l[1]>>] = <<>>

\* A node comes to a halt only in a jam: a stream that nobody reads any more,
\* or a circle of nodes each of which writes before it reads on.  A stream that
\* is full in one direction alone never stops anybody for good.
HaltsOnlyInAJam == Halted => \E S \in SUBSET Link : Jam(S)

\* While no stream stays full every command, maintenance loop and the daemon's
\* last Save gets to its end, whatever the readers do meanwhile: they hold no
\* lock for ever.
TasksReturn ==
  (\A l \in Link : []<>~Full(l)) => []<>(\A t \in Task : Idle(t))

\* While every reader goes on, nodes that add blocks never stand still together,
\* each in an AddBlock that holds bc.mu while it waits for room in a stream.
AddingNeverHalts ==
  ~(Halted /\ \A n \in Node : /\ <<n, "add">> \in writers[<<n, "mu">>]
                             /\ Does(<<n, "add">>, "sendnext"))
=============================================================================
