----------------------------- MODULE PeerTable ------------------------------
(***************************************************************************)
(* The table s.peers of internal/p2p/server.go: how nodes start and stop,  *)
(* who dials whom, handleStream at both ends of a new stream, and the end  *)
(* of readMessages.                                                        *)
(*                                                                         *)
(* A stream that one end resets is dead at both.  What travels on a stream *)
(* is the subject of Sync.  A process that starts again has a new peer ID: *)
(* it is another node.                                                     *)
(***************************************************************************)
EXTENDS Integers

CONSTANTS
  Node,
  Dialer,  \* <<n, how>>: the goroutines of n that dial, see Kind
  Runs,    \* the nodes that ever run: an address may name one that does not
  MayStop, \* those whose process may end
  \* Bounds of the instance: failures of dials, of connections and of
  \* ReadMessage on a stream that is alive, streams from one node to another at
  \* a time, how often those that discover nothing start to dial.
  MaxFaults, MaxStreams, MaxStarts

\* The goroutines that call HandlePeerFound with what they discover.
Discovery == {"udp", "mdns", "dht"}

\* One that calls ConnectToPeer, and one that goes through a list of addresses.
Kind == Discovery \union {"connect", "list"}

ASSUME PeerTableAssumption ==
  /\ Dialer \subseteq Node \X Kind
  /\ Runs \subseteq Node /\ MayStop \subseteq Runs
  /\ {MaxFaults, MaxStreams, MaxStarts} \subseteq Nat

Discoverer == {d \in Dialer : d[2] \in Discovery}

VARIABLES
  phase,    \* phase[n]: how far n has come
  alive,    \* the streams nobody has reset and no failure has cut
  pending,  \* <<n, s>>: handleStream of n is about to look at s
  table,    \* table[n, p]: the stream in n's entry for p, or NoStream
  reading,  \* <<n, s>>: n has a goroutine in readMessages for s
  dial,     \* dial[d]: what dialling goroutine d is doing
  failed,   \* <<n, p>>: p's address is in n's failedPeers, under a minute
  starts,   \* how often those that discover nothing started to dial
  failures, misreads

counters == <<starts, failures, misreads>>
vars ==
  <<phase, alive, pending, table, reading, dial, failed, counters>>

\* <<n, p, k>>: opened by n to p.  A number is used again when nobody knows the
\* old stream any more.
Pairs == {l \in Node \X Node : l[1] # l[2]}
Stream ==
  {<<l[1], l[2], k>> : l \in Pairs \intersect (Runs \X Runs), k \in 1 .. MaxStreams}
NoStream == <<>>

\* The other end of s, as n sees it.
Remote(n, s) == IF s[1] = n THEN s[2] ELSE s[1]

NoDial == [at |-> "idle"]
\* rest: the addresses that are left; once: whether a success is enough, so
\* that these are not tried.
Dialling(p, rest, once) ==
  [at |-> "dialling", to |-> p, rest |-> rest,
   once |-> once /\ rest # {}]
Opened(s, rest, once) ==
  [at |-> "opened", stream |-> s, rest |-> rest,
   once |-> once /\ rest # {}]

\* What a goroutine does next that has these addresses left, in any order.
Turn(rest, once) ==
  IF rest = {} THEN {NoDial} ELSE {Dialling(p, rest \ {p}, once) : p \in rest}

TypeOK ==
  /\ phase \in [Node -> {"off", "starting", "up", "gone"}]
  /\ \A n \in Node \ Runs : phase[n] = "off"
  /\ alive \subseteq Stream
  /\ pending \subseteq Node \X Stream
  /\ table \in [Pairs -> Stream \union {NoStream}]
  /\ reading \subseteq Node \X Stream
  /\ dial \in [Dialer ->
       {NoDial}
         \union [at : {"dialling"}, to : Node, rest : SUBSET Node, once : BOOLEAN]
         \union [at : {"opened"}, stream : Stream, rest : SUBSET Node,
                 once : BOOLEAN]]
  /\ failed \subseteq Pairs
  /\ starts \in Nat
  /\ failures \in Nat /\ misreads \in Nat

Init ==
  /\ phase = [n \in Node |-> "off"]
  /\ alive = {} /\ pending = {} /\ reading = {} /\ failed = {}
  /\ table = [l \in Pairs |-> NoStream]
  /\ dial = [d \in Dialer |-> NoDial]
  /\ starts = 0
  /\ failures = 0 /\ misreads = 0
-----------------------------------------------------------------------------
(***************************************************************************)
(* The life of a node                                                      *)
(***************************************************************************)
\* NewHost: the node can be reached, and its discovery has begun.
NewHost(n) ==
  /\ n \in Runs /\ phase[n] = "off"
  /\ phase' = [phase EXCEPT ![n] = "starting"]
  /\ UNCHANGED <<alive, pending, table, reading, dial, failed, counters>>

\* s.host is assigned and the stream handler set.
NewServer(n) ==
  /\ phase[n] = "starting"
  /\ phase' = [phase EXCEPT ![n] = "up"]
  /\ UNCHANGED <<alive, pending, table, reading, dial, failed, counters>>

\* A node announces itself by UDP, mDNS and the DHT as soon as its host exists.
Announced(p) == phase[p] # "off"

\* The loops that listen leave out the node's own announcements.
Hears(n, p) == p # n /\ Announced(p)

\* HandlePeerFound asks s.host for its ID when that is still nil.
Panic(n) ==
  /\ phase[n] = "starting"
  /\ \E how \in Discovery : <<n, how>> \in Dialer
  /\ \E p \in Node : Hears(n, p)
  /\ phase' = [phase EXCEPT ![n] = "gone"]
  /\ UNCHANGED <<alive, pending, table, reading, dial, failed, counters>>

Stop(n) ==
  /\ n \in MayStop /\ phase[n] = "up"
  /\ phase' = [phase EXCEPT ![n] = "gone"]
  /\ alive' = {s \in alive : n \notin {s[1], s[2]}}
  /\ pending' = {w \in pending : w[1] # n}
  /\ table' = [l \in Pairs |-> IF l[1] = n THEN NoStream ELSE table[l]]
  /\ reading' = {w \in reading : w[1] # n}
  /\ dial' = [d \in Dialer |-> IF d[1] = n THEN NoDial ELSE dial[d]]
  /\ UNCHANGED <<failed, counters>>
-----------------------------------------------------------------------------
(***************************************************************************)
(* Dialling.  Only HandlePeerFound looks at the table first, and not under *)
(* the lock that handleStream takes later.                                 *)
(***************************************************************************)
CanDial(d, kinds) ==
  d[2] \in kinds /\ phase[d[1]] = "up" /\ dial[d] = NoDial

Begins(d, rest, once) ==
  /\ \E turn \in Turn(rest, once) : dial' = [dial EXCEPT ![d] = turn]
  /\ UNCHANGED <<phase, alive, pending, table, reading, failed>>

HandlePeerFound(d, p) ==
  /\ CanDial(d, Discovery)
  /\ Hears(d[1], p)
  /\ table[<<d[1], p>>] = NoStream
  /\ Begins(d, {p}, FALSE)
  /\ UNCHANGED counters

CountStart ==
  /\ starts < MaxStarts
  /\ starts' = starts + 1
  /\ UNCHANGED <<failures, misreads>>

\* An address that failed is not tried again for a minute.
ConnectToPeer(d, p) ==
  /\ CanDial(d, {"connect"}) /\ CountStart
  /\ p # d[1]
  /\ Begins(d, IF <<d[1], p>> \in failed THEN {} ELSE {p}, FALSE)

TryAddresses(d, addresses, once) ==
  /\ CanDial(d, {"list"}) /\ CountStart
  /\ addresses # {} /\ d[1] \notin addresses
  /\ Begins(d, addresses, once)

\* The boot nodes of the configuration, all of them.
ConnectToBootNodes(d, addresses) == TryAddresses(d, addresses, FALSE)

\* What a seed server lists: one is enough.
FetchSeedsFromHTTP(d, addresses) == TryAddresses(d, addresses, TRUE)

\* The daemon that wrote its address into the announce file.
TryLocalDiscovery(d, p) == TryAddresses(d, {p}, TRUE)

\* The addresses in a MsgPeers message, all of them.
HandlePeers(d, addresses) == TryAddresses(d, addresses, FALSE)

\* Host.Connect returns an error, which ConnectToPeer remembers, or NewStream
\* does after it.
DialFails(d) ==
  /\ dial[d].at = "dialling"
  /\ LET up == phase[dial[d].to] = "up" IN
       /\ up => failures + misreads < MaxFaults
       /\ failures' = IF up THEN failures + 1 ELSE failures
  /\ \/ d[2] = "connect" /\ failed' = failed \union {<<d[1], dial[d].to>>}
     \/ UNCHANGED failed
  /\ \E turn \in Turn(dial[d].rest, dial[d].once) :
       dial' = [dial EXCEPT ![d] = turn]
  /\ UNCHANGED <<phase, alive, pending, table, reading, starts, misreads>>

InUse(s) ==
  \/ s \in alive
  \/ \E n \in Node : <<n, s>> \in pending \union reading
  \/ \E d \in Dialer : dial[d].at = "opened" /\ dial[d].stream = s

NewStream(d) ==
  /\ dial[d].at = "dialling" /\ phase[dial[d].to] = "up"
  /\ LET n == d[1] p == dial[d].to IN
     \E k \in 1 .. MaxStreams :
       LET s == <<n, p, k>> IN
       /\ ~InUse(s) /\ \A j \in 1 .. k - 1 : InUse(<<n, p, j>>)
       /\ alive' = alive \union {s}
       /\ pending' = pending \union {<<n, s>>, <<p, s>>}
       /\ dial' = [dial EXCEPT ![d] = Opened(s, @.rest, @.once)]
  /\ UNCHANGED <<phase, table, reading, failed, counters>>

\* The dialling goroutine has been through handleStream.
DialReturns(d) ==
  /\ dial[d].at = "opened"
  /\ <<d[1], dial[d].stream>> \notin pending
  /\ LET rest == IF dial[d].once THEN {} ELSE dial[d].rest IN
     \E turn \in Turn(rest, dial[d].once) : dial' = [dial EXCEPT ![d] = turn]
  /\ UNCHANGED <<phase, alive, pending, table, reading, failed, counters>>

\* cleanupFailedPeers, or the minute is over.
ForgetFailure(n, p) ==
  /\ <<n, p>> \in failed
  /\ failed' = failed \ {<<n, p>>}
  /\ UNCHANGED <<phase, alive, pending, table, reading, dial, counters>>
-----------------------------------------------------------------------------
(***************************************************************************)
(* handleStream and the end of readMessages                                *)
(***************************************************************************)
\* A refuted variant: the entry holds the peer and not its stream.
RegisterPeer(n, s) ==
  /\ table' = [table EXCEPT ![<<n, Remote(n, s)>>] = Remote(n, s)]
  /\ reading' = reading \union {<<n, s>>}
  /\ UNCHANGED alive

Register(n, s) ==
  /\ table' = [table EXCEPT ![<<n, Remote(n, s)>>] = s]
  /\ reading' = reading \union {<<n, s>>}
  /\ UNCHANGED alive

\* Refuted variants: a second stream is registered too; it is left open.
RegisterAlways(n, s) ==
  /\ <<n, s>> \in pending
  /\ pending' = pending \ {<<n, s>>}
  /\ Register(n, s)
  /\ UNCHANGED <<phase, dial, failed, counters>>

RefuseQuietly(s) == UNCHANGED alive

Refuse(s) == alive' = alive \ {s}

HandleStream(n, s) ==
  /\ <<n, s>> \in pending
  /\ pending' = pending \ {<<n, s>>}
  /\ \/ table[<<n, Remote(n, s)>>] = NoStream /\ Register(n, s)
     \/ /\ table[<<n, Remote(n, s)>>] # NoStream
        /\ Refuse(s)
        /\ UNCHANGED <<table, reading>>
  /\ UNCHANGED <<phase, dial, failed, counters>>

\* The stream died before the remote end's handler was called.
NeverHandled(n, s) ==
  /\ <<n, s>> \in pending
  /\ s[2] = n
  /\ s \notin alive
  /\ pending' = pending \ {<<n, s>>}
  /\ UNCHANGED <<phase, alive, table, reading, dial, failed, counters>>

\* A refuted variant: the entry stays.
KeepEntry(n, s) == UNCHANGED table

\* The entry is deleted by the peer's ID.
Forget(n, s) == table' = [table EXCEPT ![<<n, Remote(n, s)>>] = NoStream]

\* The deferred function of readMessages.  It does not close the stream, which
\* may be alive when a message could not be read.
ReaderExits(n, s) ==
  /\ <<n, s>> \in reading
  /\ \/ s \notin alive /\ UNCHANGED misreads
     \/ s \in alive /\ failures + misreads < MaxFaults /\ misreads' = misreads + 1
  /\ Forget(n, s)
  /\ reading' = reading \ {<<n, s>>}
  /\ UNCHANGED <<phase, alive, pending, dial, failed, starts, failures>>

ConnectionLost(n, p) ==
  /\ failures + misreads < MaxFaults
  /\ alive' = {s \in alive : {s[1], s[2]} # {n, p}}
  /\ alive' # alive
  /\ failures' = failures + 1
  /\ UNCHANGED
       <<phase, pending, table, reading, dial, failed, starts, misreads>>

Next ==
  \/ \E n \in Node : NewHost(n) \/ NewServer(n) \/ Panic(n) \/ Stop(n)
  \/ \E d \in Dialer, p \in Node :
       HandlePeerFound(d, p) \/ ConnectToPeer(d, p) \/ TryLocalDiscovery(d, p)
  \/ \E d \in Dialer, addresses \in SUBSET Node :
       \/ ConnectToBootNodes(d, addresses)
       \/ FetchSeedsFromHTTP(d, addresses)
       \/ HandlePeers(d, addresses)
  \/ \E d \in Dialer : DialFails(d) \/ NewStream(d) \/ DialReturns(d)
  \/ \E n \in Node, s \in Stream :
       HandleStream(n, s) \/ NeverHandled(n, s) \/ ReaderExits(n, s)
  \/ \E l \in Pairs : ForgetFailure(l[1], l[2]) \/ ConnectionLost(l[1], l[2])

Spec == Init /\ [][Next]_vars

\* A node that is up is announced again and again: HandlePeerFound is called for
\* it for ever.  Dials end, handleStream gets its lock, and then a reader sees
\* that its stream is dead.
Fairness ==
  /\ \A d \in Discoverer, p \in Runs :
       p # d[1] => WF_vars(HandlePeerFound(d, p) /\ phase[p] = "up")
  /\ \A d \in Dialer : WF_vars(DialFails(d) \/ NewStream(d) \/ DialReturns(d))
  /\ \A s \in Stream : \A n \in {s[1], s[2]} :
       WF_vars(\/ HandleStream(n, s) \/ NeverHandled(n, s)
               \/ ReaderExits(n, s) /\ s \notin alive)

FairSpec == Spec /\ Fairness
-----------------------------------------------------------------------------
(***************************************************************************)
(* What makes it correct                                                   *)
(***************************************************************************)
\* The entry for a peer and the goroutine that reads from it live and die
\* together: though readMessages deletes the entry by the peer's ID alone,
\* it never deletes the entry of another stream.
EntryIsRead ==
  /\ \A l \in Pairs : table[l] # NoStream => <<l[1], table[l]>> \in reading
  /\ \A n \in Node, s \in Stream :
       <<n, s>> \in reading => table[<<n, Remote(n, s)>>] = s

\* Nothing is under way and no reader has a dead stream to notice.
Quiet ==
  /\ pending = {}
  /\ \A d \in Dialer : dial[d] = NoDial
  /\ \A w \in reading : w[2] \in alive

\* Whatever streams crossed and failed and whoever stopped, when all is quiet
\* two nodes have each other in their tables on one and the same stream, or
\* neither has, and no stream is left open that nobody reads, unless a reader
\* gave one up.
QuietMeansMutual ==
  Quiet /\ misreads = 0 =>
    /\ \A l \in Pairs : table[l] = table[<<l[2], l[1]>>]
    /\ \A s \in alive : table[<<s[1], s[2]>>] = s

\* n and p have each other, on one stream that is alive.
Joined(n, p) ==
  /\ table[<<n, p>>] = table[<<p, n>>]
  /\ table[<<n, p>>] \in alive

\* In the end the two nodes of a pair are joined for as long as both are up.
Together(pair) ==
  <>[](\A n, p \in pair :
         n # p /\ phase[n] = "up" /\ phase[p] = "up" => Joined(n, p))

\* d is handling a stream between the two that it has opened.
Opens(d, pair) ==
  dial[d].at = "opened" /\ {dial[d].stream[1], dial[d].stream[2]} = pair

Alone(e, pair) == \A d \in Dialer \ {e} : ~Opens(d, pair)

\* As long as both are up, a node that discovers another is joined to it in the
\* end and stays so, although dials fail, connections break, streams cross, and
\* the other may refuse a new stream because it has not noticed that the old
\* one is dead.  Only two goroutines that both open streams between the two
\* nodes for ever can keep them apart, or a reader that gave up.  (One that
\* discovers nothing comes to its end.)
Rediscovers ==
  \A pair \in {{l[1], l[2]} : l \in Pairs \intersect (Runs \X Runs)}, e \in Discoverer :
    (\E d \in Discoverer : d[1] \in pair) =>
      ([](misreads = 0) /\ <>[]Alone(e, pair) => Together(pair))
=============================================================================
