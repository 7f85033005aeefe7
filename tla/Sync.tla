-------------------------------- MODULE Sync --------------------------------
(***************************************************************************)
(* The protocol of internal/p2p/server.go between nodes whose connections  *)
(* are being set up or are up: handshake, gossip of new blocks, requests   *)
(* for missing ones.                                                       *)
(*                                                                         *)
(* Each end <<n, p>> of a connection has at n an entry of s.peers, a       *)
(* goroutine in readMessages, and the bytes n wrote that p has not read, a *)
(* FIFO of messages.  A step is what one goroutine does between two looks  *)
(* at shared state.  ProcessBlock holds bc.mu while it calls the callback  *)
(* of NewServer, so appending a block and sending it on is one step.       *)
(* Looking one block up and writing it to the peer is one step too         *)
(* (ServeBlock, HandleFindBlock): a chain only grows at its end, so a      *)
(* block found earlier is the block found when the message is written.     *)
(*                                                                         *)
(* Writes never block here and connections do not fail.  A read may lose   *)
(* the messages behind the one it returns, and a reader that finds the     *)
(* rest of a message gives up (module LossyStream, which module Frames     *)
(* implements).  The handler of MsgPeers only touches the table of         *)
(* connections; here it does nothing.                                      *)
(***************************************************************************)
EXTENDS Chain, SequencesExt

CONSTANTS
  Node,
  Link,          \* <<n, p>> and <<p, n>> are the two ends of a connection
  Established,   \* whether the handshakes are over when the model starts
  InitialChain,  \* what each node loaded before it started
  Producer,      \* the nodes whose user adds blocks
  Bpm,           \* the values they add
  Clock,         \* Clock[n]: the readings of n's time.Now()
  Limit,         \* the most blocks one getblocks is answered with
  Daemon,        \* the nodes that run StartMaintenance
  Old,           \* the nodes that run for longer than ten minutes
  ReadAhead,     \* the most messages that one read loses; 0: none is torn
  \* Bounds of the instance: commands "sync", "find" and "discover", and
  \* messages pending when syncTask ticks.
  MaxCommands, Backlog

ASSUME SyncAssumption ==
  /\ Link \subseteq {l \in Node \X Node : l[1] # l[2]}
  /\ \A l \in Link : <<l[2], l[1]>> \in Link
  /\ Established \in BOOLEAN
  /\ InitialChain \in [Node -> Seq(Block)]
  /\ \A n \in Node : WellFormed(InitialChain[n])
  /\ Producer \subseteq Node
  /\ Bpm \subseteq Int
  /\ Clock \in [Node -> SUBSET Int]
  /\ {Limit, ReadAhead} \subseteq Nat
  /\ Daemon \subseteq Node /\ Old \subseteq Node
  /\ {MaxCommands, Backlog} \subseteq Nat

VARIABLES
  chain,      \* chain[n]: the blocks of n's blockchain
  processed,  \* processed[n]: the keys of s.processedBlocks
  session,    \* session[n, p]: how far handleStream got
  best,       \* best[n, p]: the BestHeight n holds of p
  stream,     \* stream[n, p]: written by n, not yet read by p
  reader,     \* reader[n, p]: where n's readMessages for p is
  left        \* the commands that the bound leaves

vars == <<chain, processed, session, best, stream, reader, left>>

Version(height) == [type |-> "version", height |-> height]
VerAck == [type |-> "verack"]
GetPeers == [type |-> "getpeers"]
Peers == [type |-> "peers"]
GetBlocks(start) == [type |-> "getblocks", start |-> start]
Inv(hashes) == [type |-> "inv", hashes |-> hashes]
GetData(hashes) == [type |-> "getdata", hashes |-> hashes]
\* BareBlock, a refuted variant, sends the hash in place of the block.
BareBlock(b) == [type |-> "block", block |-> b.hash]
BlockMsg(b) == [type |-> "block", block |-> b]
FindBlock(hash) == [type |-> "findblock", hash |-> hash]
BlockFound(found) == [type |-> "blockfound", found |-> found]

Message ==
  [type : {"version"}, height : Nat]
    \union [type : {"verack", "getpeers", "peers"}]
    \union [type : {"getblocks"}, start : Hash \union {EmptyHash}]
    \union [type : {"inv", "getdata"}, hashes : Seq(Hash)]
    \union [type : {"block"}, block : Block]
    \union [type : {"findblock"}, hash : Hash]
    \union [type : {"blockfound"}, found : SUBSET Block]

None == [at |-> "none"]
Registered == [at |-> "registered"]
Versioning(height) == [at |-> "versioning", height |-> height]
Greeted == [at |-> "greeted"]

Session ==
  {None, Registered, Greeted} \union [at : {"versioning"}, height : Nat]

Idle == [at |-> "idle"]
Gone == [at |-> "gone"]
Asking(what) == [at |-> what]
Locating(start) == [at |-> "locating", start |-> start]
Holding(at, b) == [at |-> at, block |-> b]
Sending(at, hashes) == [at |-> at, hashes |-> hashes]

Reader ==
  [at : {"idle", "gone", "asking blocks", "asking peers"}]
         \union [at : {"locating"}, start : Hash \union {EmptyHash}]
         \union [at : {"checked", "decided"}, block : Block]
         \union [at : {"announcing", "requesting", "serving"},
                 hashes : Seq(Hash)]

TypeOK ==
  /\ chain \in [Node -> Seq(Block)]
  /\ processed \in [Node -> SUBSET Hash]
  /\ session \in [Link -> Session]
  /\ best \in [Link -> Nat]
  /\ stream \in [Link -> Seq(Message)]
  /\ reader \in [Link -> Reader]
  /\ left \in Nat

Init ==
  /\ chain = InitialChain
  /\ processed = [n \in Node |-> {}]
  /\ session = [l \in Link |-> IF Established THEN Greeted ELSE None]
  /\ best = [l \in Link |-> IF Established THEN Len(InitialChain[l[2]]) ELSE 0]
  /\ stream = [l \in Link |-> <<>>]
  /\ reader = [l \in Link |-> Idle]
  /\ left = MaxCommands
-----------------------------------------------------------------------------
(***************************************************************************)
(* Streams                                                                 *)
(***************************************************************************)
\* The peers in n's table: registered, and read still.
Connected(n) ==
  {l \in Link : l[1] = n /\ session[l] # None /\ reader[l] # Gone}

\* n writes m to every peer it has registered.
ToAll(s, n, m) ==
  [l \in Link |-> IF l \in Connected(n) THEN Append(s[l], m) ELSE s[l]]

Received(n, p) == Head(stream[<<p, n>>])

\* n's reader for p is waiting and the next message is of this type.
Arrived(n, p, type) ==
  /\ session[<<n, p>>] # None
  /\ reader[<<n, p>>] = Idle
  /\ stream[<<p, n>>] # <<>>
  /\ Received(n, p).type = type

\* How many messages n can lose that p wrote after the one n reads.
Lost(n, p) == {k \in 0 .. ReadAhead : k < Len(stream[<<p, n>>])}

Consumed(n, p, lost) ==
  [stream EXCEPT ![<<p, n>>] = SubSeq(@, lost + 2, Len(@))]

\* The handler reads the message and writes replies.
Answer(n, p, replies) ==
  \E lost \in Lost(n, p) :
    stream' = [Consumed(n, p, lost) EXCEPT ![<<n, p>>] = @ \o replies]

Become(n, p, state) == reader' = [reader EXCEPT ![<<n, p>>] = state]
-----------------------------------------------------------------------------
(***************************************************************************)
(* ProcessBlock with the callback of NewServer: a block that is appended   *)
(* goes to every peer, the one it came from included, unless its hash was  *)
(* in processedBlocks already.  s is stream, less what is being read.      *)
(***************************************************************************)
\* A refuted variant: the hash is entered before it is looked up.
RelayAfterMark(s, n, b) == s

Relay(s, n, b) ==
  IF b.hash \in processed[n] THEN s ELSE ToAll(s, n, BlockMsg(b))

\* A refuted variant: a block is sent on whether or not it is accepted.
ProcessAndRelay(n, b, now, s) ==
  /\ chain' = IF Accepts(chain[n], b, now)
              THEN [chain EXCEPT ![n] = Append(@, b)] ELSE chain
  /\ processed' = [processed EXCEPT ![n] = @ \union {b.hash}]
  /\ stream' = Relay(s, n, b)

Process(n, b, now, s) ==
  \/ /\ Accepts(chain[n], b, now)
     /\ chain' = [chain EXCEPT ![n] = Append(@, b)]
     /\ processed' = [processed EXCEPT ![n] = @ \union {b.hash}]
     /\ stream' = Relay(s, n, b)
  \/ /\ ~Accepts(chain[n], b, now)
     /\ stream' = s
     /\ UNCHANGED <<chain, processed>>

AddBlock(n, bpm) ==
  \E now \in Clock[n] :
    LET b == NewBlock(Tip(chain[n]).index + 1, now, bpm, Tip(chain[n]).hash) IN
    /\ b \in Block   \* bounds the instance
    /\ Process(n, b, now, stream)
    /\ UNCHANGED <<session, best, reader, left>>
-----------------------------------------------------------------------------
(***************************************************************************)
(* handleStream.  The reader runs as soon as the peer is registered,       *)
(* before the version message is written.                                  *)
(***************************************************************************)
HandleStream(n, p) ==
  /\ session[<<n, p>>] = None
  /\ session' = [session EXCEPT ![<<n, p>>] = Registered]
  /\ UNCHANGED <<chain, processed, best, stream, reader, left>>

\* sendVersion reads the length of the chain, and then writes.
ReadHeight(n, p) ==
  /\ session[<<n, p>>] = Registered
  /\ session' = [session EXCEPT ![<<n, p>>] = Versioning(Len(chain[n]))]
  /\ UNCHANGED <<chain, processed, best, stream, reader, left>>

SendVersion(n, p) ==
  /\ session[<<n, p>>].at = "versioning"
  /\ session' = [session EXCEPT ![<<n, p>>] = Greeted]
  /\ stream' = [stream EXCEPT ![<<n, p>>] =
                   Append(@, Version(session[<<n, p>>].height))]
  /\ UNCHANGED <<chain, processed, best, reader, left>>

\* A refuted variant: the height is not kept.
HandleVersionBlindly(n, p) ==
  /\ Arrived(n, p, "version")
  /\ Answer(n, p, <<VerAck>>)
  /\ UNCHANGED <<chain, processed, session, best, reader, left>>

HandleVersion(n, p) ==
  /\ Arrived(n, p, "version")
  /\ best' = [best EXCEPT ![<<n, p>>] = Received(n, p).height]
  /\ Answer(n, p, <<VerAck>>)
  /\ UNCHANGED <<chain, processed, session, reader, left>>

HandleVerAck(n, p) ==
  /\ Arrived(n, p, "verack")
  /\ Become(n, p, Asking(IF best[<<n, p>>] > Len(chain[n])
                         THEN "asking blocks" ELSE "asking peers"))
  /\ Answer(n, p, <<>>)
  /\ UNCHANGED <<chain, processed, session, best, left>>

\* sendGetBlocks reads the last block, and then writes.
ReadTip(n, p) ==
  /\ reader[<<n, p>>] = Asking("asking blocks")
  /\ Become(n, p, Locating(Tip(chain[n]).hash))
  /\ UNCHANGED <<chain, processed, session, best, stream, left>>

SendGetBlocks(n, p) ==
  /\ reader[<<n, p>>].at = "locating"
  /\ stream' = [stream EXCEPT ![<<n, p>>] =
                   Append(@, GetBlocks(reader[<<n, p>>].start))]
  /\ Become(n, p, Asking("asking peers"))
  /\ UNCHANGED <<chain, processed, session, best, left>>

SendGetPeers(n, p) ==
  /\ reader[<<n, p>>] = Asking("asking peers")
  /\ stream' = [stream EXCEPT ![<<n, p>>] = Append(@, GetPeers)]
  /\ Become(n, p, Idle)
  /\ UNCHANGED <<chain, processed, session, best, left>>

HandleGetPeers(n, p) ==
  /\ Arrived(n, p, "getpeers")
  /\ Answer(n, p, <<Peers>>)
  /\ UNCHANGED <<chain, processed, session, best, reader, left>>

HandlePeers(n, p) ==
  /\ Arrived(n, p, "peers")
  /\ Answer(n, p, <<>>)
  /\ UNCHANGED <<chain, processed, session, best, reader, left>>
-----------------------------------------------------------------------------
(***************************************************************************)
(* MsgBlock: look into processedBlocks, process, enter it there.           *)
(***************************************************************************)
\* A refuted variant: the hash is entered before the block is processed.
MarkAtOnce(n, p) ==
  /\ Arrived(n, p, "block")
  /\ LET b == Received(n, p).block IN
       /\ Become(n, p, IF b.hash \in processed[n] THEN Idle
                       ELSE Holding("checked", b))
       /\ processed' = [processed EXCEPT ![n] = @ \union {b.hash}]
  /\ Answer(n, p, <<>>)
  /\ UNCHANGED <<chain, session, best, left>>

CheckBlock(n, p) ==
  /\ Arrived(n, p, "block")
  /\ LET b == Received(n, p).block IN
       Become(n, p, IF b.hash \in processed[n] THEN Idle
                    ELSE Holding("checked", b))
  /\ Answer(n, p, <<>>)
  /\ UNCHANGED <<chain, processed, session, best, left>>

ProcessReceived(n, p) ==
  /\ reader[<<n, p>>].at = "checked"
  /\ \E now \in Clock[n] : Process(n, reader[<<n, p>>].block, now, stream)
  /\ Become(n, p, Holding("decided", reader[<<n, p>>].block))
  /\ UNCHANGED <<session, best, left>>

MarkProcessed(n, p) ==
  /\ reader[<<n, p>>].at = "decided"
  /\ processed' =
       [processed EXCEPT ![n] = @ \union {reader[<<n, p>>].block.hash}]
  /\ Become(n, p, Idle)
  /\ UNCHANGED <<chain, session, best, stream, left>>
-----------------------------------------------------------------------------
(***************************************************************************)
(* Asking for blocks by hash: getblocks, inv, getdata, block.              *)
(***************************************************************************)
\* PrevHashes, a refuted variant, announces the wrong field.
PrevHashes(blocks) == [k \in 1 .. Len(blocks) |-> blocks[k].prev]
Hashes(blocks) == [k \in 1 .. Len(blocks) |-> blocks[k].hash]

OnChain(n, hash) == Positions(chain[n], hash) # {}

HandleGetBlocks(n, p) ==
  /\ Arrived(n, p, "getblocks")
  /\ LET blocks == GetBlocksAfter(chain[n], Received(n, p).start, Limit) IN
       Become(n, p, IF blocks = <<>> THEN Idle
                    ELSE Sending("announcing", Hashes(blocks)))
  /\ Answer(n, p, <<>>)
  /\ UNCHANGED <<chain, processed, session, best, left>>

SendInv(n, p) ==
  /\ reader[<<n, p>>].at = "announcing"
  /\ stream' = [stream EXCEPT ![<<n, p>>] =
                   Append(@, Inv(reader[<<n, p>>].hashes))]
  /\ Become(n, p, Idle)
  /\ UNCHANGED <<chain, processed, session, best, left>>

\* The loop over an inv: those of the hashes that are not known, in order.
Missing(hashes, known) ==
  LET upTo[i \in 0 .. Len(hashes)] ==
        IF i = 0 THEN <<>>
        ELSE IF hashes[i] \in known THEN upTo[i - 1]
        ELSE Append(upTo[i - 1], hashes[i])
  IN  upTo[Len(hashes)]

HandleInv(n, p) ==
  /\ Arrived(n, p, "inv")
  /\ LET missing == Missing(Received(n, p).hashes, processed[n]) IN
       Become(n, p, IF missing = <<>> THEN Idle
                    ELSE Sending("requesting", missing))
  /\ Answer(n, p, <<>>)
  /\ UNCHANGED <<chain, processed, session, best, left>>

SendGetData(n, p) ==
  /\ reader[<<n, p>>].at = "requesting"
  /\ stream' = [stream EXCEPT ![<<n, p>>] =
                   Append(@, GetData(reader[<<n, p>>].hashes))]
  /\ Become(n, p, Idle)
  /\ UNCHANGED <<chain, processed, session, best, left>>

HandleGetData(n, p) ==
  /\ Arrived(n, p, "getdata")
  /\ Become(n, p, Sending("serving", Received(n, p).hashes))
  /\ Answer(n, p, <<>>)
  /\ UNCHANGED <<chain, processed, session, best, left>>

\* One turn of the loop over the requested hashes, or its end.
ServeBlock(n, p) ==
  /\ reader[<<n, p>>].at = "serving"
  /\ LET todo == reader[<<n, p>>].hashes IN
     \/ /\ todo # <<>>
        /\ stream' = IF OnChain(n, Head(todo))
                     THEN [stream EXCEPT ![<<n, p>>] = Append(@,
                             BlockMsg(GetBlockByHash(chain[n], Head(todo))))]
                     ELSE stream
        /\ Become(n, p, Sending("serving", Tail(todo)))
     \/ /\ todo = <<>>
        /\ Become(n, p, Idle)
        /\ UNCHANGED stream
  /\ UNCHANGED <<chain, processed, session, best, left>>

HandleFindBlock(n, p) ==
  /\ Arrived(n, p, "findblock")
  /\ LET hash == Received(n, p).hash IN
       Answer(n, p, <<BlockFound(IF OnChain(n, hash)
                                 THEN {GetBlockByHash(chain[n], hash)}
                                 ELSE {})>>)
  /\ UNCHANGED <<chain, processed, session, best, reader, left>>

\* The found block is processed without a look into processedBlocks.
HandleBlockFound(n, p) ==
  /\ Arrived(n, p, "blockfound")
  /\ \/ \E b \in Received(n, p).found, now \in Clock[n], lost \in Lost(n, p) :
          Process(n, b, now, Consumed(n, p, lost))
     \/ /\ Received(n, p).found = {}
        /\ Answer(n, p, <<>>)
        /\ UNCHANGED <<chain, processed>>
  /\ UNCHANGED <<session, best, reader, left>>

\* The rest of a message is no JSON: readMessages returns and takes p from
\* the table.  The stream stays open, and p goes on writing to it.
GiveUp(n, p) ==
  /\ ReadAhead > 0
  /\ session[<<n, p>>] # None
  /\ reader[<<n, p>>] = Idle
  /\ stream[<<p, n>>] # <<>>
  /\ Become(n, p, Gone)
  /\ UNCHANGED <<chain, processed, session, best, stream, left>>
-----------------------------------------------------------------------------
(***************************************************************************)
(* The command line, the maintenance loop, the cleanup loop.               *)
(***************************************************************************)
RequestSync(n) == stream' = ToAll(stream, n, GetBlocks(EmptyHash))

Spend == left > 0 /\ left' = left - 1

SyncCommand(n) ==
  /\ Spend
  /\ RequestSync(n)
  /\ UNCHANGED <<chain, processed, session, best, reader>>

FindCommand(n, hash) ==
  /\ Spend
  /\ stream' = ToAll(stream, n, FindBlock(hash))
  /\ UNCHANGED <<chain, processed, session, best, reader>>

\* The command, or a tick of periodicPeerDiscovery.
DiscoverPeers(n) ==
  /\ Spend
  /\ stream' = ToAll(stream, n, GetPeers)
  /\ UNCHANGED <<chain, processed, session, best, reader>>

\* A refuted variant: one block behind does not count.
BehindByTwo(n) == \E l \in Connected(n) : best[l] > Len(chain[n]) + 1
Behind(n) == \E l \in Connected(n) : best[l] > Len(chain[n])

SyncTask(n) ==
  /\ Behind(n)
  /\ \A l \in Connected(n) :   \* bounds the instance
       Len(stream[l]) + Len(stream[<<l[2], n>>]) < Backlog
  /\ RequestSync(n)
  /\ UNCHANGED <<chain, processed, session, best, reader, left>>

\* An entry older than ten minutes; the age of entries is not modelled.
CleanupProcessedBlocks(n, hash) ==
  /\ hash \in processed[n]
  /\ processed' = [processed EXCEPT ![n] = @ \ {hash}]
  /\ UNCHANGED <<chain, session, best, stream, reader, left>>
-----------------------------------------------------------------------------
ReadMessages(n, p) ==
  \/ HandleVersion(n, p)
  \/ HandleVerAck(n, p) \/ ReadTip(n, p)
  \/ SendGetBlocks(n, p) \/ SendGetPeers(n, p)
  \/ HandleGetPeers(n, p) \/ HandlePeers(n, p)
  \/ CheckBlock(n, p) \/ ProcessReceived(n, p) \/ MarkProcessed(n, p)
  \/ HandleGetBlocks(n, p) \/ SendInv(n, p)
  \/ HandleInv(n, p) \/ SendGetData(n, p)
  \/ HandleGetData(n, p) \/ ServeBlock(n, p)
  \/ HandleFindBlock(n, p) \/ HandleBlockFound(n, p)
  \/ GiveUp(n, p)

Next ==
  \/ \E l \in Link : \/ HandleStream(l[1], l[2])
                     \/ ReadHeight(l[1], l[2]) \/ SendVersion(l[1], l[2])
                     \/ ReadMessages(l[1], l[2])
  \/ \E n \in Producer, bpm \in Bpm : AddBlock(n, bpm)
  \/ \E n \in Node : SyncCommand(n) \/ DiscoverPeers(n)
  \/ \E n \in Node, hash \in Hash : FindCommand(n, hash)
  \/ \E n \in Daemon : SyncTask(n)
  \/ \E n \in Old, hash \in Hash : CleanupProcessedBlocks(n, hash)

Spec == Init /\ [][Next]_vars

\* The runtime schedules every goroutine and every ticker fires; a user need
\* never type anything.
Fairness ==
  /\ \A l \in Link : /\ WF_vars(HandleStream(l[1], l[2]))
                     /\ WF_vars(ReadHeight(l[1], l[2]))
                     /\ WF_vars(SendVersion(l[1], l[2]))
                     /\ WF_vars(ReadMessages(l[1], l[2]))
  /\ \A n \in Daemon : WF_vars(SyncTask(n))
  /\ \A n \in Old, hash \in Hash : WF_vars(CleanupProcessedBlocks(n, hash))

FairSpec == Spec /\ Fairness
-----------------------------------------------------------------------------
(***************************************************************************)
(* What makes it correct                                                   *)
(***************************************************************************)
Sent(n, p) == {stream[<<n, p>>][i] : i \in 1 .. Len(stream[<<n, p>>])}

Elements(s) == {s[i] : i \in 1 .. Len(s)}

\* A node announces and sends only blocks it has on its own chain, whatever
\* it was sent and refused: nothing that failed validation travels on
\* (callback of NewServer, MsgGetBlocks, MsgGetData, MsgFindBlock).
OnlyOwnBlocks ==
  \A l \in Link : LET n == l[1] p == l[2] IN
    /\ \A m \in Sent(n, p) :
         /\ m.type = "block" => OnChain(n, m.block.hash)
         /\ m.type = "inv" => \A h \in Elements(m.hashes) : OnChain(n, h)
         /\ m.type = "blockfound" => \A b \in m.found : OnChain(n, b.hash)
    /\ reader[<<n, p>>].at = "announcing" =>
         \A h \in Elements(reader[<<n, p>>].hashes) : OnChain(n, h)

\* A getdata names only blocks the peer can serve, also when it arrives long
\* after the inv it answers: the nil that GetBlockByHash may return to the
\* handler of MsgGetData never silently drops a requested block.
RequestsServable ==
  \A l \in Link : LET n == l[1] p == l[2] IN
    /\ \A m \in Sent(n, p) :
         m.type = "getdata" => \A h \in Elements(m.hashes) : OnChain(p, h)
    /\ reader[<<n, p>>].at = "serving" =>
         \A h \in Elements(reader[<<n, p>>].hashes) : OnChain(n, h)
    /\ reader[<<n, p>>].at = "requesting" =>
         \A h \in Elements(reader[<<n, p>>].hashes) : OnChain(p, h)

\* With one producer nobody ever holds anything but a prefix of its chain,
\* whatever is duplicated, reordered between connections or refused.
FollowsProducer ==
  \A p \in Producer, n \in Node : IsPrefix(chain[n], chain[p])

\* Two chains that share a block share everything before it, however the
\* histories of several producers were mixed (Validate against the tail).
HistoryAgreement ==
  \A n, m \in Node : \A i \in 1 .. Len(chain[n]), j \in 1 .. Len(chain[m]) :
    chain[n][i].hash = chain[m][j].hash =>
      SubSeq(chain[n], 1, i) = SubSeq(chain[m], 1, j)

\* A hash in processedBlocks is the hash of a block on the chain: "already
\* handled" (MsgBlock) never shadows a block the node still lacks.
HandledMeansOnChain ==
  \A n \in Node : \A hash \in processed[n] : OnChain(n, hash)

Quiet ==
  \A l \in Link : /\ session[l] \in {None, Greeted}
                  /\ stream[l] = <<>>
                  /\ reader[l] = Idle

Agreed == \A n, m \in Node : chain[n] = chain[m]

\* When every message is handled, everybody has every block.
QuietMeansAgreed == Quiet => Agreed

\* Gossip dies out, and then everybody has every block.
GossipSettles == <>[](Quiet /\ Agreed)

\* Everybody ends up with one chain for good.
CatchesUp == <>[]Agreed

\* A daemon comes to have as many blocks as any peer named in its version
\* message, although they may first reach it in an order it refuses, and it
\* then takes them for handled (syncTask, cleanupProcessedBlocks).  Blocks
\* added after that message was written are not promised.
ReachesBestHeight ==
  \A l \in Link : l[1] \in Daemon => <>[](best[l] <= Len(chain[l[1]]))
=============================================================================
