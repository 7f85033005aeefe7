# Simple-BlockChain in TLA+

A specification of the programs in this repository: the chain one process
keeps in memory, the protocol by which nodes exchange blocks and the bytes it
travels in, the table of peers, the locks of a node, the database, and the list
of a seed server. TLC checks the modules on small instances; TLAPS proves every
safety property the passing runs check, for arbitrary constants (three of them for
networks with one producer).

Paths are relative to the repository. "Server" is `internal/p2p/server.go`.

## 1. The system

Three programs are built from four packages. `cmd/sbc` is an interactive
client, `cmd/sbcd` a daemon, `cmd/seed` a daemon that also serves a list of
addresses over HTTP. Each creates one `Blockchain`, hands it to one `Server`,
and (but for `sbc`) fills it from a `Store` at the start and saves it when it
is told to stop.

```
 user, sbc ── AddBlock ──> Blockchain ── BlockAdded callback ──> Server
                               ^   ^                              |  ^
     Store ── Load: ProcessBlock   └── ProcessBlock ── handlers <─┘  │ streams
       ^                                                             v
       └──── Save: GetAllBlocks ── on a signal              other nodes' Servers
 mDNS, UDP, DHT, seeds ── HandlePeerFound, ConnectToPeer ──> table of peers
```

| Component | State | Operations | Talks to |
|---|---|---|---|
| Block (`block.go`) | fields, hash | `NewBlock`, `Validate`, `GenerateGenesisBlock` | the wall clock |
| Blockchain (`blockchain.go`) | list head to tail, `length`, `callbacks`, `bc.mu` | `AddBlock`, `ProcessBlock`, `Subscribe`, `TryAcceptChain`, `ReplaceChain`, readers | calls the callbacks while it holds `bc.mu` |
| Synchronisation and gossip (Server) | `processedBlocks`, `BestHeight` of each peer, what is under way on each stream | one handler for each message type, `BroadcastBlock`, `RequestSync`, `FindBlock`, `DiscoverPeers`, `syncTask`, `cleanupProcessedBlocks` | Blockchain; the same component of other nodes, over FIFO streams |
| Table of peers (Server) | `s.peers`, `failedPeers`, one reading goroutine for each entry | `HandlePeerFound`, `ConnectToPeer`, `MsgPeers`, `handleStream`, the end of `readMessages` | libp2p; the same table of other nodes |
| Framing (`peer.go`, `message.go`) | a `bufio.Reader` made for each message | `SendMessage`, `ReadMessage` | streams |
| Storage (`store.go`) | SQLite table `blocks` | `NewStore`, `Load`, `Save` | Blockchain; other processes with the same directory |
| Maintenance (Server) | tickers | `syncTask`, `validationTask`, `statsTask`, `cleanupProcessedBlocks`, `cleanupFailedPeers`, `periodicPeerDiscovery` | Blockchain, peers |
| Host and discovery (`host.go`, Server from line 527) | libp2p host, `s.host` | mDNS, UDP, DHT, boot nodes, announce file, HTTP and DNS seeds | `HandlePeerFound`, `handleStream` |
| Locks (all) | `bc.mu`, `processedMutex`, `peerMutex`; what a stream holds | every handler, command and loop | each other, through callbacks and full streams |
| Seed registry (`cmd/seed`) | address -> last seen | `updatePeers`, `cleanupPeers`, `/seeds` | Server, HTTP clients |
| Configuration, logging | flags, environment | `LoadConfig`, log levels | all |

What makes each of them correct, and what makes that hard:

* **Blockchain.** The list is always a chain of hashes back to the genesis
  block and `length` counts it; callbacks hear of the appended blocks in order;
  the chain is given up only for a longer one. Hard: `TryAcceptChain` releases
  the lock between its test of the length and the exchange; validity depends on
  a clock that may go back.
* **Synchronisation.** Nodes with one producer follow its chain whatever arrives
  twice or in a strange order; a refused block goes nowhere; gossip comes to
  rest; in the end everybody has every block. Hard: the look into
  `processedBlocks`, `ProcessBlock` and the entry into `processedBlocks` are
  three steps under three locks; a peer's messages come over one stream while
  other peers' goroutines append; the version is sent after the reader started.
* **Table of peers.** Both ends use the same stream, an entry lives as long as
  its reader, no stream is left open unread. Hard: two nodes dial each other at
  once; entries are removed by peer, not by stream.
* **Storage.** Whatever crashes or fails, the database can be loaded, and what
  was saved is there again. Hard: shared directory, several branches in one
  table, an order by index alone, a clock that may go back.
* **Host and discovery.** A node that hears of another is joined to it in the end, unless
  their dials go on crossing.
  Hard: nodes start, stop and lose connections at any time; discovery begins before
  the server is ready; a stream may be refused for the sake of a dead one.
* **Framing.** What was written arrives in order, at most once and unchanged. Hard:
  `ReadMessage` throws its buffer away, with whatever it holds beyond the line.
* **Locks.** Goroutines do not wait for each other for ever. Hard: a callback writes
  to the network under `bc.mu`; locks nest through it; streams fill up.
* **Seed registry.** Who is gone is forgotten in time, who stays is listed. Hard: two
  loops, each late in its own way, and a snapshot taken before the lock.

The hazards at their lines, with the properties that watch them, are listed in
`PROJECT.json`.

## 2. The modules

| Module | What it is |
|---|---|
| `Blocks` | the block, its hash, `Validate` |
| `Chain` | the methods of `Blockchain` that compute something of one chain: `IsValid`, `ValidateChain`, `GetBlockByHash`, `GetBlocksAfter` |
| `Ledger` | abstract: what the `Blockchain` object promises |
| `Blockchain` | the object with its lock, its callbacks and overlapping callers; implements `Ledger` |
| `ChainLemmas` | lemmas about chains of any length, with proofs |
| `BlockchainProofs` | the theorems about `Blockchain`, with proofs |
| `Sync` | the protocol between nodes |
| `SyncProofs` | its theorems, with proofs: well-formed chains in any network, what travels between the nodes, one producer and its followers |
| `LossyStream` | abstract: what one direction of a stream does to messages |
| `Frames` | `SendMessage` and `ReadMessage` byte for byte; implements `LossyStream` |
| `FramesProofs` | its theorems, the refinement included, with proofs |
| `NodeLocks` | the locks of the nodes, and streams that fill up |
| `NodeLocksProofs` | its theorems, with proofs |
| `PeerTable` | start and end of nodes, discovery, dialling, the table of peers |
| `PeerTableProofs` | its theorems, with proofs |
| `SeedRegistry` | the list of the seed server |
| `SeedRegistryProofs` | its theorems, with proofs |
| `Storage` | the processes and their database |
| `StorageProofs` | its theorems, with proofs |
| `MCBlockchain`, `MCSync`, `MCNodeLocks`, `MCPeerTable`, `MCStorage` | instances |

`Blockchain`, `Sync` and `Storage` all extend `Chain`, so that a block is
accepted by the same test in each. `Sync` and `Storage` use the chain in the
granularity `Blockchain` justifies: appending is atomic, and nobody in the
Server or the Store calls `TryAcceptChain`. `Sync` reads its streams as `LossyStream`
allows, which `Frames` justifies, and `NodeLocks` has its handlers again with locks and
full streams in place of data.

Some modules hold definitions marked "a refuted variant". They are mistakes one
could make at that place of the code; with the variant in place of the
definition the property named for it in `PROJECT.json` is violated.

### Abstractions common to all

* SHA-256 is injective: a hash is the tuple of the hashed fields. The code
  concatenates the fields without separators; that two different blocks could
  give the same text is not modelled.
* Times are small integers, one unit for what RFC3339 tells apart. The code
  hashes the time to the second but compares it exactly; two timestamps of one
  unit are the same block here. `MaxTimeDrift` is 0 units in the instances, so
  that "from the future" is one unit ahead.
* BPM values are members of a small set with a negative one where refusal
  matters.
* Which error is returned is left out; no caller looks at it.

### Blockchain and Ledger

One action for each critical section under `bc.mu`. `AddBlock` and
`ProcessBlock` are one step each, the callbacks included, because the lock is
held throughout (`blockchain.go` 30-57). `TryAcceptChain` is four:
`CheckLength` under the read lock, `CheckChain` without a lock, `ReplaceChain`
or `KeepChain` under the write lock, `Return`. `notified[s]` is a history
variable, the blocks callback `s` was called with. The clock is an action of its
own, `ClockMoves`, and is free to go back.

### Sync

`session[n, p]` is how far `handleStream` got, `stream[n, p]` what `n` wrote and
`p` has not read, `reader[n, p]` where the goroutine of `n` that reads from `p`
is between two steps. A handler is split where it releases a lock or writes more
than once, with the exceptions below the table:

| Code | Actions |
|---|---|
| `MsgBlock`, lines 169-198 | `CheckBlock`, `ProcessReceived`, `MarkProcessed` |
| `MsgGetBlocks`, lines 199-215 | `HandleGetBlocks`, `SendInv` |
| `MsgInv`, lines 216-238 | `HandleInv`, `SendGetData` |
| `MsgGetData`, lines 239-261 | `HandleGetData`, then `ServeBlock` for each hash |
| `MsgVerAck`, lines 162-168 | `HandleVerAck`, `ReadTip`, `SendGetBlocks`, `SendGetPeers` |
| `handleStream`, lines 109-128 | `HandleStream`, `ReadHeight`, `SendVersion` |
| every other handler | one action |

`ServeBlock` and `HandleFindBlock` look one block up and write it in one step, although
`bc.mu` is released in between. Nothing can tell: chains only grow here, so a block that
is found is the block that would be found when it is written; one that is not found is
either not answered or answered with an empty `MsgBlockFound`, which its reader ignores.

What is written to all peers is one step. A block is broadcast under `bc.mu` and
`peerMutex`, so two blocks reach every stream in one order; a command takes only
the read lock, and in the code its messages and those of a block could reach two
streams in opposite orders. No run has a command and two streams of one node, so
only the theorems, which do not depend on the order, meet that case. `syncTask` compares and
asks in one step: a chain that catches up in between costs one request more, as
an earlier tick would have.

A write to a stream never blocks (`NodeLocks` is about those that do) and a
connection, once set up, stays; failures of connections belong to `PeerTable`. Each read
takes one message and may lose up to `ReadAhead` of those behind it; where `ReadAhead` is
not 0 a reader may find the rest of a message whose beginning is lost and `GiveUp`: it
leaves the table and never reads again, while the peer goes on writing. This is
`LossyStream`, but that a reader may also give up where nothing was lost.
`ReadAhead` is 0 where a run asks for delivery. That is an assumption of those runs, that
the transport hands the reader the bytes of one message at a time; without it the code
promises delivery only of what is written alone (`AloneArrives`).

`syncTask` ticks only while few messages are pending (`Backlog`): the task runs every
60 seconds and would otherwise fill the stream without end. An entry of
`processedBlocks` at a node in `Old` can expire at any moment, though in the code only
after ten minutes: this allows more behaviours than the code has.

### Frames and LossyStream

A byte is known by its distance from the beginning of the stream, so `ends[i]`, `read`
and `from` say everything: the bytes written up to the end of message `i`, the bytes
taken from the stream, and where those of the current `ReadMessage` begin. `Fill(k)` is one
`Read` of the stream; it brings what is there, at most what the buffer has room for
(`bufio` puts a full buffer aside and goes on with an empty one). With the newline comes
`Decode`: `from` moves to `read`, not to the end of the line, and so passes what the
buffer holds beyond it. A line that does not begin where its message does cannot be
decoded, and `readMessages` returns.

In `LossyStream` a message is pending until it is received or lost with the one received
before it. The mapping: a message is settled when it ends before `from`; the next one is
torn when `from` is no border between messages.

### NodeLocks

What a goroutine does between two waits for work is a script: take and give back locks,
look at or change `chain`, `processed` or `peers`, write messages. Each handler of
`handleMessage` gives the set of its scripts, one for each branch the data may take;
`Process` is `ProcessBlock` with the callback of `NewServer`, `Work` the commands and
maintenance loops. The scripts follow the code call by call: `AddBlock` is *lock `bc.mu`,
append, lock `processedMutex`, enter, unlock, lock it again, enter, unlock, lock
`peerMutex` for reading, write to each peer, unlock, unlock `bc.mu`*. A `sync.RWMutex` lets
no reader in once a writer waits (`Drain`). A goroutine never waits to give a lock back,
so that is part of the step before. A stream holds `Capacity` messages and a write to a
full one waits, as a write to a libp2p stream does whose window is used up.

A received block is processed after `OnBlockReceived`, which in `sbcd` reads the chain
under `bc.mu` and in the other programs is not set; both scripts are there. Of the blocks a
getdata names each may be found and written or not be there. `AddBlock` and `ProcessBlock`
may refuse their block, and then only take `bc.mu` and give it back.

The handler of `MsgPeers` dials and is left to `PeerTable`. `failedMutex` is never held
together with another lock and is left out.

### PeerTable

A node is off, `starting` between `NewHost` and the assignment of `s.host`, up, or gone; a
process that starts again has a new peer ID and is another node. While it is starting it
can be heard of and hears of others, and then stops with a nil dereference (`Panic`).
`HandlePeerFound`, `ConnectToPeer` and the loops over addresses (`ConnectToBootNodes`,
`FetchSeedsFromHTTP`, `TryLocalDiscovery`, `HandlePeers`) differ in what they look at before
they dial, in whether one success is enough, and in what they do with a failure. All end
in `NewStream`, which makes a call of `handleStream` due at both ends (`pending`).

A stream is `<<n, p, k>>`; a number is used again when nobody knows the old stream any
more, so that a run may go on for ever. `ReaderExits` may also give up on a stream that
is alive, as `LossyStream` has it; `misreads` counts that, since afterwards the two ends
need not agree. A goroutine `<<n, "udp">>`, `"mdns"` or `"dht"` calls `HandlePeerFound` for
ever; those of the other kinds, `"connect"` and `"list"`, are begun by a user or at the start,
in the instances once, so that an address in `failedPeers` is never asked for again there;
that branch only leaves out a dial, and the theorems cover it.

Every node discovers every other, and nothing breaks the tie when two dial each other at once
(`handleStream`, 113-116): each may register the stream it opened and reset the one the other
registered, both readers end, and both dial again, possibly at once again. So that two nodes
come together does not hold as it stands, even if nothing ever fails. What holds is
`Rediscovers`: they come together unless for ever two goroutines keep opening streams between
them. Without that premise TLC shows the endless crossing. The premise is about the timing of
dials: the announcements of two nodes are not synchronised, so two dials seldom cross, but no
fairness of the scheduler rules out that they cross again.

### SeedRegistry

Times are ages in ticks: how long ago an entry was renewed, a peer came or went, a loop
returned. `Tick` waits for a loop that is as late as it may be (`Delay`), which is how
"every ten seconds" becomes a bound; what makes a loop late, the wait for `s.mu`
included, is inside `Delay`. `GetPeers` and `UpdatePeers` are two steps of `updatePeers`,
because the snapshot is taken before the lock. `handleSeeds` keeps the lock from
`HandleSeeds` to `Answered`.

### Storage

A process is `down`, `loading`, `up` or `saving`. The query of `Load` sees the
table as it was when it began, the transaction of `Save` happens at its commit
or not at all; both are SQLite's. Between `GetAllBlocks` and the commit the
server goes on (`Extend`), which is why `copy` and `chain` are two variables.
`saved`, `starts` and `setBack` are history variables.

## 3. The runs

| Run | Instance | Shows |
|---|---|---|
| `blockchain` | 2 callers, 1 callback, the 7 good blocks of height <= 2, one block for each way to be refused, offers that are longer but wrong at one place, clock 1..2 | `ChainIntact`, `NotificationsOrdered`, `AnsweredNeverShorter`, `ValidUntilSetBack`, implements `Ledger` |
| `gossip` | triangle, one producer, 3 blocks, fairness | no duplicate makes a node refuse a block it needs (`HandledMeansOnChain`), nobody leaves the producer's chain (`FollowsProducer`), echoes die out and then everybody has every block (`GossipSettles`, `QuietMeansAgreed`) |
| `forks` | two producers, one command of any kind, entries that expire, reads that lose a message, readers that give up | `OnlyOwnBlocks`, `RequestsServable`, `HistoryAgreement` |
| `daemons` | two daemons connect, one behind by one block, the other appends one more meanwhile, entries expire, fairness | `ReachesBestHeight` |
| `handshake_race` | as the synchronisation test | `CatchesUp` is violated (below) |
| `shared_database` | `sbcd` and `seed`, 2 starts each, any clock | `AncestorsStored`; `LoadReachesLeaf` and `UnforkedSurvives` while the clock was not set back |
| `forked_database` | two processes | `SavedSurvives` is violated |
| `dialling` | 2 nodes that start, discover each other and dial for ever, one may stop and once connects on its own account or works through a list with a third that never runs; one failure of a dial, a connection or a reader; fairness | `EntryIsRead`, `QuietMeansMutual`, `Rediscovers` |
| `frames` | up to 5 messages of 1, 3 or 4 bytes, a buffer of 3, fairness | `AloneArrives`, `StopsOnlyAfterOverlap`, `KeepsReading`, implements `LossyStream` |
| `locks` | 2 nodes connect, streams of one message, one command, loop or `Save` at one of them, the other's end may give up reading; fairness | `NoLockCycle`, `OnlyPeerLookupsRace`, `HaltsOnlyInAJam`, `TasksReturn` |
| `broadcast_deadlock` | 2 connected nodes, each of which adds up to 3 blocks to a branch of its own | `AddingNeverHalts` is violated |
| `seeds` | 2 peers that come and go, periods of 1 and 3 ticks, a time to live of 6, a delay of 1, fairness | `StaleBounded`, `ConnectedListed`, `KeepsUpdating` |

**Bounds.** Height 2 has two competing chains of each length 2 and 3 and lets an
exchange undo an append and be followed by another; two callers are what a race
needs, and a third adds no new pair of steps. In `Sync` three nodes are the
fewest with a duplicate over two connections; two
blocks after the genesis block are the fewest in which one can overtake another,
and `gossip` has three.
The window of 500 is 2, 3 or 5 here, longer than the answers asked for, but for `forks`.
One command at any moment is enough to have it before, during and after everything else.
For what is proved (section 5) the bounds do not matter. In `dialling` two streams in each
direction let one cross, one be refused and one come back after a failure; both nodes
discover, so that dials cross as often as they like. One fault (`MaxFaults`) of any kind may
happen at any moment, and the discovery that follows has no bound. In `frames` the
buffer is smaller than one message, as large as another, and holds three of the
smallest; five messages are one received, one lost, one torn and two more. In `locks` one
message fills a stream: a larger window needs more messages for the same jam, and nothing
else distinguishes it. In `broadcast_deadlock` a jam with both `AddBlock` in their broadcast
needs two blocks in the streams, two in the hands of the readers and two being written, three
from each node; the constraint `Forked` leaves out steps by which a reader appends a block of
the other node, which nodes on branches of their own refuse, and the two nodes are symmetric.
The periods in `seeds` keep the order of 10 s, 30 s and 5 min; the
time to live is two cleanup periods in place of ten, the least that lets an entry
survive a cleanup, be renewed, and expire.
Two starts of each process let each save a
branch, crash or fail, and load what both left.

**Deadlock** is not checked where the system may stop: a network with nothing to
send, a process with no more starts. In `blockchain` and `seeds`
it is checked.

**Fairness.** No fairness is assumed of users, commands, failures, or peers that come and
go.

* `gossip`, `daemons`, `handshake_race`: weak fairness of each goroutine in `handleStream`
  and `readMessages`, of the ticker of `syncTask`, and of the expiry of entries at nodes
  that run for longer than ten minutes. The Go runtime schedules every runnable
  goroutine, and writes do not block in this module.
* `dialling`: UDP every 10 seconds and the DHT every 30 announce a node again and again,
  so `HandlePeerFound` is called for a node that is up for ever. A dial ends, being
  bounded by a timeout; a goroutine in `handleStream` gets its lock; a reader notices in
  the end that its stream is dead. A reader need not give up on one that is alive.
* `frames`: a `Read` returns when there is something to read.
* `locks`: every goroutine that can go on does. Weak fairness of its step is enough because
  the bounds leave every goroutine a limited number of steps, so that a lock or a place in
  a stream is not taken by others for ever.
* `seeds`: time passes, the loops run, and an answer is written in the end, since it fits
  the buffers of its connection. Strong fairness for the two loops' way into `s.mu`: Go's
  mutex hands itself to a goroutine that waited for a millisecond.

## 4. What the violated runs show

Each is a disagreement of the code with a sentence of the repository; the quotes
are in `PROJECT.json`.

1. `handshake_race`. `handleStream` starts the reader (line 127) before it sends
   the version (line 128). If the reader answers the peer's version first, the peer
   gets the verack while it still believes our height is 0, asks for nothing, and
   nothing makes it ask later (in a daemon `syncTask` does, see `daemons`). The
   test `internal/p2p/server_sync_spec.go` depends on the other order.
2. `forked_database`. `sbcd` and `seed` share the default directory. The rows of
   both branches are in one table and `Load` takes whichever row of an index
   comes first.
3. `broadcast_deadlock`. A block is written to all peers under `bc.mu`. Two nodes that add
   blocks faster than the other reads fill both streams; then `AddBlock` of each waits in its
   broadcast with `bc.mu` held, and the reader of each, which would make room, waits for
   `bc.mu` with a block it has read. No write has a deadline, so neither node appends, answers
   or saves again. A halt does not need `bc.mu`: readers that answer each other's getblocks
   over full streams stand still as well. `HaltsOnlyInAJam` in `locks` says that all halts are
   of this kind, full streams whose readers are gone or in a circle.

Noticed while reading and not the subject of a run:

* `cmd/sbcd/main.go` uses `slog` and `fmt` without importing them, never calls
  `initLogger`, and so does not build as it is; `Storage` models what it says.
* `cmd/sbc/main.go` prints success also when `AddBlock` had its block refused.
* A fork is never resolved over the network: Server does not call
  `TryAcceptChain`. `HistoryAgreement` is what remains true of forks.
* `BestHeight` is set by the handshake and never again, so `syncTask` does not
  see blocks a peer got later.
* `RequestSync` always asks from the head and gets the first 500 hashes, however long the
  own chain is: a daemon further behind never gets on. `ReachesBestHeight` is violated when
  `Limit` is smaller than the chain.
* A block that was refused because its predecessor is still under way is entered into
  `processedBlocks` and is then skipped, and left out of `getdata`, until the entry
  expires (`HandledMeansOnChain` is violated when a block is added during the first
  synchronisation). `daemons` shows that a node with `syncTask` gets it after that.
* `ConnectToPeer` returns nil for an address that failed less than a minute ago.
* Two nodes that dial each other at once may each reset the stream the other registered, again
  and again (`Rediscovers` is violated without its premise `<>[]Alone(e, pair)`). The test
  `Tests/e2e/p2p_e2e_spec.go`, with discovery on at both ends, expects both tables to hold
  the other a while after one `ConnectToPeer`.
* After a reader gave up the peer keeps its entry and refuses streams; the two do not join
  again (`Rediscovers` is violated without the premise `misreads = 0`).
* A peer that is found between `NewHost` and the assignment of `s.host` makes
  `HandlePeerFound` ask a nil host for its ID.
* `/seeds` and `MsgPeers` put the server's own addresses in front of the IDs of its
  peers.
* The addresses `resolveDNSSeeds` makes have no `/p2p` part, so `Connect` refuses them all.
  When its port is taken `startUDPBroadcast` prints "Discovery only mode" and returns, and
  neither listens nor announces.
* The handler of `MsgGetPeers` and `periodicPeerDiscovery` look at `s.peers` without
  `peerMutex`; the runtime may stop the process for it. `OnlyPeerLookupsRace` says that
  nothing else does.
* `BestHeight` is written by the reader and read by `syncTask` and `peers` without a lock.
* `MaxBlockAge` and `sendInv` are not used.

## 5. What is proved

Everything here holds for arbitrary sets of blocks, hashes, nodes, connections,
processes, callers and clock readings, also infinite ones, and for every value of
the bounds. The assumptions are the named ones of each module: `BlockAssumption`
(blocks are records over `Hash`, the genesis block is one), `BlockchainAssumption`
(offers are sequences of blocks, clocks are integers), `SyncAssumption`
(connections have two ends, initial chains are well formed), `StorageAssumption`,
`PeerTableAssumption`, `FramesAssumption` (messages and the buffer have at least one byte),
`LocksAssumption` (connections have two ends, each node finitely many of them, and the
commands and loops are those of the program),
`SeedAssumption` (the time to live is no shorter than an update period with its delay).

**Chains** (`ChainLemmas`). `IndexIsPosition`, `HashDeterminesHistory`: facts about
well-formed chains of any length that the rest builds on. They need induction on the
length; `LeastNumber` (a non-empty set of naturals has a least element, obtained
from the well-foundedness of strict subset on finite sets) takes the place of the
induction theorem.

**Blockchain** (`BlockchainProofs`).

* `TypeCorrect`.
* `AlwaysIntact`: `ChainIntact` is inductive given `TypeOK` except at `ReplaceChain`,
  where `ValidatedWellFormed` says that a chain that `ValidateChain` accepts at any
  time is well formed, the genesis block included, because its hash must be that of
  the genesis block and hashes are injective.
* `AlwaysOrdered`: `NotificationsOrdered` is inductive given `ChainIntact`: the
  index of the tip is `Len(chain) - 1`, so an appended block has a larger index
  than every block told before, and an exchange only makes the chain longer.
* `AlwaysAnswered`: from `NeverShorter`, no step makes the chain shorter, which is
  what the second test of the length, inside `ReplaceChain`, is for.
* `OnlySetBackInvalidates`, an action property: from `ValidLater`, a chain valid at
  one time is valid at every later one, and `AppendValid`.
* `Refinement`: `Blockchain` implements `Ledger` under the mapping
  ledger = chain, listening = subscribed, feed = notified. Every step of
  `TryAcceptChain` but the exchange is a stutter.

**Sync** (`SyncProofs`).

* `TypeCorrect` and `ChainsAlwaysWellFormed`. `TypeOK` alone is not inductive: the
  handler of `MsgVerAck` sends the hash of the last block, which exists because the
  chain is well formed; hence `SyncInv`, both together. The loop over an inv
  (`Missing`) is a recursive function; `FilterExists` shows that it is defined for
  every length, `MissingTyped` that it returns some of the hashes it was given.
* `HistoriesAlwaysAgree`: `HistoryAgreement` follows from `SyncInv` by
  `HashDeterminesHistory`.
* `AlwaysOnlyOwnBlocks`, `RequestsAlwaysServable`: neither is inductive without the
  other's view of what is under way, since a getdata is justified by the inv it
  answers and what is served by the getdata. `RequestInv` says of every message in
  every stream that it is `Honest` and of every goroutine that it is `Able` to do
  what it is about to. A chain only grows (`OnChainKept`), so what was honest stays
  so; each handler is then a matter of the one message it adds (`Adds`,
  `RequestInvKept`).
* `AlwaysFollowsProducer`, for one producer `p` and initial chains that are prefixes of its
  chain: `HeldInv` says that a block a reader is about to append is on the chain of the
  node that sent it, so by `HashDeterminesHistory` it is the producer's block of its index.
  Clocks, commands, torn reads and handshakes may be as they like.
* `HandledAlwaysOnChain`, `QuietAlwaysAgreed`, under `OneSource(p)`: moreover the handshakes
  are over, all nodes start with the same chain, reads lose nothing, and clocks differ by no
  more than `MaxTimeDrift`; for the second, the network is connected. `HandledMeansOnChain`
  fails without any one of them: a block that arrives before the rest of the chain was asked
  for (handshakes to come, unequal starts), behind one that was lost, or at a node whose
  clock is late is refused, and then taken for handled. The invariant is `GossipInv`. Its
  heart is `OrderInv`: over each connection, no block comes before one of a lower index that the reader's chain lacks
  (`ComesBefore`), and every block of the writer's chain is on the reader's, in its hands
  or on the way (`InOrder`). So a block is refused only when it is there already, and
  a network with empty streams has nothing left to tell.

**Storage** (`StorageProofs`). `TypeCorrect`, and `AncestorsAlwaysStored` from
`DatabaseInv`: the chains in memory and the copies being saved are well formed, and
every row carries its own hash. An insert adds a chain whose blocks have their
predecessors in it, and keeps the row that was there where one with the hash exists.
`LoadAlwaysReachesLeaf` and `UnforkedAlwaysSurvives` come from `ReloadInv`. `SoundInv`: while
the clock was not set back, nothing but its place makes a row unacceptable. `LoadInv`: rows
are read in the order of their indices, so one that was passed does not follow the tip now,
nor any later tip, whose index is no smaller. `SavedInv`: what was saved is among the rows.
Where the table holds one branch, the first row of an index is the saved one, and so a load
that ends below the saved chain would have passed a row that follows its tip.

**PeerTable** (`PeerTableProofs`). `TypeCorrect` needs that no goroutine dials its own node
(`DialsOthers`). `EntryAlwaysRead` from `TableInv`: whoever handles or
reads a stream is at one of its ends, and an entry holds a stream to the peer it is for
(`EndsInv`). The crucial case is `ReaderExits`, which deletes by peer: the entry it
finds is its own stream's because `handleStream` refuses every other while it is there.
`AlwaysMutual` (`QuietMeansMutual`) adds `HeldAtBothEnds`: while no reader gave up on a
stream that is alive, such a stream is at each of its ends still to be handled or
read. When nothing is left to handle it is read at both, and by `EntryIsRead` each end has
it in its table.

**NodeLocks** (`NodeLocksProofs`). The invariant `LocksInv` is about what is left of each
goroutine's script. `Runs(g, w, s, H, E)` says that `g` can take script `s` legally
from holding the locks `H` to holding `E`: every lock it asks for ranks above those it has
(`bc.mu` before `processedMutex` and `peerMutex`), data is touched under its lock and
messages go to connected nodes. Scripts are put together as the code's calls are,
`RunsBoth` for one after the other and `RunsLocked` for what happens under a lock, so that
there is one lemma for each function of the code and none for the combinations. `Sound`
says that the rest of a script runs from what its goroutine holds now to nothing; the
scripts of `MsgGetPeers` are the only exception.

* `TypeCorrect`: with that, no lock has two writers, or a writer at work beside readers.
* `NeverACircle` (`NoLockCycle`): who waits for a lock waits for a goroutine that holds one
  of that rank, and if that one waits, then for one that ranks higher, or for readers to
  leave (`Wait` grows along the chain and is at most 5).
* `OnlyLookupsEverRace` (`OnlyPeerLookupsRace`): who changes data holds its lock for writing,
  and who looks at it holds it too, but for the two lookups the property names.
* `HaltsAreJams` (`HaltsOnlyInAJam`): when nobody can go on, whoever waits for a lock waits in
  the end for a goroutine that writes to a full stream; the full streams are the jam.

**Frames** (`FramesProofs`). `Inductive`: `FramesInv` says that the borders `ends` increase,
that no newline is held without having been acted upon, that what was delivered is
over, and that a message written alone is delivered or begins where the reader does. `AloneAlwaysArrives`, `AlwaysStopsAfterOverlap` follow. `Refinement`:
`Frames` implements `LossyStream`; a `Read` without a newline is a stutter, one with it is
`Receive`, whose lost messages are those that end inside the bytes read ahead, or `GiveUp`.
The case that matters is that the reader's line is the first pending message exactly when
`from` is a border.

**SeedRegistry** (`SeedRegistryProofs`). `AlwaysStaleBounded` and `ConnectedAlwaysListed` need
to relate ages to each other: `IInv` bounds the age of an entry by the time since the last
cleanup, says that a listed peer that left was renewed no longer after it left than an
update may have been under way, and that a peer that stayed through an update is listed and
its entry no older than the last update. `SeedAssumption` is used for the last: with a
shorter time to live a cleanup late in the period would forget a peer that is connected.

Only model-checked: liveness, that is `GossipSettles`, `ReachesBestHeight`, `Rediscovers`,
`KeepsReading`, `TasksReturn` and `KeepsUpdating`, because fairness and ENABLED are beyond the
prover. What the violated runs show is by its nature a matter of one instance.

## 6. What is not modelled, and the plan

| Next | Subject | Why |
|---|---|---|
| `SyncProofs` | `HandledMeansOnChain` with initial chains of different lengths and handshakes to come | it does not hold as it stands; a weaker one, for nodes that have caught up, might |
| `SeedRegistryProofs`, `PeerTableProofs` | what the liveness properties rest on: the steps that bring each nearer to its end | the part of liveness that needs no ENABLED |
| `Sync` | that `Sync` with a lossless stream implements a specification in which a follower's chain is a delayed copy of the producer's | `OrderInv` is most of the mapping |

Not modelled: the DHT's own bootstrap connections, which carry no streams of this
protocol; `resolveDNSSeeds`, which cannot succeed; `GetPublicIP`, which only a test calls;
the commands of `sbc` that print; the runner of the tests.

Left out for good: flags, environment, log output, the text of commands, JSON
encoding, the HTTP and DNS fetches of addresses, and libp2p itself, which is
modelled as streams that deliver in order until they are reset.
