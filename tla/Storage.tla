------------------------------ MODULE Storage -------------------------------
(***************************************************************************)
(* internal/storage/store.go as cmd/sbcd and cmd/seed use it: a process    *)
(* loads the database when it starts, keeps its chain in memory, and saves *)
(* it once, when it is told to stop.  Processes with the same data         *)
(* directory share the database.                                           *)
(*                                                                         *)
(* SQLite commits a transaction whole or not at all, and a query reads the *)
(* table as it was when the query began.                                   *)
(***************************************************************************)
EXTENDS Chain

CONSTANTS
  Proc,      \* the processes that use the data directory
  Clock,     \* the readings of time.Now()
  MaxStarts  \* bounds the instance: starts of each process

ASSUME StorageAssumption ==
  /\ Clock \subseteq Int
  /\ MaxStarts \in Nat

VARIABLES
  db,      \* the rows of table blocks
  phase,   \* phase[p]: what p is doing
  chain,   \* chain[p]: the blockchain in p's memory
  result,  \* result[p]: the rows the query of Load returns
  read,    \* read[p]: those the loop of Load has been through
  copy,    \* copy[p]: what GetAllBlocks returned to Save
  clock,   \* the wall clock
  setBack, \* whether it was ever set back
  saved,   \* saved[p]: the last chain p saved with success
  starts   \* starts[p]: how often p was started

vars ==
  <<db, phase, chain, result, read, copy, clock, setBack, saved, starts>>

TypeOK ==
  /\ db \subseteq Block
  /\ phase \in [Proc -> {"down", "loading", "up", "saving"}]
  /\ chain \in [Proc -> Seq(Block)]
  /\ result \in [Proc -> SUBSET Block]
  /\ read \in [Proc -> SUBSET Block]
  /\ copy \in [Proc -> Seq(Block)]
  /\ clock \in Clock
  /\ setBack \in BOOLEAN
  /\ saved \in [Proc -> Seq(Block)]
  /\ starts \in [Proc -> Nat]

Init ==
  /\ db = {}
  /\ phase = [p \in Proc |-> "down"]
  /\ chain = [p \in Proc |-> <<Genesis>>]
  /\ result = [p \in Proc |-> {}]
  /\ read = [p \in Proc |-> {}]
  /\ copy = [p \in Proc |-> <<>>]
  /\ clock \in Clock
  /\ setBack = FALSE
  /\ saved = [p \in Proc |-> <<Genesis>>]
  /\ starts = [p \in Proc |-> 0]

Goto(p, where) == phase' = [phase EXCEPT ![p] = where]
-----------------------------------------------------------------------------
(***************************************************************************)
(* Load: NewBlockchain, one query, ProcessBlock on each of its rows.       *)
(***************************************************************************)
Start(p) ==
  /\ phase[p] = "down"
  /\ starts[p] < MaxStarts
  /\ starts' = [starts EXCEPT ![p] = @ + 1]
  /\ chain' = [chain EXCEPT ![p] = <<Genesis>>]
  /\ result' = [result EXCEPT ![p] = db]
  /\ read' = [read EXCEPT ![p] = {}]
  /\ Goto(p, "loading")
  /\ UNCHANGED <<db, copy, clock, setBack, saved>>

\* A refuted variant: a query with no ORDER BY.
AnyRow(rows) == rows

\* ORDER BY block_index: rows of one index come in any order.
NextRow(rows) == {r \in rows : \A q \in rows : r.index <= q.index}

LoadRow(p) ==
  /\ phase[p] = "loading"
  /\ \E r \in NextRow(result[p] \ read[p]) :
       /\ chain' = IF Accepts(chain[p], r, clock)
                   THEN [chain EXCEPT ![p] = Append(@, r)]
                   ELSE chain
       /\ read' = [read EXCEPT ![p] = @ \union {r}]
  /\ UNCHANGED <<db, phase, result, copy, clock, setBack, saved, starts>>

EndLoad(p) ==
  /\ phase[p] = "loading"
  /\ result[p] = read[p]
  /\ Goto(p, "up")
  /\ UNCHANGED <<db, chain, result, read, copy, clock, setBack, saved, starts>>
-----------------------------------------------------------------------------
\* A block of the user or of the network; the server goes on while Save runs.
Extend(p, b) ==
  /\ phase[p] \in {"up", "saving"}
  /\ Accepts(chain[p], b, clock)
  /\ chain' = [chain EXCEPT ![p] = Append(@, b)]
  /\ UNCHANGED <<db, phase, result, read, copy, clock, setBack, saved, starts>>
-----------------------------------------------------------------------------
(***************************************************************************)
(* Save on SIGINT or SIGTERM: GetAllBlocks, then one transaction.  The     *)
(* process exits after it, whether or not it succeeded.                    *)
(***************************************************************************)
BeginSave(p) ==
  /\ phase[p] = "up"
  /\ copy' = [copy EXCEPT ![p] = chain[p]]
  /\ Goto(p, "saving")
  /\ UNCHANGED <<db, chain, result, read, clock, setBack, saved, starts>>

\* A refuted variant: hash and prev_hash change places in the INSERT.
SwappedRows(c) ==
  {[c[k] EXCEPT !.hash = c[k].prev, !.prev = c[k].hash] : k \in 1 .. Len(c)}

RowsOf(c) == {c[k] : k \in 1 .. Len(c)}

\* A refuted variant: only the last block is inserted.
InsertLast(c) == db \union {Tip(c)}

\* INSERT OR IGNORE: the hash is UNIQUE, the row that is there stays.
Insert(c) ==
  db \union {b \in RowsOf(c) : \A r \in db : r.hash # b.hash}

CommitSave(p) ==
  /\ phase[p] = "saving"
  /\ db' = Insert(copy[p])
  /\ saved' = [saved EXCEPT ![p] = copy[p]]
  /\ Goto(p, "down")
  /\ UNCHANGED <<chain, result, read, copy, clock, setBack, starts>>

\* A statement fails, as when another process has the database locked.
FailSave(p) ==
  /\ phase[p] = "saving"
  /\ Goto(p, "down")
  /\ UNCHANGED <<db, chain, result, read, copy, clock, setBack, saved, starts>>

Crash(p) ==
  /\ phase[p] # "down"
  /\ Goto(p, "down")
  /\ UNCHANGED <<db, chain, result, read, copy, clock, setBack, saved, starts>>

ClockMoves(t) ==
  /\ clock' = t
  /\ setBack' = (setBack \/ t < clock)
  /\ UNCHANGED <<db, phase, chain, result, read, copy, saved, starts>>

Next ==
  \/ \E p \in Proc :
       \/ Start(p) \/ LoadRow(p) \/ EndLoad(p)
       \/ \E b \in Block : Extend(p, b)
       \/ BeginSave(p) \/ CommitSave(p) \/ FailSave(p) \/ Crash(p)
  \/ \E t \in Clock : ClockMoves(t)

Spec == Init /\ [][Next]_vars
-----------------------------------------------------------------------------
(***************************************************************************)
(* What makes it correct                                                   *)
(***************************************************************************)
\* Whatever crashes or fails, and however the clock jumps, every row has its
\* predecessor beside it, back to the genesis block: the part of a chain that
\* Load dropped is still in the table when the part saved later is added.
AncestorsStored ==
  \A r \in db : r = Genesis \/ \E q \in db : Follows(r, q)

\* Load stops only where no row of its query follows: though it reads the
\* rows of all branches by their index alone, the block it refuses never
\* costs it one it could still append, unless the clock was set back.
LoadReachesLeaf ==
  ~setBack =>
    \A p \in Proc :
      phase[p] = "loading" /\ result[p] = read[p] =>
        \A r \in result[p] : ~Accepts(chain[p], r, clock)

HasAgain(p) ==
  phase[p] \in {"up", "saving"} =>
    /\ Len(saved[p]) <= Len(chain[p])
    /\ SubSeq(chain[p], 1, Len(saved[p])) = saved[p]

\* While the table holds a single branch, a process has after any restart,
\* whoever else saved or failed to, all that it once saved with success.
UnforkedSurvives ==
  /\ ~setBack
  /\ \A q, r \in db : q.index = r.index => q = r
  => \A p \in Proc : HasAgain(p)

\* The same without that condition ("should store and retrieve a complete
\* chain after restart", Tests/e2e/storage_e2e_spec.go).
SavedSurvives == ~setBack => \A p \in Proc : HasAgain(p)
=============================================================================
