--------------------------- MODULE StorageProofs ----------------------------
(***************************************************************************)
(* Proofs about Storage, for every number of processes, every set of       *)
(* blocks and a clock that jumps as it likes.                              *)
(***************************************************************************)
EXTENDS Storage, ChainLemmas

LEMMA NextRowIsRow ==
  ASSUME NEW rows
  PROVE  NextRow(rows) \subseteq rows
BY DEF NextRow

\* Every variable of Storage keeps its type.
THEOREM TypeCorrect == Spec => []TypeOK
<1>1. Init => TypeOK
  <2>1. <<Genesis>> \in Seq(Block) /\ <<>> \in Seq(Block)
    BY BlockAssumption
  <2>2. Init => setBack \in BOOLEAN
    BY Zenon DEF Init
  <2>3. Init => /\ db \subseteq Block
                /\ phase \in [Proc -> {"down", "loading", "up", "saving"}]
                /\ clock \in Clock
                /\ starts \in [Proc -> Nat]
    BY DEF Init
  <2>4. Init => /\ chain \in [Proc -> Seq(Block)]
                /\ copy \in [Proc -> Seq(Block)]
                /\ saved \in [Proc -> Seq(Block)]
    BY <2>1 DEF Init
  <2>5. Init => /\ result \in [Proc -> SUBSET Block]
                /\ read \in [Proc -> SUBSET Block]
    BY DEF Init
  <2> QED BY <2>2, <2>3, <2>4, <2>5, Zenon DEF TypeOK
<1>2. TypeOK /\ [Next]_vars => TypeOK'
  <2> SUFFICES ASSUME TypeOK, [Next]_vars PROVE TypeOK'
    OBVIOUS
  <2>1. ASSUME NEW p \in Proc, Start(p) PROVE TypeOK'
    BY <2>1, BlockAssumption DEF Start, Goto, TypeOK
  <2>2. ASSUME NEW p \in Proc, LoadRow(p) PROVE TypeOK'
    <3>1. PICK r \in NextRow(result[p] \ read[p]) :
            /\ chain' = IF Accepts(chain[p], r, clock)
                        THEN [chain EXCEPT ![p] = Append(@, r)] ELSE chain
            /\ read' = [read EXCEPT ![p] = @ \union {r}]
      BY <2>2 DEF LoadRow
    <3>2. r \in Block
      BY <3>1, NextRowIsRow DEF TypeOK
    <3> QED BY <2>2, <3>1, <3>2 DEF LoadRow, TypeOK
  <2>3. ASSUME NEW p \in Proc, EndLoad(p) PROVE TypeOK'
    BY <2>3 DEF EndLoad, Goto, TypeOK
  <2>4. ASSUME NEW p \in Proc, NEW b \in Block, Extend(p, b) PROVE TypeOK'
    BY <2>4 DEF Extend, TypeOK
  <2>5. ASSUME NEW p \in Proc, BeginSave(p) PROVE TypeOK'
    BY <2>5 DEF BeginSave, Goto, TypeOK
  <2>6. ASSUME NEW p \in Proc, CommitSave(p) PROVE TypeOK'
    <3>1. RowsOf(copy[p]) \subseteq Block
      BY DEF RowsOf, TypeOK
    <3> QED BY <2>6, <3>1 DEF CommitSave, Insert, Goto, TypeOK
  <2>7. ASSUME NEW p \in Proc, FailSave(p) PROVE TypeOK'
    BY <2>7 DEF FailSave, Goto, TypeOK
  <2>8. ASSUME NEW p \in Proc, Crash(p) PROVE TypeOK'
    BY <2>8 DEF Crash, Goto, TypeOK
  <2>9. ASSUME NEW t \in Clock, ClockMoves(t) PROVE TypeOK'
    BY <2>9, StorageAssumption DEF ClockMoves, TypeOK
  <2>10. CASE UNCHANGED vars
    BY <2>10 DEF vars, TypeOK
  <2> QED
    BY <2>1, <2>2, <2>3, <2>4, <2>5, <2>6, <2>7, <2>8, <2>9, <2>10 DEF Next
<1> QED BY <1>1, <1>2, PTL DEF Spec
-----------------------------------------------------------------------------
(***************************************************************************)
(* The database.  AncestorsStored is inductive once it is known that what  *)
(* a process holds, and is about to save, is well formed, and that a row's *)
(* hash is its own: INSERT OR IGNORE leaves out a block only when the very *)
(* same block is there.                                                    *)
(***************************************************************************)
ChainsWellFormed ==
  \A p \in Proc :
    /\ WellFormed(chain[p])
    /\ phase[p] = "saving" => WellFormed(copy[p])

RowsHashed == \A r \in db : HashMatches(r)

DatabaseInv == ChainsWellFormed /\ RowsHashed /\ AncestorsStored

LEMMA GenesisChain == WellFormed(<<Genesis>>)
BY BlockAssumption DEF WellFormed

\* A process that loads or extends its chain keeps it well formed.
LEMMA ChainsStep ==
  ASSUME TypeOK, ChainsWellFormed, [Next]_vars
  PROVE  ChainsWellFormed'
<1>1. ASSUME NEW p \in Proc, Start(p) PROVE ChainsWellFormed'
  BY <1>1, GenesisChain DEF Start, Goto, ChainsWellFormed, TypeOK
<1>2. ASSUME NEW p \in Proc, NEW b \in Block, Accepts(chain[p], b, clock),
             chain' = [chain EXCEPT ![p] = Append(@, b)],
             UNCHANGED <<phase, copy>>
      PROVE  ChainsWellFormed'
  <2>1. WellFormed(Append(chain[p], b))
    BY <1>2, AppendWellFormed DEF ChainsWellFormed, TypeOK
  <2> QED BY <1>2, <2>1 DEF ChainsWellFormed, TypeOK
<1>3. ASSUME NEW p \in Proc, LoadRow(p) PROVE ChainsWellFormed'
  <2>1. PICK r \in NextRow(result[p] \ read[p]) :
          chain' = IF Accepts(chain[p], r, clock)
                   THEN [chain EXCEPT ![p] = Append(@, r)] ELSE chain
    BY <1>3 DEF LoadRow
  <2>2. r \in Block
    BY <2>1, NextRowIsRow DEF TypeOK
  <2>3. CASE Accepts(chain[p], r, clock)
    BY <1>2, <1>3, <2>1, <2>2, <2>3 DEF LoadRow
  <2>4. CASE ~Accepts(chain[p], r, clock)
    BY <1>3, <2>1, <2>4 DEF LoadRow, ChainsWellFormed
  <2> QED BY <2>3, <2>4
<1>4. ASSUME NEW p \in Proc, NEW b \in Block, Extend(p, b)
      PROVE  ChainsWellFormed'
  BY <1>2, <1>4 DEF Extend
<1>5. ASSUME NEW p \in Proc, BeginSave(p) PROVE ChainsWellFormed'
  BY <1>5 DEF BeginSave, Goto, ChainsWellFormed, TypeOK
<1>6. ASSUME NEW p \in Proc,
             EndLoad(p) \/ CommitSave(p) \/ FailSave(p) \/ Crash(p)
      PROVE  ChainsWellFormed'
  BY <1>6
     DEF EndLoad, CommitSave, FailSave, Crash, Goto, ChainsWellFormed, TypeOK
<1>7. ASSUME NEW t \in Clock, ClockMoves(t) PROVE ChainsWellFormed'
  BY <1>7 DEF ClockMoves, ChainsWellFormed
<1>8. CASE UNCHANGED vars
  BY <1>8 DEF vars, ChainsWellFormed
<1> QED BY <1>1, <1>3, <1>4, <1>5, <1>6, <1>7, <1>8 DEF Next

\* Only the commit of Save writes to the table.
LEMMA DatabaseWrites ==
  ASSUME [Next]_vars, db' # db
  PROVE  \E p \in Proc : CommitSave(p)
BY DEF Next, vars, Start, LoadRow, EndLoad, Extend, BeginSave, FailSave,
       Crash, ClockMoves

\* INSERT OR IGNORE leaves out a block only when that block is there.
LEMMA InsertStores ==
  ASSUME TypeOK, RowsHashed, NEW c \in Seq(Block), WellFormed(c),
         NEW k \in 1 .. Len(c)
  PROVE  c[k] \in Insert(c)
<1>1. c[k] \in Block /\ HashMatches(c[k])
  BY WellFormedHashes
<1>2. CASE \E r \in db : r.hash = c[k].hash
  <2>1. PICK r \in db : r.hash = c[k].hash
    BY <1>2
  <2>2. r = c[k]
    BY <1>1, <2>1, HashDeterminesBlock DEF RowsHashed, TypeOK
  <2> QED BY <2>1, <2>2 DEF Insert
<1>3. CASE \A r \in db : r.hash # c[k].hash
  BY <1>3 DEF Insert, RowsOf
<1> QED BY <1>2, <1>3

\* A well-formed chain, inserted where a hash is already there only with its
\* block, leaves every row with its predecessor.
LEMMA InsertKeepsAncestors ==
  ASSUME TypeOK, RowsHashed, AncestorsStored,
         NEW c \in Seq(Block), WellFormed(c), db' = Insert(c)
  PROVE  RowsHashed' /\ AncestorsStored'
<1>1. RowsHashed'
  BY WellFormedHashes DEF RowsHashed, Insert, RowsOf
<1>2. ASSUME NEW k \in 1 .. Len(c) PROVE c[k] \in db'
  BY InsertStores
<1>3. ASSUME NEW r \in db' PROVE r = Genesis \/ \E q \in db' : Follows(r, q)
  <2>1. CASE r \in db
    BY <2>1 DEF AncestorsStored, Insert
  <2>2. CASE r \in RowsOf(c)
    <3>1. PICK k \in 1 .. Len(c) : r = c[k]
      BY <2>2 DEF RowsOf
    <3>2. CASE k = 1
      BY <3>1, <3>2 DEF WellFormed
    <3>3. CASE k # 1
      <4>1. k \in 2 .. Len(c) /\ k - 1 \in 1 .. Len(c)
        BY <3>3
      <4>2. Follows(c[k], c[k - 1]) /\ c[k - 1] \in db'
        BY <1>2, <4>1 DEF WellFormed
      <4> QED BY <3>1, <4>2
    <3> QED BY <3>2, <3>3
  <2> QED BY <2>1, <2>2 DEF Insert
<1> QED BY <1>1, <1>3 DEF AncestorsStored

\* The inductive form of AncestorsStored holds for ever.
THEOREM DatabaseKept == Spec => []DatabaseInv
<1>1. Init => DatabaseInv
  BY GenesisChain
     DEF Init, DatabaseInv, ChainsWellFormed, RowsHashed, AncestorsStored
<1>2. TypeOK /\ DatabaseInv /\ [Next]_vars => DatabaseInv'
  <2> SUFFICES ASSUME TypeOK, DatabaseInv, [Next]_vars PROVE DatabaseInv'
    OBVIOUS
  <2>1. ChainsWellFormed'
    BY ChainsStep DEF DatabaseInv
  <2>2. CASE db' = db
    BY <2>1, <2>2 DEF DatabaseInv, RowsHashed, AncestorsStored
  <2>3. CASE db' # db
    <3>1. PICK p \in Proc : CommitSave(p)
      BY <2>3, DatabaseWrites
    <3>2. copy[p] \in Seq(Block) /\ WellFormed(copy[p])
      BY <3>1 DEF CommitSave, DatabaseInv, ChainsWellFormed, TypeOK
    <3> QED
      BY <2>1, <3>1, <3>2, InsertKeepsAncestors
         DEF DatabaseInv, CommitSave
  <2> QED BY <2>2, <2>3
<1> QED BY <1>1, <1>2, TypeCorrect, PTL DEF Spec

\* Whatever crashes or fails, and however the clock jumps, every row of the
\* database has its predecessor beside it (Save, Load).
THEOREM AncestorsAlwaysStored == Spec => []AncestorsStored
<1>1. DatabaseInv => AncestorsStored
  BY DEF DatabaseInv
<1> QED BY <1>1, DatabaseKept, PTL
-----------------------------------------------------------------------------
(***************************************************************************)
(* Load.  While the clock goes forward every block that was ever accepted  *)
(* can be accepted again, as far as the block alone decides it.  So a row  *)
(* is refused only when it does not follow the tip; and when the tip moves *)
(* on, to a row that has just been read, none of those read before, with   *)
(* smaller or equal indices, can follow it.                                *)
(***************************************************************************)
Sound(r) ==
  \/ r = Genesis
  \/ HashMatches(r) /\ r.bpm >= 0 /\ NotInFuture(r, clock)

AllSound ==
  /\ \A r \in db : Sound(r)
  /\ \A p \in Proc :
       /\ \A r \in RowsOf(chain[p]) : Sound(r)
       /\ phase[p] = "saving" => \A r \in RowsOf(copy[p]) : Sound(r)

SoundInv == ~setBack => AllSound

\* What a load has passed cannot be appended, its chain is made of that, and
\* what the process saved is among what its query returned.
LoadInv ==
  \A p \in Proc : phase[p] = "loading" =>
    /\ read[p] \subseteq result[p] /\ result[p] \subseteq db
    /\ \A r \in read[p], q \in result[p] \ read[p] : r.index <= q.index
    /\ RowsOf(chain[p]) \subseteq read[p] \union {Genesis}
    /\ \A k \in 2 .. Len(saved[p]) : saved[p][k] \in result[p]
    /\ ~setBack => \A r \in read[p] : ~Follows(r, Tip(chain[p]))

SavedInv ==
  \A p \in Proc : /\ WellFormed(saved[p])
                  /\ \A k \in 2 .. Len(saved[p]) : saved[p][k] \in db

ReloadInv == SoundInv /\ LoadInv /\ SavedInv /\ UnforkedSurvives

\* What a step does to one process.
Still(p) == UNCHANGED <<phase[p], chain[p], result[p], read[p], copy[p], saved[p]>>

LEMMA StepOf ==
  ASSUME TypeOK, [Next]_vars, NEW p \in Proc
  PROVE  \/ Start(p) \/ LoadRow(p) \/ EndLoad(p)
         \/ \E b \in Block : Extend(p, b)
         \/ BeginSave(p) \/ CommitSave(p) \/ FailSave(p) \/ Crash(p)
         \/ Still(p)
<1>1. ASSUME NEW q \in Proc, q # p,
             Start(q) \/ EndLoad(q) \/ BeginSave(q) \/ CommitSave(q)
               \/ FailSave(q) \/ Crash(q)
      PROVE  Still(p)
  BY <1>1
  DEF Start, EndLoad, BeginSave, CommitSave, FailSave, Crash, Goto, Still, TypeOK
<1>2. ASSUME NEW q \in Proc, q # p, LoadRow(q) PROVE Still(p)
  BY <1>2 DEF LoadRow, Still, TypeOK
<1>3. ASSUME NEW q \in Proc, q # p, NEW b \in Block, Extend(q, b)
      PROVE  Still(p)
  BY <1>3 DEF Extend, Still, TypeOK
<1>4. ASSUME UNCHANGED vars \/ \E t \in Clock : ClockMoves(t)
      PROVE  Still(p)
  BY <1>4 DEF vars, ClockMoves, Still
<1> QED BY <1>1, <1>2, <1>3, <1>4 DEF Next

\* Rows stay, and a clock that is never set back only goes forward.
LEMMA OnlyForward ==
  ASSUME TypeOK, [Next]_vars
  PROVE  /\ db \subseteq db'
         /\ ~setBack' => ~setBack /\ clock' >= clock
         /\ clock \in Int /\ clock' \in Int
<1>1. ASSUME NEW t \in Clock, ClockMoves(t)
      PROVE  /\ db \subseteq db'
             /\ ~setBack' => ~setBack /\ clock' >= clock
             /\ clock \in Int /\ clock' \in Int
  <2>1. clock \in Int /\ t \in Int /\ clock' = t /\ db' = db
    BY <1>1, StorageAssumption DEF ClockMoves, TypeOK
  <2>2. setBack' = (setBack \/ t < clock)
    BY <1>1 DEF ClockMoves
  <2>3. ~setBack' => ~setBack /\ ~(t < clock)
    BY <2>2, Zenon DEF TypeOK
  <2> QED BY <2>1, <2>3
<1>2. CASE \A t \in Clock : ~ClockMoves(t)
  <2>1. setBack' = setBack /\ clock' = clock
    BY <1>2 DEF Next, vars, Start, LoadRow, EndLoad, Extend, BeginSave,
                CommitSave, FailSave, Crash
  <2>2. db \subseteq db'
    BY DatabaseWrites DEF CommitSave, Insert
  <2> QED BY <2>1, <2>2, StorageAssumption DEF TypeOK
<1> QED BY <1>1, <1>2

LEMMA RowsOfAppend ==
  ASSUME NEW c \in Seq(Block), NEW b \in Block
  PROVE  RowsOf(Append(c, b)) = RowsOf(c) \union {b}
<1> DEFINE d == Append(c, b)
<1>1. /\ Len(d) = Len(c) + 1 /\ Len(c) \in Nat
      /\ \A k \in 1 .. Len(c) : d[k] = c[k]
      /\ d[Len(c) + 1] = b
  BY AppendProperties
<1> HIDE DEF d
<1>2. RowsOf(d) \subseteq RowsOf(c) \union {b}
  BY <1>1 DEF RowsOf
<1>3. RowsOf(c) \union {b} \subseteq RowsOf(d)
  <2>1. 1 .. Len(c) \subseteq 1 .. Len(d) /\ Len(c) + 1 \in 1 .. Len(d)
    BY <1>1
  <2> QED BY <1>1, <2>1 DEF RowsOf
<1> QED BY <1>2, <1>3 DEF d

LEMMA RowsOfGenesis == RowsOf(<<Genesis>>) = {Genesis}
BY DEF RowsOf

\* An accepted block is sound, and what is sound stays so.
LEMMA SoundKept ==
  ASSUME TypeOK, SoundInv, [Next]_vars
  PROVE  SoundInv'
<1> SUFFICES ASSUME ~setBack' PROVE AllSound'
  BY DEF SoundInv
<1>1. AllSound /\ clock' >= clock /\ clock \in Int /\ clock' \in Int
  BY OnlyForward DEF SoundInv
<1>2. ASSUME NEW r \in Block, Sound(r) PROVE Sound(r)'
  <2>1. r.time \in Int /\ MaxTimeDrift \in Int
    BY BlockAssumption
  <2> QED BY <1>1, <1>2, <2>1 DEF Sound, NotInFuture
<1>3. ASSUME NEW c \in Seq(Block), NEW r \in Block, Accepts(c, r, clock)
      PROVE  Sound(r)
  BY <1>3 DEF Accepts, ValidAfter, Sound
<1>4. ASSUME NEW p \in Proc, NEW r \in RowsOf(chain'[p]) PROVE Sound(r)'
  <2>1. CASE chain'[p] = chain[p]
    <3>1. Sound(r) /\ r \in Block
      BY <1>1, <1>4, <2>1 DEF AllSound, RowsOf, TypeOK
    <3> QED BY <1>2, <3>1
  <2>2. CASE Start(p)
    BY <1>4, <2>2, RowsOfGenesis DEF Start, TypeOK, Sound
  <2>3. ASSUME NEW b \in Block, Accepts(chain[p], b, clock),
               chain' = [chain EXCEPT ![p] = Append(@, b)]
        PROVE  Sound(r)'
    <3>1. chain[p] \in Seq(Block) /\ chain'[p] = Append(chain[p], b)
      BY <2>3 DEF TypeOK
    <3>2. r \in RowsOf(chain[p]) \/ r = b
      BY <1>4, <3>1, RowsOfAppend
    <3>3. Sound(b)
      BY <1>3, <2>3, <3>1
    <3>4. \A x \in RowsOf(chain[p]) : Sound(x) /\ x \in Block
      BY <1>1, <3>1 DEF AllSound, RowsOf
    <3> QED BY <1>2, <3>2, <3>3, <3>4
  <2>4. CASE LoadRow(p)
    <3>1. PICK b \in NextRow(result[p] \ read[p]) :
            chain' = IF Accepts(chain[p], b, clock)
                     THEN [chain EXCEPT ![p] = Append(@, b)] ELSE chain
      BY <2>4 DEF LoadRow
    <3>2. b \in Block
      BY <3>1, NextRowIsRow DEF TypeOK
    <3> QED BY <2>1, <2>3, <3>1, <3>2
  <2>5. ASSUME NEW b \in Block, Extend(p, b) PROVE Sound(r)'
    BY <2>3, <2>5 DEF Extend
  <2>6. \/ EndLoad(p) \/ BeginSave(p) \/ CommitSave(p) \/ FailSave(p)
        \/ Crash(p) \/ Still(p)
        => chain'[p] = chain[p]
    BY DEF EndLoad, BeginSave, CommitSave, FailSave, Crash, Still
  <2> QED BY <2>1, <2>2, <2>4, <2>5, <2>6, StepOf
<1>5. ASSUME NEW p \in Proc, phase'[p] = "saving", NEW r \in RowsOf(copy'[p])
      PROVE  Sound(r)'
  <2>1. CASE BeginSave(p)
    <3>1. copy'[p] = chain'[p]
      BY <2>1 DEF BeginSave, TypeOK
    <3> QED BY <1>4, <1>5, <3>1
  <2>2. CASE copy'[p] = copy[p] /\ phase[p] = "saving"
    <3>1. r \in RowsOf(copy[p]) /\ copy[p] \in Seq(Block)
      BY <1>5, <2>2 DEF TypeOK
    <3>2. Sound(r)
      BY <1>1, <2>2, <3>1 DEF AllSound
    <3>3. r \in Block
      BY <3>1 DEF RowsOf
    <3> QED BY <1>2, <3>2, <3>3
  <2>3. \/ \E b \in Block : Extend(p, b)
        \/ Still(p)
        => copy'[p] = copy[p] /\ phase[p] = "saving"
    BY <1>5 DEF Extend, Still
  <2>4. ~(\/ Start(p) \/ LoadRow(p) \/ EndLoad(p) \/ CommitSave(p)
          \/ FailSave(p) \/ Crash(p))
    BY <1>5
    DEF Start, LoadRow, EndLoad, CommitSave, FailSave, Crash, Goto, TypeOK
  <2> QED BY <2>1, <2>2, <2>3, <2>4, StepOf
<1>6. ASSUME NEW r \in db' PROVE Sound(r)'
  <2>1. Sound(r) /\ r \in Block
    <3>1. CASE r \in db
      BY <1>1, <3>1 DEF AllSound, TypeOK
    <3>2. CASE r \notin db
      <4>1. PICK p \in Proc : CommitSave(p)
        BY <1>6, <3>2, DatabaseWrites
      <4>2. r \in RowsOf(copy[p]) /\ phase[p] = "saving"
        BY <1>6, <3>2, <4>1 DEF CommitSave, Insert
      <4> QED BY <1>1, <4>2 DEF AllSound, RowsOf, TypeOK
    <3> QED BY <3>1, <3>2
  <2> QED BY <1>2, <2>1
<1> QED BY <1>4, <1>5, <1>6 DEF AllSound

\* A row the load passes is appended, or does not follow the tip; and once one
\* is appended, those read before have too small an index.
LEMMA PassedKept ==
  ASSUME TypeOK, DatabaseInv, SoundInv, LoadInv, ~setBack,
         NEW p \in Proc, phase[p] = "loading",
         NEW r \in result[p] \ read[p],
         NEW c, c = IF Accepts(chain[p], r, clock) THEN Append(chain[p], r)
                    ELSE chain[p],
         NEW x \in read[p] \union {r}
  PROVE  ~Follows(x, Tip(c))
<1>1. /\ r \in db /\ r \in Block /\ x \in db /\ x \in Block
      /\ chain[p] \in Seq(Block) /\ WellFormed(chain[p])
  BY DEF LoadInv, TypeOK, DatabaseInv, ChainsWellFormed
<1>2. CASE Accepts(chain[p], r, clock)
  <2>1. Tip(c) = r
    BY <1>1, <1>2, AppendProperties DEF Tip
  <2>2. x.index <= r.index /\ x.index \in Int /\ r.index \in Int
    BY <1>1, BlockAssumption DEF LoadInv
  <2> QED BY <2>1, <2>2 DEF Follows
<1>3. CASE ~Accepts(chain[p], r, clock)
  <2>1. CASE x \in read[p]
    BY <1>3, <2>1 DEF LoadInv
  <2>2. CASE x = r /\ r # Genesis
    <3>1. HashMatches(r) /\ r.bpm >= 0 /\ NotInFuture(r, clock)
      BY <1>1, <2>2 DEF SoundInv, AllSound, Sound
    <3> QED BY <1>3, <2>2, <3>1 DEF Accepts, ValidAfter
  <2>3. CASE x = Genesis
    <3>1. Len(chain[p]) \in 1 .. Len(chain[p])
      BY <1>1 DEF WellFormed
    <3>2. Tip(chain[p]).index = Len(chain[p]) - 1
      BY <1>1, <3>1, IndexIsPosition DEF Tip
    <3> QED BY <1>3, <2>3, <3>1, <3>2, GenesisProperties DEF Follows
  <2> QED BY <2>1, <2>2, <2>3
<1> QED BY <1>2, <1>3

LEMMA LoadRowKeeps ==
  ASSUME TypeOK, DatabaseInv, SoundInv, LoadInv, NEW p \in Proc, LoadRow(p)
  PROVE  /\ read'[p] \subseteq result'[p] /\ result'[p] \subseteq db'
         /\ \A x \in read'[p], q \in result'[p] \ read'[p] : x.index <= q.index
         /\ RowsOf(chain'[p]) \subseteq read'[p] \union {Genesis}
         /\ \A k \in 2 .. Len(saved'[p]) : saved'[p][k] \in result'[p]
         /\ ~setBack' => \A x \in read'[p] : ~Follows(x, Tip(chain'[p]))
<1>1. PICK r \in NextRow(result[p] \ read[p]) :
        /\ chain' = IF Accepts(chain[p], r, clock)
                    THEN [chain EXCEPT ![p] = Append(@, r)] ELSE chain
        /\ read' = [read EXCEPT ![p] = @ \union {r}]
  BY DEF LoadRow
<1>2. /\ phase[p] = "loading" /\ result' = result /\ saved' = saved
      /\ db' = db /\ setBack' = setBack
  BY DEF LoadRow
<1>3. /\ r \in result[p] \ read[p] /\ r \in Block
      /\ \A q \in result[p] \ read[p] : r.index <= q.index
  BY <1>1 DEF NextRow, TypeOK
<1>4. read'[p] = read[p] \union {r}
  BY <1>1 DEF TypeOK
<1>5. chain'[p] = IF Accepts(chain[p], r, clock) THEN Append(chain[p], r)
                  ELSE chain[p]
  BY <1>1 DEF TypeOK
<1>6. /\ read'[p] \subseteq result'[p] /\ result'[p] \subseteq db'
      /\ \A k \in 2 .. Len(saved'[p]) : saved'[p][k] \in result'[p]
  BY <1>2, <1>3, <1>4 DEF LoadInv
<1>7. \A x \in read'[p], q \in result'[p] \ read'[p] : x.index <= q.index
  BY <1>2, <1>3, <1>4 DEF LoadInv
<1>8. RowsOf(chain'[p]) \subseteq read'[p] \union {Genesis}
  <2>1. RowsOf(chain[p]) \subseteq read[p] \union {Genesis}
    BY <1>2 DEF LoadInv
  <2>2. RowsOf(chain'[p]) \subseteq RowsOf(chain[p]) \union {r}
    BY <1>3, <1>5, RowsOfAppend DEF TypeOK
  <2> QED BY <1>4, <2>1, <2>2
<1>9. ~setBack' => \A x \in read'[p] : ~Follows(x, Tip(chain'[p]))
  BY <1>2, <1>3, <1>4, <1>5, PassedKept
<1> QED BY <1>6, <1>7, <1>8, <1>9

LEMMA LoadKept ==
  ASSUME TypeOK, DatabaseInv, SoundInv, LoadInv, SavedInv, [Next]_vars
  PROVE  LoadInv'
<1> SUFFICES
      ASSUME NEW p \in Proc, phase'[p] = "loading"
      PROVE  /\ read'[p] \subseteq result'[p] /\ result'[p] \subseteq db'
             /\ \A x \in read'[p], q \in result'[p] \ read'[p] : x.index <= q.index
             /\ RowsOf(chain'[p]) \subseteq read'[p] \union {Genesis}
             /\ \A k \in 2 .. Len(saved'[p]) : saved'[p][k] \in result'[p]
             /\ ~setBack' => \A x \in read'[p] : ~Follows(x, Tip(chain'[p]))
  BY DEF LoadInv
<1>1. CASE Start(p)
  <2>1. /\ read'[p] = {} /\ result'[p] = db /\ db' = db
        /\ chain'[p] = <<Genesis>> /\ saved' = saved
    BY <1>1 DEF Start, TypeOK
  <2> QED BY <2>1, RowsOfGenesis DEF SavedInv
<1>2. CASE LoadRow(p)
  BY <1>2, LoadRowKeeps
<1>3. CASE Still(p)
  BY <1>3, OnlyForward DEF Still, LoadInv
<1>4. \A b \in Block : ~Extend(p, b)
  BY DEF Extend
<1>5. ~(EndLoad(p) \/ BeginSave(p) \/ CommitSave(p) \/ FailSave(p) \/ Crash(p))
  BY DEF EndLoad, BeginSave, CommitSave, FailSave, Crash, Goto, TypeOK
<1> QED BY <1>1, <1>2, <1>3, <1>4, <1>5, StepOf

LEMMA SavedKept ==
  ASSUME TypeOK, DatabaseInv, SavedInv, [Next]_vars
  PROVE  SavedInv'
<1> SUFFICES ASSUME NEW p \in Proc
             PROVE  /\ WellFormed(saved'[p])
                    /\ \A k \in 2 .. Len(saved'[p]) : saved'[p][k] \in db'
  BY DEF SavedInv
<1>1. CASE saved'[p] = saved[p]
  BY <1>1, OnlyForward DEF SavedInv
<1>2. CASE CommitSave(p)
  <2>1. /\ saved'[p] = copy[p] /\ db' = Insert(copy[p])
        /\ copy[p] \in Seq(Block) /\ WellFormed(copy[p])
    BY <1>2 DEF CommitSave, TypeOK, DatabaseInv, ChainsWellFormed
  <2> QED BY <2>1, InsertStores DEF DatabaseInv
<1>3. \/ Start(p) \/ LoadRow(p) \/ EndLoad(p) \/ \E b \in Block : Extend(p, b)
      \/ BeginSave(p) \/ FailSave(p) \/ Crash(p) \/ Still(p)
      => saved'[p] = saved[p]
  BY DEF Start, LoadRow, EndLoad, Extend, BeginSave, FailSave, Crash, Still
<1> QED BY <1>1, <1>2, <1>3, StepOf
-----------------------------------------------------------------------------
(***************************************************************************)
(* What was saved is there again.  In a table of a single branch the index *)
(* determines the row, so what is loaded and what was saved agree as far   *)
(* as both go; and the load does not stop before the end of what was       *)
(* saved, whose next block would follow the tip.                           *)
(***************************************************************************)
Unforked == \A q, r \in db : q.index = r.index => q = r

LEMMA PrefixByElements ==
  ASSUME NEW c \in Seq(Block), NEW d \in Seq(Block)
  PROVE  Len(d) <= Len(c) /\ SubSeq(c, 1, Len(d)) = d
         <=> Len(d) <= Len(c) /\ \A k \in 1 .. Len(d) : c[k] = d[k]
<1> SUFFICES ASSUME Len(d) <= Len(c)
             PROVE  SubSeq(c, 1, Len(d)) = d <=> \A k \in 1 .. Len(d) : c[k] = d[k]
  OBVIOUS
<1> DEFINE e == SubSeq(c, 1, Len(d))
<1>1. /\ e \in Seq(Block) /\ Len(e) = Len(d)
      /\ \A k \in 1 .. Len(d) : e[k] = c[k]
  BY SubSeqProperties
<1> HIDE DEF e
<1>2. e = d <=> \A k \in 1 .. Len(d) : e[k] = d[k]
  BY <1>1, SeqEqual
<1>3. e = d <=> \A k \in 1 .. Len(d) : c[k] = d[k]
  BY <1>1, <1>2
<1> QED BY <1>3 DEF e

LEMMA LoadedHasAgain ==
  ASSUME TypeOK, DatabaseInv, LoadInv, SavedInv, ~setBack, Unforked,
         NEW p \in Proc, phase[p] = "loading", result[p] = read[p]
  PROVE  /\ Len(saved[p]) <= Len(chain[p])
         /\ SubSeq(chain[p], 1, Len(saved[p])) = saved[p]
<1> DEFINE c == chain[p] d == saved[p]
<1>1. /\ c \in Seq(Block) /\ WellFormed(c) /\ d \in Seq(Block) /\ WellFormed(d)
  BY DEF TypeOK, DatabaseInv, ChainsWellFormed, SavedInv
<1>2. Len(c) \in Nat \ {0} /\ Len(d) \in Nat \ {0} /\ c[1] = d[1]
  BY <1>1 DEF WellFormed
<1>3. /\ \A k \in 1 .. Len(c) : c[k].index = k - 1
      /\ \A k \in 1 .. Len(d) : d[k].index = k - 1
  BY <1>1, IndexIsPosition
<1>4. ASSUME NEW k \in 1 .. Len(c), k \in 1 .. Len(d) PROVE c[k] = d[k]
  <2>1. CASE k = 1
    BY <1>2, <2>1
  <2>2. CASE k # 1
    <3>1. c[k] # Genesis
      BY <1>3, <2>2, GenesisProperties
    <3>2. c[k] \in db
      BY <3>1 DEF LoadInv, RowsOf
    <3>3. d[k] \in db
      BY <1>4, <2>2 DEF SavedInv
    <3>4. c[k].index = d[k].index
      BY <1>3, <1>4
    <3> QED BY <3>2, <3>3, <3>4 DEF Unforked
  <2> QED BY <2>1, <2>2
<1>5. Len(d) <= Len(c)
  <2> SUFFICES ASSUME Len(c) < Len(d) PROVE FALSE
    BY <1>2
  <2> DEFINE k == Len(c) + 1
  <2>1. k \in 2 .. Len(d) /\ k - 1 = Len(c) /\ Len(c) \in 1 .. Len(c)
        /\ Len(c) \in 1 .. Len(d)
    BY <1>2
  <2>2. Follows(d[k], d[k - 1])
    BY <1>1, <2>1 DEF WellFormed
  <2>3. d[k - 1] = Tip(c)
    BY <1>4, <2>1 DEF Tip
  <2>4. d[k] \in read[p]
    BY <2>1 DEF LoadInv
  <2> QED BY <2>2, <2>3, <2>4 DEF LoadInv
<1>6. \A k \in 1 .. Len(d) : c[k] = d[k]
  BY <1>2, <1>4, <1>5
<1> HIDE DEF c, d
<1>7. Len(d) <= Len(c) /\ SubSeq(c, 1, Len(d)) = d
  BY <1>1, <1>5, <1>6, PrefixByElements
<1> QED BY <1>7 DEF c, d

LEMMA AppendKeepsPrefix ==
  ASSUME NEW c \in Seq(Block), NEW d \in Seq(Block), NEW b \in Block,
         Len(d) <= Len(c), SubSeq(c, 1, Len(d)) = d
  PROVE  /\ Len(d) <= Len(Append(c, b))
         /\ SubSeq(Append(c, b), 1, Len(d)) = d
<1> DEFINE e == Append(c, b)
<1>1. /\ e \in Seq(Block) /\ Len(e) = Len(c) + 1
      /\ \A k \in 1 .. Len(c) : e[k] = c[k]
  BY AppendProperties
<1>2. Len(d) \in Nat /\ Len(c) \in Nat /\ \A k \in 1 .. Len(d) : c[k] = d[k]
  BY PrefixByElements
<1> HIDE DEF e
<1>3. Len(d) <= Len(e) /\ \A k \in 1 .. Len(d) : e[k] = d[k]
  BY <1>1, <1>2
<1>4. Len(d) <= Len(e) /\ SubSeq(e, 1, Len(d)) = d
  BY <1>1, <1>3, PrefixByElements
<1> QED BY <1>4 DEF e

LEMMA SurvivesKept ==
  ASSUME TypeOK, DatabaseInv, LoadInv, SavedInv, UnforkedSurvives, [Next]_vars
  PROVE  UnforkedSurvives'
<1> SUFFICES ASSUME ~setBack', Unforked', NEW p \in Proc,
                    phase'[p] \in {"up", "saving"}
             PROVE  /\ Len(saved'[p]) <= Len(chain'[p])
                    /\ SubSeq(chain'[p], 1, Len(saved'[p])) = saved'[p]
  BY DEF UnforkedSurvives, HasAgain, Unforked
<1>1. ~setBack /\ Unforked
  BY OnlyForward DEF Unforked
<1>2. phase[p] \in {"up", "saving"} =>
        /\ Len(saved[p]) <= Len(chain[p])
        /\ SubSeq(chain[p], 1, Len(saved[p])) = saved[p]
  BY <1>1 DEF UnforkedSurvives, HasAgain, Unforked
<1>3. CASE EndLoad(p)
  BY <1>1, <1>3, LoadedHasAgain DEF EndLoad
<1>4. ASSUME NEW b \in Block, Extend(p, b)
      PROVE  /\ Len(saved'[p]) <= Len(chain'[p])
             /\ SubSeq(chain'[p], 1, Len(saved'[p])) = saved'[p]
  <2>1. /\ chain[p] \in Seq(Block) /\ saved[p] \in Seq(Block)
        /\ chain'[p] = Append(chain[p], b) /\ saved'[p] = saved[p]
        /\ phase[p] \in {"up", "saving"}
    BY <1>4 DEF Extend, TypeOK
  <2> QED BY <1>2, <2>1, AppendKeepsPrefix
<1>5. CASE BeginSave(p) \/ Still(p)
  BY <1>2, <1>5 DEF BeginSave, Still
<1>6. ~(Start(p) \/ LoadRow(p) \/ CommitSave(p) \/ FailSave(p) \/ Crash(p))
  BY DEF Start, LoadRow, CommitSave, FailSave, Crash, Goto, TypeOK
<1> QED BY <1>3, <1>4, <1>5, <1>6, StepOf

\* What loads and saves rely on holds for ever.
THEOREM ReloadKept == Spec => []ReloadInv
<1>1. Init => ReloadInv
  <2>1. Len(<<Genesis>>) = 1 /\ <<Genesis>>[1] = Genesis
    OBVIOUS
  <2>2. Init => SoundInv
    BY RowsOfGenesis DEF Init, SoundInv, AllSound, Sound
  <2>3. Init => LoadInv /\ UnforkedSurvives
    BY DEF Init, LoadInv, UnforkedSurvives, HasAgain
  <2>4. Init => SavedInv
    BY <2>1, GenesisChain DEF Init, SavedInv
  <2> QED BY <2>2, <2>3, <2>4 DEF ReloadInv
<1>2. TypeOK /\ DatabaseInv /\ ReloadInv /\ [Next]_vars => ReloadInv'
  BY SoundKept, LoadKept, SavedKept, SurvivesKept DEF ReloadInv
<1> QED BY <1>1, <1>2, TypeCorrect, DatabaseKept, PTL DEF Spec

\* While the clock was not set back a load ends only where none of the rows of
\* its query can be appended, whichever branches they belong to (Load).
THEOREM LoadAlwaysReachesLeaf == Spec => []LoadReachesLeaf
<1>1. ReloadInv => LoadReachesLeaf
  BY DEF ReloadInv, LoadInv, LoadReachesLeaf, Accepts, ValidAfter
<1> QED BY <1>1, ReloadKept, PTL

\* While the table holds a single branch and the clock was not set back, a
\* process has after any restart all that it once saved with success, however
\* the saves and crashes of others fall in between (Load, Save).
THEOREM UnforkedAlwaysSurvives == Spec => []UnforkedSurvives
<1>1. ReloadInv => UnforkedSurvives
  BY DEF ReloadInv
<1> QED BY <1>1, ReloadKept, PTL
=============================================================================
