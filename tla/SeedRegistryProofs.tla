------------------------- MODULE SeedRegistryProofs -------------------------
(***************************************************************************)
(* Proofs about SeedRegistry: how old and how complete the list of peers   *)
(* may get, for any peers, periods and delays.                             *)
(***************************************************************************)
EXTENDS SeedRegistry, TLAPS

\* What updatePeers asked for is not older than its delay.
SnapshotFresh ==
  /\ asked => updated >= UpdatePeriod
  /\ \A p \in snapshot : asked
  /\ \A p \in snapshot \ connected : since[p] <= updated - UpdatePeriod
  /\ asked => \A p \in connected \ snapshot : since[p] <= updated - UpdatePeriod

\* An entry is hardly younger than the peer is gone, and cleanupPeers has
\* looked at it.
EntriesAge ==
  \A p \in Listed : /\ p \notin connected => since[p] <= seen[p] + Delay
                    /\ seen[p] <= TTL + cleaned

\* A peer that updatePeers has not entered connected after it had asked; one it
\* has entered is as old as its last turn.
ConnectedEntered ==
  \A p \in connected :
    \/ since[p] <= updated + Delay
    \/ p \in Listed /\ seen[p] <= updated

IInv == TypeOK /\ SnapshotFresh /\ EntriesAge /\ ConnectedEntered

USE DEF Unlisted, Listed, MaxAge

\* Nothing is connected, listed or asked for at the start.
LEMMA InitHolds == Init => IInv
<1> SUFFICES ASSUME Init PROVE IInv
  OBVIOUS
<1>1. TypeOK
  <2>1. asked \in BOOLEAN /\ serving \in BOOLEAN
    BY DEF Init
  <2>2. /\ updated \in 0 .. UpdatePeriod + Delay
        /\ cleaned \in 0 .. CleanupPeriod + Delay
    BY SeedAssumption DEF Init
  <2>3. since \in [Peer -> 0 .. Horizon]
    BY SeedAssumption DEF Init
  <2>4. /\ connected \subseteq Peer /\ snapshot \subseteq Peer
        /\ seen \in [Peer -> {Unlisted} \union 0 .. MaxAge]
    BY DEF Init
  <2> QED BY <2>1, <2>2, <2>3, <2>4 DEF TypeOK
<1>2. SnapshotFresh
  BY DEF Init, SnapshotFresh
<1>3. EntriesAge /\ ConnectedEntered
  BY DEF Init, EntriesAge, ConnectedEntered
<1> QED BY <1>1, <1>2, <1>3 DEF IInv

\* A peer that connects or leaves starts to count from 0.
LEMMA ConnectKeeps == ASSUME IInv, NEW p \in Peer, Connect(p) PROVE IInv'
<1>1. TypeOK'
  BY SeedAssumption DEF IInv, TypeOK, Connect
<1>2. SnapshotFresh'
  BY SeedAssumption DEF IInv, TypeOK, SnapshotFresh, Connect
<1>3. EntriesAge'
  BY SeedAssumption DEF IInv, TypeOK, EntriesAge, Connect
<1>4. ConnectedEntered'
  BY SeedAssumption DEF IInv, TypeOK, ConnectedEntered, Connect
<1> QED BY <1>1, <1>2, <1>3, <1>4 DEF IInv

LEMMA DisconnectKeeps == ASSUME IInv, NEW p \in Peer, Disconnect(p) PROVE IInv'
<1>1. TypeOK'
  BY SeedAssumption DEF IInv, TypeOK, Disconnect
<1>2. SnapshotFresh'
  BY SeedAssumption DEF IInv, TypeOK, SnapshotFresh, Disconnect
<1>3. EntriesAge'
  BY SeedAssumption DEF IInv, TypeOK, EntriesAge, Disconnect
<1>4. ConnectedEntered'
  BY SeedAssumption DEF IInv, TypeOK, ConnectedEntered, Disconnect
<1> QED BY <1>1, <1>2, <1>3, <1>4 DEF IInv

LEMMA GetPeersKeeps == ASSUME IInv, GetPeers PROVE IInv'
<1>1. TypeOK'
  <2>1. asked' \in BOOLEAN /\ serving' \in BOOLEAN
    BY DEF IInv, TypeOK, GetPeers
  <2>2. /\ connected' \subseteq Peer /\ snapshot' \subseteq Peer
        /\ since' \in [Peer -> 0 .. Horizon]
        /\ seen' \in [Peer -> {Unlisted} \union 0 .. MaxAge]
        /\ updated' \in 0 .. UpdatePeriod + Delay
        /\ cleaned' \in 0 .. CleanupPeriod + Delay
    BY DEF IInv, TypeOK, GetPeers
  <2> QED BY <2>1, <2>2 DEF TypeOK
<1>2. SnapshotFresh'
  BY SeedAssumption DEF IInv, TypeOK, SnapshotFresh, GetPeers
<1>3. EntriesAge' /\ ConnectedEntered'
  BY DEF IInv, EntriesAge, ConnectedEntered, GetPeers
<1> QED BY <1>1, <1>2, <1>3 DEF IInv

\* What is entered was connected when updatePeers asked.
LEMMA UpdateKeeps == ASSUME IInv, UpdatePeers PROVE IInv'
<1>1. TypeOK'
  <2>1. asked' \in BOOLEAN /\ serving' \in BOOLEAN
    BY DEF IInv, TypeOK, UpdatePeers
  <2>2. seen' \in [Peer -> {Unlisted} \union 0 .. MaxAge]
    BY SeedAssumption DEF IInv, TypeOK, UpdatePeers, Enter
  <2>3. /\ connected' \subseteq Peer /\ snapshot' \subseteq Peer
        /\ since' \in [Peer -> 0 .. Horizon]
        /\ updated' \in 0 .. UpdatePeriod + Delay
        /\ cleaned' \in 0 .. CleanupPeriod + Delay
    BY SeedAssumption DEF IInv, TypeOK, UpdatePeers
  <2> QED BY <2>1, <2>2, <2>3 DEF TypeOK
<1>2. SnapshotFresh'
  BY DEF SnapshotFresh, UpdatePeers
<1>3. EntriesAge'
  <2> SUFFICES ASSUME NEW p \in Listed'
               PROVE  /\ p \notin connected => since[p] <= seen'[p] + Delay
                      /\ seen'[p] <= TTL + cleaned
    BY DEF EntriesAge, UpdatePeers
  <2>1. CASE p \in snapshot
    BY <2>1, SeedAssumption
    DEF IInv, TypeOK, SnapshotFresh, UpdatePeers, Enter
  <2>2. CASE p \notin snapshot
    BY <2>2 DEF IInv, EntriesAge, UpdatePeers, Enter
  <2> QED BY <2>1, <2>2
<1>4. ConnectedEntered'
  <2> SUFFICES ASSUME NEW p \in connected
               PROVE  \/ since[p] <= 0 + Delay
                      \/ p \in Listed' /\ seen'[p] <= 0
    BY DEF ConnectedEntered, UpdatePeers
  <2>1. CASE p \in snapshot
    BY <2>1 DEF IInv, TypeOK, UpdatePeers, Enter
  <2>2. CASE p \notin snapshot
    BY <2>2, SeedAssumption DEF IInv, TypeOK, SnapshotFresh, UpdatePeers
  <2> QED BY <2>1, <2>2
<1> QED BY <1>1, <1>2, <1>3, <1>4 DEF IInv

\* No entry of a peer that stays connected expires: it is renewed before.
LEMMA CleanupKeeps == ASSUME IInv, CleanupPeers PROVE IInv'
<1>1. TypeOK'
  BY SeedAssumption DEF IInv, TypeOK, CleanupPeers, Expired
<1>2. SnapshotFresh'
  BY DEF IInv, SnapshotFresh, CleanupPeers
<1>3. EntriesAge'
  BY SeedAssumption DEF IInv, TypeOK, EntriesAge, CleanupPeers, Expired
<1>4. ConnectedEntered'
  BY SeedAssumption DEF IInv, TypeOK, ConnectedEntered, CleanupPeers, Expired
<1> QED BY <1>1, <1>2, <1>3, <1>4 DEF IInv

LEMMA TickKeeps == ASSUME IInv, Tick PROVE IInv'
<1>1. TypeOK'
  BY SeedAssumption DEF IInv, TypeOK, EntriesAge, Tick
<1>2. SnapshotFresh'
  BY SeedAssumption DEF IInv, TypeOK, SnapshotFresh, Tick
<1>3. EntriesAge'
  BY SeedAssumption DEF IInv, TypeOK, EntriesAge, Tick
<1>4. ConnectedEntered'
  BY SeedAssumption DEF IInv, TypeOK, ConnectedEntered, Tick
<1> QED BY <1>1, <1>2, <1>3, <1>4 DEF IInv

LEMMA AnswerKeeps == ASSUME IInv, HandleSeeds \/ Answered PROVE IInv'
<1>1. TypeOK'
  BY DEF IInv, TypeOK, HandleSeeds, Answered
<1>2. SnapshotFresh'
  BY DEF IInv, SnapshotFresh, HandleSeeds, Answered
<1>3. EntriesAge' /\ ConnectedEntered'
  BY DEF IInv, EntriesAge, ConnectedEntered, HandleSeeds, Answered
<1> QED BY <1>1, <1>2, <1>3 DEF IInv

LEMMA NextKeeps == IInv /\ [Next]_vars => IInv'
<1> SUFFICES ASSUME IInv, [Next]_vars PROVE IInv'
  OBVIOUS
<1>1. CASE \E p \in Peer : Connect(p) \/ Disconnect(p)
  BY <1>1, ConnectKeeps, DisconnectKeeps
<1>2. CASE GetPeers BY <1>2, GetPeersKeeps
<1>3. CASE UpdatePeers BY <1>3, UpdateKeeps
<1>4. CASE CleanupPeers BY <1>4, CleanupKeeps
<1>5. CASE HandleSeeds \/ Answered
  BY <1>5, AnswerKeeps
<1>6. CASE Tick BY <1>6, TickKeeps
<1>7. CASE UNCHANGED vars
  BY <1>7 DEF IInv, TypeOK, SnapshotFresh, EntriesAge, ConnectedEntered, vars
<1> QED BY <1>1, <1>2, <1>3, <1>4, <1>5, <1>6, <1>7 DEF Next

\* What the loops keep about the ages of the entries.
THEOREM Inductive == Spec => []IInv
  BY InitHolds, NextKeeps, PTL DEF Spec

\* The ages, and the times since a loop ran, never leave their ranges.
THEOREM TypeCorrect == Spec => []TypeOK
<1>1. IInv => TypeOK
  BY DEF IInv
<1> QED BY <1>1, Inductive, PTL

\* Whatever comes and goes, /seeds never lists a peer that is gone for longer
\* than the time to live, one turn of cleanupPeers and both delays.
THEOREM AlwaysStaleBounded == Spec => []StaleBounded
<1>1. IInv => StaleBounded
  <2> SUFFICES ASSUME IInv, NEW p \in Listed \ connected
               PROVE  since[p] <= TTL + CleanupPeriod + 2 * Delay
    BY DEF StaleBounded
  <2>1. since[p] <= seen[p] + Delay /\ seen[p] <= TTL + cleaned
    BY DEF IInv, EntriesAge
  <2>2. /\ since[p] \in Int /\ seen[p] \in Int
        /\ cleaned \in Int /\ cleaned <= CleanupPeriod + Delay
    BY SeedAssumption DEF IInv, TypeOK
  <2>3. TTL \in Int /\ CleanupPeriod \in Int /\ Delay \in Int
    BY SeedAssumption
  <2> QED BY <2>1, <2>2, <2>3
<1> QED BY <1>1, Inductive, PTL

\* Whoever stays connected is listed after one turn of updatePeers, and stays
\* listed: cleanupPeers never comes before the next turn.
THEOREM ConnectedAlwaysListed == Spec => []ConnectedListed
<1>1. IInv => ConnectedListed
  BY SeedAssumption DEF IInv, TypeOK, ConnectedEntered, ConnectedListed
<1> QED BY <1>1, Inductive, PTL
=============================================================================
