---------------------------- MODULE SeedRegistry ----------------------------
(***************************************************************************)
(* The list of peers that cmd/seed hands out: updatePeers enters who is    *)
(* connected, cleanupPeers forgets who was not for a while, handleSeeds    *)
(* answers.  The three share s.mu, which handleSeeds keeps while it writes *)
(* to its client; updatePeers asks the server for its peers before it has  *)
(* s.mu.                                                                   *)
(*                                                                         *)
(* Time passes in ticks.  A time of the code is kept as the ticks passed   *)
(* since.  An entry has an address of the seed server in front of the ID   *)
(* of the peer; all the addresses are entered together, so an entry stands *)
(* for the ID.                                                             *)
(***************************************************************************)
EXTENDS Integers

CONSTANTS
  Peer,
  UpdatePeriod, CleanupPeriod, TTL,
  Delay,   \* by how much a loop is late at most, waiting for s.mu included
  Horizon  \* a bound of the instance: no longer times are told apart

ASSUME SeedAssumption ==
  /\ {UpdatePeriod, CleanupPeriod, TTL, Delay, Horizon} \subseteq Nat
  /\ TTL >= UpdatePeriod + Delay
  /\ Horizon > TTL + CleanupPeriod + 2 * Delay

VARIABLES
  connected, \* the keys of the server's peers
  since,     \* since[p]: ticks since p was last connected or disconnected
  seen,      \* seen[p]: the age of p's entry, or Unlisted
  asked,     \* whether updatePeers has asked for the peers
  snapshot,  \* what it was told
  updated,   \* ticks since updatePeers returned
  cleaned,   \* ticks since cleanupPeers returned
  serving    \* whether handleSeeds writes to a client

vars == <<connected, since, seen, asked, snapshot, updated, cleaned, serving>>

Unlisted == -1

Listed == {p \in Peer : seen[p] # Unlisted}

MaxAge == TTL + CleanupPeriod + Delay

TypeOK ==
  /\ connected \subseteq Peer
  /\ since \in [Peer -> 0 .. Horizon]
  /\ seen \in [Peer -> {Unlisted} \union 0 .. MaxAge]
  /\ asked \in BOOLEAN
  /\ snapshot \subseteq Peer
  /\ updated \in 0 .. UpdatePeriod + Delay
  /\ cleaned \in 0 .. CleanupPeriod + Delay
  /\ serving \in BOOLEAN

Init ==
  /\ connected = {} /\ since = [p \in Peer |-> 0]
  /\ seen = [p \in Peer |-> Unlisted]
  /\ asked = FALSE /\ snapshot = {}
  /\ updated = 0 /\ cleaned = 0
  /\ serving = FALSE
-----------------------------------------------------------------------------
\* The server registers and forgets peers.
Connect(p) ==
  /\ p \notin connected
  /\ connected' = connected \union {p}
  /\ since' = [since EXCEPT ![p] = 0]
  /\ UNCHANGED <<seen, asked, snapshot, updated, cleaned, serving>>

Disconnect(p) ==
  /\ p \in connected
  /\ connected' = connected \ {p}
  /\ since' = [since EXCEPT ![p] = 0]
  /\ UNCHANGED <<seen, asked, snapshot, updated, cleaned, serving>>

\* updatePeers, before and after it has s.mu.
GetPeers ==
  /\ updated >= UpdatePeriod /\ ~asked
  /\ asked' = TRUE
  /\ snapshot' = connected
  /\ UNCHANGED <<connected, since, seen, updated, cleaned, serving>>

\* Refuted variants: an entry keeps the time it was made; all are renewed.
EnterOnce(p) ==
  IF p \in snapshot /\ seen[p] = Unlisted THEN 0 ELSE seen[p]
EnterAll(p) == IF p \in snapshot \/ seen[p] # Unlisted THEN 0 ELSE seen[p]

Enter(p) == IF p \in snapshot THEN 0 ELSE seen[p]

UpdatePeers ==
  /\ asked /\ ~serving
  /\ seen' = [p \in Peer |-> Enter(p)]
  /\ asked' = FALSE /\ snapshot' = {}
  /\ updated' = 0
  /\ UNCHANGED <<connected, since, cleaned, serving>>

\* A refuted variant: the difference the other way round.
ExpiredBefore(p) == -seen[p] > TTL
Expired(p) == seen[p] > TTL

CleanupPeers ==
  /\ cleaned >= CleanupPeriod /\ ~serving
  /\ seen' = [p \in Peer |-> IF Expired(p) THEN Unlisted ELSE seen[p]]
  /\ cleaned' = 0
  /\ UNCHANGED <<connected, since, asked, snapshot, updated, serving>>

HandleSeeds ==
  /\ ~serving
  /\ serving' = TRUE
  /\ UNCHANGED <<connected, since, seen, asked, snapshot, updated, cleaned>>

\* A refuted variant: returns without giving s.mu back.
AnsweredKeeping == serving /\ UNCHANGED vars

Answered ==
  /\ serving
  /\ serving' = FALSE
  /\ UNCHANGED <<connected, since, seen, asked, snapshot, updated, cleaned>>

\* Time passes, but not while a loop is as late as it may be.
Tick ==
  /\ updated < UpdatePeriod + Delay /\ cleaned < CleanupPeriod + Delay
  /\ updated' = updated + 1 /\ cleaned' = cleaned + 1
  /\ since' = [p \in Peer |->
                 IF since[p] = Horizon THEN Horizon ELSE since[p] + 1]
  /\ seen' = [p \in Peer |-> IF p \in Listed THEN seen[p] + 1 ELSE Unlisted]
  /\ UNCHANGED <<connected, asked, snapshot, serving>>

Next ==
  \/ \E p \in Peer : Connect(p) \/ Disconnect(p)
  \/ GetPeers \/ UpdatePeers \/ CleanupPeers
  \/ HandleSeeds \/ Answered
  \/ Tick

Spec == Init /\ [][Next]_vars

\* Time passes and the loops run.  An answer is sent in the end because it fits
\* the buffers of its connection, so that no client is waited for.  A sync.Mutex
\* is not kept for ever from a goroutine that waits for it.
Fairness ==
  /\ WF_vars(Tick) /\ WF_vars(GetPeers) /\ WF_vars(Answered)
  /\ SF_vars(UpdatePeers) /\ SF_vars(CleanupPeers)

FairSpec == Spec /\ Fairness
-----------------------------------------------------------------------------
\* A peer that left is forgotten in time: five minutes after it was last seen,
\* plus one turn of cleanupPeers, plus what the two loops are late.  The second
\* Delay is that of an update that had asked for the peers before this one left.
StaleBounded ==
  \A p \in Listed \ connected : since[p] <= TTL + CleanupPeriod + 2 * Delay

\* A peer that stays connected is listed after one turn of updatePeers, and is
\* never forgotten after that.
ConnectedListed ==
  \A p \in connected : since[p] > UpdatePeriod + 2 * Delay => p \in Listed

\* Whatever clients ask for, the list is renewed and cleaned again and again.
KeepsUpdating == []<>(updated = 0) /\ []<>(cleaned = 0)
=============================================================================
