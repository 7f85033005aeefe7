------------------------------- MODULE Ledger -------------------------------
(***************************************************************************)
(* What the Blockchain object promises, with no locks and no clock: the    *)
(* ledger is always well formed and only ever gets longer; history is      *)
(* given up only for a longer history; a listener is told of exactly the   *)
(* blocks appended since it began to listen, in order, and of nothing      *)
(* when the whole ledger is exchanged.                                     *)
(***************************************************************************)
EXTENDS Chain

CONSTANT Subscriber

VARIABLES
  ledger,     \* the current sequence of blocks
  listening,  \* who is told of appended blocks
  feed        \* feed[s]: the blocks s has been told of

vars == <<ledger, listening, feed>>

Init ==
  /\ ledger = <<Genesis>>
  /\ listening = {}
  /\ feed = [s \in Subscriber |-> <<>>]

Extend ==
  /\ \E b \in Block : ledger' = Append(ledger, b)
  /\ WellFormed(ledger')
  /\ feed' = [s \in Subscriber |->
                IF s \in listening THEN Append(feed[s], Tip(ledger'))
                ELSE feed[s]]
  /\ UNCHANGED listening

Adopt ==
  /\ Len(ledger') > Len(ledger)
  /\ WellFormed(ledger')
  /\ UNCHANGED <<listening, feed>>

Listen(s) ==
  /\ listening' = listening \union {s}
  /\ UNCHANGED <<ledger, feed>>

Next == Extend \/ Adopt \/ \E s \in Subscriber : Listen(s)

Spec == Init /\ [][Next]_vars
=============================================================================
