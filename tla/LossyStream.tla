---------------------------- MODULE LossyStream -----------------------------
(***************************************************************************)
(* What SendMessage and ReadMessage (internal/p2p/peer.go) make of a       *)
(* stream: messages arrive in the order in which they were sent, each at   *)
(* most once and unchanged.  With a message the reader may lose any number *)
(* of those that follow it, and the beginning of one more; the reader      *)
(* cannot decode the rest of that one and stops for good.                  *)
(***************************************************************************)
EXTENDS Naturals, Sequences

VARIABLES
  sent,       \* messages 1 .. sent were sent
  settled,    \* those that were received or are lost
  delivered,  \* the received ones, in the order of their arrival
  torn,       \* the beginning of the next message is lost
  open        \* whether the reader still reads

vars == <<sent, settled, delivered, torn, open>>

Init ==
  sent = 0 /\ settled = {} /\ delivered = <<>> /\ torn = FALSE /\ open = TRUE

Pending == (1 .. sent) \ settled

Send ==
  /\ sent' = sent + 1
  /\ UNCHANGED <<settled, delivered, torn, open>>

\* Receive the first pending message and lose more, none before another.
Receive ==
  /\ open /\ ~torn
  /\ \E i \in Pending, gone \in SUBSET Pending :
       /\ \A j \in Pending : i <= j
       /\ i \in gone
       /\ \A j \in gone, k \in Pending : k <= j => k \in gone
       /\ settled' = settled \union gone
       /\ delivered' = Append(delivered, i)
  /\ torn' \in {FALSE, settled' # 1 .. sent}
  /\ UNCHANGED <<sent, open>>

GiveUp ==
  /\ open /\ torn
  /\ open' = FALSE
  /\ UNCHANGED <<sent, settled, delivered, torn>>

Next == Send \/ Receive \/ GiveUp

Spec == Init /\ [][Next]_vars
=============================================================================
