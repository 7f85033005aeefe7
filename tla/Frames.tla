------------------------------- MODULE Frames -------------------------------
(***************************************************************************)
(* One direction of a stream between two nodes: SendMessage writes a line, *)
(* ReadMessage reads one (internal/p2p/peer.go).                           *)
(*                                                                         *)
(* Bytes are known by their distance from the beginning of the stream.     *)
(* ReadMessage makes a new bufio.Reader each time.  It fills its buffer    *)
(* with what the stream has, up to the first newline; what the buffer      *)
(* holds beyond that newline is gone with the reader.                      *)
(*                                                                         *)
(* The rest of a message whose beginning is gone is not JSON: it lacks an  *)
(* opening brace.  What ends a stream is the subject of PeerTable.         *)
(***************************************************************************)
EXTENDS Integers, Sequences, SequencesExt

CONSTANTS
  Size,        \* the possible lengths of a message, its newline included
  BufSize,     \* the bytes a bufio.Reader reads ahead
  MaxMessages  \* bounds the instance

ASSUME FramesAssumption ==
  Size \subseteq Nat \ {0} /\ BufSize \in Nat \ {0} /\ MaxMessages \in Nat

VARIABLES
  ends,       \* ends[i]: the bytes written up to the newline of message i
  read,       \* the bytes read from the stream
  from,       \* where the bytes of the current ReadMessage begin
  delivered,  \* the messages ReadMessage returned
  open,       \* whether readMessages still reads
  alone       \* history: written to an open reader with nothing unread

vars == <<ends, read, from, delivered, open, alone>>

\* The bytes before message i + 1.
Before(i) == IF i = 0 THEN 0 ELSE ends[i]
Written == Before(Len(ends))

TypeOK ==
  /\ ends \in Seq(Nat)
  /\ read \in 0 .. Written
  /\ from \in 0 .. read
  /\ delivered \in Seq(1 .. Len(ends))
  /\ open \in BOOLEAN
  /\ alone \subseteq 1 .. Len(ends)

Init ==
  /\ ends = <<>> /\ read = 0 /\ from = 0 /\ delivered = <<>> /\ open = TRUE
  /\ alone = {}

\* One Write of the line; the peer need not be reading.
SendMessage(size) ==
  /\ Len(ends) < MaxMessages
  /\ ends' = Append(ends, Written + size)
  /\ alone' = IF open /\ read = Written THEN alone \union {Len(ends) + 1}
              ELSE alone
  /\ UNCHANGED <<read, from, delivered, open>>

\* RoomOnce, a refuted variant: a full buffer is not put aside.
RoomOnce == BufSize - (read - from)
Room == BufSize - ((read - from) % BufSize)

\* One Read of the stream.
Fill(k) == read + k <= Written /\ read' = read + k

\* The messages whose newline is among the bytes from first to last.
Lines(first, last) == {i \in 1 .. Len(ends) : first < ends[i] /\ ends[i] <= last}

\* IsLast, a refuted variant: the buffer is searched from its end.
IsLast(i, S) == i \in S /\ \A j \in S : j <= i
IsFirst(i, S) == i \in S /\ \A j \in S : i <= j

\* No newline yet.  GiveUpIfFull, a refuted variant: a line has to fit into
\* the buffer, as with ReadSlice or a Scanner.
GiveUpIfFull(k) == open' = (k < Room) /\ UNCHANGED <<from, delivered>>
ReadOn(k) == UNCHANGED <<from, delivered, open>>

\* A refuted variant: one byte too many is taken for the newline.
DecodeSkipping(i) ==
  /\ from = Before(i - 1)
  /\ delivered' = Append(delivered, i)
  /\ from' = read' + 1
  /\ UNCHANGED open

\* The line is a whole message if it begins where the message does.
Decode(i) ==
  \/ /\ from = Before(i - 1)
     /\ delivered' = Append(delivered, i)
     /\ from' = read'
     /\ UNCHANGED open
  \/ /\ from # Before(i - 1)
     /\ open' = FALSE
     /\ UNCHANGED <<from, delivered>>

\* One Read, and the end of ReadMessage if it brought a newline.
ReadMessage ==
  /\ open
  /\ \E k \in 1 .. Room :
       /\ Fill(k)
       /\ LET lines == Lines(from, read + k) IN
          \/ lines = {} /\ ReadOn(k)
          \/ \E i \in lines : IsFirst(i, lines) /\ Decode(i)
  /\ UNCHANGED <<ends, alone>>

Next == (\E size \in Size : SendMessage(size)) \/ ReadMessage

Spec == Init /\ [][Next]_vars

\* A Read returns when there is something to read.
FairSpec == Spec /\ WF_vars(ReadMessage)
-----------------------------------------------------------------------------
(***************************************************************************)
(* What makes it correct                                                   *)
(***************************************************************************)
\* However long it is and however the bytes arrive, a message written when
\* everything before it was read is delivered: what SendMessage writes is
\* lost only by being written while the peer has something left to read.
AloneArrives ==
  \A i \in alone : i \in Range(delivered) \/ (open /\ read < ends[i])

\* readMessages gives up on a message it cannot decode only when two messages
\* were in the stream at once.
StopsOnlyAfterOverlap == open \/ alone # 1 .. Len(ends)

\* Every message is settled in the end: received, lost behind another one, or
\* left behind by a reader that gave up.
KeepsReading ==
  \A i \in 1 .. MaxMessages :
    i <= Len(ends) ~> (~open \/ (i <= Len(ends) /\ ends[i] <= from))

\* The messages that end before the byte from.
Settled == {i \in 1 .. Len(ends) : ends[i] <= from}

Torn == \A i \in 0 .. Len(ends) : from # Before(i)

Stream == INSTANCE LossyStream
  WITH sent <- Len(ends), settled <- Settled, torn <- Torn

\* In order, at most once, unchanged: ReadMessage implements LossyStream.
ImplementsLossyStream == Stream!Spec
=============================================================================
