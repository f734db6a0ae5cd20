----------------------------- MODULE PacketQueue -----------------------------
(***************************************************************************)
(* What the SLIP driver of the border router promises (slip.c:72-81):      *)
(* frames come byte by byte on a serial line; at most two wait, complete   *)
(* and apart; they are taken in the order they came.  Bytes that come      *)
(* while two wait are lost, and only then does a packet lack its start.    *)
(***************************************************************************)
EXTENDS Naturals, Sequences

CONSTANT Room  \* the longest packet there is room for where packets go

VARIABLES
  line,   \* the frame that is coming: its number, its bytes, how many are lost
  queue,  \* the packets that wait
  taken   \* the packet taken last

(* Bytes first to last of a frame. *)
Packet == [frame : Nat, first : Nat, last : Nat]

NoPacket == [frame |-> 0, first |-> 0, last |-> 0]

Init ==
  /\ line = [frame |-> 1, bytes |-> 0, lost |-> 0]
  /\ queue = <<>>
  /\ taken = NoPacket

(* A byte comes.  What is lost of a frame is its start. *)
Byte ==
  /\ line' = [line EXCEPT !.bytes = @ + 1]
  /\ UNCHANGED <<queue, taken>>

ByteLost ==
  /\ Len(queue) = 2
  /\ line.lost = line.bytes
  /\ line' = [frame |-> line.frame, bytes |-> line.bytes + 1, lost |-> line.lost + 1]
  /\ UNCHANGED <<queue, taken>>

NextFrame == line' = [frame |-> line.frame + 1, bytes |-> 0, lost |-> 0]

(* The frame ends and waits. *)
Arrive ==
  /\ Len(queue) < 2
  /\ line.lost < line.bytes
  /\ NextFrame
  /\ queue' = Append(queue, [frame |-> line.frame, first |-> line.lost + 1,
                             last |-> line.bytes])
  /\ UNCHANGED taken

(* The frame is empty, malformed or too long for the line. *)
GiveUp == NextFrame /\ UNCHANGED <<queue, taken>>

Take ==
  /\ queue # <<>>
  /\ taken' = IF Head(queue).last + 1 - Head(queue).first <= Room THEN Head(queue) ELSE taken
  /\ queue' = Tail(queue)
  /\ UNCHANGED line

(* The other end starts afresh. *)
Greeting ==
  /\ queue' = <<>>
  /\ line' = [line EXCEPT !.lost = line.bytes]
  /\ UNCHANGED taken

Next == Byte \/ ByteLost \/ Arrive \/ GiveUp \/ Take \/ Greeting

vars == <<line, queue, taken>>

(* A packet that waits is taken, whatever comes on the line. *)
Spec == Init /\ [][Next]_vars /\ WF_vars(Take)
=============================================================================
