------------------------------ MODULE SlipLine ------------------------------
(***************************************************************************)
(* The serial line of the border router (core/dev/slip.c): the interrupt   *)
(* handler slip_input_byte puts bytes into a ring, slip_poll_handler, run  *)
(* by a polled process, takes packets out of it.  No lock and no disabled  *)
(* interrupt protects the ring: the interrupt may come between any two     *)
(* steps of the process, also between the two bytes of an index, which an  *)
(* 8051 stores one after the other.                                        *)
(***************************************************************************)
EXTENDS Naturals, Sequences

CONSTANTS
  RxSize,    \* RX_BUFSIZE
  Room,      \* blen: the size of uip_buf
  Base,      \* the values of a byte of an index, 256
  Burst,     \* bytes that may come between the release of a packet and the
             \* check for a second one, a few instructions later
  MaxFrame,  \* frames that come (a bound for TLC)
  MaxLength  \* bytes of each frame (a bound for TLC)

ASSUME RxSizeAssumption == RxSize \in Nat /\ RxSize > 1
ASSUME BaseAssumption == Base \in Nat \ {0}
ASSUME BoundAssumption == Room \in Nat /\ Burst \in Nat /\ MaxFrame \in Nat /\ MaxLength \in [1..MaxFrame -> Nat]

VARIABLES
  state, begin, end, pkt_end, rxbuf,  \* those of slip.c
  needspoll,  \* the process is to be polled
  pc,         \* where slip_poll_handler stands
  at,         \* its index into rxbuf
  outbuf,     \* the bytes it has copied
  burst,      \* bytes that came since it released a packet
  line,       \* the frame that is coming: its number, its bytes, how many are lost
  taken       \* the bytes passed to input_callback last

vars == <<state, begin, end, pkt_end, rxbuf, needspoll, pc, at, outbuf, burst, line, taken>>

Index == 0..(RxSize - 1)

(* What comes on the line: a plain byte, the greeting CLIENT, an escape,   *)
(* the second half of an escaped byte, an end.                             *)
Symbol == {"byte", "CLIENT", "ESC", "coded", "END"}

(* A byte in rxbuf: what it is, and where in which frame it came. *)
Cell == [value : {"byte", "CLIENT", "none"}, frame : Nat, place : Nat]

Blank == [value |-> "none", frame |-> 0, place |-> 0]

TypeOK ==
  /\ state \in {"TWOPACKETS", "OK", "ESC", "RUBBISH"}
  /\ begin \in Nat /\ (pc # "released" => begin \in Index)
  /\ end \in Index /\ pkt_end \in Index /\ at \in Index
  /\ rxbuf \in [Index -> Cell]
  /\ needspoll \in BOOLEAN
  /\ pc \in {"idle", "enter", "test", "copy", "release", "released", "second"}
  /\ outbuf \in Seq(Cell) /\ taken \in Seq(Cell)
  /\ burst \in Nat
  /\ line \in [frame : Nat, bytes : Nat, lost : Nat]

(* rxbuf_init, run as the process starts. *)
Init ==
  /\ state = "OK" /\ begin = 0 /\ end = 0 /\ pkt_end = 0
  /\ rxbuf = [i \in Index |-> Blank]
  /\ needspoll = FALSE /\ pc = "idle" /\ at = 0 /\ outbuf = <<>> /\ burst = 0
  /\ line = [frame |-> 1, bytes |-> 0, lost |-> 0]
  /\ taken = <<>>

----------------------------------------------------------------------------
(* The interrupt handler, slip_input_byte. *)

SuccM(i) == i + 1
Succ(i) == IF i + 1 = RxSize THEN 0 ELSE i + 1

(* Between release and check the next bytes come only so fast. *)
InTime ==
  IF pc \in {"released", "second"} THEN burst < Burst /\ burst' = burst + 1
                                   ELSE burst' = 0

Came(c) ==
  line' = IF c = "END" THEN [frame |-> line.frame + 1, bytes |-> 0, lost |-> 0]
          ELSE IF c = "ESC" THEN line
          ELSE [line EXCEPT !.bytes = @ + 1]

FullM == FALSE
Full == Succ(end) = begin

(* add_char.  A begin that is half stored may lie outside rxbuf. *)
AddChar(value) ==
  IF Full
  THEN state' = "RUBBISH" /\ end' = pkt_end /\ UNCHANGED <<rxbuf, needspoll>>
  ELSE /\ rxbuf' = [rxbuf EXCEPT ![end] = [value |-> value, frame |-> line.frame,
                                           place |-> line.bytes + 1]]
       /\ end' = Succ(end)
       /\ state' = "OK"
       /\ needspoll' \in (IF value # "CLIENT" THEN {needspoll}
                         ELSE IF begin \in Index
                              THEN {needspoll \/ rxbuf'[begin].value = "CLIENT"}
                              ELSE {needspoll, TRUE})

InRubbish(c) ==
  /\ state = "RUBBISH"
  /\ state' = IF c = "END" THEN "OK" ELSE state
  /\ Came(c)
  /\ UNCHANGED <<end, pkt_end, rxbuf, needspoll>>

(* Two packets are already buffered. *)
InTwoPackets(c) ==
  /\ state = "TWOPACKETS"
  /\ line' = IF c = "END" THEN [frame |-> line.frame + 1, bytes |-> 0, lost |-> 0]
             ELSE IF c = "ESC" THEN line
             ELSE [frame |-> line.frame, bytes |-> line.bytes + 1, lost |-> line.lost + 1]
  /\ UNCHANGED <<state, end, pkt_end, rxbuf, needspoll>>

InEscape(c) ==
  /\ state = "ESC"
  /\ IF c = "coded"
     THEN AddChar("byte")
     ELSE state' = "RUBBISH" /\ end' = pkt_end /\ UNCHANGED <<rxbuf, needspoll>>
  /\ Came(c)
  /\ UNCHANGED pkt_end

InEsc ==
  /\ state = "OK"
  /\ state' = "ESC"
  /\ Came("ESC")
  /\ UNCHANGED <<end, pkt_end, rxbuf, needspoll>>

NoneBufferedM == TRUE
NoneBuffered == begin = pkt_end

InEnd ==
  /\ state = "OK"
  /\ IF end = pkt_end THEN UNCHANGED <<state, pkt_end, needspoll>>
     ELSE /\ IF NoneBuffered THEN pkt_end' = end /\ UNCHANGED state
                                ELSE state' = "TWOPACKETS" /\ UNCHANGED pkt_end
          /\ needspoll' = TRUE
  /\ Came("END")
  /\ UNCHANGED <<end, rxbuf>>

InByte(c) ==
  /\ state = "OK"
  /\ AddChar(IF c = "CLIENT" THEN c ELSE "byte")
  /\ Came(c)
  /\ UNCHANGED pkt_end

Bounded(c) == IF c = "END" THEN line.frame < MaxFrame ELSE line.bytes < MaxLength[line.frame]

Interrupt ==
  /\ InTime
  /\ \E c \in Symbol :
       /\ Bounded(c)
       /\ \/ InRubbish(c) \/ InTwoPackets(c) \/ InEscape(c)
          \/ c = "ESC" /\ InEsc
          \/ c = "END" /\ InEnd
          \/ c \notin {"ESC", "END"} /\ InByte(c)
  /\ UNCHANGED <<begin, pc, at, outbuf, taken>>

----------------------------------------------------------------------------
(* The process: slip_poll_handler and the call of input_callback. *)

(* do_poll of the scheduler clears the flag before it calls the process. *)
Poll ==
  /\ pc = "idle" /\ needspoll
  /\ needspoll' = FALSE
  /\ pc' = "enter"
  /\ UNCHANGED <<state, begin, end, pkt_end, rxbuf, at, outbuf, burst, line, taken>>

Greeted ==
  /\ rxbuf[begin].value = "CLIENT"
  /\ begin < end

(* state = STATE_TWOPACKETS keeps the interrupt out until rxbuf_init is    *)
(* done, so this is one step; bytes that come meanwhile come before it.    *)
Greeting ==
  /\ pc = "enter" /\ Greeted
  /\ rxbuf' = [rxbuf EXCEPT ![begin] = Blank]
  /\ begin' = 0 /\ end' = 0 /\ pkt_end' = 0 /\ state' = "OK"
  /\ line' = [line EXCEPT !.lost = line.bytes]
  /\ pc' = "idle"
  /\ UNCHANGED <<needspoll, at, outbuf, burst, taken>>

NoGreeting ==
  /\ pc = "enter" /\ ~Greeted
  /\ pc' = "test"
  /\ UNCHANGED <<state, begin, end, pkt_end, rxbuf, needspoll, at, outbuf, burst, line, taken>>

(* [b, e) of the ring. *)
Distance(b, e) == IF b <= e THEN e - b ELSE (RxSize - b) + e

Nth(b, j) == IF b + j - 1 < RxSize THEN b + j - 1 ELSE b + j - 1 - RxSize

Cells(buf, b, e) == [j \in 1..Distance(b, e) |-> buf[Nth(b, j)]]

(* A packet that is too long is not copied; outbuf tells which it is. *)
Test ==
  /\ pc = "test"
  /\ pc' = IF begin = pkt_end THEN "idle"
           ELSE IF Distance(begin, pkt_end) > Room THEN "release" ELSE "copy"
  /\ at' = begin
  /\ outbuf' = IF pc' = "release" THEN Cells(rxbuf, begin, pkt_end) ELSE <<>>
  /\ UNCHANGED <<state, begin, end, pkt_end, rxbuf, needspoll, burst, line, taken>>

Copy ==
  /\ pc = "copy"
  /\ outbuf' = Append(outbuf, rxbuf[at])
  /\ at' = Succ(at)
  /\ pc' = IF Succ(at) = pkt_end THEN "release" ELSE "copy"
  /\ UNCHANGED <<state, begin, end, pkt_end, rxbuf, needspoll, burst, line, taken>>

(* begin = pkt_end, first the low byte, then the high one. *)
Torn(old, new) == (old \div Base) * Base + (new % Base)

Release ==
  /\ pc = "release"
  /\ at' = pkt_end
  /\ begin' = Torn(begin, pkt_end)
  /\ burst' = 0
  /\ pc' = "released"
  /\ UNCHANGED <<state, end, pkt_end, rxbuf, needspoll, outbuf, line, taken>>

Released ==
  /\ pc = "released"
  /\ begin' = at
  /\ pc' = "second"
  /\ UNCHANGED <<state, end, pkt_end, rxbuf, needspoll, at, outbuf, burst, line, taken>>

SecondIsReadyDeafM ==
  IF state = "TWOPACKETS" THEN pkt_end' = end /\ needspoll' = TRUE /\ UNCHANGED state
                          ELSE UNCHANGED <<pkt_end, state, needspoll>>
SecondIsReadyM ==
  IF state = "TWOPACKETS" THEN pkt_end' = end /\ state' = "OK" /\ UNCHANGED needspoll
                          ELSE UNCHANGED <<pkt_end, state, needspoll>>
SecondIsReady ==
  IF state = "TWOPACKETS" THEN pkt_end' = end /\ state' = "OK" /\ needspoll' = TRUE
                          ELSE UNCHANGED <<pkt_end, state, needspoll>>

(* if(state == STATE_TWOPACKETS), and what slip_process does on return. *)
Second ==
  /\ pc = "second"
  /\ SecondIsReady
  /\ taken' = IF Len(outbuf) <= Room THEN outbuf ELSE taken
  /\ at' = 0 /\ outbuf' = <<>> /\ burst' = 0
  /\ pc' = "idle"
  /\ UNCHANGED <<begin, end, rxbuf, line>>

Process == Poll \/ Greeting \/ NoGreeting \/ Test \/ Copy \/ Release \/ Released \/ Second

Next == Interrupt \/ Process

(* The scheduler runs a polled process to its end. *)
Spec == Init /\ [][Next]_vars /\ WF_vars(Process)

----------------------------------------------------------------------------
(* What the driver does for those above it. *)

(* The bytes of one frame, one after the other, as a packet. *)
AsPacket(cells) ==
  IF \A j \in DOMAIN cells : /\ cells[j].frame = cells[1].frame
                             /\ cells[j].place = cells[1].place + j - 1
  THEN IF cells = <<>> THEN [frame |-> 0, first |-> 0, last |-> 0]
       ELSE [frame |-> cells[1].frame, first |-> cells[1].place,
             last |-> cells[Len(cells)].place]
  ELSE [frame |-> 0, first |-> 0, last |-> 1]

Waiting(b) == IF b = pkt_end THEN <<>> ELSE <<AsPacket(Cells(rxbuf, b, pkt_end))>>

(* A packet waits until input_callback has it. *)
queue ==
  (IF pc \in {"released", "second"} THEN <<AsPacket(outbuf)>> \o Waiting(at) ELSE Waiting(begin))
  \o (IF state = "TWOPACKETS" THEN <<AsPacket(Cells(rxbuf, pkt_end, end))>> ELSE <<>>)

(* The driver is the queue of at most two packets it claims to be: no      *)
(* interleaving of interrupt and process merges two frames, cuts one whose *)
(* bytes all came in time, takes one twice or out of turn, or forgets one. *)
Queue == INSTANCE PacketQueue WITH taken <- AsPacket(taken)

KeepsPackets == Queue!Spec

(* A packet that waits is known to the scheduler: the flag that asks for a *)
(* poll is set, or slip_poll_handler is on its way and will see it.        *)
NoLostWakeup ==
  begin # pkt_end => needspoll \/ pc \notin {"idle", "second"}

(* "Interrupt can not change begin but may change pkt_end.  If pkt_end !=  *)
(* begin it will not change again" (slip.c:209-212): what is being copied  *)
(* stands still under the hands of the interrupt, its bounds and its bytes. *)
StandsStill ==
  [][pc = "copy" =>
       /\ UNCHANGED <<begin, pkt_end>>
       /\ \A i \in Index : Distance(begin, i) < Distance(begin, pkt_end) => rxbuf'[i] = rxbuf[i]]_vars
(* Bytes are thrown away for want of room only while the process that makes *)
(* room is asked for or on its way, and finds or has a packet to release    *)
(* (slip.c:237-246, :328-329).                                              *)
NotDeaf == state = "TWOPACKETS" =>
  /\ needspoll \/ pc # "idle"
  /\ begin # pkt_end \/ pc \in {"released", "second"}

(* Every packet that input_callback is called with is of a later frame than *)
(* all before: none comes twice or out of turn (slip.c:209-253, :268-304).  *)
InOrder == pc = "second" => AsPacket(outbuf).frame > AsPacket(taken).frame
=============================================================================
