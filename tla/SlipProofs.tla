----------------------------- MODULE SlipProofs -----------------------------
(***************************************************************************)
(* What holds of the serial line for every ring, every index width and     *)
(* however fast the bytes come: Burst is any number.                       *)
(***************************************************************************)
EXTENDS SlipLine, TLAPS

(* p lies in [b, e], in the ring. *)
Between(b, p, e) == IF b <= e THEN b <= p /\ p <= e ELSE b <= p \/ p <= e

(* The end of the packet lies between begin and end of what is used.  While *)
(* begin is stored, at says what it becomes.                               *)
RingOK ==
  /\ pc # "released" => Between(begin, pkt_end, end)
  /\ pc = "released" => Between(at, pkt_end, end) /\ (pkt_end # at => begin = at)

WakeOK ==
  /\ NoLostWakeup
  /\ pc = "released" /\ at # pkt_end => needspoll
  /\ pc \in {"copy", "release"} => begin # pkt_end

LEMMA SuccIndex == \A i \in Index : Succ(i) \in Index
BY RxSizeAssumption DEF Index, Succ

LEMMA BlankCell == Blank \in Cell
BY DEF Blank, Cell

(* The bytes between two indices are bytes of the ring. *)
LEMMA CellsType ==
  ASSUME NEW buf \in [Index -> Cell], NEW b \in Index, NEW e \in Index
  PROVE  Cells(buf, b, e) \in Seq(Cell)
<1>1. Distance(b, e) \in Nat
  BY RxSizeAssumption DEF Distance, Index
<1>2. ASSUME NEW j \in 1..Distance(b, e) PROVE buf[Nth(b, j)] \in Cell
  BY RxSizeAssumption DEF Nth, Distance, Index
<1> QED BY <1>1, <1>2 DEF Cells

(* An index that is stored by halves is a number. *)
LEMMA TornNat == \A old, new \in Nat : Torn(old, new) \in Nat
<1> SUFFICES ASSUME NEW old \in Nat, NEW new \in Nat PROVE Torn(old, new) \in Nat
  OBVIOUS
<1>1. old \div Base \in Nat
  BY BaseAssumption
<1>2. new % Base \in Nat
  BY BaseAssumption
<1>3. \A q, r \in Nat : q * Base + r \in Nat
  BY BaseAssumption
<1> QED BY <1>1, <1>2, <1>3 DEF Torn

-----------------------------------------------------------------------------
(* Type correctness. *)

LEMMA InitType == Init => TypeOK
BY RxSizeAssumption, BlankCell DEF Init, TypeOK, Index

LEMMA AddCharType ==
  ASSUME TypeOK, NEW value \in {"byte", "CLIENT"}, AddChar(value)
  PROVE  /\ state' \in {"OK", "RUBBISH"} /\ end' \in Index
         /\ rxbuf' \in [Index -> Cell] /\ needspoll' \in BOOLEAN
<1>1. [value |-> value, frame |-> line.frame, place |-> line.bytes + 1] \in Cell
  BY DEF TypeOK, Cell
<1>2. CASE Full
  BY <1>2 DEF AddChar, TypeOK
<1>3. CASE ~Full
  BY <1>1, <1>3, SuccIndex DEF AddChar, TypeOK
<1> QED BY <1>2, <1>3

LEMMA CameType ==
  ASSUME TypeOK, NEW c, Came(c) PROVE line' \in [frame : Nat, bytes : Nat, lost : Nat]
<1> DEFINE L == [frame : Nat, bytes : Nat, lost : Nat]
<1>1. line \in L /\ line.frame \in Nat /\ line.bytes \in Nat /\ line.lost \in Nat
  BY DEF TypeOK
<1>2. [frame |-> line.frame + 1, bytes |-> 0, lost |-> 0] \in L
  BY <1>1
<1>3. [line EXCEPT !.bytes = @ + 1] \in L
  BY <1>1
<1> QED BY <1>1, <1>2, <1>3 DEF Came

LEMMA InterruptType == TypeOK /\ Interrupt => TypeOK'
<1> SUFFICES ASSUME TypeOK, InTime, NEW c \in Symbol,
                    UNCHANGED <<begin, pc, at, outbuf, taken>>,
                    \/ InRubbish(c) \/ InTwoPackets(c) \/ InEscape(c)
                    \/ c = "ESC" /\ InEsc
                    \/ c = "END" /\ InEnd
                    \/ c \notin {"ESC", "END"} /\ InByte(c)
             PROVE  TypeOK'
  BY DEF Interrupt
<1>1. burst' \in Nat
  BY DEF InTime, TypeOK
<1>2. CASE InRubbish(c)
  BY <1>1, <1>2, CameType DEF InRubbish, TypeOK
<1>3. CASE InTwoPackets(c)
  <2> DEFINE L == [frame : Nat, bytes : Nat, lost : Nat]
  <2>1. line \in L /\ line.frame \in Nat /\ line.bytes \in Nat /\ line.lost \in Nat
    BY DEF TypeOK
  <2>2. [frame |-> line.frame + 1, bytes |-> 0, lost |-> 0] \in L
    BY <2>1
  <2>3. [frame |-> line.frame, bytes |-> line.bytes + 1, lost |-> line.lost + 1] \in L
    BY <2>1
  <2> HIDE DEF L
  <2>4. line' \in L
    BY <1>3, <2>1, <2>2, <2>3 DEF InTwoPackets
  <2> QED BY <1>1, <1>3, <2>4 DEF InTwoPackets, TypeOK, L
<1>4. CASE InEscape(c)
  <2>1. CASE c = "coded"
    BY <1>1, <1>4, <2>1, AddCharType, CameType DEF InEscape, TypeOK
  <2>2. CASE c # "coded"
    BY <1>1, <1>4, <2>2, CameType DEF InEscape, TypeOK
  <2> QED BY <2>1, <2>2
<1>5. CASE InEsc
  BY <1>1, <1>5, CameType DEF InEsc, TypeOK
<1>6. CASE InEnd
  BY <1>1, <1>6, CameType DEF InEnd, TypeOK
<1>7. CASE InByte(c)
  BY <1>1, <1>7, AddCharType, CameType DEF InByte, TypeOK
<1> QED BY <1>2, <1>3, <1>4, <1>5, <1>6, <1>7

LEMMA ProcessType == TypeOK /\ Process => TypeOK'
<1> SUFFICES ASSUME TypeOK, Process PROVE TypeOK'
  OBVIOUS
<1>1. CASE Poll
  BY <1>1 DEF Poll, TypeOK
<1>2. CASE Greeting
  <2>1. [line EXCEPT !.lost = line.bytes] \in [frame : Nat, bytes : Nat, lost : Nat]
    BY DEF TypeOK
  <2>2. rxbuf' \in [Index -> Cell]
    BY <1>2, BlankCell DEF Greeting, TypeOK
  <2>3. 0 \in Index
    BY RxSizeAssumption DEF Index
  <2> QED BY <1>2, <2>1, <2>2, <2>3 DEF Greeting, TypeOK
<1>3. CASE NoGreeting
  BY <1>3 DEF NoGreeting, TypeOK
<1>4. CASE Test
  BY <1>4, CellsType DEF Test, TypeOK
<1>5. CASE Copy
  BY <1>5, SuccIndex DEF Copy, TypeOK
<1>6. CASE Release
  <2>1. begin' \in Nat
    BY <1>6, TornNat DEF Release, TypeOK, Index
  <2> QED BY <1>6, <2>1 DEF Release, TypeOK
<1>7. CASE Released
  BY <1>7 DEF Released, TypeOK, Index
<1>8. CASE Second
  <2>1. 0 \in Index
    BY RxSizeAssumption DEF Index
  <2>2. pkt_end' \in Index /\ state' \in {"TWOPACKETS", "OK", "ESC", "RUBBISH"}
        /\ needspoll' \in BOOLEAN
    BY <1>8 DEF Second, SecondIsReady, TypeOK
  <2>3. taken' \in Seq(Cell) /\ outbuf' \in Seq(Cell)
    BY <1>8 DEF Second, TypeOK
  <2> QED BY <1>8, <2>1, <2>2, <2>3 DEF Second, TypeOK
<1> QED BY <1>1, <1>2, <1>3, <1>4, <1>5, <1>6, <1>7, <1>8 DEF Process

(* Every variable of the driver keeps its type, indices inside the ring. *)
THEOREM TypeCorrect == Spec => []TypeOK
<1>1. TypeOK /\ [Next]_vars => TypeOK'
  BY InterruptType, ProcessType DEF Next, vars, TypeOK
<1> QED BY InitType, <1>1, PTL DEF Spec

-----------------------------------------------------------------------------
(* The bounds of the ring and the request for a poll. *)

Inv == TypeOK /\ RingOK /\ WakeOK

LEMMA InitInv == Init => Inv
BY InitType, RxSizeAssumption DEF Inv, RingOK, WakeOK, NoLostWakeup, Init, Between

(* A byte more moves the end one place, and not onto begin. *)
LEMMA AddCharRing ==
  ASSUME TypeOK, NEW b \in Index, Between(b, pkt_end, end), NEW value, AddChar(value),
         b = begin \/ pkt_end = b
  PROVE  Between(b, pkt_end, end')
<1>1. CASE Full
  BY <1>1 DEF AddChar, Between, TypeOK, Index
<1>2. CASE ~Full
  BY <1>2 DEF AddChar, Full, Succ, Between, TypeOK, Index
<1> QED BY <1>1, <1>2

(* Of the indices the interrupt moves end, alone or with pkt_end. *)
LEMMA InterruptInv == Inv /\ Interrupt => RingOK' /\ WakeOK'
<1> SUFFICES ASSUME Inv, NEW c \in Symbol, UNCHANGED <<begin, pc, at>>,
                    \/ InRubbish(c) \/ InTwoPackets(c) \/ InEscape(c)
                    \/ c = "ESC" /\ InEsc
                    \/ c = "END" /\ InEnd
                    \/ c \notin {"ESC", "END"} /\ InByte(c)
             PROVE  RingOK' /\ WakeOK'
  BY DEF Interrupt
<1>1. CASE UNCHANGED <<end, pkt_end, needspoll>>
  BY <1>1 DEF Inv, RingOK, WakeOK, NoLostWakeup
<1>2. CASE UNCHANGED <<pkt_end, needspoll>> /\ end' = pkt_end
  BY <1>2 DEF Inv, RingOK, WakeOK, NoLostWakeup, Between, TypeOK, Index
<1>3. ASSUME NEW value \in {"byte", "CLIENT"}, AddChar(value), UNCHANGED pkt_end
      PROVE  RingOK' /\ WakeOK'
  <2>1. needspoll => needspoll'
    BY <1>3 DEF AddChar, Inv, TypeOK
  <2>2. WakeOK'
    BY <1>3, <2>1 DEF Inv, WakeOK, NoLostWakeup
  <2>3. CASE pc = "released"
    <3>1. at \in Index /\ Between(at, pkt_end, end) /\ (at = begin \/ pkt_end = at)
      BY <2>3 DEF Inv, RingOK, TypeOK
    <3>2. Between(at, pkt_end, end')
      BY <1>3, <3>1, AddCharRing DEF Inv
    <3> QED BY <1>3, <2>2, <2>3, <3>1, <3>2 DEF RingOK
  <2>4. CASE pc # "released"
    <3>1. begin \in Index /\ Between(begin, pkt_end, end)
      BY <2>4 DEF Inv, RingOK, TypeOK
    <3>2. Between(begin, pkt_end, end')
      BY <1>3, <3>1, AddCharRing DEF Inv
    <3> QED BY <1>3, <2>2, <2>4, <3>2 DEF RingOK
  <2> QED BY <2>2, <2>3, <2>4
<1>4. CASE InEnd
  <2>1. CASE end = pkt_end
    BY <1>1, <1>4, <2>1 DEF InEnd
  <2>2. CASE end # pkt_end /\ ~NoneBuffered
    <3>1. UNCHANGED <<end, pkt_end>> /\ needspoll' = TRUE
      BY <1>4, <2>2 DEF InEnd
    <3> QED BY <3>1 DEF Inv, RingOK, WakeOK, NoLostWakeup
  <2>3. CASE end # pkt_end /\ NoneBuffered
    <3>1. end' = end /\ pkt_end' = end /\ needspoll' = TRUE /\ begin = pkt_end
      BY <1>4, <2>3 DEF InEnd, NoneBuffered
    <3>2. RingOK'
      BY <3>1 DEF Inv, WakeOK, RingOK, Between, TypeOK, Index
    <3>3. WakeOK'
      BY <3>1 DEF Inv, WakeOK, NoLostWakeup
    <3> QED BY <3>2, <3>3
  <2> QED BY <2>1, <2>2, <2>3
<1>5. CASE InRubbish(c) \/ InTwoPackets(c) \/ InEsc
  BY <1>1, <1>5 DEF InRubbish, InTwoPackets, InEsc
<1>6. CASE InEscape(c)
  BY <1>2, <1>3, <1>6 DEF InEscape
<1>7. CASE InByte(c)
  BY <1>3, <1>7 DEF InByte
<1> QED BY <1>4, <1>5, <1>6, <1>7

LEMMA ProcessInv == Inv /\ Process => RingOK' /\ WakeOK'
<1> SUFFICES ASSUME Inv, Process PROVE RingOK' /\ WakeOK'
  OBVIOUS
<1> USE DEF Inv, RingOK, WakeOK, NoLostWakeup
<1>1. CASE Poll
  BY <1>1 DEF Poll
<1>2. CASE Greeting
  BY <1>2 DEF Greeting, Between
<1>3. CASE NoGreeting
  BY <1>3 DEF NoGreeting
<1>4. CASE Test
  BY <1>4 DEF Test
<1>5. CASE Copy
  BY <1>5 DEF Copy
<1>6. CASE Release
  BY <1>6 DEF Release, Between, TypeOK, Index
<1>7. CASE Released
  BY <1>7 DEF Released
<1>8. CASE Second
  BY <1>8 DEF Second, SecondIsReady, Between, TypeOK, Index
<1> QED BY <1>1, <1>2, <1>3, <1>4, <1>5, <1>6, <1>7, <1>8 DEF Process

(* The bounds of the ring and the request for a poll hold in every state;  *)
(* the theorems that follow rest on it.                                    *)
THEOREM InvHolds == Spec => []Inv
<1>1. Inv /\ [Next]_vars => Inv'
  <2>1. CASE Interrupt
    BY <2>1, InterruptType, InterruptInv DEF Inv
  <2>2. CASE Process
    BY <2>2, ProcessType, ProcessInv DEF Inv
  <2>3. CASE UNCHANGED vars
    BY <2>3 DEF Inv, TypeOK, RingOK, WakeOK, NoLostWakeup, vars
  <2> QED BY <2>1, <2>2, <2>3 DEF Next
<1> QED BY InitInv, <1>1, PTL DEF Spec

(* No packet waits unknown to the scheduler. *)
THEOREM NoLostWakeupHolds == Spec => []NoLostWakeup
<1>1. Inv => NoLostWakeup
  BY DEF Inv, WakeOK
<1> QED BY InvHolds, <1>1, PTL

(* The place the interrupt writes to is not in the packet that waits. *)
LEMMA EndOutside ==
  ASSUME Inv, pc = "copy", NEW i \in Index, Distance(begin, i) < Distance(begin, pkt_end)
  PROVE  i # end
<1>1. Between(begin, pkt_end, end) /\ begin # pkt_end
  BY DEF Inv, RingOK, WakeOK
<1> QED BY <1>1, RxSizeAssumption DEF Inv, TypeOK, Between, Distance, Index

(* Under slip_poll_handler that copies, the interrupt moves neither bound  *)
(* of the packet and writes none of its bytes.                             *)
THEOREM StandsStillHolds == Spec => StandsStill
<1> DEFINE Still == /\ UNCHANGED <<begin, pkt_end>>
                    /\ \A i \in Index : Distance(begin, i) < Distance(begin, pkt_end)
                                         => rxbuf'[i] = rxbuf[i]
<1>1. Inv /\ [Next]_vars /\ pc = "copy" => Still
  <2> SUFFICES ASSUME Inv, [Next]_vars, pc = "copy" PROVE Still
    OBVIOUS
  <2>1. CASE Interrupt
    <3>1. PICK c \in Symbol : \/ InRubbish(c) \/ InTwoPackets(c) \/ InEscape(c)
                              \/ c = "ESC" /\ InEsc
                              \/ c = "END" /\ InEnd
                              \/ c \notin {"ESC", "END"} /\ InByte(c)
      BY <2>1 DEF Interrupt
    <3>2. begin' = begin /\ begin # pkt_end
      BY <2>1 DEF Interrupt, Inv, WakeOK
    <3>3. pkt_end' = pkt_end
      BY <3>1, <3>2 DEF InRubbish, InTwoPackets, InEscape, InEsc, InEnd, InByte, NoneBuffered
    <3>4. rxbuf' = rxbuf \/ \E value : rxbuf' = [rxbuf EXCEPT ![end] = value]
      BY <3>1 DEF InRubbish, InTwoPackets, InEscape, InEsc, InEnd, InByte, AddChar
    <3>5. ASSUME NEW i \in Index, Distance(begin, i) < Distance(begin, pkt_end)
          PROVE  rxbuf'[i] = rxbuf[i]
      <4>1. i # end
        BY <3>5, EndOutside
      <4> QED BY <3>4, <4>1 DEF Inv, TypeOK
    <3> QED BY <3>2, <3>3, <3>5
  <2>2. CASE Process
    <3>1. Copy
      BY <2>2 DEF Process, Poll, Greeting, NoGreeting, Test, Copy, Release, Released, Second
    <3> QED BY <3>1 DEF Copy
  <2>3. CASE UNCHANGED vars
    BY <2>3 DEF vars
  <2> QED BY <2>1, <2>2, <2>3 DEF Next
<1>2. Inv /\ [Next]_vars => [pc = "copy" => Still]_vars
  BY <1>1
<1> QED BY InvHolds, <1>2, PTL DEF Spec, StandsStill
(* Bytes are thrown away for want of room only while the process that makes *)
(* room is under way to a packet (slip.c:237-246, :328-329).               *)
THEOREM NotDeafHolds == Spec => []NotDeaf
<1> DEFINE Waits == state = "TWOPACKETS" => begin # pkt_end \/ pc \in {"released", "second"}
<1>1. Init => Waits
  BY DEF Init
<1>2. Inv /\ Waits /\ [Next]_vars => Waits'
  <2> SUFFICES ASSUME Inv, Waits, [Next]_vars PROVE Waits'
    OBVIOUS
  <2>1. CASE Interrupt
    <3>1. PICK c \in Symbol : \/ InRubbish(c) \/ InTwoPackets(c) \/ InEscape(c)
                              \/ c = "ESC" /\ InEsc
                              \/ c = "END" /\ InEnd
                              \/ c \notin {"ESC", "END"} /\ InByte(c)
      BY <2>1 DEF Interrupt
    <3>2. UNCHANGED <<begin, pc>>
      BY <2>1 DEF Interrupt
    <3>3. CASE InEnd
      BY <3>2, <3>3 DEF InEnd, NoneBuffered
    <3>4. CASE ~InEnd
      <4>1. UNCHANGED pkt_end /\ (state' = state \/ state' # "TWOPACKETS")
        BY <3>1, <3>4 DEF InRubbish, InTwoPackets, InEscape, InEsc, InByte, AddChar
      <4> QED BY <3>2, <4>1
    <3> QED BY <3>3, <3>4
  <2>2. CASE Process
    BY <2>2 DEF Process, Poll, Greeting, NoGreeting, Test, Copy, Release, Released, Second,
                SecondIsReady
  <2>3. CASE UNCHANGED vars
    BY <2>3 DEF vars
  <2> QED BY <2>1, <2>2, <2>3 DEF Next
<1>3. Inv /\ Waits => NotDeaf
  BY DEF Inv, WakeOK, NoLostWakeup, NotDeaf
<1> QED BY <1>1, <1>2, <1>3, InvHolds, PTL DEF Spec
=============================================================================
