--------------------------- MODULE SlipQueueProofs ---------------------------
(***************************************************************************)
(* The serial line implements PacketQueue, for every size of its ring, of  *)
(* packets and of a byte, as long as at most one byte comes between the    *)
(* release of a packet and the check for a second one.                     *)
(***************************************************************************)
EXTENDS SlipProofs

(* The bytes from b to e are of frame f, from place k on, without a gap. *)
Run(buf, b, e, f, k) ==
  \A i \in Index : Distance(b, i) < Distance(b, e) =>
                     buf[i].frame = f /\ buf[i].place = k + Distance(b, i)

OneFrame(buf, b, e) == \E f, k \in Nat : Run(buf, b, e, f, k)

(* A packet that has been copied. *)
Whole(cells) ==
  /\ cells \in Seq(Cell) /\ cells # <<>>
  /\ \E f, k \in Nat : \A j \in DOMAIN cells : cells[j].frame = f /\ cells[j].place = k + j - 1

(* Where the packets that wait begin, and whether one is in outbuf. *)
Front == IF pc = "released" THEN at ELSE begin
Gone == pc \in {"released", "second"}

FrontInv ==
  /\ OneFrame(rxbuf, Front, pkt_end)
  /\ ~Gone /\ state = "TWOPACKETS" => begin # pkt_end
  /\ Gone /\ Front # pkt_end => burst = 1 /\ state # "TWOPACKETS"
  /\ pc = "released" /\ burst = 0 => Succ(end) # at
  /\ pc = "second" => begin = at
  /\ burst \in {0, 1}

TailInv ==
  /\ state \in {"OK", "ESC"} => /\ Run(rxbuf, pkt_end, end, line.frame, line.lost + 1)
                                /\ line.bytes = line.lost + Distance(pkt_end, end)
  /\ state = "TWOPACKETS" => /\ OneFrame(rxbuf, pkt_end, end) /\ pkt_end # end
                             /\ line.lost = line.bytes
  /\ state = "RUBBISH" => end = pkt_end

CopyInv ==
  /\ pc = "copy" => /\ Distance(begin, at) < Distance(begin, pkt_end)
                    /\ outbuf = Cells(rxbuf, begin, at)
  /\ pc = "release" => begin # pkt_end /\ outbuf = Cells(rxbuf, begin, pkt_end)
  /\ Gone => Whole(outbuf)

(* Inv of SlipProofs, and what the ring holds. *)
QueueInv == Inv /\ FrontInv /\ TailInv /\ CopyInv

----------------------------------------------------------------------------
(* Going round the ring. *)

LEMMA DistanceType ==
  ASSUME NEW b \in Index, NEW e \in Index
  PROVE  /\ Distance(b, e) \in 0..(RxSize - 1)
         /\ Distance(b, e) = 0 <=> b = e
BY RxSizeAssumption DEF Distance, Index

LEMMA NthIndex ==
  ASSUME NEW b \in Index, NEW j \in 1..RxSize
  PROVE  Nth(b, j) \in Index /\ Distance(b, Nth(b, j)) = j - 1
BY RxSizeAssumption DEF Nth, Distance, Index

LEMMA NthBefore ==
  ASSUME NEW b \in Index, NEW e \in Index, NEW j \in 1..Distance(b, e)
  PROVE  /\ Nth(b, j) \in Index /\ Distance(b, Nth(b, j)) = j - 1
         /\ Distance(b, Nth(b, j)) < Distance(b, e)
<1>1. Distance(b, e) \in Nat /\ Distance(b, e) < RxSize
  BY DistanceType, RxSizeAssumption
<1>2. j \in 1..RxSize
  BY <1>1, RxSizeAssumption
<1>3. Nth(b, j) \in Index /\ Distance(b, Nth(b, j)) = j - 1
  BY <1>2, NthIndex
<1> QED BY <1>1, <1>3

LEMMA DistanceInjective ==
  ASSUME NEW b \in Index, NEW i \in Index, NEW j \in Index, Distance(b, i) = Distance(b, j)
  PROVE  i = j
BY RxSizeAssumption DEF Distance, Index

LEMMA SuccDistance ==
  ASSUME NEW b \in Index, NEW e \in Index, Succ(e) # b
  PROVE  Succ(e) \in Index /\ Distance(b, Succ(e)) = Distance(b, e) + 1
BY RxSizeAssumption DEF Succ, Distance, Index

LEMMA BetweenDistance ==
  ASSUME NEW b \in Index, NEW p \in Index, NEW e \in Index, Between(b, p, e)
  PROVE  Distance(b, p) + Distance(p, e) = Distance(b, e)
BY RxSizeAssumption DEF Between, Distance, Index

(* Bytes in another place change nothing. *)
LEMMA SameCells ==
  ASSUME NEW buf, NEW new, NEW b \in Index, NEW e \in Index,
         \A i \in Index : Distance(b, i) < Distance(b, e) => new[i] = buf[i]
  PROVE  \A j \in 1..Distance(b, e) : new[Nth(b, j)] = buf[Nth(b, j)]
BY NthBefore

LEMMA SameRun ==
  ASSUME NEW buf, NEW new, NEW b \in Index, NEW e \in Index,
         \A i \in Index : Distance(b, i) < Distance(b, e) => new[i] = buf[i],
         OneFrame(buf, b, e)
  PROVE  OneFrame(new, b, e)
BY DEF OneFrame, Run

LEMMA CellsLength ==
  ASSUME NEW buf \in [Index -> Cell], NEW b \in Index, NEW e \in Index
  PROVE  /\ Cells(buf, b, e) \in Seq(Cell)
         /\ Len(Cells(buf, b, e)) = Distance(b, e)
         /\ b # e => Cells(buf, b, e) # <<>>
<1>1. Distance(b, e) \in Nat
  BY DistanceType
<1>2. Cells(buf, b, e) \in Seq(Cell)
  BY CellsType
<1>3. DOMAIN Cells(buf, b, e) = 1..Distance(b, e)
  BY DEF Cells
<1>4. Len(Cells(buf, b, e)) = Distance(b, e)
  BY <1>1, <1>2, <1>3
<1> QED BY <1>2, <1>4, DistanceType

(* A run is a packet. *)
LEMMA RunPacket ==
  ASSUME NEW buf \in [Index -> Cell], NEW b \in Index, NEW e \in Index, b # e,
         NEW f, NEW k \in Nat, Run(buf, b, e, f, k)
  PROVE  AsPacket(Cells(buf, b, e)) = [frame |-> f, first |-> k, last |-> k + Distance(b, e) - 1]
<1> DEFINE cells == Cells(buf, b, e)
           n == Distance(b, e)
<1>1. n \in 1..(RxSize - 1) /\ Len(cells) = n /\ cells # <<>> /\ DOMAIN cells = 1..n
  BY DistanceType, CellsLength DEF Cells
<1>2. \A j \in 1..n : cells[j].frame = f /\ cells[j].place = k + (j - 1)
  <2> SUFFICES ASSUME NEW j \in 1..n PROVE cells[j].frame = f /\ cells[j].place = k + (j - 1)
    OBVIOUS
  <2>1. Nth(b, j) \in Index /\ Distance(b, Nth(b, j)) = j - 1 /\ j - 1 < n
    BY NthBefore
  <2>2. buf[Nth(b, j)].frame = f /\ buf[Nth(b, j)].place = k + (j - 1)
    BY <2>1 DEF Run
  <2>3. cells[j] = buf[Nth(b, j)]
    BY DEF Cells
  <2> QED BY <2>2, <2>3
<1> HIDE DEF cells, n
<1>3. \A j \in DOMAIN cells : cells[j].frame = cells[1].frame /\ cells[j].place = cells[1].place + j - 1
  BY <1>1, <1>2
<1>4. cells[1].frame = f /\ cells[1].place = k /\ cells[Len(cells)].place = k + n - 1
  BY <1>1, <1>2
<1>5. AsPacket(cells) = [frame |-> f, first |-> k, last |-> k + n - 1]
  BY <1>1, <1>3, <1>4 DEF AsPacket
<1> QED BY <1>5 DEF cells, n

LEMMA RunWhole ==
  ASSUME NEW buf \in [Index -> Cell], NEW b \in Index, NEW e \in Index, b # e, OneFrame(buf, b, e)
  PROVE  Whole(Cells(buf, b, e))
<1>1. PICK f, k \in Nat : Run(buf, b, e, f, k)
  BY DEF OneFrame
<1>2. \A j \in DOMAIN Cells(buf, b, e) :
        Cells(buf, b, e)[j].frame = f /\ Cells(buf, b, e)[j].place = k + j - 1
  <2> SUFFICES ASSUME NEW j \in 1..Distance(b, e)
               PROVE  Cells(buf, b, e)[j].frame = f /\ Cells(buf, b, e)[j].place = k + j - 1
    BY DEF Cells
  <2>1. Nth(b, j) \in Index /\ Distance(b, Nth(b, j)) = j - 1 /\ j - 1 < Distance(b, e)
    BY NthBefore
  <2>2. buf[Nth(b, j)].frame = f /\ buf[Nth(b, j)].place = k + (j - 1)
    BY <1>1, <2>1 DEF Run
  <2> QED BY <2>2 DEF Cells
<1> QED BY <1>2, CellsLength DEF Whole

(* The length of a packet in the terms of PacketQueue. *)
LEMMA WholePacket ==
  ASSUME NEW cells, Whole(cells)
  PROVE  AsPacket(cells).last + 1 - AsPacket(cells).first = Len(cells)
<1>1. PICK f, k \in Nat : \A j \in DOMAIN cells : cells[j].frame = f /\ cells[j].place = k + j - 1
  BY DEF Whole
<1>2. cells \in Seq(Cell) /\ cells # <<>> /\ Len(cells) \in Nat /\ Len(cells) > 0 /\ DOMAIN cells = 1..Len(cells)
  BY DEF Whole
<1>3. cells[1].frame = f /\ cells[1].place = k /\ cells[Len(cells)].place = k + Len(cells) - 1
  BY <1>1, <1>2
<1>4. \A j \in DOMAIN cells : cells[j].frame = cells[1].frame /\ cells[j].place = cells[1].place + j - 1
  BY <1>1, <1>3
<1>5. AsPacket(cells) = [frame |-> f, first |-> k, last |-> k + Len(cells) - 1]
  BY <1>2, <1>3, <1>4 DEF AsPacket
<1> QED BY <1>2, <1>5

----------------------------------------------------------------------------
(* Once round the ring and no further. *)

LEMMA Nowhere ==
  ASSUME NEW buf, NEW b \in Index, NEW f, NEW k
  PROVE  Run(buf, b, b, f, k) /\ OneFrame(buf, b, b)
<1>1. \A i \in Index : ~(Distance(b, i) < Distance(b, b))
  BY RxSizeAssumption DEF Distance, Index
<1>2. \A g, j : Run(buf, b, b, g, j)
  BY <1>1 DEF Run
<1> QED BY <1>2 DEF OneFrame

LEMMA EmptyCells == ASSUME NEW buf \in [Index -> Cell], NEW b \in Index PROVE Cells(buf, b, b) = <<>>
<1>1. Cells(buf, b, b) \in Seq(Cell) /\ Len(Cells(buf, b, b)) = 0
  BY CellsLength, DistanceType
<1> QED BY <1>1

(* The end does not come round to the packets' end unless to their begin. *)
LEMMA NotRound ==
  ASSUME NEW b \in Index, NEW p \in Index, NEW e \in Index, Between(b, p, e), b # p \/ Succ(e) # b
  PROVE  Succ(e) # p
BY RxSizeAssumption DEF Between, Succ, Index

LEMMA Outside ==
  ASSUME NEW b \in Index, NEW p \in Index, NEW e \in Index, Between(b, p, e),
         NEW i \in Index, Distance(b, i) < Distance(b, p)
  PROVE  i # e
BY RxSizeAssumption DEF Between, Distance, Index

(* A byte more makes the run a byte longer. *)
LEMMA LongerRun ==
  ASSUME NEW buf \in [Index -> Cell], NEW p \in Index, NEW e \in Index, Succ(e) # p,
         NEW f \in Nat, NEW k \in Nat, Run(buf, p, e, f, k),
         NEW cell, cell.frame = f, cell.place = k + Distance(p, e)
  PROVE  Run([buf EXCEPT ![e] = cell], p, Succ(e), f, k)
<1> DEFINE new == [buf EXCEPT ![e] = cell]
<1> SUFFICES ASSUME NEW i \in Index, Distance(p, i) < Distance(p, Succ(e))
             PROVE  new[i].frame = f /\ new[i].place = k + Distance(p, i)
  BY DEF Run
<1>1. Distance(p, Succ(e)) = Distance(p, e) + 1 /\ Distance(p, i) \in Nat /\ Distance(p, e) \in Nat
  BY SuccDistance, DistanceType
<1>2. CASE i = e
  BY <1>2
<1>3. CASE i # e
  <2>1. Distance(p, i) # Distance(p, e)
    BY <1>3, DistanceInjective
  <2>2. Distance(p, i) < Distance(p, e)
    BY <1>1, <2>1
  <2>3. new[i] = buf[i]
    BY <1>3
  <2> QED BY <2>2, <2>3 DEF Run
<1> QED BY <1>2, <1>3

LEMMA MoreCells ==
  ASSUME NEW buf \in [Index -> Cell], NEW b \in Index, NEW e \in Index, Succ(e) # b
  PROVE  Append(Cells(buf, b, e), buf[e]) = Cells(buf, b, Succ(e))
<1> DEFINE n == Distance(b, e)
           old == Cells(buf, b, e)
           new == Cells(buf, b, Succ(e))
<1>1. n \in 0..(RxSize - 1) /\ Distance(b, Succ(e)) = n + 1 /\ Succ(e) \in Index
  BY SuccDistance, DistanceType
<1>2. n + 1 \in 1..RxSize
  BY <1>1, RxSizeAssumption
<1>3. Nth(b, n + 1) = e
  <2>1. Nth(b, n + 1) \in Index /\ Distance(b, Nth(b, n + 1)) = n
    BY <1>1, <1>2, NthIndex
  <2> QED BY <2>1, DistanceInjective
<1>4. old \in Seq(Cell) /\ Len(old) = n /\ new \in Seq(Cell) /\ Len(new) = n + 1
  BY <1>1, CellsLength
<1>5. \A j \in 1..n : old[j] = buf[Nth(b, j)]
  BY DEF Cells
<1>6. \A j \in 1..(n + 1) : new[j] = buf[Nth(b, j)]
  BY <1>1 DEF Cells
<1>7. buf[e] \in Cell
  OBVIOUS
<1> HIDE DEF old, new, n
<1>8. Append(old, buf[e]) = new
  BY <1>1, <1>3, <1>4, <1>5, <1>6, <1>7
<1> QED BY <1>8 DEF old, new

----------------------------------------------------------------------------
(* The packets that wait. *)

LEMMA FrontIndex == Inv => Front \in Index /\ Between(Front, pkt_end, end)
BY DEF Inv, Front, TypeOK, RingOK

(* Waiting(at) and Waiting(begin) in one. *)
LEMMA QueueValue ==
  ASSUME QueueInv
  PROVE  queue = (IF Gone THEN <<AsPacket(outbuf)>> ELSE <<>>)
                 \o (IF Front = pkt_end THEN <<>> ELSE <<AsPacket(Cells(rxbuf, Front, pkt_end))>>)
                 \o (IF state = "TWOPACKETS" THEN <<AsPacket(Cells(rxbuf, pkt_end, end))>> ELSE <<>>)
<1>1. CASE Gone
  <2>1. Front = at
    BY <1>1 DEF QueueInv, FrontInv, Front, Gone
  <2> QED BY <1>1, <2>1 DEF queue, Waiting, Gone
<1>2. CASE ~Gone
  <2>1. Front = begin
    BY <1>2 DEF Front, Gone
  <2> QED BY <1>2, <2>1 DEF queue, Waiting, Gone
<1> QED BY <1>1, <1>2

LEMMA InitQueue == Init => QueueInv /\ Queue!Init
<1> SUFFICES ASSUME Init PROVE QueueInv /\ Queue!Init
  OBVIOUS
<1>1. Inv /\ 0 \in Index
  BY InitInv, RxSizeAssumption DEF Index
<1>2. Run(rxbuf, 0, 0, 1, 1) /\ OneFrame(rxbuf, 0, 0) /\ Distance(0, 0) = 0
  BY <1>1, Nowhere, DistanceType
<1>3. QueueInv
  BY <1>1, <1>2 DEF QueueInv, FrontInv, TailInv, CopyInv, Init, Front, Gone
<1>4. queue = <<>>
  BY DEF queue, Waiting, Init
<1>5. AsPacket(taken) = Queue!NoPacket
  BY DEF Init, AsPacket, Queue!NoPacket
<1> QED BY <1>3, <1>4, <1>5 DEF Init, Queue!Init

(* What the interrupt may count on: after a release it comes once. *)
LEMMA AtInterrupt ==
  ASSUME QueueInv, Interrupt, Burst \in {0, 1}
  PROVE  /\ burst' \in {0, 1}
         /\ Gone => Front = pkt_end /\ burst' = 1 /\ (Full \/ Succ(end) # Front)
         /\ Gone' = Gone /\ Front' = Front
<1>1. burst \in {0, 1} /\ (Gone => burst < Burst /\ burst' = burst + 1) /\ (~Gone => burst' = 0)
      /\ UNCHANGED <<pc, begin, at>>
  BY DEF QueueInv, FrontInv, Interrupt, InTime, Gone
<1>2. Gone => burst = 0 /\ burst' = 1
  BY <1>1
<1>3. Gone => Full \/ Succ(end) # Front
  BY <1>2 DEF QueueInv, FrontInv, Front, Gone, Full
<1>4. Gone => Front = pkt_end
  BY <1>2 DEF QueueInv, FrontInv
<1> QED BY <1>1, <1>2, <1>3, <1>4 DEF Gone, Front

(* The interrupt leaves the packets that wait as they are: the frame that  *)
(* is coming is dropped, or goes on to be dropped, or has not ended yet.   *)
LEMMA QuietInterrupt ==
  ASSUME QueueInv, Interrupt, Burst \in {0, 1}, UNCHANGED <<pkt_end, rxbuf>>,
         state # "TWOPACKETS", state' # "TWOPACKETS", TailInv'
  PROVE  QueueInv' /\ UNCHANGED queue
<1>1. Inv'
  BY InterruptType, InterruptInv DEF QueueInv, Inv
<1>2. UNCHANGED <<pc, begin, at, outbuf>>
  BY DEF Interrupt
<1>3. FrontInv'
  BY <1>2, AtInterrupt DEF QueueInv, FrontInv, Gone
<1>4. CopyInv'
  BY <1>2, AtInterrupt DEF QueueInv, CopyInv
<1>5. UNCHANGED queue
  BY <1>2 DEF queue, Waiting
<1> QED BY <1>1, <1>3, <1>4, <1>5 DEF QueueInv

(* The frame that is coming is no longer wanted: its bytes pass by.        *)
LEMMA InterruptDrops ==
  ASSUME QueueInv, Interrupt, Burst \in {0, 1}, UNCHANGED <<pkt_end, rxbuf>>,
         state # "TWOPACKETS", state' = "RUBBISH", end' = pkt_end,
         NEW c, Came(c)
  PROVE  QueueInv' /\ [Queue!Next]_(Queue!vars)
<1>1. TailInv'
  BY DEF TailInv
<1>2. QueueInv' /\ UNCHANGED <<queue, taken>>
  BY <1>1, QuietInterrupt DEF Interrupt
<1> QED BY <1>2 DEF Came, Queue!Next, Queue!Byte, Queue!GiveUp, Queue!NextFrame, Queue!vars

LEMMA InterruptAdds ==
  ASSUME QueueInv, Interrupt, Burst \in {0, 1}, state \in {"OK", "ESC"}, UNCHANGED pkt_end,
         NEW value \in {"byte", "CLIENT"}, AddChar(value), ~Full,
         line' = [line EXCEPT !.bytes = @ + 1]
  PROVE  QueueInv' /\ [Queue!Next]_(Queue!vars)
<1> DEFINE cell == [value |-> value, frame |-> line.frame, place |-> line.bytes + 1]
<1>1. /\ rxbuf' = [rxbuf EXCEPT ![end] = cell] /\ end' = Succ(end) /\ state' = "OK"
      /\ UNCHANGED <<pc, begin, at, outbuf, taken>>
  BY DEF AddChar, Interrupt
<1>2. Inv'
  BY InterruptType, InterruptInv DEF QueueInv, Inv
<1>3. /\ end \in Index /\ pkt_end \in Index /\ rxbuf \in [Index -> Cell]
      /\ line.frame \in Nat /\ line.bytes \in Nat /\ line.lost \in Nat
      /\ line \in [frame : Nat, bytes : Nat, lost : Nat]
  BY DEF QueueInv, Inv, TypeOK
<1>4. Front \in Index /\ Between(Front, pkt_end, end)
  BY FrontIndex DEF QueueInv
<1>5. \A i \in Index : Distance(Front, i) < Distance(Front, pkt_end) => rxbuf'[i] = rxbuf[i]
  BY <1>1, <1>3, <1>4, Outside
<1>6. Succ(end) # pkt_end
  <2>1. Front # pkt_end \/ Succ(end) # Front
    BY AtInterrupt DEF Full, Gone, Front
  <2> QED BY <2>1, <1>3, <1>4, NotRound
<1>7. FrontInv'
  <2>1. OneFrame(rxbuf', Front, pkt_end)
    BY <1>3, <1>4, <1>5, SameRun DEF QueueInv, FrontInv
  <2> QED BY <1>1, <2>1, AtInterrupt DEF QueueInv, FrontInv, Gone
<1>8. TailInv'
  <2>1. Run(rxbuf, pkt_end, end, line.frame, line.lost + 1)
        /\ line.bytes = line.lost + Distance(pkt_end, end)
    BY DEF QueueInv, TailInv
  <2>2. Distance(pkt_end, end) \in Nat /\ Distance(pkt_end, Succ(end)) = Distance(pkt_end, end) + 1
    BY <1>3, <1>6, DistanceType, SuccDistance
  <2>3. cell.frame = line.frame /\ cell.place = (line.lost + 1) + Distance(pkt_end, end)
    BY <1>3, <2>1, <2>2
  <2>4. Run([rxbuf EXCEPT ![end] = cell], pkt_end, Succ(end), line.frame, line.lost + 1)
    <3> HIDE DEF cell
    <3>1. line.lost + 1 \in Nat
      BY <1>3
    <3> QED BY <1>3, <1>6, <2>1, <2>3, <3>1, LongerRun
  <2>5. line'.frame = line.frame /\ line'.lost = line.lost /\ line'.bytes = line.bytes + 1
    BY <1>3
  <2>6. Run(rxbuf', pkt_end', end', line'.frame, line'.lost + 1)
    BY <1>1, <2>4, <2>5
  <2>7. line'.bytes = line'.lost + Distance(pkt_end', end')
    BY <1>1, <1>3, <2>1, <2>2, <2>5
  <2> QED BY <1>1, <2>6, <2>7 DEF TailInv
<1>9. Cells(rxbuf', Front, pkt_end) = Cells(rxbuf, Front, pkt_end)
  BY <1>3, <1>4, <1>5, SameCells DEF Cells
<1>10. ~Gone => Front = begin
  BY DEF Front, Gone
<1>11. CopyInv'
  <2>1. CASE pc = "copy"
    <3>1. /\ Distance(begin, at) < Distance(begin, pkt_end) /\ outbuf = Cells(rxbuf, begin, at)
          /\ Front = begin /\ at \in Index
      BY <2>1, <1>10 DEF QueueInv, CopyInv, Inv, TypeOK, Gone
    <3>2. \A i \in Index : Distance(begin, i) < Distance(begin, at) => rxbuf'[i] = rxbuf[i]
      <4> SUFFICES ASSUME NEW i \in Index, Distance(begin, i) < Distance(begin, at)
                   PROVE  rxbuf'[i] = rxbuf[i]
        OBVIOUS
      <4>1. Distance(begin, i) < Distance(begin, pkt_end)
        <5>1. /\ Distance(begin, i) \in 0..(RxSize - 1) /\ Distance(begin, at) \in 0..(RxSize - 1)
              /\ Distance(begin, pkt_end) \in 0..(RxSize - 1)
          BY <1>3, <1>4, <3>1, DistanceType
        <5> QED BY <3>1, <5>1, RxSizeAssumption
      <4> QED BY <1>5, <3>1, <4>1
    <3>3. Cells(rxbuf', begin, at) = Cells(rxbuf, begin, at)
      BY <1>4, <3>1, <3>2, SameCells DEF Cells
    <3> QED BY <1>1, <2>1, <3>1, <3>3 DEF CopyInv, Gone
  <2>2. CASE pc = "release"
    <3>1. begin # pkt_end /\ outbuf = Cells(rxbuf, begin, pkt_end) /\ Front = begin
      BY <2>2, <1>10 DEF QueueInv, CopyInv, Gone
    <3> QED BY <1>1, <1>9, <2>2, <3>1 DEF CopyInv, Gone
  <2>3. CASE pc \notin {"copy", "release"}
    BY <1>1, <2>3 DEF QueueInv, CopyInv, Gone
  <2> QED BY <2>1, <2>2, <2>3
<1>12. QueueInv'
  BY <1>2, <1>7, <1>8, <1>11 DEF QueueInv
<1>13. UNCHANGED queue
  <2>1. CASE Gone
    <3>1. Front = at
      BY <2>1 DEF QueueInv, FrontInv, Front, Gone
    <3> QED BY <1>1, <1>9, <2>1, <3>1 DEF queue, Waiting, Gone
  <2>2. CASE ~Gone
    BY <1>1, <1>10, <1>9, <2>2 DEF queue, Waiting, Gone
  <2> QED BY <2>1, <2>2
<1> QED BY <1>1, <1>12, <1>13 DEF Queue!Next, Queue!Byte

(* Two packets wait: what comes is lost. *)
LEMMA InterruptLoses ==
  ASSUME QueueInv, Interrupt, Burst \in {0, 1}, NEW c, InTwoPackets(c)
  PROVE  QueueInv' /\ [Queue!Next]_(Queue!vars)
<1>1. Inv'
  BY InterruptType, InterruptInv DEF QueueInv, Inv
<1>2. UNCHANGED <<state, begin, end, pkt_end, rxbuf, pc, at, outbuf, taken>> /\ state = "TWOPACKETS"
  BY DEF Interrupt, InTwoPackets
<1>3. /\ line \in [frame : Nat, bytes : Nat, lost : Nat]
      /\ line.frame \in Nat /\ line.bytes \in Nat /\ line.lost \in Nat /\ line.lost = line.bytes
  BY <1>2 DEF QueueInv, Inv, TypeOK, TailInv
<1>4. line'.lost = line'.bytes
  BY <1>3 DEF InTwoPackets
<1>5. FrontInv' /\ TailInv' /\ CopyInv'
  <2>1. FrontInv'
    BY <1>2, AtInterrupt DEF QueueInv, FrontInv, Front, Gone
  <2>2. TailInv' /\ CopyInv'
    BY <1>2, <1>4 DEF QueueInv, TailInv, CopyInv, Gone
  <2> QED BY <2>1, <2>2
<1>6. UNCHANGED queue
  BY <1>2 DEF queue, Waiting
<1>7. Len(queue) = 2
  <2>1. CASE Gone
    <3>1. queue = <<AsPacket(outbuf)>> \o <<>> \o <<AsPacket(Cells(rxbuf, pkt_end, end))>>
      BY <1>2, <2>1, QueueValue, AtInterrupt
    <3> QED BY <3>1
  <2>2. CASE ~Gone
    <3>1. Front # pkt_end
      BY <1>2, <2>2 DEF QueueInv, FrontInv, Front, Gone
    <3>2. queue = <<>> \o <<AsPacket(Cells(rxbuf, Front, pkt_end))>>
                       \o <<AsPacket(Cells(rxbuf, pkt_end, end))>>
      BY <1>2, <2>2, <3>1, QueueValue
    <3> QED BY <3>2
  <2> QED BY <2>1, <2>2
<1>8. [Queue!Next]_(Queue!vars)
  <2>1. CASE c = "END"
    BY <1>2, <1>6, <2>1 DEF InTwoPackets, Queue!Next, Queue!GiveUp, Queue!NextFrame
  <2>2. CASE c = "ESC"
    BY <1>2, <1>6, <2>2 DEF InTwoPackets, Queue!vars
  <2>3. CASE c \notin {"ESC", "END"}
    <3>1. line' = [frame |-> line.frame, bytes |-> line.bytes + 1, lost |-> line.lost + 1]
      BY <2>3 DEF InTwoPackets
    <3> QED BY <1>2, <1>3, <1>6, <1>7, <3>1 DEF Queue!Next, Queue!ByteLost
  <2> QED BY <2>1, <2>2, <2>3
<1> QED BY <1>1, <1>5, <1>8 DEF QueueInv

(* A frame is complete: it waits behind the packet that waits already, or  *)
(* in front.                                                               *)
LEMMA InterruptArrives ==
  ASSUME QueueInv, Interrupt, Burst \in {0, 1}, InEnd, end # pkt_end
  PROVE  QueueInv' /\ [Queue!Next]_(Queue!vars)
<1> DEFINE packet == [frame |-> line.frame, first |-> line.lost + 1, last |-> line.bytes]
<1>1. Inv'
  BY InterruptType, InterruptInv DEF QueueInv, Inv
<1>2. /\ UNCHANGED <<begin, end, rxbuf, pc, at, outbuf, taken>> /\ state = "OK"
      /\ line' = [frame |-> line.frame + 1, bytes |-> 0, lost |-> 0]
  BY DEF Interrupt, InEnd, Came
<1>3. /\ end \in Index /\ pkt_end \in Index /\ rxbuf \in [Index -> Cell] /\ at \in Index
      /\ line.frame \in Nat /\ line.bytes \in Nat /\ line.lost \in Nat
      /\ line' \in [frame : Nat, bytes : Nat, lost : Nat]
  BY <1>1 DEF QueueInv, Inv, TypeOK
<1>4. /\ Run(rxbuf, pkt_end, end, line.frame, line.lost + 1)
      /\ line.bytes = line.lost + Distance(pkt_end, end)
      /\ Distance(pkt_end, end) \in Nat /\ Distance(pkt_end, end) # 0
  BY <1>2, <1>3, DistanceType DEF QueueInv, TailInv
<1>5. OneFrame(rxbuf, pkt_end, end)
  <2>1. line.lost + 1 \in Nat
    BY <1>3
  <2> QED BY <1>3, <1>4, <2>1 DEF OneFrame
<1>6. AsPacket(Cells(rxbuf, pkt_end, end)) = packet
  <2>1. line.lost + 1 \in Nat
    BY <1>3
  <2>2. AsPacket(Cells(rxbuf, pkt_end, end))
          = [frame |-> line.frame, first |-> line.lost + 1,
             last |-> (line.lost + 1) + Distance(pkt_end, end) - 1]
    BY <1>3, <1>4, <2>1, RunPacket
  <2>3. (line.lost + 1) + Distance(pkt_end, end) - 1 = line.bytes
    BY <1>3, <1>4
  <2> QED BY <2>2, <2>3
<1>7. ~Gone => Front = begin
  BY DEF Front, Gone
<1>8. Gone => Front = at
  BY DEF QueueInv, FrontInv, Front, Gone
<1>9. line'.bytes = 0 /\ line'.lost = 0 /\ Distance(end, end) = 0 /\ OneFrame(rxbuf, end, end)
      /\ \A f, k : Run(rxbuf, end, end, f, k)
  BY <1>2, <1>3, DistanceType, Nowhere
<1> HIDE DEF packet
<1>10. CASE NoneBuffered
  <2>1. pkt_end' = end /\ state' = "OK" /\ begin = pkt_end
    BY <1>2, <1>10 DEF InEnd, NoneBuffered
  <2>2. Front = pkt_end /\ (Gone => at = begin)
    BY <1>7, <1>8, <2>1, AtInterrupt
  <2>3. FrontInv'
    <3>1. OneFrame(rxbuf', Front', pkt_end')
      BY <1>2, <1>5, <2>1, <2>2, AtInterrupt
    <3>2. (pc = "second" => begin = at)' /\ burst' \in {0, 1} /\ (Gone => burst' = 1)
      BY <1>2, <2>2, AtInterrupt DEF Gone
    <3> QED BY <1>2, <2>1, <3>1, <3>2 DEF FrontInv, Gone
  <2>4. TailInv'
    BY <1>2, <1>9, <2>1 DEF TailInv
  <2>5. CopyInv'
    <3>1. pc \notin {"copy", "release"}
      BY <2>1 DEF QueueInv, Inv, WakeOK
    <3> QED BY <1>2, <3>1 DEF QueueInv, CopyInv, Gone
  <2>6. QueueInv'
    BY <1>1, <2>3, <2>4, <2>5 DEF QueueInv
  <2>7. Len(queue) < 2 /\ queue' = Append(queue, packet)
    <3>1. CASE Gone
      <4>1. queue = <<AsPacket(outbuf)>> \o <<>> \o <<>>
        BY <1>2, <2>2, <3>1, QueueValue
      <4>2. queue' = <<AsPacket(outbuf)>> \o <<packet>> \o <<>>
        BY <1>2, <1>6, <2>1, <2>2, <3>1 DEF queue, Waiting, Gone
      <4> QED BY <4>1, <4>2
    <3>2. CASE ~Gone
      <4>1. queue = <<>> \o <<>> \o <<>>
        BY <1>2, <2>2, <3>2, QueueValue
      <4>2. queue' = <<packet>> \o <<>>
        BY <1>2, <1>6, <2>1, <3>2 DEF queue, Waiting, Gone
      <4> QED BY <4>1, <4>2
    <3> QED BY <3>1, <3>2
  <2> QED BY <1>2, <1>3, <1>4, <2>6, <2>7 DEF Queue!Next, Queue!Arrive, Queue!NextFrame, packet
<1>11. CASE ~NoneBuffered
  <2>1. UNCHANGED pkt_end /\ state' = "TWOPACKETS" /\ begin # pkt_end
    BY <1>2, <1>11 DEF InEnd, NoneBuffered
  <2>2. FrontInv'
    <3>1. OneFrame(rxbuf', Front', pkt_end')
      BY <1>2, <2>1, AtInterrupt DEF QueueInv, FrontInv
    <3>2. (pc = "second" => begin = at)' /\ burst' \in {0, 1}
          /\ (Gone => burst' = 1 /\ Front = pkt_end)
      BY <1>2, AtInterrupt DEF QueueInv, FrontInv
    <3> QED BY <1>2, <2>1, <3>1, <3>2, AtInterrupt DEF FrontInv, Gone
  <2>3. TailInv'
    BY <1>2, <1>5, <1>9, <2>1 DEF TailInv
  <2>4. CopyInv'
    BY <1>2, <2>1 DEF QueueInv, CopyInv, Gone
  <2>5. QueueInv'
    BY <1>1, <2>2, <2>3, <2>4 DEF QueueInv
  <2>6. Len(queue) < 2 /\ queue' = Append(queue, packet)
    <3>1. CASE Gone
      <4>1. queue = <<AsPacket(outbuf)>> \o <<>> \o <<>>
        BY <1>2, <3>1, QueueValue, AtInterrupt
      <4>2. queue' = <<AsPacket(outbuf)>> \o <<>> \o <<packet>>
        <5>1. at = pkt_end
          BY <1>8, <3>1, AtInterrupt
        <5> QED BY <1>2, <1>6, <2>1, <3>1, <5>1 DEF queue, Waiting, Gone
      <4> QED BY <4>1, <4>2
    <3>2. CASE ~Gone
      <4> DEFINE old == AsPacket(Cells(rxbuf, begin, pkt_end))
      <4>1. queue = <<>> \o <<old>> \o <<>>
        BY <1>2, <1>7, <2>1, <3>2, QueueValue
      <4>2. queue' = <<old>> \o <<packet>>
        BY <1>2, <1>6, <2>1, <3>2 DEF queue, Waiting, Gone
      <4> HIDE DEF old
      <4> QED BY <4>1, <4>2
    <3> QED BY <3>1, <3>2
  <2> QED BY <1>2, <1>3, <1>4, <2>5, <2>6 DEF Queue!Next, Queue!Arrive, Queue!NextFrame, packet
<1> QED BY <1>10, <1>11

LEMMA InterruptStep ==
  ASSUME QueueInv, Interrupt, Burst \in {0, 1}
  PROVE  QueueInv' /\ [Queue!Next]_(Queue!vars)
<1>1. PICK c \in Symbol : \/ InRubbish(c) \/ InTwoPackets(c) \/ InEscape(c)
                          \/ c = "ESC" /\ InEsc
                          \/ c = "END" /\ InEnd
                          \/ c \notin {"ESC", "END"} /\ InByte(c)
  BY DEF Interrupt
<1>2. UNCHANGED taken /\ line \in [frame : Nat, bytes : Nat, lost : Nat]
  BY DEF Interrupt, QueueInv, Inv, TypeOK
<1>3. CASE InRubbish(c)
  <2>1. UNCHANGED <<pkt_end, rxbuf, end>> /\ state = "RUBBISH" /\ Came(c)
        /\ state' = (IF c = "END" THEN "OK" ELSE state) /\ end = pkt_end
    BY <1>3 DEF InRubbish, QueueInv, TailInv
  <2>2. CASE c = "END"
    <3>1. line' = [frame |-> line.frame + 1, bytes |-> 0, lost |-> 0] /\ state' = "OK"
      BY <2>1, <2>2 DEF Came
    <3>2. line'.bytes = 0 /\ line'.lost = 0
      BY <3>1
    <3>3. Run(rxbuf, end, end, line'.frame, line'.lost + 1) /\ Distance(end, end) = 0
      BY Nowhere, DistanceType DEF QueueInv, Inv, TypeOK
    <3>4. TailInv'
      BY <2>1, <3>1, <3>2, <3>3 DEF TailInv
    <3>5. QueueInv' /\ UNCHANGED queue
      BY <2>1, <3>1, <3>4, QuietInterrupt
    <3> QED BY <1>2, <3>1, <3>5 DEF Queue!Next, Queue!GiveUp, Queue!NextFrame
  <2>3. CASE c # "END"
    BY <2>1, <2>3, InterruptDrops
  <2> QED BY <2>2, <2>3
<1>4. CASE InTwoPackets(c)
  BY <1>4, InterruptLoses
<1>5. CASE InEscape(c)
  <2>1. state = "ESC" /\ Came(c) /\ UNCHANGED pkt_end
    BY <1>5 DEF InEscape
  <2>2. CASE c = "coded" /\ ~Full
    <3>1. AddChar("byte") /\ line' = [line EXCEPT !.bytes = @ + 1]
      BY <1>5, <2>1, <2>2 DEF InEscape, Came
    <3> QED BY <2>1, <2>2, <3>1, InterruptAdds
  <2>3. CASE c # "coded" \/ Full
    <3>1. state' = "RUBBISH" /\ end' = pkt_end /\ UNCHANGED rxbuf
      BY <1>5, <2>3 DEF InEscape, AddChar
    <3> QED BY <2>1, <3>1, InterruptDrops
  <2> QED BY <2>2, <2>3
<1>6. CASE InEsc
  <2>1. UNCHANGED <<pkt_end, rxbuf, end, line>> /\ state = "OK" /\ state' = "ESC"
    BY <1>6 DEF InEsc, Came
  <2>2. TailInv'
    BY <2>1 DEF QueueInv, TailInv
  <2>3. QueueInv' /\ UNCHANGED queue
    BY <2>1, <2>2, QuietInterrupt
  <2> QED BY <1>2, <2>1, <2>3 DEF Queue!vars
<1>7. CASE InEnd
  <2>1. CASE end # pkt_end
    BY <1>7, <2>1, InterruptArrives
  <2>2. CASE end = pkt_end
    <3>1. UNCHANGED <<pkt_end, rxbuf, end, state>> /\ state = "OK"
          /\ line' = [frame |-> line.frame + 1, bytes |-> 0, lost |-> 0]
      BY <1>7, <2>2 DEF InEnd, Came
    <3>2. line'.bytes = 0 /\ line'.lost = 0
      BY <3>1
    <3>3. Run(rxbuf, end, end, line'.frame, line'.lost + 1) /\ Distance(end, end) = 0
      BY Nowhere, DistanceType DEF QueueInv, Inv, TypeOK
    <3>4. TailInv'
      BY <2>2, <3>1, <3>2, <3>3 DEF TailInv
    <3>5. QueueInv' /\ UNCHANGED queue
      BY <3>1, <3>4, QuietInterrupt
    <3> QED BY <1>2, <3>1, <3>5 DEF Queue!Next, Queue!GiveUp, Queue!NextFrame
  <2> QED BY <2>1, <2>2
<1>8. CASE c \notin {"ESC", "END"} /\ InByte(c)
  <2>1. PICK value \in {"byte", "CLIENT"} : AddChar(value)
    BY <1>8 DEF InByte
  <2>2. state = "OK" /\ UNCHANGED pkt_end /\ Came(c) /\ line' = [line EXCEPT !.bytes = @ + 1]
    BY <1>8 DEF InByte, Came
  <2>3. CASE ~Full
    BY <2>1, <2>2, <2>3, InterruptAdds
  <2>4. CASE Full
    <3>1. state' = "RUBBISH" /\ end' = pkt_end /\ UNCHANGED rxbuf
      BY <2>1, <2>4 DEF AddChar
    <3> QED BY <2>2, <3>1, InterruptDrops
  <2> QED BY <2>3, <2>4
<1> QED BY <1>1, <1>3, <1>4, <1>5, <1>6, <1>7, <1>8

----------------------------------------------------------------------------
(* The process. *)

LEMMA GreetingStep ==
  ASSUME QueueInv, Greeting PROVE QueueInv' /\ [Queue!Next]_(Queue!vars)
<1>1. Inv'
  BY ProcessType, ProcessInv DEF QueueInv, Inv, Process
<1>2. /\ begin' = 0 /\ end' = 0 /\ pkt_end' = 0 /\ state' = "OK" /\ pc' = "idle" /\ 0 \in Index
      /\ UNCHANGED <<burst, taken>>
  BY RxSizeAssumption DEF Greeting, Index
<1>3. line \in [frame : Nat, bytes : Nat, lost : Nat] /\ line.bytes \in Nat
  BY DEF QueueInv, Inv, TypeOK
<1>4. line' = [line EXCEPT !.lost = line.bytes] /\ line'.lost = line'.bytes /\ line'.bytes \in Nat
  BY <1>3 DEF Greeting
<1>5. Run(rxbuf', 0, 0, line'.frame, line'.lost + 1) /\ OneFrame(rxbuf', 0, 0) /\ Distance(0, 0) = 0
  BY <1>2, Nowhere, DistanceType
<1>6. FrontInv' /\ TailInv' /\ CopyInv'
  <2>1. FrontInv'
    BY <1>2, <1>5 DEF QueueInv, FrontInv, Front, Gone
  <2>2. TailInv'
    BY <1>2, <1>4, <1>5 DEF TailInv
  <2>3. CopyInv'
    BY <1>2 DEF CopyInv, Gone
  <2> QED BY <2>1, <2>2, <2>3
<1>7. queue' = <<>>
  BY <1>2 DEF queue, Waiting
<1> QED BY <1>1, <1>2, <1>4, <1>6, <1>7 DEF QueueInv, Queue!Next, Queue!Greeting

(* Until the release the process only looks. *)
LEMMA LookStep ==
  ASSUME QueueInv, Poll \/ NoGreeting \/ Test \/ Copy PROVE QueueInv' /\ UNCHANGED Queue!vars
<1>1. Inv'
  BY ProcessType, ProcessInv DEF QueueInv, Inv, Process
<1>2. UNCHANGED <<state, begin, end, pkt_end, rxbuf, burst, line, taken>> /\ ~Gone /\ ~Gone'
  BY DEF Poll, NoGreeting, Test, Copy, Gone
<1>3. Front = begin /\ Front' = begin
  BY <1>2 DEF Front, Gone
<1>4. FrontInv' /\ TailInv'
  <2>1. FrontInv'
    BY <1>2, <1>3 DEF QueueInv, FrontInv, Gone
  <2>2. TailInv'
    BY <1>2 DEF QueueInv, TailInv
  <2> QED BY <2>1, <2>2
<1>5. begin \in Index /\ pkt_end \in Index /\ at \in Index /\ rxbuf \in [Index -> Cell]
  BY <1>2 DEF QueueInv, Inv, TypeOK, Gone
<1>6. CopyInv'
  <2>1. CASE Poll \/ NoGreeting
    BY <1>2, <2>1 DEF Poll, NoGreeting, CopyInv
  <2>2. CASE Test
    <3>1. at' = begin
      BY <2>2 DEF Test
    <3>2. CASE pc' = "copy"
      <4>1. outbuf' = <<>> /\ begin # pkt_end
        BY <2>2, <3>2 DEF Test
      <4>2. Distance(begin, begin) = 0 /\ Distance(begin, pkt_end) \in 0..(RxSize - 1)
            /\ Distance(begin, pkt_end) # 0
        BY <1>5, <4>1, DistanceType
      <4>3. Cells(rxbuf, begin, begin) = <<>>
        BY <1>5, EmptyCells
      <4>4. Distance(begin, begin) < Distance(begin, pkt_end)
        BY <4>2, RxSizeAssumption
      <4> QED BY <1>2, <3>1, <3>2, <4>1, <4>3, <4>4 DEF CopyInv
    <3>3. CASE pc' = "release"
      <4>1. outbuf' = Cells(rxbuf, begin, pkt_end) /\ begin # pkt_end
        BY <2>2, <3>3 DEF Test
      <4> QED BY <1>2, <3>3, <4>1 DEF CopyInv
    <3>4. CASE pc' \notin {"copy", "release"}
      BY <1>2, <3>4 DEF CopyInv
    <3> QED BY <3>2, <3>3, <3>4
  <2>3. CASE Copy
    <3> DEFINE d == Distance(begin, at)
               n == Distance(begin, pkt_end)
    <3>1. d < n /\ outbuf = Cells(rxbuf, begin, at)
      BY <2>3 DEF QueueInv, CopyInv, Copy
    <3>2. d \in 0..(RxSize - 1) /\ n \in 0..(RxSize - 1)
      BY <1>5, DistanceType
    <3>3. Succ(at) # begin
      BY <1>5, <3>1, RxSizeAssumption DEF Succ, Distance, Index
    <3>4. Succ(at) \in Index /\ Distance(begin, Succ(at)) = d + 1
      BY <1>5, <3>3, SuccDistance
    <3>5. outbuf' = Cells(rxbuf, begin, Succ(at))
      BY <1>5, <2>3, <3>1, <3>3, MoreCells DEF Copy
    <3>6. begin # pkt_end
      BY <1>5, <3>1, <3>2, DistanceType, RxSizeAssumption
    <3>7. CASE Succ(at) = pkt_end
      <4>1. pc' = "release"
        BY <2>3, <3>7 DEF Copy
      <4> QED BY <1>2, <3>5, <3>6, <3>7, <4>1 DEF CopyInv
    <3>8. CASE Succ(at) # pkt_end
      <4>1. pc' = "copy" /\ at' = Succ(at)
        BY <2>3, <3>8 DEF Copy
      <4>2. d + 1 # n
        BY <1>5, <3>4, <3>8, DistanceInjective
      <4>3. d + 1 < n
        BY <3>1, <3>2, <4>2, RxSizeAssumption
      <4> QED BY <1>2, <3>4, <3>5, <4>1, <4>3 DEF CopyInv
    <3> QED BY <3>7, <3>8
  <2> QED BY <2>1, <2>2, <2>3
<1>7. UNCHANGED queue
  BY <1>2 DEF queue, Waiting, Gone
<1> QED BY <1>1, <1>2, <1>4, <1>6, <1>7 DEF QueueInv, Queue!vars

(* Between release and check the packet is in outbuf alone. *)
LEMMA ReleaseStep ==
  ASSUME QueueInv, Release \/ Released PROVE QueueInv' /\ UNCHANGED Queue!vars
<1>1. Inv'
  BY ProcessType, ProcessInv DEF QueueInv, Inv, Process
<1>2. /\ UNCHANGED <<state, end, pkt_end, rxbuf, line, taken, outbuf>> /\ Gone'
      /\ pkt_end \in Index /\ end \in Index /\ rxbuf \in [Index -> Cell]
  BY DEF Release, Released, Gone, QueueInv, Inv, TypeOK
<1>3. TailInv'
  BY <1>2 DEF QueueInv, TailInv
<1>4. CASE Release
  <2>1. begin # pkt_end /\ outbuf = Cells(rxbuf, begin, pkt_end) /\ ~Gone /\ Front = begin
    BY <1>4 DEF Release, QueueInv, CopyInv, Gone, Front
  <2>2. /\ at' = pkt_end /\ pc' = "released" /\ burst' = 0 /\ Front' = pkt_end
    BY <1>4 DEF Release, Front
  <2>3. begin \in Index /\ Between(begin, pkt_end, end)
    BY <2>1, FrontIndex DEF QueueInv
  <2>4. Succ(end) # pkt_end
    BY <1>2, <2>1, <2>3, NotRound
  <2>5. FrontInv'
    <3>1. OneFrame(rxbuf', Front', pkt_end')
      BY <1>2, <2>2, Nowhere
    <3> QED BY <1>2, <2>2, <2>4, <3>1 DEF FrontInv, Succ, Gone
  <2>6. CopyInv'
    <3>1. OneFrame(rxbuf, begin, pkt_end)
      BY <2>1 DEF QueueInv, FrontInv
    <3>2. Whole(outbuf)
      BY <1>2, <2>1, <2>3, <3>1, RunWhole
    <3> QED BY <1>2, <2>2, <3>2 DEF CopyInv
  <2>7. UNCHANGED queue
    <3> DEFINE p == AsPacket(Cells(rxbuf, begin, pkt_end))
               tail == IF state = "TWOPACKETS" THEN <<AsPacket(Cells(rxbuf, pkt_end, end))>> ELSE <<>>
    <3>1. queue = <<p>> \o tail
      BY <2>1 DEF queue, Waiting, Gone
    <3>2. queue' = (<<p>> \o <<>>) \o tail
      BY <1>2, <2>1, <2>2 DEF queue, Waiting
    <3> HIDE DEF p, tail
    <3>3. <<p>> \o <<>> = <<p>>
      OBVIOUS
    <3> QED BY <3>1, <3>2, <3>3
  <2> QED BY <1>1, <1>2, <1>3, <2>5, <2>6, <2>7 DEF QueueInv, Queue!vars
<1>5. CASE Released
  <2>1. pc = "released" /\ begin' = at /\ pc' = "second" /\ UNCHANGED <<at, burst>> /\ Gone
    BY <1>5 DEF Released, Gone
  <2>2. Front = at /\ Front' = at
    BY <2>1 DEF Front
  <2>3. FrontInv'
    BY <1>2, <2>1, <2>2 DEF QueueInv, FrontInv, Gone
  <2>4. CopyInv'
    BY <1>2, <2>1 DEF QueueInv, CopyInv, Gone, Whole
  <2>5. UNCHANGED queue
    BY <1>2, <2>1 DEF queue, Waiting
  <2> QED BY <1>1, <1>2, <1>3, <2>3, <2>4, <2>5 DEF QueueInv, Queue!vars
<1> QED BY <1>4, <1>5

(* The packet is taken, and the second one, if there is one, is the first. *)
LEMMA SecondStep ==
  ASSUME QueueInv, Second PROVE QueueInv' /\ [Queue!Next]_(Queue!vars)
<1>1. Inv'
  BY ProcessType, ProcessInv DEF QueueInv, Inv, Process
<1>2. /\ UNCHANGED <<begin, end, rxbuf, line>> /\ pc = "second" /\ pc' = "idle" /\ burst' = 0
      /\ begin = at /\ Front = begin /\ Front' = begin /\ Gone /\ ~Gone'
      /\ state' # "TWOPACKETS"
  BY DEF Second, SecondIsReady, QueueInv, FrontInv, Front, Gone
<1>3. /\ pkt_end \in Index /\ end \in Index /\ begin \in Index /\ rxbuf \in [Index -> Cell]
  BY <1>2 DEF QueueInv, Inv, TypeOK
<1>4. Whole(outbuf)
  BY <1>2 DEF QueueInv, CopyInv
<1>5. CopyInv'
  BY <1>2 DEF CopyInv
<1> DEFINE out == AsPacket(outbuf)
<1>6. AsPacket(taken)' = IF out.last + 1 - out.first <= Room THEN out ELSE AsPacket(taken)
  BY <1>4, WholePacket DEF Second
<1>7. CASE state = "TWOPACKETS"
  <2>1. state' = "OK" /\ pkt_end' = end
    BY <1>7 DEF Second, SecondIsReady
  <2>2. Front = pkt_end /\ OneFrame(rxbuf, pkt_end, end) /\ pkt_end # end /\ line.lost = line.bytes
    BY <1>2, <1>7 DEF QueueInv, FrontInv, TailInv
  <2>3. FrontInv'
    BY <1>2, <2>1, <2>2 DEF FrontInv
  <2>4. TailInv'
    <3>1. Run(rxbuf, end, end, line.frame, line.lost + 1) /\ Distance(end, end) = 0
      BY <1>3, Nowhere, DistanceType
    <3>2. line.bytes = line.lost + Distance(end, end)
      BY <2>2, <3>1 DEF QueueInv, Inv, TypeOK
    <3> QED BY <1>2, <2>1, <3>1, <3>2 DEF TailInv
  <2> DEFINE two == AsPacket(Cells(rxbuf, pkt_end, end))
  <2>5. queue = <<out>> \o <<>> \o <<two>>
    BY <1>2, <1>7, <2>2, QueueValue
  <2>6. queue' = <<two>> \o <<>>
    BY <1>2, <2>1, <2>2 DEF queue, Waiting
  <2> HIDE DEF two, out
  <2>7. queue # <<>> /\ Head(queue) = out /\ queue' = Tail(queue)
    BY <2>5, <2>6
  <2>8. Queue!Take
    BY <1>2, <1>6, <2>7 DEF Queue!Take
  <2> QED BY <1>1, <1>5, <2>3, <2>4, <2>8 DEF QueueInv, Queue!Next
<1>8. CASE state # "TWOPACKETS"
  <2>1. UNCHANGED <<state, pkt_end>>
    BY <1>8 DEF Second, SecondIsReady
  <2>2. FrontInv'
    BY <1>2, <1>8, <2>1 DEF QueueInv, FrontInv
  <2>3. TailInv'
    BY <1>2, <2>1 DEF QueueInv, TailInv
  <2> DEFINE rest == IF begin = pkt_end THEN <<>> ELSE <<AsPacket(Cells(rxbuf, begin, pkt_end))>>
  <2>4. queue = <<out>> \o rest \o <<>>
    BY <1>2, <1>8, QueueValue
  <2>5. queue' = rest \o <<>>
    BY <1>2, <1>8, <2>1 DEF queue, Waiting
  <2>6. rest = <<>> \/ \E p : rest = <<p>>
    OBVIOUS
  <2> HIDE DEF rest, out
  <2>7. queue # <<>> /\ Head(queue) = out /\ queue' = Tail(queue)
    <3>1. CASE rest = <<>>
      BY <2>4, <2>5, <3>1
    <3>2. ASSUME NEW p, rest = <<p>>
          PROVE  queue # <<>> /\ Head(queue) = out /\ queue' = Tail(queue)
      BY <2>4, <2>5, <3>2
    <3> QED BY <2>6, <3>1, <3>2
  <2>8. Queue!Take
    BY <1>2, <1>6, <2>7 DEF Queue!Take
  <2> QED BY <1>1, <1>5, <2>2, <2>3, <2>8 DEF QueueInv, Queue!Next
<1> QED BY <1>7, <1>8

LEMMA QueueStep ==
  ASSUME Burst \in {0, 1}, QueueInv, [Next]_vars
  PROVE  QueueInv' /\ [Queue!Next]_(Queue!vars)
<1>1. CASE Interrupt
  BY <1>1, InterruptStep
<1>2. CASE Process
  BY <1>2, GreetingStep, LookStep, ReleaseStep, SecondStep DEF Process
<1>3. CASE UNCHANGED vars
  <2>1. Inv'
    BY <1>3 DEF QueueInv, Inv, TypeOK, RingOK, WakeOK, NoLostWakeup, vars
  <2>2. FrontInv' /\ TailInv' /\ CopyInv'
    BY <1>3 DEF QueueInv, FrontInv, TailInv, CopyInv, Front, Gone, Whole, vars
  <2>3. UNCHANGED Queue!vars
    BY <1>3 DEF Queue!vars, queue, Waiting, vars
  <2> QED BY <2>1, <2>2, <2>3 DEF QueueInv
<1> QED BY <1>1, <1>2, <1>3 DEF Next

(* No step of the interrupt or of the process, whatever their order, does  *)
(* anything to the packets but what PacketQueue lets happen to them: the   *)
(* safety part of KeepsPackets.                                            *)
THEOREM LineIsQueue ==
  ASSUME Burst \in {0, 1} PROVE Spec => Queue!Init /\ [][Queue!Next]_(Queue!vars)
<1>1. QueueInv /\ [Next]_vars => QueueInv' /\ [Queue!Next]_(Queue!vars)
  BY QueueStep
<1> QED BY InitQueue, <1>1, PTL DEF Spec
----------------------------------------------------------------------------
(* The order of the packets. *)

(* What waits is of later frames than what was taken, of earlier ones than *)
(* what comes, and lies in order.                                          *)
OrderInv ==
  /\ queue \in Seq(Queue!Packet)
  /\ AsPacket(taken).frame \in Nat /\ AsPacket(taken).frame < line.frame
  /\ \A i \in DOMAIN queue : /\ AsPacket(taken).frame < queue[i].frame
                             /\ queue[i].frame < line.frame
  /\ \A i, j \in DOMAIN queue : i < j => queue[i].frame < queue[j].frame

LEMMA InitOrder == Init => OrderInv
<1> SUFFICES ASSUME Init PROVE OrderInv
  OBVIOUS
<1>1. queue = <<>>
  BY DEF queue, Waiting, Init
<1>2. AsPacket(taken).frame = 0 /\ line.frame = 1
  BY DEF Init, AsPacket
<1> QED BY <1>1, <1>2 DEF OrderInv

LEMMA FrameType == OrderInv => \A i \in DOMAIN queue : queue[i].frame \in Nat
<1> SUFFICES ASSUME OrderInv, NEW i \in DOMAIN queue PROVE queue[i].frame \in Nat
  OBVIOUS
<1>1. queue \in Seq(Queue!Packet)
  BY DEF OrderInv
<1> HIDE DEF queue
<1>2. queue[i] \in Queue!Packet
  BY <1>1
<1> QED BY <1>2 DEF Queue!Packet

(* PacketQueue keeps the order: what arrives is of the frame that ends, and *)
(* the first is taken.                                                     *)
LEMMA OrderStep ==
  ASSUME TypeOK, OrderInv, [Queue!Next]_(Queue!vars)
  PROVE  OrderInv'
<1>0. /\ line \in [frame : Nat, bytes : Nat, lost : Nat] /\ line.frame \in Nat
      /\ line.bytes \in Nat /\ line.lost \in Nat
  BY DEF TypeOK
<1> DEFINE t == AsPacket(taken)
<1>1. ASSUME UNCHANGED <<queue, t>>, line'.frame = line.frame \/ line'.frame = line.frame + 1
      PROVE  OrderInv'
  <2>1. \A i \in DOMAIN queue : queue[i].frame \in Nat
    BY FrameType
  <2> QED BY <1>0, <1>1, <2>1 DEF OrderInv
<1>2. CASE UNCHANGED Queue!vars
  BY <1>1, <1>2 DEF Queue!vars
<1>3. CASE Queue!Byte \/ Queue!ByteLost \/ Queue!GiveUp
  BY <1>0, <1>1, <1>3 DEF Queue!Byte, Queue!ByteLost, Queue!GiveUp, Queue!NextFrame
<1>4. CASE Queue!Arrive
  <2> DEFINE p == [frame |-> line.frame, first |-> line.lost + 1, last |-> line.bytes]
  <2>1. p \in Queue!Packet /\ p.frame = line.frame
    BY <1>0 DEF Queue!Packet
  <2>2. queue' = Append(queue, p) /\ t' = t /\ line'.frame = line.frame + 1
    BY <1>4 DEF Queue!Arrive, Queue!NextFrame
  <2> HIDE DEF p, t
  <2>3. /\ queue' \in Seq(Queue!Packet) /\ DOMAIN queue' = 1..(Len(queue) + 1)
        /\ DOMAIN queue = 1..Len(queue) /\ Len(queue) \in Nat
        /\ queue'[Len(queue) + 1] = p /\ \A i \in DOMAIN queue : queue'[i] = queue[i]
    BY <2>1, <2>2 DEF OrderInv
  <2>4. \A i \in DOMAIN queue : /\ t.frame < queue[i].frame /\ queue[i].frame < line.frame
                                /\ queue[i].frame \in Nat
    BY FrameType DEF OrderInv, t
  <2>5. \A i \in DOMAIN queue' : t.frame < queue'[i].frame /\ queue'[i].frame < line.frame + 1
    BY <1>0, <2>1, <2>3, <2>4 DEF OrderInv, t
  <2>6. ASSUME NEW i \in DOMAIN queue', NEW j \in DOMAIN queue', i < j
        PROVE  queue'[i].frame < queue'[j].frame
    <3>1. i \in DOMAIN queue /\ queue'[i] = queue[i]
      BY <2>3, <2>6
    <3>2. CASE j \in DOMAIN queue
      <4>1. queue[i].frame < queue[j].frame
        BY <2>6, <3>1, <3>2 DEF OrderInv
      <4> QED BY <2>3, <3>1, <3>2, <4>1
    <3>3. CASE j = Len(queue) + 1
      BY <2>1, <2>3, <2>4, <3>1, <3>3
    <3> QED BY <2>3, <3>2, <3>3
  <2>7. t.frame \in Nat /\ t.frame < line.frame + 1
    BY <1>0 DEF OrderInv, t
  <2> QED BY <2>2, <2>3, <2>5, <2>6, <2>7 DEF OrderInv, t
<1>5. CASE Queue!Take
  <2>1. /\ queue # <<>> /\ queue' = Tail(queue) /\ line' = line
        /\ t' = Head(queue) \/ t' = t
    BY <1>5 DEF Queue!Take
  <2> HIDE DEF t
  <2>2. /\ queue' \in Seq(Queue!Packet) /\ Len(queue) \in Nat \ {0}
        /\ DOMAIN queue = 1..Len(queue) /\ DOMAIN queue' = 1..(Len(queue) - 1)
        /\ Head(queue) = queue[1] /\ \A i \in DOMAIN queue' : queue'[i] = queue[i + 1]
    BY <2>1 DEF OrderInv
  <2>3. \A i \in DOMAIN queue : /\ t.frame < queue[i].frame /\ queue[i].frame < line.frame
                                /\ queue[i].frame \in Nat
    BY FrameType DEF OrderInv, t
  <2>4. ASSUME NEW i \in DOMAIN queue'
        PROVE  /\ queue[1].frame < queue'[i].frame
               /\ t.frame < queue'[i].frame
               /\ queue'[i].frame < line.frame
    <3>1. 1 \in DOMAIN queue /\ i + 1 \in DOMAIN queue /\ 1 < i + 1
      BY <2>2
    <3>2. queue[1].frame < queue[i + 1].frame
      BY <3>1 DEF OrderInv
    <3>3. queue'[i] = queue[i + 1]
      BY <2>2
    <3> QED BY <2>3, <3>1, <3>2, <3>3
  <2>5. ASSUME NEW i \in DOMAIN queue', NEW j \in DOMAIN queue', i < j
        PROVE  queue'[i].frame < queue'[j].frame
    <3>1. i + 1 \in DOMAIN queue /\ j + 1 \in DOMAIN queue /\ i + 1 < j + 1
      BY <2>2, <2>5
    <3>2. queue[i + 1].frame < queue[j + 1].frame
      BY <3>1 DEF OrderInv
    <3> QED BY <2>2, <3>2
  <2>6. t'.frame \in Nat /\ t'.frame < line.frame
    BY <2>1, <2>2, <2>3 DEF OrderInv, t
  <2>7. \A i \in DOMAIN queue' : t'.frame < queue'[i].frame
    BY <2>1, <2>2, <2>4
  <2> QED BY <2>1, <2>2, <2>4, <2>5, <2>6, <2>7 DEF OrderInv, t
<1>6. CASE Queue!Greeting
  <2>1. queue' = <<>> /\ t' = t /\ line'.frame = line.frame
    BY <1>0, <1>6 DEF Queue!Greeting
  <2> QED BY <2>1 DEF OrderInv
<1> QED BY <1>2, <1>3, <1>4, <1>5, <1>6 DEF Queue!Next

(* Packets are passed up in the order of their frames, each once, whatever *)
(* the interrupt does meanwhile (slip.c:209-253, :268-304).                *)
THEOREM TakenInOrder ==
  ASSUME Burst \in {0, 1} PROVE Spec => []InOrder
<1>1. QueueInv /\ OrderInv /\ [Next]_vars => QueueInv' /\ OrderInv'
  BY QueueStep, OrderStep DEF QueueInv, Inv
<1>2. QueueInv /\ OrderInv => InOrder
  <2> SUFFICES ASSUME QueueInv, OrderInv, pc = "second"
               PROVE  AsPacket(outbuf).frame > AsPacket(taken).frame
    BY DEF InOrder
  <2> DEFINE out == AsPacket(outbuf)
             rest == (IF Front = pkt_end THEN <<>> ELSE <<AsPacket(Cells(rxbuf, Front, pkt_end))>>)
                     \o (IF state = "TWOPACKETS" THEN <<AsPacket(Cells(rxbuf, pkt_end, end))>>
                                                ELSE <<>>)
  <2>1. queue = <<out>> \o rest
    BY QueueValue DEF Gone
  <2>2. rest = <<>> \/ (\E p : rest = <<p>>) \/ \E p, q : rest = <<p, q>>
    OBVIOUS
  <2> HIDE DEF out, rest
  <2>3. 1 \in DOMAIN queue /\ queue[1] = out
    BY <2>1, <2>2
  <2>4. AsPacket(taken).frame < out.frame /\ AsPacket(taken).frame \in Nat /\ out.frame \in Nat
    BY <2>3, FrameType DEF OrderInv
  <2> QED BY <2>4 DEF out
<1> QED BY InitQueue, InitOrder, <1>1, <1>2, PTL DEF Spec
=============================================================================
