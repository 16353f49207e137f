--------------------------- MODULE CanDriverProofs ---------------------------
(***************************************************************************)
(* Proofs about CanDriver, for rings of every size, every choice of opened *)
(* controllers, ioctl commands, burst sizes and bounds.                    *)
(***************************************************************************)
EXTENDS CanDriver, Sequences, TLAPS

\* The index after a slot of the ring is a slot of the ring (can.c:187-190).
LEMMA NextIdxSlot == ASSUME NEW i \in Slots PROVE NextIdx(i) \in Slots
  BY SizeAssumption DEF NextIdx, Slots

\* 0 is a slot of the ring.
LEMMA ZeroSlot == 0 \in Slots
  BY SizeAssumption DEF Slots

\* Changing one bit of a word of interrupt enables gives such a word.
LEMMA SetBitIer ==
    ASSUME NEW w \in SUBSET IerBits, NEW b \in IerBits, NEW v
    PROVE  SetBit(w, b, v) \in SUBSET IerBits
  BY DEF SetBit

\* Every store to CANIER by main stores a word of interrupt enables.
LEMMA RmwWordType ==
    ASSUME NEW w \in SUBSET IerBits, NEW loc
    PROVE  RmwWord(loc, w) \in SUBSET IerBits
  BY SetBitIer DEF RmwWord, IerBits

\* After a read-modify-write main is at one of its locations, not in a loop body.
LEMMA RmwNextType ==
    ASSUME NEW loc
    PROVE  RmwNext(loc) \in MainLocs /\ RmwNext(loc) \notin {"w_put", "r_take"}
  BY DEF RmwNext, MainLocs, RmwLocs

\* Every sequence of writes to CANMOD leaves a word of mode bits.
LEMMA ModeType ==
    ASSUME NEW m \in SUBSET ModBits
    PROVE  /\ LeaveReset(EnterReset(m)) = {}
           /\ \A arg \in ModeArgs : ModeAfter(m, arg) \in SUBSET ModBits
  BY DEF LeaveReset, EnterReset, ModeAfter, ModeArgs, SetBit, ModBits

\* The driver's state has its type: from can_open on, under every interleaving of
\* main, CAN_Handler and the controllers, no ring index leaves the arrays.
THEOREM TypeCorrect == Spec => []TypeOK
<1>1. Init => TypeOK
  <2> SUFFICES ASSUME Init PROVE TypeOK
    OBVIOUS
  <2>1. /\ txring \in [Dev -> [Slots -> Nat]] /\ rxring \in [Dev -> [Slots -> Nat]]
        /\ tx_head \in [Dev -> Slots] /\ tx_tail \in [Dev -> Slots]
        /\ rx_head \in [Dev -> Slots] /\ rx_tail \in [Dev -> Slots]
    BY ZeroSlot DEF Init
  <2>2. canmod \in [Dev -> SUBSET ModBits] /\ ier \in [Dev -> SUBSET IerBits]
    BY DEF Init, ModBits
  <2>3. mpc \in MainLocs /\ mdev \in Dev /\ idev \in Dev
    BY DEF Init, MainLocs, Dev
  <2> QED
    BY <2>1, <2>2, <2>3 DEF Init, TypeOK
<1>2. TypeOK /\ [Next]_vars => TypeOK'
  <2> SUFFICES ASSUME TypeOK, [Next]_vars PROVE TypeOK'
    OBVIOUS
  <2> USE DEF TypeOK
  <2>1. CASE UNCHANGED vars
    BY <2>1 DEF vars, cfgVars, txVars, rxVars, hwTx, mainVars, isrVars
  <2>2. CASE IsrEnter
    BY <2>2 DEF IsrEnter, cfgVars, txVars, rxVars, hwTx, mainVars, Dev
  <2>3. CASE IsrReceive
    <3>1. CASE RI(idev)
      <4>1. can_standard_receive(idev)
        BY <2>3, <3>1 DEF IsrReceive
      <4>2. /\ rxring' \in [Dev -> [Slots -> Nat]]
            /\ rx_head' \in [Dev -> Slots] /\ rx_tail' \in [Dev -> Slots]
        BY <4>1, NextIdxSlot DEF can_standard_receive
      <4>3. nin' \in [Dev -> Nat] /\ nread' \in [Dev -> Nat] /\ nbus' \in [Dev -> Nat]
        BY <4>1 DEF can_standard_receive
      <4> QED
        BY <2>3, <4>2, <4>3 DEF IsrReceive, cfgVars, txVars, mainVars
    <3>2. CASE ~RI(idev)
      BY <2>3, <3>2 DEF IsrReceive, cfgVars, txVars, rxVars, mainVars
    <3> QED
      BY <3>1, <3>2
  <2>4. CASE IsrTransmit
    <3>1. /\ ipc' \in {"idle", "ri", "ti"} /\ idev' \in Dev /\ ti1' \in [Dev -> BOOLEAN]
      BY <2>4 DEF IsrTransmit, IsrAdvance, Dev
    <3>2. CASE UNCHANGED <<txVars, tbs1, txb, ier, late>>
      BY <2>4, <3>1, <3>2 DEF IsrTransmit, cfgVars, txVars, rxVars, mainVars
    <3>3. CASE /\ ier' = [ier EXCEPT ![idev] = SetBit(@, "TIE1", FALSE)]
               /\ UNCHANGED <<txVars, tbs1, txb, late>>
      <4>1. ier' \in [Dev -> SUBSET IerBits]
        BY <3>3, SetBitIer DEF IerBits
      <4> QED
        BY <2>4, <3>1, <3>3, <4>1 DEF IsrTransmit, cfgVars, txVars, rxVars, mainVars
    <3>4. CASE /\ LoadTxBuffer(idev) /\ TransmitRequest(idev)
               /\ ier' = [ier EXCEPT ![idev] = SetBit(@, "TIE1", TRUE)]
               /\ late' = [late EXCEPT ![idev] = mpc = "t_tbs" /\ mdev = idev]
      <4>1. ier' \in [Dev -> SUBSET IerBits]
        BY <3>4, SetBitIer DEF IerBits
      <4>2. /\ tx_tail' \in [Dev -> Slots] /\ tx_head' \in [Dev -> Slots]
            /\ txring' \in [Dev -> [Slots -> Nat]]
            /\ nacc' \in [Dev -> Nat] /\ nout' \in [Dev -> Nat] /\ txb' \in [Dev -> Nat]
        BY <3>4, NextIdxSlot DEF LoadTxBuffer
      <4>3. tbs1' \in [Dev -> BOOLEAN] /\ late' \in [Dev -> BOOLEAN]
        BY <3>4 DEF TransmitRequest
      <4> QED
        BY <2>4, <3>1, <4>1, <4>2, <4>3 DEF IsrTransmit, cfgVars, rxVars, mainVars
    <3> QED
      BY <2>4, <3>2, <3>3, <3>4 DEF IsrTransmit, IsrStandardTransmit
  <2>5. CASE IerLoad
    BY <2>5 DEF IerLoad, cfgVars, txVars, rxVars, hwTx, isrVars
  <2>6. CASE IerStore
    BY <2>6, RmwWordType, RmwNextType
    DEF IerStore, Goto, cfgVars, txVars, rxVars, hwTx, isrVars
  <2>7. CASE WriteTest
    BY <2>7 DEF WriteTest, MainAt, Goto, MainLocs, RmwLocs, cfgVars, txVars, rxVars,
       hwTx, isrVars
  <2>8. CASE WritePut
    BY <2>8, NextIdxSlot DEF WritePut, MainAt, Goto, MainLocs, cfgVars, rxVars,
       hwTx, isrVars
  <2>9. CASE ReadTest
    BY <2>9 DEF ReadTest, AfterReadTest, MainAt, Goto, MainLocs, RmwLocs, cfgVars, txVars, rxVars,
       hwTx, isrVars
  <2>10. CASE ReadTake
    BY <2>10, NextIdxSlot DEF ReadTake, MainAt, Goto, MainLocs, cfgVars, txVars,
       hwTx, isrVars
  <2>11. CASE TransmitHead
    BY <2>11 DEF TransmitHead, MainAt, Goto, MainLocs, RmwLocs, cfgVars, txVars, rxVars,
       hwTx, isrVars
  <2>12. CASE TransmitTbs
    BY <2>12 DEF TransmitTbs, AfterTbs, MainAt, Goto, MainLocs, cfgVars, txVars, rxVars,
       hwTx, isrVars
  <2>13. CASE TransmitFill
    BY <2>13, NextIdxSlot DEF TransmitFill, LoadTxBuffer, MainAt, Goto, MainLocs, RmwLocs,
       cfgVars, rxVars, isrVars
  <2>14. CASE TransmitTr
    BY <2>14 DEF TransmitTr, TransmitRequest, MainAt, Goto, MainLocs, cfgVars,
       txVars, rxVars, isrVars
  <2>15. CASE enableIRQ
    BY <2>15 DEF enableIRQ, cfgVars, txVars, rxVars, hwTx, mainVars
  <2>16. ASSUME NEW d \in Dev, can_open(d) PROVE TypeOK'
    BY <2>16, ZeroSlot, ModeType DEF can_open, Restart, HwAbort, EmptyTxRing, EmptyRxRing,
       EnableIrqs, mainVars, isrVars, IerBits
  <2>17. ASSUME NEW d \in Dev, can_close(d) PROVE TypeOK'
    BY <2>17 DEF can_close, txVars, rxVars, hwTx, mainVars, isrVars
  <2>18. ASSUME NEW d \in Dev, NEW cmd \in IoctlCmds, can_ioctl(d, cmd) PROVE TypeOK'
    <3>1. CASE Restart(d)
      BY <2>18, <3>1, ZeroSlot, ModeType
      DEF can_ioctl, Restart, HwAbort, EmptyTxRing, EmptyRxRing, EnableIrqs, cfgVars,
          mainVars, isrVars, IerBits
    <3>2. ASSUME NEW bit \in IerBits, ClearError(d, bit) PROVE TypeOK'
      BY <2>18, <3>2, SetBitIer, ModeType
      DEF can_ioctl, ClearError, HwReset, HwAbort, cfgVars, txVars, mainVars, isrVars
    <3>3. CASE cmd \in ModeArgs /\ SetMode(d, cmd)
      BY <2>18, <3>3, ModeType, ZenonT(30)
      DEF can_ioctl, SetMode, HwReset, HwAbort, cfgVars, txVars, mainVars, isrVars
    <3> QED
      BY <2>18, <3>1, <3>2, <3>3 DEF can_ioctl, IerBits
  <2>19. ASSUME NEW d \in Dev, NEW n \in 1 .. MaxBurst, can_write(d, n) PROVE TypeOK'
    BY <2>19, BoundAssumption DEF can_write, MainAt, Goto, MainLocs, RmwLocs, cfgVars,
       txVars, rxVars, hwTx, isrVars
  <2>20. ASSUME NEW d \in Dev, NEW n \in 1 .. MaxBurst, can_read(d, n) PROVE TypeOK'
    BY <2>20, BoundAssumption DEF can_read, MainAt, Goto, MainLocs, RmwLocs, cfgVars,
       txVars, rxVars, hwTx, isrVars
  <2>21. ASSUME NEW d \in Dev, HwReceive(d) PROVE TypeOK'
    BY <2>21 DEF HwReceive, cfgVars, txVars, hwTx, mainVars, isrVars
  <2>22. ASSUME NEW d \in Dev, HwTxDone(d) PROVE TypeOK'
    BY <2>22 DEF HwTxDone, cfgVars, txVars, rxVars, mainVars, isrVars
  <2> QED
    BY <2>1, <2>2, <2>3, <2>4, <2>5, <2>6, <2>7, <2>8, <2>9, <2>10, <2>11, <2>12,
       <2>13, <2>14, <2>15, <2>16, <2>17, <2>18, <2>19, <2>20, <2>21, <2>22
    DEF Next, IsrStep, CallStep, AppCall, HwStep
<1> QED
  BY <1>1, <1>2, PTL DEF Spec

-----------------------------------------------------------------------------
(***************************************************************************)
(* Arithmetic of the rings.                                                *)
(***************************************************************************)

\* The count of telegrams is between 0 and the ring size less one, and is 0
\* exactly when head equals tail (can.c:299-311).
LEMMA CountRange ==
    ASSUME NEW h \in Slots, NEW t \in Slots
    PROVE  /\ Count(h, t) \in 0 .. CAN_RING_BUFSIZE - 1
           /\ Count(h, t) = 0 <=> h = t
  BY SizeAssumption DEF Count, Slots

\* Moving head adds one telegram while a slot is free, and the new one is in the
\* old head slot, which no waiting telegram occupies.
LEMMA CountPush ==
    ASSUME NEW h \in Slots, NEW t \in Slots, Count(h, t) < CAN_RING_BUFSIZE - 1
    PROVE  /\ Count(NextIdx(h), t) = Count(h, t) + 1
           /\ SlotAfter(t, Count(h, t)) = h
           /\ \A i \in Slots : i < Count(h, t) => SlotAfter(t, i) # h
  BY SizeAssumption DEF Count, Slots, NextIdx, SlotAfter

\* Moving tail removes one telegram, the one in the old tail slot.
LEMMA CountPop ==
    ASSUME NEW h \in Slots, NEW t \in Slots, h # t
    PROVE  /\ Count(h, NextIdx(t)) = Count(h, t) - 1
           /\ SlotAfter(t, 0) = t
           /\ \A i \in Slots : i < Count(h, t) - 1 =>
                 SlotAfter(NextIdx(t), i) = SlotAfter(t, i + 1)
  BY SizeAssumption DEF Count, Slots, NextIdx, SlotAfter

\* A slot counted from the tail is a slot.
LEMMA SlotAfterSlot ==
    ASSUME NEW t \in Slots, NEW i \in Slots PROVE SlotAfter(t, i) \in Slots
  BY SizeAssumption DEF Slots, SlotAfter

\* A full ring is one whose head is just behind its tail.
LEMMA FullIff ==
    ASSUME NEW h \in Slots, NEW t \in Slots
    PROVE  NextIdx(h) = t <=> Count(h, t) = CAN_RING_BUFSIZE - 1
  BY SizeAssumption DEF Count, Slots, NextIdx

\* Storing telegram m + 1 at head and moving head keeps a ring that has room
\* sound.
LEMMA RingPush ==
    ASSUME NEW ring \in [Slots -> Nat], NEW h \in Slots, NEW t \in Slots,
           NEW n \in Nat, NEW m \in Nat,
           RingHolds(ring, h, t, n, m), Count(h, t) < CAN_RING_BUFSIZE - 1
    PROVE  RingHolds([ring EXCEPT ![h] = m + 1], NextIdx(h), t, n, m + 1)
<1> DEFINE r == [ring EXCEPT ![h] = m + 1]
<1>1. Count(NextIdx(h), t) = Count(h, t) + 1 /\ Count(h, t) \in Nat
  BY CountPush, CountRange
<1>2. m = n + Count(h, t)
  BY DEF RingHolds
<1>3. ASSUME NEW i \in Slots, i < Count(h, t) + 1
      PROVE  r[SlotAfter(t, i)] = n + 1 + i
  <2>1. CASE i = Count(h, t)
    <3>1. SlotAfter(t, i) = h
      BY <2>1, CountPush
    <3>2. r[h] = n + 1 + i
      BY <2>1, <1>1, <1>2
    <3> QED
      BY <3>1, <3>2
  <2>2. CASE i # Count(h, t)
    <3>1. i < Count(h, t)
      BY <2>2, <1>1, <1>3 DEF Slots
    <3>2. ring[SlotAfter(t, i)] = n + 1 + i
      BY <3>1 DEF RingHolds
    <3>3. SlotAfter(t, i) # h /\ SlotAfter(t, i) \in Slots
      BY <3>1, CountPush, SlotAfterSlot
    <3> QED
      BY <3>2, <3>3
  <2> QED
    BY <2>1, <2>2
<1> QED
  BY <1>1, <1>2, <1>3 DEF RingHolds

\* Taking the telegram at tail from a ring that is not empty yields the oldest
\* one and keeps the ring sound.
LEMMA RingPop ==
    ASSUME NEW ring \in [Slots -> Nat], NEW h \in Slots, NEW t \in Slots,
           NEW n \in Nat, NEW m \in Nat,
           RingHolds(ring, h, t, n, m), h # t
    PROVE  ring[t] = n + 1 /\ RingHolds(ring, h, NextIdx(t), n + 1, m)
<1>1. Count(h, NextIdx(t)) = Count(h, t) - 1
  BY CountPop
<1>2. Count(h, t) \in 1 .. CAN_RING_BUFSIZE - 1
  BY CountRange, SizeAssumption
<1>3. ring[t] = n + 1
  <2>1. ring[SlotAfter(t, 0)] = n + 1 + 0
    BY <1>2, ZeroSlot DEF RingHolds
  <2> QED
    BY <2>1, CountPop
<1>4. ASSUME NEW i \in Slots, i < Count(h, t) - 1
      PROVE  ring[SlotAfter(NextIdx(t), i)] = (n + 1) + 1 + i
  <2>1. i + 1 \in Slots /\ i + 1 < Count(h, t)
    BY <1>2, <1>4, SizeAssumption, SMTT(30) DEF Slots
  <2>2. ring[SlotAfter(t, i + 1)] = n + 1 + (i + 1)
    BY <2>1 DEF RingHolds
  <2>3. SlotAfter(NextIdx(t), i) = SlotAfter(t, i + 1)
    BY <1>4, CountPop
  <2> QED
    BY <2>2, <2>3 DEF Slots
<1>5. m = (n + 1) + (Count(h, t) - 1)
  BY <1>2 DEF RingHolds
<1> QED
  BY <1>1, <1>3, <1>4, <1>5 DEF RingHolds

\* A ring whose head equals its tail holds nothing.
LEMMA RingNone ==
    ASSUME NEW ring, NEW t \in Slots, NEW n \in Nat
    PROVE  RingHolds(ring, t, t, n, n)
  BY CountRange, SizeAssumption DEF RingHolds, Slots

-----------------------------------------------------------------------------
(***************************************************************************)
(* The receive ring.  can_read's test and its body are apart, so the       *)
(* invariant carries what the test found, and that RIE is off meanwhile.   *)
(***************************************************************************)
RxInv == RxRingSound /\ RxLocal

\* CAN_Handler changes at most TIE1 of the controller it is at.
LEMMA IsrIer ==
    ASSUME IsrTransmit
    PROVE  \/ ier' = ier
           \/ ier' = [ier EXCEPT ![idev] = SetBit(@, "TIE1", FALSE)]
           \/ ier' = [ier EXCEPT ![idev] = SetBit(@, "TIE1", TRUE)]
  BY DEF IsrTransmit, IsrStandardTransmit

\* CAN_Handler's read-modify-writes of CANIER leave every RIE as it is.
LEMMA IsrKeepsRie ==
    ASSUME TypeOK, IsrTransmit
    PROVE  \A d \in Dev : "RIE" \in ier'[d] <=> "RIE" \in ier[d]
<1>1. \A w, v : "RIE" \in SetBit(w, "TIE1", v) <=> "RIE" \in w
  BY DEF SetBit
<1>2. CASE ier' = ier
  BY <1>2
<1>3. ASSUME NEW v, ier' = [ier EXCEPT ![idev] = SetBit(@, "TIE1", v)]
      PROVE  \A d \in Dev : "RIE" \in ier'[d] <=> "RIE" \in ier[d]
  BY <1>1, <1>3 DEF TypeOK
<1> QED
  BY <1>2, <1>3, IsrIer

\* A step that leaves the receive rings alone keeps them sound.
LEMMA RxKeep ==
    ASSUME RxRingSound, UNCHANGED <<rxring, rx_head, rx_tail, nin, nread>>
    PROVE  RxRingSound'
  BY DEF RxRingSound

\* Every step preserves RxInv.
LEMMA RxInvStep == TypeOK /\ TypeOK' /\ RxInv /\ [Next]_vars => RxInv'
<1> SUFFICES ASSUME TypeOK, TypeOK', RxInv, [Next]_vars PROVE RxInv'
  OBVIOUS
<1> USE DEF RxInv
<1>1. CASE UNCHANGED vars
  BY <1>1, RxKeep DEF vars, rxVars, mainVars, RxLocal
<1>2. CASE IsrEnter
  BY <1>2, RxKeep DEF IsrEnter, rxVars, mainVars, RxLocal
<1>3. CASE IsrReceive
  <2>1. CASE ~RI(idev)
    BY <1>3, <2>1, RxKeep DEF IsrReceive, rxVars, mainVars, RxLocal
  <2>2. CASE RI(idev)
    <3>1. can_standard_receive(idev) /\ UNCHANGED <<mainVars, ier>> /\ idev \in Dev
      BY <1>3, <2>2 DEF IsrReceive, TypeOK
    <3>2. ASSUME NEW d \in Dev
          PROVE  RingHolds(rxring[d], rx_head[d], rx_tail[d], nread[d], nin[d])'
      <4>0. RingHolds(rxring[d], rx_head[d], rx_tail[d], nread[d], nin[d])
        BY DEF RxRingSound
      <4>1. CASE d # idev
        BY <3>1, <4>0, <4>1 DEF can_standard_receive, TypeOK
      <4>2. CASE d = idev
        <5>1. /\ rxring'[d] = [rxring[d] EXCEPT ![rx_head[d]] = nin[d] + 1]
              /\ rx_head'[d] = NextIdx(rx_head[d]) /\ rx_tail'[d] = rx_tail[d]
              /\ nin'[d] = nin[d] + 1
              /\ nread'[d] = IF NextIdx(rx_head[d]) = rx_tail[d] THEN nin[d] + 1
                             ELSE nread[d]
          BY <3>1, <4>2 DEF can_standard_receive, TypeOK
        <5>2. /\ rxring[d] \in [Slots -> Nat] /\ rx_head[d] \in Slots
              /\ rx_tail[d] \in Slots /\ nread[d] \in Nat /\ nin[d] \in Nat
          BY DEF TypeOK
        <5>3. CASE NextIdx(rx_head[d]) = rx_tail[d]
          <6>1. RingHolds(rxring'[d], rx_tail[d], rx_tail[d], nin[d] + 1, nin[d] + 1)
            BY <5>2, RingNone
          <6> QED
            BY <5>1, <5>3, <6>1
        <5>4. CASE NextIdx(rx_head[d]) # rx_tail[d]
          <6>1. Count(rx_head[d], rx_tail[d]) < CAN_RING_BUFSIZE - 1
            BY <5>2, <5>4, FullIff, CountRange, SizeAssumption
          <6>2. RingHolds([rxring[d] EXCEPT ![rx_head[d]] = nin[d] + 1],
                          NextIdx(rx_head[d]), rx_tail[d], nread[d], nin[d] + 1)
            BY <4>0, <5>2, <6>1, RingPush
          <6> QED
            BY <5>1, <5>4, <6>2
        <5> QED
          BY <5>3, <5>4
      <4> QED
        BY <4>1, <4>2
    <3>3. RxLocal'
      \* On main's controller RIE is off while it reads, so idev is the other one.
      BY <2>2, <3>1 DEF RxLocal, RI, can_standard_receive, mainVars, TypeOK
    <3> QED
      BY <3>2, <3>3 DEF RxRingSound
  <2> QED
    BY <2>1, <2>2
<1>4. CASE IsrTransmit
  <2>1. \A d \in Dev : "RIE" \in ier'[d] <=> "RIE" \in ier[d]
    BY <1>4, IsrKeepsRie
  <2> QED
    BY <1>4, <2>1, RxKeep DEF IsrTransmit, rxVars, mainVars, RxLocal, TypeOK
<1>5. CASE IerLoad
  BY <1>5, RxKeep DEF IerLoad, rxVars, RxLocal
<1>6. CASE IerStore
  <2>1. mpc' \in {"r_loop", "r_take"} => mpc = "r_mask" /\ "RIE" \notin ier'[mdev]
    BY <1>6 DEF IerStore, Goto, RmwNext, RmwWord, SetBit, TypeOK
  <2>2. mpc' # "r_take"
    BY <1>6, RmwNextType DEF IerStore, Goto
  <2> QED
    BY <1>6, <2>1, <2>2, RxKeep DEF IerStore, rxVars, RxLocal
<1>7. CASE WriteTest \/ WritePut
  BY <1>7, RxKeep DEF WriteTest, WritePut, Goto, rxVars, RxLocal
<1>8. CASE ReadTest
  BY <1>8, RxKeep DEF ReadTest, AfterReadTest, MainAt, Goto, rxVars, RxLocal
<1>9. CASE ReadTake
  <2>1. RxLocal'
    BY <1>9 DEF ReadTake, MainAt, Goto, RxLocal
  <2>2. ASSUME NEW d \in Dev
        PROVE  RingHolds(rxring[d], rx_head[d], rx_tail[d], nread[d], nin[d])'
    <3>0. RingHolds(rxring[d], rx_head[d], rx_tail[d], nread[d], nin[d])
      BY DEF RxRingSound
    <3>1. CASE d # mdev
      BY <1>9, <3>0, <3>1 DEF ReadTake, TypeOK
    <3>2. CASE d = mdev
      <4>1. /\ rxring'[d] = rxring[d] /\ rx_head'[d] = rx_head[d]
            /\ rx_tail'[d] = NextIdx(rx_tail[d])
            /\ nread'[d] = nread[d] + 1 /\ nin'[d] = nin[d]
        BY <1>9, <3>2 DEF ReadTake, TypeOK
      <4>2. /\ rxring[d] \in [Slots -> Nat] /\ rx_head[d] \in Slots
            /\ rx_tail[d] \in Slots /\ nread[d] \in Nat /\ nin[d] \in Nat
        BY DEF TypeOK
      <4>3. rx_head[d] # rx_tail[d]
        BY <1>9, <3>2 DEF ReadTake, MainAt, RxLocal
      <4>4. RingHolds(rxring[d], rx_head[d], NextIdx(rx_tail[d]), nread[d] + 1, nin[d])
        BY <3>0, <4>2, <4>3, RingPop
      <4> QED
        BY <4>1, <4>4
    <3> QED
      BY <3>1, <3>2
  <2> QED
    BY <2>1, <2>2 DEF RxRingSound
<1>10. CASE TransmitHead \/ TransmitTbs \/ TransmitFill \/ TransmitTr
  BY <1>10, RxKeep DEF TransmitHead, TransmitTbs, AfterTbs, TransmitFill, TransmitTr, Goto,
     rxVars, RxLocal
<1>11. CASE enableIRQ
  BY <1>11, RxKeep DEF enableIRQ, rxVars, mainVars, RxLocal
<1>12. ASSUME NEW d \in Dev, EmptyRxRing(d), MainAt("app"), UNCHANGED mainVars
       PROVE  RxInv'
  <2>1. RxLocal'
    BY <1>12 DEF MainAt, mainVars, RxLocal
  <2>2. ASSUME NEW e \in Dev
        PROVE  RingHolds(rxring[e], rx_head[e], rx_tail[e], nread[e], nin[e])'
    <3>1. CASE e # d
      BY <1>12, <3>1 DEF EmptyRxRing, RxRingSound, TypeOK
    <3>2. CASE e = d
      <4>1. RingHolds(rxring'[e], 0, 0, 0, 0)
        BY ZeroSlot, RingNone
      <4> QED
        BY <1>12, <3>2, <4>1 DEF EmptyRxRing, TypeOK
    <3> QED
      BY <3>1, <3>2
  <2> QED
    BY <2>1, <2>2 DEF RxRingSound
<1>13. ASSUME NEW d \in Dev, can_open(d) PROVE RxInv'
  BY <1>12, <1>13 DEF can_open, Restart
<1>14. ASSUME NEW d \in Dev, can_close(d) PROVE RxInv'
  BY <1>14, RxKeep DEF can_close, rxVars, mainVars, RxLocal
<1>15. ASSUME NEW d \in Dev, NEW cmd \in IoctlCmds, can_ioctl(d, cmd) PROVE RxInv'
  <2>1. MainAt("app") /\ UNCHANGED mainVars
    BY <1>15 DEF can_ioctl
  <2>2. CASE Restart(d)
    BY <1>12, <2>1, <2>2 DEF Restart
  <2>3. CASE ~Restart(d)
    <3>1. UNCHANGED <<rxring, rx_head, rx_tail, nin, nread>>
      BY <1>15, <2>3 DEF can_ioctl, ClearError, SetMode
    <3> QED
      BY <2>1, <3>1, RxKeep DEF RxLocal, MainAt, mainVars
  <2> QED
    BY <2>2, <2>3
<1>16. ASSUME NEW d \in Dev, NEW n \in 1 .. MaxBurst, can_write(d, n) \/ can_read(d, n)
       PROVE  RxInv'
  BY <1>16, RxKeep DEF can_write, can_read, Goto, rxVars, RxLocal
<1>17. ASSUME NEW d \in Dev, HwStep(d) PROVE RxInv'
  BY <1>17, RxKeep DEF HwStep, HwReceive, HwTxDone, rxVars, mainVars, RxLocal
<1> QED
  BY <1>1, <1>2, <1>3, <1>4, <1>5, <1>6, <1>7, <1>8, <1>9, <1>10, <1>11, <1>13,
     <1>14, <1>15, <1>16, <1>17 DEF Next, IsrStep, CallStep, AppCall

\* RxInv is an invariant, for every ring size.
LEMMA RxInvAlways == Spec => []RxInv
<1>1. Init => RxInv
  <2> SUFFICES ASSUME Init PROVE RxInv
    OBVIOUS
  <2>1. ASSUME NEW d \in Dev
        PROVE  RingHolds(rxring[d], rx_head[d], rx_tail[d], nread[d], nin[d])
    BY ZeroSlot, RingNone DEF Init
  <2> QED
    BY <2>1 DEF Init, RxInv, RxRingSound, RxLocal
<1>2. TypeOK /\ TypeOK' /\ RxInv /\ [Next]_vars => RxInv'
  BY RxInvStep
<1> QED
  BY <1>1, <1>2, TypeCorrect, PTL DEF Spec

\* The receive ring never holds anything but the telegrams received and not yet
\* read, in order, whatever the ring size and however CAN_Handler's stores and
\* can_read's steps interleave.
THEOREM RxSound == Spec => []RxRingSound
<1>1. RxInv => RxRingSound
  BY DEF RxInv
<1> QED
  BY <1>1, RxInvAlways, PTL

-----------------------------------------------------------------------------
(***************************************************************************)
(* The transmit buffer.  main reads TBS1, and fills the buffer some steps  *)
(* later with the transmit interrupt enabled.  FillOwnsBuffer says why     *)
(* that is safe: a handler that is entered meanwhile clears TI1 with its   *)
(* first read of CANICR, and an idle controller cannot set it again.       *)
(***************************************************************************)

\* CAN_Handler's second read of CANICR either finds no TI1 and leaves the
\* transmit side alone, or runs can_standard_transmit.
LEMMA IsrTransmitCases ==
    ASSUME IsrTransmit
    PROVE  \/ UNCHANGED <<txVars, tbs1, txb, late>>
           \/ /\ ti1[idev] /\ tbs1[idev] /\ tx_head[idev] # tx_tail[idev]
              /\ LoadTxBuffer(idev) /\ TransmitRequest(idev)
              /\ late' = [late EXCEPT ![idev] = mpc = "t_tbs" /\ mdev = idev]
  BY DEF IsrTransmit, IsrStandardTransmit, TI1

\* main's own steps leave CAN_Handler idle.
LEMMA FillOwnsStep ==
    TypeOK /\ TypeOK' /\ FillOwnsBuffer /\ [Next]_vars => FillOwnsBuffer'
<1> SUFFICES ASSUME TypeOK, TypeOK', FillOwnsBuffer, [Next]_vars
             PROVE  FillOwnsBuffer'
  OBVIOUS
<1>1. CASE UNCHANGED vars
  BY <1>1 DEF vars, hwTx, mainVars, isrVars, FillOwnsBuffer
<1>2. CASE IsrEnter
  BY <1>2 DEF IsrEnter, hwTx, mainVars, FillOwnsBuffer
<1>3. CASE IsrReceive
  BY <1>3 DEF IsrReceive, mainVars, FillOwnsBuffer, TypeOK
<1>4. CASE IsrTransmit
  <2>1. ipc' # "ti" /\ ipc = "ti" /\ UNCHANGED mainVars
    BY <1>4 DEF IsrTransmit, IsrAdvance
  <2>2. CASE UNCHANGED <<txVars, tbs1, txb, late>>
    BY <2>1, <2>2 DEF mainVars, FillOwnsBuffer
  <2>3. CASE ti1[idev] /\ TransmitRequest(idev)
    BY <2>1, <2>3 DEF TransmitRequest, mainVars, FillOwnsBuffer, TypeOK
  <2> QED
    BY <1>4, <2>2, <2>3, IsrTransmitCases
<1>5. CASE IerLoad
  BY <1>5 DEF IerLoad, hwTx, isrVars, FillOwnsBuffer
<1>6. CASE IerStore
  <2>1. mpc' \in {"t_fill", "t_tie1", "t_tr"} => mpc = "t_tie1"
    BY <1>6 DEF IerStore, Goto, RmwNext
  <2> QED
    BY <1>6, <2>1 DEF IerStore, hwTx, isrVars, FillOwnsBuffer
<1>7. CASE WriteTest \/ WritePut \/ ReadTest \/ ReadTake \/ TransmitHead \/ TransmitTr
  BY <1>7 DEF WriteTest, WritePut, ReadTest, AfterReadTest, ReadTake,
     TransmitHead, TransmitTr, Goto, FillOwnsBuffer
<1>8. CASE TransmitTbs
  BY <1>8 DEF TransmitTbs, AfterTbs, MainAt, Goto, hwTx, isrVars, FillOwnsBuffer
<1>9. CASE TransmitFill
  BY <1>9 DEF TransmitFill, MainAt, Goto, isrVars, FillOwnsBuffer
<1>10. CASE AppCall
  BY <1>10 DEF AppCall, enableIRQ, can_open, can_close, can_ioctl, can_write, can_read,
     MainAt, Goto, mainVars, FillOwnsBuffer
<1>11. ASSUME NEW d \in Dev, HwReceive(d) PROVE FillOwnsBuffer'
  BY <1>11 DEF HwReceive, hwTx, mainVars, isrVars, FillOwnsBuffer
<1>12. ASSUME NEW d \in Dev, HwTxDone(d) PROVE FillOwnsBuffer'
  BY <1>12 DEF HwTxDone, mainVars, isrVars, FillOwnsBuffer, TypeOK
<1> QED
  BY <1>1, <1>2, <1>3, <1>4, <1>5, <1>6, <1>7, <1>8, <1>9, <1>10, <1>11, <1>12
  DEF Next, IsrStep, CallStep, HwStep

\* FillOwnsBuffer is an invariant, with no assumption on the length of frames.
LEMMA FillOwns == Spec => []FillOwnsBuffer
<1>1. Init => FillOwnsBuffer
  BY DEF Init, FillOwnsBuffer
<1> QED
  BY <1>1, FillOwnsStep, TypeCorrect, PTL DEF Spec

\* A frame that the controller is transmitting is never overwritten, neither by
\* can_write nor by CAN_Handler (can.c:234-271).
THEOREM NeverOverwritten == Spec => NoTxOverwrite
<1>1. TypeOK /\ FillOwnsBuffer /\ [Next]_vars
         => [\A d \in Dev : nout'[d] > nout[d] => tbs1[d]]_vars
  <2> SUFFICES ASSUME TypeOK, FillOwnsBuffer, Next, NEW d \in Dev, nout'[d] > nout[d]
               PROVE  tbs1[d]
    OBVIOUS
  <2>1. nout \in [Dev -> Nat] /\ nout'[d] # nout[d]
    BY DEF TypeOK
  <2>2. CASE IsrStep
    <3>1. IsrTransmit
      BY <2>1, <2>2 DEF IsrStep, IsrEnter, IsrReceive, txVars
    <3>2. LoadTxBuffer(idev) /\ tbs1[idev]
      BY <2>1, <3>1, IsrTransmitCases DEF txVars
    <3> QED
      BY <2>1, <3>2 DEF LoadTxBuffer
  <2>3. CASE CallStep
    <3>1. TransmitFill
      BY <2>1, <2>3 DEF CallStep, IerLoad, IerStore, WriteTest, WritePut, ReadTest,
         ReadTake, TransmitHead, TransmitTbs, TransmitTr, txVars
    <3>2. LoadTxBuffer(mdev) /\ tbs1[mdev]
      BY <3>1 DEF TransmitFill, MainAt, FillOwnsBuffer
    <3> QED
      BY <2>1, <3>2 DEF LoadTxBuffer
  <2>4. CASE AppCall
    <3>1. ASSUME NEW e \in Dev, EmptyTxRing(e) PROVE FALSE
      <4>1. nout'[d] = nout[d] \/ nout'[d] = 0
        BY <2>1, <3>1 DEF EmptyTxRing
      <4> QED
        BY <2>1, <4>1
    <3> QED
      BY <2>1, <2>4, <3>1, ZenonT(30) DEF AppCall, enableIRQ, can_open, can_close, can_ioctl, Restart,
         ClearError, SetMode, can_write, can_read, txVars
  <2>5. ASSUME NEW e \in Dev, HwStep(e) PROVE FALSE
    BY <2>1, <2>5 DEF HwStep, HwReceive, HwTxDone, txVars
  <2> QED
    BY <2>2, <2>3, <2>4, <2>5 DEF Next
<1> QED
  BY <1>1, TypeCorrect, FillOwns, PTL DEF Spec, NoTxOverwrite

-----------------------------------------------------------------------------
(***************************************************************************)
(* The transmit ring.                                                      *)
(***************************************************************************)

\* TI1 set between the handler's two reads of CANICR rules out reset mode.
LEMMA IsrLocalInv == Spec => []IsrLocal
<1>1. Init => IsrLocal
  BY DEF Init, IsrLocal
<1>2. TypeOK /\ IsrLocal /\ [Next]_vars => IsrLocal'
  <2> SUFFICES ASSUME TypeOK, IsrLocal, [Next]_vars PROVE IsrLocal'
    OBVIOUS
  <2>1. CASE UNCHANGED vars
    BY <2>1 DEF vars, hwTx, isrVars, IsrLocal
  <2>2. CASE IsrStep
    BY <2>2 DEF IsrStep, IsrEnter, IsrReceive, IsrTransmit, IsrAdvance, IsrLocal, TypeOK
  <2>3. CASE CallStep
    BY <2>3 DEF CallStep, IerLoad, IerStore, WriteTest, WritePut, ReadTest, ReadTake,
       TransmitHead, TransmitTbs, TransmitFill, TransmitTr, MainAt, isrVars, IsrLocal
  <2>4. CASE AppCall
    BY <2>4 DEF AppCall, enableIRQ, can_open, can_close, can_ioctl, can_write, can_read,
       MainAt, isrVars, IsrLocal
  <2>5. ASSUME NEW d \in Dev, HwReceive(d) PROVE IsrLocal'
    BY <2>5 DEF HwReceive, hwTx, isrVars, IsrLocal
  <2>6. ASSUME NEW d \in Dev, HwTxDone(d) PROVE IsrLocal'
    BY <2>6 DEF HwTxDone, isrVars, IsrLocal, TypeOK
  <2> QED
    BY <2>1, <2>2, <2>3, <2>4, <2>5, <2>6 DEF Next, HwStep
<1> QED
  BY <1>1, <1>2, TypeCorrect, PTL DEF Spec

TxInv == TxRingSound /\ WriteHasRoom /\ TbsNotStale /\ FillHasTelegram /\ FilledIsLast

\* A step that leaves the transmit rings and buffers alone keeps them sound.
LEMMA TxKeep ==
    ASSUME TxRingSound, UNCHANGED <<txVars, tbs1, txb>>
    PROVE  TxRingSound'
  BY DEF TxRingSound, txVars

\* Moving the oldest telegram of a ring that is not empty into the transmit
\* buffer keeps every ring sound, and the buffer holds the telegram taken last.
LEMMA LoadSound ==
    ASSUME TypeOK, TxRingSound, NEW d \in Dev, tx_head[d] # tx_tail[d], LoadTxBuffer(d)
    PROVE  /\ \A e \in Dev : RingHolds(txring[e], tx_head[e], tx_tail[e], nout[e], nacc[e])'
           /\ txb'[d] = nout'[d]
           /\ \A e \in Dev \ {d} : txb'[e] = txb[e] /\ nout'[e] = nout[e]
<1>1. /\ txring[d] \in [Slots -> Nat] /\ tx_head[d] \in Slots /\ tx_tail[d] \in Slots
      /\ nout[d] \in Nat /\ nacc[d] \in Nat
  BY DEF TypeOK
<1>2. RingHolds(txring[d], tx_head[d], tx_tail[d], nout[d], nacc[d])
  BY DEF TxRingSound
<1>3. /\ txring[d][tx_tail[d]] = nout[d] + 1
      /\ RingHolds(txring[d], tx_head[d], NextIdx(tx_tail[d]), nout[d] + 1, nacc[d])
  BY <1>1, <1>2, RingPop
<1>4. /\ txb'[d] = txring[d][tx_tail[d]] /\ nout'[d] = nout[d] + 1
      /\ tx_tail'[d] = NextIdx(tx_tail[d])
      /\ UNCHANGED <<txring, tx_head, nacc>>
  BY DEF LoadTxBuffer, TypeOK
<1>5. \A e \in Dev \ {d} : txb'[e] = txb[e] /\ nout'[e] = nout[e] /\ tx_tail'[e] = tx_tail[e]
  BY DEF LoadTxBuffer, TypeOK
<1>6. ASSUME NEW e \in Dev
      PROVE  RingHolds(txring[e], tx_head[e], tx_tail[e], nout[e], nacc[e])'
  <2>1. CASE e = d
    BY <1>3, <1>4, <2>1
  <2>2. CASE e # d
    BY <1>4, <1>5, <2>2 DEF TxRingSound
  <2> QED
    BY <2>1, <2>2
<1> QED
  BY <1>3, <1>4, <1>5, <1>6

\* Every step preserves TxInv, if a frame is never shorter than an interrupt.
LEMMA TxInvStep ==
    ASSUME SlowFrames, TypeOK, TypeOK', FillOwnsBuffer, IsrLocal, TxInv, [Next]_vars
    PROVE  TxInv'
<1> USE DEF TxInv
<1>1. ASSUME UNCHANGED <<txVars, tbs1, txb, late, mpc, mdev>> PROVE TxInv'
  BY <1>1, TxKeep DEF txVars, WriteHasRoom, can_get_free_tx_count, TbsNotStale, FillHasTelegram,
     FilledIsLast
<1>2. ASSUME UNCHANGED <<txVars, tbs1, txb>>, mpc' \notin {"w_put", "t_tbs", "t_fill", "t_tie1", "t_tr"}
      PROVE  TxInv'
  BY <1>2, TxKeep DEF WriteHasRoom, TbsNotStale, FillHasTelegram, FilledIsLast
<1>3. CASE UNCHANGED vars
  BY <1>1, <1>3 DEF vars, hwTx, mainVars
<1>4. CASE IsrEnter \/ IsrReceive
  BY <1>1, <1>4 DEF IsrEnter, IsrReceive, hwTx, mainVars
<1>5. CASE IsrTransmit
  <2>1. UNCHANGED <<mpc, mdev>> /\ ipc = "ti" /\ idev \in Dev
    BY <1>5 DEF IsrTransmit, mainVars, TypeOK
  <2>2. CASE UNCHANGED <<txVars, tbs1, txb, late>>
    BY <1>1, <2>1, <2>2
  <2>3. CASE /\ ti1[idev] /\ tbs1[idev] /\ tx_head[idev] # tx_tail[idev]
             /\ LoadTxBuffer(idev) /\ TransmitRequest(idev)
             /\ late' = [late EXCEPT ![idev] = mpc = "t_tbs" /\ mdev = idev]
    <3>1. ~tbs1'[idev] /\ \A e \in Dev \ {idev} : tbs1'[e] = tbs1[e]
      BY <2>1, <2>3 DEF TransmitRequest, IsrLocal, TypeOK
    <3>2. /\ \A e \in Dev : RingHolds(txring[e], tx_head[e], tx_tail[e], nout[e], nacc[e])'
          /\ txb'[idev] = nout'[idev]
          /\ \A e \in Dev \ {idev} : txb'[e] = txb[e] /\ nout'[e] = nout[e]
      BY <2>1, <2>3, LoadSound
    <3>3. TxRingSound'
      <4>1. ASSUME NEW e \in Dev, ~tbs1'[e] PROVE txb'[e] = nout'[e]
        BY <3>1, <3>2, <4>1 DEF TxRingSound, TypeOK
      <4> QED
        BY <3>2, <4>1 DEF TxRingSound
    <3>4. WriteHasRoom'
      <4>1. Count(tx_head[idev], NextIdx(tx_tail[idev])) = Count(tx_head[idev], tx_tail[idev]) - 1
        BY <2>1, <2>3, CountPop DEF TypeOK
      <4>2. Count(tx_head[idev], tx_tail[idev]) \in Nat
        BY <2>1, CountRange DEF TypeOK
      <4>3. /\ tx_head' = tx_head /\ tx_tail' = [tx_tail EXCEPT ![idev] = NextIdx(@)]
        BY <2>3 DEF LoadTxBuffer
      <4> QED
        BY <2>1, <4>1, <4>2, <4>3, SizeAssumption DEF WriteHasRoom, can_get_free_tx_count, TypeOK
    <3>5. TbsNotStale'
      BY <2>1, <2>3, <3>1 DEF TbsNotStale, LoadTxBuffer, TypeOK
    <3>6. FillHasTelegram' /\ FilledIsLast'
      \* The handler has found TI1, so it is not at main's controller.
      <4>1. mpc \in {"t_fill", "t_tie1", "t_tr"} => mdev # idev
        BY <2>1, <2>3 DEF FillOwnsBuffer
      <4> QED
        BY <2>1, <2>3, <3>2, <4>1 DEF FillHasTelegram, FilledIsLast, LoadTxBuffer, TypeOK
    <3> QED
      BY <3>3, <3>4, <3>5, <3>6
  <2> QED
    BY <1>5, <2>2, <2>3, IsrTransmitCases
<1>6. CASE IerLoad
  BY <1>1, <1>6 DEF IerLoad, hwTx
<1>7. CASE IerStore
  <2>1. mpc' \notin {"w_put", "t_tbs", "t_fill", "t_tie1"} /\ (mpc' = "t_tr" => mpc = "t_tie1")
    BY <1>7 DEF IerStore, Goto, RmwNext
  <2> QED
    BY <1>7, <2>1, TxKeep DEF IerStore, hwTx, txVars, WriteHasRoom, TbsNotStale, FillHasTelegram, FilledIsLast
<1>8. CASE WriteTest
  <2>1. mpc' = "w_put" => can_get_free_tx_count(mdev) > 0
    BY <1>8 DEF WriteTest, Goto
  <2>2. mpc' \in {"w_put", "w_rest1"}
    BY <1>8 DEF WriteTest, Goto
  <2> QED
    BY <1>8, <2>1, <2>2, TxKeep DEF WriteTest, hwTx, txVars, WriteHasRoom,
       can_get_free_tx_count, TbsNotStale, FillHasTelegram, FilledIsLast
<1>9. CASE WritePut
  <2>1. mpc' = "w_loop" /\ mpc = "w_put" /\ mdev \in Dev
    BY <1>9 DEF WritePut, MainAt, Goto, TypeOK
  <2>2. ASSUME NEW e \in Dev
        PROVE  RingHolds(txring[e], tx_head[e], tx_tail[e], nout[e], nacc[e])'
    <3>0. RingHolds(txring[e], tx_head[e], tx_tail[e], nout[e], nacc[e])
      BY DEF TxRingSound
    <3>1. CASE e # mdev
      BY <1>9, <3>0, <3>1 DEF WritePut, TypeOK
    <3>2. CASE e = mdev
      <4>1. /\ txring'[e] = [txring[e] EXCEPT ![tx_head[e]] = nacc[e] + 1]
            /\ tx_head'[e] = NextIdx(tx_head[e]) /\ tx_tail'[e] = tx_tail[e]
            /\ nacc'[e] = nacc[e] + 1 /\ nout'[e] = nout[e]
        BY <1>9, <3>2 DEF WritePut, TypeOK
      <4>2. /\ txring[e] \in [Slots -> Nat] /\ tx_head[e] \in Slots
            /\ tx_tail[e] \in Slots /\ nout[e] \in Nat /\ nacc[e] \in Nat
        BY DEF TypeOK
      <4>3. Count(tx_head[e], tx_tail[e]) < CAN_RING_BUFSIZE - 1
        BY <2>1, <3>2, <4>2, CountRange, SizeAssumption
        DEF WriteHasRoom, can_get_free_tx_count
      <4>4. RingHolds([txring[e] EXCEPT ![tx_head[e]] = nacc[e] + 1],
                      NextIdx(tx_head[e]), tx_tail[e], nout[e], nacc[e] + 1)
        BY <3>0, <4>2, <4>3, RingPush
      <4> QED
        BY <4>1, <4>4
    <3> QED
      BY <3>1, <3>2
  <2>3. TxRingSound'
    BY <1>9, <2>2 DEF WritePut, hwTx, TxRingSound
  <2> QED
    BY <2>1, <2>3 DEF WriteHasRoom, TbsNotStale, FillHasTelegram, FilledIsLast
<1>10. CASE ReadTest \/ ReadTake
  BY <1>2, <1>10 DEF ReadTest, AfterReadTest, ReadTake, Goto, hwTx
<1>11. CASE TransmitHead
  BY <1>11, TxKeep DEF TransmitHead, Goto, hwTx, txVars, WriteHasRoom, TbsNotStale,
     FillHasTelegram, FilledIsLast
<1>12. CASE TransmitTbs
  BY <1>12, TxKeep DEF TransmitTbs, AfterTbs, MainAt, Goto, hwTx, txVars, WriteHasRoom, TbsNotStale,
     FillHasTelegram, FilledIsLast
<1>13. CASE TransmitFill
  <2>1. /\ mpc' = "t_tie1" /\ mdev' = mdev /\ mdev \in Dev /\ tx_head[mdev] # tx_tail[mdev]
        /\ LoadTxBuffer(mdev) /\ UNCHANGED tbs1 /\ tbs1[mdev]
    BY <1>13 DEF TransmitFill, MainAt, Goto, FillHasTelegram, FillOwnsBuffer, TypeOK
  <2>2. /\ \A e \in Dev : RingHolds(txring[e], tx_head[e], tx_tail[e], nout[e], nacc[e])'
        /\ txb'[mdev] = nout'[mdev]
        /\ \A e \in Dev \ {mdev} : txb'[e] = txb[e] /\ nout'[e] = nout[e]
    BY <2>1, LoadSound
  <2>3. TxRingSound'
    BY <2>1, <2>2 DEF TxRingSound
  <2> QED
    BY <2>1, <2>2, <2>3 DEF WriteHasRoom, TbsNotStale, FillHasTelegram, FilledIsLast
<1>14. CASE TransmitTr
  <2>1. /\ mpc' = "app" /\ txb[mdev] = nout[mdev] /\ UNCHANGED <<txVars, txb>>
        /\ TransmitRequest(mdev)
    BY <1>14 DEF TransmitTr, MainAt, Goto, FilledIsLast
  <2>2. TxRingSound'
    BY <2>1 DEF TransmitRequest, TxRingSound, txVars, TypeOK
  <2> QED
    BY <2>1, <2>2 DEF WriteHasRoom, TbsNotStale, FillHasTelegram, FilledIsLast
<1>15. CASE enableIRQ
  BY <1>1, <1>15 DEF enableIRQ, hwTx, mainVars
<1>16. ASSUME NEW d \in Dev, Restart(d), mpc' = "app" PROVE TxInv'
  <2>1. ASSUME NEW e \in Dev
        PROVE  /\ RingHolds(txring[e], tx_head[e], tx_tail[e], nout[e], nacc[e])'
               /\ ~tbs1'[e] => txb'[e] = nout'[e]
    <3>1. CASE e # d
      BY <1>16, <3>1 DEF Restart, HwAbort, EmptyTxRing, TxRingSound, TypeOK
    <3>2. CASE e = d
      <4>1. RingHolds(txring'[e], 0, 0, 0, 0)
        BY ZeroSlot, RingNone
      <4>2. /\ tx_head'[e] = 0 /\ tx_tail'[e] = 0 /\ nout'[e] = 0 /\ nacc'[e] = 0
            /\ tbs1'[e]
        BY <1>16, <3>2 DEF Restart, HwAbort, EmptyTxRing, TypeOK
      <4> QED
        BY <4>1, <4>2
    <3> QED
      BY <3>1, <3>2
  <2>2. TxRingSound'
    BY <2>1 DEF TxRingSound
  <2> QED
    BY <1>16, <2>2 DEF WriteHasRoom, TbsNotStale, FillHasTelegram, FilledIsLast
<1>17. ASSUME NEW d \in Dev, can_open(d) PROVE TxInv'
  BY <1>16, <1>17 DEF can_open, MainAt, mainVars
<1>18. ASSUME NEW d \in Dev, can_close(d) PROVE TxInv'
  BY <1>1, <1>18 DEF can_close, hwTx, mainVars
<1>19. ASSUME NEW d \in Dev, NEW cmd \in IoctlCmds, can_ioctl(d, cmd) PROVE TxInv'
  <2>1. mpc' = "app"
    BY <1>19 DEF can_ioctl, MainAt, mainVars
  <2>2. CASE Restart(d)
    BY <1>16, <2>1, <2>2
  <2>3. CASE ~Restart(d)
    <3>1. /\ UNCHANGED <<txVars, txb>>
          /\ tbs1' = tbs1 \/ tbs1' = [tbs1 EXCEPT ![d] = TRUE]
      BY <1>19, <2>3 DEF can_ioctl, ClearError, SetMode, HwReset, HwAbort
    <3>2. TxRingSound'
      BY <3>1 DEF TxRingSound, txVars, TypeOK
    <3> QED
      BY <2>1, <3>2 DEF WriteHasRoom, TbsNotStale, FillHasTelegram, FilledIsLast
  <2> QED
    BY <2>2, <2>3
<1>20. ASSUME NEW d \in Dev, NEW n \in 1 .. MaxBurst, can_write(d, n) \/ can_read(d, n)
       PROVE  TxInv'
  BY <1>2, <1>20 DEF can_write, can_read, Goto, hwTx
<1>21. ASSUME NEW d \in Dev, HwReceive(d) PROVE TxInv'
  BY <1>1, <1>21 DEF HwReceive, hwTx, mainVars
<1>22. ASSUME NEW d \in Dev, HwTxDone(d) PROVE TxInv'
  <2>1. /\ tbs1' = [tbs1 EXCEPT ![d] = TRUE] /\ ~late[d]
        /\ UNCHANGED <<txVars, txb, late, mpc, mdev>>
    BY <1>22 DEF HwTxDone, mainVars
  <2>2. TxRingSound'
    BY <2>1 DEF TxRingSound, txVars, TypeOK
  <2>3. TbsNotStale'
    BY <2>1 DEF TbsNotStale, txVars, TypeOK
  <2> QED
    BY <2>1, <2>2, <2>3 DEF txVars, WriteHasRoom, can_get_free_tx_count, FillHasTelegram, FilledIsLast
<1> QED
  BY <1>3, <1>4, <1>5, <1>6, <1>7, <1>8, <1>9, <1>10, <1>11, <1>12, <1>13, <1>14,
     <1>15, <1>17, <1>18, <1>19, <1>20, <1>21, <1>22
  DEF Next, IsrStep, CallStep, AppCall, HwStep

\* TxInv is an invariant if a frame is never shorter than an interrupt.
LEMMA TxInvAlways == ASSUME SlowFrames PROVE Spec => []TxInv
<1>1. Init => TxInv
  <2> SUFFICES ASSUME Init PROVE TxInv
    OBVIOUS
  <2>1. ASSUME NEW d \in Dev
        PROVE  /\ RingHolds(txring[d], tx_head[d], tx_tail[d], nout[d], nacc[d])
               /\ tbs1[d]
    BY ZeroSlot, RingNone DEF Init
  <2> QED
    BY <2>1 DEF Init, TxInv, TxRingSound, WriteHasRoom, TbsNotStale, FillHasTelegram, FilledIsLast
<1>2. TypeOK /\ TypeOK' /\ FillOwnsBuffer /\ IsrLocal /\ TxInv /\ [Next]_vars => TxInv'
  BY TxInvStep
<1> QED
  BY <1>1, <1>2, TypeCorrect, FillOwns, IsrLocalInv, PTL DEF Spec

\* The transmit ring never loses, repeats or reorders a telegram, for every ring
\* size, if a frame lasts longer than the handler's preemption of one read of
\* TBS1 by can_write (without that, CAN_Handler may empty the ring under it).
THEOREM TxSound == ASSUME SlowFrames PROVE Spec => []TxRingSound
<1>1. TxInv => TxRingSound
  BY DEF TxInv
<1> QED
  BY <1>1, TxInvAlways, PTL

-----------------------------------------------------------------------------
(***************************************************************************)
(* What the handler and the application may rely on: the register pointers *)
(* and the receive interrupt.                                              *)
(***************************************************************************)

\* The handler runs only after enableIRQ(), which follows every can_open, and
\* can_close leaves the register pointer set.
RegsInv ==
    /\ ipc # "idle" => irq
    /\ irq => \A d \in AppDevs : regptr[d]
    /\ \A d \in Dev : init[d] => regptr[d]

\* Every step preserves RegsInv.
LEMMA RegsInvStep == TypeOK /\ RegsInv /\ [Next]_vars => RegsInv'
<1> SUFFICES ASSUME TypeOK, RegsInv, [Next]_vars PROVE RegsInv'
  OBVIOUS
<1>1. ASSUME UNCHANGED <<cfgVars, irq>>, ipc' # "idle" => ipc # "idle" PROVE RegsInv'
  BY <1>1 DEF RegsInv, cfgVars
<1>2. CASE UNCHANGED vars
  BY <1>1, <1>2 DEF vars, isrVars
<1>3. CASE IsrEnter
  BY <1>3 DEF IsrEnter, cfgVars, RegsInv
<1>4. CASE IsrReceive \/ IsrTransmit
  BY <1>1, <1>4 DEF IsrReceive, IsrTransmit
<1>5. CASE CallStep
  BY <1>1, <1>5 DEF CallStep, IerLoad, IerStore, WriteTest, WritePut, ReadTest, ReadTake,
     TransmitHead, TransmitTbs, TransmitFill, TransmitTr, isrVars
<1>6. CASE enableIRQ
  BY <1>6, AppAssumption DEF enableIRQ, StartupDone, cfgVars, RegsInv
<1>7. ASSUME NEW d \in Dev, can_open(d) PROVE RegsInv'
  BY <1>7, AppAssumption DEF can_open, isrVars, RegsInv, TypeOK
<1>8. ASSUME NEW d \in Dev, can_close(d) PROVE RegsInv'
  BY <1>8 DEF can_close, isrVars, RegsInv, TypeOK
<1>9. ASSUME NEW d \in Dev, NEW cmd \in IoctlCmds, can_ioctl(d, cmd) PROVE RegsInv'
  BY <1>1, <1>9 DEF can_ioctl, isrVars
<1>10. ASSUME NEW d \in Dev, NEW n \in 1 .. MaxBurst, can_write(d, n) \/ can_read(d, n)
       PROVE  RegsInv'
  BY <1>1, <1>10 DEF can_write, can_read, isrVars
<1>11. ASSUME NEW d \in Dev, HwStep(d) PROVE RegsInv'
  BY <1>1, <1>11 DEF HwStep, HwReceive, HwTxDone, isrVars
<1> QED
  BY <1>2, <1>3, <1>4, <1>5, <1>6, <1>7, <1>8, <1>9, <1>10, <1>11
  DEF Next, IsrStep, AppCall

\* An application that opens both controllers before it enables interrupts never
\* has CAN_Handler read through a register pointer that is not set, although it
\* may close them again at any time (can.c:967-987).
THEOREM RegsSet == ASSUME AppDevs = Dev PROVE Spec => []NoNullRegs
<1>1. Init => RegsInv
  BY DEF Init, RegsInv
<1>2. TypeOK /\ RegsInv => NoNullRegs
  BY DEF TypeOK, RegsInv, NoNullRegs
<1> QED
  BY <1>1, <1>2, RegsInvStep, TypeCorrect, PTL DEF Spec

ReadLocs == {"r_mask", "r_loop", "r_take", "r_rest"}

\* A controller main works on is open; can_read will put back an RIE that was on;
\* and the CANIER word any other read-modify-write has loaded has RIE on.
ArmedInv ==
    /\ RxArmed
    /\ mpc # "app" => init[mdev]
    /\ mpc \in ReadLocs => msave
    /\ mrmw => mpc \in RmwLocs
    /\ mrmw /\ mpc \notin ReadLocs => "RIE" \in mld

\* Every step preserves ArmedInv.
LEMMA ArmedInvStep == TypeOK /\ ArmedInv /\ [Next]_vars => ArmedInv'
<1> SUFFICES ASSUME TypeOK, ArmedInv, [Next]_vars PROVE ArmedInv'
  OBVIOUS
<1> USE DEF ArmedInv, ReadLocs
<1>1. ASSUME UNCHANGED <<init, mainVars>>,
             \A d \in Dev : "RIE" \in ier[d] => "RIE" \in ier'[d]
      PROVE  ArmedInv'
  BY <1>1 DEF RxArmed, mainVars, TypeOK
<1>2. CASE UNCHANGED vars
  BY <1>1, <1>2 DEF vars, cfgVars
<1>3. CASE IsrEnter \/ IsrReceive
  BY <1>1, <1>3 DEF IsrEnter, IsrReceive, cfgVars
<1>4. CASE IsrTransmit
  <2>1. \A d \in Dev : "RIE" \in ier[d] => "RIE" \in ier'[d]
    BY <1>4, IsrKeepsRie
  <2> QED
    BY <1>1, <1>4, <2>1 DEF IsrTransmit, cfgVars
<1>5. CASE IerLoad
  <2>1. /\ mpc \in RmwLocs /\ mpc # "app" /\ mdev \in Dev /\ mld' = ier[mdev]
        /\ UNCHANGED <<init, ier, mpc, mdev, msave>>
    BY <1>5 DEF IerLoad, cfgVars, RmwLocs, TypeOK
  <2>2. mpc \notin ReadLocs => "RIE" \in ier[mdev]
    BY <2>1 DEF RxArmed
  <2> QED
    BY <2>1, <2>2 DEF RxArmed
<1>6. CASE IerStore
  <2>1. \A w, v : "RIE" \in SetBit(w, "TIE1", v) <=> "RIE" \in w
    BY DEF SetBit
  <2>2. mpc \notin ReadLocs => "RIE" \in RmwWord(mpc, mld)
    BY <1>6, <2>1 DEF IerStore, RmwWord
  <2>3. mpc = "r_rest" => "RIE" \in RmwWord(mpc, mld)
    BY <1>6 DEF RmwWord, SetBit
  <2>4. mpc = "r_mask" => mpc' = "r_loop"
    BY <1>6 DEF IerStore, Goto, RmwNext
  <2>5. mpc' \in ReadLocs => mpc = "r_mask"
    BY <1>6 DEF IerStore, Goto, RmwNext
  <2>6. mpc \in ReadLocs => mpc \in {"r_mask", "r_rest"}
    BY <1>6 DEF IerStore, RmwLocs
  <2>7. /\ ier' = [ier EXCEPT ![mdev] = RmwWord(mpc, mld)] /\ ~mrmw' /\ mpc # "app"
        /\ UNCHANGED <<init, mdev, msave>>
    BY <1>6 DEF IerStore, cfgVars, RmwLocs
  <2>8. RxArmed'
    BY <2>2, <2>3, <2>4, <2>6, <2>7 DEF RxArmed, TypeOK
  <2> QED
    BY <2>5, <2>7, <2>8
<1>7. CASE WriteTest \/ WritePut \/ TransmitHead \/ TransmitTbs \/ TransmitFill \/ TransmitTr
  <2>1. /\ UNCHANGED <<init, ier, mdev, mld, mrmw, msave>>
        /\ mpc \notin ReadLocs \union RmwLocs \union {"app"}
        /\ mpc' \notin ReadLocs
    BY <1>7 DEF WriteTest, WritePut, TransmitHead, TransmitTbs, AfterTbs, TransmitFill,
       TransmitTr, MainAt, Goto, cfgVars, RmwLocs
  <2> QED
    BY <2>1 DEF RxArmed
<1>8. CASE ReadTest \/ ReadTake
  <2>1. /\ UNCHANGED <<init, ier, mdev, mld, mrmw, msave>>
        /\ mpc \in ReadLocs \ RmwLocs /\ mpc' \in ReadLocs
    BY <1>8 DEF ReadTest, AfterReadTest, ReadTake, MainAt, Goto, cfgVars, RmwLocs
  <2> QED
    BY <2>1 DEF RxArmed
<1>9. CASE enableIRQ
  BY <1>1, <1>9 DEF enableIRQ, cfgVars
<1>10. ASSUME NEW d \in Dev, can_open(d) PROVE ArmedInv'
  <2>1. mpc = "app" /\ ~mrmw /\ UNCHANGED mainVars
    BY <1>10 DEF can_open, MainAt, RmwLocs
  <2>2. \A e \in Dev : "RIE" \in ier[e] \/ e = d => "RIE" \in ier'[e]
    BY <1>10 DEF can_open, Restart, EnableIrqs, TypeOK
  <2>3. \A e \in Dev : init'[e] => init[e] \/ e = d
    BY <1>10 DEF can_open, TypeOK
  <2> QED
    BY <2>1, <2>2, <2>3 DEF RxArmed, mainVars
<1>11. ASSUME NEW d \in Dev, can_close(d) PROVE ArmedInv'
  BY <1>11 DEF can_close, MainAt, mainVars, RxArmed, RmwLocs, TypeOK
<1>12. ASSUME NEW d \in Dev, NEW cmd \in IoctlCmds, can_ioctl(d, cmd) PROVE ArmedInv'
  <2>1. \A e \in Dev : "RIE" \in ier[e] => "RIE" \in ier'[e]
    <3>1. \/ ier' = ier
          \/ ier' = [ier EXCEPT ![d] = @ \union {"RIE", "TIE1"}]
          \/ ier' = [ier EXCEPT ![d] = SetBit(@, "RIE", TRUE)]
          \/ ier' = [ier EXCEPT ![d] = SetBit(@, "TIE1", TRUE)]
      BY <1>12 DEF can_ioctl, Restart, EnableIrqs, ClearError, SetMode
    <3>2. \A w : w \subseteq w \union {"RIE", "TIE1"} /\ \A b : w \subseteq SetBit(w, b, TRUE)
      BY DEF SetBit
    <3>3. ASSUME NEW w, ier[d] \subseteq w, ier' = [ier EXCEPT ![d] = w]
          PROVE  \A e \in Dev : ier[e] \subseteq ier'[e]
      BY <3>3 DEF TypeOK
    <3>4. \A e \in Dev : ier[e] \subseteq ier'[e]
      BY <3>1, <3>2, <3>3
    <3> QED
      BY <3>4
  <2> QED
    BY <1>1, <1>12, <2>1 DEF can_ioctl, cfgVars
<1>13. ASSUME NEW d \in Dev, NEW n \in 1 .. MaxBurst, can_write(d, n) PROVE ArmedInv'
  <2>1. mpc = "app" /\ ~mrmw /\ ~mrmw' /\ mdev' = d /\ init[d] /\ mpc' = "w_tie3"
        /\ UNCHANGED <<init, ier>>
    BY <1>13 DEF can_write, MainAt, Goto, cfgVars, RmwLocs
  <2> QED
    BY <2>1 DEF RxArmed
<1>14. ASSUME NEW d \in Dev, NEW n \in 1 .. MaxBurst, can_read(d, n) PROVE ArmedInv'
  <2>1. mpc = "app" /\ ~mrmw /\ ~mrmw' /\ mdev' = d /\ init[d] /\ mpc' = "r_mask"
        /\ UNCHANGED <<init, ier>> /\ (msave' <=> "RIE" \in ier[d])
    BY <1>14 DEF can_read, MainAt, Goto, cfgVars, RmwLocs
  <2> QED
    BY <2>1 DEF RxArmed
<1>15. ASSUME NEW d \in Dev, HwStep(d) PROVE ArmedInv'
  BY <1>1, <1>15 DEF HwStep, HwReceive, HwTxDone, cfgVars
<1> QED
  BY <1>2, <1>3, <1>4, <1>5, <1>6, <1>7, <1>8, <1>9, <1>10, <1>11, <1>12, <1>13, <1>14, <1>15
  DEF Next, IsrStep, CallStep, AppCall

\* The receive interrupt of an open controller is on whenever main is outside
\* can_read on it: no interleaving of the read-modify-writes of CANIER by main
\* and CAN_Handler loses it (can.c:825-850, 903-932).
THEOREM ReceiveArmed == Spec => []RxArmed
<1>1. Init => ArmedInv
  BY DEF Init, ArmedInv, RxArmed, ReadLocs
<1>2. ArmedInv => RxArmed
  BY DEF ArmedInv
<1> QED
  BY <1>1, <1>2, ArmedInvStep, TypeCorrect, PTL DEF Spec

\* The state of both rings as main and the handler find them, and all that
\* can_write and can_read have tested, for every ring size.
THEOREM RingsSound == ASSUME SlowFrames PROVE Spec => []RingInv
<1>1. TxInv /\ FillOwnsBuffer /\ RxInv /\ IsrLocal => RingInv
  BY DEF TxInv, RxInv, RingInv, TxLocal
<1> QED
  BY <1>1, TxInvAlways, RxInvAlways, FillOwns, IsrLocalInv, PTL

-----------------------------------------------------------------------------
(***************************************************************************)
(* The refinement: the rings, read from tail to head, are the queues of    *)
(* CanFifo.                                                                *)
(***************************************************************************)

\* The contents of a ring are a sequence of Count(h, t) telegrams.
LEMMA SeqOfRing ==
    ASSUME NEW ring \in [Slots -> Nat], NEW h \in Slots, NEW t \in Slots
    PROVE  /\ RingSeq(ring, h, t) \in Seq(Nat)
           /\ Len(RingSeq(ring, h, t)) = Count(h, t)
           /\ \A i \in 1 .. Count(h, t) : /\ RingSeq(ring, h, t)[i] = ring[SlotAfter(t, i - 1)]
                                          /\ i - 1 \in Slots
<1>1. Count(h, t) \in Nat /\ Count(h, t) <= CAN_RING_BUFSIZE - 1
  BY CountRange, SizeAssumption
<1>2. ASSUME NEW i \in 1 .. Count(h, t)
      PROVE  i - 1 \in Slots /\ ring[SlotAfter(t, i - 1)] \in Nat
  <2>1. i - 1 \in Slots
    BY <1>1, SizeAssumption DEF Slots
  <2> QED
    BY <2>1, SlotAfterSlot
<1>3. RingSeq(ring, h, t) \in [1 .. Count(h, t) -> Nat]
  BY <1>2 DEF RingSeq
<1>4. Len(RingSeq(ring, h, t)) = Count(h, t) /\ RingSeq(ring, h, t) \in Seq(Nat)
  <2> HIDE DEF RingSeq
  <2> QED
    BY <1>1, <1>3
<1>5. \A i \in 1 .. Count(h, t) : RingSeq(ring, h, t)[i] = ring[SlotAfter(t, i - 1)]
  BY DEF RingSeq
<1> QED
  BY <1>2, <1>4, <1>5

\* Storing v at head and moving head appends v, if the ring has room.
LEMMA SeqPush ==
    ASSUME NEW ring \in [Slots -> Nat], NEW h \in Slots, NEW t \in Slots, NEW v \in Nat,
           Count(h, t) < CAN_RING_BUFSIZE - 1
    PROVE  RingSeq([ring EXCEPT ![h] = v], NextIdx(h), t) = Append(RingSeq(ring, h, t), v)
<1> DEFINE r == [ring EXCEPT ![h] = v]
           s == RingSeq(ring, h, t)
           u == RingSeq(r, NextIdx(h), t)
<1>1. /\ r \in [Slots -> Nat] /\ NextIdx(h) \in Slots
      /\ r[h] = v /\ \A j \in Slots \ {h} : r[j] = ring[j]
  BY NextIdxSlot
<1> HIDE DEF r
<1>2. Count(NextIdx(h), t) = Count(h, t) + 1 /\ Count(h, t) \in Nat
  BY CountPush, CountRange
<1>3. u \in Seq(Nat) /\ Len(u) = Count(h, t) + 1
  BY <1>1, <1>2, SeqOfRing
<1>4. s \in Seq(Nat) /\ Len(s) = Count(h, t)
  BY SeqOfRing
<1>5. u[Len(s) + 1] = v
  <2>1. Count(h, t) + 1 \in 1 .. Count(NextIdx(h), t) /\ (Count(h, t) + 1) - 1 = Count(h, t)
    BY <1>2
  <2>2. u[Count(h, t) + 1] = r[SlotAfter(t, (Count(h, t) + 1) - 1)]
    BY <1>1, <2>1, SeqOfRing
  <2>3. r[SlotAfter(t, Count(h, t))] = v
    BY <1>1, CountPush
  <2> QED
    BY <1>4, <2>1, <2>2, <2>3
<1>6. ASSUME NEW i \in 1 .. Len(s) PROVE u[i] = s[i]
  <2>1. s[i] = ring[SlotAfter(t, i - 1)] /\ i - 1 \in Slots
    BY <1>4, SeqOfRing
  <2>2. u[i] = r[SlotAfter(t, i - 1)]
    <3>1. i \in 1 .. Count(NextIdx(h), t)
      BY <1>2, <1>4
    <3> QED
      BY <1>1, <3>1, SeqOfRing
  <2>3. SlotAfter(t, i - 1) # h /\ SlotAfter(t, i - 1) \in Slots
    BY <1>2, <1>4, <2>1, CountPush, SlotAfterSlot
  <2> QED
    BY <1>1, <2>1, <2>2, <2>3
<1> HIDE DEF s, u
<1>7. u = Append(s, v)
  BY <1>2, <1>3, <1>4, <1>5, <1>6
<1> QED
  BY <1>7 DEF r, s, u

\* Moving tail takes the telegram at tail off the front, if there is one.
LEMMA SeqPop ==
    ASSUME NEW ring \in [Slots -> Nat], NEW h \in Slots, NEW t \in Slots, h # t
    PROVE  /\ RingSeq(ring, h, t) # <<>>
           /\ Head(RingSeq(ring, h, t)) = ring[t]
           /\ RingSeq(ring, h, NextIdx(t)) = Tail(RingSeq(ring, h, t))
<1> DEFINE s == RingSeq(ring, h, t)
           u == RingSeq(ring, h, NextIdx(t))
<1>1. NextIdx(t) \in Slots
  BY NextIdxSlot
<1>2. Count(h, NextIdx(t)) = Count(h, t) - 1 /\ Count(h, t) \in Nat /\ Count(h, t) # 0
  BY CountPop, CountRange
<1>3. u \in Seq(Nat) /\ Len(u) = Count(h, t) - 1
  BY <1>1, <1>2, SeqOfRing
<1>4. s \in Seq(Nat) /\ Len(s) = Count(h, t)
  BY SeqOfRing
<1>5. s[1] = ring[t]
  <2>0. 1 \in 1 .. Count(h, t)
    BY <1>2
  <2>1. s[1] = ring[SlotAfter(t, 1 - 1)]
    BY <2>0, SeqOfRing
  <2> QED
    BY <2>1, CountPop
<1>6. ASSUME NEW i \in 1 .. Len(s) - 1 PROVE u[i] = s[i + 1]
  <2>0. i + 1 \in 1 .. Count(h, t) /\ i \in 1 .. Count(h, NextIdx(t))
    BY <1>2, <1>4
  <2>1. s[i + 1] = ring[SlotAfter(t, (i + 1) - 1)]
    BY <2>0, SeqOfRing
  <2>2. u[i] = ring[SlotAfter(NextIdx(t), i - 1)] /\ i - 1 \in Slots
    BY <1>1, <2>0, SeqOfRing
  <2>3. SlotAfter(NextIdx(t), i - 1) = SlotAfter(t, (i - 1) + 1)
    BY <1>2, <1>4, <2>2, CountPop
  <2> QED
    BY <2>1, <2>2, <2>3
<1> HIDE DEF s, u
<1>7. s # <<>> /\ Head(s) = s[1]
  BY <1>2, <1>4
<1>8. u = Tail(s)
  BY <1>2, <1>3, <1>4, <1>6
<1> QED
  BY <1>5, <1>7, <1>8 DEF s, u

\* A ring whose head equals its tail is the empty queue.
LEMMA SeqNone ==
    ASSUME NEW ring, NEW t \in Slots PROVE RingSeq(ring, t, t) = <<>>
  BY CountRange DEF RingSeq

TxQ == [d \in Dev |-> RingSeq(txring[d], tx_head[d], tx_tail[d])]
RxQ == [d \in Dev |-> RingSeq(rxring[d], rx_head[d], rx_tail[d])]

\* A step that leaves the transmit rings alone leaves their queues alone,
LEMMA TxQKeep == ASSUME UNCHANGED <<txring, tx_head, tx_tail>> PROVE UNCHANGED TxQ
  BY DEF TxQ

\* and so for the receive rings.
LEMMA RxQKeep == ASSUME UNCHANGED <<rxring, rx_head, rx_tail>> PROVE UNCHANGED RxQ
  BY DEF RxQ

\* A function on the controllers that changes at one of them only.
LEMMA OneChanges ==
    ASSUME NEW f, NEW g, f = [e \in Dev |-> f[e]], g = [e \in Dev |-> g[e]],
           NEW d \in Dev, \A e \in Dev \ {d} : g[e] = f[e]
    PROVE  g = [f EXCEPT ![d] = g[d]]
  OBVIOUS

\* Handing the telegram at tail to the controller, by main or by CAN_Handler, is
\* the queue's Send.
LEMMA LoadIsSend ==
    ASSUME TypeOK, NEW d \in Dev, tx_head[d] # tx_tail[d], LoadTxBuffer(d), UNCHANGED rxVars
    PROVE  Fifo!Send(d)
<1>1. /\ txring[d] \in [Slots -> Nat] /\ tx_head[d] \in Slots /\ tx_tail[d] \in Slots
  BY DEF TypeOK
<1>2. /\ txb' = [txb EXCEPT ![d] = txring[d][tx_tail[d]]] /\ tx_tail'[d] = NextIdx(tx_tail[d])
      /\ UNCHANGED <<txring, tx_head, nacc>>
      /\ \A e \in Dev \ {d} : tx_tail'[e] = tx_tail[e]
  BY DEF LoadTxBuffer, TypeOK
<1>3. /\ TxQ[d] # <<>> /\ Head(TxQ[d]) = txring[d][tx_tail[d]]
      /\ TxQ'[d] = Tail(TxQ[d])
  BY <1>1, <1>2, SeqPop DEF TxQ
<1>4. TxQ' = [TxQ EXCEPT ![d] = Tail(TxQ[d])]
  <2>1. \A e \in Dev \ {d} : TxQ'[e] = TxQ[e]
    BY <1>2 DEF TxQ
  <2>2. TxQ = [e \in Dev |-> TxQ[e]] /\ TxQ' = [e \in Dev |-> TxQ'[e]]
    BY DEF TxQ
  <2>3. TxQ' = [TxQ EXCEPT ![d] = TxQ'[d]]
    BY <2>1, <2>2, OneChanges
  <2> QED
    BY <1>3, <2>3
<1>5. UNCHANGED <<RxQ, nin>>
  BY RxQKeep DEF rxVars
<1>6. txb' = [txb EXCEPT ![d] = Head(TxQ[d])]
  BY <1>2, <1>3
<1> QED
  BY <1>2, <1>3, <1>4, <1>5, <1>6 DEF Fifo!Send, TxQ, RxQ

\* A telegram that can_write stores is accepted by the queue: the room it found
\* is still there.
LEMMA PutIsAccept ==
    ASSUME TypeOK, WriteHasRoom, WritePut
    PROVE  Fifo!Accept(mdev)
<1> DEFINE d == mdev
<1>1. /\ txring[d] \in [Slots -> Nat] /\ tx_head[d] \in Slots /\ tx_tail[d] \in Slots
      /\ nacc[d] + 1 \in Nat /\ d \in Dev
  BY DEF TypeOK
<1>2. Count(tx_head[d], tx_tail[d]) < CAN_RING_BUFSIZE - 1
  BY <1>1, CountRange, SizeAssumption DEF WritePut, MainAt, WriteHasRoom, can_get_free_tx_count
<1>3. /\ txring'[d] = [txring[d] EXCEPT ![tx_head[d]] = nacc[d] + 1]
      /\ tx_head'[d] = NextIdx(tx_head[d]) /\ UNCHANGED tx_tail
      /\ \A e \in Dev \ {d} : txring'[e] = txring[e] /\ tx_head'[e] = tx_head[e]
  BY <1>1 DEF WritePut, TypeOK
<1>4. /\ Len(TxQ[d]) < CAN_RING_BUFSIZE - 1
      /\ TxQ'[d] = Append(TxQ[d], nacc[d] + 1)
  <2>1. TxQ[d] = RingSeq(txring[d], tx_head[d], tx_tail[d])
    BY <1>1 DEF TxQ
  <2>2. Len(TxQ[d]) = Count(tx_head[d], tx_tail[d])
    BY <1>1, <2>1, SeqOfRing
  <2>3. TxQ'[d] = RingSeq([txring[d] EXCEPT ![tx_head[d]] = nacc[d] + 1],
                          NextIdx(tx_head[d]), tx_tail[d])
    BY <1>1, <1>3 DEF TxQ
  <2>4. RingSeq([txring[d] EXCEPT ![tx_head[d]] = nacc[d] + 1], NextIdx(tx_head[d]), tx_tail[d])
          = Append(RingSeq(txring[d], tx_head[d], tx_tail[d]), nacc[d] + 1)
    BY <1>1, <1>2, SeqPush
  <2> QED
    BY <1>2, <2>1, <2>2, <2>3, <2>4
<1>5. TxQ' = [TxQ EXCEPT ![d] = Append(TxQ[d], nacc[d] + 1)]
  <2>1. \A e \in Dev \ {d} : TxQ'[e] = TxQ[e]
    BY <1>3 DEF TxQ
  <2>2. TxQ = [e \in Dev |-> TxQ[e]] /\ TxQ' = [e \in Dev |-> TxQ'[e]]
    BY DEF TxQ
  <2>3. TxQ' = [TxQ EXCEPT ![d] = TxQ'[d]]
    BY <1>1, <2>1, <2>2, OneChanges
  <2> QED
    BY <1>4, <2>3
<1>6. UNCHANGED <<RxQ, nin, txb>> /\ nacc' = [nacc EXCEPT ![d] = @ + 1]
  BY RxQKeep DEF WritePut, rxVars, hwTx
<1> QED
  BY <1>4, <1>5, <1>6 DEF Fifo!Accept, TxQ, RxQ

\* A telegram the handler stores arrives in the queue, or empties it if full.
LEMMA ReceiveIsArrive ==
    ASSUME TypeOK, NEW d \in Dev, can_standard_receive(d), UNCHANGED <<txVars, txb>>
    PROVE  Fifo!Arrive(d)
<1>1. /\ rxring[d] \in [Slots -> Nat] /\ rx_head[d] \in Slots /\ rx_tail[d] \in Slots
      /\ nin[d] + 1 \in Nat
  BY DEF TypeOK
<1>2. /\ rxring'[d] = [rxring[d] EXCEPT ![rx_head[d]] = nin[d] + 1]
      /\ rx_head'[d] = NextIdx(rx_head[d]) /\ UNCHANGED rx_tail
      /\ \A e \in Dev \ {d} : rxring'[e] = rxring[e] /\ rx_head'[e] = rx_head[e]
  BY DEF can_standard_receive, TypeOK
<1>3. RxQ'[d] = IF Len(RxQ[d]) < CAN_RING_BUFSIZE - 1 THEN Append(RxQ[d], nin[d] + 1) ELSE <<>>
  <2>1. RxQ[d] = RingSeq(rxring[d], rx_head[d], rx_tail[d])
    BY DEF RxQ
  <2>2. Len(RxQ[d]) = Count(rx_head[d], rx_tail[d])
    BY <1>1, <2>1, SeqOfRing
  <2>3. RxQ'[d] = RingSeq([rxring[d] EXCEPT ![rx_head[d]] = nin[d] + 1],
                          NextIdx(rx_head[d]), rx_tail[d])
    BY <1>2 DEF RxQ
  <2>4. CASE Count(rx_head[d], rx_tail[d]) < CAN_RING_BUFSIZE - 1
    <3>1. RingSeq([rxring[d] EXCEPT ![rx_head[d]] = nin[d] + 1], NextIdx(rx_head[d]), rx_tail[d])
            = Append(RingSeq(rxring[d], rx_head[d], rx_tail[d]), nin[d] + 1)
      BY <1>1, <2>4, SeqPush
    <3> QED
      BY <2>1, <2>2, <2>3, <2>4, <3>1
  <2>5. CASE ~ (Count(rx_head[d], rx_tail[d]) < CAN_RING_BUFSIZE - 1)
    <3>1. NextIdx(rx_head[d]) = rx_tail[d]
      BY <1>1, <2>5, CountRange, FullIff, SizeAssumption
    <3> QED
      BY <1>1, <2>2, <2>3, <2>5, <3>1, SeqNone
  <2> QED
    BY <2>4, <2>5
<1>4. RxQ' = [RxQ EXCEPT ![d] =
                IF Len(RxQ[d]) < CAN_RING_BUFSIZE - 1 THEN Append(RxQ[d], nin[d] + 1) ELSE <<>>]
  <2>1. \A e \in Dev \ {d} : RxQ'[e] = RxQ[e]
    BY <1>2 DEF RxQ
  <2>2. RxQ = [e \in Dev |-> RxQ[e]] /\ RxQ' = [e \in Dev |-> RxQ'[e]]
    BY DEF RxQ
  <2>3. RxQ' = [RxQ EXCEPT ![d] = RxQ'[d]]
    BY <2>1, <2>2, OneChanges
  <2> QED
    BY <1>3, <2>3
<1>5. UNCHANGED <<TxQ, nacc, txb>> /\ nin' = [nin EXCEPT ![d] = @ + 1]
  BY TxQKeep DEF txVars, can_standard_receive
<1> QED
  BY <1>4, <1>5 DEF Fifo!Arrive, TxQ, RxQ

\* can_read takes the oldest telegram: the one it found is still there.
LEMMA TakeIsRead ==
    ASSUME TypeOK, RxLocal, ReadTake
    PROVE  Fifo!Read(mdev)
<1> DEFINE d == mdev
<1>1. /\ rxring[d] \in [Slots -> Nat] /\ rx_head[d] \in Slots /\ rx_tail[d] \in Slots
      /\ d \in Dev /\ rx_head[d] # rx_tail[d]
  BY DEF TypeOK, RxLocal, ReadTake, MainAt
<1>2. /\ rx_tail'[d] = NextIdx(rx_tail[d]) /\ UNCHANGED <<rxring, rx_head>>
      /\ \A e \in Dev \ {d} : rx_tail'[e] = rx_tail[e]
  BY <1>1 DEF ReadTake, TypeOK
<1>3. RxQ[d] # <<>> /\ RxQ'[d] = Tail(RxQ[d])
  BY <1>1, <1>2, SeqPop DEF RxQ
<1>4. RxQ' = [RxQ EXCEPT ![d] = Tail(RxQ[d])]
  <2>1. \A e \in Dev \ {d} : RxQ'[e] = RxQ[e]
    BY <1>2 DEF RxQ
  <2>2. RxQ = [e \in Dev |-> RxQ[e]] /\ RxQ' = [e \in Dev |-> RxQ'[e]]
    BY DEF RxQ
  <2>3. RxQ' = [RxQ EXCEPT ![d] = RxQ'[d]]
    BY <1>1, <2>1, <2>2, OneChanges
  <2> QED
    BY <1>3, <2>3
<1>5. UNCHANGED <<TxQ, nacc, txb, nin>>
  BY TxQKeep DEF ReadTake, txVars, hwTx
<1> QED
  BY <1>3, <1>4, <1>5 DEF Fifo!Read, TxQ, RxQ

\* can_open and CAN_SET_BAUD_RATE empty both queues of the controller.
LEMMA RestartIsFlush ==
    ASSUME TypeOK, NEW d \in Dev, Restart(d)
    PROVE  Fifo!Flush(d)
<1>1. /\ tx_head'[d] = 0 /\ tx_tail'[d] = 0 /\ rx_head'[d] = 0 /\ rx_tail'[d] = 0
      /\ UNCHANGED <<txring, rxring, txb>>
      /\ \A e \in Dev \ {d} : /\ tx_head'[e] = tx_head[e] /\ tx_tail'[e] = tx_tail[e]
                              /\ rx_head'[e] = rx_head[e] /\ rx_tail'[e] = rx_tail[e]
  BY DEF Restart, EmptyTxRing, EmptyRxRing, TypeOK
<1>2. TxQ'[d] = <<>> /\ RxQ'[d] = <<>>
  BY <1>1, ZeroSlot, SeqNone DEF TxQ, RxQ
<1>3. TxQ' = [TxQ EXCEPT ![d] = <<>>]
  <2>1. \A e \in Dev \ {d} : TxQ'[e] = TxQ[e]
    BY <1>1 DEF TxQ
  <2>2. TxQ = [e \in Dev |-> TxQ[e]] /\ TxQ' = [e \in Dev |-> TxQ'[e]]
    BY DEF TxQ
  <2> QED
    BY <1>2, <2>1, <2>2, OneChanges
<1>4. RxQ' = [RxQ EXCEPT ![d] = <<>>]
  <2>1. \A e \in Dev \ {d} : RxQ'[e] = RxQ[e]
    BY <1>1 DEF RxQ
  <2>2. RxQ = [e \in Dev |-> RxQ[e]] /\ RxQ' = [e \in Dev |-> RxQ'[e]]
    BY DEF RxQ
  <2> QED
    BY <1>2, <2>1, <2>2, OneChanges
<1>5. nacc' = [nacc EXCEPT ![d] = 0] /\ nin' = [nin EXCEPT ![d] = 0]
  BY DEF Restart, EmptyTxRing, EmptyRxRing
<1> QED
  BY <1>1, <1>3, <1>4, <1>5 DEF Fifo!Flush, TxQ, RxQ

\* Every step of the driver is a step of the queues, or leaves them alone.
LEMMA FifoStep ==
    ASSUME TypeOK, TxInv, RxInv, [Next]_vars
    PROVE  [Fifo!FifoNext]_(Fifo!fifoVars)
<1>1. ASSUME UNCHANGED <<txring, tx_head, tx_tail, nacc, txb, rxring, rx_head, rx_tail, nin>>
      PROVE  UNCHANGED Fifo!fifoVars
  BY <1>1 DEF Fifo!fifoVars
<1>2. ASSUME NEW d \in Dev,
             Fifo!Accept(d) \/ Fifo!Send(d) \/ Fifo!Arrive(d) \/ Fifo!Read(d) \/ Fifo!Flush(d)
      PROVE  Fifo!FifoNext
  BY <1>2 DEF Fifo!FifoNext
<1>3. CASE UNCHANGED vars
  BY <1>1, <1>3 DEF vars, txVars, rxVars, hwTx
<1>4. CASE IsrEnter
  BY <1>1, <1>4 DEF IsrEnter, txVars, rxVars, hwTx
<1>5. CASE IsrReceive
  <2>1. CASE RI(idev)
    BY <1>2, <1>5, <2>1, ReceiveIsArrive DEF IsrReceive, TypeOK
  <2>2. CASE ~RI(idev)
    BY <1>1, <1>5, <2>2 DEF IsrReceive, txVars, rxVars
  <2> QED
    BY <2>1, <2>2
<1>6. CASE IsrTransmit
  <2>1. UNCHANGED rxVars /\ idev \in Dev
    BY <1>6 DEF IsrTransmit, TypeOK
  <2>2. CASE UNCHANGED <<txVars, tbs1, txb, late>>
    BY <1>1, <2>1, <2>2 DEF txVars, rxVars
  <2>3. CASE tx_head[idev] # tx_tail[idev] /\ LoadTxBuffer(idev)
    BY <1>2, <2>1, <2>3, LoadIsSend
  <2> QED
    BY <1>6, <2>2, <2>3, IsrTransmitCases
<1>7. CASE WritePut
  BY <1>2, <1>7, PutIsAccept DEF TxInv, TypeOK
<1>8. CASE ReadTake
  BY <1>2, <1>8, TakeIsRead DEF RxInv, TypeOK
<1>9. CASE TransmitFill
  <2>1. LoadTxBuffer(mdev) /\ tx_head[mdev] # tx_tail[mdev] /\ UNCHANGED rxVars /\ mdev \in Dev
    BY <1>9 DEF TransmitFill, MainAt, TxInv, FillHasTelegram, TypeOK
  <2> QED
    BY <1>2, <2>1, LoadIsSend
<1>10. CASE IerLoad \/ IerStore \/ WriteTest \/ ReadTest \/ TransmitHead \/ TransmitTbs \/ TransmitTr
  BY <1>1, <1>10 DEF IerLoad, IerStore, WriteTest, ReadTest, TransmitHead, TransmitTbs,
     TransmitTr, txVars, rxVars, hwTx
<1>11. CASE enableIRQ
  BY <1>1, <1>11 DEF enableIRQ, txVars, rxVars, hwTx
<1>12. ASSUME NEW d \in Dev, can_open(d) PROVE Fifo!FifoNext
  BY <1>2, <1>12, RestartIsFlush DEF can_open
<1>13. ASSUME NEW d \in Dev, can_close(d) PROVE UNCHANGED Fifo!fifoVars
  BY <1>1, <1>13 DEF can_close, txVars, rxVars, hwTx
<1>14. ASSUME NEW d \in Dev, NEW cmd \in IoctlCmds, can_ioctl(d, cmd)
       PROVE  [Fifo!FifoNext]_(Fifo!fifoVars)
  <2>1. CASE Restart(d)
    BY <1>2, <2>1, RestartIsFlush
  <2>2. CASE ~Restart(d)
    <3>1. UNCHANGED <<txVars, txb, rxring, rx_head, rx_tail, nin>>
      BY <1>14, <2>2 DEF can_ioctl, ClearError, SetMode
    <3> QED
      BY <1>1, <3>1 DEF txVars
  <2> QED
    BY <2>1, <2>2
<1>15. ASSUME NEW d \in Dev, NEW n \in 1 .. MaxBurst, can_write(d, n) \/ can_read(d, n)
       PROVE  UNCHANGED Fifo!fifoVars
  BY <1>1, <1>15 DEF can_write, can_read, txVars, rxVars, hwTx
<1>16. ASSUME NEW d \in Dev, HwStep(d) PROVE UNCHANGED Fifo!fifoVars
  BY <1>1, <1>16 DEF HwStep, HwReceive, HwTxDone, txVars, rxVars, hwTx
<1> QED
  BY <1>3, <1>4, <1>5, <1>6, <1>7, <1>8, <1>9, <1>10, <1>11, <1>12, <1>13, <1>14, <1>15, <1>16
  DEF Next, IsrStep, CallStep, AppCall

\* The driver implements CanFifo: for rings of every size and every interleaving
\* of main, CAN_Handler and the controllers, the rings are two queues of one
\* telegram less than the ring size, if a frame is never shorter than an interrupt.
THEOREM RefinesFifo == ASSUME SlowFrames PROVE Spec => ImplementsFifo
<1>1. Init => Fifo!FifoInit
  <2> SUFFICES ASSUME Init PROVE Fifo!FifoInit
    OBVIOUS
  <2>1. \A d \in Dev : /\ RingSeq(txring[d], tx_head[d], tx_tail[d]) = <<>>
                       /\ RingSeq(rxring[d], rx_head[d], rx_tail[d]) = <<>>
    BY ZeroSlot, SeqNone DEF Init
  <2> QED
    BY <2>1 DEF Init, Fifo!FifoInit
<1>2. TypeOK /\ TxInv /\ RxInv /\ [Next]_vars => [Fifo!FifoNext]_(Fifo!fifoVars)
  BY FifoStep
<1> QED
  BY <1>1, <1>2, TypeCorrect, TxInvAlways, RxInvAlways, PTL DEF Spec, ImplementsFifo, Fifo!FifoSpec

=============================================================================
