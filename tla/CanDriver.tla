------------------------------ MODULE CanDriver ------------------------------
(***************************************************************************)
(* The data plane of the interrupt-driven CAN driver, drivers/can.c: two   *)
(* controllers, each with a transmit and a receive ring, driven by         *)
(*                                                                         *)
(*   main   one thread of calls: can_open, can_close, can_ioctl, can_read, *)
(*          can_write (and the can_standard_transmit that can_write ends   *)
(*          with), preempted between any two register accesses;            *)
(*   isr    CAN_Handler, which runs to completion once entered: controller *)
(*          1 then 2, two reads of CANICR for each;                        *)
(*   hw     the controllers, which step between any two steps of the two.  *)
(*                                                                         *)
(* A telegram is its ordinal: the k-th one can_write accepted on a         *)
(* controller (or the k-th one its bus delivered) since the rings were     *)
(* last emptied.  The counters nacc .. nread are history variables; the    *)
(* code has only the rings and their indices.                              *)
(***************************************************************************)
EXTENDS CanRegs

CONSTANTS
    CAN_RING_BUFSIZE,  \* slots in each ring (256 in can.c)
    AppDevs,           \* controllers the application opens before enableIRQ()
    TxDevs,            \* controllers it calls can_write on
    RxDevs,            \* controllers with bus traffic, it calls can_read on
    Ioctls,            \* the can_ioctl commands it uses
    CanClose,          \* does it call can_close?
    MaxBurst,          \* largest n_telegrams / max_bytes argument
    HwRxDepth,         \* telegrams a controller holds before RRB
    SlowFrames,        \* a frame outlasts an interrupt plus one register read
    MaxAcc,            \* bound: telegrams accepted per controller
    MaxBus             \* bound: telegrams received per controller

IoctlCmds == {"SET_BAUD_RATE", "CLEAR_RX_ERROR", "CLEAR_TX_ERROR"} \union ModeArgs

ASSUME SizeAssumption == CAN_RING_BUFSIZE \in Nat /\ CAN_RING_BUFSIZE >= 2
ASSUME AppAssumption ==
    /\ AppDevs \subseteq Dev /\ TxDevs \subseteq AppDevs /\ RxDevs \subseteq AppDevs
    /\ Ioctls \subseteq IoctlCmds
    /\ CanClose \in BOOLEAN /\ SlowFrames \in BOOLEAN
ASSUME BoundAssumption ==
    /\ MaxBurst \in Nat /\ MaxBurst >= 1
    /\ HwRxDepth \in Nat /\ HwRxDepth >= 1
    /\ MaxAcc \in Nat /\ MaxBus \in Nat

VARIABLES
    \* CAN_CFG_T, per controller
    init, regptr, txring, tx_head, tx_tail, rxring, rx_head, rx_tail,
    \* registers: CANMOD, CANIER, CANSR.TBS1, CANICR.TI1, transmit buffer 1
    canmod, ier, tbs1, ti1, txb,
    \* main thread: location, controller, telegrams left, savedint,
    \* and the CANIER word of a read-modify-write in progress
    mpc, mdev, mcnt, msave, mld, mrmw,
    \* interrupt side: global enable, CAN_Handler's location and controller
    irq, ipc, idev,
    \* history: telegrams accepted, put in txb, received, moved to the ring, read
    nacc, nout, nbus, nin, nread,
    \* timing: the handler started a frame while main is about to read TBS1
    late

cfgVars == <<init, regptr>>
txVars  == <<txring, tx_head, tx_tail, nacc, nout>>
rxVars  == <<rxring, rx_head, rx_tail, nbus, nin, nread>>
hwTx    == <<tbs1, ti1, txb>>
mainVars == <<mpc, mdev, mcnt, msave, mld, mrmw>>
isrVars == <<irq, ipc, idev>>
vars == <<cfgVars, txVars, rxVars, canmod, ier, hwTx, mainVars, isrVars, late>>

Slots == 0 .. CAN_RING_BUFSIZE - 1

\* Mutant: the wrap test is off by one.
NextIdx_OffByOne(i) == IF i + 1 > CAN_RING_BUFSIZE THEN 0 ELSE i + 1

\* The index after i: i++, back to 0 at the end of the ring.
NextIdx(i) == IF i + 1 >= CAN_RING_BUFSIZE THEN 0 ELSE i + 1

\* Telegrams between tail and head, the count can_get_free_tx_count computes.
Count(head, tail) ==
    IF head - tail < 0 THEN (CAN_RING_BUFSIZE - tail) + head ELSE head - tail

\* Mutant: the slot that tells a full ring from an empty one is given away.
can_get_free_tx_count_NoSpare(d) == CAN_RING_BUFSIZE - Count(tx_head[d], tx_tail[d])

can_get_free_tx_count(d) == CAN_RING_BUFSIZE - Count(tx_head[d], tx_tail[d]) - 1

\* CANICR.RI: a received telegram is waiting and the interrupt is enabled.
\* A level, which reading CANICR does not clear; RRB and RIE do.  A controller
\* that is in reset or without power raises nothing, and neither does the
\* vector table that a NULL regptr reads.
RI(d) == init[d] /\ "RM" \notin canmod[d] /\ "RIE" \in ier[d] /\ nin[d] < nbus[d]
TI1(d) == init[d] /\ ti1[d]

-----------------------------------------------------------------------------
Init ==
    /\ init = [d \in Dev |-> FALSE] /\ regptr = [d \in Dev |-> FALSE]
    /\ txring = [d \in Dev |-> [i \in Slots |-> 0]]
    /\ rxring = [d \in Dev |-> [i \in Slots |-> 0]]
    /\ tx_head = [d \in Dev |-> 0] /\ tx_tail = [d \in Dev |-> 0]
    /\ rx_head = [d \in Dev |-> 0] /\ rx_tail = [d \in Dev |-> 0]
    /\ canmod = [d \in Dev |-> {"RM"}] /\ ier = [d \in Dev |-> {}]
    /\ tbs1 = [d \in Dev |-> TRUE] /\ ti1 = [d \in Dev |-> FALSE]
    /\ txb = [d \in Dev |-> 0]
    /\ mpc = "app" /\ mdev = 1 /\ mcnt = 0 /\ msave = FALSE
    /\ mld = {} /\ mrmw = FALSE
    /\ irq = FALSE /\ ipc = "idle" /\ idev = 1
    /\ nacc = [d \in Dev |-> 0] /\ nout = [d \in Dev |-> 0]
    /\ nbus = [d \in Dev |-> 0] /\ nin = [d \in Dev |-> 0]
    /\ nread = [d \in Dev |-> 0]
    /\ late = [d \in Dev |-> FALSE]

-----------------------------------------------------------------------------
(***************************************************************************)
(* Hardware.                                                               *)
(***************************************************************************)

\* A telegram arrives from the bus and waits in the receive buffer.
HwReceive(d) ==
    /\ d \in RxDevs /\ init[d] /\ "RM" \notin canmod[d]
    /\ nbus[d] - nin[d] < HwRxDepth /\ nbus[d] < MaxBus
    /\ nbus' = [nbus EXCEPT ![d] = @ + 1]
    /\ UNCHANGED <<cfgVars, txVars, rxring, rx_head, rx_tail, nin, nread,
                   canmod, ier, hwTx, mainVars, isrVars, late>>

\* The frame in transmit buffer 1 is on the wire: TBS1 goes from 0 to 1 and
\* raises TI1 if it is enabled.
HwTxDone(d) ==
    /\ init[d] /\ ~tbs1[d] /\ canmod[d] \intersect {"RM", "LOM"} = {}
    /\ SlowFrames => ~late[d]
    /\ tbs1' = [tbs1 EXCEPT ![d] = TRUE]
    /\ ti1' = [ti1 EXCEPT ![d] = @ \/ "TIE1" \in ier[d]]
    /\ UNCHANGED <<cfgVars, txVars, rxVars, canmod, ier, txb, mainVars,
                   isrVars, late>>

\* canmod.RM = 1 on controller d aborts the frame in progress, which also takes
\* TBS1 from 0 to 1,
HwAbort(d) ==
    /\ tbs1' = [tbs1 EXCEPT ![d] = TRUE]
    /\ ti1' = [ti1 EXCEPT ![d] = @ \/ (~tbs1[d] /\ "TIE1" \in ier[d])]

\* and empties the receive buffer.
HwReset(d) == HwAbort(d) /\ nbus' = [nbus EXCEPT ![d] = nin[d]]

-----------------------------------------------------------------------------
(***************************************************************************)
(* CAN_Handler.  It preempts main, and main waits until it has returned.   *)
(***************************************************************************)
IsrEnter ==
    /\ irq /\ ipc = "idle"
    /\ \E d \in Dev : RI(d) \/ TI1(d)
    /\ ipc' = "ri" /\ idev' = 1
    /\ UNCHANGED <<cfgVars, txVars, rxVars, canmod, ier, hwTx, mainVars, irq, late>>

\* if (tmpcanregs->canicr.RI) can_standard_receive(...): the telegram goes into
\* the ring whether or not there is room, and RRB releases it.  When head
\* catches up with tail the ring reads as empty: everything in it is lost.
\* Reading CANICR clears TI1.
can_standard_receive(d) ==
    /\ rxring' = [rxring EXCEPT ![d][rx_head[d]] = nin[d] + 1]
    /\ rx_head' = [rx_head EXCEPT ![d] = NextIdx(@)]
    /\ nin' = [nin EXCEPT ![d] = @ + 1]
    /\ nread' = [nread EXCEPT ![d] =
                   IF NextIdx(rx_head[d]) = rx_tail[d] THEN nin[d] + 1 ELSE @]
    /\ UNCHANGED <<rx_tail, nbus>>

IsrReceive ==
    /\ ipc = "ri"
    /\ IF RI(idev) THEN can_standard_receive(idev) ELSE UNCHANGED rxVars
    /\ ti1' = [ti1 EXCEPT ![idev] = FALSE]
    /\ ipc' = "ti"
    /\ UNCHANGED <<cfgVars, txVars, canmod, ier, tbs1, txb, mainVars, irq, idev, late>>

\* The load of transmit buffer 1 from the ring: shared by the handler, which
\* does it in one piece, and by main.
LoadTxBuffer(d) ==
    /\ txb' = [txb EXCEPT ![d] = txring[d][tx_tail[d]]]
    /\ tx_tail' = [tx_tail EXCEPT ![d] = NextIdx(@)]
    /\ nout' = [nout EXCEPT ![d] = @ + 1]
    /\ UNCHANGED <<txring, tx_head, nacc>>

\* cancmr.TR = 1: the controller ignores it in reset mode.
TransmitRequest(d) == tbs1' = [tbs1 EXCEPT ![d] = "RM" \in canmod[d]]

\* can_standard_transmit as the handler runs it.
IsrStandardTransmit(d) ==
    \/ /\ tx_head[d] = tx_tail[d]
       /\ ier' = [ier EXCEPT ![d] = SetBit(@, "TIE1", FALSE)]
       /\ UNCHANGED <<txVars, tbs1, txb, late>>
    \/ /\ tx_head[d] # tx_tail[d] /\ ~tbs1[d]
       /\ UNCHANGED <<txVars, tbs1, txb, ier, late>>
    \/ /\ tx_head[d] # tx_tail[d] /\ tbs1[d]
       /\ LoadTxBuffer(d)
       /\ ier' = [ier EXCEPT ![d] = SetBit(@, "TIE1", TRUE)]
       /\ TransmitRequest(d)
       /\ late' = [late EXCEPT ![d] = mpc = "t_tbs" /\ mdev = d]

\* Mutant: the handler returns without looking at controller 2.
IsrAdvance_OnlyFirst == ipc' = "idle" /\ idev' = 1

\* On to controller 2, or the VIC acknowledge and return.
IsrAdvance == IF idev = 1 THEN ipc' = "ri" /\ idev' = 2
                          ELSE ipc' = "idle" /\ idev' = 1

\* if (tmpcanregs->canicr.TI1) can_standard_transmit(...): the second read of
\* CANICR.
IsrTransmit ==
    /\ ipc = "ti"
    /\ IF TI1(idev) THEN IsrStandardTransmit(idev)
                    ELSE UNCHANGED <<txVars, tbs1, txb, ier, late>>
    /\ ti1' = [ti1 EXCEPT ![idev] = FALSE]
    /\ IsrAdvance
    /\ UNCHANGED <<cfgVars, rxVars, canmod, mainVars, irq>>

-----------------------------------------------------------------------------
(***************************************************************************)
(* Main thread.  It takes a step only while the handler is not running.    *)
(***************************************************************************)
MainAt(loc) == ipc = "idle" /\ mpc = loc
Goto(loc) == mpc' = loc

\* Every location at which main changes one bit of CANIER, the word it stores
\* when it has loaded the word w, and where it goes next.  can_write:
\*   canier.TIE1 = canier.TIE2 = canier.TIE3 = 0  (right to left), later
\*   canier.TIE1 = savedint.TIE1 and the same for TIE2 and TIE3;
\* can_standard_transmit: TIE1 = 0 on an empty ring, TIE1 = 1 with a frame;
\* can_read: RIE = 0, later RIE = savedint.
RmwLocs == {"w_tie3", "w_tie2", "w_tie1", "w_rest1", "w_rest2", "w_rest3",
            "t_off", "t_tie1", "r_mask", "r_rest"}

\* Mutant: can_read does not lock out the receive interrupt.
RmwWord_NoReadMask(loc, w) ==
    CASE loc \in {"w_tie1", "t_off"} -> SetBit(w, "TIE1", FALSE)
      [] loc = "t_tie1"              -> SetBit(w, "TIE1", TRUE)
      [] loc = "w_rest1"             -> SetBit(w, "TIE1", msave)
      [] loc = "r_rest"              -> SetBit(w, "RIE", msave)
      [] OTHER                       -> w

RmwWord(loc, w) ==
    CASE loc \in {"w_tie1", "t_off"} -> SetBit(w, "TIE1", FALSE)
      [] loc = "t_tie1"              -> SetBit(w, "TIE1", TRUE)
      [] loc = "w_rest1"             -> SetBit(w, "TIE1", msave)
      [] loc = "r_mask"              -> SetBit(w, "RIE", FALSE)
      [] loc = "r_rest"              -> SetBit(w, "RIE", msave)
      [] OTHER                       -> w

RmwNext(loc) ==
    CASE loc = "w_tie3"  -> "w_tie2"
      [] loc = "w_tie2"  -> "w_tie1"
      [] loc = "w_tie1"  -> "w_loop"
      [] loc = "w_rest1" -> "w_rest2"
      [] loc = "w_rest2" -> "w_rest3"
      [] loc = "w_rest3" -> "t_head"
      [] loc = "t_tie1"  -> "t_tr"
      [] loc = "r_mask"  -> "r_loop"
      [] OTHER           -> "app"

IerLoad ==
    /\ ipc = "idle" /\ mpc \in RmwLocs /\ ~mrmw
    /\ mld' = ier[mdev] /\ mrmw' = TRUE
    /\ UNCHANGED <<cfgVars, txVars, rxVars, canmod, ier, hwTx, mpc, mdev, mcnt,
                   msave, isrVars, late>>

IerStore ==
    /\ ipc = "idle" /\ mpc \in RmwLocs /\ mrmw
    /\ ier' = [ier EXCEPT ![mdev] = RmwWord(mpc, mld)]
    /\ Goto(RmwNext(mpc))
    /\ mld' = {} /\ mrmw' = FALSE
    /\ UNCHANGED <<cfgVars, txVars, rxVars, canmod, hwTx, mdev, mcnt, msave,
                   isrVars, late>>

\* Entering can_write or can_read: nothing happens on a closed controller.
\* savedint is loaded before the interrupt is disabled.
can_write(d, n) ==
    /\ MainAt("app") /\ d \in TxDevs /\ init[d] /\ nacc[d] + n <= MaxAcc
    /\ mdev' = d /\ mcnt' = n /\ msave' = ("TIE1" \in ier[d])
    /\ Goto("w_tie3")
    /\ UNCHANGED <<cfgVars, txVars, rxVars, canmod, ier, hwTx, mld, mrmw,
                   isrVars, late>>

can_read(d, n) ==
    /\ MainAt("app") /\ d \in RxDevs /\ init[d]
    /\ mdev' = d /\ mcnt' = n /\ msave' = ("RIE" \in ier[d])
    /\ Goto("r_mask")
    /\ UNCHANGED <<cfgVars, txVars, rxVars, canmod, ier, hwTx, mld, mrmw,
                   isrVars, late>>

\* can_write's loop: the test, on the free count computed from the two indices,
WriteTest ==
    /\ MainAt("w_loop")
    /\ Goto(IF mcnt > 0 /\ can_get_free_tx_count(mdev) > 0 THEN "w_put" ELSE "w_rest1")
    /\ UNCHANGED <<cfgVars, txVars, rxVars, canmod, ier, hwTx, mdev, mcnt, msave,
                   mld, mrmw, isrVars, late>>

\* and the body, which publishes the telegram by moving head.
WritePut ==
    /\ MainAt("w_put")
    /\ txring' = [txring EXCEPT ![mdev][tx_head[mdev]] = nacc[mdev] + 1]
    /\ tx_head' = [tx_head EXCEPT ![mdev] = NextIdx(@)]
    /\ nacc' = [nacc EXCEPT ![mdev] = @ + 1]
    /\ mcnt' = mcnt - 1
    /\ Goto("w_loop")
    /\ UNCHANGED <<cfgVars, tx_tail, nout, rxVars, canmod, ier, hwTx, mdev, msave,
                   mld, mrmw, isrVars, late>>

\* Mutant: an empty ring returns at once, with the receive interrupt left off.
AfterReadTest_EarlyReturn ==
    IF rx_tail[mdev] = rx_head[mdev] THEN "app" ELSE IF mcnt > 0 THEN "r_take" ELSE "r_rest"

AfterReadTest ==
    IF mcnt > 0 /\ rx_tail[mdev] # rx_head[mdev] THEN "r_take" ELSE "r_rest"

\* can_read's loop: the test,
ReadTest ==
    /\ MainAt("r_loop")
    /\ Goto(AfterReadTest)
    /\ UNCHANGED <<cfgVars, txVars, rxVars, canmod, ier, hwTx, mdev, mcnt, msave,
                   mld, mrmw, isrVars, late>>

\* and the body.
ReadTake ==
    /\ MainAt("r_take")
    /\ rx_tail' = [rx_tail EXCEPT ![mdev] = NextIdx(@)]
    /\ nread' = [nread EXCEPT ![mdev] = @ + 1]
    /\ mcnt' = mcnt - 1
    /\ Goto("r_loop")
    /\ UNCHANGED <<cfgVars, txVars, rxring, rx_head, nbus, nin, canmod, ier, hwTx,
                   mdev, msave, mld, mrmw, isrVars, late>>

\* can_standard_transmit as can_write runs it, with the transmit interrupt
\* restored: first the test for an empty ring,
TransmitHead ==
    /\ MainAt("t_head")
    /\ Goto(IF tx_head[mdev] = tx_tail[mdev] THEN "t_off" ELSE "t_tbs")
    /\ UNCHANGED <<cfgVars, txVars, rxVars, canmod, ier, hwTx, mdev, mcnt, msave,
                   mld, mrmw, isrVars, late>>

\* Mutant: the buffer is filled without a look at TBS1.
AfterTbs_Untested == "t_fill"

AfterTbs == IF tbs1[mdev] THEN "t_fill" ELSE "app"

\* then the read of TBS1,
TransmitTbs ==
    /\ MainAt("t_tbs")
    /\ Goto(AfterTbs)
    /\ late' = [late EXCEPT ![mdev] = FALSE]
    /\ UNCHANGED <<cfgVars, txVars, rxVars, canmod, ier, hwTx, mdev, mcnt, msave,
                   mld, mrmw, isrVars>>

\* then the frame, STB1 and the tail index,
TransmitFill ==
    /\ MainAt("t_fill")
    /\ LoadTxBuffer(mdev)
    /\ Goto("t_tie1")
    /\ UNCHANGED <<cfgVars, rxVars, canmod, ier, tbs1, ti1, mdev, mcnt, msave,
                   mld, mrmw, isrVars, late>>

\* then TIE1 = 1 (an IerLoad and IerStore at "t_tie1"), and last TR.
TransmitTr ==
    /\ MainAt("t_tr")
    /\ TransmitRequest(mdev)
    /\ Goto("app")
    /\ UNCHANGED <<cfgVars, txVars, rxVars, canmod, ier, ti1, txb, mdev, mcnt,
                   msave, mld, mrmw, isrVars, late>>

\* Mutant: the transmit tail index is forgotten.
EmptyTxRing_NoTail(d) ==
    /\ tx_head' = [tx_head EXCEPT ![d] = 0]
    /\ nacc' = [nacc EXCEPT ![d] = 0] /\ nout' = [nout EXCEPT ![d] = 0]
    /\ UNCHANGED <<txring, tx_tail>>

EmptyTxRing(d) ==
    /\ tx_head' = [tx_head EXCEPT ![d] = 0] /\ tx_tail' = [tx_tail EXCEPT ![d] = 0]
    /\ nacc' = [nacc EXCEPT ![d] = 0] /\ nout' = [nout EXCEPT ![d] = 0]
    /\ UNCHANGED txring

EmptyRxRing(d) ==
    /\ rx_head' = [rx_head EXCEPT ![d] = 0] /\ rx_tail' = [rx_tail EXCEPT ![d] = 0]
    /\ nbus' = [nbus EXCEPT ![d] = 0]
    /\ nin' = [nin EXCEPT ![d] = 0] /\ nread' = [nread EXCEPT ![d] = 0]
    /\ UNCHANGED rxring

\* Mutant: only the transmit interrupt is enabled.
EnableIrqs_NoRie(d) == ier' = [ier EXCEPT ![d] = {"TIE1"}]

EnableIrqs(d) == ier' = [ier EXCEPT ![d] = @ \union {"RIE", "TIE1"}]

\* What can_open and CAN_SET_BAUD_RATE have in common: reset mode, both rings
\* emptied, both interrupts enabled, and out of reset mode again.
Restart(d) ==
    /\ HwAbort(d) /\ EmptyTxRing(d) /\ EmptyRxRing(d) /\ EnableIrqs(d)
    /\ canmod' = [canmod EXCEPT ![d] = LeaveReset(EnterReset(@))]
    /\ UNCHANGED txb

\* can_open: a second call on an open controller changes nothing.  The
\* controller is in reset from before the rings are emptied until the end.
can_open(d) ==
    /\ MainAt("app") /\ d \in AppDevs /\ ~init[d]
    /\ init' = [init EXCEPT ![d] = TRUE] /\ regptr' = [regptr EXCEPT ![d] = TRUE]
    /\ Restart(d)
    /\ UNCHANGED <<mainVars, isrVars, late>>

\* can_close: the power bit and init go; regptr and the registers stay.
can_close(d) ==
    /\ CanClose /\ MainAt("app") /\ d \in AppDevs /\ init[d]
    /\ init' = [init EXCEPT ![d] = FALSE]
    /\ UNCHANGED <<regptr, txVars, rxVars, canmod, ier, hwTx, mainVars, isrVars, late>>

\* can_ioctl(CAN_CLEAR_ERROR_CONDITION): through reset, one interrupt enabled.
ClearError(d, bit) ==
    /\ HwReset(d)
    /\ ier' = [ier EXCEPT ![d] = SetBit(@, bit, TRUE)]
    /\ canmod' = [canmod EXCEPT ![d] = LeaveReset(EnterReset(@))]
    /\ UNCHANGED <<txVars, rxring, rx_head, rx_tail, nin, nread, txb>>

SetMode(d, arg) ==
    /\ canmod' = [canmod EXCEPT ![d] = ModeAfter(@, arg)]
    /\ IF ModeResets(arg) THEN HwReset(d) ELSE UNCHANGED <<tbs1, ti1, nbus>>
    /\ UNCHANGED <<txVars, rxring, rx_head, rx_tail, nin, nread, txb, ier>>

can_ioctl(d, cmd) ==
    /\ MainAt("app") /\ d \in AppDevs /\ init[d] /\ cmd \in Ioctls
    /\ \/ cmd = "SET_BAUD_RATE" /\ Restart(d)
       \/ cmd = "CLEAR_RX_ERROR" /\ ClearError(d, "RIE")
       \/ cmd = "CLEAR_TX_ERROR" /\ ClearError(d, "TIE1")
       \/ cmd \in ModeArgs /\ SetMode(d, cmd)
    /\ UNCHANGED <<cfgVars, mainVars, isrVars, late>>

\* Mutant: interrupts are enabled after the first can_open.
StartupDone_First == \E d \in AppDevs : init[d]

StartupDone == \A d \in AppDevs : init[d]

\* main() opens its controllers, then enables interrupts, once.
enableIRQ ==
    /\ MainAt("app") /\ ~irq /\ StartupDone
    /\ irq' = TRUE
    /\ UNCHANGED <<cfgVars, txVars, rxVars, canmod, ier, hwTx, mainVars, ipc, idev, late>>

-----------------------------------------------------------------------------
HwStep(d) == HwReceive(d) \/ HwTxDone(d)
IsrStep == IsrEnter \/ IsrReceive \/ IsrTransmit
CallStep == \/ IerLoad \/ IerStore
            \/ WriteTest \/ WritePut \/ ReadTest \/ ReadTake
            \/ TransmitHead \/ TransmitTbs \/ TransmitFill \/ TransmitTr
AppCall == \/ enableIRQ
           \/ \E d \in Dev : \/ can_open(d) \/ can_close(d)
                             \/ \E cmd \in IoctlCmds : can_ioctl(d, cmd)
                             \/ \E n \in 1 .. MaxBurst : can_write(d, n) \/ can_read(d, n)

Next == IsrStep \/ CallStep \/ AppCall \/ \E d \in Dev : HwStep(d)

Spec == Init /\ [][Next]_vars

\* The controllers finish frames, the processor executes whatever is running,
\* and an interrupt line that keeps being raised while interrupts are enabled
\* is taken: the VIC delivers it at the next instruction boundary, far sooner
\* than the shortest path of main between two of the calls that mask it.
Fairness ==
    /\ WF_vars(IsrReceive) /\ WF_vars(IsrTransmit) /\ WF_vars(CallStep)
    /\ \A d \in Dev : /\ WF_vars(HwTxDone(d))
                      /\ SF_vars(IsrEnter /\ RI(d)) /\ SF_vars(IsrEnter /\ TI1(d))

FairSpec == Spec /\ Fairness

-----------------------------------------------------------------------------
(***************************************************************************)
(* Properties.                                                             *)
(***************************************************************************)
MainLocs == RmwLocs \union {"app", "w_loop", "w_put", "t_head", "t_tbs",
                             "t_fill", "t_tr", "r_loop", "r_take"}

\* Every variable has its type: ring indices stay inside the arrays, and main
\* and CAN_Handler are always at one of their locations (can.c:53-69).
TypeOK ==
    /\ init \in [Dev -> BOOLEAN] /\ regptr \in [Dev -> BOOLEAN]
    /\ txring \in [Dev -> [Slots -> Nat]] /\ rxring \in [Dev -> [Slots -> Nat]]
    /\ tx_head \in [Dev -> Slots] /\ tx_tail \in [Dev -> Slots]
    /\ rx_head \in [Dev -> Slots] /\ rx_tail \in [Dev -> Slots]
    /\ canmod \in [Dev -> SUBSET ModBits] /\ ier \in [Dev -> SUBSET IerBits]
    /\ tbs1 \in [Dev -> BOOLEAN] /\ ti1 \in [Dev -> BOOLEAN] /\ txb \in [Dev -> Nat]
    /\ mpc \in MainLocs /\ mdev \in Dev /\ mcnt \in Nat /\ msave \in BOOLEAN
    /\ mpc \in {"w_put", "r_take"} => mcnt > 0
    /\ mld \in SUBSET IerBits /\ mrmw \in BOOLEAN
    /\ irq \in BOOLEAN /\ ipc \in {"idle", "ri", "ti"} /\ idev \in Dev
    /\ nacc \in [Dev -> Nat] /\ nout \in [Dev -> Nat] /\ nbus \in [Dev -> Nat]
    /\ nin \in [Dev -> Nat] /\ nread \in [Dev -> Nat] /\ late \in [Dev -> BOOLEAN]

\* The slot i places after tail.
SlotAfter(tail, i) ==
    IF tail + i >= CAN_RING_BUFSIZE THEN tail + i - CAN_RING_BUFSIZE ELSE tail + i

\* Of telegrams numbered from 1, n have left a ring and m have entered it: the
\* ring holds n + 1 .. m, in order from tail to head.
RingHolds(ring, head, tail, n, m) ==
    /\ m = n + Count(head, tail)
    /\ \A i \in Slots : i < Count(head, tail) => ring[SlotAfter(tail, i)] = n + 1 + i

\* What can_write accepted and what can_standard_transmit took out of the ring
\* account for exactly what is in it, in order, and the buffer of a busy
\* controller holds the telegram taken last: no telegram is lost, repeated or
\* reordered although main and CAN_Handler both move tx_tail (can.c:221-273).
TxRingSound ==
    \A d \in Dev :
        /\ RingHolds(txring[d], tx_head[d], tx_tail[d], nout[d], nacc[d])
        /\ ~tbs1[d] => txb[d] = nout[d]

\* The receive ring holds, in order, the telegrams received since the last one
\* read, or since the ring last overflowed and threw away what it held, although
\* CAN_Handler stores while can_read is between its steps (can.c:166-193, 810-854).
RxRingSound ==
    \A d \in Dev : RingHolds(rxring[d], rx_head[d], rx_tail[d], nread[d], nin[d])

\* Whenever main is not inside can_read on it, an open controller has its receive
\* interrupt enabled: no interleaving of the read-modify-writes of CANIER by
\* can_write, can_read, can_ioctl and the handler leaves RIE off (can.c:825-850, 903-932).
RxArmed ==
    \A d \in Dev :
        init[d] /\ (mdev = d => mpc \notin {"r_mask", "r_loop", "r_take", "r_rest"})
            => "RIE" \in ier[d]

\* Between calls, an open controller whose ring is not empty has its transmit
\* interrupt enabled: "If all the data has been transmitted from the ring buffer,
\* disable the transmit interrupt, otherwise (re)enable it" (can.c:207-209).
TxArmed ==
    \A d \in Dev :
        init[d] /\ (mdev = d => mpc = "app") /\ tx_head[d] # tx_tail[d]
            => "TIE1" \in ier[d]

\* CAN_Handler only reads CANICR through register pointers can_open has set
\* (can.c:967-987 dereferences can1cfg.regptr and can2cfg.regptr untested).
NoNullRegs == ipc # "idle" => regptr[idev]

\* The frame in transmit buffer 1 is replaced only while the controller is not
\* transmitting it, although main acts on a TBS1 it read some steps earlier.
NoTxOverwrite == [][\A d \in Dev : nout'[d] > nout[d] => tbs1[d]]_vars

(***************************************************************************)
(* The inductive strengthening of the ring properties: what main has       *)
(* learned at a location still holds there, although CAN_Handler and the   *)
(* controller may have run since.                                          *)
(***************************************************************************)
WriteHasRoom == mpc = "w_put" => can_get_free_tx_count(mdev) > 0

\* If the handler has emptied the ring since main found a telegram in it, then
\* the controller is still busy with that telegram.
TbsNotStale ==
    mpc = "t_tbs" /\ tx_head[mdev] = tx_tail[mdev] => late[mdev] /\ ~tbs1[mdev]

FillHasTelegram == mpc = "t_fill" => tx_head[mdev] # tx_tail[mdev]

\* From the read of TBS1 to TR the buffer is main's: the controller stays idle
\* and the handler finds no TI1.
FillOwnsBuffer ==
    mpc \in {"t_fill", "t_tie1", "t_tr"} =>
        tbs1[mdev] /\ (ipc = "ti" /\ idev = mdev => ~ti1[mdev])

FilledIsLast == mpc \in {"t_tie1", "t_tr"} => txb[mdev] = nout[mdev]

TxLocal == WriteHasRoom /\ TbsNotStale /\ FillHasTelegram /\ FillOwnsBuffer /\ FilledIsLast

RxLocal ==
    /\ mpc \in {"r_loop", "r_take"} => "RIE" \notin ier[mdev]
    /\ mpc = "r_take" => rx_tail[mdev] # rx_head[mdev]

\* TI1 set between the handler's two reads of CANICR means that the controller
\* has just finished a frame, so it is not in reset mode.
IsrLocal == ipc = "ti" /\ ti1[idev] => "RM" \notin canmod[idev]

\* The rings are sound, and everything can_write and can_read have tested still
\* holds when they act on it: free space, a telegram to take, a free transmit
\* buffer, a receive interrupt that stays off (can.c:221-273, 810-939).
RingInv == TxRingSound /\ RxRingSound /\ TxLocal /\ RxLocal /\ IsrLocal

\* A telegram the controller has received is moved to the receive ring, unless
\* the controller is reset or closed first, however often can_read masks RIE.
RxServed ==
    \A d \in Dev : \A k \in 1 .. MaxBus :
        (irq /\ nin[d] < k /\ k <= nbus[d])
            ~> (nin[d] >= k \/ nbus[d] < k \/ ~init[d])

(***************************************************************************)
(* The rings as queues: the contents are read from the ring memory, from   *)
(* the tail index up to the head index.                                    *)
(***************************************************************************)
RingSeq(ring, head, tail) ==
    [i \in 1 .. Count(head, tail) |-> ring[SlotAfter(tail, i - 1)]]

Fifo == INSTANCE CanFifo WITH
    Chan <- Dev,
    Capacity <- CAN_RING_BUFSIZE - 1,
    tq   <- [d \in Dev |-> RingSeq(txring[d], tx_head[d], tx_tail[d])],
    acc  <- nacc,
    wire <- txb,
    rq   <- [d \in Dev |-> RingSeq(rxring[d], rx_head[d], rx_tail[d])],
    rcv  <- nin

\* Each controller's rings and transmit buffer, under every interleaving of main,
\* CAN_Handler and the hardware, implement the two queues of CanFifo: telegrams
\* leave in the order they came, and only an overflow or a flush drops any.
ImplementsFifo == Fifo!FifoSpec

\* Telegrams waiting in the transmit ring are sent without further calls: the
\* transmit interrupt keeps the ring draining ("While there is data to transmit
\* in the ring buffer, write a data value from the ring buffer ...", can.c:202).
TxDrains ==
    \A d \in Dev : (irq /\ tx_head[d] # tx_tail[d])
                      ~> (tx_head[d] = tx_tail[d])

=============================================================================
