------------------------------- MODULE CanIoctl ------------------------------
(***************************************************************************)
(* The configuration plane of drivers/can.c for one controller: can_open,  *)
(* can_close and every command of can_ioctl, with the mode register, the   *)
(* bit timing register, the error counters and the controller's own        *)
(* bus-off transition.  Error counters take the values that matter: 0, the *)
(* error warning limit, and the bus-off limit.                             *)
(***************************************************************************)
EXTENDS CanRegs

VARIABLES init,            \* cancfg->init
          mod, btr,        \* CANMOD; CANBTR as a record
          rxerr, txerr, bs, \* CANGSR
          pc,              \* "ready", or "spin" in CAN_FORCE_BUS_OFF's loop
          wantMode, wantBaud, \* history: what the last successful calls set
          busOff           \* history: bus-off since RM was last cleared

vars == <<init, mod, btr, rxerr, txerr, bs, pc, wantMode, wantBaud, busOff>>

EWL == 96
BusOffLimit == 255

Bauds == {"BPS_25K", "BPS_50K", "BPS_125K", "BPS_250K", "BPS_500K", "BPS_1000K"}
BadArg == "bad"

\* CAN_BRP_25K .. CAN_BRP_1000K
BRPOf(baud) ==
    CASE baud = "BPS_25K"  -> 127 [] baud = "BPS_50K"  -> 63
      [] baud = "BPS_125K" -> 25  [] baud = "BPS_250K" -> 12
      [] baud = "BPS_500K" -> 5   [] baud = "BPS_1000K" -> 2

CAN_TSEG1 == 10
\* Mutant: a value that does not fit the four bits of TSEG1.
CAN_TSEG1_TooBig == 16

CAN_TSEG1_1000K == 11
CAN_TSEG2 == 5

Init ==
    /\ init = FALSE /\ mod = {"RM"}
    /\ btr = [BRP |-> 0, TSEG1 |-> 0, TSEG2 |-> 0]
    /\ rxerr = 0 /\ txerr = 0 /\ bs = FALSE
    /\ pc = "ready" /\ wantMode = "MODE_RESET" /\ wantBaud = BadArg /\ busOff = FALSE

Called == init /\ pc = "ready"

-----------------------------------------------------------------------------
\* can_open on a closed controller: error counters and bit timing set in reset.
can_open ==
    /\ ~init /\ pc = "ready"
    /\ init' = TRUE
    /\ rxerr' = 0 /\ txerr' = 0 /\ bs' = FALSE
    /\ btr' = [BRP |-> BRPOf("BPS_125K"), TSEG1 |-> CAN_TSEG1, TSEG2 |-> CAN_TSEG2]
    /\ mod' = LeaveReset(EnterReset(mod)) /\ busOff' = FALSE
    /\ wantMode' = "MODE_OPERATING" /\ wantBaud' = "BPS_125K"
    /\ UNCHANGED pc

can_close ==
    /\ Called
    /\ init' = FALSE
    /\ UNCHANGED <<mod, btr, rxerr, txerr, bs, pc, wantMode, wantBaud, busOff>>

\* CAN_CLEAR_ERROR_CONDITION: one error counter is cleared in reset mode.  There
\* is no default case: a bad argument passes through reset mode all the same,
\* clears nothing and returns _NO_ERROR.
ClearErrorCondition(arg) ==
    /\ Called
    /\ mod' = LeaveReset(EnterReset(mod)) /\ busOff' = FALSE
    /\ rxerr' = IF arg = "RX_ERROR_CONDITION" THEN 0 ELSE rxerr
    /\ txerr' = IF arg = "TX_ERROR_CONDITION" THEN 0 ELSE txerr
    /\ bs' = (bs /\ txerr' = BusOffLimit)
    /\ wantMode' = "MODE_OPERATING"
    /\ UNCHANGED <<init, btr, pc, wantBaud>>

\* CAN_SET_MODE; a bad argument returns SMA_BAD_PARAMS and changes nothing.
SetMode(arg) ==
    /\ Called
    /\ mod' = ModeAfter(mod, arg)
    /\ busOff' = (busOff /\ arg = "MODE_RESET")
    /\ wantMode' = arg
    /\ UNCHANGED <<init, btr, rxerr, txerr, bs, pc, wantBaud>>

\* Mutant: a bad rate also clears the prescaler.
BadRateBtr_Clears == [BRP |-> 0, TSEG1 |-> CAN_TSEG1, TSEG2 |-> CAN_TSEG2]

BadRateBtr == [BRP |-> btr.BRP, TSEG1 |-> CAN_TSEG1, TSEG2 |-> CAN_TSEG2]

\* Mutant: the default sample parameters are not set before those of the rate.
Tseg1For_NoDefault(arg) == IF arg = "BPS_1000K" THEN CAN_TSEG1_1000K ELSE btr.TSEG1

\* The sample parameter of an accepted rate; 1000K has one of its own.
Tseg1For(arg) == IF arg = "BPS_1000K" THEN CAN_TSEG1_1000K ELSE CAN_TSEG1

\* CAN_SET_BAUD_RATE: the sample parameters are set to their defaults first, a
\* bad rate leaves BRP alone, and everything after the switch happens anyway.
SetBaudRate(arg) ==
    /\ Called
    /\ btr' = IF arg = BadArg
              THEN BadRateBtr
              ELSE [BRP |-> BRPOf(arg), TSEG1 |-> Tseg1For(arg), TSEG2 |-> CAN_TSEG2]
    /\ rxerr' = 0 /\ txerr' = 0 /\ bs' = FALSE
    /\ mod' = LeaveReset(EnterReset(mod)) /\ busOff' = FALSE
    /\ wantBaud' = IF arg = BadArg THEN wantBaud ELSE arg
    /\ wantMode' = "MODE_OPERATING"
    /\ UNCHANGED <<init, pc>>

\* Mutant: the error warning limit is written.
ForcedTxErr_Warning == EWL

ForcedTxErr == BusOffLimit

\* CAN_FORCE_BUS_OFF: TXERR = 255, then a loop without a limit on CANGSR.BS.
ForceBusOff ==
    /\ Called
    /\ txerr' = ForcedTxErr /\ pc' = "spin"
    /\ UNCHANGED <<init, mod, btr, rxerr, bs, wantMode, wantBaud, busOff>>

\* The loop ends, TXERR = 0 ("Clear BUS OFF in CAN Controller").
ForceBusOffDone ==
    /\ pc = "spin" /\ bs
    /\ txerr' = 0 /\ bs' = FALSE /\ pc' = "ready"
    /\ UNCHANGED <<init, mod, btr, rxerr, wantMode, wantBaud, busOff>>

\* CAN_GET_STATUS changes nothing; this is what it returns for CAN_BAUD_RATE.
StatusBaud ==
    CASE btr.BRP = 127 -> "BPS_25K"  [] btr.BRP = 63 -> "BPS_50K"
      [] btr.BRP = 25  -> "BPS_125K" [] btr.BRP = 12 -> "BPS_250K"
      [] btr.BRP = 5   -> "BPS_500K" [] btr.BRP = 2  -> "BPS_1000K"
      [] OTHER -> BadArg

-----------------------------------------------------------------------------
\* The controller counts bus errors while it is operating; a listen-only one
\* never transmits.
HwRxError ==
    /\ init /\ "RM" \notin mod /\ rxerr < EWL
    /\ rxerr' = EWL
    /\ UNCHANGED <<init, mod, btr, txerr, bs, pc, wantMode, wantBaud, busOff>>

HwTxError ==
    /\ init /\ mod \intersect {"RM", "LOM"} = {} /\ txerr < BusOffLimit
    /\ txerr' = IF txerr < EWL THEN EWL ELSE BusOffLimit
    /\ UNCHANGED <<init, mod, btr, rxerr, bs, pc, wantMode, wantBaud, busOff>>

\* At the limit it goes bus-off: BS = 1, and it puts itself into reset mode.
HwBusOff ==
    /\ init /\ "RM" \notin mod /\ txerr = BusOffLimit
    /\ bs' = TRUE /\ mod' = mod \union {"RM"} /\ busOff' = TRUE
    /\ UNCHANGED <<init, btr, rxerr, txerr, pc, wantMode, wantBaud>>

Next ==
    \/ can_open \/ can_close \/ ForceBusOff \/ ForceBusOffDone
    \/ \E arg \in {"RX_ERROR_CONDITION", "TX_ERROR_CONDITION", BadArg} : ClearErrorCondition(arg)
    \/ \E arg \in ModeArgs : SetMode(arg)
    \/ \E arg \in Bauds \union {BadArg} : SetBaudRate(arg)
    \/ HwRxError \/ HwTxError \/ HwBusOff

Spec == Init /\ [][Next]_vars

\* The controller reaches bus-off, and the processor executes the loop.
FairSpec == Spec /\ WF_vars(HwBusOff) /\ WF_vars(ForceBusOffDone)

-----------------------------------------------------------------------------
\* Registers and flags have their types (can.c:58-69, can_bitdefs.h).
TypeOK ==
    /\ init \in BOOLEAN /\ bs \in BOOLEAN /\ busOff \in BOOLEAN
    /\ mod \subseteq ModBits /\ pc \in {"ready", "spin"}
    /\ btr.BRP \in 0 .. 1023 /\ btr.TSEG1 \in 0 .. 15 /\ btr.TSEG2 \in 0 .. 7
    /\ rxerr \in {0, EWL} /\ txerr \in {0, EWL, BusOffLimit}
    /\ wantMode \in ModeArgs /\ wantBaud \in Bauds \union {BadArg}

\* CAN_GET_STATUS(CAN_BAUD_RATE) names the rate last set successfully, also
\* after a rejected rate has rewritten the sample parameters (can.c:584-654, 701-733).
BaudReadback == init => StatusBaud = wantBaud

\* An open controller is in reset mode only if MODE_RESET was the last mode asked
\* for or it has gone bus-off since: every path of can_ioctl that enters reset
\* mode for another reason leaves it again (can.c:526-582, 653).
ResetOnlyOnRequest == init /\ "RM" \in mod => wantMode = "MODE_RESET" \/ busOff

\* CAN_FORCE_BUS_OFF called on a controller that is not in reset mode returns;
\* its loop has no other way out than BS (can.c:666-678).
BusOffReturns == (pc = "spin" /\ "RM" \notin mod) ~> (pc = "ready")

\* A controller stays in self-test, listen-only or reset mode, and in no other,
\* until a call that should end it, whatever order modes are set, errors cleared
\* and rates changed in.  The way back is not covered: MODE_OPERATING clears RM
\* only, so TM or LOM outlives it (can.c:547-582).
ModeInForce ==
    (init /\ ~busOff) =>
        /\ wantMode = "MODE_SELF_TEST" => mod = {"TM"}
        /\ wantMode = "MODE_LISTEN_ONLY" => mod = {"LOM"}
        /\ wantMode = "MODE_RESET" => mod = {"RM"}

\* Time quanta in a bit, and clocks of the peripheral in a bit, by the formula of
\* can.c:99.  The clock itself is the platform's choice and is left out.
Quanta(tseg1, tseg2) == tseg1 + 1 + 1 + tseg2 + 1
BitClocks == (btr.BRP + 1) * Quanta(btr.TSEG1, btr.TSEG2)

\* Two nodes that report the same rate have bits of the same length, on whatever
\* clock and after whatever rates, good and bad, either has been given: nothing of
\* a rate that was left stays behind.  1000K alone may have two lengths: a rejected
\* rate replaces its sample parameters by those of the slower rates while the
\* status goes on saying 1000K, and the bit loses one of its 19 quanta (can.c:584-655).
SameRateSameBit ==
    init => LET clocks(tseg1) == (BRPOf(StatusBaud) + 1) * Quanta(tseg1, CAN_TSEG2)
            IN  \/ BitClocks = clocks(CAN_TSEG1)
                \/ StatusBaud = "BPS_1000K" /\ BitClocks = clocks(CAN_TSEG1_1000K)

=============================================================================
