--------------------------- MODULE CanIoctlProofs ---------------------------
(***************************************************************************)
(* Theorems about the configuration plane of drivers/can.c, for sequences  *)
(* of can_ioctl calls, bus errors and bus-off of any length.               *)
(***************************************************************************)
EXTENDS CanIoctl, TLAPS

\* The registers as a whole, and the flags.
RegistersOK ==
    /\ mod \subseteq ModBits /\ pc \in {"ready", "spin"}
    /\ btr \in [BRP : 0 .. 1023, TSEG1 : 0 .. 15, TSEG2 : 0 .. 7]
    /\ rxerr \in {0, EWL} /\ txerr \in {0, EWL, BusOffLimit}
    /\ wantMode \in ModeArgs /\ wantBaud \in Bauds \union {BadArg}
FlagsOK == init \in BOOLEAN /\ bs \in BOOLEAN /\ busOff \in BOOLEAN

(* Each rate has a prescaler that fits its field. *)
LEMMA BRPType == \A baud \in Bauds : BRPOf(baud) \in 0 .. 1023
  BY DEF Bauds, BRPOf

(* The mode register only ever holds its three bits. *)
LEMMA ModeType ==
  ASSUME NEW m, m \subseteq ModBits, NEW arg \in ModeArgs
  PROVE  /\ LeaveReset(EnterReset(m)) \subseteq ModBits
         /\ ModeAfter(m, arg) \subseteq ModBits
  BY DEF LeaveReset, EnterReset, SetBit, ModeAfter, ModeArgs, ModBits

(* Every step keeps the registers in their types. *)
LEMMA RegistersStep == RegistersOK /\ FlagsOK /\ [Next]_vars => RegistersOK' /\ FlagsOK'
<1> SUFFICES ASSUME RegistersOK, FlagsOK, [Next]_vars PROVE RegistersOK' /\ FlagsOK'
  OBVIOUS
<1>c. /\ CAN_TSEG1 \in 0 .. 15 /\ CAN_TSEG1_1000K \in 0 .. 15 /\ CAN_TSEG2 \in 0 .. 7
      /\ "BPS_125K" \in Bauds
  BY DEF CAN_TSEG1, CAN_TSEG1_1000K, CAN_TSEG2, Bauds
<1>m. /\ "MODE_OPERATING" \in ModeArgs
      /\ LeaveReset(EnterReset(mod)) \subseteq ModBits
      /\ \A arg \in ModeArgs : ModeAfter(mod, arg) \subseteq ModBits
  BY ModeType DEF RegistersOK, ModeArgs
<1>1. CASE can_open
  <2>1. RegistersOK'
    BY <1>1, <1>c, <1>m, BRPType DEF can_open, RegistersOK
  <2>2. FlagsOK'
    BY <1>1 DEF can_open, FlagsOK
  <2> QED BY <2>1, <2>2
<1>2. CASE can_close
  <2>1. RegistersOK'
    BY <1>2 DEF can_close, RegistersOK
  <2>2. FlagsOK'
    BY <1>2 DEF can_close, FlagsOK
  <2> QED BY <2>1, <2>2
<1>3. ASSUME NEW arg, ClearErrorCondition(arg) PROVE RegistersOK' /\ FlagsOK'
  <2>1. RegistersOK'
    BY <1>3, <1>m DEF ClearErrorCondition, RegistersOK
  <2>2. FlagsOK'
    BY <1>3 DEF ClearErrorCondition, FlagsOK
  <2> QED BY <2>1, <2>2
<1>4. ASSUME NEW arg \in ModeArgs, SetMode(arg) PROVE RegistersOK' /\ FlagsOK'
  <2>1. RegistersOK'
    BY <1>4, <1>m DEF SetMode, RegistersOK
  <2>2. FlagsOK'
    BY <1>4 DEF SetMode, FlagsOK
  <2> QED BY <2>1, <2>2
<1>5. ASSUME NEW arg \in Bauds \union {BadArg}, SetBaudRate(arg) PROVE RegistersOK' /\ FlagsOK'
  <2>1. btr' \in [BRP : 0 .. 1023, TSEG1 : 0 .. 15, TSEG2 : 0 .. 7]
    <3>1. CASE arg = BadArg
      <4>1. btr.BRP \in 0 .. 1023
        BY DEF RegistersOK
      <4> QED
        BY <1>5, <1>c, <3>1, <4>1 DEF SetBaudRate, BadRateBtr
    <3>2. CASE arg \in Bauds /\ arg # BadArg
      <4>1. Tseg1For(arg) \in 0 .. 15 /\ BRPOf(arg) \in 0 .. 1023
        BY <1>c, <3>2, BRPType DEF Tseg1For
      <4> QED
        BY <1>5, <1>c, <3>2, <4>1 DEF SetBaudRate
    <3> QED BY <3>1, <3>2
  <2>2. RegistersOK'
    BY <1>5, <1>m, <2>1 DEF SetBaudRate, RegistersOK
  <2>3. FlagsOK'
    BY <1>5 DEF SetBaudRate, FlagsOK
  <2> QED BY <2>2, <2>3
<1>6. CASE ForceBusOff \/ ForceBusOffDone
  <2>1. RegistersOK'
    BY <1>6 DEF ForceBusOff, ForceBusOffDone, ForcedTxErr, RegistersOK
  <2>2. FlagsOK'
    BY <1>6 DEF ForceBusOff, ForceBusOffDone, FlagsOK
  <2> QED BY <2>1, <2>2
<1>7. CASE HwRxError \/ HwTxError \/ HwBusOff
  <2>1. RegistersOK'
    <3>0. mod' = mod \/ mod' = mod \union {"RM"}
      BY <1>7 DEF HwRxError, HwTxError, HwBusOff
    <3>a. mod \subseteq ModBits /\ "RM" \in ModBits
      BY DEF RegistersOK, ModBits
    <3>1. mod' \subseteq ModBits
      BY <3>0, <3>a
    <3>2. rxerr' \in {0, EWL} /\ txerr' \in {0, EWL, BusOffLimit}
      BY <1>7 DEF HwRxError, HwTxError, HwBusOff, RegistersOK
    <3> QED
      BY <1>7, <3>1, <3>2 DEF HwRxError, HwTxError, HwBusOff, RegistersOK
  <2>2. FlagsOK'
    BY <1>7 DEF HwRxError, HwTxError, HwBusOff, FlagsOK
  <2> QED BY <2>1, <2>2
<1>8. CASE UNCHANGED vars
  BY <1>8 DEF vars, RegistersOK, FlagsOK
<1> QED
  BY <1>1, <1>2, <1>3, <1>4, <1>5, <1>6, <1>7, <1>8 DEF Next

(* Registers and flags of the controller after reset. *)
LEMMA RegistersInit == Init => RegistersOK /\ FlagsOK
<1> SUFFICES ASSUME Init PROVE RegistersOK /\ FlagsOK
  OBVIOUS
<1>1. RegistersOK
  BY DEF Init, RegistersOK, ModBits, ModeArgs
<1>2. FlagsOK
  BY DEF Init, FlagsOK
<1> QED
  BY <1>1, <1>2

(***************************************************************************)
(* Mode, bit timing and error counters keep to the fields of their         *)
(* registers, whatever can_ioctl is called with.                           *)
(***************************************************************************)
THEOREM TypeCorrect == Spec => []TypeOK
<1>1. RegistersOK /\ FlagsOK => TypeOK
  BY DEF RegistersOK, FlagsOK, TypeOK
<1> QED
  BY <1>1, RegistersInit, RegistersStep, PTL DEF Spec

-----------------------------------------------------------------------------
(* An open controller has the prescaler of the rate last set successfully. *)
BaudInv == init => wantBaud \in Bauds /\ btr.BRP = BRPOf(wantBaud)

(* The status call reads a rate back from its prescaler. *)
LEMMA BaudInvImplies == BaudInv => BaudReadback
  BY DEF BaudInv, BaudReadback, StatusBaud, BRPOf, Bauds

(* Only can_open and a good rate change the prescaler. *)
LEMMA BaudStep == RegistersOK /\ BaudInv /\ [Next]_vars => BaudInv'
<1> SUFFICES ASSUME RegistersOK, BaudInv, [Next]_vars PROVE BaudInv'
  OBVIOUS
<1>0. "BPS_125K" \in Bauds /\ BadArg \notin Bauds
  BY DEF Bauds, BadArg
<1>1. CASE can_open
  BY <1>0, <1>1 DEF can_open, BaudInv
<1>2. ASSUME NEW arg \in Bauds \union {BadArg}, SetBaudRate(arg) PROVE BaudInv'
  <2>1. CASE arg = BadArg
    \* The sample parameters are overwritten, the prescaler is not.
    BY <1>2, <2>1 DEF SetBaudRate, BadRateBtr, BaudInv, Called, RegistersOK
  <2>2. CASE arg # BadArg
    BY <1>2, <2>2 DEF SetBaudRate, BaudInv
  <2> QED BY <2>1, <2>2
<1>3. ASSUME UNCHANGED <<btr, wantBaud>>, init' => init PROVE BaudInv'
  BY <1>3 DEF BaudInv
<1>4. CASE can_close
  BY <1>3, <1>4 DEF can_close
<1>5. ASSUME NEW arg, ClearErrorCondition(arg) \/ SetMode(arg) PROVE BaudInv'
  BY <1>3, <1>5 DEF ClearErrorCondition, SetMode
<1>6. CASE ForceBusOff \/ ForceBusOffDone \/ HwRxError \/ HwTxError \/ HwBusOff
  BY <1>3, <1>6 DEF ForceBusOff, ForceBusOffDone, HwRxError, HwTxError, HwBusOff
<1>7. CASE UNCHANGED vars
  BY <1>3, <1>7 DEF vars
<1> QED
  BY <1>1, <1>2, <1>4, <1>5, <1>6, <1>7 DEF Next

(***************************************************************************)
(* CAN_GET_STATUS names the rate last set, also after a rejected one.      *)
(***************************************************************************)
THEOREM BaudReadBack == Spec => []BaudReadback
<1>1. Init => BaudInv
  BY DEF Init, BaudInv
<1> QED
  BY <1>1, BaudInvImplies, BaudStep, RegistersInit, RegistersStep, PTL DEF Spec

-----------------------------------------------------------------------------
(***************************************************************************)
(* The mode bits of an open controller, by the mode last asked for: a      *)
(* controller that has gone bus-off is in reset mode on top of it.         *)
(***************************************************************************)
ModeInv ==
    init => /\ wantMode = "MODE_SELF_TEST" => mod \ {"RM"} = {"TM"}
            /\ wantMode = "MODE_LISTEN_ONLY" => mod \ {"RM"} = {"LOM"}
            /\ wantMode = "MODE_RESET" => mod = {"RM"}
            /\ "RM" \in mod => wantMode = "MODE_RESET" \/ busOff

(* Unless it is bus-off, the mode is the one asked for; reset mode has a reason. *)
LEMMA ModeInvImplies == ModeInv => ModeInForce /\ ResetOnlyOnRequest
<1> SUFFICES ASSUME ModeInv PROVE ModeInForce /\ ResetOnlyOnRequest
  OBVIOUS
<1>1. ResetOnlyOnRequest
  BY DEF ModeInv, ResetOnlyOnRequest
<1>2. ASSUME init, ~busOff
      PROVE  /\ wantMode = "MODE_SELF_TEST" => mod = {"TM"}
             /\ wantMode = "MODE_LISTEN_ONLY" => mod = {"LOM"}
             /\ wantMode = "MODE_RESET" => mod = {"RM"}
  BY <1>2 DEF ModeInv
<1> QED
  BY <1>1, <1>2 DEF ModeInForce

(* Every command that passes through reset mode leaves it again. *)
LEMMA ModeStep == ModeInv /\ [Next]_vars => ModeInv'
<1> SUFFICES ASSUME ModeInv, [Next]_vars PROVE ModeInv'
  OBVIOUS
<1>1. LeaveReset(EnterReset(mod)) = {}
  BY DEF LeaveReset, EnterReset, SetBit
<1>2. ASSUME mod' = {}, wantMode' = "MODE_OPERATING" PROVE ModeInv'
  BY <1>2 DEF ModeInv
<1>3. CASE can_open
  BY <1>1, <1>2, <1>3 DEF can_open
<1>4. ASSUME NEW arg, ClearErrorCondition(arg) \/ SetBaudRate(arg) PROVE ModeInv'
  BY <1>1, <1>2, <1>4 DEF ClearErrorCondition, SetBaudRate
<1>5. ASSUME NEW arg \in ModeArgs, SetMode(arg) PROVE ModeInv'
  <2>1. mod' = ModeAfter(mod, arg) /\ wantMode' = arg
    BY <1>5 DEF SetMode
  <2>2. CASE arg = "MODE_OPERATING"
    BY <2>1, <2>2 DEF ModeAfter, LeaveReset, SetBit, ModeInv
  <2>3. CASE arg = "MODE_RESET"
    BY <2>1, <2>3 DEF ModeAfter, EnterReset, ModeInv
  <2>4. CASE arg = "MODE_SELF_TEST"
    <3>1. mod' = {"TM"}
      BY <1>1, <2>1, <2>4 DEF ModeAfter, SetBit
    <3> QED
      BY <2>1, <2>4, <3>1 DEF ModeInv
  <2>5. CASE arg = "MODE_LISTEN_ONLY"
    <3>1. mod' = {"LOM"}
      BY <2>1, <2>5 DEF ModeAfter, SetBit, LeaveReset, EnterReset
    <3> QED
      BY <2>1, <2>5, <3>1 DEF ModeInv
  <2> QED
    BY <2>2, <2>3, <2>4, <2>5 DEF ModeArgs
<1>6. CASE HwBusOff
  BY <1>6 DEF HwBusOff, ModeInv
<1>7. ASSUME UNCHANGED <<mod, wantMode, busOff>>, init' => init PROVE ModeInv'
  BY <1>7 DEF ModeInv
<1>8. CASE can_close \/ ForceBusOff \/ ForceBusOffDone \/ HwRxError \/ HwTxError
  BY <1>7, <1>8 DEF can_close, ForceBusOff, ForceBusOffDone, HwRxError, HwTxError
<1>9. CASE UNCHANGED vars
  BY <1>7, <1>9 DEF vars
<1> QED
  BY <1>3, <1>4, <1>5, <1>6, <1>8, <1>9 DEF Next

(* ModeInv holds of every state. *)
LEMMA ModeAlways == Spec => []ModeInv
<1>1. Init => ModeInv
  BY DEF Init, ModeInv
<1> QED
  BY <1>1, ModeStep, PTL DEF Spec

(***************************************************************************)
(* An open controller is in reset mode only on request or after bus-off:   *)
(* every command that needs reset mode for itself leaves it again.         *)
(***************************************************************************)
THEOREM ModeSound == Spec => []ResetOnlyOnRequest
  BY ModeAlways, ModeInvImplies, PTL

(***************************************************************************)
(* A special mode that was set is the one in force, in whatever order      *)
(* modes are set, errors cleared and rates changed.                        *)
(***************************************************************************)
THEOREM ModeStays == Spec => []ModeInForce
  BY ModeAlways, ModeInvImplies, PTL

-----------------------------------------------------------------------------
(***************************************************************************)
(* The bit timing of an open controller: the prescaler of the rate last    *)
(* set, and sample parameters that only 1000K may have of its own.         *)
(***************************************************************************)
TimingInv ==
    init => /\ wantBaud \in Bauds /\ btr.BRP = BRPOf(wantBaud)
            /\ btr.TSEG2 = CAN_TSEG2
            /\ \/ btr.TSEG1 = CAN_TSEG1
               \/ btr.TSEG1 = CAN_TSEG1_1000K /\ wantBaud = "BPS_1000K"

(* A rejected rate puts the sample parameters back to their defaults. *)
LEMMA TimingStep == TimingInv /\ [Next]_vars => TimingInv'
<1> SUFFICES ASSUME TimingInv, [Next]_vars PROVE TimingInv'
  OBVIOUS
<1>0. "BPS_125K" \in Bauds /\ BadArg \notin Bauds
  BY DEF Bauds, BadArg
<1>1. CASE can_open
  BY <1>0, <1>1 DEF can_open, TimingInv
<1>2. ASSUME NEW arg \in Bauds \union {BadArg}, SetBaudRate(arg) PROVE TimingInv'
  <2>1. CASE arg = BadArg
    <3>1. /\ btr' = [BRP |-> btr.BRP, TSEG1 |-> CAN_TSEG1, TSEG2 |-> CAN_TSEG2]
          /\ wantBaud' = wantBaud /\ init
      BY <1>2, <2>1 DEF SetBaudRate, BadRateBtr, Called
    <3>2. btr'.BRP = btr.BRP /\ btr'.TSEG1 = CAN_TSEG1 /\ btr'.TSEG2 = CAN_TSEG2
      BY <3>1
    <3> QED
      BY <3>1, <3>2 DEF TimingInv
  <2>2. CASE arg # BadArg
    <3>1. /\ wantBaud' = arg /\ arg \in Bauds
          /\ btr'.BRP = BRPOf(arg) /\ btr'.TSEG2 = CAN_TSEG2 /\ btr'.TSEG1 = Tseg1For(arg)
      BY <1>2, <2>2 DEF SetBaudRate
    <3> QED
      BY <3>1 DEF TimingInv, Tseg1For
  <2> QED BY <2>1, <2>2
<1>3. ASSUME UNCHANGED <<btr, wantBaud>>, init' => init PROVE TimingInv'
  BY <1>3 DEF TimingInv
<1>4. CASE can_close
  BY <1>3, <1>4 DEF can_close
<1>5. ASSUME NEW arg, ClearErrorCondition(arg) \/ SetMode(arg) PROVE TimingInv'
  BY <1>3, <1>5 DEF ClearErrorCondition, SetMode
<1>6. CASE ForceBusOff \/ ForceBusOffDone \/ HwRxError \/ HwTxError \/ HwBusOff
  BY <1>3, <1>6 DEF ForceBusOff, ForceBusOffDone, HwRxError, HwTxError, HwBusOff
<1>7. CASE UNCHANGED vars
  BY <1>3, <1>7 DEF vars
<1> QED
  BY <1>1, <1>2, <1>4, <1>5, <1>6, <1>7 DEF Next

(* A bit has the length its rate and the sample parameters give it. *)
LEMMA TimingImplies == TimingInv => SameRateSameBit
<1> SUFFICES ASSUME TimingInv, init
             PROVE  \/ BitClocks = (BRPOf(StatusBaud) + 1) * Quanta(CAN_TSEG1, CAN_TSEG2)
                    \/ /\ StatusBaud = "BPS_1000K"
                       /\ BitClocks = (BRPOf(StatusBaud) + 1) * Quanta(CAN_TSEG1_1000K, CAN_TSEG2)
  BY DEF SameRateSameBit
<1>1. BaudReadback
  BY BaudInvImplies DEF TimingInv, BaudInv
<1>2. StatusBaud = wantBaud
  BY <1>1 DEF BaudReadback
<1> QED
  BY <1>2 DEF TimingInv, BitClocks

(***************************************************************************)
(* The length of a bit follows from the rate CAN_GET_STATUS names, in      *)
(* every order of good and rejected rates; only 1000K has two lengths.     *)
(***************************************************************************)
THEOREM BitFollowsRate == Spec => []SameRateSameBit
<1>1. Init => TimingInv
  BY DEF Init, TimingInv
<1> QED
  BY <1>1, TimingImplies, TimingStep, PTL DEF Spec
=============================================================================
