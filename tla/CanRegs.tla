------------------------------- MODULE CanRegs -------------------------------
(***************************************************************************)
(* The parts of the LPC2478 CAN register block that the driver's logic     *)
(* depends on (drivers/can.c, drivers/can_bitdefs.h).  A register is the   *)
(* set of its named bits that are 1; a C bit-field assignment loads the    *)
(* word, changes one bit and stores the word.                              *)
(***************************************************************************)
EXTENDS Integers

\* The two controllers the driver is compiled for (can1cfg, can2cfg).
Dev == {1, 2}

\* CANIER: the enable bits the driver ever sets.  TIE2 and TIE3 are only
\* copied and cleared, they are never 1.
IerBits == {"RIE", "TIE1"}

\* CANMOD: reset mode, listen-only mode, test mode.
ModBits == {"RM", "LOM", "TM"}

\* reg.bit = v
SetBit(reg, bit, v) == IF v THEN reg \union {bit} ELSE reg \ {bit}

\* canmod.RM = 1.  The controller clears the other mode bits, as can_ioctl's
\* comment "Reset mode, clears other bits in register to default" relies on.
EnterReset(mod) == {"RM"}

\* Mutant: reset mode is not left.
LeaveReset_Forgotten(mod) == mod

\* canmod.RM = 0: a read-modify-write, the other bits keep their value.
LeaveReset(mod) == SetBit(mod, "RM", FALSE)

(***************************************************************************)
(* The mode register after can_ioctl(CAN_SET_MODE, arg), write by write.   *)
(***************************************************************************)
ModeArgs == {"MODE_SELF_TEST", "MODE_LISTEN_ONLY", "MODE_OPERATING", "MODE_RESET"}

\* Mutant: self-test mode is set without a reset before it.
ModeAfter_NoReset(mod, arg) ==
    CASE arg = "MODE_SELF_TEST"   -> SetBit(LeaveReset(mod), "TM", TRUE)
      [] arg = "MODE_LISTEN_ONLY" -> LeaveReset(SetBit(EnterReset(mod), "LOM", TRUE))
      [] arg = "MODE_OPERATING"   -> LeaveReset(mod)
      [] arg = "MODE_RESET"       -> EnterReset(mod)

ModeAfter(mod, arg) ==
    CASE arg = "MODE_SELF_TEST"   -> SetBit(LeaveReset(EnterReset(mod)), "TM", TRUE)
      [] arg = "MODE_LISTEN_ONLY" -> LeaveReset(SetBit(EnterReset(mod), "LOM", TRUE))
      [] arg = "MODE_OPERATING"   -> LeaveReset(mod)
      [] arg = "MODE_RESET"       -> EnterReset(mod)

\* Does that sequence of writes pass through reset mode?
ModeResets(arg) == arg # "MODE_OPERATING"

=============================================================================
