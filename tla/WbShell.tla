------------------------------ MODULE WbShell ------------------------------
(***************************************************************************)
(* The Wishbone FPGA shell, one step per rising edge of the system clock:  *)
(* the CPU interface (cpuinterface.vhd), the bus master (wb_master.vhd),   *)
(* the interconnect (Intercon.vhd), the output port (WBO.vhd) and the      *)
(* reset generator (Syscon.vhd), wired as wrapper.vhd and host.vhd wire    *)
(* them.  The entities are under WB_shell/HDL/src; the output port is the  *)
(* one of MAC/WB_shell/HDL/src, the one that is well-formed VHDL.          *)
(*                                                                         *)
(* The processor on the pins is external.  It starts and ends accesses     *)
(* between two clock edges, without a wait line: MinAccess and MinGap, the *)
(* clocks it holds a strobe and pauses between strobes, come from its wait *)
(* state registers (WB_shell/App/platform/framework.c:187-195).            *)
(***************************************************************************)
EXTENDS Integers

CONSTANTS
  AccessAddr,   \* the addresses the processor uses, a subset of Addr
  MinAccess,    \* the least number of clock edges that see a strobe
  MinGap,       \* the least number of clock edges between two strobes
  TimeoutGap,   \* the same after an access that no slave answers
  Recover       \* clocks after a reset before the processor relies on a write

(***************************************************************************)
(* Two registers of the output port, any other address of the port, the    *)
(* address range of an input port that no entity implements, and a range   *)
(* that the interconnect does not decode.                                  *)
(***************************************************************************)
Addr == {"WBO_REG1", "WBO_REG2", "WBO_REST", "WBI", "NONE"}

ASSUME AccessAssumption ==
  /\ AccessAddr \subseteq Addr
  /\ MinAccess \in Nat \ {0}
  /\ MinGap \in Nat \ {0}
  /\ TimeoutGap \in Nat /\ TimeoutGap >= MinGap
  /\ Recover \in Nat \ {0}

(***************************************************************************)
(* One of the sixteen identical bit lanes of the data bus.  Junk is the    *)
(* level of a lane the processor does not drive.                           *)
(***************************************************************************)
Data == {0, 1}
Junk == 2
Unknown == 3

RevisionBit == 1
Timeout == 4

(* Clock edges from the end of a write access to the register update. *)
Latency == 3

(* Clock edges from a read strobe to the addressed slave driving the data bus. *)
ReadLatency == 3

VARIABLES
  cpu,                                       \* the pins: op, adr, dat, n
  Reset, rst_r, rst_o,                       \* Syscon
  A_r, D_r, Wr_r, Wr_rr, Rd_r, A_o, D_o, Rd_o,  \* CpuInterface
  cs_wb_cycle, adr_o, dat_o,                 \* WB_Master
  Timer, Timer_en, err_s,                    \* Intercon
  r1, r2, Q,                                 \* WBO
  want, age, calm, trust, served, busy       \* history, see History

sysVars == <<Reset, rst_r, rst_o>>
cpuIfVars == <<A_r, D_r, Wr_r, Wr_rr, Rd_r, A_o, D_o, Rd_o>>
masterVars == <<cs_wb_cycle, adr_o, dat_o>>
interconVars == <<Timer, Timer_en, err_s>>
wboVars == <<r1, r2, Q>>
histVars == <<want, age, calm, trust, served, busy>>
vars == <<cpu, sysVars, cpuIfVars, masterVars, interconVars, wboVars, histVars>>

CapAt(n, cap) == IF n < cap THEN n ELSE cap

----------------------------------------------------------------------------
(* The wires between the entities. *)

(* Mutant: the strobe is taken at the start of the write, before the latch. *)
WrStrobeAtStart == Wr_r /\ ~Wr_rr

(* The write strobe of the CPU interface: one clock, at the end of a write. *)
Wr_o == Wr_rr /\ ~Wr_r

(***************************************************************************)
(* cyc_o, stb_o and we_o are registered together with the state, from the  *)
(* next state, so they are functions of the state register.                *)
(***************************************************************************)
stb == cs_wb_cycle \in {"wb_write", "wb_read"}
we == cs_wb_cycle = "wb_write"

(* Slave_sel: the slave an address selects; 0 and 2 have no entity attached. *)
SlaveOf(adr) ==
  CASE adr \in {"WBO_REG1", "WBO_REG2", "WBO_REST"} -> 1
    [] adr = "WBI" -> 2
    [] OTHER -> 0

(* The port acknowledges combinationally; slaves 0 and 2 never do. *)
ack == stb /\ SlaveOf(adr_o) = 1

(* What the processor reads: the port's Q, or nothing anyone drives. *)
CpuD_o == IF SlaveOf(adr_o) = 1 THEN Q ELSE Junk

----------------------------------------------------------------------------
(* The edge of each entity. *)

(* rst_o_gen: reset is registered and released one clock late. *)
Syscon ==
  /\ rst_r' = Reset
  /\ rst_o' = (Reset \/ rst_r)

(* ProcCpuSync1 and ProcCpuSync2: two ranks, the second one reset. *)
CpuInterface ==
  /\ A_r' = cpu.adr
  /\ D_r' = IF cpu.op = "wr" THEN cpu.dat ELSE Junk
  /\ Wr_r' = (cpu.op = "wr")
  /\ Wr_rr' = Wr_r
  /\ Rd_r' = (cpu.op = "rd")
  /\ Rd_o' = (~rst_o /\ Rd_r)
  /\ IF rst_o THEN A_o' = "WBI" /\ D_o' = 0
     ELSE IF Wr_r \/ Rd_r THEN A_o' = A_r /\ D_o' = D_r
     ELSE UNCHANGED <<A_o, D_o>>

(* Mutant: a finished read goes back to Idle without waiting for its strobe. *)
NextWithoutWaitEnd ==
  CASE cs_wb_cycle = "Idle" /\ Wr_o /\ ~err_s -> "wb_write"
    [] cs_wb_cycle = "Idle" /\ ~Wr_o /\ Rd_o /\ ~err_s -> "wb_read"
    [] stb /\ ~(ack \/ err_s) -> cs_wb_cycle
    [] OTHER -> "Idle"

(* wb_cycle_state_logic *)
nx_wb_cycle ==
  CASE cs_wb_cycle = "Idle" /\ Wr_o /\ ~err_s -> "wb_write"
    [] cs_wb_cycle = "Idle" /\ ~Wr_o /\ Rd_o /\ ~err_s -> "wb_read"
    [] cs_wb_cycle = "wb_write" /\ ~(ack \/ err_s) -> "wb_write"
    [] cs_wb_cycle = "wb_read" -> IF ack \/ err_s THEN "wait_end" ELSE "wb_read"
    [] cs_wb_cycle = "wait_end" /\ Rd_o -> "wait_end"
    [] OTHER -> "Idle"

(* Mutant: the address is sampled for writes only. *)
MasterIgnoresReadAddress ==
  /\ cs_wb_cycle' = IF rst_o THEN "Idle" ELSE nx_wb_cycle
  /\ adr_o' = IF rst_o THEN "WBI" ELSE IF Wr_o THEN A_o ELSE adr_o
  /\ dat_o' = IF rst_o THEN 0 ELSE IF Wr_o THEN D_o ELSE dat_o

(***************************************************************************)
(* The address is sampled on every clock with a strobe, in every state;    *)
(* the data on every clock with a write strobe.                            *)
(***************************************************************************)
WB_Master ==
  /\ cs_wb_cycle' = IF rst_o THEN "Idle" ELSE nx_wb_cycle
  /\ adr_o' = IF rst_o THEN "WBI" ELSE IF Wr_o \/ Rd_o THEN A_o ELSE adr_o
  /\ dat_o' = IF rst_o THEN 0 ELSE IF Wr_o THEN D_o ELSE dat_o

(* Mutant: the timer is not stopped when it has raised the error. *)
TimerRunsOn ==
  /\ err_s' = (~rst_o /\ (Timer = Timeout - 1 \/ (stb /\ err_s)))
  /\ Timer_en' = (~rst_o /\ ~ack /\ stb /\ (~err_s \/ Timer_en))

(* Mutant: the timer restarts when the master's strobe is seen again. *)
TimeoutRestarts ==
  /\ err_s' = (~rst_o /\ (Timer = Timeout - 1 \/ (stb /\ err_s)))
  /\ Timer_en' = (~rst_o /\ ~Timer_en /\ ~ack /\ stb /\ ~err_s)

(* tmout: the last assignment of the process that applies wins. *)
tmout ==
  /\ err_s' = (~rst_o /\ (Timer = Timeout - 1 \/ (stb /\ err_s)))
  /\ Timer_en' = ( /\ ~rst_o
                   /\ Timer # Timeout - 1
                   /\ ~ack
                   /\ stb
                   /\ (~err_s \/ Timer_en))

tick == Timer' = IF ~rst_o /\ Timer_en THEN (Timer + 1) % 256 ELSE 0

Intercon == tmout /\ tick

Xor(a, b) == (a + b) % 2

(***************************************************************************)
(* Reg: Q takes the registers as they were before the edge that writes     *)
(* them; a reset touches Q alone.                                          *)
(***************************************************************************)
WBO ==
  LET write(adr) == ~rst_o /\ stb /\ we /\ adr_o = adr
  IN  /\ r1' = IF write("WBO_REG1") THEN dat_o ELSE r1
      /\ r2' = IF write("WBO_REG2") THEN dat_o ELSE r2
      /\ Q' = IF rst_o THEN RevisionBit
              ELSE IF write("WBO_REG1") THEN r1
              ELSE IF write("WBO_REG2") THEN Xor(r1, r2)
              ELSE Q

----------------------------------------------------------------------------
(***************************************************************************)
(* The processor's side of the pins, changing after the edge.  cpu.n       *)
(* counts the clock edges that have seen the present pins, the next one    *)
(* included, up to MaxCount.                                               *)
(***************************************************************************)
MaxCount == CHOOSE n \in {MinAccess, TimeoutGap, ReadLatency + 1} :
              n >= MinAccess /\ n >= TimeoutGap /\ n >= ReadLatency + 1

(* A released bus: the address lines keep their level, the data lines float. *)
Released(adr, n) == [op |-> "none", adr |-> adr, dat |-> Junk, n |-> n]

(* The clocks the processor leaves between an access to adr and the next, a *)
(* parameter of the environment: the least for which the shell works.       *)
GapAfter(adr) == IF SlaveOf(adr) = 1 THEN MinGap ELSE TimeoutGap

HoldPins == cpu' = [cpu EXCEPT !.n = CapAt(@ + 1, MaxCount)]

StartRead ==
  /\ cpu.op = "none" /\ cpu.n >= GapAfter(cpu.adr)
  /\ \E adr \in AccessAddr : cpu' = [op |-> "rd", adr |-> adr, dat |-> Junk, n |-> 1]

StartWrite ==
  /\ cpu.op = "none" /\ cpu.n >= GapAfter(cpu.adr)
  /\ \E adr \in AccessAddr, dat \in Data :
       cpu' = [op |-> "wr", adr |-> adr, dat |-> dat, n |-> 1]

EndAccess ==
  /\ cpu.op # "none" /\ cpu.n >= MinAccess
  /\ cpu' = Released(cpu.adr, 1)

----------------------------------------------------------------------------
(***************************************************************************)
(* History, which the hardware does not keep.  want is what the processor  *)
(* last wrote to each register, Unknown from a reset on until a write that *)
(* started at least Recover clocks after it (trust); age the clocks since  *)
(* a write access ended; served whether the present read strobe has        *)
(* started a bus cycle; busy the length so far of the present bus cycle.   *)
(***************************************************************************)
WroteTo(adr) == cpu.op = "wr" /\ cpu'.op = "none" /\ cpu.adr = adr

History ==
  /\ want' = [adr \in {"WBO_REG1", "WBO_REG2"} |->
                IF rst_o \/ (WroteTo(adr) /\ ~trust) THEN Unknown
                ELSE IF WroteTo(adr) THEN cpu.dat
                ELSE want[adr]]
  /\ age' = IF \E adr \in Addr : WroteTo(adr) THEN 0 ELSE CapAt(age + 1, Latency)
  /\ calm' = IF rst_o THEN 0 ELSE CapAt(calm + 1, Recover)
  /\ trust' = ( /\ ~rst_o
                /\ (trust \/ (calm = Recover /\ cpu.op = "none"))
                /\ cpu'.op = "wr")
  /\ served' = (Rd_o' /\ (served \/ (cs_wb_cycle # "wb_read" /\ cs_wb_cycle' = "wb_read")))
  /\ busy' = IF cs_wb_cycle' \in {"wb_write", "wb_read"} THEN CapAt(busy + 1, Timeout + 4) ELSE 0

(* One rising edge of the clock in every entity; the reset button is free. *)
Edge ==
  /\ Syscon /\ CpuInterface /\ WB_Master /\ Intercon /\ WBO /\ History
  /\ Reset' \in BOOLEAN

(* Configuration clears the flip-flops; the port's registers have no reset. *)
Init ==
  /\ cpu = Released("NONE", MaxCount)
  /\ Reset \in BOOLEAN /\ rst_r = FALSE /\ rst_o = FALSE
  /\ A_r = "NONE" /\ D_r = Junk /\ Wr_r = FALSE /\ Wr_rr = FALSE /\ Rd_r = FALSE
  /\ A_o = "WBI" /\ D_o = 0 /\ Rd_o = FALSE
  /\ cs_wb_cycle = "Idle" /\ adr_o = "WBI" /\ dat_o = 0
  /\ Timer = 0 /\ Timer_en = FALSE /\ err_s = FALSE
  /\ r1 \in Data /\ r2 \in Data /\ Q = 0
  /\ want = [adr \in {"WBO_REG1", "WBO_REG2"} |-> Unknown]
  /\ age = Latency /\ calm = 0 /\ trust = FALSE /\ served = FALSE /\ busy = 0

Next ==
  \/ HoldPins /\ Edge
  \/ StartRead /\ Edge
  \/ StartWrite /\ Edge
  \/ EndAccess /\ Edge

Spec == Init /\ [][Next]_vars

----------------------------------------------------------------------------
TypeOK ==
  /\ cpu \in [op : {"none", "rd", "wr"}, adr : Addr, dat : Data \cup {Junk}, n : 1..MaxCount]
  /\ Reset \in BOOLEAN /\ rst_r \in BOOLEAN /\ rst_o \in BOOLEAN
  /\ A_r \in Addr /\ A_o \in Addr /\ adr_o \in Addr
  /\ D_r \in Data \cup {Junk} /\ D_o \in Data \cup {Junk}
  /\ Wr_r \in BOOLEAN /\ Wr_rr \in BOOLEAN /\ Rd_r \in BOOLEAN /\ Rd_o \in BOOLEAN
  /\ cs_wb_cycle \in {"Idle", "wb_write", "wb_read", "wait_end"}
  /\ Timer \in 0..Timeout /\ Timer_en \in BOOLEAN /\ err_s \in BOOLEAN
  /\ dat_o \in Data /\ r1 \in Data /\ r2 \in Data /\ Q \in Data
  /\ want \in [{"WBO_REG1", "WBO_REG2"} -> Data \cup {Unknown}]
  /\ age \in 0..Latency /\ calm \in 0..Recover
  /\ trust \in BOOLEAN /\ served \in BOOLEAN /\ busy \in 0..(Timeout + 4)

(***************************************************************************)
(* Once a write has had Latency clocks to travel through the interface and *)
(* the master, every register of the port holds what the processor wrote   *)
(* to it last: no write is lost behind another cycle or a lingering error, *)
(* and no cycle stores into a register it was not meant for.               *)
(***************************************************************************)
RegistersHoldWrites ==
  age = Latency =>
    /\ want["WBO_REG1"] # Unknown => r1 = want["WBO_REG1"]
    /\ want["WBO_REG2"] # Unknown => r2 = want["WBO_REG2"]

(***************************************************************************)
(* The processor has no wait line: after ReadLatency clocks of a read the  *)
(* data bus carries the slave it addresses, whatever cycle the master was  *)
(* in when the strobe arrived (cpuinterface.vhd, wb_sample_address).       *)
(***************************************************************************)
ReadsTheAddressed ==
  cpu.op = "rd" /\ cpu.n > ReadLatency /\ calm = Recover /\ SlaveOf(cpu.adr) = 1
    => CpuD_o = Q

(***************************************************************************)
(* A read strobe as long as the processor's access starts one bus cycle:   *)
(* wait_end keeps the master from starting the next until it falls.        *)
(***************************************************************************)
OneCyclePerRead ==
  [][cs_wb_cycle # "wb_read" /\ cs_wb_cycle' = "wb_read" => ~served]_vars

(***************************************************************************)
(* No slave can hold the bus: a cycle to an address nobody answers is      *)
(* ended by the interconnect's timeout.                                    *)
(***************************************************************************)
BusIsReleased == busy <= Timeout + 2

(***************************************************************************)
(* "Slave 0 is reserved for dummy addressing, when the address is not      *)
(* valid", Intercon.vhd:127: a register whose last written value is known  *)
(* changes only to that value.                                             *)
(***************************************************************************)
DummyAddressStoresNothing ==
  [][r1' # r1 /\ want["WBO_REG1"] # Unknown => r1' = want["WBO_REG1"]]_vars

=============================================================================
