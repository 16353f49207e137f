--------------------------- MODULE WbShellProofs ---------------------------
(***************************************************************************)
(* Theorems about the Wishbone shell for every set of addresses: the type, *)
(* the timeout and one cycle per read for every timing of the processor,   *)
(* and that writes and reads arrive, for every timing that is not too fast *)
(* for the shell.                                                          *)
(***************************************************************************)
EXTENDS WbShell, TLAPS

(***************************************************************************)
(* The part of the type that is about the processor's pins.                *)
(***************************************************************************)
CpuType ==
  cpu \in [op : {"none", "rd", "wr"}, adr : Addr, dat : Data \cup {Junk}, n : 1..MaxCount]

DrivenWhenWriting == cpu.op = "wr" => cpu.dat \in Data

(* MaxCount is a positive number whatever the timing. *)
LEMMA CountBound == MaxCount \in Nat /\ MaxCount >= 1
  BY AccessAssumption DEF MaxCount, ReadLatency

(* The processor drives the data bus for the whole of a write access. *)
LEMMA PinsStep ==
  ASSUME CpuType, DrivenWhenWriting, HoldPins \/ StartRead \/ StartWrite \/ EndAccess
  PROVE  CpuType' /\ DrivenWhenWriting'
<1>1. CASE HoldPins
  <2>1. CapAt(cpu.n + 1, MaxCount) \in 1..MaxCount
    BY CountBound DEF CpuType, CapAt
  <2>2. QED BY <1>1, <2>1 DEF HoldPins, CpuType, DrivenWhenWriting
<1>2. CASE StartRead
  BY <1>2, CountBound, AccessAssumption DEF StartRead, CpuType, DrivenWhenWriting
<1>3. CASE StartWrite
  BY <1>3, CountBound, AccessAssumption DEF StartWrite, CpuType, DrivenWhenWriting
<1>4. CASE EndAccess
  BY <1>4, CountBound DEF EndAccess, Released, CpuType, DrivenWhenWriting, Addr
<1>5. QED BY <1>1, <1>2, <1>3, <1>4

----------------------------------------------------------------------------
(***************************************************************************)
(* The type of the shell is not inductive: the master samples the data of  *)
(* the second rank on a write strobe, so the ranks must carry driven data  *)
(* behind a write; and the timer stays below its limit only because it     *)
(* runs at most while a cycle without an error does, as busy counts.       *)
(***************************************************************************)
DataFollowsWrite ==
  /\ DrivenWhenWriting
  /\ Wr_r => D_r \in Data
  /\ Wr_rr => D_o \in Data

TimerFollowsCycle ==
  /\ ~stb => busy = 0 /\ ~Timer_en
  /\ err_s => ~Timer_en
  /\ Timer_en => busy = Timer + 2
  /\ stb => busy >= 1
  /\ stb /\ ~Timer_en /\ ~err_s => busy = 1
  /\ err_s => busy <= Timeout + 2
  /\ Timer = Timeout => err_s
  /\ Timer_en => Timer < Timeout

IInv == TypeOK /\ DataFollowsWrite /\ TimerFollowsCycle

(* Configuration leaves the shell in the invariant. *)
LEMMA InitIInv == Init => IInv
<1> SUFFICES ASSUME Init PROVE IInv
  OBVIOUS
<1>1. CpuType /\ DrivenWhenWriting
  BY CountBound DEF Init, Released, CpuType, DrivenWhenWriting, Addr, Junk
<1>2. want \in [{"WBO_REG1", "WBO_REG2"} -> Data \cup {Unknown}]
  BY DEF Init
<1>3. /\ Reset \in BOOLEAN /\ rst_r \in BOOLEAN /\ rst_o \in BOOLEAN
      /\ Wr_r \in BOOLEAN /\ Wr_rr \in BOOLEAN /\ Rd_r \in BOOLEAN /\ Rd_o \in BOOLEAN
      /\ Timer_en \in BOOLEAN /\ err_s \in BOOLEAN
      /\ trust \in BOOLEAN /\ served \in BOOLEAN
  BY Zenon DEF Init
<1>4. /\ A_r \in Addr /\ A_o \in Addr /\ adr_o \in Addr
      /\ D_r \in Data \cup {Junk} /\ D_o \in Data \cup {Junk}
      /\ cs_wb_cycle \in {"Idle", "wb_write", "wb_read", "wait_end"}
      /\ dat_o \in Data /\ r1 \in Data /\ r2 \in Data /\ Q \in Data
  BY DEF Init, Addr, Data
<1>5. /\ Timer \in 0..Timeout /\ age \in 0..Latency /\ calm \in 0..Recover
      /\ busy \in 0..(Timeout + 4)
  BY AccessAssumption DEF Init, Latency, Timeout
<1>6. TypeOK
  BY <1>1, <1>2, <1>3, <1>4, <1>5 DEF TypeOK, CpuType
<1>7. DataFollowsWrite
  BY <1>1 DEF Init, DataFollowsWrite
<1>8. TimerFollowsCycle
  BY DEF Init, TimerFollowsCycle, Timeout, stb
<1>9. QED BY <1>7, <1>8, <1>6 DEF IInv

(* The CPU interface hands the master driven data with every write strobe. *)
LEMMA CpuInterfaceStep ==
  ASSUME TypeOK, DataFollowsWrite, CpuInterface
  PROVE  /\ A_r' \in Addr /\ A_o' \in Addr
         /\ D_r' \in Data \cup {Junk} /\ D_o' \in Data \cup {Junk}
         /\ Wr_r' \in BOOLEAN /\ Wr_rr' \in BOOLEAN /\ Rd_r' \in BOOLEAN /\ Rd_o' \in BOOLEAN
         /\ Wr_r' => D_r' \in Data
         /\ Wr_rr' => D_o' \in Data
<1>1. /\ Wr_r' \in BOOLEAN /\ Wr_rr' \in BOOLEAN /\ Rd_r' \in BOOLEAN /\ Rd_o' \in BOOLEAN
  BY Zenon DEF TypeOK, CpuInterface
<1>2. A_r' \in Addr /\ (Wr_r' => D_r' \in Data) /\ D_r' \in Data \cup {Junk}
  BY DEF TypeOK, DataFollowsWrite, DrivenWhenWriting, CpuInterface
<1>3. A_o' \in Addr /\ D_o' \in Data \cup {Junk}
  BY DEF TypeOK, CpuInterface, Addr, Data
<1>4. Wr_rr' => D_o' \in Data
  BY DEF TypeOK, DataFollowsWrite, CpuInterface, Data
<1>5. QED BY <1>1, <1>2, <1>3, <1>4

(* The state machine has four states, and what it sends was driven. *)
LEMMA MasterStep ==
  ASSUME TypeOK, DataFollowsWrite, WB_Master
  PROVE  /\ cs_wb_cycle' \in {"Idle", "wb_write", "wb_read", "wait_end"}
         /\ adr_o' \in Addr /\ dat_o' \in Data
  BY DEF TypeOK, DataFollowsWrite, WB_Master, nx_wb_cycle, Wr_o, Addr, Data

(* A register of the port takes a driven bit, and so does Q. *)
LEMMA PortStep ==
  ASSUME TypeOK, WBO
  PROVE  r1' \in Data /\ r2' \in Data /\ Q' \in Data
  BY DEF TypeOK, WBO, Xor, Data, RevisionBit

(***************************************************************************)
(* A cycle goes on only while nobody has answered and no error is raised,  *)
(* and the timer that raises it counts with busy.                          *)
(***************************************************************************)
LEMMA TimerStep ==
  ASSUME TypeOK, TimerFollowsCycle, WB_Master, Intercon,
         busy' = IF cs_wb_cycle' \in {"wb_write", "wb_read"} THEN CapAt(busy + 1, Timeout + 4) ELSE 0
  PROVE  /\ Timer' \in 0..Timeout /\ Timer_en' \in BOOLEAN /\ err_s' \in BOOLEAN
         /\ busy' \in 0..(Timeout + 4)
         /\ TimerFollowsCycle'
<1>1. /\ Timer' \in 0..Timeout /\ Timer_en' \in BOOLEAN /\ err_s' \in BOOLEAN
      /\ busy' \in 0..(Timeout + 4)
  BY DEF TypeOK, TimerFollowsCycle, Intercon, tmout, tick, CapAt, Timeout, stb
<1>2. CASE rst_o
  BY <1>1, <1>2 DEF TypeOK, TimerFollowsCycle, WB_Master, Intercon, tmout, tick, CapAt, Timeout, stb
<1>3. CASE ~rst_o /\ ~stb
  BY <1>1, <1>3 DEF TypeOK, TimerFollowsCycle, WB_Master, nx_wb_cycle, Intercon, tmout, tick,
                    CapAt, Timeout, stb
<1>4. CASE ~rst_o /\ stb /\ (ack \/ err_s)
  BY <1>1, <1>4 DEF TypeOK, TimerFollowsCycle, WB_Master, nx_wb_cycle, Intercon, tmout, tick,
                    CapAt, Timeout, stb
<1>5. CASE ~rst_o /\ stb /\ ~ack /\ ~err_s
  <2>1. stb' /\ cs_wb_cycle' \in {"wb_write", "wb_read"}
    BY <1>5 DEF WB_Master, nx_wb_cycle, stb
  <2>2. busy' = CapAt(busy + 1, Timeout + 4)
    BY <2>1
  <2>3. CASE Timer = Timeout - 1
    <3>1. err_s' /\ ~Timer_en'
      BY <1>5, <2>3 DEF Intercon, tmout
    <3>2. busy \in 1..(Timeout + 1)
      BY <1>5, <2>3 DEF TypeOK, TimerFollowsCycle, Timeout
    <3>3. busy' \in 1..(Timeout + 2)
      BY <2>2, <3>2 DEF CapAt, Timeout
    <3>4. QED BY <1>1, <2>1, <3>1, <3>3 DEF TimerFollowsCycle, Timeout
  <2>4. CASE Timer # Timeout - 1 /\ Timer_en
    <3>1. ~err_s' /\ Timer_en' /\ Timer' = Timer + 1
      BY <1>5, <2>4 DEF TypeOK, Intercon, tmout, tick, Timeout
    <3>2. busy = Timer + 2 /\ Timer \in 0..(Timeout - 2)
      BY <2>4 DEF TypeOK, TimerFollowsCycle, Timeout
    <3>3. busy' = Timer' + 2 /\ Timer' < Timeout /\ Timer' \in Nat
      BY <2>2, <3>1, <3>2 DEF CapAt, Timeout
    <3>4. QED BY <1>1, <2>1, <3>1, <3>3 DEF TimerFollowsCycle, Timeout
  <2>5. CASE Timer # Timeout - 1 /\ ~Timer_en
    <3>1. ~err_s' /\ Timer_en' /\ Timer' = 0
      BY <1>5, <2>5 DEF Intercon, tmout, tick
    <3>2. busy' = 2
      BY <1>5, <2>2, <2>5 DEF TimerFollowsCycle, CapAt, Timeout
    <3>3. QED BY <1>1, <2>1, <3>1, <3>2 DEF TimerFollowsCycle, Timeout
  <2>6. QED BY <2>3, <2>4, <2>5
<1>6. QED BY <1>1, <1>2, <1>3, <1>4, <1>5 DEF TypeOK

(* The history variables stay in their type. *)
LEMMA HistoryStep ==
  ASSUME TypeOK, DrivenWhenWriting, CpuInterface, History
  PROVE  /\ want' \in [{"WBO_REG1", "WBO_REG2"} -> Data \cup {Unknown}]
         /\ age' \in 0..Latency /\ calm' \in 0..Recover
         /\ trust' \in BOOLEAN /\ served' \in BOOLEAN
<1>1. \A adr \in {"WBO_REG1", "WBO_REG2"} : WroteTo(adr) => cpu.dat \in Data
  BY DEF DrivenWhenWriting, WroteTo
<1>2. want' \in [{"WBO_REG1", "WBO_REG2"} -> Data \cup {Unknown}]
  <2> HIDE DEF WroteTo
  <2>1. QED BY <1>1 DEF TypeOK, History
<1>3. age' \in 0..Latency /\ calm' \in 0..Recover
  <2> DEFINE ended == \E adr \in Addr : WroteTo(adr)
  <2>1. age' = (IF ended THEN 0 ELSE CapAt(age + 1, Latency))
    BY DEF History
  <2> HIDE DEF ended
  <2>2. QED BY <2>1, AccessAssumption DEF TypeOK, History, CapAt, Latency
<1>4. trust' \in BOOLEAN /\ served' \in BOOLEAN
  BY Zenon DEF TypeOK, History
<1>5. QED BY <1>2, <1>3, <1>4

(* Every edge keeps the invariant. *)
LEMMA NextIInv == IInv /\ [Next]_vars => IInv'
<1> SUFFICES ASSUME IInv, [Next]_vars PROVE IInv'
  OBVIOUS
<1>1. CASE Next
  <2>1. (HoldPins \/ StartRead \/ StartWrite \/ EndAccess) /\ Edge
    BY <1>1 DEF Next
  <2>2. CpuType' /\ DrivenWhenWriting'
    BY <2>1, PinsStep DEF IInv, TypeOK, CpuType, DataFollowsWrite
  <2>3. Reset' \in BOOLEAN /\ rst_r' \in BOOLEAN /\ rst_o' \in BOOLEAN
    BY <2>1, Zenon DEF IInv, TypeOK, Edge, Syscon
  <2>4. CpuInterface /\ WB_Master /\ Intercon /\ WBO /\ History
    BY <2>1 DEF Edge
  <2>5. TimerFollowsCycle' /\ Timer' \in 0..Timeout /\ Timer_en' \in BOOLEAN
        /\ err_s' \in BOOLEAN /\ busy' \in 0..(Timeout + 4)
    BY <2>4, TimerStep DEF IInv, History
  <2>6. TypeOK'
    BY <2>2, <2>3, <2>4, <2>5, CpuInterfaceStep, MasterStep, PortStep, HistoryStep
    DEF IInv, TypeOK, CpuType, DataFollowsWrite
  <2>7. DataFollowsWrite'
    BY <2>2, <2>4, CpuInterfaceStep DEF IInv, DataFollowsWrite
  <2>8. QED BY <2>5, <2>6, <2>7 DEF IInv
<1>2. CASE UNCHANGED vars
  <2>1. TypeOK' /\ DataFollowsWrite'
    BY <1>2 DEF vars, sysVars, cpuIfVars, masterVars, interconVars, wboVars, histVars,
                IInv, TypeOK, DataFollowsWrite, DrivenWhenWriting
  <2>2. TimerFollowsCycle'
    BY <1>2 DEF vars, masterVars, interconVars, histVars, IInv, TimerFollowsCycle, stb
  <2>3. QED BY <2>1, <2>2 DEF IInv
<1>3. QED BY <1>1, <1>2

(***************************************************************************)
(* Type correctness: whatever the processor does on the pins, only bits it *)
(* drove reach the port's registers, and the timer of Intercon.vhd never   *)
(* passes its limit.                                                       *)
(***************************************************************************)
THEOREM TypeCorrect == Spec => []TypeOK
<1>1. IInv => TypeOK
  BY DEF IInv
<1>2. QED BY InitIInv, NextIInv, <1>1, PTL DEF Spec

(***************************************************************************)
(* The interconnect's timeout: no bus cycle is longer than Timeout + 2     *)
(* clocks, at any timing of the processor, across resets and when a second *)
(* strobe changes the address of the cycle under way.                      *)
(***************************************************************************)
THEOREM BusReleased == Spec => []BusIsReleased
<1>1. IInv => BusIsReleased
  BY DEF IInv, TypeOK, TimerFollowsCycle, BusIsReleased, Timeout
<1>2. QED BY InitIInv, NextIInv, <1>1, PTL DEF Spec

----------------------------------------------------------------------------
(***************************************************************************)
(* A read strobe that has started its bus cycle leaves the master in that  *)
(* cycle or waiting for the strobe to fall.                                *)
(***************************************************************************)
ServedWaits == served => Rd_o /\ cs_wb_cycle \in {"wb_read", "wait_end"}

(* Only a reset or the end of the strobe takes the master out of wait_end. *)
LEMMA ServedStep == ServedWaits /\ [Next]_vars => ServedWaits'
<1> SUFFICES ASSUME ServedWaits, [Next]_vars PROVE ServedWaits'
  OBVIOUS
<1>1. CASE Next
  <2>1. CpuInterface /\ WB_Master /\ History
    BY <1>1 DEF Next, Edge
  <2>2. SUFFICES ASSUME served' PROVE Rd_o' /\ cs_wb_cycle' \in {"wb_read", "wait_end"}
    BY DEF ServedWaits
  <2>3. Rd_o' /\ (served \/ cs_wb_cycle' = "wb_read")
    BY <2>1, <2>2 DEF History
  <2>4. ~rst_o
    BY <2>1, <2>3 DEF CpuInterface
  <2>5. served => cs_wb_cycle' \in {"wb_read", "wait_end"}
    BY <2>1, <2>4 DEF WB_Master, nx_wb_cycle, ServedWaits
  <2>6. QED BY <2>3, <2>5
<1>2. CASE UNCHANGED vars
  BY <1>2 DEF vars, cpuIfVars, masterVars, histVars, ServedWaits
<1>3. QED BY <1>1, <1>2

(***************************************************************************)
(* The wait_end state of wb_master.vhd: one read strobe, however long the  *)
(* processor holds it, starts one bus cycle.                               *)
(***************************************************************************)
THEOREM ReadOnce == Spec => OneCyclePerRead
<1>1. Init => ServedWaits
  BY DEF Init, ServedWaits
<1>2. ServedWaits /\ [Next]_vars
      => [cs_wb_cycle # "wb_read" /\ cs_wb_cycle' = "wb_read" => ~served]_vars
  <2> SUFFICES ASSUME ServedWaits, Next, cs_wb_cycle # "wb_read", cs_wb_cycle' = "wb_read"
               PROVE  ~served
    OBVIOUS
  <2>1. WB_Master
    BY DEF Next, Edge
  <2>2. cs_wb_cycle = "Idle"
    BY <2>1 DEF WB_Master, nx_wb_cycle
  <2>3. QED BY <2>2 DEF ServedWaits
<1>3. QED BY ServedStep, <1>1, <1>2, PTL DEF Spec, OneCyclePerRead

----------------------------------------------------------------------------
(***************************************************************************)
(* The timing under which the shell keeps up with a processor that does    *)
(* not wait for it: a strobe of three clocks, five clocks of pause after   *)
(* an access nobody answers, three clocks of recovery after a reset.  The  *)
(* pause after an answered access is at least one clock.                   *)
(***************************************************************************)
Timed == MinAccess >= 3 /\ TimeoutGap >= 5 /\ Recover >= 3

Answered(adr) == SlaveOf(adr) = 1

(* The three ways the pins go from one clock to the next. *)
Held ==
  /\ cpu'.op = cpu.op /\ cpu'.adr = cpu.adr /\ cpu'.dat = cpu.dat
  /\ cpu'.n = cpu.n + 1 \/ (cpu'.n = cpu.n /\ cpu.n >= 5)
Started ==
  /\ cpu.op = "none" /\ cpu'.op \in {"rd", "wr"} /\ cpu'.n = 1
  /\ cpu.n >= 5 \/ Answered(cpu.adr)
Ended ==
  /\ cpu.op \in {"rd", "wr"} /\ cpu.n >= 3
  /\ cpu'.op = "none" /\ cpu'.n = 1 /\ cpu'.adr = cpu.adr

(* The pins as the rest of the argument sees them. *)
LEMMA PinsMove ==
  ASSUME Timed, CpuType, HoldPins \/ StartRead \/ StartWrite \/ EndAccess
  PROVE  /\ Held \/ Started \/ Ended
         /\ cpu.n \in Nat /\ cpu.n >= 1 /\ cpu.op \in {"none", "rd", "wr"} /\ cpu.adr \in Addr
<1>1. MaxCount \in Nat /\ MaxCount >= 5
  BY AccessAssumption DEF MaxCount, ReadLatency, Timed
<1>2. cpu.n \in 1 .. MaxCount /\ cpu.op \in {"none", "rd", "wr"} /\ cpu.adr \in Addr
  BY DEF CpuType
<1>3. CASE HoldPins
  <2>1. /\ cpu'.op = cpu.op /\ cpu'.adr = cpu.adr /\ cpu'.dat = cpu.dat
        /\ cpu'.n = CapAt(cpu.n + 1, MaxCount)
    BY <1>3 DEF HoldPins, CpuType
  <2> QED
    BY <1>1, <1>2, <2>1 DEF CapAt, Held
<1>4. CASE StartRead \/ StartWrite
  <2>1. cpu.op = "none" /\ cpu.n >= GapAfter(cpu.adr) /\ cpu'.op \in {"rd", "wr"} /\ cpu'.n = 1
    BY <1>4 DEF StartRead, StartWrite
  <2>2. Answered(cpu.adr) \/ cpu.n >= 5
    BY <1>2, <2>1, AccessAssumption DEF GapAfter, Answered, Timed
  <2> QED
    BY <1>1, <1>2, <2>1, <2>2 DEF Started
<1>5. CASE EndAccess
  <2>1. /\ cpu.op # "none" /\ cpu.n >= MinAccess
        /\ cpu'.op = "none" /\ cpu'.adr = cpu.adr /\ cpu'.n = 1
    BY <1>5 DEF EndAccess, Released
  <2>2. cpu.n >= 3
    BY <1>1, <1>2, <2>1, AccessAssumption DEF Timed
  <2> QED
    BY <1>1, <1>2, <2>1, <2>2 DEF Ended
<1> QED
  BY <1>1, <1>2, <1>3, <1>4, <1>5

(***************************************************************************)
(* What the two ranks of the CPU interface hold of the accesses: the first *)
(* one is a clock behind the pins and the second one two, so that the      *)
(* strobes of an access reach into the pause and the clock after it.       *)
(***************************************************************************)
Ranks ==
  /\ cpu.op = "wr" => (Wr_r <=> cpu.n >= 2) /\ ~Rd_r
  /\ cpu.op = "rd" => (Rd_r <=> cpu.n >= 2) /\ ~Wr_r
  /\ cpu.op = "none" => IF cpu.n = 1 THEN Wr_r <=> ~Rd_r ELSE ~Wr_r /\ ~Rd_r
  /\ cpu.op # "none" /\ cpu.n = 2 => ~Wr_rr /\ ~Rd_o
  /\ (cpu.op = "wr" /\ cpu.n >= 3) \/ (cpu.op = "none" /\ cpu.n = 1 /\ Wr_r) => Wr_rr
  /\ (cpu.op = "rd" /\ cpu.n >= 3) \/ (cpu.op = "none" /\ cpu.n = 1 /\ Rd_r)
       => ~Wr_rr /\ (calm >= 1 => Rd_o)
  /\ cpu.op = "none" /\ cpu.n >= 3 => ~Wr_rr /\ ~Rd_o
  /\ ~(Wr_rr /\ Rd_o)

(* A strobe carries the address of its access, but for a reset. *)
Addresses ==
  /\ IF cpu.op = "none" THEN cpu.n = 1 => A_r = cpu.adr ELSE cpu.n >= 2 => A_r = cpu.adr
  /\ calm >= 1 =>
       /\ IF cpu.op = "none" THEN cpu.n <= 2 => A_o = cpu.adr ELSE cpu.n >= 3 => A_o = cpu.adr
       /\ cpu.op # "none" /\ cpu.n = 1 /\ (Wr_rr \/ Rd_o) => Answered(A_o)
  /\ calm >= 2 /\ cpu.op = "rd" /\ cpu.n >= 4 => adr_o = cpu.adr

(* How age, the clocks since a write ended, goes with the pins and ranks. *)
Ages ==
  /\ cpu.op = "none" => age >= cpu.n - 1 \/ age = Latency
  /\ cpu.op # "none" => age >= cpu.n \/ age = Latency
  /\ age = 0 <=> Wr_r /\ cpu.op = "none"
  /\ age = 1 <=> Wr_o

(* calm is 0 after a clock of reset and counts from there. *)
LEMMA CalmMove ==
  ASSUME Timed, TypeOK, History
  PROVE  /\ calm \in Nat /\ calm' \in Nat /\ Recover \in Nat /\ Recover >= 3
         /\ rst_o => calm' = 0
         /\ ~rst_o => calm' >= 1 /\ calm' >= calm /\ (calm' = calm + 1 \/ calm = Recover)
         /\ ~rst_o /\ calm = Recover => calm' = Recover
<1>1. Recover \in Nat /\ Recover >= 3 /\ calm \in 0 .. Recover
  BY AccessAssumption DEF Timed, TypeOK
<1>2. calm' = IF rst_o THEN 0 ELSE CapAt(calm + 1, Recover)
  BY DEF History
<1> QED
  BY <1>1, <1>2 DEF CapAt

(* The ranks follow the pins. *)
LEMMA RanksStep ==
  ASSUME TypeOK, Ranks, Timed, History, CpuInterface, Held \/ Started \/ Ended,
         cpu.n \in Nat, cpu.n >= 1, cpu.op \in {"none", "rd", "wr"}
  PROVE  Ranks'
<1>1. /\ Wr_r' <=> cpu.op = "wr"
      /\ Rd_r' <=> cpu.op = "rd"
      /\ Wr_rr' <=> Wr_r
      /\ Rd_o' <=> ~rst_o /\ Rd_r
  BY DEF CpuInterface, TypeOK
<1>2. rst_o => calm' = 0
  BY CalmMove
<1>3. calm' \in Nat
  BY CalmMove
<1>4. CASE Held
  BY <1>1, <1>2, <1>3, <1>4 DEF Ranks, Held
<1>5. CASE Started
  BY <1>1, <1>2, <1>3, <1>5 DEF Ranks, Started
<1>6. CASE Ended
  BY <1>1, <1>2, <1>3, <1>6 DEF Ranks, Ended
<1> QED
  BY <1>4, <1>5, <1>6

(* So do the addresses they hold. *)
LEMMA AddressesStep ==
  ASSUME TypeOK, Ranks, Addresses, Timed, History, CpuInterface, WB_Master,
         Held \/ Started \/ Ended, cpu.n \in Nat, cpu.n >= 1, cpu.op \in {"none", "rd", "wr"}
  PROVE  Addresses'
<1>1. /\ A_r' = cpu.adr
      /\ Wr_rr' <=> Wr_r
      /\ Rd_o' <=> ~rst_o /\ Rd_r
  BY DEF CpuInterface, TypeOK
<1>2. /\ calm \in Nat /\ calm' \in Nat
      /\ rst_o => calm' = 0
      /\ calm' >= 2 => calm >= 1
  BY CalmMove
<1>3. ~rst_o /\ (Wr_r \/ Rd_r) => A_o' = A_r
  BY DEF CpuInterface
<1>4. ~rst_o /\ Rd_o => adr_o' = A_o
  BY DEF WB_Master
<1>5. CASE Held
  BY <1>1, <1>2, <1>3, <1>4, <1>5 DEF Ranks, Addresses, Held
<1>6. CASE Started
  BY <1>1, <1>2, <1>3, <1>6 DEF Ranks, Addresses, Started
<1>7. CASE Ended
  BY <1>1, <1>2, <1>3, <1>7 DEF Ranks, Addresses, Ended
<1> QED
  BY <1>5, <1>6, <1>7

(* A write starts to age when it ends. *)
LEMMA AgeMove ==
  ASSUME TypeOK, History, cpu.adr \in Addr
  PROVE  /\ age \in 0 .. 3
         /\ age' = IF cpu.op = "wr" /\ cpu'.op = "none" THEN 0
                   ELSE IF age < 3 THEN age + 1 ELSE 3
<1>1. age \in 0 .. 3
  BY DEF TypeOK, Latency
<1>2. (\E adr \in Addr : WroteTo(adr)) <=> cpu.op = "wr" /\ cpu'.op = "none"
  BY DEF WroteTo
<1>3. age' = IF \E adr \in Addr : WroteTo(adr) THEN 0 ELSE CapAt(age + 1, Latency)
  BY DEF History
<1>4. CapAt(age + 1, Latency) = IF age < 3 THEN age + 1 ELSE 3
  BY <1>1 DEF CapAt, Latency
<1> QED
  BY <1>1, <1>2, <1>3, <1>4

(* age is 1 exactly on the clock of the write strobe. *)
LEMMA AgesStep ==
  ASSUME TypeOK, Ranks, Ages, History, CpuInterface,
         Held \/ Started \/ Ended, cpu.n \in Nat, cpu.n >= 1, cpu.op \in {"none", "rd", "wr"},
         cpu.adr \in Addr
  PROVE  Ages'
<1>1. /\ Wr_r' <=> cpu.op = "wr"
      /\ Wr_rr' <=> Wr_r
  BY DEF CpuInterface, TypeOK
<1>2. /\ age \in 0 .. 3
      /\ age' = IF cpu.op = "wr" /\ cpu'.op = "none" THEN 0
                ELSE IF age < 3 THEN age + 1 ELSE 3
  BY AgeMove
<1>3. CASE Held
  BY <1>1, <1>2, <1>3 DEF Ranks, Ages, Wr_o, Latency, Held
<1>4. CASE Started
  BY <1>1, <1>2, <1>4 DEF Ranks, Ages, Wr_o, Latency, Started
<1>5. CASE Ended
  BY <1>1, <1>2, <1>5 DEF Ranks, Ages, Wr_o, Latency, Ended
<1> QED
  BY <1>3, <1>4, <1>5
----------------------------------------------------------------------------
(***************************************************************************)
(* Rest bounds the clocks until the master is idle and the interconnect    *)
(* raises no error, if no strobe comes.  A cycle nobody answers runs into  *)
(* the timeout; an answered one may still leave a timer that raises a late *)
(* error, when the address changed under it.                               *)
(***************************************************************************)
Rest ==
  IF stb THEN IF ack THEN 3 ELSE 8 - busy
  ELSE IF Timer = Timeout - 1 THEN 2
  ELSE IF err_s \/ cs_wb_cycle = "wait_end" THEN 1 ELSE 0

(* Rest is at most 7, and 0 only for an idle master without an error. *)
LEMMA RestBounds ==
  IInv => /\ Rest \in 0 .. 7
          /\ Rest = 0 => cs_wb_cycle = "Idle" /\ ~err_s
          /\ cs_wb_cycle = "wb_write" /\ Rest <= 2 => err_s
<1> SUFFICES ASSUME IInv
             PROVE  /\ Rest \in 0 .. 7
                    /\ Rest = 0 => cs_wb_cycle = "Idle" /\ ~err_s
                    /\ cs_wb_cycle = "wb_write" /\ Rest <= 2 => err_s
  OBVIOUS
<1>1. CASE stb
  <2>1. busy \in 1 .. 6
    BY <1>1 DEF IInv, TypeOK, TimerFollowsCycle, Timeout
  <2>2. stb /\ busy = 6 => err_s
    BY DEF IInv, TypeOK, TimerFollowsCycle, Timeout
  <2> QED
    BY <1>1, <2>1, <2>2 DEF Rest, stb
<1>2. CASE ~stb
  BY <1>2 DEF Rest, IInv, TypeOK, stb
<1> QED
  BY <1>1, <1>2

(* A reset stops the cycle, the timer and the error. *)
LEMMA RestReset ==
  ASSUME rst_o, WB_Master, Intercon
  PROVE  Rest' = 0
<1>1. cs_wb_cycle' = "Idle" /\ ~err_s' /\ Timer' = 0
  BY DEF WB_Master, Intercon, tmout, tick
<1> QED
  BY <1>1 DEF Rest, stb, Timeout

(* Without a strobe the master is a clock nearer to its rest. *)
LEMMA RestFalls ==
  ASSUME IInv, IInv', ~rst_o, ~Wr_o, ~Rd_o, WB_Master, Intercon, History
  PROVE  Rest' <= Rest - 1 \/ Rest' = 0
<1>1. adr_o' = adr_o /\ cs_wb_cycle' = nx_wb_cycle
  BY DEF WB_Master
<1>2. Rest \in 0 .. 7 /\ Rest' \in 0 .. 7
  <2>1. Rest \in 0 .. 7
    BY RestBounds
  <2>2. (Rest \in 0 .. 7)'
    BY RestBounds, PTL
  <2> QED
    BY <2>1, <2>2
<1>3. CASE ~stb
  <2>1. cs_wb_cycle' = "Idle" /\ Timer' = 0 /\ (err_s' => Timer = Timeout - 1)
    BY <1>1, <1>3 DEF IInv, TypeOK, TimerFollowsCycle, nx_wb_cycle, Intercon, tmout, tick, stb
  <2> QED
    BY <1>3, <2>1 DEF Rest, stb, Timeout
<1>4. CASE stb /\ (ack \/ err_s)
  <2>1. ~stb'
    BY <1>1, <1>4 DEF nx_wb_cycle, stb
  <2>2. Rest' <= 2
    BY <2>1 DEF Rest
  <2>3. CASE ack
    BY <1>4, <2>2, <2>3 DEF Rest
  <2>4. CASE ~ack
    <3>1. Timer' = 0
      BY <1>4, <2>4 DEF IInv, TypeOK, TimerFollowsCycle, Intercon, tick
    <3>2. Rest' <= 1
      BY <2>1, <3>1 DEF Rest, Timeout
    <3>3. Rest >= 2
      BY <1>4, <2>4 DEF Rest, IInv, TypeOK, TimerFollowsCycle, Timeout
    <3> QED
      BY <1>2, <3>2, <3>3
  <2> QED
    BY <2>3, <2>4
<1>5. CASE stb /\ ~ack /\ ~err_s
  <2>1. cs_wb_cycle' = cs_wb_cycle
    BY <1>1, <1>5 DEF nx_wb_cycle, stb
  <2>2. stb' /\ ~ack'
    BY <1>1, <1>5, <2>1 DEF stb, ack
  <2>3. busy' = busy + 1
    BY <1>5, <2>1, <2>2 DEF History, CapAt, IInv, TypeOK, TimerFollowsCycle, Timeout, stb
  <2>4. Rest' = 8 - busy' /\ Rest = 8 - busy /\ busy \in Nat
    BY <1>5, <2>2 DEF Rest, IInv, TypeOK, Timeout
  <2> QED
    BY <2>3, <2>4
<1> QED
  BY <1>3, <1>4, <1>5

(* A strobe for a slave that answers leaves at most a short cycle. *)
LEMMA RestAnswered ==
  ASSUME IInv, ~rst_o, Wr_o \/ Rd_o, Answered(A_o), WB_Master
  PROVE  Rest' <= 3
<1>1. adr_o' = A_o
  BY DEF WB_Master
<1>2. stb' => ack'
  BY <1>1 DEF ack, Answered
<1> QED
  BY <1>2 DEF Rest
----------------------------------------------------------------------------
(***************************************************************************)
(* The master comes to rest in time.  In a pause no strobe is left after   *)
(* two clocks, so five clocks suffice for the longest cycle.  A shorter    *)
(* pause follows an answered access only, whose cycle is short; what a     *)
(* reset lets through, a cycle to the reset value of the address, is as    *)
(* old as the reset.                                                       *)
(***************************************************************************)
Resting ==
  /\ calm = 0 => Rest = 0
  /\ cpu.op = "none" /\ cpu.n >= 4 => Rest <= 6
  /\ cpu.op = "none" /\ cpu.n >= 5 => Rest <= 5
  /\ (cpu.op # "none" /\ cpu.n <= 3) \/ Answered(cpu.adr)
       => Rest <= 5 \/ (calm <= 2 /\ Rest <= 8 - calm)

(* Where the strobes of an access may be. *)
LEMMA StrobePlaces ==
  ASSUME TypeOK, Ranks, Wr_o \/ Rd_o, cpu.n \in Nat, cpu.n >= 1, cpu.op \in {"none", "rd", "wr"}
  PROVE  \/ cpu.op = "none" /\ cpu.n <= 2
         \/ cpu.op # "none" /\ cpu.n = 1
         \/ cpu.op = "rd" /\ cpu.n >= 3 /\ ~Wr_o
  BY DEF Ranks, Wr_o

(* What an edge does to Rest. *)
LEMMA RestMove ==
  ASSUME IInv, IInv', WB_Master, Intercon, History
  PROVE  /\ Rest \in 0 .. 7 /\ Rest' \in 0 .. 7
         /\ rst_o => Rest' = 0
         /\ ~rst_o /\ ~(Wr_o \/ Rd_o) => Rest' <= Rest - 1 \/ Rest' = 0
         /\ ~rst_o /\ (Wr_o \/ Rd_o) /\ Answered(A_o) => Rest' <= 3
<1>1. (Rest \in 0 .. 7)'
  BY RestBounds, PTL
<1> QED
  BY <1>1, RestBounds, RestReset, RestFalls, RestAnswered

(* Every edge keeps the bounds on Rest. *)
LEMMA RestingStep ==
  ASSUME IInv, IInv', Ranks, Addresses, Resting, Timed, WB_Master, Intercon, History,
         Held \/ Started \/ Ended, cpu.n \in Nat, cpu.n >= 1, cpu.op \in {"none", "rd", "wr"}
  PROVE  Resting'
<1>0. TypeOK
  BY DEF IInv
<1>1. /\ calm \in Nat /\ calm' \in Nat
      /\ rst_o => calm' = 0
      /\ ~rst_o => calm' >= 1 /\ calm' >= calm /\ (calm' = calm + 1 \/ calm >= 3)
  BY <1>0, CalmMove
<1> DEFINE strobe == Wr_o \/ Rd_o
<1>2. /\ Rest \in 0 .. 7 /\ Rest' \in 0 .. 7
      /\ rst_o => Rest' = 0
      /\ ~rst_o /\ ~strobe => Rest' <= Rest - 1 \/ Rest' = 0
      /\ ~rst_o /\ strobe /\ Answered(A_o) => Rest' <= 3
  BY RestMove
<1>3. strobe => \/ cpu.op = "none" /\ cpu.n <= 2
                \/ cpu.op # "none" /\ cpu.n = 1
                \/ cpu.op = "rd" /\ cpu.n >= 3
  BY <1>0, StrobePlaces
<1>4. /\ calm >= 1 /\ strobe /\ cpu.op # "none" /\ cpu.n = 1 => Answered(A_o)
      /\ calm >= 1 /\ strobe /\ Answered(cpu.adr) => Answered(A_o)
  BY <1>3, <1>1 DEF Addresses, Wr_o
<1> HIDE DEF strobe
<1>5. (calm = 0 => Rest = 0)'
  BY <1>1, <1>2
<1>6. ASSUME ~rst_o, calm >= 1, ~strobe \/ Answered(A_o),
             Rest <= 5 \/ (calm <= 2 /\ Rest <= 8 - calm)
      PROVE  Rest' <= 5 \/ (calm' <= 2 /\ Rest' <= 8 - calm')
  <2>1. Rest' <= 3 \/ Rest' <= Rest - 1
    BY <1>2, <1>6
  <2>2. calm' = calm + 1 \/ calm >= 3
    BY <1>1, <1>6
  <2>3. \A m, n, c, d \in Int :
          /\ n <= 3 \/ n <= m - 1
          /\ d = c + 1 \/ c >= 3
          /\ m <= 5 \/ (c <= 2 /\ m <= 8 - c)
          => n <= 5 \/ (d <= 2 /\ n <= 8 - d)
    OBVIOUS
  <2>4. Rest \in Int /\ Rest' \in Int /\ calm \in Int /\ calm' \in Int
    BY <1>1, <1>2
  <2> QED
    BY <1>6, <2>1, <2>2, <2>3, <2>4, Zenon
<1>7. CASE rst_o
  BY <1>1, <1>2, <1>7 DEF Resting
<1>8. CASE ~rst_o /\ Held
  <2>1. (cpu.op = "none" /\ cpu.n >= 4 => Rest <= 6)' /\ (cpu.op = "none" /\ cpu.n >= 5 => Rest <= 5)'
    BY <1>2, <1>3, <1>8 DEF Resting, Held
  <2>2. ASSUME (cpu'.op # "none" /\ cpu'.n <= 3) \/ Answered(cpu'.adr)
        PROVE  Rest' <= 5 \/ (calm' <= 2 /\ Rest' <= 8 - calm')
    <3>1. (cpu.op # "none" /\ cpu.n <= 2) \/ Answered(cpu.adr)
      BY <1>8, <2>2 DEF Held
    <3>2. CASE calm = 0
      BY <1>1, <1>2, <1>8, <3>2
    <3>3. CASE calm >= 1
      BY <1>3, <1>4, <1>6, <1>8, <3>1, <3>3 DEF Resting
    <3> QED
      BY <1>1, <3>2, <3>3
  <2> QED
    BY <1>5, <2>1, <2>2 DEF Resting
<1>9. CASE ~rst_o /\ Started
  <2>1. Rest' <= 5 \/ (calm' <= 2 /\ Rest' <= 8 - calm')
    <3>1. CASE calm = 0
      BY <1>1, <1>2, <1>9, <3>1
    <3>2. CASE calm >= 1
      BY <1>3, <1>4, <1>6, <1>9, <3>2 DEF Resting, Started
    <3> QED
      BY <1>1, <3>1, <3>2
  <2> QED
    BY <1>5, <1>9, <2>1 DEF Resting, Started
<1>10. CASE ~rst_o /\ Ended
  <2>1. ASSUME Answered(cpu'.adr)
        PROVE  Rest' <= 5 \/ (calm' <= 2 /\ Rest' <= 8 - calm')
    <3>1. Answered(cpu.adr)
      BY <1>10, <2>1 DEF Ended
    <3>2. CASE calm = 0
      BY <1>1, <1>2, <1>10, <3>2
    <3>3. CASE calm >= 1
      BY <1>4, <1>6, <1>10, <3>1, <3>3 DEF Resting
    <3> QED
      BY <1>1, <3>2, <3>3
  <2> QED
    BY <1>5, <1>10, <2>1 DEF Resting, Ended
<1> QED
  BY <1>0, <1>7, <1>8, <1>9, <1>10 DEF TypeOK

(***************************************************************************)
(* From when the processor relies on a write, every access finds the       *)
(* master at rest: four clocks away from it when the strobe starts, and    *)
(* there when the strobe has come through the ranks.                       *)
(***************************************************************************)
Known == \E x \in {"WBO_REG1", "WBO_REG2"} : want[x] # Unknown
Approach ==
  /\ cpu.n = 1 => Rest <= 4
  /\ cpu.n = 2 => Rest <= 3
  /\ cpu.n = 3 => Rest <= 2

TrustInv == trust => cpu.op = "wr" /\ calm = Recover /\ Approach /\ (cpu.n >= 3 => Rest <= 2)
KnownInv ==
  Known => /\ calm = Recover
           /\ cpu.op = "wr" => trust
           /\ cpu.op = "rd" => Approach
           /\ age = 0 => Rest <= 1
           /\ age = 1 => Rest = 0
           /\ Rd_o => cs_wb_cycle # "wb_write" \/ (cpu.op = "rd" /\ cpu.n = 3)

(* What makes a register's content known. *)
LEMMA KnownMove ==
  ASSUME History, Known'
  PROVE  /\ ~rst_o
         /\ Known \/ (trust /\ cpu.op = "wr" /\ cpu'.op = "none")
  BY DEF History, Known, WroteTo

(* An access that starts or goes on keeps its distance from the master's rest. *)
LEMMA ApproachStep ==
  ASSUME IInv, IInv', Ranks, Addresses, Resting, Timed, WB_Master, Intercon, History,
         calm = Recover, ~rst_o, cpu.n \in Nat, cpu.n >= 1, cpu.op \in {"none", "rd", "wr"},
         Started \/ (Held /\ cpu.op # "none" /\ Approach)
  PROVE  Approach'
<1>0. TypeOK
  BY DEF IInv
<1>1. calm \in Nat /\ calm >= 3
  BY <1>0, CalmMove
<1> DEFINE strobe == Wr_o \/ Rd_o
<1>2. /\ Rest \in 0 .. 7 /\ Rest' \in 0 .. 7
      /\ ~strobe => Rest' <= Rest - 1 \/ Rest' = 0
      /\ strobe /\ Answered(A_o) => Rest' <= 3
  BY RestMove
<1>3. strobe => \/ cpu.op = "none" /\ cpu.n <= 2
                \/ cpu.op # "none" /\ cpu.n = 1
                \/ cpu.op = "rd" /\ cpu.n >= 3
  BY <1>0, StrobePlaces
<1>4. /\ strobe /\ cpu.op # "none" /\ cpu.n = 1 => Answered(A_o)
      /\ strobe /\ Answered(cpu.adr) => Answered(A_o)
  BY <1>3, <1>1 DEF Addresses, Wr_o
<1> HIDE DEF strobe
<1>5. CASE Started
  <2>1. Rest <= 5
    BY <1>1, <1>5 DEF Started, Resting
  <2>2. ~strobe \/ Answered(A_o)
    BY <1>3, <1>4, <1>5 DEF Started
  <2>3. Rest' <= 4
    BY <1>2, <2>1, <2>2
  <2> QED
    BY <1>5, <2>3 DEF Approach, Started
<1>6. CASE Held /\ cpu.op # "none" /\ Approach
  BY <1>2, <1>3, <1>4, <1>6 DEF Approach, Held
<1> QED
  BY <1>5, <1>6

(* Every edge keeps the distance of a trusted write. *)
LEMMA TrustStep ==
  ASSUME IInv, IInv', Ranks, Addresses, Resting, TrustInv, Timed,
         WB_Master, Intercon, History, Held \/ Started \/ Ended,
         cpu.n \in Nat, cpu.n >= 1, cpu.op \in {"none", "rd", "wr"}
  PROVE  TrustInv'
<1> SUFFICES ASSUME trust'
             PROVE  cpu'.op = "wr" /\ calm' = Recover /\ Approach' /\ (cpu'.n >= 3 => Rest' <= 2)
  BY DEF TrustInv
<1>0. TypeOK
  BY DEF IInv
<1>1. ~rst_o /\ (trust \/ (calm = Recover /\ cpu.op = "none")) /\ cpu'.op = "wr"
  BY DEF History
<1>2. calm = Recover /\ calm' = Recover
  BY <1>0, <1>1, CalmMove DEF TrustInv
<1>3. CASE trust
  <2>1. Held /\ cpu.op = "wr" /\ Approach
    BY <1>1, <1>3 DEF TrustInv, Started, Ended
  <2>2. Approach'
    BY <1>1, <1>2, <2>1, ApproachStep
  <2>3. cpu.n >= 3 => Rest' <= 2
    <3>1. cpu.n >= 3 => ~(Wr_o \/ Rd_o)
      BY <1>0, <2>1, StrobePlaces
    <3>2. cpu.n >= 3 => Rest <= 2
      BY <1>3 DEF TrustInv
    <3>3. /\ Rest \in 0 .. 7 /\ Rest' \in 0 .. 7
          /\ ~(Wr_o \/ Rd_o) => Rest' <= Rest - 1 \/ Rest' = 0
      BY <1>1, RestMove
    <3> QED
      BY <3>1, <3>2, <3>3
  <2>4. cpu'.n >= 3 => Rest' <= 2
    BY <2>1, <2>2, <2>3 DEF Approach, Held
  <2> QED
    BY <1>1, <1>2, <2>2, <2>4
<1>4. CASE ~trust
  <2>1. Started
    BY <1>1, <1>4 DEF Held, Ended
  <2>2. Approach'
    BY <1>1, <1>2, <2>1, ApproachStep
  <2> QED
    BY <1>1, <1>2, <2>1, <2>2 DEF Started
<1> QED
  BY <1>0, <1>3, <1>4 DEF TypeOK

(* Every edge keeps the distances while a register's content is known. *)
LEMMA KnownStep ==
  ASSUME IInv, IInv', Ranks, Addresses, Ages, Resting, TrustInv, KnownInv, Timed,
         CpuInterface, WB_Master, Intercon, History, Held \/ Started \/ Ended,
         cpu.n \in Nat, cpu.n >= 1, cpu.op \in {"none", "rd", "wr"}, cpu.adr \in Addr
  PROVE  KnownInv'
<1> SUFFICES ASSUME Known'
             PROVE  /\ calm' = Recover
                    /\ cpu'.op = "wr" => trust'
                    /\ cpu'.op = "rd" => Approach'
                    /\ age' = 0 => Rest' <= 1
                    /\ age' = 1 => Rest' = 0
                    /\ Rd_o' => cs_wb_cycle' # "wb_write" \/ (cpu'.op = "rd" /\ cpu'.n = 3)
  BY DEF KnownInv
<1>0. TypeOK
  BY DEF IInv
<1>1. ~rst_o /\ (Known \/ (trust /\ cpu.op = "wr" /\ cpu'.op = "none"))
  BY KnownMove
<1>2. calm = Recover /\ calm' = Recover /\ calm \in Nat /\ calm >= 3
  BY <1>0, <1>1, CalmMove DEF TrustInv, KnownInv
<1>3. cpu'.op = "wr" => trust'
  <2>1. SUFFICES ASSUME cpu'.op = "wr" PROVE trust'
    OBVIOUS
  <2>2. Known /\ cpu.op \in {"none", "wr"}
    BY <1>1, <2>1 DEF Held, Started, Ended
  <2> QED
    BY <1>1, <1>2, <2>1, <2>2 DEF KnownInv, History
<1>4. cpu'.op = "rd" => Approach'
  <2>1. SUFFICES ASSUME cpu'.op = "rd" PROVE Approach'
    OBVIOUS
  <2>2. Known /\ (Started \/ (Held /\ cpu.op = "rd"))
    BY <1>1, <2>1 DEF Held, Ended
  <2> QED
    BY <1>1, <1>2, <2>2, ApproachStep DEF KnownInv
<1>5. /\ age \in 0 .. 3
      /\ age' = IF cpu.op = "wr" /\ cpu'.op = "none" THEN 0
                ELSE IF age < 3 THEN age + 1 ELSE 3
  BY <1>0, AgeMove
<1>6. /\ Rest \in 0 .. 7 /\ Rest' \in 0 .. 7
      /\ ~(Wr_o \/ Rd_o) => Rest' <= Rest - 1 \/ Rest' = 0
  BY <1>1, RestMove
<1>7. age' = 0 => Rest' <= 1
  <2> SUFFICES ASSUME age' = 0 PROVE Rest' <= 1
    OBVIOUS
  <2>1. cpu.op = "wr" /\ cpu'.op = "none"
    BY <1>5
  <2>2. trust /\ cpu.n >= 3
    BY <1>1, <2>1 DEF KnownInv, Held, Started, Ended
  <2>3. Rest <= 2
    BY <2>2 DEF TrustInv
  <2>4. ~(Wr_o \/ Rd_o)
    BY <1>0, <2>1, <2>2, StrobePlaces
  <2> QED
    BY <1>6, <2>3, <2>4
<1>8. age' = 1 => Rest' = 0
  <2> SUFFICES ASSUME age' = 1 PROVE Rest' = 0
    OBVIOUS
  <2>1. age = 0 /\ ~(cpu.op = "wr" /\ cpu'.op = "none")
    BY <1>5
  <2>2. Rest <= 1
    BY <1>1, <2>1 DEF KnownInv
  <2>3. Wr_r /\ cpu.op = "none"
    BY <2>1 DEF Ages
  <2>4. ~(Wr_o \/ Rd_o)
    BY <1>0, <2>3 DEF Ranks, Wr_o
  <2> QED
    BY <1>6, <2>2, <2>4
<1>9. Rd_o' => cs_wb_cycle' # "wb_write" \/ (cpu'.op = "rd" /\ cpu'.n = 3)
  <2> SUFFICES ASSUME Rd_o', ~(cpu'.op = "rd" /\ cpu'.n = 3)
               PROVE  cs_wb_cycle' # "wb_write"
    OBVIOUS
  <2>1. Rd_r
    BY DEF CpuInterface
  <2>2. Known
    BY <1>1, <2>1 DEF Ranks
  <2>3. Rd_o
    BY <1>2, <2>1 DEF Ranks, Held, Started, Ended
  <2>4. ~Wr_o
    BY <2>3 DEF Ranks, Wr_o
  <2>5. cs_wb_cycle # "wb_write" \/ (cpu.op = "rd" /\ cpu.n = 3)
    BY <2>2, <2>3 DEF KnownInv
  <2>6. cs_wb_cycle = "wb_write" => err_s
    <3>1. cs_wb_cycle = "wb_write" => Rest <= 2
      BY <2>2, <2>5 DEF KnownInv, Approach
    <3> QED
      BY <3>1, RestBounds
  <2> QED
    BY <1>1, <2>4, <2>6 DEF WB_Master, nx_wb_cycle
<1> QED
  BY <1>2, <1>3, <1>4, <1>7, <1>8, <1>9
----------------------------------------------------------------------------
(***************************************************************************)
(* Where the last write to a register is on its way from the pins to the   *)
(* register, by its age; and no cycle stores into the port but the one of  *)
(* the write on its way.                                                   *)
(***************************************************************************)
Regs == {"WBO_REG1", "WBO_REG2"}
Register(x) == IF x = "WBO_REG1" THEN r1 ELSE r2
OnItsWay(x) ==
  /\ age = 0 => IF A_r = x THEN D_r = want[x] ELSE Register(x) = want[x]
  /\ age = 1 => IF A_o = x THEN D_o = want[x] ELSE Register(x) = want[x]
  /\ age = 2 => IF adr_o = x THEN dat_o = want[x] /\ cs_wb_cycle = "wb_write"
                ELSE Register(x) = want[x]
  /\ age = 3 => Register(x) = want[x]
StoreInv ==
  Known => /\ cs_wb_cycle = "wb_write" /\ Answered(adr_o) => age = 2
           /\ \A x \in Regs : want[x] # Unknown => OnItsWay(x)

(* A register changes only when the port's write cycle addresses it. *)
LEMMA RegisterMove ==
  ASSUME WBO, NEW x \in Regs
  PROVE  Register(x)' = IF ~rst_o /\ cs_wb_cycle = "wb_write" /\ adr_o = x THEN dat_o
                        ELSE Register(x)
  BY DEF WBO, Register, Regs, stb, we

(* No write cycle outlives the address it was started for. *)
LEMMA CycleKeepsAddress ==
  ASSUME IInv, Ranks, Ages, TrustInv, KnownInv, StoreInv, CpuInterface, WB_Master, History,
         Known', Held \/ Started \/ Ended,
         cpu.n \in Nat, cpu.n >= 1, cpu.op \in {"none", "rd", "wr"}, cpu.adr \in Addr,
         cs_wb_cycle' = "wb_write", Answered(adr_o')
  PROVE  age' = 2
<1>0. TypeOK
  BY DEF IInv
<1>1. ~rst_o /\ (Known \/ (trust /\ cpu.op = "wr" /\ cpu'.op = "none"))
  BY KnownMove
<1>2. /\ age \in 0 .. 3
      /\ age' = IF cpu.op = "wr" /\ cpu'.op = "none" THEN 0
                ELSE IF age < 3 THEN age + 1 ELSE 3
  BY <1>0, AgeMove
<1>3. (cs_wb_cycle = "Idle" /\ Wr_o) \/ (cs_wb_cycle = "wb_write" /\ ~ack /\ ~err_s)
  BY <1>1 DEF WB_Master, nx_wb_cycle
<1>4. CASE Wr_o
  <2>1. age = 1
    BY <1>4 DEF Ages
  <2>2. ~(cpu.op = "wr" /\ cpu'.op = "none")
    BY <1>4, <2>1 DEF Ranks, Wr_o, Held, Started, Ended
  <2> QED
    BY <1>2, <2>1, <2>2
<1>5. CASE ~Wr_o
  <2>1. cs_wb_cycle = "wb_write" /\ ~ack /\ ~err_s
    BY <1>3, <1>5
  <2>2. ~(trust /\ cpu.op = "wr" /\ cpu'.op = "none")
    <3>1. trust /\ cpu.op = "wr" /\ cpu'.op = "none" => Rest <= 2
      BY DEF TrustInv, Held, Started, Ended
    <3> QED
      BY <2>1, <3>1, RestBounds
  <2>3. ~Rd_o
    <3>1. Rd_o => Rest <= 2
      BY <1>1, <2>1, <2>2 DEF KnownInv, Approach
    <3> QED
      BY <2>1, <3>1, RestBounds
  <2>4. adr_o' = adr_o
    BY <1>1, <1>5, <2>3 DEF WB_Master
  <2> QED
    BY <2>1, <2>4 DEF ack, stb, Answered
<1> QED
  BY <1>4, <1>5

(* Every edge moves the write on by one place. *)
LEMMA StoreStep ==
  ASSUME IInv, Ranks, Addresses, Ages, TrustInv, KnownInv, StoreInv,
         CpuInterface, WB_Master, WBO, History, Held \/ Started \/ Ended,
         cpu.n \in Nat, cpu.n >= 1, cpu.op \in {"none", "rd", "wr"}, cpu.adr \in Addr
  PROVE  StoreInv'
<1> SUFFICES ASSUME Known', NEW x \in Regs, want'[x] # Unknown PROVE OnItsWay(x)'
  BY CycleKeepsAddress DEF StoreInv
<1>0. TypeOK
  BY DEF IInv
<1>1. ~rst_o
  BY KnownMove
<1>2. /\ age \in 0 .. 3
      /\ age' = IF cpu.op = "wr" /\ cpu'.op = "none" THEN 0
                ELSE IF age < 3 THEN age + 1 ELSE 3
  BY <1>0, AgeMove
<1>3. Register(x)' = IF cs_wb_cycle = "wb_write" /\ adr_o = x THEN dat_o ELSE Register(x)
  BY <1>1, RegisterMove
<1>4. want'[x] = IF WroteTo(x) THEN cpu.dat ELSE want[x]
  BY <1>1 DEF History, Regs
<1>5. Answered(x)
  BY DEF Answered, SlaveOf, Regs
<1>6. ASSUME want[x] # Unknown, age # 2 PROVE Register(x)' = Register(x)
  <2>1. Known
    BY <1>6 DEF Known, Regs
  <2> QED
    BY <1>3, <1>5, <1>6, <2>1 DEF StoreInv
<1>7. ASSUME want[x] # Unknown PROVE OnItsWay(x) /\ Known
  BY <1>7 DEF StoreInv, Known, Regs
<1>8. CASE age' = 0
  <2>1. cpu.op = "wr" /\ cpu'.op = "none" /\ cpu.n >= 3
    BY <1>2, <1>8 DEF Held, Started, Ended
  <2>2. A_r' = cpu.adr /\ D_r' = cpu.dat
    BY <2>1 DEF CpuInterface
  <2>3. CASE cpu.adr = x
    BY <1>4, <1>8, <2>1, <2>2, <2>3 DEF WroteTo, OnItsWay
  <2>4. CASE cpu.adr # x
    <3>1. want'[x] = want[x] /\ want[x] # Unknown
      BY <1>4, <2>4 DEF WroteTo
    <3>2. age = 3
      BY <1>2, <2>1 DEF Ages, Latency
    <3>3. Register(x)' = want'[x]
      BY <1>6, <1>7, <3>1, <3>2 DEF OnItsWay
    <3> QED
      BY <1>8, <2>2, <2>4, <3>3 DEF OnItsWay
  <2> QED
    BY <2>3, <2>4
<1>9. ASSUME age' # 0
      PROVE  want'[x] = want[x] /\ want[x] # Unknown /\ Known /\ OnItsWay(x)
  <2>1. ~WroteTo(x)
    BY <1>2, <1>9 DEF WroteTo
  <2> QED
    BY <1>4, <1>7, <2>1
<1>10. CASE age' = 1
  <2>1. age = 0
    BY <1>2, <1>10
  <2>2. A_o' = A_r /\ D_o' = D_r
    BY <1>1, <2>1 DEF Ages, CpuInterface
  <2>3. Register(x)' = Register(x)
    BY <1>6, <1>9, <1>10, <2>1
  <2> QED
    BY <1>9, <1>10, <2>1, <2>2, <2>3 DEF OnItsWay
<1>11. CASE age' = 2
  <2>1. age = 1
    BY <1>2, <1>11
  <2>2. Wr_o /\ Rest = 0
    BY <1>9, <1>11, <2>1 DEF Ages, KnownInv
  <2>3. cs_wb_cycle = "Idle" /\ ~err_s
    BY <2>2, RestBounds
  <2>4. adr_o' = A_o /\ dat_o' = D_o /\ cs_wb_cycle' = "wb_write"
    BY <1>1, <2>2, <2>3 DEF WB_Master, nx_wb_cycle
  <2>5. Register(x)' = Register(x)
    BY <1>6, <1>9, <1>11, <2>1
  <2> QED
    BY <1>9, <1>11, <2>1, <2>4, <2>5 DEF OnItsWay
<1>12. CASE age' = 3
  <2>1. age \in {2, 3}
    BY <1>2, <1>12
  <2>2. Register(x)' = want'[x]
    <3>1. CASE age = 2
      BY <1>3, <1>9, <1>12, <3>1 DEF OnItsWay
    <3>2. CASE age = 3
      BY <1>6, <1>9, <1>12, <3>2 DEF OnItsWay
    <3> QED
      BY <2>1, <3>1, <3>2
  <2> QED
    BY <1>12, <2>2 DEF OnItsWay
<1> QED
  BY <1>2, <1>8, <1>10, <1>11, <1>12

(* The whole invariant. *)
WbInv ==
  /\ IInv
  /\ Ranks /\ Addresses /\ Ages
  /\ Resting /\ TrustInv /\ KnownInv /\ StoreInv

(* Configuration leaves the shell at rest, and no register known. *)
LEMMA WbInit == ASSUME Timed PROVE Init => WbInv
<1> SUFFICES ASSUME Init PROVE WbInv
  OBVIOUS
<1>1. IInv
  BY InitIInv
<1>2. MaxCount \in Nat /\ MaxCount >= 5
  BY AccessAssumption DEF MaxCount, ReadLatency, Timed
<1>3. cpu.op = "none" /\ cpu.n = MaxCount /\ cpu.adr = "NONE"
  BY DEF Init, Released
<1>4. Ranks /\ Addresses
  BY <1>2, <1>3 DEF Init, Ranks, Addresses
<1>5. Ages
  BY <1>2, <1>3 DEF Init, Ages, Latency, Wr_o
<1>6. Rest = 0
  BY DEF Init, Rest, stb, Timeout
<1>7. Resting
  BY <1>6 DEF Init, Resting
<1>8. ~trust /\ ~Known
  BY DEF Init, Known
<1> QED
  BY <1>1, <1>4, <1>5, <1>7, <1>8 DEF WbInv, TrustInv, KnownInv, StoreInv

(* Every edge keeps the whole invariant. *)
LEMMA WbStep == ASSUME Timed PROVE WbInv /\ [Next]_vars => WbInv'
<1> SUFFICES ASSUME WbInv, [Next]_vars PROVE WbInv'
  OBVIOUS
<1>1. IInv'
  BY NextIInv DEF WbInv
<1>2. CASE Next
  <2>1. /\ HoldPins \/ StartRead \/ StartWrite \/ EndAccess
        /\ CpuInterface /\ WB_Master /\ Intercon /\ WBO /\ History
    BY <1>2 DEF Next, Edge
  <2>2. TypeOK /\ CpuType
    BY DEF WbInv, IInv, TypeOK, CpuType
  <2>3. /\ Held \/ Started \/ Ended
        /\ cpu.n \in Nat /\ cpu.n >= 1 /\ cpu.op \in {"none", "rd", "wr"} /\ cpu.adr \in Addr
    BY <2>1, <2>2, PinsMove
  <2>4. Ranks' /\ Addresses' /\ Ages'
    BY <2>1, <2>2, <2>3, RanksStep, AddressesStep, AgesStep DEF WbInv
  <2>5. Resting' /\ TrustInv'
    BY <1>1, <2>1, <2>3, RestingStep, TrustStep DEF WbInv
  <2>6. KnownInv'
    BY <1>1, <2>1, <2>3, KnownStep DEF WbInv
  <2>7. StoreInv'
    BY <2>1, <2>3, StoreStep DEF WbInv
  <2> QED
    BY <1>1, <2>4, <2>5, <2>6, <2>7 DEF WbInv
<1>3. CASE UNCHANGED vars
  <2> USE <1>3 DEF vars, sysVars, cpuIfVars, masterVars, interconVars, wboVars, histVars
  <2>1. Ranks' /\ Addresses' /\ Ages'
    BY DEF WbInv, Ranks, Addresses, Ages, Answered, Wr_o
  <2>2. Rest' = Rest /\ (Known' <=> Known)
    BY DEF Rest, stb, ack, Known
  <2>3. Approach' <=> Approach
    BY <2>2 DEF Approach
  <2>4. Resting' /\ TrustInv' /\ KnownInv'
    BY <2>2, <2>3 DEF WbInv, Resting, TrustInv, KnownInv, Answered
  <2>5. \A x \in Regs : OnItsWay(x)' <=> OnItsWay(x)
    BY DEF OnItsWay, Register
  <2>6. StoreInv'
    BY <2>2, <2>5 DEF WbInv, StoreInv, Answered
  <2> QED
    BY <1>1, <2>1, <2>4, <2>6 DEF WbInv
<1> QED
  BY <1>2, <1>3

(***************************************************************************)
(* For every set of addresses and every timing at least as slow as Timed:  *)
(* three clocks after the last write access a register of the port holds   *)
(* what the processor wrote to it, across timeouts of other accesses and   *)
(* resets at any clock.                                                    *)
(***************************************************************************)
THEOREM WritesArrive == ASSUME Timed PROVE Spec => []RegistersHoldWrites
<1>1. WbInv => RegistersHoldWrites
  <2> SUFFICES ASSUME WbInv, age = 3
               PROVE  /\ want["WBO_REG1"] # Unknown => r1 = want["WBO_REG1"]
                      /\ want["WBO_REG2"] # Unknown => r2 = want["WBO_REG2"]
    BY DEF RegistersHoldWrites, Latency
  <2>1. ASSUME NEW x \in Regs, want[x] # Unknown PROVE Register(x) = want[x]
    <3>1. Known
      BY <2>1 DEF Known, Regs
    <3> QED
      BY <2>1, <3>1 DEF WbInv, StoreInv, OnItsWay
  <2> QED
    BY <2>1 DEF Regs, Register
<1> QED
  BY <1>1, WbInit, WbStep, PTL DEF Spec

(***************************************************************************)
(* Under the same timing a read of three clocks and more finds the data of *)
(* the port it addresses on the bus, whatever cycle the master was in when *)
(* its strobe arrived.                                                     *)
(***************************************************************************)
THEOREM ReadsArrive == ASSUME Timed PROVE Spec => []ReadsTheAddressed
<1>1. WbInv => ReadsTheAddressed
  <2> SUFFICES ASSUME WbInv, cpu.op = "rd", cpu.n > 3, calm = Recover, SlaveOf(cpu.adr) = 1
               PROVE  CpuD_o = Q
    BY DEF ReadsTheAddressed, ReadLatency
  <2>1. cpu.n \in Nat /\ calm \in Nat /\ calm >= 2
    BY AccessAssumption, CountBound DEF WbInv, IInv, TypeOK, Timed
  <2>2. adr_o = cpu.adr
    BY <2>1 DEF WbInv, Addresses
  <2> QED
    BY <2>2 DEF CpuD_o
<1> QED
  BY <1>1, WbInit, WbStep, PTL DEF Spec
=============================================================================
