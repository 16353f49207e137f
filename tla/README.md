# A verification project for opprud/EMB

The repository holds the programs of a course on embedded systems: drivers and
demos in C for the LPC2478 (ARM7), and a small Wishbone shell in VHDL for an FPGA
on its external bus. `MAC/` repeats the whole tree, `lpc2478_uboot` is a vendored
boot loader, and `swim`, the fonts, the LCD code and `rprintf` are third-party.
What is left is a set of small programs with interrupt handlers. The largest piece
of logic written for the repository is the interrupt-driven CAN driver,
`lpc2478_CAN/drivers/can.c`; the project starts there, goes on to the Wishbone shell,
and then takes the smaller interrupt-driven or polled programs one by one: the soft
timers, the real-time clock, the touch panel and the SPI port under it. All paths below
are relative to `src/`.

## Inventory

| Component | State | Operations | Interaction | What is hard, what makes it correct |
|---|---|---|---|---|
| CAN driver, data plane (`lpc2478_CAN/drivers/can.c`) | per controller `init`, `regptr`, two rings of 256 telegrams with head and tail | `can_open`, `can_close`, `can_read`, `can_write`, `can_standard_transmit`, `can_standard_receive`, `CAN_Handler` | main and the handler share the rings, `CANIER` and transmit buffer 1; the controllers raise the interrupt | read-modify-write of `CANIER` in two contexts, `can_standard_transmit` entered from both; telegrams once and in order, an armed interrupt, no stall |
| CAN driver, configuration plane (same file, `can_ioctl`) | `CANMOD`, `CANBTR`, error counters | `can_ioctl` with seven commands | controller goes bus-off on its own | long sequences of commands, a wait without limit; the status calls report what was set |
| CAN demo (`lpc2478_CAN/main.c`) | one telegram to send and one received | start-up, endless loop | calls the driver | both controllers open before interrupts are enabled |
| Interrupt controller (`*/irq.c`, `*/VIClowlevel.c`) | VIC vectors, priorities, I bit | `init_VIC`, `install_irq`, `enableIRQ`, `disableIRQ` | used by every driver | one priority everywhere, so handlers never nest |
| Timers (`lpc2478_timer_irq/timer.c`, `Codesign_FPGA_IP/App/timer.c`) | tick counters, resolutions, soft timer bases, callbacks | `initTimer`, `initTimerTicks`, `enableTimer`, `disableTimer`, `timer`, two handlers | handler counts, main multiplies and subtracts | wrap-around of `int`, index 10 of ten timers, re-initialising a timer that soft timers run on |
| RTC alarm (`lpc2478_rtc_alarm`) | RTC counters, alarm registers, `alarm_on` | `RTCInit`, `RTCStart`, `RTCSetTime`, `RTCSetAlarm`, `RTCGetTime`, `RTCHandler` | hardware counts while main reads field by field | torn reads, an alarm between test and clear |
| Touch calibration (`lpc2478_lcd_cursor/calib_app.c`, `drivers/touch.c`, `drivers/calibrate.c`) | `calibPoint`, `releaseNeeded`, `touchReleased`, matrix | `calibrateStart`, `touch_xyz`, `touch_calibrate`, `setCalibrationMatrix`, `getDisplayPoint` | polls the panel over SPI | one point per touch, a finger that moves during a sample, collinear points, division by zero |
| SPI (`lpc2478_lcd_cursor/drivers/spi.c`, `lpc2478_uart_to_SPI/spi.c`) | error counters, data register | `SPIInit`, `SPIWrite`, `SPIRead`, `SpiXfer`, `SPIError` | polled | bounded wait that leaves a transfer unfinished |
| UART (`lpc2478_uart_n_timer_irq/uart.c` and others) | receive and transmit registers | `initUart0`, `sendchar`, `getkey`, `Uart0_Handler` | handler and main read one register | characters taken by the wrong reader |
| Wishbone shell (`WB_shell/HDL/src/*.vhd`) | bus master state, timeout counter, synchronisers, output register | one step per clock edge | CPU bus, master, interconnect, slaves | a strobe during a cycle, timeout against acknowledge |
| FPGA demo (`WB_shell/App/main.c`, `Codesign_FPGA_IP/App/main.c`) | `pressed`, `released`, `cmd`, `count`, `pwm` | key loop | writes FPGA registers | locals read before they are set |
| ADC, DAC, PWM, keys, external interrupts, clock set-up, LCD, `rprintf`, legacy `oocan.c`, U-Boot | – | – | – | register programming, third-party or not built: not modelled |

## The modules

| Module | Models |
|---|---|
| `CanRegs` | the bits of `CANMOD` and `CANIER` the driver uses, and the mode register after `CAN_SET_MODE` |
| `CanDriver` | the data plane: main, `CAN_Handler` and the two controllers |
| `CanFifo` | the abstract specification: per controller a bounded transmit queue and a bounded receive queue that an overflow empties |
| `CanIoctl` | the configuration plane for one controller |
| `CanDriverProofs` | the theorems about `CanDriver` |
| `WbShell` | the Wishbone shell, one step per clock edge, with the processor on its pins |
| `WbShellProofs` | the theorems about `WbShell` |
| `SoftTimer` | the tick interrupt, the soft timers and the two periodic tasks of `lpc2478_timer_irq` |
| `RtcAlarm` | the clock, its alarm interrupt and the loop of `lpc2478_rtc_alarm` |
| `Calibrate` | the calibration matrix of `drivers/calibrate.c`, as operators |
| `TouchCalib` | sampling of the touch panel, calibration and cursor of `lpc2478_lcd_cursor`, on `Calibrate` |
| `SpiTouch` | the conversation under one sample: `spi_read_tp` and `SpiXfer` on the SPI port |
| `CanIoctlProofs`, `SoftTimerProofs`, `RtcAlarmProofs`, `CalibrateProofs`, `TouchCalibProofs`, `SpiTouchProofs` | the theorems about the module of that name |
| `MCCanDriver`, `MCCanIoctl`, `MCWbShell`, `MCSoftTimer`, `MCRtcAlarm`, `MCTouchCalib`, `MCSpiTouch` | the instances TLC checks |

### CanDriver

The rings, their four indices, `init` and `regptr` are the fields of `CAN_CFG_T`; a
telegram is its ordinal since the rings were last emptied. `canmod`, `ier`, `tbs1`,
`ti1` and `txb` are registers. `nacc`, `nout`, `nbus`, `nin` and `nread` are history
variables: telegrams accepted, put in the transmit buffer, received by the
controller, moved to the ring, read.

*Main* is one thread at location `mpc`. A call is entered by an action with the
call's name, then runs through its locations:

| Locations | Lines of `can.c` |
|---|---|
| `can_write`, `w_tie3`, `w_tie2`, `w_tie1` | 896-908, the three chained stores run from right to left |
| `w_loop`, `w_put` | 911-927 |
| `w_rest1` .. `w_rest3` | 930-932 |
| `t_head`, `t_off` | 226-231 |
| `t_tbs`, `t_fill`, `t_tie1`, `t_tr` | 234-271 |
| `can_read`, `r_mask` | 818-826 |
| `r_loop`, `r_take` | 829-847 |
| `r_rest` | 850 |

Each change of `CANIER` is two steps, `IerLoad` and `IerStore`, because the compiler
builds a bit-field store from a load and a store and the handler changes the same
register. Other steps group what only main touches, or what nobody can see half
done: the handler cannot look at a ring slot that `tx_head` has not passed, and
nothing but main touches the transmit buffer between `t_tbs` and `t_tr` (that is
`FillOwnsBuffer`, checked and proved).

`can_open`, `can_close` and each `can_ioctl` command are one step. Between the first
and the last register access of such a command the controller is in reset mode: it
receives and sends nothing, and an interrupt that comes in the meantime finds its
`RI` clear and clears a pending `TI1` at its first read, exactly what it does
before or after the command. Commands that enter no reset mode make a single store.

*CAN_Handler* preempts main between any two steps and runs to its end before main
goes on. It is four steps: for controller 1, then 2, the read of `CANICR` for `RI`
and the read for `TI1`, with what each does. The controllers may step in between.

*The controllers* (external; modelled from what the driver relies on):

* `RI` is a level: a received telegram is waiting and `RIE` is set. Only `RRB`
  removes it.
* `TI1` is latched when `TBS1` goes from 0 to 1 with `TIE1` set, and cleared by
  a read of `CANICR` ("IRQ bits are cleared on read", can.c:965).
* Setting `RM` ends a transmission, empties the receive buffer and clears the other
  mode bits (`EnterReset`; the store itself keeps them, it is the controller that does what the
  comment "Reset mode, clears other bits in register to default", can.c:551, relies on);
  `TR` is ignored in reset mode; a listen-only controller does not send.
* A controller without power raises nothing.
* Address 12, which a NULL `regptr` reads, has neither of the two bits set in this
  build (it is a word of the vector table).

`late` is a timing variable. With `SlowFrames` a frame that the handler starts while
main stands before its read of `TBS1` does not end before that read: 47 bit times
at 1 Mbit/s or slower are more than 2700 processor cycles, against a return from
the handler and one load. `SlowFrames = FALSE` drops the assumption.

### CanFifo

`CanDriver` implements it under the mapping in `CanDriver` that reads the queues out
of the ring memory, from tail to head. The abstract queue holds one telegram
less than the ring has slots, and an arrival at a full queue empties it, as the
remark "There is no protection against overflowing the ring buffer" (can.c:163) warns.

### CanIoctl

One controller; every command of `can_ioctl`, good and bad arguments (`CAN_CLEAR_ERROR_CONDITION` with a bad
one goes through reset mode, clears nothing and returns no error; in `CanDriver`, which has no error
counters, that is `MODE_RESET` followed by `MODE_OPERATING`). Error
counters take the values 0, 96 (the warning limit) and 255. `CAN_FORCE_BUS_OFF` is
two actions, the write of 255 to `TXERR` and the exit from the loop; bus-off is the
controller's own step and puts it into reset mode. `CAN_GET_STATUS` changes nothing:
`StatusBaud` is the rate it returns. A bit is measured in clocks of the CAN block (`BitClocks`), since the
clock is the platform's choice and not the driver's. That writing `TXERR` brings on
bus-off, and writing 0 ends it, is what the code relies on.

### WbShell

Every clocked process of the shell is an operator that says what its registers are
after the edge, and `Edge` conjoins them as `wrapper.vhd` and `host.vhd` wire the entities:

| Operator | Entity, process |
|---|---|
| `CpuInterface`, `Wr_o` | `cpuinterface.vhd`, `ProcCpuSync1`, `ProcCpuSync2` and the strobe |
| `WB_Master`, `nx_wb_cycle`, `stb`, `we` | `wb_master.vhd`; `cyc_o`, `stb_o` and `we_o` are registered from the next state together with the state, so they are read off the state |
| `tmout`, `tick`, `SlaveOf`, `ack` | `Intercon.vhd`; slaves 0 and 2 have no entity, so nobody drives their acknowledge |
| `WBO` | the output port. `WB_shell/HDL/src/WBO.vhd` has a pulse-width part that is not well-formed VHDL, so the port is the one of `MAC/WB_shell`; the other files are the same in all copies |
| `Syscon` | `Syscon.vhd`; the header calls the reset asynchronous, the process only looks at it on a clock edge |

The processor is the environment. Between edges it holds its pins, starts a read or a
write, or ends one; `MinAccess`, `MinGap` and `TimeoutGap` are in clocks of the shell. The two gaps are
parameters, swept to find the least ones the shell works with, and are not derived from the turn-round setting of the
memory controller (`framework.c:196`). The
application sets 8 wait states (`framework.c:190,194`), 9 cycles of 57.6 MHz, which the
48 MHz clock of the shell sees as 7 edges at least. The pins of the board tie the
address to the port (`wb_shell.ucf`, "High to select WBO port"); the stimulus file of the
test bench also uses addresses nobody answers. The reset button is free at any clock.

The sixteen bits of the data bus behave alike (`Q` is a register or the exclusive or of two),
so the model has one of them, and a third level, `Junk`, for a bus the processor does not
drive. `want`, `age`, `calm`, `trust`, `served` and `busy` are history variables.

### SoftTimer

`tmrTicks`, `tmrResolutionMs` and `timers` are the arrays of `timer.c`, `T0TCR` and
`T0IR` the enable bit and the match flag of the hardware timer. `TMR0_Handler` and
`TMR0_Clear` are the two halves of the handler, the count and the clear, since a match
may fall between them. `main` is cut at each reading of the tick count:

| Action | Code |
|---|---|
| `SetUp`, `enableTimer`, `FirstReset` | set-up in `main.c:40-51` |
| `Skip`, `Serve`, `Restart`, `Toggle` | the test of a task, `timer(t, RESET)`, the pin, `main.c:55-71` |
| `disableTimer`, `Reinit` | calls the driver offers and `main` does not make; they are there because the soft timers must survive them; `Reinit` may ask for any of `Resolutions` |

Arithmetic is in words of `Width` bits: `Millis` is the product modulo 2^`Width`,
`Elapsed` the difference read as a signed number. (Signed overflow is undefined in C; the
processor's multiply and subtract wrap, and so does the model.) External: `Match`, a timer
that counts when enabled and raises one bit. `steady` says
that every match so far found the one before handled and both tasks looked at; it is given up for good
when the timer is stopped or set up again while it runs. `initTimer` keeps the tick count, so a new resolution
rescales it and the running soft timers jump, forwards or back, by the ticks counted so far times the change. `kept`
says of a soft timer that it was reset under the resolution in force; only of such a timer `NeverEarly` speaks.

### RtcAlarm

A time is three registers, second, minute and hour, with moduli as constants. Each access of
a register in `RTCSetTime`, `RTCSetAlarm` and `RTCGetTime` is a step, and the clock ticks
between any two. The handler is three steps: entry, the last of the 700000 clears of the
flag, `alarm_on = 1`. main tests, clears and prints in three steps. At reset the clock
holds any time and any alarm, since it runs from a battery. External: `Increment` with its
carries, and `Compare`, by which the flag rises when clock and alarm come to agree,
whoever moved.

### Calibrate and TouchCalib

`Calibrate` is `setCalibrationMatrix` and `getDisplayPoint` with C's truncating division
(`CDiv`). `TouchCalib` is a finger that comes and goes against the four conversations of
`touch_xyz`, with the loop of `calibrateStart` and the cursor of `lcd_test` on top. A
sample's last reading and what the caller does with it are one step, as nothing in
between looks at the panel. The pressure is computed from `ix` and the two pressure readings; it says touched
if one touch lasted for the whole sample. If the finger came or went, or is not there at all, it may say either
(`Touched`): a small `ix`, which is noise then, makes it a touch, and the division by an `iz1` of 0 gives whatever the run-time library
gives. With nothing on the panel a coordinate is noise (`Reported`, external). So an untouched panel can supply a calibration
point, as in the code. After a calibration with three points on one line
`getDisplayPoint` sets nothing, and `touch_xyz` returns whatever is on the stack (`Unset`).
`place`, `owner`, `pure` and `torn` are history variables.

### SpiTouch

One conversation: select the panel, three bytes through `SpiXfer`, deselect. `Write`, `Poll`,
`SPIError` and `Read` are the statements of `SpiXfer` that touch the port, `Read` with the store
of `tp_xfer` and the end of `spi_read_tp`. `TouchCalib` uses the result as a single step, `SpiTouch` shows
when that is right. External: `Finish` ends a transfer after any time, or
never; a byte written in the meantime, or before the status register was read after the
end of a transfer, is dropped and flagged; a panel selected in the middle of a byte gives no
answer of use.

## The runs

| Run | Instance | Shows |
|---|---|---|
| `can_tx` | ring of 3, bursts of 2, 5 telegrams, one received, `CAN_SET_BAUD_RATE` | `TypeOK`; `TxRingSound`; `RingInv`, the inductive invariant of the proofs; `NoTxOverwrite`; the refinement `ImplementsFifo` |
| `can_rx` | both controllers receive, ring of 3, 3 telegrams each, controller buffer of 2 | `RxRingSound`, `RxArmed`, `ImplementsFifo`, with overflow; `RxServed` under fairness |
| `can_config` | the layout of `main.c`, all `can_ioctl` commands and `can_close`, ring of 2 | `RxArmed`, `NoNullRegs`, `ImplementsFifo` |
| `can_ioctl` | all sequences of configuration calls | `TypeOK`, `BaudReadback`, `ResetOnlyOnRequest`, `ModeInForce`, `SameRateSameBit`, `BusOffReturns` |
| `wb_shell` | all five kinds of address, `MinAccess = 3`, `MinGap = 1`, `TimeoutGap = 5`, `Recover = 3`, resets at any clock | `TypeOK`, `RegistersHoldWrites`, `ReadsTheAddressed`, `BusIsReleased`, `OneCyclePerRead` |
| `soft_timer` | words of 4 bits, 2 ms per tick, intervals of 2 and 1 ms, one stop or re-initialisation with 1 or 2 ms per tick | `TypeOK`, `TickPerMatch`, `NeverEarly`, `InTime`, `TasksServed` |
| `rtc_alarm` | a minute of 3 s, an hour of 2 min, a day of 3 h, up to 2 ticks within a call | `TypeOK`, `AlarmNotLost`, `ReadNotBehind`, `SetTimeExact`, `AlarmReported` |
| `touch_calib` | a panel of 2 by 2 points, 4 touches | `TypeOK`, `OnePointPerTouch`, `CursorUnderFinger` |
| `spi_touch` | two commands, a limit of 1 poll | `TypeOK`, `SpoilsAtMostNext`, `NeverHangs` |

Bounds. A ring of 3 has all the cases of a ring of 256: empty, one telegram, full
(two), wrapped and not; the proofs then cover every size. `MaxAcc = 5` makes both
indices wrap with telegrams waiting, `MaxBus = 3` overflows a receive ring. `MaxBurst = 2`
leaves a telegram in the ring behind a busy transmit buffer. The counters start
again at 0 whenever the rings are emptied, so the bounds hold per period between
flushes.

The timing of `wb_shell` is the tightest there is, and so answers the open item in
`cpuinterface.vhd` ("Calculate and simulate and verify number of nessecery CPU Waitstates"): a
strobe must last four clocks for a read to return the addressed slave
(`ReadLatency`), two clocks for a write behind a read not to be lost; inside the port one
clock between accesses is enough; after an access that times out the processor must
pause five clocks (six if strobes may be as short as two); and after a reset a write is safe if it starts three clocks after the
reset is over, whatever the processor did before. With one clock less in the strobe,
the pause or the recovery TLC finds a lost or misdirected write, or a read of the wrong slave. Counters of the pins
stop at the largest of these numbers, so longer accesses and pauses are covered.

With `Width = 4` both the tick count and the millisecond count wrap many times, the second
twice as often as the first, and the signed difference still has room for an interval and two ticks.
`MaxAge` is where the age of a soft timer is capped, above every bound `InTime` checks. The bound of
`InTime` is tight: one tick because the comparison is strict and one because the match at the end
may still wait for main. A clock of 3, 2 and 3 has every pattern of carries, midnight
included. `Coord = {1, 3}` gives triples of samples with dividers of both signs and on one line; four
touches are three for the points and one that comes down or lifts in the middle of a sample, before, between or after them. With
`PollLimit = 1` SpiXfer gives up before, while and after a byte arrives; the proof covers every limit.

Deadlock is checked in all other runs: main can always go on or make a call. In
`CanIoctl` the program really can stop (`CAN_FORCE_BUS_OFF` in reset mode waits
forever), so that configuration switches the check off.

Fairness. `FairSpec` of `CanDriver` asks that a running handler and a running call go
on, that a frame in the transmit buffer is eventually sent, and, strongly, that the
handler is entered for a request that keeps coming back: `can_read` masks `RI` over
and over, but for a few dozen instructions at a time, and the interrupt is taken at
the first instruction after the mask is off. Nothing is assumed of main between
calls, and nothing makes the bus deliver a telegram. `FairSpec` of
`CanIoctl` asks that a controller at the limit goes bus-off and that the waiting
loop runs. `FairSpec` of `SoftTimer` asks that the timer runs on, that the handler is entered and
finished, and, strongly, that main runs between handlers; `FairSpec` of `RtcAlarm` asks the
same of handler and main and nothing of the clock. `Spec` of `SpiTouch` asks only that the code of a conversation
goes on: that the port ever finishes a byte is not assumed.

### Where code and documentation part

Three more runs check what a comment or header of the repository says and find a
counterexample:

| Run | Property | Result |
|---|---|---|
| `can_tx_stall` | `TxDrains` | `CAN_Handler` reads `CANICR` twice and the first read clears `TI1`: after `can_write` of two telegrams the second stays in the ring until the next `can_write` |
| `can_tx_off` | `TxArmed` | main turns `TIE1` off while a frame is on the wire; the next `can_write` saves and restores the 0 and returns with a telegram waiting |
| `wb_stray` | `DummyAddressStoresNothing` | the master takes a new address on every strobe, so a read that starts while a write to an undecoded address waits for its timeout turns that write into one to the register being read |

The demo in `main.c` writes one telegram at a time with a long pause, which hides
the first two; the pin file of the board keeps the last one away from the application, not
from the test bench. Two more remarks of the VHDL are not what it does: `Rd_o` is called a
"single clock" strobe (`cpuinterface.vhd:36`) and lasts as long as the access, and the "write to Q
register" of the output port (`MAC/WB_shell/HDL/src/WBO.vhd:51`) puts the value of the write
before on the port, since `Q` and `r1` are loaded at the same edge.

Divergences that need no run, because one reading of the lines shows them; the models keep
what the code does:

* The usage example of `can.h` opens one controller; the handler reads through both pointers
  (`NoNullRegs` holds for the layout of `main.c`, which opens both).
* `MODE_OPERATING` clears `RM` only, so self-test and listen-only mode survive it; `ModeInForce`
  covers all other modes.
* `CAN_MODE` of the status is documented as "1 = CAN enabled, 0 = CAN disabled" (`can.h:150-151`). The code returns the
  number of a mode: 0 is self-test, 1 listen-only, 2 operating, 3 reset, and a listen-only controller that is
  bus-off is reported as listen-only. `ModeInForce` is about the mode bits and says nothing of this number.
* The prescaler table is written for a CAN clock of 57.6 MHz ("PCLKDIV = 1", `can.c:97`, "currently only "57.6MHZ" supported", `can.c:139`); `platform/framework.c:137-139` with
  `config.h:53` sets half of it, so on this platform every rate is half the named one ("125K" is 61.5 kbit/s). No property speaks of an
  absolute rate: `SameRateSameBit` says that the same named rate is the same number of clocks.
* A rejected rate leaves a 1000K controller with 18 quanta in a bit instead of 19, 5 per cent fast, and the status goes on saying 1000K.
* `touch_xyz` is said to return the "pressure value" (`touch.c:207`); for an untouched panel `(ix * iz2 - iz1) / iz1` (`touch.c:232`) is computed from
  noise and can be a pressure too.
* `SPIError` is documented to count errors it can read from the status register (`spi.c:65-66`) but
  compares a masked bit with 1, so it never counts or reports a collision. `SpoilsAtMostNext` holds nevertheless.
* "toggle GPIO" (`lpc2478_timer_irq/main.c`): `FIO2PIN = ~FIO2PIN & bit` also clears the pin of the other task.
* "Alarm set today at" (`lpc2478_rtc_alarm/main.c`) is printed before any alarm is set; until the
  key is pressed the alarm is the one the battery kept.
* "Calibrated !" (`calib_app.c:278`) is shown for points on one line too.

## The proofs

`CanDriverProofs` proves, for every ring size of at least 2, every choice of
controllers and `can_ioctl` commands and all values of the bounds (the assumptions are
`SizeAssumption`, `AppAssumption` and `BoundAssumption`):

* `TypeCorrect`: `Spec => []TypeOK`.
* `RxSound`: `Spec => []RxRingSound`. Strengthened by `RxLocal`: while `can_read` is in its
  loop `RIE` is off, so the handler cannot move `rx_head`, and at `r_take` the ring
  is not empty.
* `NeverOverwritten`: `Spec => NoTxOverwrite`. Needs `FillOwnsBuffer`: from main's
  read of `TBS1` to `TR` the controller stays idle and the handler finds no `TI1`.
  The latter holds because `TI1` can be set between the handler's two reads only by
  the end of a frame, and there is none. No timing assumption is used.
* `TxSound`: under `SlowFrames`, `Spec => []TxRingSound`. Strengthened by `TxLocal` and
  `IsrLocal`. The crux is `TbsNotStale`: if the handler has emptied the ring since main
  found a telegram in it, then the controller is still busy with that telegram, so
  main's read of `TBS1` sends it away. Without `SlowFrames` this step fails, and
  so does the property: with `SlowFrames = FALSE` in `CanTx.cfg` TLC finds `tx_tail` passing `tx_head`.

* `RingsSound`: under `SlowFrames`, `Spec => []RingInv`, the conjunction of the two ring invariants with
  their strengthenings, which is what the runs check.
* `ReceiveArmed`: `Spec => []RxArmed`, for frames of any length. `ArmedInv`: `can_read` will put back
  an `RIE` that was on, and the `CANIER` word any other read-modify-write of main has loaded has `RIE` on.
* `RegsSet`: `Spec => []NoNullRegs` for an application that opens every controller (`AppDevs = Dev`),
  as the demo does. `CAN_Handler` polls both controllers, so an application that opens only one
  does read through an unset pointer; the hypothesis is needed.
* `RefinesFifo`: under `SlowFrames`, `Spec => ImplementsFifo`, the refinement of `CanFifo`. `SeqPush`, `SeqPop` and
  `SeqNone` carry the ring arithmetic to the sequences of the refinement mapping; `LoadIsSend`,
  `PutIsAccept`, `ReceiveIsArrive`, `TakeIsRead` and `RestartIsFlush` map the five steps that touch a
  ring to the five actions of `CanFifo`, and every other step is a stutter.

Ring arithmetic is in the lemmas `RingPush`, `RingPop` and `RingNone`: what a ring holds
after head or tail moves by one, or when it is emptied. Each invariant has a lemma
that one step preserves it, with one case per action.

`WbShellProofs` proves, for every address set and every timing of the processor
(`AccessAssumption`):

* `TypeCorrect`: `Spec => []TypeOK`, that is, only bits the processor drove reach the
  registers. `DataFollowsWrite` strengthens it: behind a write strobe both ranks of the CPU
  interface hold driven data.
* `BusReleased`: `Spec => []BusIsReleased`. `TimerFollowsCycle` ties the timer to the length of
  the cycle: it never runs outside a cycle or under an error, and while it runs it is
  two behind `busy`.
* `ReadOnce`: `Spec => OneCyclePerRead`, from `ServedWaits`: after its cycle a strobe finds the
  master in `wait_end`.
* `WritesArrive` and `ReadsArrive`: under `Timed` (strobes of at least 3 clocks, a pause of at least 5 after
  an unanswered access, 3 clocks of recovery), `RegistersHoldWrites` and `ReadsTheAddressed`. The
  shell has no wait line, so some such bound is needed; these are the least, with
  any of them one smaller TLC finds a lost or misdirected write. The argument, `WbInv`: `Rest` bounds the clocks until the
  master is idle without an error; it falls by one on each clock without a strobe. `Ranks` says on which clocks an access has
  strobes, `Addresses` which address they carry, and `Resting` that `Rest` is at most 5 when
  an access may start, also after a reset, which lets a write strobe through with its address wiped out.
  So a trusted write finds the master at rest when its strobe arrives (`TrustInv`, `KnownInv`), and moves to the
  register in three clocks while no other cycle stores (`StoreInv`).

`CanIoctlProofs` proves, for every order of commands: `TypeCorrect`; `BaudReadBack`, through `BaudInv`, which
ties the prescaler to the rate last accepted; `ModeStays` (`ModeInForce`) and `ModeSound`
(`ResetOnlyOnRequest`), through `ModeInv`, which says for each mode asked for
which bits of `CANMOD` can be set; and `BitFollowsRate` (`SameRateSameBit`), through `TimingInv`: the
sample parameters are those of the rate or, after a rejected rate, those of the slower rates.

`SoftTimerProofs` proves, for every word width and every set of tick lengths (`TimerAssumption`): `TypeCorrect` and
`EveryMatchCounted` (`TickPerMatch`). The strengthening is `FlagFollows`: the flag stays up
until the handler that has counted it clears it, and there is none before the set-up.
For every pair of intervals that is two ticks short of half the range of an int, it also proves
`NotBeforeInterval` (`NeverEarly`) and `ServedInTime` (`InTime`), both from `LagInv`: there is a number `k` of ticks counted since the
reset of a soft timer, such that its base is `k` ticks, of the length in force, behind the present time up to whole words; it is
claimed for the timers that are `kept`, and `KeptStep` says that these are the ones whose tick has not changed. With
the pending tick, `k` exceeds the matches since the reset by at most one, and falls short of them only when
a match was lost; while none is, main's look at the timer between any two matches
(`Looked`) bounds it. `DueHasRun` and `NotDueHasNotRun` say what main may conclude from the signed
difference of two wrapped products.

`RtcAlarmProofs` proves, for every modulus, time and alarm: `TypeCorrect`; `AlarmKept`
(`AlarmNotLost`), through `AlarmInv`; and `TimeSetExactly` (`SetTimeExact`), through `WrittenSoFar`: after the
second, and after the minute, what has been written is still what was asked for plus the ticks of the call;
and `TimeNotBehind` (`ReadNotBehind`), through `ReadInv`, which counts the time of the call in seconds less the days that
have passed, and says after each register read how far the result can be from it.

`CalibrateProofs` proves `CalibrationExact`: for any display points and any three samples not on one
line, `getDisplayPoint` takes each sample exactly to its display point. The numerators are
multiples of the divider at these samples, so the truncation does no harm.
The arithmetic is that of integers, which is faithful: the code computes in 64 bits on samples
of 13.

`TouchCalibProofs` proves `TouchGivesOnePoint` (`OnePointPerTouch`) for all coordinates and any number of touches.
The crux is `TouchIsNew`: a release is seen with no finger on the panel, or in a sample during which one came or went, so a finger
that is down when `touchReleased` is set, or that came down during the sample, is a touch that has supplied no point. `TypeCorrect` needs `TypeInv`, which knows the points and
samples a matrix was made of. `CursorExact` proves the action property `CursorUnderFinger` from `CalibrationExact` and
`CursorInv`: a sample of a steady touch is its place, so the points stored are the places of the three touches and
the matrix is the one of those points.

`SpiTouchProofs` proves, for every poll limit: `TypeCorrect` and `LateSpoilsAtMostNext`
(`SpoilsAtMostNext`). `PortSync`: when the loop ends because the transfer is complete, the port is
idle and the read that follows clears its flag, so a conversation without a timeout leaves
the port as a fresh one finds it. `PanelSync`: in such a conversation behind another one the
panel has received just the bytes that were sent.

Only model-checked are the liveness properties `RxServed`, `BusOffReturns`, `TasksServed`, `AlarmReported` and
`NeverHangs`, which are beyond this prover. Every invariant, action property and refinement of a passing run is a theorem.

## Not modelled

Contents of telegrams (a telegram is moved whole), acceptance filter, pin selection,
profiling pins, transmit buffers 2 and 3 and the interrupt enables `TIE2` and `TIE3`
(never set), `CAN_SET_FILTER` and `CAN_AUTO_SET_BAUD_RATE` (empty), error interrupts
(never enabled). In `CanDriver` the controller does not go bus-off by itself;
`CAN_FORCE_BUS_OFF` and bus-off are in `CanIoctl`.

`SoftTimer`: timer 1, whose handler is the same code and whose ticks nobody reads, and the
callbacks of the copy in `Codesign_FPGA_IP`. `RtcAlarm`: the date registers (`rtc.c:187-191`), which the alarm does not compare, and `RTCStop` and
`RTC_CTCReset`, which nobody calls. `ReadNotBehind` is therefore about the time of day: a carry at midnight between the reads of hour and
day gives a date a day ahead, one at the end of a month between day and month a date a month ahead, and nothing bounds that. `SpiTouch`: `SPIInit`, register programming before the first transfer.
Not started: the UART programs (polled output and a handler of a few lines), the key loop of the
FPGA demo, external and key interrupts.

The rest of the repository is not code of this system. U-Boot is a vendored boot loader, the `isim` directories hold C generated by the
FPGA simulator, the `swim` directories a third-party library and its fonts, and `MAC/` is a second copy of everything: together
they are more than 99 per cent of the lines, which is why the modules cover a small share
of the repository although they cover most of its own interrupt and bus logic. `rprintf`, LCD set-up, PWM, ADC and DAC are
straight-line or third-party.

## Plan

1. Done: `CanRegs`, `CanDriver`, `CanFifo`, `CanIoctl` with their runs and theorems.
2. Done: `WbShell` with its runs and five theorems. Left: an abstract register file it implements.
3. Done: `SoftTimer`, `RtcAlarm`, `Calibrate`, `TouchCalib`, `SpiTouch` with their runs and theorems.
4. Done: every safety property of the passing runs as a theorem. Left to prove: lemmas towards the liveness
   properties (that the helpful action of each stays enabled until it is taken), and the necessity of
   the timing hypotheses.
5. Left to model: the UART programs and the key loop of the FPGA demo.
