----------------------------- MODULE SpiTouch ------------------------------
(***************************************************************************)
(* One conversation with the touch panel: spi_read_tp and tp_xfer of       *)
(* drivers/touch.c on SpiXfer and SPIError of drivers/spi.c, in            *)
(* lpc2478_lcd_cursor.  A conversation selects the panel, sends a command  *)
(* and two empty bytes, and takes the answers to the last two.             *)
(*                                                                         *)
(* SpiXfer waits for the port a bounded number of polls and then goes on,  *)
(* so a byte may still be on the wire when the next one is written.  The   *)
(* port and the panel are external: a byte written while another is        *)
(* shifted, or before the end of the last transfer has been seen in the    *)
(* status register, is dropped and flagged as a collision; a selection     *)
(* into which a foreign byte reaches yields no answer of use.              *)
(***************************************************************************)
EXTENDS Integers

CONSTANTS
  Command,     \* the commands of the panel
  PollLimit    \* polls before SpiXfer gives up, 500 in the code

ASSUME SpiAssumption ==
  /\ Command # {} /\ "none" \notin Command /\ "empty" \notin Command
  /\ PollLimit \in Nat

Index == 0 .. 2              \* the bytes of a conversation
Junk == <<"none", 0>>
Answer == {Junk} \cup (Command \X Index)

VARIABLES
  busy, tx, dr,              \* the port: shifting, the byte sent, the byte received
  SPIF, WCOL, seen,          \* transfer complete, collision; SPIF has been read
  selected, bytes, first, whole,  \* the panel: bytes of this selection, the first
  pc, cmd, rbytes, i, result,     \* the code
  errors,                    \* SPIWRITECOL
  late, lateBefore           \* history: this conversation, the one before timed out

portVars == <<busy, tx, dr, SPIF, WCOL, seen>>
panelVars == <<selected, bytes, first, whole>>
codeVars == <<cmd, rbytes, i, result>>
histVars == <<late, lateBefore>>
vars == <<portVars, panelVars, pc, codeVars, errors, histVars>>

Init ==
  /\ busy = FALSE /\ tx = "empty" /\ dr = Junk
  /\ SPIF = FALSE /\ WCOL = FALSE /\ seen = FALSE
  /\ selected = FALSE /\ bytes = 0 /\ first = "none" /\ whole = TRUE
  /\ pc = "idle" /\ cmd = "none" /\ rbytes = 0 /\ i = 0
  /\ result = [k \in Index |-> Junk]
  /\ errors = 0
  /\ late = FALSE /\ lateBefore = FALSE

TypeOK ==
  /\ busy \in BOOLEAN /\ tx \in Command \cup {"empty"} /\ dr \in Answer
  /\ SPIF \in BOOLEAN /\ WCOL \in BOOLEAN /\ seen \in BOOLEAN
  /\ selected \in BOOLEAN /\ bytes \in 0 .. 3
  /\ first \in Command \cup {"none", "empty"} /\ whole \in BOOLEAN
  /\ pc \in {"idle", "write", "poll", "error", "read"}
  /\ cmd \in Command \cup {"none"} /\ rbytes \in Index /\ i \in 0 .. PollLimit + 1
  /\ result \in [Index -> Answer]
  /\ errors \in Nat
  /\ late \in BOOLEAN /\ lateBefore \in BOOLEAN

----------------------------------------------------------------------------
(* The port and the panel. *)

(* What the panel shifts out against the byte it is receiving. *)
Reply ==
  IF selected /\ whole /\ bytes \in 1 .. 2 /\ first \in Command
  THEN <<first, bytes>> ELSE Junk

(* The byte on the wire is through; this may take any time, or for ever. *)
Finish ==
  /\ busy
  /\ busy' = FALSE
  /\ dr' = Reply
  /\ SPIF' = TRUE /\ seen' = FALSE
  /\ IF selected
     THEN /\ first' = IF bytes = 0 THEN tx ELSE first
          /\ bytes' = IF bytes < 3 THEN bytes + 1 ELSE bytes
     ELSE UNCHANGED <<first, bytes>>
  /\ UNCHANGED <<tx, WCOL, selected, whole, pc, codeVars, errors, histVars>>

----------------------------------------------------------------------------
(* spi_read_tp: select the panel and start with the command. *)
spi_read_tp(c) ==
  /\ pc = "idle"
  /\ cmd' = c
  /\ selected' = TRUE /\ bytes' = 0 /\ first' = "none" /\ whole' = ~busy
  /\ rbytes' = 0
  /\ result' = [k \in Index |-> Junk]
  /\ pc' = "write"
  /\ late' = FALSE /\ lateBefore' = late
  /\ UNCHANGED <<portVars, i, errors>>

(* datao: the command, then two empty bytes. *)
Out == IF rbytes = 0 THEN cmd ELSE "empty"

(* Mutant: the counter of the loop is not reset between the bytes. *)
WriteKeepsCount ==
  /\ pc = "write"
  /\ i' = i + 1
  /\ pc' = "poll"
  /\ IF busy \/ (SPIF /\ ~seen)
     THEN WCOL' = TRUE /\ UNCHANGED <<busy, tx, SPIF, seen>>
     ELSE busy' = TRUE /\ tx' = Out /\ SPIF' = FALSE /\ seen' = FALSE /\ UNCHANGED WCOL
  /\ UNCHANGED <<dr, panelVars, cmd, rbytes, result, errors, histVars>>

(* SpiXfer: S0SPDR = nData *)
Write ==
  /\ pc = "write"
  /\ i' = 0
  /\ pc' = "poll"
  /\ IF busy \/ (SPIF /\ ~seen)
     THEN WCOL' = TRUE /\ UNCHANGED <<busy, tx, SPIF, seen>>
     ELSE busy' = TRUE /\ tx' = Out /\ SPIF' = FALSE /\ seen' = FALSE /\ UNCHANGED WCOL
  /\ UNCHANGED <<dr, panelVars, cmd, rbytes, result, errors, histVars>>

(* Mutant: the loop polls on for as long as it takes. *)
GivesUpNever == FALSE

(* i++ > 500 *)
GivesUp == i > PollLimit

(* Mutant: the condition of the loop is inverted. *)
WaitsWhileComplete == SPIF

(* The condition of the loop: the transfer is not complete. *)
Waits == ~SPIF

(* One turn of the loop, or its end, with the status register read; i is capped. *)
Poll ==
  /\ pc = "poll"
  /\ seen' = SPIF
  /\ i' = IF Waits /\ i <= PollLimit THEN i + 1 ELSE i
  /\ pc' = IF Waits /\ ~GivesUp THEN "poll" ELSE "error"
  /\ late' = (late \/ (Waits /\ GivesUp))
  /\ UNCHANGED <<busy, tx, dr, SPIF, WCOL, panelVars, cmd, rbytes, result, errors,
                 lateBefore>>

(***************************************************************************)
(* SPIError reads the status register and compares each masked bit with 1; *)
(* the bit of a write collision has the value 64.                          *)
(***************************************************************************)
SPIError ==
  /\ pc = "error"
  /\ seen' = SPIF
  /\ errors' = IF (IF WCOL THEN 64 ELSE 0) = 1 THEN errors + 1 ELSE errors
  /\ pc' = "read"
  /\ UNCHANGED <<busy, tx, dr, SPIF, WCOL, panelVars, codeVars, histVars>>

(* Mutant: the answer is stored one place too early. *)
SlotShifted == IF rbytes = 0 THEN 0 ELSE rbytes - 1

(* The element of in[] that tp_xfer stores an answer in. *)
Slot == rbytes

(***************************************************************************)
(* SpiXfer returns S0SPDR, which clears the flags that were seen; tp_xfer  *)
(* stores it and goes on, or spi_read_tp deselects the panel.              *)
(***************************************************************************)
Read ==
  /\ pc = "read"
  /\ result' = [result EXCEPT ![Slot] = dr]
  /\ SPIF' = (SPIF /\ ~seen) /\ seen' = FALSE
  /\ WCOL' = FALSE
  /\ IF rbytes < 2
     THEN rbytes' = rbytes + 1 /\ pc' = "write" /\ UNCHANGED selected
     ELSE pc' = "idle" /\ selected' = FALSE /\ UNCHANGED rbytes
  /\ UNCHANGED <<busy, tx, dr, bytes, first, whole, cmd, i, errors, histVars>>

----------------------------------------------------------------------------
Transfer == Write \/ Poll \/ SPIError \/ Read
Next == Finish \/ Transfer \/ \E c \in Command : spi_read_tp(c)

(* The code runs on; that the port ever finishes a transfer is not assumed. *)
Spec == Init /\ [][Next]_vars /\ WF_vars(Transfer)

----------------------------------------------------------------------------
(***************************************************************************)
(* A late answer spoils at most the conversation in which SpiXfer gave up  *)
(* and the next one: if neither timed out, spi_read_tp returns the two     *)
(* answers to its own command.  The port is not reset and SPIError never   *)
(* reports the collision, so it is the status read of the next SpiXfer     *)
(* that brings the two sides together again.                               *)
(***************************************************************************)
SpoilsAtMostNext ==
  pc = "idle" /\ cmd # "none" /\ ~late /\ ~lateBefore =>
    result[1] = <<cmd, 1>> /\ result[2] = <<cmd, 2>>

(***************************************************************************)
(* "Ensure software does not hang" (spi.c:119): a conversation comes to an *)
(* end even if the port never finishes a transfer.                         *)
(***************************************************************************)
NeverHangs == pc # "idle" ~> pc = "idle"
============================================================================
