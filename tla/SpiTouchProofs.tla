--------------------------- MODULE SpiTouchProofs ---------------------------
(***************************************************************************)
(* Recovery from a late transfer, for every poll limit of SpiXfer.  The    *)
(* heart of the argument: when the loop ends because the transfer is       *)
(* complete, the port is idle and its flag is cleared by the read that     *)
(* follows, so a conversation that did not time out leaves the port as a   *)
(* fresh one finds it, whatever went before.                               *)
(***************************************************************************)
EXTENDS SpiTouch, TLAPS

(* The parts of the type invariant; a conversation under way has a command. *)
FlagsOK ==
  /\ busy \in BOOLEAN /\ SPIF \in BOOLEAN /\ WCOL \in BOOLEAN /\ seen \in BOOLEAN
  /\ selected \in BOOLEAN /\ whole \in BOOLEAN
  /\ late \in BOOLEAN /\ lateBefore \in BOOLEAN
PanelOK ==
  /\ tx \in Command \cup {"empty"} /\ dr \in Answer
  /\ bytes \in 0 .. 3 /\ first \in Command \cup {"none", "empty"}
CodeOK ==
  /\ pc \in {"idle", "write", "poll", "error", "read"}
  /\ cmd \in Command \cup {"none"} /\ (pc # "idle" => cmd \in Command)
  /\ rbytes \in Index /\ i \in 0 .. PollLimit + 1
  /\ result \in [Index -> Answer]
  /\ errors \in Nat
PartsOK == FlagsOK /\ PanelOK /\ CodeOK

(* Every step of the port and of the code keeps the types. *)
LEMMA PartsStep == PartsOK /\ [Next]_vars => PartsOK'
<1> SUFFICES ASSUME PartsOK, [Next]_vars PROVE PartsOK'
  OBVIOUS
<1> USE SpiAssumption DEF PartsOK, portVars, panelVars, codeVars, histVars
<1>1. FlagsOK'
  <2>1. CASE Finish
    BY <2>1 DEF Finish, FlagsOK
  <2>2. ASSUME NEW c \in Command, spi_read_tp(c) PROVE FlagsOK'
    BY <2>2 DEF spi_read_tp, FlagsOK
  <2>3. CASE Write
    BY <2>3 DEF Write, FlagsOK
  <2>4. CASE Poll
    BY <2>4 DEF Poll, FlagsOK
  <2>5. CASE SPIError \/ Read
    BY <2>5 DEF SPIError, Read, FlagsOK
  <2>6. CASE UNCHANGED vars
    BY <2>6 DEF vars, FlagsOK
  <2> QED
    BY <2>1, <2>2, <2>3, <2>4, <2>5, <2>6 DEF Next, Transfer
<1>2. PanelOK'
  <2>1. CASE Finish
    <3>1. Reply \in Answer
      BY DEF Reply, Answer, Index
    <3> QED
      BY <2>1, <3>1 DEF Finish, PanelOK
  <2>2. ASSUME NEW c \in Command, spi_read_tp(c) PROVE PanelOK'
    BY <2>2 DEF spi_read_tp, PanelOK
  <2>3. CASE Write
    <3>1. Out \in Command \cup {"empty"}
      BY <2>3 DEF Write, Out, CodeOK
    <3> QED
      BY <2>3, <3>1 DEF Write, PanelOK
  <2>4. CASE Poll \/ SPIError \/ Read \/ UNCHANGED vars
    BY <2>4 DEF Poll, SPIError, Read, vars, PanelOK
  <2> QED
    BY <2>1, <2>2, <2>3, <2>4 DEF Next, Transfer
<1>3. CodeOK'
  <2>1. CASE Finish \/ UNCHANGED vars
    BY <2>1 DEF Finish, vars, CodeOK
  <2>2. ASSUME NEW c \in Command, spi_read_tp(c) PROVE CodeOK'
    <3>1. [k \in Index |-> Junk] \in [Index -> Answer] /\ 0 \in Index
      BY DEF Answer, Index
    <3> QED
      BY <2>2, <3>1 DEF spi_read_tp, CodeOK
  <2>3. CASE Write
    BY <2>3 DEF Write, CodeOK
  <2>4. CASE Poll
    <3>1. i' \in 0 .. PollLimit + 1
      BY <2>4 DEF Poll, CodeOK
    <3>2. pc' \in {"poll", "error"} /\ pc = "poll"
      BY <2>4 DEF Poll
    <3> QED
      BY <2>4, <3>1, <3>2 DEF Poll, CodeOK
  <2>5. CASE SPIError
    <3>1. errors' = errors
      BY <2>5 DEF SPIError
    <3> QED
      BY <2>5, <3>1 DEF SPIError, CodeOK
  <2>6. CASE Read
    <3>1. result' \in [Index -> Answer] /\ rbytes' \in Index
      BY <2>6 DEF Read, Slot, Index, PanelOK, CodeOK
    <3> QED
      BY <2>6, <3>1 DEF Read, CodeOK
  <2> QED
    BY <2>1, <2>2, <2>3, <2>4, <2>5, <2>6 DEF Next, Transfer
<1> QED
  BY <1>1, <1>2, <1>3

(* The port idle, the panel deselected and no conversation: all types hold. *)
LEMMA PartsInit == Init => PartsOK
<1> SUFFICES ASSUME Init PROVE PartsOK
  OBVIOUS
<1>1. FlagsOK
  BY DEF Init, FlagsOK
<1>2. PanelOK /\ CodeOK
  BY SpiAssumption DEF Init, PanelOK, CodeOK, Answer, Index
<1> QED
  BY <1>1, <1>2 DEF PartsOK

(***************************************************************************)
(* Port, panel and driver keep their types; the poll counter of SpiXfer    *)
(* stays within its limit for every byte.                                  *)
(***************************************************************************)
THEOREM TypeCorrect == Spec => []TypeOK
<1>1. PartsOK => TypeOK
  BY DEF PartsOK, FlagsOK, PanelOK, CodeOK, TypeOK
<1> QED
  BY <1>1, PartsInit, PartsStep, PTL DEF Spec

----------------------------------------------------------------------------
(***************************************************************************)
(* The port: a complete transfer is not under way, and a conversation that *)
(* did not time out finds and leaves the port idle with its flag cleared.  *)
(***************************************************************************)
IdleIsComplete == busy => ~SPIF
DoneIsSeen ==
  pc \in {"error", "read"} /\ ~late => SPIF /\ ~busy /\ (pc = "read" => seen)
LeftIdle == pc = "idle" /\ ~late => ~busy /\ ~SPIF
FoundIdle == pc = "write" /\ ~late /\ (rbytes > 0 \/ ~lateBefore) => ~busy /\ ~SPIF
PortSync == IdleIsComplete /\ DoneIsSeen /\ LeftIdle /\ FoundIdle

(***************************************************************************)
(* The panel, in a conversation without a timeout behind another one: it   *)
(* has received the bytes that were sent, the first of them the command,   *)
(* and its answer to the last one is in the data register.                 *)
(***************************************************************************)
Clean == ~late /\ ~lateBefore
OnWire == busy /\ bytes = rbytes /\ (rbytes = 0 => tx = cmd)
Arrived == bytes = rbytes + 1 /\ (rbytes > 0 => dr = <<cmd, rbytes>>)
Listening == pc # "idle" => selected /\ whole /\ (bytes > 0 => first = cmd)
InStep ==
  /\ pc = "write" => bytes = rbytes
  /\ pc = "poll" => OnWire \/ (~busy /\ Arrived)
  /\ pc \in {"error", "read"} => Arrived
Stored == pc # "idle" => \A k \in 1 .. 2 : k < rbytes => result[k] = <<cmd, k>>
Answered == pc = "idle" /\ cmd # "none" => result[1] = <<cmd, 1>> /\ result[2] = <<cmd, 2>>
PanelSync == Clean => Listening /\ InStep /\ Stored /\ Answered

(* The port stays in step with the code. *)
LEMMA PortStep == PartsOK /\ PortSync /\ [Next]_vars => PortSync'
<1> SUFFICES ASSUME PartsOK, PortSync, [Next]_vars PROVE PortSync'
  OBVIOUS
<1> USE DEF PortSync, IdleIsComplete, DoneIsSeen, LeftIdle, FoundIdle, PartsOK, FlagsOK,
            portVars, panelVars, codeVars, histVars
<1>1. CASE Finish
  BY <1>1 DEF Finish
<1>2. ASSUME NEW c \in Command, spi_read_tp(c) PROVE PortSync'
  BY <1>2 DEF spi_read_tp
<1>3. CASE Write
  BY <1>3 DEF Write
<1>4. CASE Poll
  BY <1>4 DEF Poll, Waits
<1>5. CASE SPIError
  BY <1>5 DEF SPIError
<1>6. CASE Read
  BY <1>6 DEF Read
<1>7. CASE UNCHANGED vars
  BY <1>7 DEF vars
<1> QED
  BY <1>1, <1>2, <1>3, <1>4, <1>5, <1>6, <1>7 DEF Next, Transfer

(* The panel stays in step with a conversation that does not time out. *)
LEMMA PanelStep == PartsOK /\ PortSync /\ PanelSync /\ [Next]_vars => PanelSync'
<1> SUFFICES ASSUME PartsOK, PortSync, PanelSync, [Next]_vars, Clean'
             PROVE  Listening' /\ InStep' /\ Stored' /\ Answered'
  BY DEF PanelSync
<1> USE SpiAssumption DEF PartsOK, portVars, panelVars, codeVars, histVars
<1>1. CASE Finish
  <2>1. /\ busy /\ busy' = FALSE /\ dr' = Reply
        /\ UNCHANGED <<tx, selected, whole, pc, cmd, rbytes, result, late, lateBefore>>
        /\ selected => first' = (IF bytes = 0 THEN tx ELSE first)
        /\ selected => bytes' = (IF bytes < 3 THEN bytes + 1 ELSE bytes)
    BY <1>1 DEF Finish
  <2>2. Clean /\ Listening /\ InStep /\ Stored /\ Answered
    BY <2>1 DEF Clean, PanelSync
  <2>3. pc \in {"idle", "poll"}
    BY <2>1, <2>2 DEF PortSync, DoneIsSeen, FoundIdle, Clean, CodeOK
  <2>4. CASE pc = "idle"
    BY <2>1, <2>2, <2>4 DEF Listening, InStep, Stored, Answered
  <2>5. CASE pc = "poll"
    <3>1. selected /\ whole /\ bytes = rbytes /\ (bytes = 0 => tx = cmd) /\ (bytes > 0 => first = cmd)
      BY <2>1, <2>2, <2>5 DEF Listening, InStep, OnWire
    <3>2. cmd \in Command /\ rbytes \in 0 .. 2
      BY <2>5 DEF CodeOK, Index
    <3>3. bytes' = rbytes + 1 /\ first' = cmd
      BY <2>1, <3>1, <3>2
    <3>4. rbytes > 0 => dr' = <<cmd, rbytes>>
      BY <2>1, <3>1, <3>2 DEF Reply
    <3>5. Arrived'
      BY <2>1, <3>3, <3>4 DEF Arrived
    <3>6. Listening' /\ Answered'
      BY <2>1, <2>5, <3>1, <3>3 DEF Listening, Answered
    <3>7. InStep'
      BY <2>1, <2>5, <3>5 DEF InStep
    <3> QED
      BY <2>1, <2>2, <3>6, <3>7 DEF Stored
  <2> QED
    BY <2>3, <2>4, <2>5
<1>2. ASSUME NEW c \in Command, spi_read_tp(c)
      PROVE  Listening' /\ InStep' /\ Stored' /\ Answered'
  <2>1. /\ pc = "idle" /\ pc' = "write" /\ cmd' = c /\ selected' = TRUE
        /\ bytes' = 0 /\ rbytes' = 0 /\ whole' = ~busy /\ lateBefore' = late
    BY <1>2 DEF spi_read_tp
  <2>2. ~busy
    BY <2>1 DEF Clean, PortSync, LeftIdle
  <2>3. whole' = TRUE
    BY <2>1, <2>2
  <2>4. InStep' /\ Stored' /\ Answered'
    BY <2>1 DEF InStep, Stored, Answered
  <2> QED
    BY <2>1, <2>3, <2>4 DEF Listening
<1>3. CASE Write
  <2>1. /\ pc = "write" /\ pc' = "poll"
        /\ UNCHANGED <<dr, selected, bytes, first, whole, cmd, rbytes, result, late, lateBefore>>
    BY <1>3 DEF Write
  <2>2. Clean /\ Listening /\ InStep /\ Stored
    BY <2>1 DEF Clean, PanelSync
  <2>3. busy' = TRUE /\ tx' = Out
    BY <1>3, <2>1, <2>2 DEF Write, Clean, PortSync, FoundIdle
  <2>4. OnWire'
    BY <2>1, <2>2, <2>3 DEF OnWire, InStep, Out
  <2>5. Listening' /\ Answered'
    BY <2>1, <2>2 DEF Listening, Answered
  <2>6. InStep'
    BY <2>1, <2>4 DEF InStep
  <2>7. Stored'
    BY <2>1, <2>2 DEF Stored
  <2> QED
    BY <2>5, <2>6, <2>7
<1>4. CASE Poll
  <2>1. /\ pc = "poll" /\ pc' \in {"poll", "error"}
        /\ UNCHANGED <<busy, SPIF, tx, dr, selected, bytes, first, whole, cmd, rbytes, result, lateBefore>>
        /\ ~late /\ (pc' = "error" => SPIF)
    BY <1>4 DEF Poll, Waits, Clean
  <2>2. Listening /\ InStep /\ Stored
    BY <2>1 DEF Clean, PanelSync
  <2>3. pc' = "error" => Arrived
    BY <2>1, <2>2 DEF InStep, OnWire, PortSync, IdleIsComplete
  <2>4. InStep'
    BY <2>1, <2>2, <2>3 DEF InStep, OnWire, Arrived
  <2>5. Listening' /\ Stored' /\ Answered'
    BY <2>1, <2>2 DEF Listening, Stored, Answered
  <2> QED
    BY <2>4, <2>5
<1>5. CASE SPIError
  <2>1. /\ pc = "error" /\ pc' = "read"
        /\ UNCHANGED <<dr, selected, bytes, first, whole, cmd, rbytes, result, late, lateBefore>>
    BY <1>5 DEF SPIError
  <2>2. Listening /\ Arrived /\ Stored
    BY <2>1 DEF Clean, PanelSync, InStep
  <2> QED
    BY <2>1, <2>2 DEF Listening, InStep, Arrived, Stored, Answered
<1>6. CASE Read
  <2>1. /\ pc = "read" /\ result' = [result EXCEPT ![rbytes] = dr]
        /\ UNCHANGED <<bytes, first, whole, cmd, late, lateBefore>>
        /\ \/ rbytes < 2 /\ rbytes' = rbytes + 1 /\ pc' = "write" /\ selected' = selected
           \/ ~(rbytes < 2) /\ pc' = "idle" /\ rbytes' = rbytes
    BY <1>6 DEF Read, Slot
  <2>2. Listening /\ Arrived /\ Stored
    BY <2>1 DEF Clean, PanelSync, InStep
  <2>3. rbytes \in 0 .. 2 /\ result \in [0 .. 2 -> Answer]
    BY DEF CodeOK, Index
  <2>4. \A k \in 1 .. 2 : k <= rbytes => result'[k] = <<cmd, k>>
    BY <2>1, <2>2, <2>3 DEF Stored, Arrived
  <2>5. InStep'
    BY <2>1, <2>2 DEF InStep, Arrived
  <2>6. Listening'
    BY <2>1, <2>2 DEF Listening
  <2>7. Stored'
    BY <2>1, <2>3, <2>4 DEF Stored
  <2>8. Answered'
    BY <2>1, <2>3, <2>4 DEF Answered
  <2> QED
    BY <2>5, <2>6, <2>7, <2>8
<1>7. CASE UNCHANGED vars
  BY <1>7 DEF vars, Clean, PanelSync, Listening, InStep, OnWire, Arrived, Stored, Answered
<1> QED
  BY <1>1, <1>2, <1>3, <1>4, <1>5, <1>6, <1>7 DEF Next, Transfer

(***************************************************************************)
(* For every poll limit: a conversation that does not time out, right      *)
(* behind another one that did not, returns the answers to its own         *)
(* command, however many transfers were late before.                       *)
(***************************************************************************)
THEOREM LateSpoilsAtMostNext == Spec => []SpoilsAtMostNext
<1>1. Init => PortSync
  BY DEF Init, PortSync, IdleIsComplete, DoneIsSeen, LeftIdle, FoundIdle
<1>2. Init => PanelSync
  BY DEF Init, PanelSync, Listening, InStep, Stored, Answered
<1>3. PanelSync => SpoilsAtMostNext
  BY DEF PanelSync, Clean, Answered, SpoilsAtMostNext
<1> QED
  BY <1>1, <1>2, <1>3, PartsInit, PartsStep, PortStep, PanelStep, PTL DEF Spec
============================================================================
