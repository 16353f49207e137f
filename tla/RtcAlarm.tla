----------------------------- MODULE RtcAlarm ------------------------------
(***************************************************************************)
(* The real-time clock, its alarm interrupt and the alarm demo of          *)
(* lpc2478_rtc_alarm (rtc.c and main.c).  The clock is a row of counters   *)
(* that main reads and writes one register at a time while they run; the   *)
(* alarm flag becomes an interrupt, the handler raises alarm_on, and main  *)
(* tests it, clears it and reports the alarm.                              *)
(*                                                                         *)
(* Of the eight counters the seconds, the minutes and the hours are        *)
(* modelled, with small moduli: the alarm compares these three.  The date  *)
(* counters are left out, and so is printing the time.                     *)
(***************************************************************************)
EXTENDS Integers

CONSTANTS
  SecMod, MinMod, HourMod,  \* values of the three counters, 60, 60 and 24
  LocalTime,                \* what a key press sets the clock to
  AlarmTime,                \* what a key press sets the alarm to
  MaxCall                   \* ticks that fall into one call that sets or reads

Field == 1 .. 3             \* seconds, minutes, hours: the order of the accesses
Time == (0 .. SecMod - 1) \X (0 .. MinMod - 1) \X (0 .. HourMod - 1)

ASSUME ClockAssumption ==
  /\ SecMod \in Nat \ {0} /\ MinMod \in Nat \ {0} /\ HourMod \in Nat \ {0}
  /\ LocalTime \in Time /\ AlarmTime \in Time
  /\ MaxCall \in Nat

Day == SecMod * MinMod * HourMod
Seconds(t) == t[1] + SecMod * (t[2] + MinMod * t[3])

VARIABLES
  now,        \* RTC_SEC, RTC_MIN, RTC_HOUR
  running,    \* CCR_CLKEN
  alarm,      \* RTC_ALSEC, RTC_ALMIN, RTC_ALHOUR
  armed,      \* RTC_AMR leaves seconds, minutes and hours unmasked
  ILR,        \* ILR_RTCALF, the interrupt request
  alarm_on,
  hpc,        \* RTCHandler: "idle", "loop", or "set" before alarm_on = 1
  pc,         \* main: the statement, and the register it is about
  current,    \* current_time, in the course of RTCGetTime
  start,      \* history: the clock when the call in progress began
  since,      \* history: ticks since then
  owed        \* history: an alarm that main has not reported yet

clockVars == <<now, running, alarm, armed, ILR>>
callVars == <<current, start, since>>
vars == <<clockVars, alarm_on, hpc, pc, callVars, owed>>

Zero == <<0, 0, 0>>
Pc == {"init", "mask", "start", "key", "test", "clear", "print"} \X {1}
        \cup {"settime", "setalarm", "gettime"} \X Field

TypeOK ==
  /\ now \in Time /\ alarm \in Time
  /\ running \in BOOLEAN /\ armed \in BOOLEAN /\ ILR \in BOOLEAN
  /\ alarm_on \in BOOLEAN
  /\ hpc \in {"idle", "loop", "set"}
  /\ pc \in Pc
  /\ current \in Time /\ start \in Time
  /\ since \in 0 .. MaxCall
  /\ owed \in BOOLEAN

(* The clock runs from a battery: at reset only alarm_on has a known value. *)
Init ==
  /\ now \in Time /\ alarm \in Time
  /\ running \in BOOLEAN /\ armed \in BOOLEAN /\ ILR \in BOOLEAN
  /\ alarm_on = FALSE
  /\ hpc = "idle"
  /\ pc = <<"init", 1>>
  /\ current = Zero /\ start = Zero /\ since = 0
  /\ owed = FALSE

----------------------------------------------------------------------------
(* The clock. *)

Increment(t) ==
  LET carry1 == t[1] = SecMod - 1
      carry2 == carry1 /\ t[2] = MinMod - 1
  IN  << (t[1] + 1) % SecMod,
         IF carry1 THEN (t[2] + 1) % MinMod ELSE t[2],
         IF carry2 THEN (t[3] + 1) % HourMod ELSE t[3] >>

(* Interrupts are enabled at the end of the set-up. *)
IrqOn == pc[1] \notin {"init", "mask", "start"}

(* The flag rises when clock and alarm come to agree, whoever moved. *)
Compare ==
  LET rises == /\ armed' /\ now' = alarm'
               /\ ~(armed /\ now = alarm)
  IN  /\ ILR' = (ILR \/ rises)
      /\ owed' = (owed \/ (rises /\ IrqOn))

(* From the first access of a call that sets or reads the clock to its end. *)
InCall ==
  \/ pc[1] \in {"settime", "gettime"} /\ pc[2] > 1
  \/ pc \in {<<"setalarm", 1>>, <<"test", 1>>}

Tick ==
  /\ running
  /\ InCall => since < MaxCall
  /\ now' = Increment(now)
  /\ since' = IF InCall THEN since + 1 ELSE since
  /\ UNCHANGED <<running, alarm, armed, alarm_on, hpc, pc, current, start>>
  /\ Compare

----------------------------------------------------------------------------
(* RTCHandler *)

HandlerEnter ==
  /\ IrqOn /\ ILR /\ hpc = "idle"
  /\ hpc' = "loop"
  /\ UNCHANGED <<clockVars, alarm_on, pc, callVars, owed>>

(* The loop body is the write that clears the flag: the last one counts. *)
HandlerLoop ==
  /\ hpc = "loop"
  /\ ILR' = FALSE
  /\ hpc' = "set"
  /\ UNCHANGED <<now, running, alarm, armed, alarm_on, pc, callVars, owed>>

HandlerSet ==
  /\ hpc = "set"
  /\ alarm_on' = TRUE
  /\ hpc' = "idle"
  /\ UNCHANGED <<clockVars, pc, callVars, owed>>

----------------------------------------------------------------------------
(* The set-up in main. *)

(* RTCInit: mask the alarm, stop the clock, then clear the flag. *)
RTCInit ==
  /\ pc[1] = "init"
  /\ alarm_on' = FALSE
  /\ armed' = FALSE /\ running' = FALSE /\ ILR' = FALSE
  /\ pc' = <<"mask", 1>>
  /\ UNCHANGED <<now, alarm, hpc, callVars, owed>>

(* RTCSetAlarmMask: hour, minute and second have to match. *)
RTCSetAlarmMask ==
  /\ pc[1] = "mask"
  /\ armed' = TRUE
  /\ pc' = <<"start", 1>>
  /\ UNCHANGED <<now, running, alarm, alarm_on, hpc, callVars>>
  /\ Compare

(* RTCStart: start the counters and clear the flag; then interrupts go on. *)
RTCStart ==
  /\ pc[1] = "start"
  /\ running' = TRUE /\ ILR' = FALSE
  /\ pc' = <<"key", 1>>
  /\ UNCHANGED <<now, alarm, armed, alarm_on, hpc, callVars, owed>>

----------------------------------------------------------------------------
(* The loop of main; each access of a register is a step. *)

Main(label) == pc[1] = label /\ hpc = "idle"

Key ==
  /\ Main("key")
  /\ \E pressed \in BOOLEAN :
       pc' = IF pressed THEN <<"settime", 1>> ELSE <<"gettime", 1>>
  /\ UNCHANGED <<clockVars, alarm_on, hpc, callVars, owed>>

(* Mutant: the hour is accessed first and the second last. *)
DescendingReg(i) == 4 - i

(* The register a call accesses in its i-th statement. *)
Reg(i) == i

(* One more register of a call, or on to the next statement of main. *)
Advance(label, then) ==
  pc' = IF pc[2] < 3 THEN <<label, pc[2] + 1>> ELSE <<then, 1>>

RTCSetTime ==
  /\ Main("settime")
  /\ now' = [now EXCEPT ![Reg(pc[2])] = LocalTime[Reg(pc[2])]]
  /\ since' = IF pc[2] = 1 THEN 0 ELSE since
  /\ Advance("settime", "setalarm")
  /\ UNCHANGED <<running, alarm, armed, alarm_on, hpc, current, start>>
  /\ Compare

(* Mutant: each value goes into the register after its own. *)
SetAlarmShifted ==
  /\ Main("setalarm")
  /\ alarm' = [alarm EXCEPT ![(pc[2] % 3) + 1] = AlarmTime[pc[2]]]
  /\ Advance("setalarm", "gettime")
  /\ UNCHANGED <<now, running, armed, alarm_on, hpc, callVars>>
  /\ Compare

RTCSetAlarm ==
  /\ Main("setalarm")
  /\ alarm' = [alarm EXCEPT ![Reg(pc[2])] = AlarmTime[Reg(pc[2])]]
  /\ Advance("setalarm", "gettime")
  /\ UNCHANGED <<now, running, armed, alarm_on, hpc, callVars>>
  /\ Compare

RTCGetTime ==
  /\ Main("gettime")
  /\ current' = [current EXCEPT ![Reg(pc[2])] = now[Reg(pc[2])]]
  /\ start' = IF pc[2] = 1 THEN now ELSE start
  /\ since' = IF pc[2] = 1 THEN 0 ELSE since
  /\ Advance("gettime", "test")
  /\ UNCHANGED <<clockVars, alarm_on, hpc, owed>>

(* Mutant: the alarm is reported before alarm_on is cleared. *)
PrintFirst(label) ==
  CASE label = "test" -> "print" [] label = "print" -> "clear" [] OTHER -> "key"

(* The order of the statements that handle an alarm. *)
AfterAlarm(label) ==
  CASE label = "test" -> "clear" [] label = "clear" -> "print" [] OTHER -> "key"

(* The call is over: its history is dropped. *)
TestAlarm ==
  /\ Main("test")
  /\ pc' = IF alarm_on THEN <<AfterAlarm("test"), 1>> ELSE <<"key", 1>>
  /\ current' = Zero /\ start' = Zero /\ since' = 0
  /\ UNCHANGED <<clockVars, alarm_on, hpc, owed>>

ClearAlarm ==
  /\ Main("clear")
  /\ alarm_on' = FALSE
  /\ pc' = <<AfterAlarm("clear"), 1>>
  /\ UNCHANGED <<clockVars, hpc, callVars, owed>>

PrintAlarm ==
  /\ Main("print")
  /\ owed' = FALSE
  /\ pc' = <<AfterAlarm("print"), 1>>
  /\ UNCHANGED <<clockVars, alarm_on, hpc, callVars>>

----------------------------------------------------------------------------
RTCHandler == HandlerEnter \/ HandlerLoop \/ HandlerSet
MainStep ==
  \/ RTCInit \/ RTCSetAlarmMask \/ RTCStart
  \/ Key \/ RTCSetTime \/ RTCSetAlarm \/ RTCGetTime
  \/ TestAlarm \/ ClearAlarm \/ PrintAlarm
Next == Tick \/ RTCHandler \/ MainStep

Spec == Init /\ [][Next]_vars

(* The processor takes a pending interrupt, and runs main between handlers. *)
FairSpec == Spec /\ WF_vars(RTCHandler) /\ SF_vars(MainStep)

----------------------------------------------------------------------------
(***************************************************************************)
(* No alarm is lost between the clock and the report: one that main has    *)
(* not reported is still a flag in the clock, in the handler, in alarm_on, *)
(* or about to be printed.  main clears alarm_on before it prints, so an   *)
(* alarm that comes between the test and the clear is covered by the print *)
(* that follows, and one that comes later raises alarm_on again.           *)
(***************************************************************************)
AlarmNotLost ==
  owed => ILR \/ hpc # "idle" \/ alarm_on \/ pc[1] = "print"

(* Every alarm is reported in the end. *)
AlarmReported == owed ~> pc[1] = "print"

(***************************************************************************)
(* RTCGetTime never returns a time of day in the past: it reads the        *)
(* seconds first, so a carry between two reads can make the result late    *)
(* but not early.  It is ahead of the true time by less than one hour,     *)
(* also when the carry goes through midnight.  Nothing is said of the date *)
(* it reads next: a carry at midnight can put it a day ahead, and one at   *)
(* the end of a month a month.                                             *)
(***************************************************************************)
ReadNotBehind ==
  pc[1] = "test" =>
    (Seconds(current) - Seconds(start)) % Day < SecMod * MinMod + since

(***************************************************************************)
(* RTCSetTime sets the running clock exactly: the seconds are written      *)
(* first, so no carry of the old time can reach a minute or an hour that   *)
(* is already written.  After the call the clock shows LocalTime plus the  *)
(* ticks of the call, unless the new seconds ran over in the middle of it. *)
(***************************************************************************)
SetTimeExact ==
  pc = <<"setalarm", 1>> /\ LocalTime[1] + since < SecMod =>
    Seconds(now) = Seconds(LocalTime) + since
============================================================================
