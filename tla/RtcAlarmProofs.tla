--------------------------- MODULE RtcAlarmProofs ---------------------------
(***************************************************************************)
(* What holds of the RTC demo for every length of minute, hour and day,    *)
(* every time set, and any number of ticks within a call: type             *)
(* correctness, no alarm is lost, and the running clock is set exactly and *)
(* never read as a time in the past.                                       *)
(***************************************************************************)
EXTENDS RtcAlarm, TLAPS

(* The clock counts through times. *)
LEMMA IncrementType ==
  ASSUME NEW t \in Time
  PROVE  Increment(t) \in Time
<1>1. /\ (t[1] + 1) % SecMod \in 0 .. SecMod - 1
      /\ (t[2] + 1) % MinMod \in 0 .. MinMod - 1
      /\ (t[3] + 1) % HourMod \in 0 .. HourMod - 1
  BY ClockAssumption DEF Time
<1> QED
  BY <1>1 DEF Increment, Time

(* Writing one register of a time with that of another gives a time. *)
LEMMA FieldType ==
  ASSUME NEW t \in Time, NEW u \in Time, NEW i \in Field
  PROVE  [t EXCEPT ![i] = u[i]] \in Time
  BY DEF Time, Field

(* Every step keeps every variable in its type. *)
LEMMA TypeStep == TypeOK /\ [Next]_vars => TypeOK'
<1> SUFFICES ASSUME TypeOK, [Next]_vars PROVE TypeOK'
  OBVIOUS
<1> USE DEF TypeOK, clockVars, callVars
<1>z. Zero \in Time
  BY ClockAssumption DEF Zero, Time
<1>r. \A i \in Field : Reg(i) \in Field
  BY DEF Reg
<1>f. \A lab \in {"settime", "setalarm", "gettime"} :
        pc[1] = lab => pc[2] \in Field /\ pc = <<lab, pc[2]>>
  BY DEF Pc
<1>a. \A lab \in {"settime", "setalarm", "gettime"}, then \in {"setalarm", "gettime", "test"} :
        pc[2] \in Field /\ Advance(lab, then) => pc' \in Pc
  BY DEF Advance, Pc, Field
<1>1. CASE Tick
  BY <1>1, IncrementType, ClockAssumption DEF Tick, Compare, Pc, InCall
<1>2. CASE RTCHandler
  BY <1>2 DEF RTCHandler, HandlerEnter, HandlerLoop, HandlerSet
<1>3. CASE RTCInit
  BY <1>3 DEF RTCInit, Pc
<1>4. CASE RTCSetAlarmMask
  BY <1>4 DEF RTCSetAlarmMask, Compare, Pc
<1>5. CASE RTCStart
  BY <1>5 DEF RTCStart, Pc
<1>6. CASE Key
  BY <1>6 DEF Key, Pc, Field
<1>7. CASE RTCSetTime
  <2>1. now' \in Time /\ pc' \in Pc
    BY <1>7, <1>r, <1>f, <1>a, FieldType, ClockAssumption DEF RTCSetTime, Main
  <2> QED
    BY <1>7, <2>1, ClockAssumption DEF RTCSetTime, Compare
<1>8. CASE RTCSetAlarm
  <2>1. alarm' \in Time /\ pc' \in Pc
    BY <1>8, <1>r, <1>f, <1>a, FieldType, ClockAssumption DEF RTCSetAlarm, Main
  <2> QED
    BY <1>8, <2>1 DEF RTCSetAlarm, Compare
<1>9. CASE RTCGetTime
  <2>1. current' \in Time /\ pc' \in Pc
    BY <1>9, <1>r, <1>f, <1>a, FieldType DEF RTCGetTime, Main
  <2> QED
    BY <1>9, <2>1, ClockAssumption DEF RTCGetTime
<1>10. CASE TestAlarm
  BY <1>10, <1>z, ClockAssumption DEF TestAlarm, AfterAlarm, Pc
<1>11. CASE ClearAlarm
  BY <1>11 DEF ClearAlarm, AfterAlarm, Pc
<1>12. CASE PrintAlarm
  BY <1>12 DEF PrintAlarm, AfterAlarm, Pc
<1>13. CASE UNCHANGED vars
  BY <1>13 DEF vars
<1> QED
  BY <1>1, <1>2, <1>3, <1>4, <1>5, <1>6, <1>7, <1>8, <1>9, <1>10, <1>11, <1>12, <1>13
     DEF Next, MainStep

(***************************************************************************)
(* The registers of the clock, main's copy of the time and the history of  *)
(* each call keep their types, whatever the carries.                       *)
(***************************************************************************)
THEOREM TypeCorrect == Spec => []TypeOK
<1>1. Init => TypeOK
  <2>1. Zero \in Time /\ 0 \in 0 .. MaxCall
    BY ClockAssumption DEF Zero, Time
  <2>2. <<"init", 1>> \in Pc
    BY DEF Pc
  <2> QED
    BY <2>1, <2>2 DEF Init, TypeOK
<1> QED
  BY <1>1, TypeStep, PTL DEF Spec

----------------------------------------------------------------------------
(* Until the interrupts are enabled there is no alarm to report. *)
AlarmInv == AlarmNotLost /\ (~IrqOn => ~owed)

(* An alarm is passed from the flag to the handler, to alarm_on, to main. *)
LEMMA AlarmStep == AlarmInv /\ [Next]_vars => AlarmInv'
<1> SUFFICES ASSUME AlarmInv, [Next]_vars PROVE AlarmInv'
  OBVIOUS
<1> USE DEF AlarmInv, AlarmNotLost, IrqOn, clockVars, callVars
<1>0. Compare /\ owed' => (owed /\ (ILR => ILR')) \/ (ILR' /\ IrqOn)
  BY DEF Compare
<1>1. CASE Tick
  BY <1>0, <1>1 DEF Tick
<1>2. CASE RTCHandler
  BY <1>2 DEF RTCHandler, HandlerEnter, HandlerLoop, HandlerSet
<1>3. CASE RTCInit
  BY <1>3 DEF RTCInit
<1>4. CASE RTCSetAlarmMask
  BY <1>0, <1>4 DEF RTCSetAlarmMask
<1>5. CASE RTCStart
  BY <1>5 DEF RTCStart
<1>6. CASE Key
  BY <1>6 DEF Key, Main
<1>7. CASE RTCSetTime \/ RTCSetAlarm
  BY <1>0, <1>7 DEF RTCSetTime, RTCSetAlarm, Main, Advance
<1>8. CASE RTCGetTime
  BY <1>8 DEF RTCGetTime, Main, Advance
<1>9. CASE TestAlarm
  BY <1>9 DEF TestAlarm, Main, AfterAlarm
<1>10. CASE ClearAlarm
  \* The print follows the clear, so it covers what the clear wipes out.
  BY <1>10 DEF ClearAlarm, Main, AfterAlarm
<1>11. CASE PrintAlarm
  BY <1>11 DEF PrintAlarm, Main, AfterAlarm
<1>12. CASE UNCHANGED vars
  BY <1>12 DEF vars
<1> QED
  BY <1>1, <1>2, <1>3, <1>4, <1>5, <1>6, <1>7, <1>8, <1>9, <1>10, <1>11, <1>12
     DEF Next, MainStep

(***************************************************************************)
(* No alarm is lost between the comparator and the report of main,         *)
(* wherever the interrupt falls between the test, the clear and the print. *)
(***************************************************************************)
THEOREM AlarmKept == Spec => []AlarmNotLost
<1>1. Init => AlarmInv
  BY DEF Init, AlarmInv, AlarmNotLost
<1>2. AlarmInv => AlarmNotLost
  BY DEF AlarmInv
<1> QED
  BY <1>1, <1>2, AlarmStep, PTL DEF Spec

----------------------------------------------------------------------------
(* The new seconds have not run over since they were written. *)
NoCarry == LocalTime[1] + since < SecMod

(***************************************************************************)
(* In the middle of RTCSetTime: what has been written stays as written but *)
(* for the ticks in the seconds, since no carry comes out of them.         *)
(***************************************************************************)
WrittenSoFar ==
  /\ pc \in {<<"settime", 2>>, <<"settime", 3>>, <<"setalarm", 1>>} /\ NoCarry =>
       now[1] = LocalTime[1] + since
  /\ pc \in {<<"settime", 3>>, <<"setalarm", 1>>} /\ NoCarry => now[2] = LocalTime[2]
  /\ pc = <<"setalarm", 1>> /\ NoCarry => now[3] = LocalTime[3]

(* A tick without a carry moves the seconds only. *)
LEMMA PlainTick ==
  ASSUME NEW t \in Time, t[1] + 1 < SecMod
  PROVE  /\ Increment(t)[1] = t[1] + 1
         /\ Increment(t)[2] = t[2]
         /\ Increment(t)[3] = t[3]
<1>1. t[1] \in 0 .. SecMod - 1
  BY DEF Time
<1>2. (t[1] + 1) % SecMod = t[1] + 1
  BY <1>1, ClockAssumption
<1> QED
  BY <1>1, <1>2, ClockAssumption DEF Increment

(* The running clock does not disturb the part that is written. *)
LEMMA WriteStep == TypeOK /\ WrittenSoFar /\ [Next]_vars => WrittenSoFar'
<1> SUFFICES ASSUME TypeOK, WrittenSoFar, [Next]_vars PROVE WrittenSoFar'
  OBVIOUS
<1> USE DEF clockVars, callVars
<1>t. LocalTime[1] \in Nat /\ SecMod \in Nat /\ since \in Nat /\ now \in Time /\ now[1] \in Nat
  BY ClockAssumption DEF TypeOK, Time
<1>1. CASE Tick
  <2>1. now' = Increment(now) /\ pc' = pc
    BY <1>1 DEF Tick
  <2>2. pc \in {<<"settime", 2>>, <<"settime", 3>>, <<"setalarm", 1>>} => since' = since + 1
    BY <1>1 DEF Tick, InCall
  <2>3. ASSUME pc \in {<<"settime", 2>>, <<"settime", 3>>, <<"setalarm", 1>>}, NoCarry'
        PROVE  /\ NoCarry
               /\ now'[1] = LocalTime[1] + since'
               /\ now'[2] = now[2] /\ now'[3] = now[3]
    <3>1. NoCarry
      BY <1>t, <2>2, <2>3 DEF NoCarry
    <3>2. now[1] = LocalTime[1] + since
      BY <2>3, <3>1 DEF WrittenSoFar
    <3>3. now[1] + 1 < SecMod
      BY <1>t, <2>2, <2>3, <3>2 DEF NoCarry
    <3> QED
      BY <1>t, <2>1, <2>2, <2>3, <3>1, <3>2, <3>3, PlainTick
  <2> QED
    BY <2>1, <2>3 DEF WrittenSoFar
<1>2. CASE RTCHandler
  BY <1>2 DEF RTCHandler, HandlerEnter, HandlerLoop, HandlerSet, WrittenSoFar, NoCarry
<1>3. CASE RTCSetTime
  <2>1. /\ pc[1] = "settime" /\ pc[2] \in Field
        /\ now' = [now EXCEPT ![pc[2]] = LocalTime[pc[2]]]
        /\ since' = IF pc[2] = 1 THEN 0 ELSE since
        /\ pc' = IF pc[2] < 3 THEN <<"settime", pc[2] + 1>> ELSE <<"setalarm", 1>>
        /\ pc = <<"settime", pc[2]>>
    BY <1>3 DEF RTCSetTime, Main, Reg, Advance, TypeOK, Pc
  <2>2. CASE pc[2] = 1
    BY <1>t, <2>1, <2>2 DEF WrittenSoFar, NoCarry, Time
  <2>3. CASE pc[2] = 2
    BY <1>t, <2>1, <2>3 DEF WrittenSoFar, NoCarry, Time
  <2>4. CASE pc[2] = 3
    BY <1>t, <2>1, <2>4 DEF WrittenSoFar, NoCarry, Time
  <2> QED
    BY <2>1, <2>2, <2>3, <2>4 DEF Field
<1>4. CASE RTCInit \/ RTCSetAlarmMask \/ RTCStart \/ Key
  BY <1>4 DEF RTCInit, RTCSetAlarmMask, RTCStart, Key, WrittenSoFar
<1>5. CASE RTCSetAlarm \/ RTCGetTime
  BY <1>5 DEF RTCSetAlarm, RTCGetTime, Main, Advance, TypeOK, Pc, Field, WrittenSoFar
<1>6. CASE TestAlarm \/ ClearAlarm \/ PrintAlarm
  BY <1>6 DEF TestAlarm, ClearAlarm, PrintAlarm, Main, AfterAlarm, WrittenSoFar
<1>7. CASE UNCHANGED vars
  BY <1>7 DEF vars, WrittenSoFar, NoCarry
<1> QED
  BY <1>1, <1>2, <1>3, <1>4, <1>5, <1>6, <1>7 DEF Next, MainStep

(***************************************************************************)
(* RTCSetTime sets a running clock exactly, for every modulus and every    *)
(* time set, unless the new seconds run over before the call is through.   *)
(***************************************************************************)
THEOREM TimeSetExactly == Spec => []SetTimeExact
<1>1. Init => WrittenSoFar
  BY DEF Init, WrittenSoFar
<1>2. TypeOK /\ WrittenSoFar => SetTimeExact
  <2> SUFFICES ASSUME TypeOK, WrittenSoFar, pc = <<"setalarm", 1>>, NoCarry
               PROVE  Seconds(now) = Seconds(LocalTime) + since
    BY DEF SetTimeExact, NoCarry
  <2>1. /\ now[1] = LocalTime[1] + since
        /\ now[2] = LocalTime[2] /\ now[3] = LocalTime[3]
    BY DEF WrittenSoFar
  <2>2. /\ LocalTime[1] \in Int /\ since \in Int
        /\ SecMod * (LocalTime[2] + MinMod * LocalTime[3]) \in Int
    BY ClockAssumption DEF TypeOK, Time
  <2> QED
    BY <2>1, <2>2 DEF Seconds
<1> QED
  BY <1>1, <1>2, TypeCorrect, WriteStep, PTL DEF Spec
----------------------------------------------------------------------------
(***************************************************************************)
(* Reading the running clock.  The argument counts absolute time: the      *)
(* clock shows it less a whole number w of days.  The seconds are read     *)
(* first, so the minute read later is not before the one they belong to,   *)
(* and so for the hour: what is put together is never in the past.         *)
(***************************************************************************)
Hour == SecMod * MinMod

(* A time as seconds, minutes and hours on their own. *)
LEMMA SecondsSum ==
  ASSUME NEW t \in Time
  PROVE  /\ Seconds(t) = t[1] + SecMod * t[2] + Hour * t[3] /\ Seconds(t) \in Nat
         /\ t[1] \in Nat /\ t[2] \in Nat /\ t[3] \in Nat
         /\ t[1] <= SecMod - 1 /\ t[2] <= MinMod - 1 /\ t[3] <= HourMod - 1
<1>1. /\ t[1] \in 0 .. SecMod - 1 /\ t[2] \in 0 .. MinMod - 1 /\ t[3] \in 0 .. HourMod - 1
      /\ SecMod \in Nat /\ MinMod \in Nat /\ HourMod \in Nat
  BY ClockAssumption DEF Time
<1>2. \A a, b, c, S, M \in Nat : /\ a + S * (b + M * c) = a + S * b + (S * M) * c
                                 /\ a + S * (b + M * c) \in Nat
  OBVIOUS
<1> QED
  BY <1>1, <1>2 DEF Seconds, Hour

(* A tick adds a second, and takes a day away at midnight. *)
LEMMA TickSeconds ==
  ASSUME NEW t \in Time
  PROVE  \/ Seconds(Increment(t)) = Seconds(t) + 1 /\ Increment(t)[3] >= t[3]
         \/ /\ Seconds(Increment(t)) + Day = Seconds(t) + 1
            /\ Increment(t)[3] = 0 /\ t[3] = HourMod - 1
<1> DEFINE u == Increment(t)
<1>1. /\ t[1] \in 0 .. SecMod - 1 /\ t[2] \in 0 .. MinMod - 1 /\ t[3] \in 0 .. HourMod - 1
      /\ SecMod \in Nat \ {0} /\ MinMod \in Nat \ {0} /\ HourMod \in Nat \ {0}
  BY ClockAssumption DEF Time
<1>2. \A n \in Nat \ {0} : \A a \in 0 .. n - 1 :
        (a + 1) % n = IF a = n - 1 THEN 0 ELSE a + 1
  OBVIOUS
<1>3. CASE t[1] # SecMod - 1
  <2>1. u[1] = t[1] + 1 /\ u[2] = t[2] /\ u[3] = t[3]
    BY <1>1, <1>2, <1>3 DEF Increment
  <2>2. SecMod * (t[2] + MinMod * t[3]) \in Nat
    BY <1>1
  <2>3. Seconds(u) = (t[1] + 1) + SecMod * (t[2] + MinMod * t[3])
    BY <2>1 DEF Seconds
  <2> QED
    BY <1>1, <2>1, <2>2, <2>3 DEF Seconds
<1>4. CASE t[1] = SecMod - 1 /\ t[2] # MinMod - 1
  <2>1. u[1] = 0 /\ u[2] = t[2] + 1 /\ u[3] = t[3]
    BY <1>1, <1>2, <1>4 DEF Increment
  <2>2. \A S, b, x \in Nat : 0 + S * ((b + 1) + x) = ((S - 1) + S * (b + x)) + 1
    OBVIOUS
  <2>3. MinMod * t[3] \in Nat
    BY <1>1
  <2>4. Seconds(u) = 0 + SecMod * ((t[2] + 1) + MinMod * t[3])
    BY <2>1 DEF Seconds
  <2>5. Seconds(t) = (SecMod - 1) + SecMod * (t[2] + MinMod * t[3])
    BY <1>4 DEF Seconds
  <2> QED
    BY <1>1, <2>1, <2>2, <2>3, <2>4, <2>5
<1>5. CASE t[1] = SecMod - 1 /\ t[2] = MinMod - 1 /\ t[3] # HourMod - 1
  <2>1. u[1] = 0 /\ u[2] = 0 /\ u[3] = t[3] + 1
    BY <1>1, <1>2, <1>5 DEF Increment
  <2>2. \A S, M, c \in Nat : 0 + S * (0 + M * (c + 1)) = ((S - 1) + S * ((M - 1) + M * c)) + 1
    OBVIOUS
  <2>3. Seconds(u) = 0 + SecMod * (0 + MinMod * (t[3] + 1))
    BY <2>1 DEF Seconds
  <2>4. Seconds(t) = (SecMod - 1) + SecMod * ((MinMod - 1) + MinMod * t[3])
    BY <1>5 DEF Seconds
  <2> QED
    BY <1>1, <2>1, <2>2, <2>3, <2>4
<1>6. CASE t[1] = SecMod - 1 /\ t[2] = MinMod - 1 /\ t[3] = HourMod - 1
  <2>1. u[1] = 0 /\ u[2] = 0 /\ u[3] = 0
    BY <1>1, <1>2, <1>6 DEF Increment
  <2>2. \A S, M, H \in Nat : /\ S * M * H = ((S - 1) + S * ((M - 1) + M * (H - 1))) + 1
                             /\ 0 + S * (0 + M * 0) = 0
    OBVIOUS
  <2>3. Seconds(u) = 0
    BY <1>1, <2>1, <2>2 DEF Seconds
  <2>4. Seconds(t) = (SecMod - 1) + SecMod * ((MinMod - 1) + MinMod * (HourMod - 1))
    BY <1>6 DEF Seconds
  <2>5. Day = Seconds(t) + 1 /\ Day \in Nat
    BY <1>1, <2>2, <2>4 DEF Day
  <2> QED
    BY <1>6, <2>1, <2>3, <2>5
<1> QED
  BY <1>3, <1>4, <1>5, <1>6

(* Since the call began the clock has gone on by the ticks, less w days. *)
Elapsed(w) == Seconds(now) + Day * w = Seconds(start) + since

(* The hour h, counted from the start, is not yet over. *)
ReadInv ==
  /\ pc = <<"gettime", 2>> => current[1] = start[1] /\ \E w \in Nat : Elapsed(w)
  /\ pc = <<"gettime", 3>> =>
       \E w, h \in Nat : /\ Elapsed(w) /\ h <= now[3] + HourMod * w
                         /\ Seconds(start) <= current[1] + SecMod * current[2] + Hour * h
  /\ pc = <<"test", 1>> =>
       \E w \in Nat : /\ Seconds(start) <= Seconds(current) + Day * w
                      /\ Seconds(current) + Day * w < Seconds(start) + Hour + since

(* The constants of the clock as numbers. *)
LEMMA ClockNumbers ==
  /\ SecMod \in Nat \ {0} /\ MinMod \in Nat \ {0} /\ HourMod \in Nat \ {0}
  /\ Hour \in Nat \ {0} /\ Day \in Nat \ {0} /\ Day = Hour * HourMod
<1>1. SecMod \in Nat \ {0} /\ MinMod \in Nat \ {0} /\ HourMod \in Nat \ {0}
  BY ClockAssumption
<1>2. \A a, b \in Nat \ {0} : a * b \in Nat \ {0}
  OBVIOUS
<1> QED
  BY <1>1, <1>2 DEF Hour, Day

(* A tick in the middle of a call: one more second, perhaps one more day. *)
LEMMA TickElapsed ==
  ASSUME TypeOK, now' = Increment(now), start' = start, since' = since + 1,
         NEW w \in Nat, Elapsed(w)
  PROVE  \E v \in Nat : Elapsed(v)' /\ now[3] + HourMod * w <= now'[3] + HourMod * v
<1>1. /\ Seconds(now) \in Nat /\ Seconds(start) \in Nat /\ since \in Nat
      /\ now[3] \in Nat /\ now'[3] \in Nat /\ now \in Time /\ Seconds(now') \in Nat
  BY SecondsSum, IncrementType, ClockAssumption DEF TypeOK
<1>2. \A n, k \in Nat : n * (k + 1) = n * k + n /\ n * k \in Nat
  OBVIOUS
<1>3. CASE Seconds(now') = Seconds(now) + 1 /\ now'[3] >= now[3]
  <2>1. Day * w \in Nat /\ HourMod * w \in Nat
    BY <1>2, ClockNumbers
  <2>2. Elapsed(w)'
    BY <1>1, <1>3, <2>1 DEF Elapsed
  <2> QED
    BY <1>1, <1>3, <2>1, <2>2
<1>4. CASE Seconds(now') + Day = Seconds(now) + 1 /\ now'[3] = 0 /\ now[3] = HourMod - 1
  <2>1. /\ Day * (w + 1) = Day * w + Day /\ Day * w \in Nat
        /\ HourMod * (w + 1) = HourMod * w + HourMod /\ HourMod * w \in Nat
    BY <1>2, ClockNumbers
  <2>2. Elapsed(w + 1)'
    BY <1>1, <1>4, <2>1, ClockNumbers DEF Elapsed
  <2>3. now[3] + HourMod * w <= now'[3] + HourMod * (w + 1)
    BY <1>1, <1>4, <2>1, ClockNumbers
  <2> QED
    BY <2>2, <2>3
<1> QED
  BY <1>1, <1>3, <1>4, TickSeconds

(* The minute now is not before the minute in which the call began. *)
LEMMA MinuteNotBehind ==
  ASSUME TypeOK, NEW w \in Nat, Elapsed(w)
  PROVE  Seconds(start) <= start[1] + SecMod * now[2] + Hour * (now[3] + HourMod * w)
<1> DEFINE m0 == start[2] + MinMod * start[3]
           m1 == now[2] + MinMod * (now[3] + HourMod * w)
<1>1. /\ start[1] \in Nat /\ start[2] \in Nat /\ start[3] \in Nat
      /\ now[1] \in Nat /\ now[2] \in Nat /\ now[3] \in Nat
      /\ now[1] <= SecMod - 1 /\ since \in Nat
  BY SecondsSum, ClockAssumption DEF TypeOK
<1>2. \A a, b, c, d, S, M, H \in Nat :
        /\ a + S * (b + M * (c + H * d)) = a + S * b + (S * M) * (c + H * d)
        /\ (a + S * (b + M * c)) + (S * M * H) * d = a + S * (b + M * (c + H * d))
        /\ b + M * (c + H * d) \in Nat /\ b + M * c \in Nat /\ S * M \in Nat
  OBVIOUS
<1>3. Seconds(now) + Day * w = now[1] + SecMod * m1 /\ m1 \in Nat
  BY <1>1, <1>2, ClockNumbers DEF Seconds, Day
<1>4. Seconds(start) = start[1] + SecMod * m0 /\ m0 \in Nat
  BY <1>1, <1>2, ClockNumbers DEF Seconds
<1>5. start[1] + SecMod * now[2] + Hour * (now[3] + HourMod * w) = start[1] + SecMod * m1
  BY <1>1, <1>2, ClockNumbers DEF Hour
<1> HIDE DEF m0, m1
<1>6. start[1] + SecMod * m0 + since = now[1] + SecMod * m1
  BY <1>3, <1>4 DEF Elapsed
<1>7. SecMod * m0 <= SecMod * m1
  <2>1. CASE m0 <= m1
    BY <1>3, <1>4, <2>1, ClockNumbers
  <2>2. CASE m1 + 1 <= m0
    <3>1. SecMod * (m1 + 1) <= SecMod * m0
      BY <1>3, <1>4, <2>2, ClockNumbers
    <3>2. SecMod * (m1 + 1) = SecMod * m1 + SecMod /\ SecMod * m1 \in Nat /\ SecMod * m0 \in Nat
      BY <1>3, <1>4, ClockNumbers
    <3> QED
      BY <1>1, <1>6, <3>1, <3>2, ClockNumbers
  <2> QED
    BY <1>3, <1>4, <2>1, <2>2
<1>8. SecMod * m0 \in Nat /\ SecMod * m1 \in Nat
  BY <1>3, <1>4, ClockNumbers
<1> QED
  BY <1>1, <1>4, <1>5, <1>7, <1>8

(* The three values read make a time that is not in the past. *)
LEMMA HourNotBehind ==
  ASSUME TypeOK, NEW w \in Nat, NEW h \in Nat, Elapsed(w), h <= now[3] + HourMod * w,
         Seconds(start) <= current[1] + SecMod * current[2] + Hour * h,
         NEW t \in Time, t[1] = current[1], t[2] = current[2], t[3] = now[3]
  PROVE  /\ Seconds(start) <= Seconds(t) + Day * w
         /\ Seconds(t) + Day * w < Seconds(start) + Hour + since
<1> DEFINE p == current[1] + SecMod * current[2]
           g == now[3] + HourMod * w
           q == now[1] + SecMod * now[2]
<1>1. /\ current[1] \in Nat /\ current[2] \in Nat /\ current[1] <= SecMod - 1
      /\ current[2] <= MinMod - 1
      /\ now[1] \in Nat /\ now[2] \in Nat /\ now[3] \in Nat
      /\ Seconds(start) \in Nat /\ since \in Nat
  BY SecondsSum, ClockAssumption DEF TypeOK
<1>2. \A a, H, K, d \in Nat : H * a + (H * K) * d = H * (a + K * d) /\ a + K * d \in Nat
  OBVIOUS
<1>3. g \in Nat /\ Hour * now[3] + Day * w = Hour * g
  BY <1>1, <1>2, ClockNumbers
<1>4. \A a, b \in Nat : a * b \in Nat
  OBVIOUS
<1>5. /\ p \in Nat /\ q \in Nat /\ Hour * now[3] \in Nat /\ Day * w \in Nat
      /\ Hour * g \in Nat /\ Hour * h \in Nat
  BY <1>1, <1>3, <1>4, ClockNumbers
<1>6. Seconds(t) = p + Hour * now[3] /\ Seconds(now) = q + Hour * now[3]
  BY SecondsSum DEF TypeOK
<1>7. p <= Hour - 1
  <2>1. \A S, M, a, b \in Nat : a <= S - 1 /\ b <= M - 1 => a + S * b <= S * M - 1
    <3> SUFFICES ASSUME NEW S \in Nat, NEW M \in Nat, NEW a \in Nat, NEW b \in Nat,
                        a <= S - 1, b <= M - 1
                 PROVE  a + S * b <= S * M - 1
      OBVIOUS
    <3>1. S * (b + 1) <= S * M
      OBVIOUS
    <3>2. S * (b + 1) = S * b + S /\ S * b \in Nat /\ S * M \in Nat
      OBVIOUS
    <3> QED
      BY <3>1, <3>2
  <2> QED
    BY <1>1, <2>1, ClockNumbers DEF Hour
<1>8. Hour * h <= Hour * g
  <2> HIDE DEF g
  <2>1. h <= g
    BY DEF g
  <2> QED
    BY <1>3, <2>1, ClockNumbers
<1> HIDE DEF p, q, g
<1>9. Seconds(t) + Day * w = p + Hour * g /\ Seconds(start) + since = q + Hour * g
  BY <1>3, <1>5, <1>6 DEF Elapsed
<1>10. Seconds(start) <= p + Hour * h
  BY DEF p
<1> QED
  BY <1>1, <1>5, <1>7, <1>8, <1>9, <1>10, ClockNumbers

(* A remainder is not more than the number, if that is not negative. *)
LEMMA DaysDropped ==
  ASSUME NEW x \in Int, NEW n \in Nat \ {0}, NEW w \in Nat, x + n * w >= 0
  PROVE  x % n <= x + n * w
<1>1. /\ x \div n \in Int /\ x % n \in 0 .. n - 1 /\ x = n * (x \div n) + (x % n)
  OBVIOUS
<1> DEFINE k == x \div n
           r == x % n
<1>2. k \in Int /\ r \in 0 .. n - 1 /\ x = n * k + r
  BY <1>1
<1> HIDE DEF k, r
<1>3. n * (k + w) + r >= 0 /\ x + n * w = n * (k + w) + r
  BY <1>2
<1>4. k + w >= 0
  <2>1. SUFFICES ASSUME k + w <= -1 PROVE FALSE
    BY <1>2
  <2>2. n * (k + w) <= n * (-1)
    BY <1>2, <2>1
  <2> QED
    BY <1>2, <1>3, <2>2
<1>5. n * (k + w) >= 0
  BY <1>2, <1>4
<1> QED
  BY <1>2, <1>3, <1>5 DEF r

(* Every step keeps what is read so far from falling behind. *)
LEMMA ReadStep == TypeOK /\ ReadInv /\ [Next]_vars => ReadInv'
<1> SUFFICES ASSUME TypeOK, ReadInv, [Next]_vars PROVE ReadInv'
  OBVIOUS
<1> USE DEF clockVars, callVars
<1>t. /\ now \in Time /\ start \in Time /\ current \in Time /\ since \in Nat
      /\ Seconds(now) \in Nat /\ Seconds(start) \in Nat /\ Seconds(current) \in Nat
  BY SecondsSum, ClockAssumption DEF TypeOK
<1>k. ASSUME UNCHANGED <<now, current, start, since, pc>> PROVE ReadInv'
  BY <1>k DEF ReadInv, Elapsed
<1>1. CASE Tick
  <2>1. /\ now' = Increment(now) /\ UNCHANGED <<pc, current, start>>
        /\ pc \in {<<"gettime", 2>>, <<"gettime", 3>>, <<"test", 1>>} => since' = since + 1
    BY <1>1 DEF Tick, InCall
  <2>2. CASE pc = <<"gettime", 2>>
    <3>1. PICK w \in Nat : Elapsed(w)
      BY <2>2 DEF ReadInv
    <3>2. \E v \in Nat : Elapsed(v)'
      BY <2>1, <2>2, <3>1, TickElapsed
    <3> QED
      BY <2>1, <2>2, <3>2 DEF ReadInv
  <2>3. CASE pc = <<"gettime", 3>>
    <3>1. PICK w, h \in Nat : /\ Elapsed(w) /\ h <= now[3] + HourMod * w
                              /\ Seconds(start) <= current[1] + SecMod * current[2] + Hour * h
      BY <2>3 DEF ReadInv
    <3>2. PICK v \in Nat : Elapsed(v)' /\ now[3] + HourMod * w <= now'[3] + HourMod * v
      BY <2>1, <2>3, <3>1, TickElapsed
    <3>3. h <= now'[3] + HourMod * v
      <4>1. /\ now[3] \in Nat /\ now'[3] \in Nat /\ HourMod * w \in Nat /\ HourMod * v \in Nat
        BY <1>t, <2>1, SecondsSum, IncrementType, ClockNumbers
      <4> QED
        BY <3>1, <3>2, <4>1
    <3> QED
      BY <2>1, <2>3, <3>1, <3>2, <3>3 DEF ReadInv
  <2>4. CASE pc = <<"test", 1>>
    <3>1. PICK w \in Nat : /\ Seconds(start) <= Seconds(current) + Day * w
                           /\ Seconds(current) + Day * w < Seconds(start) + Hour + since
      BY <2>4 DEF ReadInv
    <3>2. Day * w \in Nat /\ Hour \in Nat
      BY ClockNumbers
    <3>3. Seconds(current) + Day * w < Seconds(start) + Hour + since'
      BY <1>t, <2>1, <2>4, <3>1, <3>2
    <3> QED
      BY <2>1, <2>4, <3>1, <3>3 DEF ReadInv
  <2> QED
    BY <2>1, <2>2, <2>3, <2>4 DEF ReadInv
<1>2. CASE RTCHandler
  BY <1>k, <1>2 DEF RTCHandler, HandlerEnter, HandlerLoop, HandlerSet
<1>3. CASE RTCGetTime
  <2>1. /\ pc = <<"gettime", pc[2]>> /\ pc[2] \in Field
        /\ current' = [current EXCEPT ![pc[2]] = now[pc[2]]]
        /\ start' = IF pc[2] = 1 THEN now ELSE start
        /\ since' = IF pc[2] = 1 THEN 0 ELSE since
        /\ pc' = IF pc[2] < 3 THEN <<"gettime", pc[2] + 1>> ELSE <<"test", 1>>
        /\ now' = now
    BY <1>3 DEF RTCGetTime, Main, Reg, Advance, TypeOK, Pc
  <2>2. CASE pc[2] = 1
    <3>1. pc' = <<"gettime", 2>> /\ current'[1] = start'[1]
      BY <1>t, <2>1, <2>2 DEF Time
    <3>2. Elapsed(0)'
      BY <1>t, <2>1, <2>2, ClockNumbers DEF Elapsed
    <3> QED
      BY <3>1, <3>2 DEF ReadInv
  <2>3. CASE pc[2] = 2
    <3>1. PICK w \in Nat : Elapsed(w)
      BY <2>1, <2>3 DEF ReadInv
    <3>2. current[1] = start[1]
      BY <2>1, <2>3 DEF ReadInv
    <3>3. /\ pc' = <<"gettime", 3>> /\ current'[1] = start[1] /\ current'[2] = now[2]
          /\ start' = start /\ since' = since
      BY <1>t, <2>1, <2>3, <3>2 DEF Time
    <3>4. now[3] + HourMod * w \in Nat
      BY <1>t, SecondsSum, ClockNumbers
    <3>5. Seconds(start) <= start[1] + SecMod * now[2] + Hour * (now[3] + HourMod * w)
      BY <3>1, MinuteNotBehind
    <3>6. Elapsed(w)'
      BY <2>1, <3>1, <3>3 DEF Elapsed
    <3>7. now[3] + HourMod * w <= now'[3] + HourMod * w
      BY <2>1, <3>4
    <3> QED
      BY <2>1, <3>3, <3>4, <3>5, <3>6, <3>7 DEF ReadInv
  <2>4. CASE pc[2] = 3
    <3>1. PICK w, h \in Nat : /\ Elapsed(w) /\ h <= now[3] + HourMod * w
                              /\ Seconds(start) <= current[1] + SecMod * current[2] + Hour * h
      BY <2>1, <2>4 DEF ReadInv
    <3>2. /\ pc' = <<"test", 1>> /\ start' = start /\ since' = since /\ current' \in Time
          /\ current'[1] = current[1] /\ current'[2] = current[2] /\ current'[3] = now[3]
      BY <1>t, <2>1, <2>4 DEF Time
    <3>3. /\ Seconds(start) <= Seconds(current') + Day * w
          /\ Seconds(current') + Day * w < Seconds(start) + Hour + since
      BY <3>1, <3>2, HourNotBehind
    <3> QED
      BY <3>2, <3>3 DEF ReadInv
  <2> QED
    BY <2>1, <2>2, <2>3, <2>4 DEF Field
<1>4. CASE RTCInit \/ RTCSetAlarmMask \/ RTCStart \/ Key
  BY <1>4 DEF RTCInit, RTCSetAlarmMask, RTCStart, Key, ReadInv
<1>5. CASE RTCSetTime \/ RTCSetAlarm
  BY <1>5 DEF RTCSetTime, RTCSetAlarm, Main, Advance, ReadInv
<1>6. CASE TestAlarm \/ ClearAlarm \/ PrintAlarm
  BY <1>6 DEF TestAlarm, ClearAlarm, PrintAlarm, AfterAlarm, ReadInv
<1>7. CASE UNCHANGED vars
  BY <1>k, <1>7 DEF vars
<1> QED
  BY <1>1, <1>2, <1>3, <1>4, <1>5, <1>6, <1>7 DEF Next, MainStep

(***************************************************************************)
(* RTCGetTime reads no past time of day from a running clock, for every    *)
(* length of minute, hour and day and however many ticks fall between its  *)
(* reads: the result is ahead of the start of the call by less than an     *)
(* hour and the ticks of the call, also across midnight (rtc.c:184-193).   *)
(***************************************************************************)
THEOREM TimeNotBehind == Spec => []ReadNotBehind
<1>1. Init => ReadInv
  BY DEF Init, ReadInv
<1>2. TypeOK /\ ReadInv => ReadNotBehind
  <2> SUFFICES ASSUME TypeOK, ReadInv, pc[1] = "test"
               PROVE  (Seconds(current) - Seconds(start)) % Day < SecMod * MinMod + since
    BY DEF ReadNotBehind
  <2>1. pc = <<"test", 1>>
    BY DEF TypeOK, Pc
  <2>2. PICK w \in Nat : /\ Seconds(start) <= Seconds(current) + Day * w
                         /\ Seconds(current) + Day * w < Seconds(start) + Hour + since
    BY <2>1 DEF ReadInv
  <2> DEFINE x == Seconds(current) - Seconds(start)
  <2>3. /\ Seconds(current) \in Nat /\ Seconds(start) \in Nat /\ since \in Nat
        /\ Day * w \in Nat /\ Hour \in Nat
    BY SecondsSum, ClockAssumption, ClockNumbers DEF TypeOK
  <2>4. x \in Int /\ x + Day * w >= 0 /\ x + Day * w < Hour + since
    BY <2>2, <2>3
  <2> HIDE DEF x
  <2>5. x % Day <= x + Day * w
    BY <2>4, ClockNumbers, DaysDropped
  <2>6. x % Day \in Int /\ x + Day * w \in Int
    BY <2>3, <2>4, ClockNumbers
  <2>7. x % Day < Hour + since
    BY <2>3, <2>4, <2>5, <2>6
  <2> QED
    BY <2>7 DEF x, Hour
<1> QED
  BY <1>1, <1>2, TypeCorrect, ReadStep, PTL DEF Spec

============================================================================
