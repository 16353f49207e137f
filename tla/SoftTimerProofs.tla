-------------------------- MODULE SoftTimerProofs ---------------------------
(***************************************************************************)
(* The tick count against the matches of the hardware timer, and the soft  *)
(* timers against the intervals of the tasks, for every width of the       *)
(* machine word, every length of the tick, changed or not while the timer  *)
(* runs, and every pair of intervals.                                      *)
(***************************************************************************)
EXTENDS SoftTimer, TLAPS

(* A remainder is a word. *)
LEMMA ModIsWord == ASSUME NEW n \in Int PROVE n % Word \in 0 .. Word - 1
<1>1. Word \in Nat \ {0}
  BY TimerAssumption
<1> QED
  BY <1>1

(* A word is its own remainder. *)
LEMMA WordIsMod == ASSUME NEW n \in 0 .. Word - 1 PROVE n % Word = n
<1>1. Word \in Nat \ {0}
  BY TimerAssumption
<1> QED
  BY <1>1

(* The millisecond count is a word, however large the product. *)
LEMMA MillisIsWord == TypeOK => Millis \in 0 .. Word - 1
<1> SUFFICES ASSUME TypeOK PROVE Millis \in 0 .. Word - 1
  OBVIOUS
<1>1. Word \in Nat \ {0} /\ Resolutions \subseteq Nat
  BY TimerAssumption
<1>2. tmrResolutionMs \in Nat /\ tmrTicks \in Nat
  BY <1>1 DEF TypeOK
<1>3. tmrResolutionMs * tmrTicks \in Int
  BY <1>2
<1> QED
  BY <1>3, ModIsWord DEF Millis

(***************************************************************************)
(* TypeOK in two halves: what the timer and its handler write, and what    *)
(* main writes.                                                            *)
(***************************************************************************)
TimerOK ==
  /\ T0TCR \in BOOLEAN /\ T0IR \in BOOLEAN /\ hpc \in {"idle", "clear"}
  /\ tmrTicks \in 0 .. Word - 1 /\ matches \in 0 .. Word - 1
  /\ turn \in 0 .. 2 /\ steady \in BOOLEAN
MainOK ==
  /\ tmrResolutionMs \in {0} \cup Resolutions
  /\ timers \in [Task -> 0 .. Word - 1]
  /\ pins \in [Task -> BOOLEAN]
  /\ pc \in Pc
  /\ inits \in 0 .. MaxInit
  /\ age \in [Task -> 0 .. MaxAge]
  /\ kept \in [Task -> BOOLEAN]

(* Every step keeps the types. *)
LEMMA TypeStep == TypeOK /\ [Next]_vars => TypeOK'
<1> SUFFICES ASSUME TypeOK, [Next]_vars PROVE TypeOK'
  OBVIOUS
<1> USE DEF hwVars, histVars
<1>0. TimerOK /\ MainOK
  BY DEF TypeOK, TimerOK, MainOK
<1>1. Word \in Nat \ {0} /\ 0 \in 0 .. Word - 1 /\ MaxAge \in Nat /\ MaxInit \in Nat
  BY TimerAssumption
<1>2. Millis \in 0 .. Word - 1
  BY MillisIsWord
<1>3. (tmrTicks + 1) % Word \in 0 .. Word - 1 /\ (matches + 1) % Word \in 0 .. Word - 1
  BY <1>0, <1>1, ModIsWord DEF TimerOK
<1>4. CASE Match
  <2>1. steady' \in BOOLEAN /\ turn' \in 0 .. 2
    BY <1>4 DEF Match
  <2>2. TimerOK'
    BY <1>0, <1>1, <1>3, <1>4, <2>1 DEF Match, TimerOK
  <2>3. age' \in [Task -> 0 .. MaxAge]
    BY <1>0, <1>1, <1>4 DEF Match, MainOK
  <2> QED
    BY <1>0, <1>4, <2>2, <2>3 DEF Match, TimerOK, MainOK, TypeOK
<1>5. CASE Handler
  BY <1>0, <1>3, <1>5 DEF Handler, TMR0_Handler, TMR0_Clear, TimerOK, MainOK, TypeOK
<1>6. CASE SetUp \/ enableTimer
  <2>1. TimerOK'
    BY <1>0, <1>6 DEF SetUp, enableTimer, initTimer, TimerOK
  <2>2. MainOK'
    <3>1. tmrResolutionMs' \in {0} \cup Resolutions /\ pc' \in Pc
      BY <1>0, <1>6, TimerAssumption DEF SetUp, enableTimer, initTimer, MainOK, Pc, Task
    <3> QED
      BY <1>0, <1>6, <3>1 DEF SetUp, enableTimer, MainOK
  <2> QED
    BY <2>1, <2>2 DEF TimerOK, MainOK, TypeOK
<1>7. ASSUME NEW t \in Task, FirstReset(t) \/ Restart(t) PROVE TypeOK'
  <2>1. kept' \in [Task -> BOOLEAN]
    BY <1>0, <1>7 DEF FirstReset, Restart, Reset, MainOK
  <2>2. /\ timers' \in [Task -> 0 .. Word - 1] /\ age' \in [Task -> 0 .. MaxAge]
        /\ pc' \in Pc
    BY <1>0, <1>1, <1>2, <1>7 DEF FirstReset, Restart, Reset, MainOK, Pc, Task
  <2> QED
    BY <1>0, <1>7, <2>1, <2>2 DEF FirstReset, Restart, TimerOK, MainOK, TypeOK
<1>8. ASSUME NEW t \in Task, Skip(t) \/ Serve(t) \/ Toggle(t) PROVE TypeOK'
  <2>1. pins' \in [Task -> BOOLEAN]
    BY <1>0, <1>8 DEF Skip, Serve, Toggle, MainOK
  <2>2. pc' \in Pc /\ turn' \in 0 .. 2
    BY <1>0, <1>8 DEF Skip, Serve, Toggle, NextTask, TimerOK, MainOK, Pc, Task
  <2> QED
    BY <1>0, <1>8, <2>1, <2>2 DEF Skip, Serve, Toggle, TimerOK, MainOK, TypeOK
<1>9. CASE disableTimer \/ Reinit
  <2>0. T0TCR' \in BOOLEAN /\ T0IR' \in BOOLEAN /\ steady' \in BOOLEAN
    BY <1>0, <1>9 DEF disableTimer, Reinit, initTimer, Unsteady, TimerOK
  <2>1. TimerOK'
    BY <1>0, <1>1, <1>9, <2>0 DEF disableTimer, Reinit, Unsteady, TimerOK
  <2>2. MainOK'
    <3>1. kept' \in [Task -> BOOLEAN]
      BY <1>0, <1>9 DEF disableTimer, Reinit, MainOK
    <3>2. tmrResolutionMs' \in {0} \cup Resolutions /\ pc' \in Pc /\ inits' \in 0 .. MaxInit
      BY <1>0, <1>1, <1>9 DEF disableTimer, Reinit, initTimer, MainOK, Pc, Task
    <3> QED
      BY <1>0, <1>9, <3>1, <3>2 DEF disableTimer, Reinit, MainOK
  <2> QED
    BY <2>1, <2>2 DEF TimerOK, MainOK, TypeOK
<1>10. CASE UNCHANGED vars
  BY <1>10 DEF vars, TypeOK
<1> QED
  BY <1>4, <1>5, <1>6, <1>7, <1>8, <1>9, <1>10 DEF Next, MainStep

(* Timer and counters stand still and at 0: all types hold. *)
LEMMA TypeInit == Init => TypeOK
<1>1. Word \in Nat \ {0} /\ MaxAge \in Nat /\ MaxInit \in Nat
  BY TimerAssumption
<1> SUFFICES ASSUME Init PROVE TypeOK
  OBVIOUS
<1>0. T0TCR \in BOOLEAN /\ T0IR \in BOOLEAN /\ steady \in BOOLEAN
  BY DEF Init
<1>2. TimerOK
  BY <1>0, <1>1 DEF Init, TimerOK
<1>3. pins \in [Task -> BOOLEAN]
  BY DEF Init
<1>4. MainOK
  BY <1>1, <1>3 DEF Init, MainOK, Pc, Task
<1> QED
  BY <1>2, <1>4 DEF TimerOK, MainOK, TypeOK

(***************************************************************************)
(* Ticks, milliseconds and the bases of the soft timers are words, however *)
(* often they overflow.                                                    *)
(***************************************************************************)
THEOREM TypeCorrect == Spec => []TypeOK
  BY TypeInit, TypeStep, PTL DEF Spec

----------------------------------------------------------------------------
(***************************************************************************)
(* The strengthening: the flag stays up until the handler clears it, and   *)
(* there is none before the timer is set up.                               *)
(***************************************************************************)
FlagFollows ==
  /\ hpc = "clear" => T0IR
  /\ pc = <<"init", 0>> => ~T0IR /\ ~T0TCR

(* No step but the handler's takes the flag down once the timer runs. *)
LEMMA FlagStep == TypeOK /\ FlagFollows /\ [Next]_vars => FlagFollows'
<1> SUFFICES ASSUME TypeOK, FlagFollows, [Next]_vars PROVE FlagFollows'
  OBVIOUS
<1> USE DEF hwVars, histVars, FlagFollows
<1>1. CASE Match
  BY <1>1 DEF Match
<1>2. CASE Handler
  BY <1>2 DEF Handler, TMR0_Handler, TMR0_Clear
<1>3. CASE SetUp
  BY <1>3 DEF SetUp
<1>4. CASE enableTimer
  BY <1>4 DEF enableTimer
<1>5. ASSUME NEW t \in Task,
             FirstReset(t) \/ Skip(t) \/ Serve(t) \/ Restart(t) \/ Toggle(t)
      PROVE  FlagFollows'
  BY <1>5 DEF FirstReset, Skip, Serve, Restart, Toggle, NextTask
<1>6. CASE disableTimer \/ Reinit
  BY <1>6 DEF disableTimer, Reinit
<1>7. CASE UNCHANGED vars
  BY <1>7 DEF vars
<1> QED
  BY <1>1, <1>2, <1>3, <1>4, <1>5, <1>6, <1>7 DEF Next, MainStep

(* A match and its count are one apart, and no other step touches either. *)
LEMMA TickStep == TypeOK /\ FlagFollows /\ TickPerMatch /\ [Next]_vars => TickPerMatch'
<1> SUFFICES ASSUME TypeOK, FlagFollows, TickPerMatch, [Next]_vars, steady'
             PROVE  (tmrTicks' + Uncounted') % Word = matches'
  BY DEF TickPerMatch, Uncounted
<1> USE DEF hwVars, histVars
<1>0. /\ Word \in Nat \ {0} /\ tmrTicks \in 0 .. Word - 1 /\ matches \in 0 .. Word - 1
      /\ (tmrTicks + 0) % Word = tmrTicks
  <2>1. Word \in Nat \ {0} /\ tmrTicks \in 0 .. Word - 1 /\ matches \in 0 .. Word - 1
    BY TimerAssumption DEF TypeOK
  <2>2. tmrTicks % Word = tmrTicks /\ tmrTicks + 0 = tmrTicks
    BY <2>1, WordIsMod
  <2> QED
    BY <2>1, <2>2
<1>1. CASE Match
  <2>1. steady /\ ~T0IR /\ hpc = "idle" /\ T0IR' /\ hpc' = "idle"
    BY <1>1 DEF Match
  <2>2. Uncounted = 0 /\ Uncounted' = 1
    BY <2>1 DEF Uncounted
  <2>3. tmrTicks = matches
    BY <1>0, <2>1, <2>2 DEF TickPerMatch
  <2>4. matches' = (matches + 1) % Word /\ tmrTicks' = tmrTicks
    BY <1>1 DEF Match
  <2> QED
    BY <2>2, <2>3, <2>4
<1>2. CASE TMR0_Handler
  <2>1. steady /\ T0IR /\ hpc = "idle" /\ hpc' = "clear" /\ matches' = matches
    BY <1>2 DEF TMR0_Handler
  <2>2. Uncounted = 1 /\ Uncounted' = 0
    BY <2>1 DEF Uncounted
  <2>3. tmrTicks' = matches
    BY <1>2, <2>1, <2>2 DEF TMR0_Handler, TickPerMatch
  <2>4. (matches + 0) % Word = matches
    BY <1>0, WordIsMod
  <2> QED
    BY <2>1, <2>2, <2>3, <2>4
<1>3. CASE TMR0_Clear
  <2>1. steady /\ hpc = "clear" /\ ~T0IR' /\ matches' = matches /\ tmrTicks' = tmrTicks
    BY <1>3 DEF TMR0_Clear
  <2>2. Uncounted = 0 /\ Uncounted' = 0
    BY <2>1 DEF Uncounted
  <2> QED
    BY <2>1, <2>2 DEF TickPerMatch
<1>4. CASE disableTimer \/ Reinit
  BY <1>4 DEF disableTimer, Reinit, Unsteady
<1>5. CASE SetUp
  <2>1. steady /\ ~T0IR /\ ~T0IR' /\ matches' = matches /\ tmrTicks' = tmrTicks
    BY <1>5 DEF SetUp, initTimer, FlagFollows
  <2>2. Uncounted = 0 /\ Uncounted' = 0
    BY <2>1 DEF Uncounted
  <2> QED
    BY <2>1, <2>2 DEF TickPerMatch
<1>6. ASSUME UNCHANGED <<T0IR, hpc, tmrTicks, matches, steady>>
      PROVE  (tmrTicks' + Uncounted') % Word = matches'
  <2>1. Uncounted' = Uncounted
    BY <1>6 DEF Uncounted
  <2> QED
    BY <1>6, <2>1 DEF TickPerMatch
<1>7. ASSUME NEW t \in Task,
             FirstReset(t) \/ Skip(t) \/ Serve(t) \/ Restart(t) \/ Toggle(t)
      PROVE  UNCHANGED <<T0IR, hpc, tmrTicks, matches, steady>>
  BY <1>7 DEF FirstReset, Skip, Serve, Restart, Toggle
<1>8. CASE enableTimer
  BY <1>6, <1>8 DEF enableTimer
<1>9. CASE UNCHANGED vars
  BY <1>6, <1>9 DEF vars
<1> QED
  BY <1>1, <1>2, <1>3, <1>4, <1>5, <1>6, <1>7, <1>8, <1>9 DEF Next, MainStep, Handler

(***************************************************************************)
(* For every word width: as long as each match finds the one before        *)
(* handled, TMR0_Handler has counted every match once, but for the pending *)
(* one, also when the counter has wrapped.                                 *)
(***************************************************************************)
THEOREM EveryMatchCounted == Spec => []TickPerMatch
<1>1. Init => FlagFollows
  BY DEF Init, FlagFollows
<1>2. Init => TickPerMatch
  <2> SUFFICES ASSUME Init PROVE TickPerMatch
    OBVIOUS
  <2>1. Uncounted = 0 /\ tmrTicks = 0 /\ matches = 0
    BY DEF Init, Uncounted
  <2>2. 0 % Word = 0
    BY TimerAssumption, WordIsMod
  <2> QED
    BY <2>1, <2>2 DEF TickPerMatch
<1> QED
  BY <1>1, <1>2, TypeInit, TypeStep, FlagStep, TickStep, PTL DEF Spec
----------------------------------------------------------------------------
(***************************************************************************)
(* What main may conclude from a soft timer.  k stands for the ticks       *)
(* counted since soft timer t was reset: the base of the timer is k ticks  *)
(* of ms milliseconds behind the present time, up to whole words.          *)
(***************************************************************************)
BehindBy(t, k, ms) ==
  \E q \in Int : ms * tmrTicks - timers[t] = ms * k + q * Word

(* Main has looked at task t since the last match. *)
Looked(t) ==
  \/ turn = 2
  \/ turn = 1 /\ pc = <<"toggle", t>>
  \/ turn = 1 /\ t = 0 /\ pc \in {<<"run", 1>>, <<"restart", 1>>, <<"toggle", 1>>}

(***************************************************************************)
(* A timer that was reset with a match pending counts one tick more than   *)
(* there were matches since; lost matches make it count fewer.  While no   *)
(* match is lost it counts them all, and main, which looks at the timer    *)
(* between any two matches, never lets it pass its interval by more than   *)
(* two ticks, one of which may still be pending when it looks.             *)
(***************************************************************************)
LagOf(t, k, ms) ==
  /\ BehindBy(t, k, ms)
  /\ age[t] < MaxAge => k + Uncounted <= age[t] + 1
  /\ steady => /\ age[t] <= k + Uncounted
               /\ (k + Uncounted) * ms <= Interval(t) + 2 * ms
               /\ Looked(t) => (k + Uncounted) * ms <= Interval(t) + ms

(* The milliseconds per tick in force, or to come with the set-up. *)
Res == IF tmrResolutionMs = 0 THEN IntervalMs ELSE tmrResolutionMs

LagInv ==
  \A t \in Task, ms \in Resolutions :
    kept[t] /\ ms = Res => \E k \in Nat : LagOf(t, k, ms)

(* Only the set-up finds no resolution, and none but its own while steady. *)
ResolutionSet ==
  /\ IF pc = <<"init", 0>> THEN tmrResolutionMs = 0 ELSE tmrResolutionMs \in Resolutions
  /\ steady => Res = IntervalMs /\ \A t \in Task : kept[t]

(* A number is its remainder and some whole words. *)
LEMMA WholeWords == \A n \in Int : \E q \in Int : n % Word = n + q * Word
<1> SUFFICES ASSUME NEW n \in Int PROVE \E q \in Int : n % Word = n + q * Word
  OBVIOUS
<1>1. Word \in Nat \ {0}
  BY TimerAssumption
<1>2. n = Word * (n \div Word) + (n % Word) /\ n \div Word \in Int /\ n % Word \in Int
  BY <1>1
<1>3. \A w, d, r \in Int : n = w * d + r => r = n + (0 - d) * w
  OBVIOUS
<1>4. n % Word = n + (0 - (n \div Word)) * Word
  BY <1>1, <1>2, <1>3
<1> QED
  BY <1>2, <1>4

(* Sums of whole words are whole words. *)
LEMMA WordsAdd == \A p, q \in Int : p * Word + q * Word = (p + q) * Word /\ p + q \in Int
<1>1. Word \in Int
  BY TimerAssumption
<1>2. \A w, p, q \in Int : p * w + q * w = (p + q) * w
  OBVIOUS
<1> QED
  BY <1>1, <1>2

(* The signed reading of a pattern is in range and congruent to it. *)
LEMMA SignedReading ==
  ASSUME NEW n \in Int
  PROVE  /\ Signed(n) \in Int /\ Signed(n) < HalfWord /\ 0 - HalfWord <= Signed(n)
         /\ \E q \in Int : Signed(n) = n + q * Word
<1>1. Word \in Nat \ {0} /\ HalfWord \in Nat /\ Word = 2 * HalfWord
  BY TimerAssumption
<1>2. n + HalfWord \in Int
  BY <1>1
<1> DEFINE m == (n + HalfWord) % Word
<1>3. m \in 0 .. Word - 1
  BY <1>2, ModIsWord
<1>4. PICK q \in Int : m = n + HalfWord + q * Word
  BY <1>2, WholeWords
<1>5. Signed(n) = m - HalfWord
  BY DEF Signed
<1> HIDE DEF m
<1>6. q * Word \in Int
  BY <1>1
<1>7. Signed(n) = n + q * Word
  BY <1>1, <1>3, <1>4, <1>5, <1>6
<1>8. Signed(n) \in Int /\ Signed(n) < HalfWord /\ 0 - HalfWord <= Signed(n)
  BY <1>1, <1>3, <1>5
<1> QED
  BY <1>7, <1>8

(* What main reads of a timer that is k ticks behind, up to whole words. *)
LEMMA ElapsedReading ==
  ASSUME TypeOK, NEW ms \in Resolutions, tmrResolutionMs = ms, NEW t \in Task,
         NEW k \in Nat, BehindBy(t, k, ms)
  PROVE  /\ Elapsed(t) \in Int /\ Elapsed(t) < HalfWord /\ 0 - HalfWord <= Elapsed(t)
         /\ \E q \in Int : Elapsed(t) = ms * k + q * Word
<1>1. Word \in Nat \ {0} /\ ms \in Nat
  BY TimerAssumption
<1>2. tmrTicks \in Nat /\ timers[t] \in Int /\ Millis \in Int
  BY MillisIsWord, <1>1 DEF TypeOK
<1>3. ms * tmrTicks \in Int /\ ms * k \in Int
  BY <1>1, <1>2
<1>4. PICK p \in Int : ms * tmrTicks - timers[t] = ms * k + p * Word
  BY DEF BehindBy
<1>5. PICK m \in Int : Millis = ms * tmrTicks + m * Word
  BY <1>3, WholeWords DEF Millis
<1>6. Millis - timers[t] \in Int
  BY <1>2
<1>7. PICK s \in Int : Elapsed(t) = Millis - timers[t] + s * Word
  BY <1>6, SignedReading DEF Elapsed
<1>8. Elapsed(t) \in Int /\ Elapsed(t) < HalfWord /\ 0 - HalfWord <= Elapsed(t)
  BY <1>6, SignedReading DEF Elapsed
<1>9. p * Word \in Int /\ m * Word \in Int /\ s * Word \in Int
  BY <1>1
<1>10. Elapsed(t) = ms * k + (p * Word + m * Word + s * Word)
  <2>1. \A a, b, c, d, e, f, g, h \in Int :
          a - b = c + d /\ e = a + f /\ g = e - b + h => g = c + (d + f + h)
    OBVIOUS
  <2> QED
    BY ONLY <2>1, <1>2, <1>3, <1>4, <1>5, <1>7, <1>8, <1>9
<1>11. p * Word + m * Word + s * Word = (p + m + s) * Word /\ p + m + s \in Int
  <2>1. p * Word + m * Word = (p + m) * Word /\ p + m \in Int
    BY WordsAdd
  <2>2. (p + m) * Word + s * Word = (p + m + s) * Word /\ p + m + s \in Int
    BY <2>1, WordsAdd
  <2> QED
    BY <2>1, <2>2
<1> QED
  BY <1>8, <1>10, <1>11

(* A product of a number and the word is at least a word away from 0, or 0. *)
LEMMA FarOrZero == \A q \in Int : q = 0 \/ q * Word >= Word \/ q * Word <= 0 - Word
<1>1. Word \in Nat
  BY TimerAssumption
<1>2. \A q \in Int, w \in Nat : q >= 1 => q * w >= w
  <2> SUFFICES ASSUME NEW q \in Int, NEW w \in Nat, q >= 1 PROVE q * w >= w
    OBVIOUS
  <2>1. q - 1 \in Nat
    OBVIOUS
  <2>2. (q - 1) * w \in Nat /\ q * w = (q - 1) * w + w
    BY <2>1
  <2> QED
    BY <2>2
<1>3. \A q \in Int, w \in Nat : q <= -1 => q * w <= 0 - w
  <2> SUFFICES ASSUME NEW q \in Int, NEW w \in Nat, q <= -1 PROVE q * w <= 0 - w
    OBVIOUS
  <2>1. 0 - q >= 1 /\ 0 - q \in Int
    OBVIOUS
  <2>2. (0 - q) * w >= w
    BY <2>1, <1>2
  <2>3. (0 - q) * w = 0 - q * w /\ q * w \in Int
    OBVIOUS
  <2> QED
    BY <2>2, <2>3
<1> QED
  BY <1>1, <1>2, <1>3

(***************************************************************************)
(* A task main finds due has run for longer than its interval in ticks,    *)
(* however often the counters have wrapped since.                          *)
(***************************************************************************)
LEMMA DueHasRun ==
  ASSUME TypeOK, NEW ms \in Resolutions, tmrResolutionMs = ms, NEW t \in Task,
         NEW k \in Nat, BehindBy(t, k, ms), Due(t)
  PROVE  ms * k > Interval(t)
<1>1. /\ Word \in Nat \ {0} /\ HalfWord \in Nat /\ Word = 2 * HalfWord
      /\ ms \in Nat /\ Interval(t) \in Nat
  BY TimerAssumption
<1>2. ms * k \in Nat
  BY <1>1
<1>3. /\ Elapsed(t) \in Int /\ Elapsed(t) < HalfWord
      /\ \E q \in Int : Elapsed(t) = ms * k + q * Word
  BY ElapsedReading
<1>4. PICK q \in Int : Elapsed(t) = ms * k + q * Word
  BY <1>3
<1>5. q * Word \in Int /\ (q = 0 => q * Word = 0)
  BY <1>1
<1>6. Elapsed(t) > Interval(t)
  BY DEF Due
<1>7. ~(q * Word >= Word)
  BY <1>1, <1>2, <1>3, <1>4, <1>5
<1> QED
  BY <1>1, <1>2, <1>3, <1>4, <1>5, <1>6, <1>7, FarOrZero

(***************************************************************************)
(* A task main finds not due has not run for longer than its interval, if  *)
(* the timer has not run for half the range of an int.                     *)
(***************************************************************************)
LEMMA NotDueHasNotRun ==
  ASSUME TypeOK, NEW ms \in Resolutions, tmrResolutionMs = ms, NEW t \in Task,
         NEW k \in Nat, BehindBy(t, k, ms), ~Due(t), ms * k < HalfWord
  PROVE  ms * k <= Interval(t)
<1>1. /\ Word \in Nat \ {0} /\ HalfWord \in Nat /\ Word = 2 * HalfWord
      /\ ms \in Nat /\ Interval(t) \in Nat
  BY TimerAssumption
<1>2. ms * k \in Nat
  BY <1>1
<1>3. /\ Elapsed(t) \in Int /\ Elapsed(t) < HalfWord /\ 0 - HalfWord <= Elapsed(t)
      /\ \E q \in Int : Elapsed(t) = ms * k + q * Word
  BY ElapsedReading
<1>4. PICK q \in Int : Elapsed(t) = ms * k + q * Word
  BY <1>3
<1>5. q * Word \in Int /\ (q = 0 => q * Word = 0)
  BY <1>1
<1>6. Elapsed(t) <= Interval(t)
  BY <1>1, <1>3 DEF Due
<1>7. ~(q * Word >= Word) /\ ~(q * Word <= 0 - Word)
  BY <1>1, <1>2, <1>3, <1>4, <1>5
<1> QED
  BY <1>2, <1>4, <1>5, <1>6, <1>7, FarOrZero
----------------------------------------------------------------------------
(* No step but initTimer sets the resolution. *)
LEMMA ResolutionStep == TypeOK /\ ResolutionSet /\ [Next]_vars => ResolutionSet'
<1> SUFFICES ASSUME TypeOK, ResolutionSet, [Next]_vars PROVE ResolutionSet'
  OBVIOUS
<1> USE DEF hwVars, histVars, ResolutionSet
<1>0. IntervalMs \in Resolutions /\ 0 \notin Resolutions
  BY TimerAssumption
<1>1. CASE Match
  BY <1>1 DEF Match, Res
<1>2. CASE Handler
  BY <1>2 DEF Handler, TMR0_Handler, TMR0_Clear, Res
<1>3. CASE SetUp \/ enableTimer
  BY <1>0, <1>3 DEF SetUp, enableTimer, initTimer, Res
<1>4. ASSUME NEW t \in Task, FirstReset(t) \/ Restart(t) PROVE ResolutionSet'
  BY <1>4 DEF FirstReset, Restart, Reset, TypeOK, Res
<1>5. ASSUME NEW t \in Task, Skip(t) \/ Serve(t) \/ Toggle(t) PROVE ResolutionSet'
  BY <1>5 DEF Skip, Serve, Toggle, NextTask, Res
<1>6. CASE disableTimer \/ Reinit
  BY <1>6 DEF disableTimer, Reinit, Unsteady, initTimer, Res
<1>7. CASE UNCHANGED vars
  BY <1>7 DEF vars, Res
<1> QED
  BY <1>1, <1>2, <1>3, <1>4, <1>5, <1>6, <1>7 DEF Next, MainStep

(* A timer that is still kept, but for one just reset, was so before. *)
LEMMA KeptStep ==
  ASSUME TypeOK, ResolutionSet, [Next]_vars, NEW t \in Task, kept'[t]
  PROVE  Res' = Res /\ (kept[t] \/ FirstReset(t) \/ Restart(t))
<1> USE DEF hwVars, histVars
<1>0. IntervalMs \in Resolutions /\ 0 \notin Resolutions
  BY TimerAssumption
<1>1. CASE Match \/ Handler
  BY <1>1 DEF Match, Handler, TMR0_Handler, TMR0_Clear, Res
<1>2. CASE SetUp \/ enableTimer
  BY <1>0, <1>2 DEF SetUp, enableTimer, initTimer, ResolutionSet, Res
<1>3. ASSUME NEW s \in Task, FirstReset(s) \/ Restart(s)
      PROVE  Res' = Res /\ (kept[t] \/ FirstReset(t) \/ Restart(t))
  BY <1>3 DEF FirstReset, Restart, Reset, TypeOK, Res
<1>4. ASSUME NEW s \in Task, Skip(s) \/ Serve(s) \/ Toggle(s)
      PROVE  Res' = Res /\ kept[t]
  BY <1>4 DEF Skip, Serve, Toggle, Res
<1>5. CASE disableTimer \/ Reinit
  BY <1>5 DEF disableTimer, Reinit, initTimer, Res
<1>6. CASE UNCHANGED vars
  BY <1>6 DEF vars, Res
<1> QED
  BY <1>1, <1>2, <1>3, <1>4, <1>5, <1>6 DEF Next, MainStep

(* The numbers a lag is made of. *)
LEMMA LagNumbers ==
  ASSUME TypeOK, NEW t \in Task, NEW ms \in Resolutions
  PROVE  /\ Word \in Nat \ {0} /\ ms \in Nat \ {0} /\ Interval(t) \in Nat \ {0}
         /\ MaxAge \in Nat /\ age[t] \in 0 .. MaxAge /\ Uncounted \in {0, 1}
         /\ tmrTicks \in 0 .. Word - 1 /\ timers[t] \in 0 .. Word - 1
  BY TimerAssumption DEF TypeOK, Uncounted

(* One more tick is one more length of a tick. *)
LEMMA OneTickMore ==
  ASSUME NEW ms \in Resolutions
  PROVE  \A n \in Int : (n + 1) * ms = n * ms + ms /\ n * ms \in Int
<1>1. ms \in Int
  BY TimerAssumption
<1>2. \A n, i \in Int : (n + 1) * i = n * i + i /\ n * i \in Int
  OBVIOUS
<1> QED
  BY <1>1, <1>2

(* More ticks take more time. *)
LEMMA MoreTicks ==
  ASSUME NEW ms \in Resolutions
  PROVE  \A m, n \in Int : m <= n => m * ms <= n * ms
<1>1. \A i \in Nat, m, n \in Int : m <= n => m * i <= n * i
  <2> SUFFICES ASSUME NEW i \in Nat, NEW m \in Int, NEW n \in Int, m <= n
               PROVE  m * i <= n * i
    OBVIOUS
  <2>1. n - m \in Nat
    OBVIOUS
  <2>2. (n - m) * i \in Nat /\ n * i = m * i + (n - m) * i /\ m * i \in Int
    BY <2>1
  <2> QED
    BY <2>2
<1>2. ms \in Nat
  BY TimerAssumption
<1> QED
  BY <1>1, <1>2

(* A match makes the soft timer one tick longer, at once or not at all. *)
LEMMA LagMatch ==
  ASSUME TypeOK, FlagFollows, NEW ms \in Resolutions, NEW t \in Task, NEW k \in Nat,
         LagOf(t, k, ms), Match
  PROVE  LagOf(t, k, ms)'
<1> DEFINE u == Uncounted
<1>0. /\ MaxAge \in Nat /\ age[t] \in 0 .. MaxAge /\ u \in {0, 1} /\ u' \in {0, 1}
      /\ Interval(t) \in Nat /\ ms \in Nat
  BY LagNumbers DEF Uncounted
<1>1. BehindBy(t, k, ms)'
  BY DEF LagOf, BehindBy, Match
<1>2. age'[t] = IF age[t] < MaxAge THEN age[t] + 1 ELSE MaxAge
  BY DEF Match
<1>3. age[t] < MaxAge => k + u <= age[t] + 1
  BY DEF LagOf
<1>4. age'[t] < MaxAge => k + u' <= age'[t] + 1
  <2> HIDE DEF u
  <2> QED
    BY <1>0, <1>2, <1>3
<1>5. ASSUME steady'
      PROVE  /\ age'[t] <= k + u'
             /\ (k + u') * ms <= Interval(t) + 2 * ms
             /\ ~Looked(t)'
  <2>1. steady /\ ~T0IR /\ hpc = "idle" /\ turn = 2 /\ T0IR' /\ hpc' = "idle" /\ turn' = 0
    BY <1>5 DEF Match
  <2>2. u = 0 /\ u' = 1
    BY <2>1 DEF Uncounted
  <2>3. age[t] <= k + u /\ (k + u) * ms <= Interval(t) + ms
    BY <2>1 DEF LagOf, Looked
  <2>4. ~Looked(t)'
    BY <2>1 DEF Looked
  <2> HIDE DEF u
  <2>5. age[t] <= k /\ k * ms <= Interval(t) + ms
    BY <2>2, <2>3
  <2>6. (k + 1) * ms = k * ms + ms /\ k * ms \in Int
    BY OneTickMore
  <2>7. (k + 1) * ms <= Interval(t) + 2 * ms
    BY <1>0, <2>5, <2>6
  <2> QED
    BY <1>0, <1>2, <2>2, <2>4, <2>5, <2>7
<1> QED
  BY <1>1, <1>4, <1>5 DEF LagOf

(* The handler's count moves the pending tick into the timer. *)
LEMMA LagTick ==
  ASSUME TypeOK, NEW ms \in Resolutions, NEW t \in Task, NEW k \in Nat,
         LagOf(t, k, ms), TMR0_Handler
  PROVE  LagOf(t, k + 1, ms)'
<1> USE DEF hwVars, histVars
<1>0. /\ Word \in Nat \ {0} /\ ms \in Nat /\ tmrTicks \in 0 .. Word - 1
      /\ timers[t] \in 0 .. Word - 1
  BY LagNumbers
<1>1. Uncounted = 1 /\ Uncounted' = 0
  BY DEF TMR0_Handler, Uncounted
<1>2. k + 1 + Uncounted' = k + Uncounted /\ k + 1 \in Nat
  BY <1>1
<1>3. UNCHANGED <<age, steady, turn, pc, timers>>
  BY DEF TMR0_Handler
<1>4. Looked(t)' <=> Looked(t)
  BY <1>3 DEF Looked
<1>5. BehindBy(t, k + 1, ms)'
  <2>1. PICK q \in Int : ms * tmrTicks - timers[t] = ms * k + q * Word
    BY DEF LagOf, BehindBy
  <2>2. tmrTicks' = (tmrTicks + 1) % Word
    BY DEF TMR0_Handler
  <2>3. CASE tmrTicks + 1 < Word
    <3>1. tmrTicks' = tmrTicks + 1
      BY <1>0, <2>2, <2>3, WordIsMod
    <3>2. \A i, a, b, c, d \in Int : i * a - b = i * c + d => i * (a + 1) - b = i * (c + 1) + d
      OBVIOUS
    <3>3. q * Word \in Int
      BY <1>0
    <3>4. ms * (tmrTicks + 1) - timers[t] = ms * (k + 1) + q * Word
      BY <1>0, <2>1, <3>2, <3>3
    <3> QED
      BY <1>3, <3>1, <3>4 DEF BehindBy
  <2>4. CASE tmrTicks + 1 = Word
    <3>1. tmrTicks' = 0
      BY <1>0, <2>2, <2>4
    <3>2. \A i, w, b, c, d \in Int :
            i * (w - 1) - b = i * c + d * w => i * 0 - b = i * (c + 1) + (d - i) * w
      OBVIOUS
    <3>3. tmrTicks = Word - 1
      BY <1>0, <2>4
    <3>4. ms * 0 - timers[t] = ms * (k + 1) + (q - ms) * Word
      BY <1>0, <2>1, <3>2, <3>3
    <3>5. q - ms \in Int
      BY <1>0
    <3> QED
      BY <1>3, <3>1, <3>4, <3>5 DEF BehindBy
  <2> QED
    BY <1>0, <2>3, <2>4
<1> QED
  BY <1>2, <1>3, <1>4, <1>5 DEF LagOf

(* A reset leaves at most the pending tick. *)
LEMMA LagReset ==
  ASSUME TypeOK, NEW ms \in Resolutions, tmrResolutionMs = ms, NEW t \in Task, Reset(t),
         UNCHANGED <<T0IR, hpc, tmrTicks>>
  PROVE  LagOf(t, 0, ms)'
<1>0. /\ Word \in Nat \ {0} /\ ms \in Nat \ {0} /\ Interval(t) \in Nat \ {0}
      /\ MaxAge \in Nat /\ tmrTicks \in 0 .. Word - 1
  BY LagNumbers
<1>1. Uncounted' \in {0, 1}
  BY DEF Uncounted
<1>2. timers'[t] = Millis /\ age'[t] = 0
  BY DEF Reset, TypeOK
<1>3. BehindBy(t, 0, ms)'
  <2>1. ms * tmrTicks \in Int
    BY <1>0
  <2>2. PICK q \in Int : Millis = ms * tmrTicks + q * Word
    BY <2>1, WholeWords DEF Millis
  <2>3. \A a, i, d, w \in Int : a - (a + d * w) = i * 0 + (0 - d) * w /\ 0 - d \in Int
    OBVIOUS
  <2>4. ms * tmrTicks' - timers'[t] = ms * 0 + (0 - q) * Word /\ 0 - q \in Int
    BY <1>0, <1>2, <2>1, <2>2, <2>3
  <2> QED
    BY <2>4 DEF BehindBy
<1>4. (0 + Uncounted') * ms <= Interval(t) + ms
  BY <1>0, <1>1
<1>5. Interval(t) + ms <= Interval(t) + 2 * ms
  BY <1>0
<1>6. (0 + Uncounted') * ms <= Interval(t) + 2 * ms
  BY <1>0, <1>1, <1>4, <1>5
<1>7. 0 <= 0 + Uncounted' /\ 0 + Uncounted' <= 0 + 1
  <2>1. \A v \in {0, 1} : 0 <= 0 + v /\ 0 + v <= 0 + 1
    OBVIOUS
  <2> QED
    BY <1>1, <2>1, Zenon
<1> QED
  BY <1>2, <1>3, <1>4, <1>6, <1>7 DEF LagOf

(* Any other step leaves the lag as it is, or gives up the bounds. *)
LEMMA LagQuiet ==
  ASSUME TypeOK, NEW ms \in Resolutions, NEW t \in Task, NEW k \in Nat, LagOf(t, k, ms),
         tmrTicks' = tmrTicks, timers'[t] = timers[t], age'[t] = age[t],
         Uncounted' \in {0, 1}, Uncounted' <= Uncounted,
         steady' => /\ steady /\ Uncounted' = Uncounted
                    /\ \/ ~Looked(t)'
                       \/ Looked(t)
                       \/ (k + Uncounted) * ms <= Interval(t) + ms
  PROVE  LagOf(t, k, ms)'
<1>0. age[t] \in 0 .. MaxAge /\ Uncounted \in {0, 1} /\ MaxAge \in Nat
  BY LagNumbers
<1>1. BehindBy(t, k, ms)'
  BY DEF LagOf, BehindBy
<1>2. age'[t] < MaxAge => k + Uncounted' <= age'[t] + 1
  BY <1>0 DEF LagOf
<1>3. steady' => /\ age'[t] <= k + Uncounted'
                 /\ (k + Uncounted') * ms <= Interval(t) + 2 * ms
                 /\ Looked(t)' => (k + Uncounted') * ms <= Interval(t) + ms
  BY DEF LagOf
<1> QED
  BY <1>1, <1>2, <1>3 DEF LagOf
(* A test that finds the task not due is as good as a look at it. *)
LEMMA SkipShows ==
  ASSUME TypeOK, NEW ms \in Resolutions, tmrResolutionMs = ms, NEW t \in Task,
         NEW k \in Nat, LagOf(t, k, ms), steady, ~Due(t)
  PROVE  (k + Uncounted) * ms <= Interval(t) + ms
<1>0. /\ ms \in Nat /\ Interval(t) \in Nat /\ Uncounted \in {0, 1}
      /\ HalfWord \in Nat /\ Interval(t) + 2 * ms < HalfWord
  BY LagNumbers, TimerAssumption
<1>1. BehindBy(t, k, ms) /\ (k + Uncounted) * ms <= Interval(t) + 2 * ms
  BY DEF LagOf
<1>2. /\ ms * k = k * ms /\ k * ms \in Int
      /\ (k + 1) * ms = k * ms + ms
  BY <1>0, OneTickMore
<1>3. k * ms <= (k + Uncounted) * ms
  <2>1. CASE Uncounted = 0
    BY <1>0, <1>2, <2>1
  <2>2. CASE Uncounted = 1
    BY <1>0, <1>2, <2>2
  <2> QED
    BY <1>0, <2>1, <2>2
<1>4. (k + Uncounted) * ms \in Int
  BY <1>0
<1>5. ms * k < HalfWord
  BY <1>0, <1>1, <1>2, <1>3, <1>4
<1>6. ms * k <= Interval(t)
  BY <1>1, <1>5, NotDueHasNotRun
<1>7. CASE Uncounted = 0
  BY <1>0, <1>2, <1>6, <1>7
<1>8. CASE Uncounted = 1
  BY <1>0, <1>2, <1>6, <1>8
<1> QED
  BY <1>0, <1>7, <1>8

(* No step of main but a test or a reset makes main look at a task. *)
LEMMA LooksAt ==
  ASSUME TypeOK, NEW t \in Task, NEW u \in Task,
         \/ Serve(t) \/ Toggle(t)
         \/ u # t /\ (Skip(t) \/ FirstReset(t) \/ Restart(t))
  PROVE  Looked(u)' => Looked(u)
<1> USE DEF Looked, Task
<1>0. turn \in 0 .. 2
  BY DEF TypeOK
<1>1. CASE Serve(t)
  BY <1>1 DEF Serve, histVars
<1>2. CASE Toggle(t)
  BY <1>0, <1>2 DEF Toggle, NextTask
<1>3. CASE u # t /\ Skip(t)
  BY <1>0, <1>3 DEF Skip, NextTask
<1>4. CASE u # t /\ (FirstReset(t) \/ Restart(t))
  BY <1>4 DEF FirstReset, Restart
<1> QED
  BY <1>1, <1>2, <1>3, <1>4

(* Every step keeps the lags. *)
LEMMA LagStep ==
  TypeOK /\ FlagFollows /\ ResolutionSet /\ LagInv /\ [Next]_vars => LagInv'
<1> SUFFICES ASSUME TypeOK, FlagFollows, ResolutionSet, LagInv, [Next]_vars,
                    NEW t \in Task, NEW ms \in Resolutions, kept'[t], ms = Res'
             PROVE  \E k \in Nat : LagOf(t, k, ms)'
  BY DEF LagInv
<1> USE DEF hwVars, histVars
<1>a. ms = Res /\ (kept[t] \/ FirstReset(t) \/ Restart(t))
  BY KeptStep
<1>b. ASSUME FirstReset(t) \/ Restart(t) PROVE LagOf(t, 0, ms)'
  <2>1. Reset(t) /\ UNCHANGED <<T0IR, hpc, tmrTicks>> /\ tmrResolutionMs = ms
    BY <1>a, <1>b, TimerAssumption DEF FirstReset, Restart, ResolutionSet, Res
  <2> QED
    BY <2>1, LagReset
<1> SUFFICES ASSUME ~(FirstReset(t) \/ Restart(t))
             PROVE  \E k \in Nat : LagOf(t, k, ms)'
  BY <1>b
<1>c. PICK k \in Nat : LagOf(t, k, ms)
  BY <1>a DEF LagInv
<1>d. Uncounted \in {0, 1} /\ Uncounted' \in {0, 1}
  BY DEF Uncounted
<1>1. CASE Match
  BY <1>c, <1>1, LagMatch
<1>2. CASE TMR0_Handler
  <2>1. LagOf(t, k + 1, ms)' /\ k + 1 \in Nat
    BY <1>c, <1>2, LagTick
  <2> QED
    BY <2>1
<1>3. CASE TMR0_Clear \/ SetUp
  <2>1. Uncounted = 0 /\ Uncounted' = 0
    BY <1>3 DEF TMR0_Clear, SetUp, initTimer, FlagFollows, Uncounted
  <2>2. UNCHANGED <<tmrTicks, timers, age, steady, turn>>
    BY <1>3 DEF TMR0_Clear, SetUp
  <2>3. Looked(t)' => Looked(t)
    BY <1>3 DEF TMR0_Clear, SetUp, Looked
  <2> QED
    BY <1>c, <2>1, <2>2, <2>3, LagQuiet
<1>4. CASE enableTimer
  <2>1. Uncounted' = Uncounted
    BY <1>4 DEF enableTimer, Uncounted
  <2>2. UNCHANGED <<tmrTicks, timers, age, steady, turn>>
    BY <1>4 DEF enableTimer
  <2>3. Looked(t)' => Looked(t)
    BY <1>4 DEF enableTimer, Looked
  <2>4. Uncounted' <= Uncounted
    BY <1>d, <2>1
  <2> QED
    BY <1>c, <1>d, <2>1, <2>2, <2>3, <2>4, LagQuiet
<1>5. ASSUME NEW s \in Task,
             FirstReset(s) \/ Skip(s) \/ Serve(s) \/ Restart(s) \/ Toggle(s)
      PROVE  \E j \in Nat : LagOf(t, j, ms)'
  <2>1. UNCHANGED <<T0IR, hpc, tmrTicks, steady>>
    BY <1>5 DEF FirstReset, Skip, Serve, Restart, Toggle
  <2>2. tmrResolutionMs = ms
    BY <1>a, <1>5, TimerAssumption
       DEF FirstReset, Skip, Serve, Restart, Toggle, ResolutionSet, Res
  <2>3. Uncounted' = Uncounted
    BY <2>1 DEF Uncounted
  <2>4. Uncounted' <= Uncounted
    BY <1>d, <2>3
  <2>6. CASE s = t /\ Skip(s)
    <3>1. ~Due(t) /\ UNCHANGED <<timers, age>>
      BY <2>6 DEF Skip
    <3>2. steady => (k + Uncounted) * ms <= Interval(t) + ms
      BY <1>c, <2>2, <3>1, SkipShows
    <3> QED
      BY <1>c, <1>d, <2>1, <2>3, <2>4, <3>1, <3>2, LagQuiet
  <2>7. CASE \/ Serve(s) \/ Toggle(s)
             \/ t # s /\ (Skip(s) \/ FirstReset(s) \/ Restart(s))
    <3>1. Looked(t)' => Looked(t)
      BY <2>7, LooksAt
    <3>2. timers'[t] = timers[t] /\ age'[t] = age[t]
      BY <2>7 DEF Serve, Toggle, Skip, FirstReset, Restart, Reset, TypeOK
    <3> QED
      BY <1>c, <1>d, <2>1, <2>3, <2>4, <3>1, <3>2, LagQuiet
  <2> QED
    BY <1>5, <2>6, <2>7
<1>6. CASE disableTimer \/ Reinit
  <2>1. UNCHANGED <<tmrTicks, timers, age>> /\ ~steady'
    BY <1>6 DEF disableTimer, Reinit, Unsteady
  <2>2. Uncounted' = 0 \/ Uncounted' = Uncounted
    BY <1>6 DEF disableTimer, Reinit, initTimer, Uncounted
  <2>3. Uncounted' <= Uncounted
    BY <1>d, <2>2
  <2> QED
    BY <1>c, <1>d, <2>1, <2>3, LagQuiet
<1>7. CASE UNCHANGED vars
  <2>1. Uncounted' = Uncounted /\ (Looked(t)' => Looked(t))
    BY <1>7 DEF vars, Uncounted, Looked
  <2>2. UNCHANGED <<tmrTicks, timers, age, steady>>
    BY <1>7 DEF vars
  <2>3. Uncounted' <= Uncounted
    BY <1>d, <2>1
  <2> QED
    BY <1>c, <1>d, <2>1, <2>2, <2>3, LagQuiet
<1> QED
  BY <1>1, <1>2, <1>3, <1>4, <1>5, <1>6, <1>7 DEF Next, MainStep, Handler

(* When the program starts no tick has been counted and no timer reset. *)
LEMMA LagInit == Init => LagInv /\ ResolutionSet /\ FlagFollows
<1> SUFFICES ASSUME Init PROVE LagInv /\ ResolutionSet /\ FlagFollows
  OBVIOUS
<1>1. ResolutionSet /\ FlagFollows
  BY DEF Init, ResolutionSet, FlagFollows, Res
<1>2. ASSUME NEW t \in Task, NEW ms \in Resolutions PROVE LagOf(t, 0, ms)
  <2>1. Word \in Nat /\ ms \in Nat /\ Interval(t) \in Nat
    BY TimerAssumption
  <2>2. Uncounted = 0 /\ tmrTicks = 0 /\ timers[t] = 0 /\ age[t] = 0
    BY DEF Init, Uncounted
  <2>3. ms * 0 - 0 = ms * 0 + 0 * Word
    BY <2>1
  <2>4. BehindBy(t, 0, ms)
    BY <2>2, <2>3 DEF BehindBy
  <2>5. /\ (0 + 0) * ms <= Interval(t) + 2 * ms
        /\ (0 + 0) * ms <= Interval(t) + ms
    BY <2>1
  <2> QED
    BY <2>2, <2>4, <2>5 DEF LagOf
<1> QED
  BY <1>1, <1>2 DEF LagInv

(* The types, the flag, the resolution and the lags of every state. *)
LEMMA LagAlways == Spec => [](TypeOK /\ FlagFollows /\ ResolutionSet /\ LagInv)
  BY TypeInit, TypeStep, LagInit, FlagStep, ResolutionStep, LagStep, PTL DEF Spec

(***************************************************************************)
(* For every word width, tick and interval: a task that main is about to   *)
(* restart has been given its whole interval, however many ticks were lost *)
(* or pending and however often both counters of timer.c have wrapped, if  *)
(* its timer was reset since initTimer last changed the resolution.        *)
(***************************************************************************)
THEOREM NotBeforeInterval == Spec => []NeverEarly
<1>1. Init => NeverEarly
  BY DEF Init, NeverEarly
<1>2. TypeOK /\ ResolutionSet /\ LagInv /\ NeverEarly /\ [Next]_vars => NeverEarly'
  <2> SUFFICES ASSUME TypeOK, ResolutionSet, LagInv, NeverEarly, [Next]_vars,
                      NEW t \in Task, pc' = <<"restart", t>>, kept'[t]
               PROVE  (age'[t] + 1) * tmrResolutionMs' > Interval(t)
    BY DEF NeverEarly
  <2> USE DEF hwVars, histVars
  <2>a. pc # <<"init", 0>> /\ UNCHANGED <<tmrResolutionMs, kept>>
    BY DEF Next, Match, Handler, TMR0_Handler, TMR0_Clear, MainStep, SetUp, enableTimer,
           FirstReset, Skip, Serve, Restart, Toggle, NextTask, disableTimer, Reinit, vars
  <2>b. PICK ms \in Resolutions : ms = tmrResolutionMs /\ ms = Res
    BY <2>a, TimerAssumption DEF ResolutionSet, Res
  <2>c. kept[t] /\ tmrResolutionMs' = ms
    BY <2>a, <2>b
  <2> SUFFICES (age'[t] + 1) * ms > Interval(t)
    BY <2>c
  <2>0. /\ ms \in Nat \ {0} /\ Interval(t) \in Nat /\ MaxAge \in Nat
        /\ age[t] \in 0 .. MaxAge /\ Uncounted \in {0, 1}
        /\ Interval(t) + 2 * ms < MaxAge * ms
    BY LagNumbers, TimerAssumption
  <2>1. CASE Serve(t)
    <3>1. Due(t) /\ age' = age
      BY <2>1 DEF Serve
    <3>2. PICK k \in Nat : LagOf(t, k, ms)
      BY <2>b, <2>c DEF LagInv
    <3>3. ms * k > Interval(t)
      BY <2>b, <3>1, <3>2, DueHasRun DEF LagOf
    <3>4. k * ms > Interval(t) /\ k * ms \in Int
      BY <2>0, <3>3
    <3>5. CASE age[t] < MaxAge
      <4>1. k + Uncounted <= age[t] + 1
        BY <3>2, <3>5 DEF LagOf
      <4>2. k <= age[t] + 1 /\ age[t] + 1 \in Int
        BY <2>0, <4>1
      <4>3. k * ms <= (age[t] + 1) * ms
        BY MoreTicks, <4>2
      <4>4. (age[t] + 1) * ms \in Int
        BY <2>0, <4>2
      <4> QED
        BY <2>0, <3>1, <3>4, <4>3, <4>4
    <3>6. CASE age[t] = MaxAge
      <4>1. (MaxAge + 1) * ms = MaxAge * ms + ms
            /\ MaxAge * ms \in Int
        BY <2>0, OneTickMore
      <4> QED
        BY <2>0, <3>1, <3>6, <4>1
    <3> QED
      BY <2>0, <3>5, <3>6
  <2>2. CASE pc = pc'
    <3>1. (age[t] + 1) * ms > Interval(t)
      BY <2>2, <2>b, <2>c DEF NeverEarly
    <3>2. age'[t] = age[t] \/ age'[t] = age[t] + 1
      <4>1. CASE Match
        BY <2>0, <4>1 DEF Match
      <4>2. CASE Handler \/ UNCHANGED vars
        BY <4>2 DEF Handler, TMR0_Handler, TMR0_Clear, vars
      <4> QED
        BY <2>2, <4>1, <4>2
           DEF Next, MainStep, SetUp, enableTimer, FirstReset, Skip, Serve, Restart, Toggle,
               NextTask, disableTimer, Reinit
    <3>3. age[t] + 1 \in Int /\ age'[t] + 1 \in Int /\ age[t] + 1 <= age'[t] + 1
      BY <2>0, <3>2
    <3>4. /\ (age[t] + 1) * ms <= (age'[t] + 1) * ms
          /\ (age[t] + 1) * ms \in Int /\ (age'[t] + 1) * ms \in Int
      BY <2>0, MoreTicks, <3>3
    <3> QED
      BY <2>0, <3>1, <3>4
  <2>3. CASE Match \/ Handler \/ UNCHANGED vars
    BY <2>2, <2>3 DEF Match, Handler, TMR0_Handler, TMR0_Clear, vars
  <2>4. CASE SetUp \/ enableTimer \/ disableTimer \/ Reinit
    BY <2>4 DEF SetUp, enableTimer, disableTimer, Reinit
  <2>5. ASSUME NEW s \in Task,
               FirstReset(s) \/ Skip(s) \/ Serve(s) \/ Restart(s) \/ Toggle(s)
        PROVE  Serve(t)
    <3>1. ~(FirstReset(s) \/ Skip(s) \/ Restart(s) \/ Toggle(s))
      BY DEF FirstReset, Skip, Restart, Toggle, NextTask
    <3>2. Serve(s) /\ s = t
      BY <2>5, <3>1 DEF Serve
    <3> QED
      BY <3>2
  <2> QED
    BY <2>1, <2>3, <2>4, <2>5 DEF Next, MainStep
<1> QED
  BY <1>1, <1>2, LagAlways, PTL DEF Spec

(***************************************************************************)
(* For every word width, tick and interval: as long as main looks at both  *)
(* tasks between any two matches, no soft timer runs more than two ticks   *)
(* over its interval before main resets it.                                *)
(***************************************************************************)
THEOREM ServedInTime == Spec => []InTime
<1>1. TypeOK /\ ResolutionSet /\ LagInv => InTime
  <2> SUFFICES ASSUME TypeOK, ResolutionSet, LagInv, steady, NEW t \in Task
               PROVE  age[t] * IntervalMs <= Interval(t) + 2 * IntervalMs
    BY DEF InTime
  <2>a. PICK ms \in Resolutions : ms = IntervalMs
    BY TimerAssumption
  <2>b. kept[t] /\ ms = Res
    BY <2>a DEF ResolutionSet
  <2> SUFFICES age[t] * ms <= Interval(t) + 2 * ms
    BY <2>a
  <2>0. ms \in Nat /\ Interval(t) \in Nat /\ age[t] \in Nat /\ Uncounted \in {0, 1}
    BY LagNumbers
  <2>1. PICK k \in Nat : LagOf(t, k, ms)
    BY <2>b DEF LagInv
  <2>2. /\ age[t] <= k + Uncounted
        /\ (k + Uncounted) * ms <= Interval(t) + 2 * ms
    BY <2>1 DEF LagOf
  <2>3. k + Uncounted \in Nat
    BY <2>0
  <2>4. /\ age[t] * ms <= (k + Uncounted) * ms
        /\ age[t] * ms \in Int /\ (k + Uncounted) * ms \in Int
    BY <2>0, <2>2, <2>3, MoreTicks
  <2> QED
    BY <2>0, <2>2, <2>4
<1> QED
  BY <1>1, LagAlways, PTL
=============================================================================
