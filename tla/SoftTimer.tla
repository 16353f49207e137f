----------------------------- MODULE SoftTimer -----------------------------
(***************************************************************************)
(* The tick interrupt, the soft timers and the two periodic tasks of       *)
(* lpc2478_timer_irq (timer.c and main.c): hardware timer 0 raises an      *)
(* interrupt on every match, its handler counts the ticks, and main serves *)
(* a task whenever the task's soft timer has run for longer than its       *)
(* interval.                                                               *)
(*                                                                         *)
(* The handler stops main, so its two writes interleave with the hardware  *)
(* only.  main is cut at every reading of the tick counter.  A soft timer  *)
(* computes in machine words of Width bits: a product or a difference that *)
(* overflows wraps, as the multiply and subtract instructions do.          *)
(***************************************************************************)
EXTENDS Integers

CONSTANTS
  Width,            \* bits of an int, 32 on the processor
  IntervalMs,       \* milliseconds per tick, 10 in main
  Resolutions,      \* the milliseconds per tick an application may ask for
  TASK0_INTERVAL,   \* milliseconds
  TASK1_INTERVAL,
  MaxAge,           \* matches after which the age of a soft timer is capped
  MaxInit           \* times the application sets the running timer up again

Word == 2 ^ Width
HalfWord == 2 ^ (Width - 1)
Task == {0, 1}
Interval(t) == IF t = 0 THEN TASK0_INTERVAL ELSE TASK1_INTERVAL

ASSUME TimerAssumption ==
  /\ Width \in Nat \ {0} /\ Word \in Nat \ {0}
  /\ HalfWord \in Nat /\ Word = 2 * HalfWord
  /\ IntervalMs \in Resolutions /\ Resolutions \subseteq Nat \ {0}
  /\ \A t \in Task : Interval(t) \in Nat \ {0}
  /\ MaxAge \in Nat \ {0}
  /\ \A t \in Task, ms \in Resolutions : Interval(t) + 2 * ms < MaxAge * ms
  /\ \A t \in Task, ms \in Resolutions : Interval(t) + 2 * ms < HalfWord
  /\ MaxInit \in Nat

(* A Width-bit pattern read as a signed number. *)
Signed(n) == ((n + HalfWord) % Word) - HalfWord

VARIABLES
  T0TCR,            \* the timer counts
  T0IR,             \* its match flag, the interrupt request
  hpc,              \* TMR0_Handler: "idle", or "clear" before it clears T0IR
  tmrTicks,         \* tmrTicks[0], a word
  tmrResolutionMs,  \* tmrResolutionMs[0]
  timers,           \* timers[0] and timers[1], words
  pins,             \* the levels of the debug pins, P2.22 for task 0, P2.21 for 1
  pc,               \* main: the statement, and the task it is about
  inits,            \* times initTimer has run after the set-up
  matches,          \* history: matches of the hardware timer while steady, a word
  age,              \* history: matches since a soft timer was reset, capped
  kept,             \* history: the resolution is that of the last reset of a soft timer
  turn,             \* history: ends of the loop since the last match, up to 2
  steady            \* history: no match has come too early so far

hwVars == <<T0TCR, T0IR>>
histVars == <<matches, age, kept, turn, steady>>
vars == <<hwVars, hpc, tmrTicks, tmrResolutionMs, timers, pins, pc, inits, histVars>>

Pc == {"init", "enable", "reset", "run", "restart", "toggle"} \X Task

TypeOK ==
  /\ T0TCR \in BOOLEAN /\ T0IR \in BOOLEAN
  /\ hpc \in {"idle", "clear"}
  /\ tmrTicks \in 0 .. Word - 1
  /\ tmrResolutionMs \in {0} \cup Resolutions
  /\ timers \in [Task -> 0 .. Word - 1]
  /\ pins \in [Task -> BOOLEAN]
  /\ pc \in Pc
  /\ inits \in 0 .. MaxInit
  /\ matches \in 0 .. Word - 1
  /\ age \in [Task -> 0 .. MaxAge]
  /\ kept \in [Task -> BOOLEAN]
  /\ turn \in 0 .. 2
  /\ steady \in BOOLEAN

Init ==
  /\ T0TCR = FALSE /\ T0IR = FALSE
  /\ hpc = "idle"
  /\ tmrTicks = 0 /\ tmrResolutionMs = 0
  /\ timers = [t \in Task |-> 0]
  /\ pins = [t \in Task |-> FALSE]
  /\ pc = <<"init", 0>>
  /\ inits = 0
  /\ matches = 0
  /\ age = [t \in Task |-> 0]
  /\ kept = [t \in Task |-> TRUE]
  /\ turn = 2
  /\ steady = TRUE

----------------------------------------------------------------------------
(* The hardware timer and the interrupt. *)

(***************************************************************************)
(* The counter reaches MR0, restarts and raises the match flag, which is   *)
(* one bit: a match that finds it raised, or that falls between the        *)
(* handler's count and its clear, leaves no trace.  steady remembers that  *)
(* no match came so early, nor before main had looked at both tasks.       *)
(***************************************************************************)
Match ==
  /\ T0TCR
  /\ T0IR' = TRUE
  /\ steady' = (steady /\ ~T0IR /\ hpc = "idle" /\ turn = 2)
  /\ matches' = IF steady' THEN (matches + 1) % Word ELSE 0
  /\ turn' = 0
  /\ age' = [t \in Task |-> IF age[t] < MaxAge THEN age[t] + 1 ELSE MaxAge]
  /\ UNCHANGED <<T0TCR, hpc, tmrTicks, tmrResolutionMs, timers, pins, pc, inits, kept>>

(* TMR0_Handler, up to and including the count. *)
TMR0_Handler ==
  /\ T0IR /\ hpc = "idle"
  /\ pc # <<"init", 0>>
  /\ tmrTicks' = (tmrTicks + 1) % Word
  /\ hpc' = "clear"
  /\ UNCHANGED <<hwVars, tmrResolutionMs, timers, pins, pc, inits, histVars>>

(* Mutant: the handler acknowledges the VIC and leaves the match flag up. *)
HandlerForgetsClear ==
  /\ hpc = "clear"
  /\ hpc' = "idle"
  /\ UNCHANGED <<hwVars, tmrTicks, tmrResolutionMs, timers, pins, pc, inits, histVars>>

(* The rest of TMR0_Handler: all flags of the timer are cleared. *)
TMR0_Clear ==
  /\ hpc = "clear"
  /\ T0IR' = FALSE
  /\ hpc' = "idle"
  /\ UNCHANGED <<T0TCR, tmrTicks, tmrResolutionMs, timers, pins, pc, inits, histVars>>

----------------------------------------------------------------------------
(* main and the functions it calls. *)

(* Mutant: the product is kept at full precision and does not wrap. *)
MillisWide == tmrResolutionMs * tmrTicks

(* The milliseconds the soft timers run on, as a word. *)
Millis == (tmrResolutionMs * tmrTicks) % Word

(* timer(t, RUN) *)
Elapsed(t) == Signed(Millis - timers[t])

(***************************************************************************)
(* Registers, flags and resolution of initTimer(0, ms).  The tick count    *)
(* goes on from where it is: a new resolution rescales it, and the soft    *)
(* timers jump, until they are reset, by the ticks counted so far times    *)
(* the change.  kept forgets those timers.                                 *)
(***************************************************************************)
initTimer(ms) ==
  /\ T0TCR' = FALSE
  /\ T0IR' = FALSE
  /\ tmrResolutionMs' = ms

(* main initialises the timer, then enables the interrupt. *)
SetUp ==
  /\ pc = <<"init", 0>>
  /\ initTimer(IntervalMs)
  /\ pc' = <<"enable", 0>>
  /\ UNCHANGED <<hpc, tmrTicks, timers, pins, inits, histVars>>

(* enableTimer *)
enableTimer ==
  /\ pc = <<"enable", 0>> /\ hpc = "idle"
  /\ T0TCR' = TRUE
  /\ pc' = IF inits = 0 THEN <<"reset", 0>> ELSE <<"run", 0>>
  /\ UNCHANGED <<T0IR, hpc, tmrTicks, tmrResolutionMs, timers, pins, inits, histVars>>

(* timer(t, RESET): the base of soft timer t is the present time. *)
Reset(t) ==
  /\ timers' = [timers EXCEPT ![t] = Millis]
  /\ age' = [age EXCEPT ![t] = 0]
  /\ kept' = [kept EXCEPT ![t] = TRUE]

(* The resets before the loop. *)
FirstReset(t) ==
  /\ pc = <<"reset", t>> /\ hpc = "idle"
  /\ Reset(t)
  /\ pc' = IF t = 0 THEN <<"reset", 1>> ELSE <<"run", 0>>
  /\ UNCHANGED <<hwVars, hpc, tmrTicks, tmrResolutionMs, pins, inits, matches, turn, steady>>

(* The loop passes from one task to the other; turn follows it round. *)
NextTask(t) ==
  /\ pc' = <<"run", 1 - t>>
  /\ turn' = IF steady /\ t = 1 /\ turn < 2 THEN turn + 1 ELSE turn

(* Mutant: the task is due as soon as its interval is reached. *)
DueAtInterval(t) == Elapsed(t) >= Interval(t)

(* Mutant: the time is compared with a deadline instead of taking a difference. *)
DueAtDeadline(t) == Signed(Millis) > Signed(timers[t] + Interval(t))

(* The condition under which main serves task t. *)
Due(t) == Elapsed(t) > Interval(t)

(* The test of a task that is not due. *)
Skip(t) ==
  /\ pc = <<"run", t>> /\ hpc = "idle"
  /\ ~Due(t)
  /\ NextTask(t)
  /\ UNCHANGED <<hwVars, hpc, tmrTicks, tmrResolutionMs, timers, pins, inits, matches, age, kept, steady>>

(* The test of a task that is due; the tick may advance before the reset. *)
Serve(t) ==
  /\ pc = <<"run", t>> /\ hpc = "idle"
  /\ Due(t)
  /\ pc' = <<"restart", t>>
  /\ UNCHANGED <<hwVars, hpc, tmrTicks, tmrResolutionMs, timers, pins, inits, histVars>>

Restart(t) ==
  /\ pc = <<"restart", t>> /\ hpc = "idle"
  /\ Reset(t)
  /\ pc' = <<"toggle", t>>
  /\ UNCHANGED <<hwVars, hpc, tmrTicks, tmrResolutionMs, pins, inits, matches, turn, steady>>

(* FIO2PIN = ~FIO2PIN & bit: the task's bit is inverted, all others cleared. *)
Toggle(t) ==
  /\ pc = <<"toggle", t>> /\ hpc = "idle"
  /\ pins' = [u \in Task |-> u = t /\ ~pins[u]]
  /\ NextTask(t)
  /\ UNCHANGED <<hwVars, hpc, tmrTicks, tmrResolutionMs, timers, inits, matches, age, kept, steady>>

(***************************************************************************)
(* An application that stops the running timer, or sets it up again with   *)
(* any resolution, at the head of the loop.  main does neither; the driver *)
(* offers both.                                                            *)
(***************************************************************************)
Unsteady == steady' = FALSE /\ matches' = 0 /\ turn' = 0

disableTimer ==
  /\ pc = <<"run", 0>> /\ hpc = "idle"
  /\ inits < MaxInit
  /\ inits' = inits + 1
  /\ T0TCR' = FALSE
  /\ pc' = <<"enable", 0>>
  /\ Unsteady
  /\ UNCHANGED <<T0IR, hpc, tmrTicks, tmrResolutionMs, timers, pins, age, kept>>

Reinit ==
  /\ pc = <<"run", 0>> /\ hpc = "idle"
  /\ inits < MaxInit
  /\ inits' = inits + 1
  /\ \E ms \in Resolutions :
       /\ initTimer(ms)
       /\ kept' = [t \in Task |-> kept[t] /\ ms = tmrResolutionMs]
  /\ pc' = <<"enable", 0>>
  /\ Unsteady
  /\ UNCHANGED <<hpc, tmrTicks, timers, pins, age>>

----------------------------------------------------------------------------
Handler == TMR0_Handler \/ TMR0_Clear
MainStep ==
  \/ SetUp \/ enableTimer
  \/ \E t \in Task : FirstReset(t) \/ Skip(t) \/ Serve(t) \/ Restart(t) \/ Toggle(t)
Next == Match \/ Handler \/ MainStep \/ disableTimer \/ Reinit

Spec == Init /\ [][Next]_vars

(***************************************************************************)
(* The timer runs on, the processor takes a pending interrupt and finishes *)
(* the handler, and main is executed whenever the handler is not.          *)
(***************************************************************************)
FairSpec == Spec /\ WF_vars(Match) /\ WF_vars(Handler) /\ SF_vars(MainStep)

----------------------------------------------------------------------------
(* A match the handler has not counted yet. *)
Uncounted == IF T0IR /\ hpc = "idle" THEN 1 ELSE 0

(***************************************************************************)
(* One tick per match: while every match finds the previous one handled    *)
(* and both tasks looked at, the tick count of timer.c is exactly the      *)
(* number of matches of the hardware timer, but for the one whose handler  *)
(* has not counted yet, also when the counter wraps.  Nothing is said of a *)
(* timer that was stopped or set up again while it ran.                    *)
(***************************************************************************)
TickPerMatch == steady => (tmrTicks + Uncounted) % Word = matches

(***************************************************************************)
(* A task is never served early: whatever the delays, the lost ticks and   *)
(* the overflow of the millisecond count, when main restarts the soft      *)
(* timer of a task the hardware has matched, since the timer was last      *)
(* reset, at least as often as the interval has whole ticks.  A match that *)
(* was pending at the reset is counted after it and makes the elapsed time *)
(* one tick too long, which is why main's comparison is strict.  It holds  *)
(* again, at the new resolution, for every timer that was reset since the  *)
(* resolution was changed; the others jump and may be early.               *)
(***************************************************************************)
NeverEarly ==
  \A t \in Task :
    pc = <<"restart", t>> /\ kept[t] => (age[t] + 1) * tmrResolutionMs > Interval(t)

(***************************************************************************)
(* A task is served in time: if main looks at both tasks between any two   *)
(* ticks, no soft timer runs more than two ticks over its interval.        *)
(***************************************************************************)
InTime ==
  steady => \A t \in Task : age[t] * IntervalMs <= Interval(t) + 2 * IntervalMs

(***************************************************************************)
(* Both tasks are served again and again, across every overflow of the     *)
(* tick count and of the millisecond count, as long as main keeps pace.    *)
(***************************************************************************)
TasksServed ==
  \A t \in Task : []<>(pc = <<"toggle", t>> \/ ~steady)
============================================================================
