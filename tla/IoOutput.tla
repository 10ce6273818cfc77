------------------------------ MODULE IoOutput ------------------------------
(***************************************************************************)
(* A digital output of firmware/drv/pmz_io_control.c.                      *)
(*                                                                         *)
(* The timer interrupt runs local_timers() every 100 ms: it counts the     *)
(* timers down and lets outputs_task() end a phase of a blink or a whole   *)
(* operation.  The main loop sets, toggles, pulses and blinks the output   *)
(* with calls that are several assignments long, and nothing keeps the     *)
(* interrupt out of them.  A timer is 0 when it is off and 1 when it has   *)
(* expired.  The outputs share no state: this is one of them.              *)
(***************************************************************************)
EXTENDS Naturals, Sequences

CONSTANTS
  Times,     \* the times that the application asks for, in ms
  Inverted,  \* TRUE for a LED: io_output_get_state negates its pin
  Preempts   \* FALSE if the interrupt is kept out of the calls

\* Assumed by the modules that instantiate this one.
OutputAssumption == Times \subseteq Nat /\ Inverted \in BOOLEAN /\ Preempts \in BOOLEAN

TIME_RESOLUTION_MS == 100
Modes == {"SET", "PULSE", "BLINK"}
Levels == {"LOW", "HIGH"}
Other(level) == IF level = "HIGH" THEN "LOW" ELSE "HIGH"

VARIABLES
  running,  \* io.state is IO_STATE_RUNNING
  out,      \* the fields of io.output[i]
  pin,      \* its port pin
  todo,     \* the assignments that are left of the call under way
  asked,    \* history: the level of the last io_output_set_state, "any" after another call
  ticks     \* history: interrupts since the pin has changed, MaxTicks if too many to count

vars == <<running, out, pin, todo, asked, ticks>>

\* Bound of the history.
MaxTicks == 9

\* timer_ms
TimerMs(ms) == ms \div TIME_RESOLUTION_MS + 1
Off == 0
Expired == 1

\* Mutant of Dec: a timer that is off or has expired counts on.
DecForever(timer) == timer - 1

Dec(timer) == IF timer > 1 THEN timer - 1 ELSE timer

\* io_output_get_state
GetState(p) == IF Inverted THEN Other(p) ELSE p

\* io_initialize
Init ==
  /\ running = FALSE /\ pin = "LOW" /\ todo = <<>> /\ asked = "any" /\ ticks = 0
  /\ out = [mode |-> "SET", tPulse |-> Off, tOper |-> Off, high |-> 0, low |-> 0]

-----------------------------------------------------------------------------
(***************************************************************************)
(* The calls: each is the list of its assignments, in their order.         *)
(***************************************************************************)
Assign(field, value) == [field |-> field, value |-> value]
SetOutput(level) == Assign("pin", level)
SetMode(mode) == Assign("mode", mode)

Call(assignments, level) == todo = <<>> /\ todo' = assignments /\ asked' = level /\ UNCHANGED <<running, out, pin, ticks>>

\* Mutant of SetState: the timers of a pulse are left running.
SetStateTimersKept(level) == Call(<<SetMode("SET"), SetOutput(level)>>, level)

SetState(level) ==
  Call(<<Assign("tPulse", Off), Assign("tOper", Off), SetMode("SET"), SetOutput(level)>>, level)

Toggle ==
  Call(<<Assign("tOper", Off), Assign("tPulse", Off), SetMode("SET"), SetOutput("TOGGLE")>>, "any")

\* Mutant of Pulse: the two timers are swapped.
PulseTimerLost(level, ms) ==
  Call(<<Assign("tPulse", TimerMs(ms)), Assign("tOper", Off), SetMode("PULSE"), SetOutput(level)>>, "any")

Pulse(level, ms) ==
  Call(<<Assign("tOper", TimerMs(ms)), Assign("tPulse", Off), SetMode("PULSE"), SetOutput(level)>>, "any")

Blink(high, low, ms) ==
  Call(<<Assign("tPulse", TimerMs(high)),
         Assign("tOper", IF ms > 0 THEN TimerMs(ms) ELSE Off),
         SetMode("BLINK"), SetOutput("HIGH"), Assign("high", high), Assign("low", low)>>, "any")

PinIs(p) == pin' = p /\ ticks' = IF p = pin THEN ticks ELSE 0

\* One assignment; that of the pin sets its latch register.
CallStep ==
  /\ todo # <<>> /\ todo' = Tail(todo)
  /\ LET a == Head(todo)
     IN  IF a.field = "pin"
         THEN /\ UNCHANGED out
              /\ IF a.value = "TOGGLE" THEN PinIs(Other(pin))
                 ELSE pin' = a.value /\ ticks' = 0
         ELSE out' = [out EXCEPT ![a.field] = a.value] /\ UNCHANGED <<pin, ticks>>
  /\ UNCHANGED <<running, asked>>

-----------------------------------------------------------------------------
(***************************************************************************)
(* The interrupt.                                                          *)
(***************************************************************************)

\* The phase that begins is the other one.
PulseDue(o) ==
  IF o.tPulse = Expired /\ o.mode = "BLINK"
  THEN [o EXCEPT !.tPulse = TimerMs(IF GetState(pin) = "HIGH" THEN o.low ELSE o.high)]
  ELSE o

OperDue(o) ==
  IF o.tOper = Expired THEN [o EXCEPT !.tPulse = Off, !.tOper = Off, !.mode = "SET"] ELSE o

Toggles(o) == (IF o.tPulse = Expired /\ o.mode = "BLINK" THEN 1 ELSE 0)
              + (IF o.tOper = Expired THEN 1 ELSE 0)

\* local_timers and outputs_task; the first one only starts the inputs.
Interrupt ==
  /\ Preempts \/ todo = <<>>
  /\ running' = TRUE
  /\ LET o == [out EXCEPT !.tPulse = Dec(@), !.tOper = Dec(@)]
     IN  IF running
         THEN /\ out' = OperDue(PulseDue(o))
              /\ IF Toggles(o) = 1 THEN pin' = Other(pin) /\ ticks' = 0
                 ELSE UNCHANGED pin /\ ticks' = IF ticks < MaxTicks THEN ticks + 1 ELSE ticks
         ELSE out' = o /\ ticks' = MaxTicks /\ UNCHANGED pin
  /\ UNCHANGED <<todo, asked>>

Calls ==
  \/ \E level \in Levels : SetState(level) \/ \E ms \in Times : Pulse(level, ms)
  \/ Toggle
  \/ \E high, low, ms \in Times : Blink(high, low, ms)

Next == Calls \/ CallStep \/ Interrupt

Spec == Init /\ [][Next]_vars

\* The timer interrupts for ever, and the processor goes on with the call.
FairSpec == Spec /\ WF_vars(Interrupt) /\ WF_vars(CallStep)

-----------------------------------------------------------------------------
(***************************************************************************)
(* Properties.                                                             *)
(***************************************************************************)
LongestTime == CHOOSE t \in Times : \A u \in Times : u <= t
Timers == 0..(LongestTime \div TIME_RESOLUTION_MS + 1)

\* Types of the variables.
TypeOK ==
  /\ running \in BOOLEAN /\ pin \in Levels /\ asked \in Levels \cup {"any"} /\ ticks \in 0..MaxTicks
  /\ out \in [mode : Modes, tPulse : Timers, tOper : Timers, high : Times \cup {0}, low : Times \cup {0}]
  /\ Len(todo) <= 6

Idle == todo = <<>>

\* Once io_output_set_state has returned, the output is as it was asked to be and
\* stays so: no pulse or blink that the interrupt was in the middle of comes after
\* it ("(IO) Output=%d, set to high").
LevelAsAsked == Idle /\ asked \in Levels => GetState(pin) = asked

\* A phase or an operation of ms lasts that many ticks, one if it is shorter.
Lasted(n, ms) == n + 1 = (IF ms < TIME_RESOLUTION_MS THEN 1 ELSE ms \div TIME_RESOLUTION_MS)

\* A blink is HIGH for ms_pulse_high and LOW for ms_pulse_low, phase after phase
\* (not measured: the phase that the interrupt that only starts the inputs falls in).
PhaseLength ==
  [][Interrupt /\ out.mode = "BLINK" /\ out'.mode = "BLINK" /\ pin' # pin /\ ticks < MaxTicks
       => Lasted(ticks, IF GetState(pin) = "HIGH" THEN out.high ELSE out.low)]_vars

\* A pulse ends: io_output_pulse gives it an operation time.
PulseEnds == (Idle /\ out.mode = "PULSE") ~> (~Idle \/ out.mode = "SET")

\* A blink blinks until it is over.
BlinkAlternates ==
  \A level \in Levels :
    (Idle /\ out.mode = "BLINK" /\ pin = level) ~> (~Idle \/ out.mode = "SET" \/ pin # level)
=============================================================================
