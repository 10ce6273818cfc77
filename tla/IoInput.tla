------------------------------- MODULE IoInput -------------------------------
(***************************************************************************)
(* The digital inputs of firmware/drv/pmz_io_control.c, sampled every      *)
(* 100 ms by the timer interrupt and debounced over one of its periods.    *)
(* The pins change as they like.                                           *)
(***************************************************************************)
EXTENDS Naturals

CONSTANT Inputs  \* t_IO_INPUT_ID (12 in the code)

States == {"DISABLE", "UNKNOWN", "LOW", "LOW_TO_HIGH", "HIGH", "HIGH_TO_LOW"}
Edges == {"rising", "falling"}

VARIABLES
  initialized,  \* io.state is IO_STATE_RUNNING
  input,        \* io.input: state and t, a timer that is off at 0 and expired at 1
  pin,          \* the level of each pin: TRUE is high
  told,         \* the callback of the last interrupt, or "none"
  lastEdge,     \* history: the last edge that was told
  sample        \* history: the last two samples

historyVars == <<told, lastEdge, sample>>
vars == <<initialized, input, pin, historyVars>>

CteTime == 100 \div 100 + 1

\* Mutant of Dec: a timer that is off or has expired counts on.
DecForever(timer) == timer - 1

Dec(timer) == IF timer > 1 THEN timer - 1 ELSE timer
Expired(timer) == timer = 1

Of(value) == [i \in Inputs |-> value]

\* io_initialize
Init ==
  /\ initialized = FALSE /\ input = Of([state |-> "DISABLE", t |-> 0])
  /\ pin \in [Inputs -> BOOLEAN] /\ sample = [i \in Inputs |-> <<pin[i], pin[i]>>]
  /\ told = Of("none") /\ lastEdge = Of("none")

\* io_tasks in IO_STATE_INIT; a pin of the RS485 or RS232 module stays disabled.
Start ==
  /\ ~initialized /\ initialized' = TRUE
  /\ input' \in [Inputs -> [state : {"UNKNOWN", "DISABLE"}, t : {0}]]
  /\ UNCHANGED <<pin, historyVars>>

-----------------------------------------------------------------------------
(***************************************************************************)
(* inputs_task: what becomes of an input f whose pin is at level, and the  *)
(* callback it makes.                                                      *)
(***************************************************************************)
Result(state, timer, edge) == [state |-> state, t |-> timer, told |-> edge]

SteadyAt(level) == IF level THEN "HIGH" ELSE "LOW"
TowardsOf(level) == IF level THEN "LOW_TO_HIGH" ELSE "HIGH_TO_LOW"
EdgeTo(level) == IF level THEN "rising" ELSE "falling"

\* Mutant of Confirmed: a transition never ends.
ConfirmedNotReset(f, level) ==
  Result(f.state, 0, IF Expired(f.t) THEN EdgeTo(level) ELSE "none")

\* The transition goes on; once the timer has expired it is told.
Confirmed(f, level) ==
  IF Expired(f.t) THEN Result(SteadyAt(level), 0, EdgeTo(level)) ELSE Result(f.state, f.t, "none")

\* A sample at the other level: a transition to it begins, even if f was on its way
\* from there.
Changes(f, level) == Result(TowardsOf(level), CteTime, "none")

InputsTask(f, level) ==
  CASE f.state = "DISABLE" -> Result("DISABLE", f.t, "none")
    [] f.state = "UNKNOWN" -> Result(SteadyAt(level), 0, "none")
    [] f.state = SteadyAt(level) -> Result(f.state, f.t, "none")
    [] f.state = TowardsOf(level) -> Confirmed(f, level)
    [] f.state \in {SteadyAt(~level), TowardsOf(~level)} -> Changes(f, level)

\* local_timers and io_tasks in IO_STATE_RUNNING.
Running ==
  /\ initialized /\ UNCHANGED <<initialized, pin>>
  /\ LET after == [i \in Inputs |-> InputsTask([input[i] EXCEPT !.t = Dec(@)], pin[i])]
     IN  /\ input' = [i \in Inputs |-> [state |-> after[i].state, t |-> after[i].t]]
         /\ told' = [i \in Inputs |-> after[i].told]
         /\ lastEdge' = [i \in Inputs |-> IF told'[i] = "none" THEN lastEdge[i] ELSE told'[i]]
  /\ sample' = [i \in Inputs |-> <<sample[i][2], pin[i]>>]

Interrupt == Start \/ Running

PinChanges(i) == pin' = [pin EXCEPT ![i] = ~@] /\ UNCHANGED <<initialized, input, historyVars>>

Next == Interrupt \/ \E i \in Inputs : PinChanges(i)

Spec == Init /\ [][Next]_vars

\* The timer interrupts for ever.
FairSpec == Spec /\ WF_vars(Interrupt)

-----------------------------------------------------------------------------
(***************************************************************************)
(* Properties.                                                             *)
(***************************************************************************)
\* Types of the variables.
TypeOK ==
  /\ initialized \in BOOLEAN /\ input \in [Inputs -> [state : States, t : 0..2]]
  /\ pin \in [Inputs -> BOOLEAN] /\ sample \in [Inputs -> BOOLEAN \X BOOLEAN]
  /\ told \in [Inputs -> Edges \cup {"none"}] /\ lastEdge \in [Inputs -> Edges \cup {"none"}]

\* No edge is told on one sample: the level has been there for two.
Debounced == \A i \in Inputs : \A level \in BOOLEAN : told[i] = EdgeTo(level) => sample[i] = <<level, level>>

\* What the callbacks have told and what io_input_get_state answers agree.
StateAsTold ==
  \A i \in Inputs : \A level \in BOOLEAN :
    input[i].state = SteadyAt(level) => lastEdge[i] # EdgeTo(~level)

\* An input whose pin stays at a level is read at that level.
SteadyIsRead ==
  \A i \in Inputs : \A level \in BOOLEAN :
    <>[](pin[i] = level) => <>[](input[i].state \in {SteadyAt(level), "DISABLE"})

\* A rising edge goes from low to high and a falling one from high to low, as the
\* comments beside the two callbacks say: one is followed by the other.
EdgesAlternate == [][\A i \in Inputs : Running /\ told'[i] # "none" => told'[i] # lastEdge[i]]_vars
=============================================================================
