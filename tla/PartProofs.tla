----------------------------- MODULE PartProofs -----------------------------
(***************************************************************************)
(* Proofs about parts that work alone.  A digital output (IoOutput), for   *)
(* any times: whether the interrupt comes between the assignments of a     *)
(* call or not, what is left of the call tells how far the timers are      *)
(* already set; this is what the last io_output_set_state relies on to win *)
(* over a pulse or a blink.  If the interrupt is kept out of the calls, a  *)
(* blink keeps its phases.  A position on its way (GpsRecord), for any of  *)
(* the north-east with minutes of two digits: the server understands it.   *)
(* The frames of the WebSocket client (WsFrames), for any sizes and any    *)
(* allocations that fail: none that was freed is kept.                     *)
(***************************************************************************)
EXTENDS IoOutput, SequenceTheorems, FiniteSetTheorems, TLAPS

CONSTANTS
  Western, Degrees, Minutes, Fractions, Lengths, Speeds, Courses,          \* GpsRecord
  Chunk, HeaderSizes, MaxPayload, MaxFragments, MaxFailures, Cuts, Masks   \* WsFrames

VARIABLES
  line, info, body, answer, shown,                                 \* GpsRecord
  frames, blocks, fOut, failures, header, pos, message, whole      \* WsFrames

Report == INSTANCE GpsRecord
Frames == INSTANCE WsFrames WITH out <- fOut

-----------------------------------------------------------------------------
(***************************************************************************)
(* The types of the variables; that the timers are bounded by the longest  *)
(* time needs that there is one, and is not needed here.                   *)
(***************************************************************************)
Assignments ==
  [field : {"tPulse", "tOper", "high", "low"}, value : Nat]
    \cup [field : {"mode"}, value : Modes]
    \cup [field : {"pin"}, value : Levels \cup {"TOGGLE"}]

TypeInv ==
  /\ running \in BOOLEAN /\ pin \in Levels /\ ticks \in 0..MaxTicks /\ todo \in Seq(Assignments)
  /\ out \in [mode : Modes, tPulse : Nat, tOper : Nat, high : Nat, low : Nat]

\* A timer that is set is not off.
LEMMA TimerIsNat == ASSUME NEW ms \in Nat PROVE TimerMs(ms) \in Nat \ {0}
BY DEF TimerMs, TIME_RESOLUTION_MS

\* A toggle changes the pin.
LEMMA OtherLevel == ASSUME NEW p \in Levels PROVE Other(p) \in Levels /\ Other(p) # p
BY DEF Levels, Other

\* The last assignments of a call.
LEMMA Lists ==
  ASSUME NEW a, NEW b, NEW c, NEW d
  PROVE  /\ <<a, b, c, d>> # <<>> /\ Head(<<a, b, c, d>>) = a /\ Tail(<<a, b, c, d>>) = <<b, c, d>>
         /\ <<b, c, d>> # <<>> /\ Head(<<b, c, d>>) = b /\ Tail(<<b, c, d>>) = <<c, d>>
         /\ <<c, d>> # <<>> /\ Head(<<c, d>>) = c /\ Tail(<<c, d>>) = <<d>>
         /\ <<d>> # <<>> /\ Head(<<d>>) = d /\ Tail(<<d>>) = <<>>
OBVIOUS

\* A call only writes down its assignments.
LEMMA CallTyped == ASSUME OutputAssumption, TypeInv, Calls PROVE TypeInv'
<1>1. Times \subseteq Nat
  BY DEF OutputAssumption
<1>2. Off \in Nat
  BY DEF Off
<1>3. ASSUME NEW field \in {"tPulse", "tOper", "high", "low"}, NEW n \in Nat
      PROVE Assign(field, n) \in Assignments
  BY DEF Assign, Assignments
<1>4. ASSUME NEW m \in Modes PROVE SetMode(m) \in Assignments
  BY DEF SetMode, Assign, Assignments
<1>5. ASSUME NEW p \in Levels \cup {"TOGGLE"} PROVE SetOutput(p) \in Assignments
  BY DEF SetOutput, Assign, Assignments
<1>6. ASSUME NEW s \in Seq(Assignments), NEW level, Call(s, level) PROVE TypeInv'
  BY <1>6 DEF Call, TypeInv
<1>7. {"SET", "PULSE", "BLINK"} \subseteq Modes /\ "HIGH" \in Levels
  BY DEF Modes, Levels
<1>8. ASSUME NEW a \in Assignments, NEW b \in Assignments, NEW c \in Assignments, NEW d \in Assignments
      PROVE  <<a, b, c, d>> \in Seq(Assignments)
  OBVIOUS
<1>9. ASSUME NEW level \in Levels, SetState(level) PROVE TypeInv'
  <2>1. <<Assign("tPulse", Off), Assign("tOper", Off), SetMode("SET"), SetOutput(level)>> \in Seq(Assignments)
    BY <1>2, <1>3, <1>4, <1>5, <1>7, <1>8
  <2>2. QED
    BY <1>6, <1>9, <2>1 DEF SetState
<1>10. ASSUME NEW level \in Levels, NEW ms \in Times, Pulse(level, ms) PROVE TypeInv'
  <2>1. TimerMs(ms) \in Nat
    BY <1>1, TimerIsNat
  <2>2. <<Assign("tOper", TimerMs(ms)), Assign("tPulse", Off), SetMode("PULSE"), SetOutput(level)>>
          \in Seq(Assignments)
    BY <1>2, <1>3, <1>4, <1>5, <1>7, <1>8, <2>1
  <2>3. QED
    BY <1>6, <1>10, <2>2 DEF Pulse
<1>11. CASE Toggle
  <2>1. <<Assign("tOper", Off), Assign("tPulse", Off), SetMode("SET"), SetOutput("TOGGLE")>>
          \in Seq(Assignments)
    BY <1>2, <1>3, <1>4, <1>5, <1>7, <1>8
  <2>2. QED
    BY <1>6, <1>11, <2>1 DEF Toggle
<1>12. ASSUME NEW high \in Times, NEW low \in Times, NEW ms \in Times, Blink(high, low, ms) PROVE TypeInv'
  <2> DEFINE oper == IF ms > 0 THEN TimerMs(ms) ELSE Off
             s == <<Assign("tPulse", TimerMs(high)), Assign("tOper", oper), SetMode("BLINK"),
                    SetOutput("HIGH"), Assign("high", high), Assign("low", low)>>
  <2>1. high \in Nat /\ low \in Nat /\ TimerMs(high) \in Nat /\ oper \in Nat
    BY <1>1, <1>2, TimerIsNat
  <2> HIDE DEF oper
  <2>2. /\ Assign("tPulse", TimerMs(high)) \in Assignments /\ Assign("tOper", oper) \in Assignments
        /\ SetMode("BLINK") \in Assignments /\ SetOutput("HIGH") \in Assignments
        /\ Assign("high", high) \in Assignments /\ Assign("low", low) \in Assignments
    BY <1>3, <1>4, <1>5, <1>7, <2>1
  <2>3. s \in Seq(Assignments)
    BY <2>2
  <2>4. Call(s, "any")
    BY <1>12 DEF Blink, oper
  <2>5. QED
    BY <1>6, <2>3, <2>4
<1>13. QED
  BY <1>9, <1>10, <1>11, <1>12 DEF Calls

\* Each of them has the type of its field.
LEMMA CallStepTyped == ASSUME TypeInv, CallStep PROVE TypeInv'
<1> DEFINE a == Head(todo)
<1>1. a \in Assignments /\ todo' \in Seq(Assignments) /\ UNCHANGED running
  BY DEF CallStep, TypeInv
<1>2. CASE a.field = "pin"
  BY <1>1, <1>2, OtherLevel DEF CallStep, TypeInv, PinIs, Assignments, Levels, MaxTicks
<1>3. CASE a.field # "pin"
  BY <1>1, <1>3 DEF CallStep, TypeInv, Assignments
<1>4. QED
  BY <1>2, <1>3

\* The interrupt: the timers as they are counted down, and what ends.
LEMMA InterruptTyped ==
  ASSUME OutputAssumption, TypeInv, Interrupt
  PROVE  /\ TypeInv'
         /\ UNCHANGED <<todo, asked>>
         /\ \E o \in [mode : {out.mode}, tPulse : {Dec(out.tPulse)}, tOper : {Dec(out.tOper)},
                      high : {out.high}, low : {out.low}] :
              IF running
              THEN /\ out' = OperDue(PulseDue(o))
                   /\ IF Toggles(o) = 1 THEN pin' = Other(pin) /\ ticks' = 0
                      ELSE UNCHANGED pin /\ ticks' = IF ticks < MaxTicks THEN ticks + 1 ELSE ticks
              ELSE out' = o /\ ticks' = MaxTicks /\ UNCHANGED pin
<1> DEFINE o == [out EXCEPT !.tPulse = Dec(@), !.tOper = Dec(@)]
           Outs == [mode : Modes, tPulse : Nat, tOper : Nat, high : Nat, low : Nat]
<1>1. Dec(out.tPulse) \in Nat /\ Dec(out.tOper) \in Nat
  BY DEF TypeInv, Dec
<1>2. /\ out \in Outs /\ o \in Outs
      /\ o \in [mode : {out.mode}, tPulse : {Dec(out.tPulse)}, tOper : {Dec(out.tOper)},
                high : {out.high}, low : {out.low}]
  BY <1>1 DEF TypeInv
<1>3. IF running
      THEN /\ out' = OperDue(PulseDue(o))
           /\ IF Toggles(o) = 1 THEN pin' = Other(pin) /\ ticks' = 0
              ELSE UNCHANGED pin /\ ticks' = IF ticks < MaxTicks THEN ticks + 1 ELSE ticks
      ELSE out' = o /\ ticks' = MaxTicks /\ UNCHANGED pin
  BY DEF Interrupt
<1> HIDE DEF o
<1>4. PulseDue(o) \in Outs
  <2>1. TimerMs(IF GetState(pin) = "HIGH" THEN o.low ELSE o.high) \in Nat
    BY <1>2, TimerIsNat
  <2>2. QED
    BY <1>2, <2>1 DEF PulseDue
<1>5. OperDue(PulseDue(o)) \in Outs
  BY <1>4 DEF OperDue, Off, Modes
<1>6. out' \in Outs /\ pin' \in Levels /\ ticks' \in 0..MaxTicks
  <2>1. out' \in Outs
    BY <1>2, <1>3, <1>5
  <2>2. pin' \in Levels
    BY <1>3, OtherLevel DEF TypeInv
  <2>3. ticks' \in 0..MaxTicks
    BY <1>3 DEF TypeInv, MaxTicks
  <2>4. QED
    BY <2>1, <2>2, <2>3
<1>7. running' \in BOOLEAN /\ UNCHANGED <<todo, asked>>
  BY DEF Interrupt
<1>8. QED
  BY <1>2, <1>3, <1>6, <1>7 DEF TypeInv

\* Every step keeps the types.
LEMMA StepTyped == ASSUME OutputAssumption, TypeInv, [Next]_vars PROVE TypeInv'
<1>1. CASE UNCHANGED vars
  BY <1>1 DEF vars, TypeInv
<1>2. QED
  BY <1>1, CallTyped, CallStepTyped, InterruptTyped DEF Next

-----------------------------------------------------------------------------
(***************************************************************************)
(* io_output_set_state.                                                    *)
(***************************************************************************)
\* What is left of its call tells which timers it has stopped already; the interrupt starts
\* none.
LevelInv ==
  asked \in Levels =>
    LET p == Assign("tPulse", Off)  q == Assign("tOper", Off)  m == SetMode("SET")  l == SetOutput(asked)
    IN  \/ todo = <<p, q, m, l>>
        \/ todo = <<q, m, l>> /\ out.tPulse = Off
        \/ todo = <<m, l>> /\ out.tPulse = Off /\ out.tOper = Off
        \/ todo = <<l>> /\ out.tPulse = Off /\ out.tOper = Off
        \/ todo = <<>> /\ out.tPulse = Off /\ out.tOper = Off /\ pin = asked

\* Every step keeps what io_output_set_state relies on.
LEMMA StepLevel ==
  ASSUME OutputAssumption, TypeInv, LevelInv, [Next]_vars
  PROVE  LevelInv'
<1> DEFINE p == Assign("tPulse", Off)  q == Assign("tOper", Off)  m == SetMode("SET")  l == SetOutput(asked)
<1>1. CASE Calls
  <2>1. CASE \E level \in Levels : SetState(level)
    BY <2>1 DEF SetState, Call, LevelInv
  <2>2. CASE asked' = "any"
    BY <2>2 DEF LevelInv, Levels
  <2>3. QED
    BY <1>1, <2>1, <2>2 DEF Calls, Pulse, Toggle, Blink, Call
<1>2. CASE CallStep
  <2> SUFFICES ASSUME asked' \in Levels PROVE LevelInv'
    BY DEF LevelInv
  <2> asked' = asked /\ todo' = Tail(todo) /\ todo # <<>>
    BY <1>2 DEF CallStep
  <2> HIDE DEF p, q, m, l
  <2>1. CASE todo = <<p, q, m, l>>
    <3>1. Head(todo) = p /\ todo' = <<q, m, l>>
      BY <2>1, Lists
    <3>2. out'.tPulse = Off
      BY <1>2, <3>1 DEF CallStep, p, Assign, TypeInv
    <3>3. QED
      BY <3>1, <3>2 DEF LevelInv, q, m, l
  <2>2. CASE todo = <<q, m, l>> /\ out.tPulse = Off
    <3>1. Head(todo) = q /\ todo' = <<m, l>>
      BY <2>2, Lists
    <3>2. out'.tPulse = Off /\ out'.tOper = Off
      BY <1>2, <2>2, <3>1 DEF CallStep, q, Assign, TypeInv
    <3>3. QED
      BY <3>1, <3>2 DEF LevelInv, m, l
  <2>3. CASE todo = <<m, l>> /\ out.tPulse = Off /\ out.tOper = Off
    <3>1. Head(todo) = m /\ todo' = <<l>>
      BY <2>3, Lists
    <3>2. out'.tPulse = Off /\ out'.tOper = Off
      BY <1>2, <2>3, <3>1 DEF CallStep, m, SetMode, Assign, TypeInv
    <3>3. QED
      BY <3>1, <3>2 DEF LevelInv, l
  <2>4. CASE todo = <<l>> /\ out.tPulse = Off /\ out.tOper = Off
    <3>1. Head(todo) = l /\ todo' = <<>>
      BY <2>4, Lists
    <3>2. UNCHANGED out /\ pin' = asked
      BY <1>2, <3>1 DEF CallStep, l, SetOutput, Assign, Levels
    <3>3. QED
      BY <2>4, <3>1, <3>2 DEF LevelInv
  <2>5. QED
    BY <2>1, <2>2, <2>3, <2>4 DEF LevelInv, p, q, m, l
<1>3. CASE Interrupt
  <2> PICK o \in [mode : {out.mode}, tPulse : {Dec(out.tPulse)}, tOper : {Dec(out.tOper)},
                  high : {out.high}, low : {out.low}] :
        IF running
        THEN /\ out' = OperDue(PulseDue(o))
             /\ IF Toggles(o) = 1 THEN pin' = Other(pin) /\ ticks' = 0
                ELSE UNCHANGED pin /\ ticks' = IF ticks < MaxTicks THEN ticks + 1 ELSE ticks
        ELSE out' = o /\ ticks' = MaxTicks /\ UNCHANGED pin
    BY <1>3, InterruptTyped
  <2>1. ASSUME out.tPulse = Off PROVE o.tPulse = Off /\ PulseDue(o) = o /\ out'.tPulse = Off
    <3>1. o.tPulse = Off /\ PulseDue(o) = o
      BY <2>1 DEF Off, Dec, Expired, PulseDue
    <3>2. OperDue(o).tPulse = Off
      BY <3>1 DEF OperDue
    <3>3. QED
      BY <3>1, <3>2
  <2>2. ASSUME out.tPulse = Off, out.tOper = Off PROVE out'.tOper = Off /\ UNCHANGED pin
    <3>1. o.tOper = Off /\ OperDue(o) = o /\ Toggles(o) = 0
      BY <2>1, <2>2 DEF Off, Dec, Expired, OperDue, Toggles
    <3>2. QED
      BY <2>1, <2>2, <3>1
  <2>3. UNCHANGED <<todo, asked>>
    BY <1>3 DEF Interrupt
  <2>4. QED
    BY <2>1, <2>2, <2>3 DEF LevelInv
<1>4. CASE UNCHANGED vars
  BY <1>4 DEF vars, LevelInv
<1>5. QED
  BY <1>1, <1>2, <1>3, <1>4 DEF Next

\* io_initialize.
LEMMA InitTyped == Init => TypeInv /\ LevelInv
<1> SUFFICES ASSUME Init PROVE TypeInv /\ LevelInv
  OBVIOUS
<1>1. todo \in Seq(Assignments)
  BY DEF Init
<1>2. out \in [mode : Modes, tPulse : Nat, tOper : Nat, high : Nat, low : Nat]
  BY DEF Init, Modes, Off
<1>3. asked \notin Levels
  BY DEF Init, Levels
<1>4. LevelInv
  BY <1>3 DEF LevelInv
<1>5. TypeInv
  <2>1. running \in BOOLEAN /\ pin \in Levels
    BY DEF Init, Levels
  <2>2. ticks \in 0..MaxTicks
    BY DEF Init, MaxTicks
  <2>3. QED
    BY <1>1, <1>2, <2>1, <2>2 DEF TypeInv
<1>6. QED
  BY <1>4, <1>5

\* Both hold in every state.
LEMMA Inductive == ASSUME OutputAssumption PROVE Spec => [](TypeInv /\ LevelInv)
<1>1. TypeInv /\ LevelInv /\ [Next]_vars => TypeInv' /\ LevelInv'
  BY StepTyped, StepLevel
<1>2. QED
  BY <1>1, InitTyped, PTL DEF Spec

\* pmz_io_control.c: with the interrupt between any two assignments of any call, the last
\* io_output_set_state that has returned wins over every pulse and blink; io_output_get_state
\* tells so of an output that it does not negate.
THEOREM LastSetStateWins == ASSUME OutputAssumption, ~Inverted PROVE Spec => []LevelAsAsked
<1>1. LevelInv => LevelAsAsked
  <2> SUFFICES ASSUME LevelInv, asked \in Levels, todo = <<>> PROVE pin = asked
    BY DEF LevelAsAsked, Idle, GetState
  <2>1. QED
    BY Lists DEF LevelInv
<1>2. QED
  BY <1>1, Inductive, PTL

-----------------------------------------------------------------------------
(***************************************************************************)
(* io_output_blink, with the interrupt kept out of the calls.              *)
(***************************************************************************)
TimerAssigns == [field : {"tPulse", "tOper"}, value : Nat]

\* A call that does not blink: it has left BLINK before it sets the pin.
PlainCall ==
  \E a, b \in TimerAssigns, mode \in {"SET", "PULSE"}, x \in Levels \cup {"TOGGLE"} :
    \/ todo = <<a, b, SetMode(mode), SetOutput(x)>> \/ todo = <<b, SetMode(mode), SetOutput(x)>>
    \/ todo = <<SetMode(mode), SetOutput(x)>>
    \/ todo = <<SetOutput(x)>> /\ out.mode # "BLINK"

\* A blink: its assignments, and what they have done.
BlinkTodo(n, h, oper, l) ==
  LET P == Assign("tPulse", TimerMs(h))  O == Assign("tOper", oper)  M == SetMode("BLINK")
      S == SetOutput("HIGH")  H == Assign("high", h)  L == Assign("low", l)
  IN  CASE n = 0 -> <<P, O, M, S, H, L>> [] n = 1 -> <<O, M, S, H, L>> [] n = 2 -> <<M, S, H, L>>
        [] n = 3 -> <<S, H, L>> [] n = 4 -> <<H, L>> [] n = 5 -> <<L>>

BlinkCall ==
  \E n \in 0..5, h, l, oper \in Nat :
    /\ todo = BlinkTodo(n, h, oper, l)
    /\ n >= 1 => out.tPulse = TimerMs(h)
    /\ n >= 4 => pin = "HIGH" /\ ticks = 0
    /\ n = 5 => out.high = h

\* The interrupts that a phase of ms has seen and those that it has yet to see.
Phase(ms) ==
  IF ms < TIME_RESOLUTION_MS THEN out.tPulse = 1 /\ ticks = 0
  ELSE out.tPulse >= 2 /\ ticks + out.tPulse = ms \div TIME_RESOLUTION_MS + 1

Measured == out.mode = "BLINK" /\ ticks < MaxTicks => Phase(IF pin = "HIGH" THEN out.high ELSE out.low)

PhaseInv == (Idle /\ Measured) \/ PlainCall \/ BlinkCall

\* A phase that begins has its whole time before it.
LEMMA PhaseBegins ==
  ASSUME TypeInv, NEW ms \in Nat, out.tPulse = TimerMs(ms), ticks = 0
  PROVE  Phase(ms)
BY DEF Phase, TimerMs, TIME_RESOLUTION_MS

\* In the middle of a call there is something left of it.
LEMMA BusyCalls == PlainCall \/ BlinkCall => todo # <<>>
<1>1. ASSUME PlainCall PROVE todo # <<>>
  BY <1>1 DEF PlainCall
<1>2. ASSUME BlinkCall PROVE todo # <<>>
  BY <1>2 DEF BlinkCall, BlinkTodo
<1>3. QED
  BY <1>1, <1>2

\* A call that begins.
LEMMA CallPhase == ASSUME OutputAssumption, Calls PROVE PhaseInv'
<1>1. Times \subseteq Nat /\ Off \in Nat
  BY DEF OutputAssumption, Off
<1>2. ASSUME NEW a \in TimerAssigns, NEW b \in TimerAssigns, NEW mode \in {"SET", "PULSE"},
             NEW x \in Levels \cup {"TOGGLE"}, todo' = <<a, b, SetMode(mode), SetOutput(x)>>
      PROVE  PhaseInv'
  BY <1>2 DEF PhaseInv, PlainCall
<1>3. ASSUME NEW field \in {"tPulse", "tOper"}, NEW n \in Nat PROVE Assign(field, n) \in TimerAssigns
  BY DEF Assign, TimerAssigns
<1>4. ASSUME NEW level \in Levels, SetState(level) PROVE PhaseInv'
  BY <1>1, <1>2, <1>3, <1>4 DEF SetState, Call
<1>5. ASSUME NEW level \in Levels, NEW ms \in Times, Pulse(level, ms) PROVE PhaseInv'
  <2>1. TimerMs(ms) \in Nat
    BY <1>1, TimerIsNat
  <2>2. QED
    BY <1>1, <1>2, <1>3, <1>5, <2>1 DEF Pulse, Call
<1>6. ASSUME Toggle PROVE PhaseInv'
  BY <1>1, <1>2, <1>3, <1>6 DEF Toggle, Call
<1>7. ASSUME NEW high \in Times, NEW low \in Times, NEW ms \in Times, Blink(high, low, ms) PROVE PhaseInv'
  <2> DEFINE oper == IF ms > 0 THEN TimerMs(ms) ELSE Off
  <2>1. high \in Nat /\ low \in Nat /\ oper \in Nat
    BY <1>1, TimerIsNat
  <2>2. todo' = BlinkTodo(0, high, oper, low)
    BY <1>7 DEF Blink, Call, BlinkTodo
  <2> HIDE DEF oper
  <2>3. BlinkCall'
    BY <2>1, <2>2 DEF BlinkCall
  <2>4. QED
    BY <2>3 DEF PhaseInv
<1>8. QED
  BY <1>4, <1>5, <1>6, <1>7 DEF Calls

\* An assignment of a call that does not blink.
LEMMA PlainStep == ASSUME TypeInv, PlainCall, CallStep PROVE PhaseInv'
<1> PICK a \in TimerAssigns, b \in TimerAssigns, mode \in {"SET", "PULSE"}, x \in Levels \cup {"TOGGLE"} :
      \/ todo = <<a, b, SetMode(mode), SetOutput(x)>> \/ todo = <<b, SetMode(mode), SetOutput(x)>>
      \/ todo = <<SetMode(mode), SetOutput(x)>>
      \/ todo = <<SetOutput(x)>> /\ out.mode # "BLINK"
  BY DEF PlainCall
<1> DEFINE m == SetMode(mode)  l == SetOutput(x)
<1> HIDE DEF m, l
<1>1. todo' = Tail(todo)
  BY DEF CallStep
<1>2. CASE todo = <<a, b, m, l>> \/ todo = <<b, m, l>>
  <2>1. CASE todo = <<a, b, m, l>>
    <3>1. todo' = <<b, m, l>>
      BY <1>1, <2>1, Lists
    <3>2. QED
      BY <3>1 DEF PhaseInv, PlainCall, m, l
  <2>2. CASE todo = <<b, m, l>>
    <3>1. todo' = <<m, l>>
      BY <1>1, <2>2, Lists
    <3>2. QED
      BY <3>1 DEF PhaseInv, PlainCall, m, l
  <2>3. QED
    BY <1>2, <2>1, <2>2
<1>3. CASE todo = <<m, l>>
  <2>1. Head(todo) = m /\ todo' = <<l>>
    BY <1>3, Lists DEF CallStep
  <2>2. out'.mode # "BLINK"
    BY <2>1 DEF CallStep, m, SetMode, Assign, TypeInv
  <2>3. QED
    BY <2>1, <2>2 DEF PhaseInv, PlainCall, l
<1>4. CASE todo = <<l>> /\ out.mode # "BLINK"
  <2>1. Head(todo) = l /\ todo' = <<>>
    BY <1>4, Lists DEF CallStep
  <2>2. UNCHANGED out
    BY <2>1 DEF CallStep, l, SetOutput, Assign
  <2>3. QED
    BY <1>4, <2>1, <2>2 DEF PhaseInv, Idle, Measured
<1>5. QED
  BY <1>2, <1>3, <1>4 DEF m, l

\* An assignment of io_output_blink, one after the other.
LEMMA BlinkStep == ASSUME TypeInv, BlinkCall, CallStep PROVE PhaseInv'
<1> PICK n \in 0..5, h \in Nat, l \in Nat, oper \in Nat :
      /\ todo = BlinkTodo(n, h, oper, l)
      /\ n >= 1 => out.tPulse = TimerMs(h)
      /\ n >= 4 => pin = "HIGH" /\ ticks = 0
      /\ n = 5 => out.high = h
  BY DEF BlinkCall
<1> DEFINE a == Head(todo)
<1>1. TimerMs(h) \in Nat
  BY TimerIsNat
<1>2. /\ todo' = Tail(todo)
      /\ (a.field # "pin" => out' = [out EXCEPT ![a.field] = a.value] /\ UNCHANGED <<pin, ticks>>)
      /\ (a.field = "pin" /\ a.value # "TOGGLE" => UNCHANGED out /\ pin' = a.value /\ ticks' = 0)
  BY DEF CallStep
<1>3. CASE n = 0
  <2>1. a = Assign("tPulse", TimerMs(h)) /\ todo' = BlinkTodo(1, h, oper, l)
    BY <1>2, <1>3 DEF BlinkTodo
  <2>2. out'.tPulse = TimerMs(h)
    BY <1>2, <2>1 DEF Assign, TypeInv
  <2>3. QED
    BY <2>1, <2>2 DEF PhaseInv, BlinkCall
<1>4. CASE n = 1
  <2>1. a = Assign("tOper", oper) /\ todo' = BlinkTodo(2, h, oper, l)
    BY <1>2, <1>4 DEF BlinkTodo
  <2>2. out'.tPulse = TimerMs(h)
    BY <1>2, <1>4, <2>1 DEF Assign, TypeInv
  <2>3. QED
    BY <2>1, <2>2 DEF PhaseInv, BlinkCall
<1>5. CASE n = 2
  <2>1. a = SetMode("BLINK") /\ todo' = BlinkTodo(3, h, oper, l)
    BY <1>2, <1>5 DEF BlinkTodo
  <2>2. out'.tPulse = TimerMs(h)
    BY <1>2, <1>5, <2>1 DEF SetMode, Assign, TypeInv
  <2>3. QED
    BY <2>1, <2>2 DEF PhaseInv, BlinkCall
<1>6. CASE n = 3
  <2>1. a = SetOutput("HIGH") /\ todo' = BlinkTodo(4, h, oper, l)
    BY <1>2, <1>6 DEF BlinkTodo
  <2>2. out' = out /\ pin' = "HIGH" /\ ticks' = 0
    BY <1>2, <2>1 DEF SetOutput, Assign
  <2>3. QED
    BY <1>6, <2>1, <2>2 DEF PhaseInv, BlinkCall
<1>7. CASE n = 4
  <2>1. a = Assign("high", h) /\ todo' = BlinkTodo(5, h, oper, l)
    BY <1>2, <1>7 DEF BlinkTodo
  <2>2. out'.tPulse = TimerMs(h) /\ out'.high = h /\ UNCHANGED <<pin, ticks>>
    BY <1>2, <1>7, <2>1 DEF Assign, TypeInv
  <2>3. QED
    BY <1>7, <2>1, <2>2 DEF PhaseInv, BlinkCall
<1>8. CASE n = 5
  <2>1. a = Assign("low", l) /\ todo' = <<>>
    BY <1>2, <1>8 DEF BlinkTodo
  <2>2. out'.tPulse = TimerMs(h) /\ out'.high = h /\ pin' = "HIGH" /\ ticks' = 0
    BY <1>2, <1>8, <2>1 DEF Assign, TypeInv
  <2>3. TypeInv'
    BY CallStepTyped
  <2>4. Phase(h)'
    BY <2>2, <2>3 DEF Phase, TimerMs, TIME_RESOLUTION_MS
  <2>5. QED
    BY <2>1, <2>2, <2>4 DEF PhaseInv, Idle, Measured
<1>9. QED
  BY <1>3, <1>4, <1>5, <1>6, <1>7, <1>8

\* An interrupt ends the phase or counts towards its end.
LEMMA InterruptPhase ==
  ASSUME OutputAssumption, ~Inverted, TypeInv, Idle, Measured, Interrupt
  PROVE  /\ PhaseInv'
         /\ out.mode = "BLINK" /\ out'.mode = "BLINK" /\ pin' # pin /\ ticks < MaxTicks
              => Lasted(ticks, IF GetState(pin) = "HIGH" THEN out.high ELSE out.low)
<1> PICK o \in [mode : {out.mode}, tPulse : {Dec(out.tPulse)}, tOper : {Dec(out.tOper)},
                high : {out.high}, low : {out.low}] :
      IF running
      THEN /\ out' = OperDue(PulseDue(o))
           /\ IF Toggles(o) = 1 THEN pin' = Other(pin) /\ ticks' = 0
              ELSE UNCHANGED pin /\ ticks' = IF ticks < MaxTicks THEN ticks + 1 ELSE ticks
      ELSE out' = o /\ ticks' = MaxTicks /\ UNCHANGED pin
  BY InterruptTyped
<1> PICK ms \in Nat, next \in Nat : /\ ms = IF pin = "HIGH" THEN out.high ELSE out.low
                                    /\ next = IF pin = "HIGH" THEN out.low ELSE out.high
  BY DEF TypeInv
<1>1. TypeInv' /\ Idle'
  BY InterruptTyped DEF Idle
<1>2. o.mode = out.mode /\ o.tPulse = Dec(out.tPulse) /\ o.tOper = Dec(out.tOper) /\ o.high = out.high
        /\ o.low = out.low /\ out.tPulse \in Nat /\ ticks \in Nat
  BY DEF TypeInv, MaxTicks
<1>3. CASE ~running
  BY <1>1, <1>3 DEF PhaseInv, Measured, MaxTicks
<1>4. CASE running /\ o.tOper = Expired
  <2>1. out'.mode = "SET"
    <3>1. PulseDue(o).tOper = Expired
      BY <1>4 DEF PulseDue
    <3>2. QED
      BY <1>4, <3>1 DEF OperDue, PulseDue
  <2>2. QED
    BY <1>1, <2>1 DEF PhaseInv, Measured
<1>5. CASE running /\ o.tOper # Expired /\ out.mode # "BLINK"
  <2>1. PulseDue(o) = o /\ out'.mode = out.mode
    BY <1>2, <1>5 DEF PulseDue, OperDue
  <2>2. QED
    BY <1>1, <1>5, <2>1 DEF PhaseInv, Measured
<1>6. CASE running /\ o.tOper # Expired /\ out.mode = "BLINK" /\ o.tPulse = Expired
  <2>1. PulseDue(o) = [o EXCEPT !.tPulse = TimerMs(next)]
    BY <1>2, <1>6 DEF PulseDue, GetState
  <2>2. out' = [o EXCEPT !.tPulse = TimerMs(next)]
    BY <1>6, <2>1 DEF OperDue
  <2>3. pin' = Other(pin) /\ ticks' = 0
    BY <1>2, <1>6 DEF Toggles
  <2>4. out'.tPulse = TimerMs(next) /\ out'.high = out.high /\ out'.low = out.low
    BY <1>2, <2>2
  <2>5. next = IF pin' = "HIGH" THEN out'.high ELSE out'.low
    BY <2>3, <2>4 DEF Other, TypeInv, Levels
  <2>6. Phase(next)'
    BY <1>1, <1>2, <2>3, <2>4 DEF Phase, TimerMs, TIME_RESOLUTION_MS
  <2>7. PhaseInv'
    BY <1>1, <2>5, <2>6 DEF PhaseInv, Measured
  <2>8. ASSUME ticks < MaxTicks PROVE Lasted(ticks, ms)
    <3>1. Phase(ms)
      BY <1>6, <2>8 DEF Measured
    <3>2. QED
      BY <1>2, <1>6, <3>1 DEF Phase, Lasted, Dec, Expired, TIME_RESOLUTION_MS
  <2>9. QED
    BY <2>7, <2>8 DEF GetState
<1>7. CASE running /\ o.tOper # Expired /\ out.mode = "BLINK" /\ o.tPulse # Expired
  <2>1. PulseDue(o) = o /\ out' = o /\ Toggles(o) = 0
    BY <1>2, <1>7 DEF PulseDue, OperDue, Toggles
  <2>2. pin' = pin /\ ticks' = IF ticks < MaxTicks THEN ticks + 1 ELSE ticks
    BY <1>7, <2>1
  <2>3. ms = IF pin' = "HIGH" THEN out'.high ELSE out'.low
    BY <1>2, <2>1, <2>2
  <2>4. ASSUME ticks' < MaxTicks PROVE Phase(ms)'
    <3>1. ticks < MaxTicks /\ ticks' = ticks + 1
      BY <1>2, <2>2, <2>4 DEF MaxTicks
    <3>2. Phase(ms)
      BY <1>7, <3>1 DEF Measured
    <3>3. out'.tPulse = Dec(out.tPulse)
      BY <1>2, <2>1
    <3>4. QED
      BY <1>2, <1>7, <3>1, <3>2, <3>3 DEF Phase, Dec, Expired, TIME_RESOLUTION_MS
  <2>5. PhaseInv'
    BY <1>1, <2>3, <2>4 DEF PhaseInv, Measured
  <2>6. QED
    BY <2>2, <2>5
<1>8. QED
  BY <1>3, <1>4, <1>5, <1>6, <1>7

\* Every step keeps the phases.
LEMMA StepPhase ==
  ASSUME OutputAssumption, ~Inverted, ~Preempts, TypeInv, PhaseInv, [Next]_vars
  PROVE  PhaseInv'
<1>1. CASE Calls
  BY <1>1, CallPhase
<1>2. CASE CallStep
  BY <1>2, PlainStep, BlinkStep DEF PhaseInv, Idle, CallStep
<1>3. CASE Interrupt
  <2>1. Idle /\ Measured
    BY <1>3, BusyCalls DEF Interrupt, PhaseInv, Idle
  <2>2. QED
    BY <1>3, <2>1, InterruptPhase
<1>4. CASE UNCHANGED vars
  BY <1>4 DEF vars, PhaseInv, Idle, Measured, Phase, PlainCall, BlinkCall
<1>5. QED
  BY <1>1, <1>2, <1>3, <1>4 DEF Next

\* pmz_io_control.c: a blink is HIGH for ms_pulse_high and LOW for ms_pulse_low, phase after
\* phase, provided the interrupt is kept out of the calls.
THEOREM PhasesKeepTheirTime ==
  ASSUME OutputAssumption, ~Inverted, ~Preempts
  PROVE  Spec => PhaseLength
<1>1. Init => PhaseInv
  BY DEF Init, PhaseInv, Idle, Measured
<1>2. TypeInv /\ PhaseInv /\ [Next]_vars => PhaseInv'
  BY StepPhase
<1>3. TypeInv /\ PhaseInv /\ [Next]_vars =>
        [Interrupt /\ out.mode = "BLINK" /\ out'.mode = "BLINK" /\ pin' # pin /\ ticks < MaxTicks
           => Lasted(ticks, IF GetState(pin) = "HIGH" THEN out.high ELSE out.low)]_vars
  BY BusyCalls, InterruptPhase DEF Interrupt, PhaseInv, Idle
<1>4. QED
  BY <1>1, <1>2, <1>3, Inductive, PTL DEF Spec, PhaseLength

-----------------------------------------------------------------------------
(***************************************************************************)
(* A position on its way to the server.                                    *)
(***************************************************************************)
\* A position whose minutes have two digits, north and east.
LongMinute(c) ==
  /\ c.west = FALSE /\ c.deg \in 0..180 /\ c.min \in 10..59 /\ c.frac \in Nat /\ c.frac < 1000000

\* The powers of ten.
LEMMA PowersOfTen ==
  /\ Report!TenTo(0) = 1 /\ Report!TenTo(1) = 10 /\ Report!TenTo(2) = 100 /\ Report!TenTo(3) = 1000
  /\ Report!TenTo(4) = 10000
  /\ Report!TenTo(5) = 100000 /\ Report!TenTo(6) = 1000000 /\ Report!TenTo(7) = 10000000
BY SMT DEF Report!TenTo

\* A number of six digits has six, one of one has one.
LEMMA DigitsOf ==
  /\ \A r \in Nat : r >= 100000 /\ r < 1000000 => Report!Digits(r) = 6
  /\ \A r \in 0..9 : Report!Digits(r) = 1
<1>1. ASSUME NEW r \in Nat, r >= 100000, r < 1000000 PROVE Report!Digits(r) = 6
  <2>1. /\ r >= 10 /\ r >= 100 /\ r >= 1000 /\ r >= 10000 /\ r >= 100000
        /\ Report!TenTo(1) = 10 /\ Report!TenTo(2) = 100 /\ Report!TenTo(3) = 1000 /\ Report!TenTo(4) = 10000
        /\ Report!TenTo(5) = 100000 /\ Report!TenTo(6) = 1000000 /\ r < 1000000
    <3>1. r >= 10 /\ r >= 100 /\ r >= 1000 /\ r >= 10000
      BY <1>1, SMT
    <3>2. QED
      BY <1>1, <3>1, PowersOfTen, SMT
  <2>2. ASSUME NEW d \in 1..7
        PROVE  r < Report!TenTo(d) /\ (d = 1 \/ r >= Report!TenTo(d - 1)) <=> d = 6
    <3>1. CASE d \in 1..5
      <4>1. r >= Report!TenTo(d) /\ Report!TenTo(d) \in Int
        <5>1. d = 1 \/ d = 2 \/ d = 3 \/ d = 4 \/ d = 5
          BY <3>1, SMT
        <5>2. QED
          BY <2>1, <5>1, SMT
      <4>2. QED
        BY <3>1, <4>1, SMT
    <3>2. CASE d = 6
      BY <2>1, <3>2, SMT
    <3>3. CASE d = 7
      <4>1. Report!TenTo(d - 1) = Report!TenTo(6)
        BY <3>3, SMT
      <4>2. QED
        BY <2>1, <3>3, <4>1, SMT
    <3>4. QED
      BY <3>1, <3>2, <3>3, SMT
  <2>3. QED
    BY <2>2, SMT DEF Report!Digits
<1>2. ASSUME NEW r \in 0..9 PROVE Report!Digits(r) = 1
  <2>1. \A d \in 1..7 : r < Report!TenTo(d) /\ (d = 1 \/ r >= Report!TenTo(d - 1)) <=> d = 1
    <3>1. ASSUME NEW d \in 1..7 PROVE r < Report!TenTo(d) /\ (d = 1 \/ r >= Report!TenTo(d - 1)) <=> d = 1
      <4>1. d = 1 \/ d = 2 \/ d = 3 \/ d = 4 \/ d = 5 \/ d = 6 \/ d = 7
        BY SMT
      <4>2. QED
        BY <4>1, PowersOfTen, SMT
    <3>2. QED
      BY <3>1, SMT
  <2>2. QED
    BY <2>1, SMT DEF Report!Digits
<1>3. QED
  BY <1>1, <1>2, SMT

\* The text of a coordinate has no second sign and is read as the record holds it.
LEMMA CoordinateRead ==
  ASSUME NEW c, LongMinute(c)
  PROVE  /\ Report!IsNumber(Report!DegreesText(Report!Coordinate(c)))
         /\ Report!Millionths(Report!DegreesText(Report!Coordinate(c))) = Report!Coordinate(c)
<1> DEFINE deg == c.deg
           rest == c.min * 10000 + c.frac \div 100
           n == Report!Coordinate(c)
<1>1. deg \in 0..180 /\ rest \in Nat /\ rest >= 100000 /\ rest < 1000000 /\ n = deg * 1000000 + rest
  <2>1. c.deg \in 0..180 /\ c.min \in 10..59 /\ c.frac \in Nat /\ c.frac < 1000000 /\ c.west = FALSE
    BY SMT DEF LongMinute
  <2>2. c.frac \div 100 \in Nat /\ c.frac \div 100 < 10000
    BY <2>1, SMT
  <2>3. n = (c.deg * 100 + c.min) * 10000 + c.frac \div 100
    BY <2>1, SMT DEF Report!Coordinate, Report!Signed
  <2> DEFINE q == c.frac \div 100
             m == c.min
  <2>4. /\ deg \in 0..180 /\ m \in 10..59 /\ q \in Nat /\ q < 10000 /\ rest = m * 10000 + q
        /\ n = (deg * 100 + m) * 10000 + q
    BY <2>1, <2>2, <2>3, SMT
  <2> HIDE DEF q, m, deg, rest, n
  <2>5. rest \in Nat /\ rest >= 100000
    BY <2>4, SMT
  <2>6. rest < 1000000
    BY <2>4, SMT
  <2>7. n = deg * 1000000 + rest
    BY <2>4, SMT
  <2>8. QED
    BY <2>4, <2>5, <2>6, <2>7, SMT
<1> HIDE DEF deg, rest, n
<1>2. Report!Quotient(n, 1000000) = deg /\ Report!Remainder(n, 1000000) = rest
  <2>1. n >= 0 /\ n \div 1000000 = deg
    BY <1>1, SMT
  <2>2. QED
    BY <1>1, <2>1, SMT DEF Report!Quotient, Report!Remainder
<1>3. Report!DegreesText(n) = [whole |-> deg, rest |-> rest, digits |-> 6]
  <2>1. Report!Digits(rest) = 6 /\ rest >= 0
    BY <1>1, DigitsOf, SMT
  <2>2. QED
    BY <1>2, <2>1, SMT DEF Report!DegreesText, Report!Text
<1>4. Report!IsNumber(Report!DegreesText(n)) /\ Report!Millionths(Report!DegreesText(n)) = deg * 1000000 + rest
  BY <1>1, <1>3, PowersOfTen, SMT DEF Report!IsNumber, Report!Millionths
<1>5. QED
  BY <1>1, <1>4, SMT DEF n

\* The record of a coordinate with all six digits is what was reported.
LEMMA FullCoordinate ==
  ASSUME NEW c, LongMinute(c), c.digits = 6
  PROVE  Report!Coordinate(c) = Report!Reading(c)
<1>1. c.deg \in Int /\ c.min \in Int /\ c.frac \in Nat /\ c.west = FALSE
  BY SMT DEF LongMinute
<1>2. c.frac * Report!TenTo(6 - c.digits) = c.frac
  BY <1>1, PowersOfTen, SMT
<1>3. Report!Reading(c) = c.deg * 1000000 + c.min * 10000 + c.frac \div 100
  BY <1>1, <1>2, SMT DEF Report!Reading, Report!Signed
<1>4. Report!Coordinate(c) = (c.deg * 100 + c.min) * 10000 + c.frac \div 100
  BY <1>1, SMT DEF Report!Coordinate, Report!Signed
<1> DEFINE d == c.deg
           m == c.min
           q == c.frac \div 100
<1>5. d \in Int /\ m \in Int /\ q \in Int
  BY <1>1, SMT
<1>6. Report!Reading(c) = d * 1000000 + m * 10000 + q /\ Report!Coordinate(c) = (d * 100 + m) * 10000 + q
  BY <1>3, <1>4
<1> HIDE DEF d, m, q
<1>7. QED
  BY <1>5, <1>6, SMT

\* A speed below 25.6 fits its byte and is read as it was reported.
LEMMA SpeedRead ==
  ASSUME NEW s \in Nat, s < 256
  PROVE  Report!Millionths(Report!Text(Report!Speed(s) \div 10, Report!Speed(s) % 10, 1)) = s * 100000
<1>1. s \div 10 \in 0..25 /\ s % 10 \in 0..9 /\ s = 10 * (s \div 10) + (s % 10)
  BY SMT
<1>2. Report!Speed(s) = s
  <2>1. Report!Byte((s \div 10) * 10) = (s \div 10) * 10
    BY <1>1, SMT DEF Report!Byte
  <2>2. QED
    BY <1>1, <2>1, SMT DEF Report!Speed, Report!Byte
<1> DEFINE q == s \div 10
           r == s % 10
<1>3. q \in 0..25 /\ r \in 0..9 /\ s = 10 * q + r
  BY <1>1, SMT
<1> HIDE DEF q, r
<1>4. Report!Text(q, r, 1) = [whole |-> q, rest |-> r, digits |-> 1]
  <2>1. Report!Digits(r) = 1
    BY <1>3, DigitsOf, SMT
  <2>2. QED
    BY <1>3, <2>1, SMT DEF Report!Text
<1>5. Report!Millionths(Report!Text(q, r, 1)) = s * 100000
  BY <1>3, <1>4, PowersOfTen, SMT DEF Report!Millionths
<1>6. QED
  BY <1>2, <1>5, SMT DEF q, r

\* What becomes of a line: the record, the body of the request, and what the server shows.
Taken(l) == [lat |-> Report!Coordinate(l.lat), lon |-> Report!Coordinate(l.lon),
             speed |-> Report!Speed(l.speed), course |-> l.course]
Printed(l) == [lat |-> Report!DegreesText(Taken(l).lat), lon |-> Report!DegreesText(Taken(l).lon),
               vel |-> Report!Text(Taken(l).speed \div 10, Taken(l).speed % 10, 1), dir |-> Taken(l).course]
Understood(l) == [lat |-> Report!Millionths(Printed(l).lat), lon |-> Report!Millionths(Printed(l).lon),
                  vel |-> Report!Millionths(Printed(l).vel), dir |-> Printed(l).dir]

\* Each step has made what it makes of the line, and the server has refused none.
ReportInv ==
  /\ line \in Report!Lines
  /\ \/ info = Report!None /\ body = Report!None /\ answer = 0
     \/ info = Taken(line) /\ body = Report!None /\ answer = 0
     \/ info = Taken(line) /\ body = Printed(line)
        /\ (answer = 0 \/ (answer = 200 /\ shown = Understood(line)))

\* The lines of the north-east whose minutes have two digits.
LongLines == Report!InputsAssumption /\ Western \subseteq {FALSE} /\ Minutes \subseteq 10..59

\* Their coordinates are such positions, their speeds numbers.
LEMMA LinesLong ==
  ASSUME LongLines, NEW l \in Report!Lines
  PROVE  LongMinute(l.lat) /\ LongMinute(l.lon) /\ l.speed \in Nat
<1>0. Western \subseteq {FALSE} /\ Minutes \subseteq 10..59
  BY Zenon DEF LongLines
<1>1. Degrees \subseteq 0..180 /\ Fractions \subseteq Nat /\ Speeds \subseteq Nat
  BY SMT DEF LongLines, Report!InputsAssumption
<1>2. \A f \in Fractions : f < 1000000
  BY SMT DEF LongLines, Report!InputsAssumption
<1>3. l.lat \in Report!Coordinates /\ l.lon \in Report!Coordinates /\ l.speed \in Speeds
  BY DEF Report!Lines
<1>4. ASSUME NEW c \in Report!Coordinates PROVE LongMinute(c)
  <2>1. c.west = FALSE /\ c.deg \in Degrees /\ c.min \in Minutes /\ c.frac \in Fractions
    BY <1>0, <1>4 DEF Report!Coordinates
  <2>2. \A x : x \in Fractions => x \in Nat /\ x < 1000000
    BY <1>1, <1>2, SMT
  <2>3. c.deg \in 0..180 /\ c.min \in 10..59 /\ (c.frac \in Nat /\ c.frac < 1000000)
    <3> DEFINE f == c.frac
               d == c.deg
               m == c.min
    <3>1. f \in Fractions /\ d \in Degrees /\ m \in Minutes
      BY <2>1
    <3> HIDE DEF f, d, m
    <3>2. f \in Nat /\ f < 1000000
      BY <2>2, <3>1, SMT
    <3>3. d \in 0..180 /\ m \in 10..59
      BY <1>0, <1>1, <3>1, SMT
    <3>4. QED
      BY <3>2, <3>3, SMT DEF f, d, m
  <2>4. QED
    BY <2>1, <2>3, SMT DEF LongMinute
<1>5. QED
  BY <1>1, <1>3, <1>4

\* Tenths in millionths.
Tenths(s) == s * 100000

\* A speed below 25.6 is shown as it was reported.
LEMMA SpeedShown ==
  \A s \in Nat : s < 256 =>
    Report!Millionths(Report!Text(Report!Speed(s) \div 10, Report!Speed(s) % 10, 1)) = Tenths(s)
BY SpeedRead, SMT DEF Tenths

\* The bodies of these lines are numbers.
LEMMA LinesPrinted ==
  ASSUME LongLines, NEW l \in Report!Lines
  PROVE  /\ Report!IsNumber(Printed(l).lat) /\ Report!IsNumber(Printed(l).lon)
         /\ Understood(l).lat = Taken(l).lat /\ Understood(l).lon = Taken(l).lon
         /\ Understood(l).dir = l.course
         /\ l.speed \in Nat
         /\ l.speed < 256 => Understood(l).vel = Tenths(l.speed)
<1>1. LongMinute(l.lat) /\ LongMinute(l.lon) /\ l.speed \in Nat
  BY LinesLong
<1>2. /\ Printed(l).lat = Report!DegreesText(Report!Coordinate(l.lat))
      /\ Printed(l).lon = Report!DegreesText(Report!Coordinate(l.lon))
      /\ Printed(l).vel = Report!Text(Report!Speed(l.speed) \div 10, Report!Speed(l.speed) % 10, 1)
      /\ Printed(l).dir = l.course
      /\ Taken(l).lat = Report!Coordinate(l.lat) /\ Taken(l).lon = Report!Coordinate(l.lon)
  BY DEF Printed, Taken
<1>3. /\ Understood(l).lat = Report!Millionths(Printed(l).lat)
      /\ Understood(l).lon = Report!Millionths(Printed(l).lon)
      /\ Understood(l).vel = Report!Millionths(Printed(l).vel) /\ Understood(l).dir = Printed(l).dir
  BY DEF Understood
<1>4. l.speed < 256 => Understood(l).vel = Tenths(l.speed)
  BY <1>1, <1>2, <1>3, SpeedShown, Zenon
<1>5. QED
  BY <1>1, <1>2, <1>3, <1>4, CoordinateRead, Zenon

\* updateGPSInfo, GPSInfoToString and recibir posicion keep to the line.
LEMMA ReportKept ==
  ASSUME LongLines, ReportInv, [Report!Next]_(Report!vars)
  PROVE  ReportInv'
<1>1. CASE Report!UpdateGPSInfo
  <2>1. info = Report!None /\ info' = Taken(line) /\ UNCHANGED <<line, body, answer, shown>>
    BY <1>1 DEF Report!UpdateGPSInfo, Taken
  <2>2. QED
    BY <2>1, Zenon DEF ReportInv
<1>2. CASE Report!GPSInfoToString
  <2>1. info = Taken(line)
    BY <1>2, Zenon DEF Report!GPSInfoToString, ReportInv
  <2>2. body' = Printed(line) /\ UNCHANGED <<line, info, answer, shown>>
    BY <1>2, <2>1, Zenon DEF Report!GPSInfoToString, Printed
  <2>3. line \in Report!Lines /\ (answer = 0 \/ (answer = 200 /\ shown = Understood(line)))
    BY Zenon DEF ReportInv
  <2>4. QED
    BY <2>1, <2>2, <2>3, Zenon DEF ReportInv
<1>3. CASE Report!RecibirPosicion
  <2>1. info = Taken(line) /\ body = Printed(line) /\ line \in Report!Lines
    BY <1>3, Zenon DEF Report!RecibirPosicion, ReportInv
  <2>2. Report!IsNumber(body.lat) /\ Report!IsNumber(body.lon)
    BY <2>1, LinesPrinted, Zenon
  <2>3. answer' = 200 /\ shown' = Understood(line) /\ UNCHANGED <<line, info, body>>
    BY <1>3, <2>1, <2>2, Zenon DEF Report!RecibirPosicion, Understood
  <2>4. QED
    BY <2>1, <2>3, Zenon DEF ReportInv
<1>4. CASE UNCHANGED Report!vars
  BY <1>4, Zenon DEF Report!vars, ReportInv
<1>5. QED
  BY <1>1, <1>2, <1>3, <1>4 DEF Report!Next

\* A7672E.c and server.py: whatever north-east position the line has, in minutes of two
\* digits and a fraction of any length, the server accepts the report and shows what the
\* record holds; if both fractions have all their six digits, that is the position of the
\* line, to four digits of the minute.  The speed is shown if it fits its byte.
THEOREM PositionShown ==
  ASSUME LongLines
  PROVE  Report!Spec => []/\ Report!FullLine => Report!PositionAsReported
                          /\ Report!RecordShown /\ Report!NoRefusal /\ Report!SlowSpeedKept
<1>1. Report!Init => ReportInv
  BY DEF Report!Init, ReportInv
<1>2. ReportInv /\ [Report!Next]_(Report!vars) => ReportInv'
  BY ReportKept
<1>3. ASSUME ReportInv
      PROVE  /\ Report!FullLine => Report!PositionAsReported
             /\ Report!RecordShown /\ Report!NoRefusal /\ Report!SlowSpeedKept
  <2>1. /\ line \in Report!Lines /\ answer \in {0, 200}
        /\ answer = 200 => shown = Understood(line) /\ info = Taken(line)
    <3>1. ~(0 = 200)
      OBVIOUS
    <3>2. QED
      BY <1>3, <3>1, Zenon DEF ReportInv
  <2>0. /\ Understood(line).lat = Taken(line).lat /\ Understood(line).lon = Taken(line).lon
        /\ Understood(line).dir = line.course
    BY <2>1, LinesPrinted
  <2>2. ASSUME Report!FullLine PROVE Report!PositionAsReported
    <3>1. LongMinute(line.lat) /\ LongMinute(line.lon)
      BY <2>1, LinesLong
    <3>2. /\ Report!Coordinate(line.lat) = Report!Reading(line.lat)
          /\ Report!Coordinate(line.lon) = Report!Reading(line.lon)
      BY <2>2, <3>1, FullCoordinate DEF Report!FullLine
    <3>3. Taken(line).lat = Report!Coordinate(line.lat) /\ Taken(line).lon = Report!Coordinate(line.lon)
      BY DEF Taken
    <3>4. QED
      BY <2>0, <2>1, <3>2, <3>3, Zenon DEF Report!PositionAsReported
  <2>3. Report!RecordShown
    BY <2>0, <2>1, Zenon DEF Report!RecordShown
  <2>4. Report!NoRefusal
    BY <2>1, SMT DEF Report!NoRefusal
  <2>5. Report!SlowSpeedKept
    BY <2>1, LinesPrinted, SMT DEF Report!SlowSpeedKept, Report!SpeedAsReported, Tenths
  <2>6. QED
    BY <2>2, <2>3, <2>4, <2>5
<1>4. QED
  BY <1>1, <1>2, <1>3, PTL DEF Report!Spec

-----------------------------------------------------------------------------
(***************************************************************************)
(* The frames of the WebSocket client, whichever allocation fails.         *)
(***************************************************************************)
\* The types of a header and of a frame.
HeaderSet == [fin : BOOLEAN, opcode : {"data", "cont", "control"}, masked : BOOLEAN, hdr : Nat, len : Nat]
FrameSet == [h : HeaderSet, idx : Nat, sz : Nat, cap : Nat, data : Seq(Nat)]

\* A frame whose rawdata is there, and one that has lost it.
Full(f) == f \in FrameSet /\ f.idx <= f.sz /\ f.sz <= f.cap /\ f.cap # 0
Bare(f) == f \in FrameSet /\ f.idx = 0 /\ f.sz = 0 /\ f.cap = 0

\* All frames have their rawdata, but for the last one after a control frame; each has
\* its two blocks, the last one its one.
Held(fs, b) ==
  /\ fs \in Seq(FrameSet) /\ b \in Nat
  /\ \A i \in 1..Len(fs) : Full(fs[i]) \/ (i = Len(fs) /\ Bare(fs[i]))
  /\ 2 * Len(fs) <= b + (IF fs # <<>> /\ fs[Len(fs)].cap = 0 THEN 1 ELSE 0)

FramesInv == Held(frames, blocks) /\ header \in HeaderSet /\ message \in Seq(Nat)

\* What the frames may become: none at all.
LEMMA HeldNone ==
  ASSUME NEW b \in Nat
  PROVE  Held(<<>>, b)
BY DEF Held

\* Or the earlier ones and one more, with its rawdata or without.
LEMMA HeldAppend ==
  ASSUME NEW e \in Seq(FrameSet), \A i \in 1..Len(e) : Full(e[i]), NEW f, NEW b \in Nat,
         \/ Full(f) /\ 2 * (Len(e) + 1) <= b
         \/ Bare(f) /\ 2 * (Len(e) + 1) <= b + 1
  PROVE  Held(Append(e, f), b)
<1> DEFINE fs == Append(e, f)
           n == Len(e)
<1>1. f \in FrameSet /\ (f.cap = 0 => Bare(f))
  BY DEF Full, Bare
<1>2. fs \in Seq(FrameSet) /\ Len(fs) = n + 1 /\ n \in Nat /\ fs # <<>>
  BY <1>1
<1>3. fs[n + 1] = f /\ \A i \in 1..n : fs[i] = e[i]
  BY <1>1, <1>2
<1> HIDE DEF fs
<1>4. ASSUME NEW i \in 1..Len(fs) PROVE Full(fs[i]) \/ (i = Len(fs) /\ Bare(fs[i]))
  <2>1. i \in 1..n \/ i = n + 1
    BY <1>2
  <2>2. QED
    BY <1>2, <1>3, <2>1
<1> HIDE DEF n
<1>5. 2 * Len(fs) <= b + (IF fs # <<>> /\ fs[Len(fs)].cap = 0 THEN 1 ELSE 0)
  <2>1. CASE Full(f) /\ 2 * (n + 1) <= b
    <3>1. f.cap # 0
      BY <2>1 DEF Full
    <3>2. QED
      BY <1>2, <1>3, <2>1, <3>1
  <2>2. CASE Bare(f) /\ 2 * (n + 1) <= b + 1
    <3>1. f.cap = 0
      BY <2>2 DEF Bare
    <3>2. QED
      BY <1>2, <1>3, <2>2, <3>1
  <2>3. QED
    BY <2>1, <2>2 DEF n
<1>6. QED
  BY <1>2, <1>4, <1>5 DEF Held, fs

\* Frames that are kept are allocated, and their bytes are inside their blocks.
LEMMA HeldOwned ==
  ASSUME NEW fs, NEW b, Held(fs, b)
  PROVE  /\ Len(fs) + Cardinality({i \in DOMAIN fs : fs[i].cap # 0}) <= b
         /\ \A i \in DOMAIN fs : fs[i].cap # 0 => fs[i].idx <= fs[i].cap
<1> DEFINE n == Len(fs)
           S == {i \in DOMAIN fs : fs[i].cap # 0}
<1>1. n \in Nat /\ DOMAIN fs = 1..n /\ b \in Nat
  BY DEF Held
<1>2. ASSUME NEW i \in DOMAIN fs PROVE fs[i].cap # 0 => fs[i].idx <= fs[i].cap
  <2>1. Full(fs[i]) \/ Bare(fs[i])
    BY <1>1 DEF Held
  <2>2. CASE Full(fs[i])
    <3>1. fs[i].idx \in Nat /\ fs[i].sz \in Nat /\ fs[i].cap \in Nat
      BY <2>2 DEF Full, FrameSet
    <3>2. QED
      BY <2>2, <3>1 DEF Full
  <2>3. CASE Bare(fs[i])
    BY <2>3 DEF Bare
  <2>4. QED
    BY <2>1, <2>2, <2>3
<1> DEFINE g == IF fs # <<>> /\ fs[n].cap = 0 THEN 1 ELSE 0
<1>3. \A m \in Nat : IsFiniteSet(1..m) /\ Cardinality(1..m) = m
  <2>1. ASSUME NEW m \in Nat PROVE IsFiniteSet(1..m) /\ Cardinality(1..m) = IF 1 > m THEN 0 ELSE m - 1 + 1
    <3>1. 1 \in Int /\ m \in Int
      OBVIOUS
    <3>2. QED
      BY <3>1, FS_Interval
  <2>2. QED
    BY <2>1
<1>4. 2 * n <= b + g
  BY DEF Held
<1>5. n + Cardinality(S) <= b
  <2>1. CASE fs # <<>> /\ fs[n].cap = 0
    <3>1. n >= 1 /\ 2 * n <= b + 1
      BY <1>1, <1>4, <2>1
    <3>2. S \subseteq 1..(n - 1)
      BY <1>1, <2>1
    <3>3. IsFiniteSet(1..(n - 1)) /\ Cardinality(1..(n - 1)) = n - 1
      <4>1. n - 1 \in Nat
        BY <1>1, <3>1
      <4> HIDE DEF n
      <4>2. QED
        BY <1>3, <4>1
    <3>4. Cardinality(S) \in Nat /\ Cardinality(S) <= n - 1
      BY <3>2, <3>3, FS_Subset, FS_CardinalityType
    <3> HIDE DEF S, n
    <3>5. QED
      BY <1>1, <3>1, <3>4
  <2>2. CASE ~(fs # <<>> /\ fs[n].cap = 0)
    <3>1. 2 * n <= b
      <4>1. g = 0
        BY <2>2
      <4> HIDE DEF g, n
      <4>2. QED
        BY <1>1, <1>4, <4>1
    <3>2. S \subseteq 1..n
      BY <1>1
    <3>3. Cardinality(S) \in Nat /\ Cardinality(S) <= n
      BY <1>1, <1>3, <3>2, FS_Subset, FS_CardinalityType
    <3> HIDE DEF S, n
    <3>4. QED
      BY <1>1, <3>1, <3>3
  <2>3. QED
    BY <2>1, <2>2
<1>6. QED
  BY <1>2, <1>5

\* What is assumed of the constants.
LEMMA FramesAssumed ==
  ASSUME Frames!FramesAssumption
  PROVE  Chunk \in Nat \ {0} /\ HeaderSizes \subseteq Nat /\ MaxPayload \in Nat
BY DEF Frames!FramesAssumption

\* The frame that the next byte is for, those before it, and their blocks.
LEMMA CurrentFrame ==
  ASSUME Frames!FramesAssumption, FramesInv
  PROVE  /\ Full(Frames!Current) \/ Bare(Frames!Current)
         /\ Frames!Earlier \in Seq(FrameSet)
         /\ \A i \in 1..Len(Frames!Earlier) : Full(Frames!Earlier[i])
         /\ Frames!BlocksNow \in Nat
         /\ 2 * (Len(Frames!Earlier) + 1) <= Frames!BlocksNow
<1> DEFINE c == Frames!Current
           e == Frames!Earlier
           b == Frames!BlocksNow
           n == Len(frames)
<1>1. frames \in Seq(FrameSet) /\ n \in Nat /\ blocks \in Nat
  BY DEF FramesInv, Held
<1>2. ASSUME frames = <<>>
      PROVE  /\ Full(c) \/ Bare(c)
          /\ e \in Seq(FrameSet) /\ (\A i \in 1..Len(e) : Full(e[i]))
          /\ b \in Nat /\ 2 * (Len(e) + 1) <= b
  <2>1. c = [h |-> Frames!Plain, idx |-> 0, sz |-> Chunk, cap |-> Chunk, data |-> <<>>]
        /\ e = <<>> /\ b = blocks + 2
    BY <1>2 DEF Frames!Current, Frames!Earlier, Frames!BlocksNow, Frames!NewFrame
  <2>2. Frames!Plain \in HeaderSet
    BY DEF Frames!Plain, HeaderSet
  <2>3. Full(c)
    BY <2>1, <2>2, FramesAssumed DEF Full, FrameSet
  <2>4. e \in Seq(FrameSet) /\ Len(e) = 0 /\ b \in Nat /\ 2 * (0 + 1) <= b
    BY <1>1, <2>1
  <2> HIDE DEF c, e, b
  <2>5. QED
    BY <2>3, <2>4
<1>3. ASSUME frames # <<>>
      PROVE  /\ Full(c) \/ Bare(c)
          /\ e \in Seq(FrameSet) /\ (\A i \in 1..Len(e) : Full(e[i]))
          /\ b \in Nat /\ 2 * (Len(e) + 1) <= b
  <2>1. n >= 1 /\ n \in 1..n
    BY <1>1, <1>3
  <2>2. c = frames[n] /\ e = SubSeq(frames, 1, n - 1)
        /\ b = IF c.cap = 0 THEN blocks + 1 ELSE blocks
    BY <1>3 DEF Frames!Current, Frames!Earlier, Frames!BlocksNow, Frames!Last, Frames!Front
  <2>3. e \in Seq(FrameSet) /\ Len(e) = n - 1 /\ \A i \in 1..(n - 1) : e[i] = frames[i]
    <3>1. \A i \in 1..(n - 1) : frames[i] \in FrameSet
      BY <1>1, <2>1
    <3>2. 1 \in Int /\ n - 1 \in Int
      BY <1>1
    <3> HIDE DEF n, e
    <3>3. /\ e \in Seq(FrameSet) /\ Len(e) = (IF 1 <= n - 1 THEN (n - 1) - 1 + 1 ELSE 0)
          /\ \A i \in 1..((n - 1) - 1 + 1) : e[i] = frames[1 + i - 1]
      BY <2>2, <3>1, <3>2, SubSeqProperties
    <3>4. QED
      BY <1>1, <2>1, <3>3
  <2>4. Full(c) \/ Bare(c)
    BY <2>1, <2>2 DEF FramesInv, Held
  <2>5. \A i \in 1..(n - 1) : Full(frames[i])
    BY <1>1, <2>1 DEF FramesInv, Held
  <2>6. 2 * n <= blocks + (IF c.cap = 0 THEN 1 ELSE 0)
    BY <1>3, <2>2 DEF FramesInv, Held
  <2> HIDE DEF c, e, b
  <2>7. b \in Nat /\ 2 * n <= b
    BY <1>1, <2>2, <2>6
  <2>8. (\A i \in 1..Len(e) : Full(e[i])) /\ Len(e) + 1 = n
    BY <1>1, <2>3, <2>5
  <2>9. QED
    BY <2>3, <2>4, <2>7, <2>8
<1>4. QED
  BY <1>2, <1>3

\* A frame is the record of its fields.
LEMMA FrameRecord ==
  ASSUME NEW f \in FrameSet
  PROVE  /\ f.h \in HeaderSet /\ f.idx \in Nat /\ f.sz \in Nat /\ f.cap \in Nat /\ f.data \in Seq(Nat)
         /\ f = [h |-> f.h, idx |-> f.idx, sz |-> f.sz, cap |-> f.cap, data |-> f.data]
         /\ f.h = [fin |-> f.h.fin, opcode |-> f.h.opcode, masked |-> f.h.masked,
                   hdr |-> f.h.hdr, len |-> f.h.len]
BY DEF FrameSet, HeaderSet

\* A record whose fields have the types of a frame's is a frame.
LEMMA FrameMade ==
  ASSUME NEW h \in HeaderSet, NEW idx \in Nat, NEW sz \in Nat, NEW cap \in Nat, NEW data \in Seq(Nat)
  PROVE  LET f == [h |-> h, idx |-> idx, sz |-> sz, cap |-> cap, data |-> data]
         IN  /\ f \in FrameSet
             /\ f.h = h /\ f.idx = idx /\ f.sz = sz /\ f.cap = cap /\ f.data = data
BY DEF FrameSet

\* A byte is stored in a frame with its rawdata.
LEMMA FrameStored ==
  ASSUME Frames!FramesAssumption, NEW c, Full(c) \/ Bare(c), NEW r \in HeaderSet, NEW v \in Nat
  PROVE  LET W == Frames!Extended(c)
         IN  Full(Frames!Stored(W, r, v))
<1> DEFINE W == Frames!Extended(c)
           f == Frames!Stored(W, r, v)
           Pl == Frames!Plain
<1>1. Full(W) /\ W.idx < W.sz
  <2>1. CASE c.idx >= c.sz
    <3>1. c \in FrameSet /\ c.idx = c.sz
      BY <2>1 DEF Full, Bare, FrameSet
    <3>2. W = [c EXCEPT !.sz = @ + Chunk, !.cap = c.sz + Chunk]
      BY <2>1 DEF Frames!Extended
    <3>3. W = [h |-> c.h, idx |-> c.idx, sz |-> c.sz + Chunk, cap |-> c.sz + Chunk, data |-> c.data]
      BY <3>1, <3>2, FrameRecord
    <3>4. c.sz + Chunk \in Nat /\ c.idx < c.sz + Chunk
      <4>1. c.sz \in Nat /\ c.idx = c.sz
        BY <3>1, FrameRecord
      <4>2. QED
        BY <4>1, FramesAssumed
    <3> HIDE DEF W
    <3>5. W \in FrameSet /\ W.idx = c.idx /\ W.sz = c.sz + Chunk /\ W.cap = c.sz + Chunk
      <4>1. c.h \in HeaderSet /\ c.idx \in Nat /\ c.data \in Seq(Nat)
        BY <3>1, FrameRecord
      <4>2. QED
        BY <3>3, <3>4, <4>1, FrameMade, Zenon
    <3>6. c.sz + Chunk # 0
      <4>1. c.sz \in Nat
        BY <3>1, FrameRecord
      <4>2. QED
        BY <4>1, FramesAssumed
    <3>7. W.idx < W.sz /\ W.idx <= W.sz /\ W.sz <= W.cap
      <4>1. c.sz \in Nat /\ c.idx = c.sz
        BY <3>1, FrameRecord
      <4>2. QED
        BY <3>4, <3>5, <4>1
    <3>8. QED
      BY <3>5, <3>6, <3>7 DEF Full
  <2>2. CASE ~(c.idx >= c.sz)
    <3>1. W = c
      BY <2>2 DEF Frames!Extended
    <3>2. QED
      BY <2>2, <3>1 DEF Full, Bare, FrameSet
  <2>3. QED
    BY <2>1, <2>2
<1>2. Pl \in HeaderSet
  BY DEF Frames!Plain, HeaderSet
<1> DEFINE g == IF W.idx = 0 THEN [Pl EXCEPT !.fin = r.fin, !.opcode = r.opcode]
                ELSE IF W.idx = 1 THEN [r EXCEPT !.fin = W.h.fin, !.opcode = W.h.opcode] ELSE W.h
           d == IF W.idx >= 2 /\ W.idx >= W.h.hdr /\ W.idx < W.h.hdr + W.h.len
                THEN Append(W.data, v) ELSE W.data
<1>3. f = IF W.h.masked THEN W ELSE [W EXCEPT !.idx = @ + 1, !.h = g, !.data = d]
  BY DEF Frames!Stored
<1> HIDE DEF W, f, Pl
<1>4. g \in HeaderSet
  BY <1>1, <1>2 DEF Full, FrameSet, HeaderSet
<1>5. d \in Seq(Nat)
  BY <1>1 DEF Full, FrameSet
<1> HIDE DEF g, d
<1>6. Full(f)
  <2>1. CASE W.h.masked
    BY <1>1, <1>3, <2>1
  <2>2. CASE ~W.h.masked
    <3>1. W \in FrameSet /\ W.idx \in Nat /\ W.sz \in Nat /\ W.cap \in Nat /\ W.sz <= W.cap /\ W.cap # 0
      BY <1>1, FrameRecord DEF Full
    <3>2. f = [h |-> g, idx |-> W.idx + 1, sz |-> W.sz, cap |-> W.cap, data |-> d]
      <4>1. f = [W EXCEPT !.idx = @ + 1, !.h = g, !.data = d]
        BY <1>3, <2>2
      <4>2. W = [h |-> W.h, idx |-> W.idx, sz |-> W.sz, cap |-> W.cap, data |-> W.data]
        BY <3>1, FrameRecord
      <4>3. QED
        BY <4>1, <4>2
    <3>3. W.idx + 1 \in Nat /\ W.idx + 1 <= W.sz
      BY <1>1, <3>1
    <3>4. f \in FrameSet /\ f.idx = W.idx + 1 /\ f.sz = W.sz /\ f.cap = W.cap
      BY <1>4, <1>5, <3>1, <3>2, <3>3, FrameMade
    <3>5. QED
      BY <3>1, <3>3, <3>4 DEF Full
  <2>3. QED
    BY <2>1, <2>2
<1>7. QED
  BY <1>6 DEF f, W

\* What becomes of the frames with the byte.
LEMMA FramesMove ==
  ASSUME Frames!FramesAssumption, FramesInv,
         NEW f, Full(f),
         \/ Frames!Incomplete(f)
         \/ Frames!Control(f)
         \/ Frames!Dispatch(f)
         \/ Frames!Fragment(f)
  PROVE  Held(frames, blocks)'
<1> DEFINE e == Frames!Earlier
           b == Frames!BlocksNow
           New == Frames!NewFrame(0)
           Lost == [New EXCEPT !.cap = 0]
           n == Len(e)
<1>1. e \in Seq(FrameSet) /\ (\A i \in 1..n : Full(e[i])) /\ b \in Nat /\ 2 * (n + 1) <= b /\ n \in Nat
  BY CurrentFrame
<1>2. Full(New) /\ Bare(Lost)
  <2>1. Frames!Plain \in HeaderSet
    BY DEF Frames!Plain, HeaderSet
  <2> DEFINE Pl == Frames!Plain
  <2>2. /\ New = [h |-> Pl, idx |-> 0, sz |-> 0, cap |-> Chunk, data |-> <<>>]
        /\ Lost = [h |-> Pl, idx |-> 0, sz |-> 0, cap |-> 0, data |-> <<>>]
    BY DEF Frames!NewFrame
  <2>3. <<>> \in Seq(Nat) /\ 0 \in Nat /\ Chunk \in Nat /\ Chunk # 0
    BY FramesAssumed
  <2> HIDE DEF Pl, New, Lost
  <2>4. New \in FrameSet /\ New.idx = 0 /\ New.sz = 0 /\ New.cap = Chunk
    BY <2>1, <2>2, <2>3, FrameMade DEF Pl
  <2>5. Lost \in FrameSet /\ Lost.idx = 0 /\ Lost.sz = 0 /\ Lost.cap = 0
    BY <2>1, <2>2, <2>3, FrameMade DEF Pl
  <2>6. QED
    BY <2>3, <2>4, <2>5 DEF Full, Bare
<1>3. f \in FrameSet
  BY DEF Full
<1>4. CASE Frames!Incomplete(f)
  <2>1. frames' = Append(e, f) /\ blocks' = b
    BY <1>4 DEF Frames!Incomplete
  <2>2. QED
    BY <1>1, <2>1, HeldAppend
<1>5. CASE Frames!Control(f)
  <2>1. \/ frames' = Append(e, New) /\ blocks' = b
        \/ frames' = Append(e, Lost) /\ blocks' = b - 1
    BY <1>5 DEF Frames!Control
  <2> HIDE DEF e, b, New, Lost
  <2>2. CASE frames' = Append(e, New) /\ blocks' = b
    BY <1>1, <1>2, <2>2, HeldAppend
  <2>3. CASE frames' = Append(e, Lost) /\ blocks' = b - 1
    <3>1. b - 1 \in Nat /\ 2 * (n + 1) <= (b - 1) + 1
      BY <1>1
    <3>2. Held(Append(e, Lost), b - 1)
      BY <1>1, <1>2, <3>1, HeldAppend
    <3>3. QED
      BY <2>3, <3>2
  <2>4. QED
    BY <2>1, <2>2, <2>3
<1>6. CASE Frames!Dispatch(f)
  <2>1. frames' = <<>> /\ (blocks' = b - 2 * Len(Append(e, f)) \/ blocks' = b)
    BY <1>6 DEF Frames!Dispatch
  <2>2. Len(Append(e, f)) = n + 1
    BY <1>1, <1>3
  <2> HIDE DEF e, b, n
  <2>3. blocks' \in Nat
    BY <1>1, <2>1, <2>2
  <2>4. QED
    BY <2>1, <2>3, HeldNone
<1>7. CASE Frames!Fragment(f)
  <2>1. \/ frames' = e \o <<f, New>> /\ blocks' = b + 2
        \/ frames' = Append(e, f) /\ blocks' \in {b, b + 1}
    BY <1>7 DEF Frames!Fragment
  <2> HIDE DEF e, b, New
  <2>2. CASE frames' = e \o <<f, New>> /\ blocks' = b + 2
    <3> DEFINE g == Append(e, f)
    <3>1. New \in FrameSet
      BY <1>2 DEF Full
    <3>2. g \in Seq(FrameSet) /\ Len(g) = n + 1 /\ g[n + 1] = f /\ \A i \in 1..n : g[i] = e[i]
      BY <1>1, <1>3
    <3>3. e \o <<f, New>> = Append(g, New)
      BY <1>1, <1>3, <3>1
    <3> HIDE DEF g
    <3>4. ASSUME NEW i \in 1..Len(g) PROVE Full(g[i])
      <4>1. i \in 1..n \/ i = n + 1
        BY <1>1, <3>2
      <4>2. QED
        BY <1>1, <3>2, <4>1
    <3> HIDE DEF n
    <3>5. b + 2 \in Nat /\ 2 * (Len(g) + 1) <= b + 2
      BY <1>1, <3>2
    <3>6. Held(Append(g, New), b + 2)
      BY <1>2, <3>2, <3>4, <3>5, HeldAppend
    <3>7. QED
      BY <2>2, <3>3, <3>6
  <2>3. CASE frames' = Append(e, f) /\ blocks' \in {b, b + 1}
    <3>1. blocks' \in Nat /\ 2 * (n + 1) <= blocks'
      BY <1>1, <2>3
    <3>2. Held(Append(e, f), blocks')
      BY <1>1, <3>1, HeldAppend
    <3>3. QED
      BY <2>3, <3>2
  <2>4. QED
    BY <2>1, <2>2, <2>3
<1>8. QED
  BY <1>4, <1>5, <1>6, <1>7

\* A byte that is lost, with the frame it was for or before there is one.
LEMMA FramesLost ==
  ASSUME Frames!FramesAssumption, FramesInv,
         \/ Frames!NotAllocated
         \/ Frames!NotExtended
  PROVE  Held(frames, blocks)'
<1>1. CASE Frames!NotAllocated
  BY <1>1 DEF Frames!NotAllocated, Frames!frameVars, FramesInv
<1>2. CASE Frames!NotExtended
  <2> DEFINE c == Frames!Current
             n == Len(frames)
  <2>1. frames # <<>> /\ frames' = <<>> /\ blocks' = blocks - (IF c.cap = 0 THEN 1 ELSE 2)
    BY <1>2 DEF Frames!NotExtended, Frames!Allocated
  <2>2. c = frames[n]
    BY <2>1 DEF Frames!Current, Frames!Last
  <2>3. n \in Nat /\ n >= 1 /\ blocks \in Nat
    BY <2>1 DEF FramesInv, Held
  <2>4. 2 * n <= blocks + (IF c.cap = 0 THEN 1 ELSE 0)
    BY <2>1, <2>2 DEF FramesInv, Held
  <2> HIDE DEF c, n
  <2>5. blocks' \in Nat
    BY <2>1, <2>3, <2>4
  <2>6. QED
    BY <2>1, <2>5, HeldNone
<1>3. QED
  BY <1>1, <1>2

\* The step of the client with the next byte, or with a new connection.
LEMMA FramesStep ==
  ASSUME Frames!FramesAssumption, FramesInv,
         Frames!Next
  PROVE  FramesInv'
<1>1. Frames!Headers \subseteq HeaderSet
      /\ Frames!Plain \in HeaderSet
  <2>1. HeaderSizes \subseteq Nat /\ 0..MaxPayload \subseteq Nat
    BY FramesAssumed
  <2>2. ASSUME NEW h \in Frames!Headers PROVE h \in HeaderSet
    BY <2>1 DEF Frames!Headers, HeaderSet
  <2>3. Frames!Plain \in HeaderSet
    BY DEF Frames!Plain, HeaderSet
  <2>4. QED
    BY <2>2, <2>3
<1>2. header \in HeaderSet /\ message \in Seq(Nat)
  BY DEF FramesInv
<1>3. CASE Frames!Reconnect
  <2>1. header' = Frames!Plain /\ message' = <<>> /\ UNCHANGED <<frames, blocks>>
    BY <1>3 DEF Frames!Reconnect, Frames!frameVars
  <2>2. QED
    BY <1>1, <2>1 DEF FramesInv
<1>4. CASE Frames!InData
  <2>1. PICK h \in Frames!NextHeaders :
          /\ Frames!Sends(h)
          /\ \/ Frames!NotAllocated
             \/ Frames!NotExtended
             \/ \E r \in Frames!ReadAs(h) :
                  LET f == Frames!Stored(
                             Frames!Extended(Frames!Current),
                             r, Len(message) + 1)
                  IN  \/ Frames!Incomplete(f)
                      \/ Frames!Control(f)
                      \/ Frames!Dispatch(f)
                      \/ Frames!Fragment(f)
    BY <1>4 DEF Frames!InData
  <2>2. h \in HeaderSet
    BY <1>1, <1>2 DEF Frames!NextHeaders
  <2>3. header' \in HeaderSet
    BY <1>1, <2>1, <2>2 DEF Frames!Sends
  <2>4. message' \in Seq(Nat)
    <3>1. \/ message' = message \/ message' = <<>> \/ message' = Append(message, Len(message) + 1)
      BY <2>1 DEF Frames!Sends
    <3>2. <<>> \in Seq(Nat) /\ Append(message, Len(message) + 1) \in Seq(Nat)
      BY <1>2
    <3>3. QED
      BY <1>2, <3>1, <3>2
  <2>5. Held(frames, blocks)'
    <3>1. CASE Frames!NotAllocated \/ Frames!NotExtended
      BY <3>1, FramesLost
    <3>2. ASSUME NEW r \in Frames!ReadAs(h), NEW f,
                 f = Frames!Stored(
                       Frames!Extended(Frames!Current),
                       r, Len(message) + 1),
                 \/ Frames!Incomplete(f)
                 \/ Frames!Control(f)
                 \/ Frames!Dispatch(f)
                 \/ Frames!Fragment(f)
          PROVE  Held(frames, blocks)'
      <4>1. r \in HeaderSet
        BY <1>1, <2>2 DEF Frames!ReadAs
      <4>2. Full(Frames!Current) \/ Bare(Frames!Current)
        BY CurrentFrame
      <4>3. Len(message) + 1 \in Nat
        BY <1>2
      <4>4. Full(f)
        BY <3>2, <4>1, <4>2, <4>3, FrameStored
      <4>5. QED
        BY <3>2, <4>4, FramesMove
    <3>3. QED
      BY <2>1, <3>1, <3>2
  <2>6. QED
    BY <2>3, <2>4, <2>5 DEF FramesInv
<1>5. QED
  BY <1>3, <1>4 DEF Frames!Next

\* ws_client.c: whichever allocation fails and wherever a connection ends, no frame that
\* was freed is kept and the bytes of a frame are inside its block.
THEOREM FramesKept ==
  ASSUME Frames!FramesAssumption
  PROVE  Frames!Spec => [](Frames!OwnsItsFrames /\ Frames!BytesFit)
<1>1. Frames!Init => FramesInv
  <2>1. ASSUME Frames!Init PROVE FramesInv
    <3>1. frames = <<>> /\ blocks = 0 /\ header = Frames!Plain /\ message = <<>>
      BY <2>1 DEF Frames!Init
    <3>2. Frames!Plain \in HeaderSet
      BY DEF Frames!Plain, HeaderSet
    <3>3. QED
      BY <3>1, <3>2, HeldNone DEF FramesInv
  <2>2. QED
    BY <2>1
<1>2. FramesInv /\ [Frames!Next]_(Frames!vars) => FramesInv'
  <2>1. ASSUME FramesInv, UNCHANGED Frames!vars PROVE FramesInv'
    BY <2>1 DEF Frames!vars, Frames!frameVars, Frames!serverVars, FramesInv
  <2>2. QED
    BY <2>1, FramesStep
<1>3. ASSUME FramesInv PROVE Frames!OwnsItsFrames /\ Frames!BytesFit
  <2>1. Frames!Owned = Len(frames) + Cardinality({i \in DOMAIN frames : frames[i].cap # 0})
    BY DEF Frames!Owned, Frames!Cardinality, Cardinality
  <2>2. QED
    BY <1>3, <2>1, HeldOwned DEF FramesInv, Frames!OwnsItsFrames, Frames!BytesFit
<1>4. QED
  BY <1>1, <1>2, <1>3, PTL DEF Frames!Spec

=============================================================================
