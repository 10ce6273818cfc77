---------------------------- MODULE SimcomUsbProofs --------------------------
(***************************************************************************)
(* Theorems about SimcomUsb, the sequencer over the real driver, for every *)
(* value of its constants: any number of attaches, detaches and faults.    *)
(***************************************************************************)
EXTENDS SimcomUsb, TLAPS

USE TimesAssumption, BoundsAssumption

\* The driver with the theorems of its own.
UP == INSTANCE UsbSimcomProofs
       WITH writes <- Len(writes), installed <- (state # "WAITING_DRIVER_READY"),
            MaxFaults <- MaxUsbFaults, MaxMoving <- 2

\* The sequencer with the theorems of its own.
MP == INSTANCE SimcomModemProofs WITH driverReady <- (drv = "READY")

-----------------------------------------------------------------------------
(***************************************************************************)
(* The driver under the sequencer.                                         *)
(***************************************************************************)

\* The sequencer waits for the driver in its first statement only.
WaitInv ==
  /\ state \in States /\ writes \in Seq(M!Sendable)
  /\ pc # "write" => state # "WAITING_DRIVER_READY"

\* The three copies of the chain of states are one.
LEMMA SameStates ==
  /\ M!States = States /\ M!CommandStates = CommandStates /\ M!AnswerableStates = AnswerableStates
  /\ \A s : M!Sequel(s) = Sequel(s) /\ M!SequelOfError(s) = SequelOfError(s)
           /\ M!Awaited(s) = Awaited(s)
BY DEF M!States, States, M!CommandStates, CommandStates, M!ListenStates, ListenStates,
   M!AnswerableStates, AnswerableStates, M!Sequel, Sequel, M!SequelOfError, SequelOfError,
   M!Awaited, Awaited

\* The chain never leads back to the wait for the driver.
LEMMA SequelLeaves ==
  ASSUME NEW s \in AnswerableStates
  PROVE  /\ s \in States /\ Sequel(s) \in States /\ SequelOfError(s) \in States
         /\ s # "WAITING_DRIVER_READY" /\ Sequel(s) # "WAITING_DRIVER_READY"
         /\ SequelOfError(s) # "WAITING_DRIVER_READY"
BY DEF AnswerableStates, CommandStates, ListenStates, States, Sequel, SequelOfError

\* The statements that do not call the driver, or are refused by it, start no
\* transfer and do not lead back to the wait for it.
LEMMA NoCall ==
  ASSUME WaitInv, Refused \/ Local \/ NothingToDo
  PROVE  /\ writes' = writes /\ reads' = reads /\ usbVars' = usbVars
         /\ state' \in States
         /\ (state' = "WAITING_DRIVER_READY") = (state = "WAITING_DRIVER_READY")
         /\ pc' # "write" => state # "WAITING_DRIVER_READY"
<1> USE DEF M!flagVars, M!usbVars, M!modemVars, M!boundVars, M!histVars
<1>1. CASE Refused
  BY <1>1, SameStates DEF Refused, WaitInv, M!WriteNotSent, M!ReadNotPosted, M!MayWrite, M!DropBody,
     M!HearsDownload, M!Parsing, CommandStates
<1>2. CASE NothingToDo
  BY <1>2 DEF NothingToDo, seqVars, WaitInv
<1>3. CASE Local
  <2>0. usbVars' = usbVars
    BY <1>3 DEF Local
  <2>1. CASE M!NothingToWrite \/ M!WriteAccepted \/ M!NothingToRead \/ M!ReadAccepted
             \/ M!NothingToParse \/ (~ATwrite /\ M!DropBody /\ UNCHANGED faults)
             \/ M!ParseAtReady \/ M!ParseOther \/ M!BodyAccepted \/ M!ClearBuffer \/ M!ParseDone
    <3>1. UNCHANGED <<state, writes, reads>>
      BY <2>1 DEF M!NothingToWrite, M!WriteAccepted, M!NothingToRead, M!ReadAccepted,
         M!NothingToParse, M!DropBody, M!HearsDownload, M!ParseAtReady, M!ParseOther,
         M!BodyAccepted, M!ClearBuffer, M!ParseDone, M!Parsing
    <3>2. pc # "write" \/ state \in CommandStates \cup ListenStates
      BY <2>1, SameStates DEF M!NothingToWrite, M!WriteAccepted, M!NothingToRead, M!ReadAccepted,
         M!NothingToParse, M!DropBody, M!HearsDownload, M!ParseAtReady, M!ParseOther,
         M!BodyAccepted, M!ClearBuffer, M!ParseDone, M!Parsing, M!ListenStates, ListenStates
    <3>3. state # "WAITING_DRIVER_READY"
      BY <3>2 DEF WaitInv, CommandStates, ListenStates
    <3>4. QED
      BY <2>0, <3>1, <3>3 DEF WaitInv
  <2>2. CASE M!ParseAnswer \/ M!ParseError
    <3>1. state \in AnswerableStates /\ state' \in {Sequel(state), SequelOfError(state)}
      BY <2>2, SameStates DEF M!ParseAnswer, M!ParseError, M!Answerable
    <3>2. UNCHANGED <<writes, reads>>
      BY <2>2 DEF M!ParseAnswer, M!ParseError
    <3>3. QED
      BY <2>0, <3>1, <3>2, SequelLeaves
  <2>3. CASE M!ParsePosition \/ M!ListenTimer \/ M!ComposePosition \/ M!RestOver
    <3>1. UNCHANGED <<writes, reads>> /\ state' \in {state, "HTTP_POST_DATA", "DISABLING_ECO", "HTTPS_INIT"}
      BY <2>3 DEF M!ParsePosition, M!ListenTimer, M!ComposePosition, M!RestOver
    <3>2. state # "WAITING_DRIVER_READY"
      BY <2>3 DEF M!ParsePosition, M!ListenTimer, M!ComposePosition, M!RestOver, M!Parsing, WaitInv
    <3>3. state' \in States
      BY <3>1 DEF WaitInv, States, CommandStates
    <3>4. QED
      BY <2>0, <3>1, <3>2, <3>3
  <2>4. QED
    BY <1>3, <2>1, <2>2, <2>3 DEF Local
<1>4. QED
  BY <1>1, <1>2, <1>3

\* A call to the driver: what is handed over, by a state that may do so.
LEMMA DriverCalled ==
  ASSUME WaitInv, CallsDriver
  PROVE  /\ WaitInv'
         /\ \/ M!AttachHandler /\ U!EventHandlerSet
            \/ /\ U!AT_Write \/ U!AT_Read
               /\ state # "WAITING_DRIVER_READY" /\ state' = state
<1> USE DEF M!flagVars, M!usbVars, M!modemVars, M!boundVars, M!histVars
<1>1. CASE M!AttachHandler /\ U!EventHandlerSet
  BY <1>1 DEF M!AttachHandler, WaitInv, States, ListenStates
<1>2. CASE M!WriteCommand /\ U!AT_Write
  <2>1. state \in CommandStates /\ state' = state /\ writes' = Append(writes, state)
    BY <1>2, SameStates DEF M!WriteCommand, M!MayWrite
  <2>2. state # "WAITING_DRIVER_READY" /\ state \in M!Sendable
    BY <2>1, SameStates DEF CommandStates, M!Sendable
  <2>3. QED
    BY <1>2, <2>1, <2>2 DEF WaitInv
<1>3. CASE M!SendBody /\ U!AT_Write
  <2>1. state = "HTTP_POST_DATA" /\ state' = state /\ writes' = Append(writes, "BODY")
    BY <1>3 DEF M!SendBody, M!HearsDownload
  <2>2. QED
    BY <1>3, <2>1 DEF WaitInv, M!Sendable
<1>4. CASE M!PostRead /\ U!AT_Read
  BY <1>4 DEF M!PostRead, WaitInv
<1>5. QED
  BY <1>1, <1>2, <1>3, <1>4 DEF CallsDriver

\* Every step keeps it.
LEMMA WaitStep == WaitInv /\ [Next]_vars => WaitInv'
<1> SUFFICES ASSUME WaitInv, [Next]_vars PROVE WaitInv'
  OBVIOUS
<1>1. CASE SequencerCall
  BY <1>1, DriverCalled, NoCall DEF SequencerCall, WaitInv
<1>2. CASE HostCall \/ HostWaits \/ UNCHANGED vars
  BY <1>2 DEF HostCall, HostWaits, vars, seqVars, WaitInv
<1>3. CASE TransferDone
  <2>1. state' = state /\ pc' = pc /\ writes' \in {writes, Tail(writes)}
    BY <1>3 DEF TransferDone, Reported, Unreported, M!ReadComplete, M!WriteComplete, M!Receive, M!Transmit
  <2>2. writes' = Tail(writes) => writes # <<>> \/ writes' = writes
    BY <1>3 DEF TransferDone, Reported, Unreported, M!ReadComplete, M!WriteComplete, M!Receive, M!Transmit
  <2>3. writes' \in Seq(M!Sendable)
    BY <2>1, <2>2 DEF WaitInv
  <2>4. QED
    BY <2>1, <2>3 DEF WaitInv
<1>4. CASE Detach
  <2>1. state' = state /\ pc' = pc /\ (writes' = writes \/ writes' = <<>>)
    BY <1>4 DEF Detach, AbortsReported
  <2>2. <<>> \in Seq(M!Sendable)
    OBVIOUS
  <2>3. writes' \in Seq(M!Sendable)
    BY <2>1, <2>2, Zenon DEF WaitInv
  <2>4. QED
    BY <2>1, <2>3 DEF WaitInv
<1>5. CASE Elsewhere
  BY <1>5 DEF Elsewhere, M!TimerTick, M!Replies, M!Boot, M!Answer, M!AskBody, M!BodyStored,
     M!PostDone, M!Unsolicited, M!usbVars, WaitInv
<1>6. QED
  BY <1>1, <1>2, <1>3, <1>4, <1>5 DEF Next

\* The driver is the same with its theorems as without.
LEMMA SameDriver ==
  /\ U!UsbNext <=> UP!UsbNext
  /\ U!usbVarsAll = UP!usbVarsAll
  /\ U!UsbInit <=> UP!UsbInit
<1> USE DEF U!hostVars, UP!hostVars, U!drvVars, UP!drvVars, U!clientVars, UP!clientVars,
           U!moving, UP!moving, U!usbBounds, UP!usbBounds, U!Between, UP!Between,
           U!CountUsbFault, UP!CountUsbFault, U!Owned, UP!Owned, U!TasksCalled,
           UP!TasksCalled, U!Accepts, UP!Accepts, U!ATin, UP!ATin, U!ATout, UP!ATout,
           U!AllPipes, UP!AllPipes, U!PipesOf, UP!PipesOf, U!Interfaces, UP!Interfaces,
           U!Endpoints, UP!Endpoints
<1>1. U!BusTasks <=> UP!BusTasks
  BY DEF U!BusTasks, UP!BusTasks
<1>2. U!HostLayer <=> UP!HostLayer
  BY DEF U!HostLayer, UP!HostLayer, U!Attach, UP!Attach, U!DeviceAssign, UP!DeviceAssign,
     U!DeviceRefused, UP!DeviceRefused, U!ConfigurationSet, UP!ConfigurationSet,
     U!InterfaceAssign, UP!InterfaceAssign
<1>3. U!DeviceTasks <=> UP!DeviceTasks
  BY DEF U!DeviceTasks, UP!DeviceTasks, U!RequestConfiguration, UP!RequestConfiguration,
     U!RequestRefused, UP!RequestRefused, U!RequestAnswered, UP!RequestAnswered,
     U!InterfacesOpen, UP!InterfacesOpen, U!AssignState, UP!AssignState
<1>4. U!Detach <=> UP!Detach
  BY DEF U!Detach, UP!Detach, U!DeviceRelease, UP!DeviceRelease, U!ClosePipes,
     UP!ClosePipes
<1>5. U!TransferDone <=> UP!TransferDone
  BY DEF U!TransferDone, UP!TransferDone
<1>6. U!Client <=> UP!Client
  BY DEF U!Client, UP!Client, U!EventHandlerSet, UP!EventHandlerSet, U!AT_Read, UP!AT_Read,
     U!AT_Write, UP!AT_Write
<1>7. U!UsbNext <=> UP!UsbNext
  BY <1>1, <1>2, <1>3, <1>4, <1>5, <1>6 DEF U!UsbNext, UP!UsbNext
<1>8. U!usbVarsAll = UP!usbVarsAll
  BY DEF U!usbVarsAll, UP!usbVarsAll
<1>9. U!UsbInit <=> UP!UsbInit
  BY DEF U!UsbInit, UP!UsbInit
<1>10. QED
  BY <1>7, <1>8, <1>9

\* The sequencer, the interrupts and the modem do nothing to the driver that
\* UsbSimcom does not have: every step of them all is a step of it.
LEMMA DriverStep == WaitInv /\ [Next]_vars => [UP!UsbNext]_UP!usbVarsAll
<1> SUFFICES ASSUME WaitInv, [Next]_vars PROVE U!UsbNext \/ UNCHANGED U!usbVarsAll
  <2>1. UNCHANGED U!usbVarsAll => UNCHANGED UP!usbVarsAll
    BY DEF U!usbVarsAll, UP!usbVarsAll, U!hostVars, UP!hostVars, U!drvVars, UP!drvVars,
       U!clientVars, UP!clientVars, U!moving, UP!moving, U!usbBounds, UP!usbBounds
  <2>2. QED
    BY <2>1, SameDriver
<1> DEFINE still == usbVars' = usbVars /\ writes' = writes /\ reads' = reads
                   /\ (state' = "WAITING_DRIVER_READY") = (state = "WAITING_DRIVER_READY")
<1>1. still => UNCHANGED U!usbVarsAll
  <2>1. still => (state' # "WAITING_DRIVER_READY") = (state # "WAITING_DRIVER_READY")
    OBVIOUS
  <2>2. QED
    BY <2>1 DEF U!usbVarsAll, U!hostVars, U!drvVars, U!clientVars, U!moving, U!usbBounds, usbVars
<1>2. CASE ~halted /\ SequencerCall
  <2>1. CASE CallsDriver
    BY <1>2, <2>1, DriverCalled DEF U!UsbNext, U!Client
  <2>2. CASE Refused \/ Local \/ NothingToDo
    BY <1>1, <2>2, NoCall
  <2>3. QED
    BY <1>2, <2>1, <2>2 DEF SequencerCall
<1>3. CASE ~halted /\ HostCall
  BY <1>3 DEF HostCall, U!UsbNext
<1>4. CASE HostWaits \/ UNCHANGED vars
  <2>1. still
    BY <1>4 DEF HostWaits, vars, seqVars
  <2>2. QED
    BY <1>1, <2>1
<1>5. CASE ~halted /\ (TransferDone \/ Detach)
  BY <1>5 DEF TransferDone, Detach, U!UsbNext
<1>6. CASE Elsewhere
  <2>1. still
    BY <1>6 DEF Elsewhere, Alone, M!TimerTick, M!Replies, M!Boot, M!Answer, M!AskBody,
       M!BodyStored, M!PostDone, M!Unsolicited, M!usbVars
  <2>2. QED
    BY <1>1, <2>1
<1>7. QED
  BY <1>2, <1>3, <1>4, <1>5, <1>6 DEF Next

\* What UsbSimcom keeps is kept under the sequencer.
LEMMA DriverInvariant == Spec => [](WaitInv /\ UP!UsbIInv)
<1>1. Init => WaitInv
  BY DEF Init, M!Init, WaitInv, States
<1>2. Spec => []WaitInv
  BY <1>1, WaitStep, PTL DEF Spec
<1>3. Init => UP!UsbInit
  BY SameDriver DEF Init
<1>4. Spec => UP!UsbSpec
  BY <1>2, <1>3, DriverStep, PTL DEF Spec, UP!UsbSpec
<1>5. UP!UsbSpec => []UP!UsbIInv
  BY UP!UsbInvariant
<1>6. QED
  BY <1>2, <1>4, <1>5, PTL

-----------------------------------------------------------------------------
(***************************************************************************)
(* A modem that stays on the bus.                                          *)
(***************************************************************************)

\* READY is the state of a driver that owns a device, the handler is set with
\* it and both stay; nothing moves before.
SteadyInv ==
  /\ detaches = 0
  /\ tasks # "none" => turn = "host" /\ drv # "READY" /\ host \in UP!Owned
  /\ drv = "READY" => host \in UP!Owned
  /\ state # "WAITING_DRIVER_READY" => drv = "READY" /\ handler
  /\ state = "WAITING_DRIVER_READY" => reads = 0 /\ writes = <<>>

\* So a call of a state that may make one is accepted.
LEMMA SteadyAccepts ==
  ASSUME UP!UsbIInv, SteadyInv, turn = "simcom", state # "WAITING_DRIVER_READY"
  PROVE  U!Accepts(U!ATin) /\ U!Accepts(U!ATout)
<1>1. tasks = "none" /\ drv = "READY" /\ pipes = UP!AllPipes
  BY DEF SteadyInv, UP!UsbIInv, UP!ReadyMeansOpen
<1>2. UP!ATin \in UP!AllPipes /\ UP!ATout \in UP!AllPipes
  BY UP!ATpipes DEF UP!AllPipes
<1>3. QED
  BY <1>1, <1>2 DEF U!Accepts, U!Between, U!ATin, U!ATout, UP!ATin, UP!ATout

\* One call of the host layer or of DeviceTasks does not take READY back.
LEMMA SteadyHost ==
  ASSUME UP!UsbIInv, SteadyInv, HostCall
  PROVE  SteadyInv' /\ (drv = "READY" => drv' = "READY")
<1> USE DEF U!Between, U!hostVars, U!drvVars, U!clientVars, U!moving, U!usbBounds, U!Owned, UP!Owned,
       SteadyInv
<1>1. UNCHANGED <<seqVars, detaches>> /\ turn' = IF tasks' = "none" THEN "simcom" ELSE "host"
  BY DEF HostCall
<1>2. UNCHANGED <<state, reads, writes>>
  BY <1>1 DEF seqVars
<1>3. CASE U!BusTasks \/ U!HostLayer
  <2>1. handler' = handler /\ tasks' = tasks /\ tasks = "none"
    BY <1>3 DEF U!BusTasks, U!HostLayer, U!Attach, U!DeviceAssign, U!DeviceRefused,
       U!ConfigurationSet, U!InterfaceAssign, HostCall
  <2>2. \/ drv' = drv /\ (host \in U!Owned => host' \in U!Owned)
        \/ drv # "READY" /\ drv' # "READY"
    BY <1>3 DEF U!BusTasks, U!HostLayer, U!Attach, U!DeviceAssign, U!DeviceRefused,
       U!ConfigurationSet, U!InterfaceAssign
  <2>3. QED
    BY <1>1, <1>2, <2>1, <2>2
<1>4. CASE U!DeviceTasks
  <2>1. handler' = handler
    BY <1>4 DEF U!DeviceTasks, U!RequestConfiguration, U!RequestRefused, U!RequestAnswered,
       U!InterfacesOpen, U!AssignState
  <2>2. \/ drv' = drv /\ drv # "READY" /\ host' \in U!Owned /\ tasks = "none"
        \/ tasks # "none" /\ drv' = tasks /\ tasks' = "none" /\ host' = host
    BY <1>4 DEF U!DeviceTasks, U!RequestConfiguration, U!RequestRefused, U!RequestAnswered,
       U!InterfacesOpen, U!AssignState, U!TasksCalled
  <2>3. QED
    BY <1>1, <1>2, <2>1, <2>2
<1>5. QED
  BY <1>3, <1>4 DEF HostCall

\* Every step of the two with such a modem keeps this, and is one of the
\* sequencer alone over a driver that comes up once.
LEMMA SteadyStep ==
  ASSUME MaxDetaches = 0, WaitInv, UP!UsbIInv, SteadyInv, [Next]_vars
  PROVE  SteadyInv' /\ [M!Next]_M!vars
<1> DEFINE Goal == SteadyInv' /\ (M!Next \/ UNCHANGED M!vars)
<1>0. SUFFICES Goal
  OBVIOUS
<1> HIDE DEF Goal
<1>1. CASE SequencerCall
  <2>0. turn = "simcom" /\ drv' = drv /\ detaches' = detaches /\ tasks = "none" /\ turn' \in {"simcom", "host"}
    BY <1>1 DEF SequencerCall, SteadyInv
  <2>1. CASE CallsDriver
    <3>1. M!Foreground
      BY <2>1 DEF CallsDriver, M!Foreground, M!Parse, M!ParseDownload
    <3>2. UNCHANGED <<tasks, host>> /\ handler' \in {handler, TRUE}
      BY <2>1 DEF CallsDriver, U!EventHandlerSet, U!AT_Write, U!AT_Read, U!hostVars, U!drvVars, U!clientVars
    <3>3. state' # "WAITING_DRIVER_READY" /\ drv = "READY" /\ handler'
      <4>1. CASE M!AttachHandler /\ U!EventHandlerSet
        BY <4>1 DEF M!AttachHandler, U!EventHandlerSet
      <4>2. CASE state # "WAITING_DRIVER_READY" /\ state' = state
        BY <3>2, <4>2 DEF SteadyInv
      <4>3. QED
        BY <2>1, <4>1, <4>2, DriverCalled
    <3>4. QED
      BY <2>0, <3>1, <3>2, <3>3 DEF Goal, SteadyInv, M!Next
  <2>2. CASE Refused
    <3>1. state # "WAITING_DRIVER_READY"
      BY <2>2, SameStates DEF Refused, WaitInv, M!WriteNotSent, M!ReadNotPosted, M!MayWrite, M!DropBody,
         M!HearsDownload, M!Parsing, CommandStates
    <3>2. QED
      BY <2>0, <2>2, <3>1, SteadyAccepts DEF Refused
  <2>3. CASE Local \/ NothingToDo
    <3>1. /\ writes' = writes /\ reads' = reads /\ usbVars' = usbVars
          /\ (state' = "WAITING_DRIVER_READY") = (state = "WAITING_DRIVER_READY")
      BY <2>3, NoCall
    <3>2. SteadyInv'
      BY <2>0, <3>1 DEF SteadyInv, usbVars
    <3>3. M!Next \/ UNCHANGED M!vars
      <4>1. CASE Local
        BY <4>1 DEF Local, M!Next, M!Foreground, M!Parse, M!ParseDownload
      <4>2. CASE NothingToDo
        BY <2>0, <4>2 DEF NothingToDo, seqVars, M!vars
      <4>3. QED
        BY <2>3, <4>1, <4>2
    <3>4. QED
      BY <3>2, <3>3 DEF Goal
  <2>4. QED
    BY <1>1, <2>1, <2>2, <2>3 DEF SequencerCall
<1>2. CASE HostCall
  <2>1. SteadyInv' /\ (drv = "READY" => drv' = "READY")
    BY <1>2, SteadyHost
  <2>2. UNCHANGED seqVars
    BY <1>2 DEF HostCall
  <2>3. CASE drv # "READY" /\ drv' = "READY"
    <3>1. M!DriverUp
      BY <2>2, <2>3 DEF M!DriverUp, seqVars, M!flagVars, M!modemVars, M!boundVars, M!histVars
    <3>2. QED
      BY <2>1, <3>1 DEF Goal, M!Next, M!Environment
  <2>4. CASE (drv' = "READY") = (drv = "READY")
    <3>1. UNCHANGED M!vars
      BY <2>2, <2>4 DEF M!vars, seqVars
    <3>2. QED
      BY <2>1, <3>1 DEF Goal
  <2>5. QED
    BY <2>1, <2>3, <2>4
<1>3. CASE HostWaits \/ UNCHANGED vars
  <2>1. UNCHANGED <<seqVars, usbVars, detaches>> /\ (tasks = "none" \/ turn' = turn)
    BY <1>3 DEF HostWaits, vars, U!Between
  <2>2. QED
    BY <2>1 DEF Goal, SteadyInv, M!vars, seqVars, usbVars
<1>4. CASE TransferDone
  <2>1. reads > 0 \/ writes # <<>>
    BY <1>4 DEF TransferDone, Reported, Unreported, M!ReadComplete, M!WriteComplete, M!Receive, M!Transmit
  <2>2. state # "WAITING_DRIVER_READY" /\ handler /\ state' = state
    <3>1. state' = state
      BY <1>4 DEF TransferDone, Reported, Unreported, M!ReadComplete, M!WriteComplete, M!Receive,
         M!Transmit
    <3>2. reads = 0 => ~(reads > 0)
      OBVIOUS
    <3>3. QED
      BY <2>1, <3>1, <3>2 DEF SteadyInv
  <2>3. M!Next
    BY <1>4, <2>2 DEF TransferDone, Reported, Unreported, M!Next, M!Interrupt
  <2>4. UNCHANGED <<drv, tasks, host, handler, turn, detaches>>
    BY <1>4 DEF TransferDone, U!TransferDone, U!hostVars, U!drvVars, U!clientVars
  <2>5. QED
    BY <2>2, <2>3, <2>4 DEF Goal, SteadyInv
<1>5. CASE Detach
  BY <1>5 DEF Detach, SteadyInv
<1>6. CASE Elsewhere
  <2>1. UNCHANGED <<usbVars, turn, detaches, state, reads, writes>>
    BY <1>6 DEF Elsewhere, Alone, M!TimerTick, M!Replies, M!Boot, M!Answer, M!AskBody,
       M!BodyStored, M!PostDone, M!Unsolicited, M!usbVars
  <2>2. M!Next
    BY <1>6 DEF Elsewhere, M!Next, M!Interrupt, M!Environment
  <2>3. QED
    BY <2>1, <2>2 DEF Goal, SteadyInv, usbVars
<1>7. QED
  BY <1>1, <1>2, <1>3, <1>4, <1>5, <1>6 DEF Next

\* With a modem that stays on the bus the sequencer over the real driver does
\* what SimcomModem says of it: the driver comes up once, is never refused a
\* transfer and reports each, so that all its theorems hold here as well.
THEOREM SteadyModem == ASSUME MaxDetaches = 0 PROVE Spec => SequencerOverReadyDriver
<1>1. Init => SteadyInv /\ M!Init
  BY DEF Init, M!Init, U!UsbInit, SteadyInv
<1>2. WaitInv /\ UP!UsbIInv /\ SteadyInv /\ [Next]_vars => SteadyInv' /\ [M!Next]_M!vars
  BY SteadyStep
<1>3. QED
  BY <1>1, <1>2, DriverInvariant, PTL DEF Spec, SequencerOverReadyDriver, M!Spec

-----------------------------------------------------------------------------
(***************************************************************************)
(* The session after a detach.  Until its handler is dropped the sequencer *)
(* waits for the answer before it sends again; afterwards the answers are  *)
(* no longer reported, and what holds the next command back is the flag    *)
(* of the one late write, which nothing raises again (Held).  A body could *)
(* still be sent out of turn by a state that parses what the detach left   *)
(* behind: but that is parsed, or forgotten, before a pipe is open again   *)
(* (StaleParse).                                                           *)
(***************************************************************************)

\* A call that has got past its first statement is not one that waits for the driver.
CallInv ==
  /\ pc # "write" => state # "WAITING_DRIVER_READY" /\ turn = "simcom"
  /\ pc = "timer" => state = "NOT_READY"

\* Once the handler is dropped nothing raises a flag again.
WriteSpent == ~ATwrite \/ pc \in {"wrote", "body"}
ReadSpent == ~ATread \/ pc = "posted"
LateInv ==
  /\ lateWrites = 0 \/ (lateWrites = 1 /\ HandlerDropped /\ WriteSpent)
  /\ lateReads = 0 \/ (lateReads = 1 /\ HandlerDropped /\ ReadSpent)

\* No handle is open, and none will be before simcom_tasks has been through.
NoPipesYet ==
  /\ pipes = {}
  /\ host = "absent" \/ turn = "simcom" \/ (host = "enumerating" /\ tasks # "none")

\* Before the driver has a device for the handler there is nothing to hear.
UnheardInv ==
  state = "WAITING_DRIVER_READY" \/ (handler /\ host \notin UP!Owned) =>
    /\ state \in {"WAITING_DRIVER_READY", "NOT_READY"}
    /\ ~pendingATCommandParse /\ timer = 0 /\ reads = 0

\* What the detach left to be parsed is parsed before a pipe is open again, by
\* every state that parses what it may have to do with.
StaleParse ==
  HandlerDropped /\ pendingATCommandParse =>
    \/ NoPipesYet /\ (pc = "timer" => host = "absent")
    \/ pc \in {"clear", "unpend"}
    \/ state \in {"READY", "ERROR", "HTTPS_INIT", "REQUEST_GPS_INFO"}

\* What the comparisons will look at has not been looked at before.
BufferInv == fresh \/ buffRecv = M!Empty \/ pc \in {"clear", "body"}

\* One write at most is under way, and its flag is down or about to be.
WritePipe == writes = <<>> \/ (Len(writes) = 1 /\ WriteSpent)

\* The next command is held back: by the outstanding answer, or for good.
Held == pendingResponse \/ (HandlerDropped /\ WriteSpent)

\* Answers and prompts on their way to the parser.
NoFinal == M!Unread = {} /\ ~M!UnparsedFinal
Prompts == {i \in DOMAIN out : out[i].kind = "DOWNLOAD"}
UnparsedPrompt == fresh /\ buffRecv.kind = "DOWNLOAD"
NoPrompt == Prompts = {} /\ ~UnparsedPrompt

\* The command is in one place: in the pipe, in the modem or in its answer.
SessionInv ==
  /\ writes # <<>> =>
       /\ NoFinal
       /\ \/ Head(writes) = state /\ modem = "idle"
          \/ Head(writes) = "BODY" /\ modem = "input"
  /\ modem # "idle" => cmd = state /\ Held /\ NoFinal
  /\ modem \in {"input", "stored"} => cmd = "HTTP_POST_DATA"
  /\ ~NoFinal => Held
  /\ \A i \in M!Unread : M!Unread = {i} /\ out[i].of = state /\ ~M!UnparsedFinal
  /\ M!UnparsedFinal => buffRecv.of = state

\* So is the prompt, as long as somebody is told of it.
PromptInv ==
  ~HandlerDropped =>
    /\ writes # <<>> => NoPrompt
    /\ ~NoPrompt => modem = "input"
    /\ \A i \in Prompts : Prompts = {i} /\ ~UnparsedPrompt

\* The inductive invariant.
IInv ==
  /\ M!TypeOK /\ CallInv /\ LateInv /\ UnheardInv /\ StaleParse /\ BufferInv /\ WritePipe
  /\ SessionInv /\ PromptInv

-----------------------------------------------------------------------------
(***************************************************************************)
(* The sequencer and its lines, with and without the theorems about them.  *)
(***************************************************************************)

\* What SimcomModem assumes of its constants is assumed here.
LEMMA SequencerAssumptions == MP!TimesAssumption /\ MP!BoundsAssumption
BY TimesAssumption, BoundsAssumption DEF MP!TimesAssumption, MP!BoundsAssumption

USE SequencerAssumptions

\* The sequencer is the same with its theorems as without: its lines ...
LEMMA SameLines ==
  /\ MP!Kinds = M!Kinds /\ MP!Sendable = M!Sendable /\ MP!Lines = M!Lines
  /\ \A k, c : MP!Line(k, c) = M!Line(k, c)
  /\ \A l : MP!WellFormed(l) = M!WellFormed(l) /\ MP!Overlaid(l) = M!Overlaid(l)
  /\ \A q : MP!Merged(q) = M!Merged(q) /\ MP!Contents(q) = M!Contents(q)
  /\ MP!Empty = M!Empty /\ MP!Sendable = M!Sendable
  /\ \A s : MP!Awaited(s) = M!Awaited(s) /\ MP!Sequel(s) = M!Sequel(s)
            /\ MP!SequelOfError(s) = M!SequelOfError(s)
  /\ MP!CommandStates = M!CommandStates /\ MP!AnswerableStates = M!AnswerableStates
  /\ MP!ListenStates = M!ListenStates
  /\ MP!States = M!States
<1>1. MP!Kinds = M!Kinds /\ MP!Sendable = M!Sendable /\ MP!Lines = M!Lines
  BY DEF M!Kinds, MP!Kinds, M!Lines, MP!Lines, M!Sendable, MP!Sendable, M!CommandStates,
     MP!CommandStates
<1>2. \A k, c : MP!Line(k, c) = M!Line(k, c)
  BY DEF M!Line, MP!Line
<1>3. MP!Empty = M!Empty
  BY <1>2 DEF M!Empty, MP!Empty
<1>4. \A l : MP!WellFormed(l) = M!WellFormed(l) /\ MP!Overlaid(l) = M!Overlaid(l)
  BY <1>2 DEF M!WellFormed, MP!WellFormed, M!Overlaid, MP!Overlaid
<1>5. \A q : MP!Merged(q) = M!Merged(q) /\ MP!Contents(q) = M!Contents(q)
  BY <1>2, <1>3, <1>4 DEF M!Merged, MP!Merged, M!Contents, MP!Contents
<1>6. /\ \A s : MP!Awaited(s) = M!Awaited(s) /\ MP!Sequel(s) = M!Sequel(s)
            /\ MP!SequelOfError(s) = M!SequelOfError(s)
      /\ MP!CommandStates = M!CommandStates /\ MP!AnswerableStates = M!AnswerableStates
      /\ MP!ListenStates = M!ListenStates
      /\ MP!States = M!States
  BY DEF M!Awaited, MP!Awaited, M!Sequel, MP!Sequel, M!SequelOfError, MP!SequelOfError,
     M!CommandStates, MP!CommandStates, M!AnswerableStates, MP!AnswerableStates,
     M!ListenStates, MP!ListenStates, M!States, MP!States
<1>7. QED
  BY <1>1, <1>2, <1>3, <1>4, <1>5, <1>6

\* ... and its actions.
LEMMA SameSequencer ==
  /\ M!TypeOK <=> MP!TypeOK
  /\ M!TypeOK' <=> MP!TypeOK'
  /\ M!Foreground <=> MP!Foreground
  /\ M!ReadComplete <=> MP!ReadComplete
  /\ M!WriteComplete <=> MP!WriteComplete
  /\ M!TimerTick <=> MP!TimerTick
  /\ M!Replies <=> MP!Replies
  /\ M!Answer <=> MP!Answer
  /\ M!Unsolicited <=> MP!Unsolicited
  /\ \A l : M!Says(l) <=> MP!Says(l)
<1> USE SameLines DEF M!flagVars, MP!flagVars, M!usbVars, MP!usbVars, M!modemVars, MP!modemVars,
      M!boundVars, MP!boundVars, M!histVars, MP!histVars
<1>1. (M!TypeOK <=> MP!TypeOK) /\ (M!TypeOK' <=> MP!TypeOK')
  BY DEF M!TypeOK, MP!TypeOK, M!PCs, MP!PCs
<1>2. \A l : M!Says(l) <=> MP!Says(l)
  BY DEF M!Says, MP!Says, M!Room, MP!Room
<1>3. \A l : (M!Unseen <=> MP!Unseen) /\ (M!Significant(l) <=> MP!Significant(l))
  BY DEF M!Unseen, MP!Unseen, M!Significant, MP!Significant
<1>4. (M!ReadComplete <=> MP!ReadComplete) /\ (M!TimerTick <=> MP!TimerTick)
  BY <1>3 DEF M!ReadComplete, MP!ReadComplete, M!Receive, MP!Receive, M!TimerTick, MP!TimerTick
<1>5. M!WriteComplete <=> MP!WriteComplete
  BY DEF M!WriteComplete, MP!WriteComplete, M!Transmit, MP!Transmit, M!Deliver, MP!Deliver
<1>6. (M!Replies <=> MP!Replies) /\ (M!Answer <=> MP!Answer)
  BY <1>2 DEF M!Replies, MP!Replies, M!Boot, MP!Boot, M!Answer, MP!Answer, M!AskBody, MP!AskBody,
     M!BodyStored, MP!BodyStored, M!PostDone, MP!PostDone
<1>7. M!Unsolicited <=> MP!Unsolicited
  BY <1>2 DEF M!Unsolicited, MP!Unsolicited
<1>8. M!Foreground <=> MP!Foreground
  <2> USE <1>3 DEF M!MayWrite, MP!MayWrite, M!FormatCommand, MP!FormatCommand, M!CountFault, MP!CountFault,
        M!Return, MP!Return, M!Parsing, MP!Parsing, M!Answerable, MP!Answerable, M!Hears, MP!Hears
  <2>1. (M!AttachHandler <=> MP!AttachHandler) /\ (M!WriteCommand <=> MP!WriteCommand)
        /\ (M!WriteRefused <=> MP!WriteRefused) /\ (M!NothingToWrite <=> MP!NothingToWrite)
        /\ (M!WriteAccepted <=> MP!WriteAccepted)
    BY DEF M!AttachHandler, MP!AttachHandler, M!WriteCommand, MP!WriteCommand, M!WriteRefused,
       MP!WriteRefused, M!WriteNotSent, MP!WriteNotSent, M!NothingToWrite, MP!NothingToWrite,
       M!WriteAccepted, MP!WriteAccepted
  <2>2. (M!PostRead <=> MP!PostRead) /\ (M!ReadRefused <=> MP!ReadRefused)
        /\ (M!NothingToRead <=> MP!NothingToRead) /\ (M!ReadAccepted <=> MP!ReadAccepted)
        /\ (M!NothingToParse <=> MP!NothingToParse)
    BY DEF M!PostRead, MP!PostRead, M!ReadRefused, MP!ReadRefused, M!ReadNotPosted,
       MP!ReadNotPosted, M!NothingToRead, MP!NothingToRead, M!ReadAccepted, MP!ReadAccepted,
       M!NothingToParse, MP!NothingToParse
  <2>3. (M!ParseAnswer <=> MP!ParseAnswer) /\ (M!ParseError <=> MP!ParseError)
    BY DEF M!ParseAnswer, MP!ParseAnswer, M!ParseError, MP!ParseError
  <2>4. (M!ParseDownload <=> MP!ParseDownload) /\ (M!ParseAtReady <=> MP!ParseAtReady)
        /\ (M!ParsePosition <=> MP!ParsePosition) /\ (M!ParseOther <=> MP!ParseOther)
    BY DEF M!ParseDownload, MP!ParseDownload, M!SendBody, MP!SendBody, M!DropBody, MP!DropBody,
       M!HearsDownload, MP!HearsDownload, M!ParseAtReady, MP!ParseAtReady, M!ParsePosition,
       MP!ParsePosition, M!ParseOther, MP!ParseOther
  <2>5. (M!BodyAccepted <=> MP!BodyAccepted) /\ (M!ClearBuffer <=> MP!ClearBuffer)
        /\ (M!ParseDone <=> MP!ParseDone) /\ (M!ListenTimer <=> MP!ListenTimer)
        /\ (M!ComposePosition <=> MP!ComposePosition) /\ (M!RestOver <=> MP!RestOver)
    BY DEF M!BodyAccepted, MP!BodyAccepted, M!ClearBuffer, MP!ClearBuffer, M!ParseDone,
       MP!ParseDone, M!ListenTimer, MP!ListenTimer, M!ComposePosition, MP!ComposePosition,
       M!RestOver, MP!RestOver
  <2>6. QED
    BY <2>1, <2>2, <2>3, <2>4, <2>5 DEF M!Foreground, MP!Foreground, M!Parse, MP!Parse
<1>9. QED
  BY <1>1, <1>2, <1>4, <1>5, <1>6, <1>7, <1>8

\* What a read leaves, reported or not.
LEMMA ReceiveLines ==
  ASSUME M!TypeOK, M!Receive
  PROVE  /\ out # <<>> /\ out' \in {<<>>, Tail(out)} /\ out' \in Seq(M!Lines)
         /\ buffRecv' \in M!Lines
         /\ buffRecv' = out[1] \/ buffRecv'.kind \in {"OTHER", "GARBLED"}
<1>1. out \in Seq(M!Lines) /\ out # <<>> /\ Head(out) = out[1] /\ out[1] \in M!Lines
  BY DEF M!TypeOK, M!Receive
<1>2. PICK taken \in {<<Head(out)>>, out} :
        buffRecv' \in M!Contents(taken) /\ out' = IF taken = out THEN <<>> ELSE Tail(out)
  BY DEF M!Receive
<1>3. taken \in Seq(M!Lines) /\ taken # <<>> /\ Head(taken) = out[1]
  <2>1. CASE taken = out
    BY <1>1, <2>1
  <2>2. CASE taken = <<Head(out)>>
    BY <1>1, <2>2
  <2>3. QED
    BY <1>2, <2>1, <2>2
<1>4. buffRecv' \in MP!Contents(taken) /\ taken \in Seq(MP!Lines) /\ out[1] \in MP!Lines
  BY <1>1, <1>2, <1>3, SameLines
<1>5. buffRecv' = out[1] \/ buffRecv'.kind \in {"OTHER", "GARBLED"}
  BY <1>3, <1>4, MP!ContentsLine
<1>6. buffRecv' \in M!Lines
  <2>1. MP!Merged(taken) \in MP!Lines
    BY <1>3, <1>4, MP!MergedType
  <2>2. \A l \in MP!Lines : MP!Overlaid(l) \in MP!Lines
    BY DEF MP!Overlaid, MP!Line, MP!Lines, MP!Kinds
  <2>3. QED
    BY <1>3, <1>4, <2>1, <2>2, SameLines DEF MP!Contents
<1>7. out' \in {<<>>, Tail(out)} /\ out' \in Seq(M!Lines)
  BY <1>1, <1>2
<1>8. QED
  BY <1>1, <1>5, <1>6, <1>7

\* The sequencer over the driver stays well typed, whoever makes the step.
LEMMA TypeStep == M!TypeOK /\ [Next]_vars => M!TypeOK'
<1> SUFFICES ASSUME M!TypeOK, [Next]_vars PROVE M!TypeOK'
  OBVIOUS
<1> USE DEF M!flagVars, M!usbVars, M!modemVars, M!boundVars, M!histVars
<1>1. CASE SequencerCall
  <2>1. CASE M!Foreground
    BY <2>1, SameSequencer, MP!ForegroundType
  <2>2. CASE Refused
    <3>1. UNCHANGED <<drv, faults>>
      BY <1>1, <2>2 DEF SequencerCall, Refused
    <3>2. pc' \in M!PCs /\ postCmd' \in BOOLEAN /\ missed' \in BOOLEAN /\ fresh' \in BOOLEAN
      BY <2>2 DEF Refused, M!WriteNotSent, M!FormatCommand, M!DropBody, M!HearsDownload, M!Parsing,
         M!ReadNotPosted, M!TypeOK, M!PCs
    <3>3. QED
      BY <2>2, <3>1, <3>2 DEF Refused, M!WriteNotSent, M!DropBody, M!HearsDownload,
         M!ReadNotPosted, M!TypeOK
  <2>3. CASE NothingToDo
    BY <2>3 DEF NothingToDo, seqVars, M!TypeOK
  <2>4. CASE CallsDriver \/ Local
    BY <2>1, <2>4 DEF CallsDriver, Local, M!Foreground, M!Parse, M!ParseDownload
  <2>5. QED
    BY <1>1, <2>2, <2>3, <2>4 DEF SequencerCall
<1>2. CASE HostCall \/ HostWaits \/ UNCHANGED vars
  <2>1. UNCHANGED seqVars
    BY <1>2 DEF HostCall, HostWaits, vars
  <2>2. QED
    BY <2>1 DEF seqVars, M!TypeOK
<1>3. CASE TransferDone
  <2>1. CASE Reported
    BY <2>1, SameSequencer, MP!InterruptType DEF Reported, MP!Interrupt
  <2>2. CASE M!Receive /\ UNCHANGED <<pendingATCommandParse, ATread>>
    <3>1. missed' \in BOOLEAN /\ reads' \in Nat
      BY <2>2 DEF M!Receive, M!TypeOK
    <3>2. QED
      BY <2>2, <3>1, ReceiveLines DEF M!Receive, M!TypeOK
  <2>3. CASE M!Transmit /\ UNCHANGED <<pendingResponse, ATwrite>>
    <3>1. missed' \in BOOLEAN
      BY <2>3 DEF M!Transmit
    <3>2. writes' \in Seq(M!Sendable) /\ Head(writes) \in M!Sendable
      BY <2>3 DEF M!TypeOK, M!Transmit
    <3>3. modem' \in {"idle", "exec", "input", "stored"} /\ cmd' \in M!Sendable \cup {"none"}
      BY <2>3, <3>2 DEF M!Transmit, M!Deliver, M!TypeOK
    <3>4. QED
      BY <2>3, <3>1, <3>2, <3>3 DEF M!Transmit, M!TypeOK
  <2>4. QED
    BY <1>3, <2>1, <2>2, <2>3 DEF TransferDone, Unreported
<1>4. CASE Detach
  <2>1. reads' \in Nat /\ writes' \in Seq(M!Sendable)
    <3>1. <<>> \in Seq(M!Sendable) /\ 0 \in Nat
      OBVIOUS
    <3>2. \/ reads' = reads /\ writes' = writes
          \/ reads' = 0 /\ writes' = <<>>
      BY <1>4 DEF Detach, AbortsReported
    <3>3. QED
      BY <3>1, <3>2 DEF M!TypeOK
  <2>2. /\ ATread' \in BOOLEAN /\ ATwrite' \in BOOLEAN
        /\ pendingATCommandParse' \in BOOLEAN /\ pendingResponse' \in BOOLEAN
    BY <1>4 DEF Detach, AbortsReported, M!TypeOK
  <2>3. /\ modem' \in {"idle", "exec", "input", "stored"} /\ cmd' \in M!Sendable \cup {"none"}
        /\ out' \in Seq(M!Lines) /\ booted' \in BOOLEAN /\ posting' \in BOOLEAN
    <3>1. <<>> \in Seq(M!Lines)
      OBVIOUS
    <3>2. QED
      BY <1>4, <3>1 DEF Detach, ModemRestarts, ModemStays, M!TypeOK
  <2>4. missed' \in BOOLEAN
    BY <1>4 DEF Detach
  <2>5. QED
    BY <1>4, <2>1, <2>2, <2>3, <2>4 DEF Detach, M!TypeOK
<1>5. CASE Elsewhere
  BY <1>5, SameSequencer, MP!InterruptType, MP!EnvironmentType
     DEF Elsewhere, MP!Interrupt, MP!Environment
<1>6. QED
  BY <1>1, <1>2, <1>3, <1>4, <1>5 DEF Next

-----------------------------------------------------------------------------
(***************************************************************************)
(* After the handler has been dropped.                                     *)
(***************************************************************************)

\* A statement of simcom_tasks does not raise a flag.
LEMMA FlagsStay ==
  ASSUME SequencerCall
  PROVE  (WriteSpent => WriteSpent') /\ (ReadSpent => ReadSpent')
<1> USE DEF WriteSpent, ReadSpent, M!flagVars, M!usbVars, M!modemVars, M!boundVars, M!histVars
<1>1. CASE CallsDriver
  <2>1. CASE M!AttachHandler
    BY <2>1 DEF M!AttachHandler
  <2>2. CASE M!WriteCommand
    BY <2>2 DEF M!WriteCommand
  <2>3. CASE M!SendBody
    BY <2>3 DEF M!SendBody, M!HearsDownload, M!Parsing
  <2>4. CASE M!PostRead
    BY <2>4 DEF M!PostRead
  <2>5. QED
    BY <1>1, <2>1, <2>2, <2>3, <2>4 DEF CallsDriver
<1>2. CASE Refused
  <2>1. UNCHANGED <<ATread, ATwrite>> /\ pc \in {"write", "parse", "read"}
    BY <1>2 DEF Refused, M!WriteNotSent, M!ReadNotPosted, M!DropBody, M!HearsDownload, M!Parsing
  <2>2. QED
    BY <2>1
<1>3. CASE NothingToDo
  BY <1>3 DEF NothingToDo, seqVars
<1>4. CASE Local
  <2>1. CASE M!WriteAccepted \/ M!BodyAccepted
    BY <2>1 DEF M!WriteAccepted, M!BodyAccepted
  <2>2. CASE M!ReadAccepted
    BY <2>2 DEF M!ReadAccepted
  <2>3. CASE M!NothingToWrite \/ M!NothingToRead \/ M!NothingToParse \/ M!ClearBuffer
             \/ M!ParseDone \/ M!ListenTimer \/ M!ComposePosition \/ M!RestOver
    <3>1. UNCHANGED <<ATread, ATwrite>> /\ pc \notin {"wrote", "body", "posted"}
      BY <2>3 DEF M!NothingToWrite, M!NothingToRead, M!NothingToParse, M!ClearBuffer,
         M!ParseDone, M!ListenTimer, M!ComposePosition, M!RestOver
    <3>2. QED
      BY <3>1
  <2>4. CASE M!ParseAnswer \/ M!ParseError \/ M!DropBody \/ M!ParseAtReady \/ M!ParsePosition
             \/ M!ParseOther
    <3>1. UNCHANGED <<ATread, ATwrite>> /\ pc = "parse"
      BY <2>4 DEF M!ParseAnswer, M!ParseError, M!DropBody, M!HearsDownload, M!ParseAtReady,
         M!ParsePosition, M!ParseOther, M!Parsing
    <3>2. QED
      BY <3>1
  <2>5. QED
    BY <1>4, <2>1, <2>2, <2>3, <2>4 DEF Local
<1>5. QED
  BY <1>1, <1>2, <1>3, <1>4 DEF SequencerCall

\* The handler is set once, in the first state, and dropped by a detach.
LEMMA HandlerStays ==
  ASSUME WaitInv, [Next]_vars
  PROVE  /\ state' = "WAITING_DRIVER_READY" => state = "WAITING_DRIVER_READY"
         /\ \/ handler' = handler
            \/ state = "WAITING_DRIVER_READY" /\ state' = "NOT_READY" /\ handler' = TRUE
            \/ Detach /\ host \in UP!Owned /\ host' = "absent" /\ handler' = FALSE
<1> USE DEF U!hostVars, U!drvVars, U!clientVars, U!moving, U!usbBounds, usbVars
<1>1. CASE SequencerCall
  <2>1. CASE CallsDriver
    <3>1. CASE M!AttachHandler /\ U!EventHandlerSet
      BY <3>1 DEF M!AttachHandler, U!EventHandlerSet
    <3>2. CASE (U!AT_Write \/ U!AT_Read) /\ state' = state
      BY <3>2 DEF U!AT_Write, U!AT_Read
    <3>3. QED
      BY <2>1, <3>1, <3>2, DriverCalled
  <2>2. CASE Refused \/ Local \/ NothingToDo
    BY <2>2, NoCall
  <2>3. QED
    BY <1>1, <2>1, <2>2 DEF SequencerCall
<1>2. CASE HostCall
  BY <1>2 DEF HostCall, seqVars, U!BusTasks, U!HostLayer, U!DeviceTasks, U!Attach,
     U!DeviceAssign, U!DeviceRefused, U!ConfigurationSet, U!InterfaceAssign,
     U!RequestConfiguration, U!RequestRefused, U!RequestAnswered, U!InterfacesOpen, U!AssignState
<1>3. CASE HostWaits \/ UNCHANGED vars
  BY <1>3 DEF HostWaits, vars, seqVars
<1>4. CASE TransferDone
  <2>1. handler' = handler
    BY <1>4 DEF TransferDone, U!TransferDone
  <2>2. state' = state
    BY <1>4 DEF TransferDone, Reported, Unreported, M!ReadComplete, M!WriteComplete, M!Receive,
       M!Transmit
  <2>3. QED
    BY <2>1, <2>2
<1>5. CASE Detach
  BY <1>5 DEF Detach, U!Detach, U!DeviceRelease, U!Owned, UP!Owned
<1>6. CASE Elsewhere
  <2>1. handler' = handler
    BY <1>6 DEF Elsewhere, Alone
  <2>2. state' = state
    BY <1>6 DEF Elsewhere, M!TimerTick, M!Replies, M!Boot, M!Answer, M!AskBody,
       M!BodyStored, M!PostDone, M!Unsolicited
  <2>3. QED
    BY <2>1, <2>2
<1>7. QED
  BY <1>1, <1>2, <1>3, <1>4, <1>5, <1>6 DEF Next

\* Without a handler no flag is raised, and the handler stays dropped.
LEMMA DropIsForGood ==
  ASSUME WaitInv, [Next]_vars, HandlerDropped
  PROVE  /\ HandlerDropped'
         /\ (WriteSpent => WriteSpent') /\ (ReadSpent => ReadSpent')
<1>1. HandlerDropped'
  <2>1. state' # "WAITING_DRIVER_READY" /\ (handler' = handler \/ handler' = FALSE)
    BY HandlerStays DEF HandlerDropped
  <2>2. ~handler'
    BY <2>1, Zenon DEF HandlerDropped
  <2>3. QED
    BY <2>1, <2>2 DEF HandlerDropped
<1>2. (WriteSpent => WriteSpent') /\ (ReadSpent => ReadSpent')
  <2>1. CASE SequencerCall
    BY <2>1, FlagsStay
  <2>2. CASE ~SequencerCall
    <3>1. UNCHANGED <<ATread, ATwrite, pc>>
      <4>1. CASE HostCall \/ HostWaits \/ UNCHANGED vars
        BY <4>1 DEF HostCall, HostWaits, vars, seqVars
      <4>2. CASE TransferDone
        BY <4>2 DEF HandlerDropped, TransferDone, Reported, Unreported, M!Receive, M!Transmit
      <4>3. CASE Detach
        BY <4>3 DEF HandlerDropped, Detach, AbortsReported
      <4>4. CASE Elsewhere
        BY <4>4 DEF Elsewhere, M!TimerTick, M!Replies, M!Boot, M!Answer, M!AskBody,
           M!BodyStored, M!PostDone, M!Unsolicited, M!flagVars
      <4>5. QED
        BY <2>2, <4>1, <4>2, <4>3, <4>4 DEF Next
    <3>2. QED
      BY <3>1 DEF WriteSpent, ReadSpent
  <2>3. QED
    BY <2>1, <2>2
<1>3. QED
  BY <1>1, <1>2

\* A transfer is asked for with the flag up, and leaves it spent.
LEMMA LateStep == WaitInv /\ LateInv /\ [Next]_vars => LateInv'
<1> SUFFICES ASSUME WaitInv, LateInv, [Next]_vars PROVE LateInv'
  OBVIOUS
<1>1. CASE lateVars' = lateVars
  BY <1>1, DropIsForGood DEF LateInv, lateVars
<1>2. CASE CallsDriver
  <2>1. CASE M!AttachHandler /\ UNCHANGED lateVars
    BY <1>1, <2>1
  <2>2. CASE M!WriteCommand \/ M!SendBody
    <3>1. /\ ATwrite /\ pc \notin {"wrote", "body"} /\ pc' \in {"wrote", "body"}
          /\ lateReads' = lateReads
          /\ lateWrites' = IF HandlerDropped THEN lateWrites + 1 ELSE lateWrites
      BY <1>2, <2>2 DEF CallsDriver, M!WriteCommand, M!SendBody, M!MayWrite, M!HearsDownload,
         M!Parsing, M!AttachHandler, M!PostRead
    <3>2. lateWrites = 0
      BY <3>1 DEF LateInv, WriteSpent
    <3>3. QED
      BY <3>1, <3>2, DropIsForGood DEF LateInv, WriteSpent
  <2>3. CASE M!PostRead /\ UNCHANGED lateWrites
            /\ lateReads' = IF HandlerDropped THEN lateReads + 1 ELSE lateReads
    <3>1. ATread /\ pc = "read" /\ pc' = "posted"
      BY <2>3 DEF M!PostRead
    <3>2. lateReads = 0
      BY <3>1 DEF LateInv, ReadSpent
    <3>3. QED
      BY <2>3, <3>1, <3>2, DropIsForGood DEF LateInv, ReadSpent
  <2>4. QED
    BY <1>2, <2>1, <2>2, <2>3 DEF CallsDriver
<1>3. QED
  BY <1>1, <1>2 DEF Next, SequencerCall, Refused, Local, NothingToDo, HostCall, HostWaits,
     TransferDone, Detach, Elsewhere, Alone, vars

\* Nothing but simcom_tasks changes its state or its next statement.
LEMMA OnlySequencer ==
  ASSUME [Next]_vars, ~SequencerCall
  PROVE  state' = state /\ pc' = pc /\ (UNCHANGED seqVars \/ TransferDone \/ Detach \/ Elsewhere)
<1>1. CASE HostCall \/ HostWaits \/ UNCHANGED vars
  BY <1>1 DEF HostCall, HostWaits, vars, seqVars
<1>2. CASE TransferDone
  BY <1>2 DEF TransferDone, Reported, Unreported, M!ReadComplete, M!WriteComplete, M!Receive,
     M!Transmit
<1>3. CASE Detach
  BY <1>3 DEF Detach
<1>4. CASE Elsewhere
  BY <1>4 DEF Elsewhere, M!TimerTick, M!Replies, M!Boot, M!Answer, M!AskBody, M!BodyStored,
     M!PostDone, M!Unsolicited
<1>5. QED
  BY <1>1, <1>2, <1>3, <1>4 DEF Next

\* One write at most is under way, and nothing is written until it ends.
LEMMA WritePipeStep == M!TypeOK /\ WaitInv /\ WritePipe /\ [Next]_vars => WritePipe'
<1> SUFFICES ASSUME M!TypeOK, WaitInv, WritePipe, [Next]_vars PROVE WritePipe'
  OBVIOUS
<1>1. CASE SequencerCall
  <2>1. CASE writes' = writes
    BY <1>1, <2>1, FlagsStay DEF WritePipe
  <2>2. CASE M!WriteCommand \/ M!SendBody
    <3>1. /\ ATwrite /\ pc \notin {"wrote", "body"} /\ pc' \in {"wrote", "body"}
          /\ \E w : writes' = Append(writes, w)
      BY <2>2 DEF M!WriteCommand, M!SendBody, M!MayWrite, M!HearsDownload, M!Parsing
    <3>2. writes = <<>>
      BY <3>1 DEF WritePipe, WriteSpent
    <3>3. QED
      BY <3>1, <3>2 DEF WritePipe, WriteSpent
  <2>3. CASE M!AttachHandler \/ M!PostRead
    BY <2>1, <2>3 DEF M!AttachHandler, M!PostRead, M!usbVars
  <2>4. QED
    BY <1>1, <2>1, <2>2, <2>3, NoCall DEF SequencerCall, CallsDriver
<1>2. CASE ~SequencerCall
  <2>1. pc' = pc
    BY <1>2, OnlySequencer
  <2>2. CASE UNCHANGED seqVars \/ Elsewhere
    <3>1. writes' = writes /\ ATwrite' = ATwrite
      BY <2>2 DEF seqVars, Elsewhere, M!TimerTick, M!Replies, M!Boot, M!Answer, M!AskBody,
         M!BodyStored, M!PostDone, M!Unsolicited, M!flagVars, M!usbVars
    <3>2. QED
      BY <2>1, <3>1 DEF WritePipe, WriteSpent
  <2>3. CASE TransferDone
    <3>1. \/ writes' = writes /\ ATwrite' = ATwrite
          \/ writes # <<>> /\ writes' = Tail(writes)
      BY <2>3 DEF TransferDone, Reported, Unreported, M!ReadComplete, M!WriteComplete,
         M!Receive, M!Transmit
    <3>2. QED
      BY <2>1, <3>1 DEF WritePipe, WriteSpent, M!TypeOK
  <2>4. CASE Detach
    <3>1. \/ writes' = writes /\ ATwrite' = ATwrite
          \/ writes' = <<>>
      BY <2>4 DEF Detach, AbortsReported
    <3>2. QED
      BY <2>1, <3>1 DEF WritePipe, WriteSpent
  <2>5. QED
    BY <1>2, <2>2, <2>3, <2>4, OnlySequencer
<1>3. QED
  BY <1>1, <1>2

\* A statement after the first of a call is executed in that call.
LEMMA CallStep == WaitInv /\ CallInv /\ [Next]_vars => CallInv'
<1> SUFFICES ASSUME WaitInv, CallInv, [Next]_vars PROVE CallInv'
  OBVIOUS
<1>1. WaitInv'
  BY WaitStep
<1>2. CASE SequencerCall
  <2>1. pc' = "timer" => state' = "NOT_READY"
    <3> USE DEF M!flagVars, M!usbVars, M!modemVars, M!boundVars, M!histVars
    <3>1. CASE CallsDriver
      BY <3>1 DEF CallsDriver, M!AttachHandler, M!WriteCommand, M!SendBody, M!PostRead, CallInv
    <3>2. CASE Refused
      BY <3>2 DEF Refused, M!WriteNotSent, M!ReadNotPosted, M!DropBody
    <3>3. CASE NothingToDo
      BY <3>3 DEF NothingToDo, seqVars
    <3>4. CASE Local
      <4>1. CASE M!NothingToParse \/ M!ParseDone
        BY <4>1 DEF M!NothingToParse, M!ParseDone, M!Return
      <4>2. CASE ~(M!NothingToParse \/ M!ParseDone)
        <5>1. pc' # "timer"
          BY <3>4, <4>2 DEF Local, M!NothingToWrite, M!WriteAccepted, M!NothingToRead,
             M!ReadAccepted, M!ParseAnswer, M!ParseError, M!DropBody, M!ParseAtReady,
             M!ParsePosition, M!ParseOther, M!BodyAccepted, M!ClearBuffer, M!ListenTimer,
             M!ComposePosition, M!RestOver
        <5>2. QED
          BY <5>1
      <4>3. QED
        BY <4>1, <4>2
    <3>5. QED
      BY <1>2, <3>1, <3>2, <3>3, <3>4 DEF SequencerCall
  <2>2. pc' # "write" => turn' = "simcom"
    BY <1>2 DEF SequencerCall
  <2>3. QED
    BY <1>1, <2>1, <2>2 DEF CallInv, WaitInv
<1>3. CASE ~SequencerCall
  <2>1. state' = state /\ pc' = pc
    BY <1>3, OnlySequencer
  <2>2. turn' = turn \/ turn # "simcom"
    BY <1>3 DEF Next, HostCall, HostWaits, TransferDone, Detach, Elsewhere, Alone, vars
  <2>3. QED
    BY <2>1, <2>2 DEF CallInv
<1>4. QED
  BY <1>2, <1>3

\* What the comparisons look at has not been looked at before.
LEMMA BufferStep == M!TypeOK /\ BufferInv /\ [Next]_vars => BufferInv'
<1> SUFFICES ASSUME M!TypeOK, BufferInv, [Next]_vars PROVE BufferInv'
  OBVIOUS
<1>0. (BufferInv <=> MP!BufferInv) /\ (BufferInv' <=> MP!BufferInv')
  BY SameLines DEF BufferInv, MP!BufferInv
<1>1. CASE M!Foreground \/ M!ReadComplete \/ M!WriteComplete \/ M!TimerTick \/ M!Replies
           \/ M!Unsolicited
  BY <1>0, <1>1, SameSequencer, MP!BufferStep DEF MP!Next, MP!Interrupt, MP!Environment
<1>2. CASE Refused
  BY <1>2 DEF Refused, M!WriteNotSent, M!ReadNotPosted, M!DropBody, M!HearsDownload, M!histVars,
     BufferInv
<1>3. CASE HostCall \/ HostWaits \/ NothingToDo \/ UNCHANGED vars \/ Detach
  BY <1>3 DEF HostCall, HostWaits, NothingToDo, vars, Detach, seqVars, BufferInv
<1>4. CASE M!Receive
  BY <1>4 DEF M!Receive, BufferInv
<1>5. CASE M!Transmit
  BY <1>5 DEF M!Transmit, BufferInv
<1>6. CASE CallsDriver \/ Local
  BY <1>1, <1>6 DEF CallsDriver, Local, M!Foreground, M!Parse, M!ParseDownload
<1>7. QED
  BY <1>1, <1>2, <1>3, <1>4, <1>5, <1>6
     DEF Next, SequencerCall, TransferDone, Reported, Unreported, Elsewhere

\* A statement of simcom_tasks that changes the state without a line to parse.
LEMMA SequencerMoves ==
  ASSUME SequencerCall, ~M!AttachHandler
  PROVE  /\ \/ state' = state
            \/ pc = "parse" /\ pendingATCommandParse /\ pc' = "clear"
            \/ pc = "timer" /\ timer = 1 /\ pc' = "write"
            \/ state = "READY" /\ state' = "HTTPS_INIT"
         /\ \/ pendingATCommandParse' = pendingATCommandParse
            \/ pendingATCommandParse' = FALSE
            \/ state = "REQUEST_GPS_INFO" /\ state' = state
         /\ pc = "unpend" => pendingATCommandParse' = FALSE
         /\ \/ timer' = timer
            \/ pc = "parse" /\ pendingATCommandParse
         /\ pc = "clear" => pc' = "unpend"
         /\ \/ pc' # "write"
            \/ ~pendingATCommandParse' \/ pc = "timer" \/ state' = "HTTPS_INIT"
            \/ state \in {"WAITING_DRIVER_READY", "READY", "ERROR"}
         /\ pc' = "timer" => ~pendingATCommandParse'
<1> USE DEF M!flagVars, M!usbVars, M!modemVars, M!boundVars, M!histVars
<1>1. CASE CallsDriver
  <2>1. /\ UNCHANGED <<state, pendingATCommandParse, timer>> /\ pc \notin {"clear", "unpend"}
        /\ pc' \notin {"write", "timer"}
    BY <1>1 DEF CallsDriver, M!WriteCommand, M!SendBody, M!PostRead, M!HearsDownload, M!Parsing
  <2>2. QED
    BY <2>1
<1>2. CASE Refused
  <2>1. /\ UNCHANGED <<state, pendingATCommandParse, timer>> /\ pc \notin {"clear", "unpend"}
        /\ pc' \notin {"write", "timer"}
    BY <1>2 DEF Refused, M!WriteNotSent, M!ReadNotPosted, M!DropBody, M!HearsDownload, M!Parsing
  <2>2. QED
    BY <2>1
<1>3. CASE NothingToDo
  BY <1>3 DEF NothingToDo, seqVars
<1>4. CASE Local
  <2>1. CASE M!NothingToWrite \/ M!WriteAccepted \/ M!NothingToRead \/ M!ReadAccepted
             \/ M!BodyAccepted \/ M!ClearBuffer
    <3>1. /\ UNCHANGED <<state, pendingATCommandParse, timer>> /\ (pc = "clear" => pc' = "unpend")
          /\ pc # "unpend" /\ pc' \notin {"write", "timer"}
      BY <2>1 DEF M!NothingToWrite, M!WriteAccepted, M!NothingToRead, M!ReadAccepted,
         M!BodyAccepted, M!ClearBuffer
    <3>2. QED
      BY <3>1
  <2>2. CASE M!ParseAnswer \/ M!ParseError \/ M!DropBody \/ M!ParseAtReady \/ M!ParsePosition
             \/ M!ParseOther
    <3>1. pc = "parse" /\ pendingATCommandParse /\ pc' = "clear"
          /\ pendingATCommandParse' = pendingATCommandParse
      BY <2>2 DEF M!ParseAnswer, M!ParseError, M!DropBody, M!HearsDownload, M!ParseAtReady,
         M!ParsePosition, M!ParseOther, M!Parsing
    <3>2. QED
      BY <3>1
  <2>3. CASE M!NothingToParse \/ M!ParseDone
    <3>1. /\ UNCHANGED <<state, timer>> /\ pc # "clear" /\ ~pendingATCommandParse'
          /\ \/ pendingATCommandParse' = pendingATCommandParse /\ pc # "unpend"
             \/ pendingATCommandParse' = FALSE
      BY <2>3 DEF M!NothingToParse, M!ParseDone
    <3>2. QED
      BY <3>1
  <2>4. CASE M!ListenTimer
    BY <2>4 DEF M!ListenTimer
  <2>5. CASE M!ComposePosition
    BY <2>5 DEF M!ComposePosition
  <2>6. CASE M!RestOver
    BY <2>6 DEF M!RestOver
  <2>7. QED
    BY <1>4, <2>1, <2>2, <2>3, <2>4, <2>5, <2>6 DEF Local
<1>5. QED
  BY <1>1, <1>2, <1>3, <1>4 DEF SequencerCall

\* A call of simcom_tasks leaves the device and its pipes alone.
LEMMA SequencerUsb ==
  ASSUME WaitInv, SequencerCall
  PROVE  UNCHANGED <<host, pipes, tasks>>
<1>1. CASE CallsDriver
  BY <1>1 DEF CallsDriver, U!EventHandlerSet, U!AT_Write, U!AT_Read, U!hostVars, U!drvVars
<1>2. CASE Refused \/ Local \/ NothingToDo
  BY <1>2, NoCall DEF usbVars
<1>3. QED
  BY <1>1, <1>2 DEF SequencerCall

\* What the host layer does between two calls, as far as it matters here.
LEMMA HostMoves ==
  ASSUME HostCall
  PROVE  /\ turn = "host" /\ turn' = (IF tasks' = "none" THEN "simcom" ELSE "host")
         /\ UNCHANGED seqVars /\ handler' = handler
         /\ host \in UP!Owned => host' \in UP!Owned
         /\ \/ host' = host /\ (tasks' = tasks \/ tasks' = "none") /\ pipes' = pipes
            \/ host = "absent" /\ host' = "enumerating" /\ tasks' = tasks /\ pipes' = pipes
            \/ host = "enumerating" /\ tasks = "none"
            \/ host \in UP!Owned
<1> USE DEF U!hostVars, U!drvVars, U!clientVars, U!moving, U!usbBounds, U!Owned, UP!Owned, U!Between
<1>1. turn = "host" /\ turn' = (IF tasks' = "none" THEN "simcom" ELSE "host") /\ UNCHANGED seqVars
  BY DEF HostCall
<1>2. CASE U!BusTasks \/ U!HostLayer
  <2>1. /\ handler' = handler /\ tasks' = tasks
        /\ host \in UP!Owned => host' \in UP!Owned
        /\ \/ host' = host /\ pipes' = pipes
           \/ host = "absent" /\ host' = "enumerating" /\ pipes' = pipes
           \/ host = "enumerating" /\ tasks = "none"
           \/ host \in UP!Owned
    BY <1>2 DEF U!BusTasks, U!HostLayer, U!Attach, U!DeviceAssign, U!DeviceRefused,
       U!ConfigurationSet, U!InterfaceAssign
  <2>2. QED
    BY <1>1, <2>1
<1>3. CASE U!DeviceTasks
  <2>1. /\ handler' = handler
        /\ host \in UP!Owned => host' \in UP!Owned
        /\ \/ host' = host /\ tasks' = "none" /\ pipes' = pipes
           \/ host \in UP!Owned
    BY <1>3 DEF U!DeviceTasks, U!RequestConfiguration, U!RequestRefused, U!RequestAnswered,
       U!InterfacesOpen, U!AssignState, U!TasksCalled
  <2>2. QED
    BY <1>1, <2>1
<1>4. QED
  BY <1>2, <1>3 DEF HostCall

\* Without a device nothing is under way, and no pipe is open.
LEMMA NothingMoves ==
  ASSUME UP!UsbIInv, M!TypeOK, host \notin UP!Owned
  PROVE  pipes = {} /\ reads = 0 /\ writes = <<>>
<1>1. pipes = {}
  BY DEF UP!UsbIInv, UP!NoStaleHandles, UP!Owned
<1>2. ~(reads > 0) /\ ~(Len(writes) > 0)
  BY <1>1 DEF UP!UsbIInv, UP!NoStaleHandles
<1>3. QED
  BY <1>1, <1>2 DEF M!TypeOK

\* Every step keeps the silence of a driver without a device.
LEMMA UnheardStep ==
  WaitInv /\ UP!UsbIInv /\ M!TypeOK /\ CallInv /\ UnheardInv /\ [Next]_vars => UnheardInv'
<1> SUFFICES ASSUME WaitInv, UP!UsbIInv, M!TypeOK, CallInv, UnheardInv, [Next]_vars,
                    state' = "WAITING_DRIVER_READY" \/ (handler' /\ host' \notin UP!Owned)
             PROVE  /\ state' \in {"WAITING_DRIVER_READY", "NOT_READY"}
                    /\ ~pendingATCommandParse' /\ timer' = 0 /\ reads' = 0
  BY DEF UnheardInv
<1> DEFINE Unheard == state = "WAITING_DRIVER_READY" \/ (handler /\ host \notin UP!Owned)
<1>0. Unheard => /\ state \in {"WAITING_DRIVER_READY", "NOT_READY"}
                 /\ ~pendingATCommandParse /\ timer = 0 /\ reads = 0
  BY DEF UnheardInv
<1>1. CASE SequencerCall
  <2>1. Unheard
    <3>1. host' = host
      BY <1>1, SequencerUsb
    <3>2. CASE state = "WAITING_DRIVER_READY"
      BY <3>2
    <3>3. CASE state # "WAITING_DRIVER_READY"
      <4>1. handler' /\ host' \notin UP!Owned
        BY <3>3, HandlerStays
      <4>2. handler' = handler \/ handler' = FALSE
        BY <3>3, HandlerStays
      <4>3. handler
        BY <4>1, <4>2, Zenon
      <4>4. QED
        BY <3>1, <4>1, <4>3
    <3>4. QED
      BY <3>2, <3>3
  <2> HIDE DEF Unheard
  <2>2. reads' = reads
    <3>1. CASE M!PostRead /\ U!AT_Read
      <4>1. UP!ATin \in pipes
        BY <3>1 DEF U!AT_Read, U!Accepts, U!ATin, UP!ATin
      <4>2. host \in UP!Owned
        BY <4>1 DEF UP!UsbIInv, UP!NoStaleHandles, UP!Owned
      <4>3. state # "WAITING_DRIVER_READY"
        BY <3>1 DEF M!PostRead, WaitInv
      <4>4. QED
        BY <2>1, <4>2, <4>3 DEF Unheard
    <3>2. CASE M!AttachHandler \/ M!WriteCommand \/ M!SendBody
      BY <3>2 DEF M!AttachHandler, M!WriteCommand, M!SendBody, M!HearsDownload, M!usbVars
    <3>3. QED
      BY <1>1, <3>1, <3>2, NoCall DEF SequencerCall, CallsDriver
  <2>3. CASE M!AttachHandler
    BY <1>0, <2>1, <2>2, <2>3 DEF M!AttachHandler, M!flagVars
  <2>4. CASE ~M!AttachHandler
    <3>1. pendingATCommandParse = FALSE /\ reads' = 0
      BY <1>0, <2>1, <2>2 DEF M!TypeOK
    <3>2. /\ state \in {"WAITING_DRIVER_READY", "NOT_READY"} /\ ~pendingATCommandParse
          /\ timer = 0
      BY <1>0, <2>1
    <3>3. state' = state /\ timer' = timer
      BY <1>1, <2>4, <3>2, SequencerMoves
    <3>4. pendingATCommandParse' = pendingATCommandParse \/ pendingATCommandParse' = FALSE
      BY <1>1, <2>4, <3>2, SequencerMoves
    <3>5. ~pendingATCommandParse'
      BY <3>1, <3>4, Zenon
    <3>6. QED
      BY <3>1, <3>2, <3>3, <3>5
  <2>5. QED
    BY <2>3, <2>4
<1>2. CASE ~SequencerCall
  <2>1. state' = state
    BY <1>2, OnlySequencer
  <2>2. Unheard
    <3>1. CASE Detach
      <4>1. host \in U!Owned => handler' = FALSE
        BY <3>1 DEF Detach, U!Detach, U!DeviceRelease
      <4>2. host \notin U!Owned => handler' = handler
        BY <3>1 DEF Detach, U!Detach
      <4>3. U!Owned = UP!Owned
        BY DEF U!Owned, UP!Owned
      <4>4. QED
        BY <2>1, <4>1, <4>2, <4>3, Zenon
    <3>2. CASE HostCall
      <4>1. handler' = handler /\ (host \in UP!Owned => host' \in UP!Owned)
        BY <3>2, HostMoves
      <4>2. QED
        BY <2>1, <4>1, Zenon
    <3>3. CASE ~Detach /\ ~HostCall
      <4>1. handler' = handler /\ host' = host
        BY <1>2, <3>3 DEF Next, HostWaits, TransferDone, Elsewhere, Alone, vars, usbVars,
           U!TransferDone, U!hostVars, U!clientVars
      <4>2. QED
        BY <2>1, <4>1, Zenon
    <3>4. QED
      BY <3>1, <3>2, <3>3
  <2>3. /\ state \in {"WAITING_DRIVER_READY", "NOT_READY"}
        /\ ~pendingATCommandParse /\ timer = 0 /\ reads = 0
    BY <1>0, <2>2
  <2> HIDE DEF Unheard
  <2>4. UNCHANGED <<pendingATCommandParse, timer, reads>>
    <3>1. CASE UNCHANGED seqVars
      BY <3>1 DEF seqVars
    <3>2. CASE TransferDone
      <4>1. ~M!Receive
        BY <2>3 DEF M!Receive
      <4>2. QED
        BY <3>2, <4>1 DEF TransferDone, Reported, Unreported, M!ReadComplete, M!WriteComplete,
           M!Transmit
    <3>3. CASE Detach
      BY <2>3, <3>3 DEF Detach, AbortsReported
    <3>4. CASE Elsewhere
      <4>1. ~M!TimerTick
        BY <2>3 DEF M!TimerTick
      <4>2. QED
        BY <3>4, <4>1 DEF Elsewhere, M!Replies, M!Boot, M!Answer, M!AskBody, M!BodyStored,
           M!PostDone, M!Unsolicited, M!flagVars, M!usbVars
    <3>5. QED
      BY <1>2, <3>1, <3>2, <3>3, <3>4, OnlySequencer
  <2>5. QED
    BY <2>1, <2>3, <2>4
<1>3. QED
  BY <1>1, <1>2

\* What a detach left to be parsed is parsed before there is a pipe again.
LEMMA StaleStep ==
  WaitInv /\ UP!UsbIInv /\ M!TypeOK /\ CallInv /\ StaleParse /\ [Next]_vars => StaleParse'
<1> DEFINE Stale ==
      \/ NoPipesYet /\ (pc = "timer" => host = "absent")
      \/ pc \in {"clear", "unpend"}
      \/ state \in {"READY", "ERROR", "HTTPS_INIT", "REQUEST_GPS_INFO"}
<1>0. StaleParse' <=> (HandlerDropped' /\ pendingATCommandParse' => Stale')
  BY DEF StaleParse
<1> SUFFICES ASSUME WaitInv, UP!UsbIInv, M!TypeOK, CallInv, StaleParse, [Next]_vars,
                    HandlerDropped', pendingATCommandParse'
             PROVE  Stale'
  BY <1>0
<1>1. CASE Detach
  <2>1. host' = "absent" /\ pipes' = {}
    <3>1. host \in U!Owned => pipes' = {}
      BY <1>1 DEF Detach, U!Detach, U!DeviceRelease, U!ClosePipes
    <3>2. host \notin U!Owned => pipes' = pipes /\ pipes = {}
      BY <1>1, NothingMoves DEF Detach, U!Detach, U!drvVars, U!Owned, UP!Owned
    <3>3. QED
      BY <1>1, <3>1, <3>2 DEF Detach, U!Detach
  <2>2. QED
    BY <2>1 DEF NoPipesYet
<1>2. CASE SequencerCall
  <2>1. HandlerDropped /\ ~M!AttachHandler
    <3>1. ~M!AttachHandler
      <4>1. M!AttachHandler => state = "WAITING_DRIVER_READY" /\ state' = "NOT_READY"
        BY DEF M!AttachHandler
      <4>2. handler' # TRUE
        BY DEF HandlerDropped
      <4>3. M!AttachHandler => U!EventHandlerSet
        BY <1>2, <4>1, NoCall, DriverCalled DEF SequencerCall
      <4>4. QED
        BY <4>2, <4>3 DEF U!EventHandlerSet
    <3>2. state # "WAITING_DRIVER_READY"
      BY <1>2, <3>1, NoCall, DriverCalled DEF SequencerCall, HandlerDropped
    <3>3. handler' = handler
      BY <1>2, <3>2, HandlerStays, SequencerUsb DEF UP!Owned
    <3>4. ~handler
      BY <3>3, Zenon DEF HandlerDropped
    <3>5. QED
      BY <3>1, <3>2, <3>4 DEF HandlerDropped
  <2>2. UNCHANGED <<host, pipes>> /\ turn = "simcom"
        /\ turn' = IF pc' = "write" THEN "host" ELSE "simcom"
    BY <1>2, SequencerUsb DEF SequencerCall
  <2>3. state # "WAITING_DRIVER_READY"
    BY <2>1 DEF HandlerDropped
  <2>4. pc = "timer" => state = "NOT_READY"
    BY DEF CallInv
  <2>0. pendingATCommandParse' # FALSE /\ pendingATCommandParse \in BOOLEAN
    BY DEF M!TypeOK
  <2>5. pendingATCommandParse \/ (state = "REQUEST_GPS_INFO" /\ state' = state)
    BY <1>2, <2>0, <2>1, SequencerMoves
  <2>6. pendingATCommandParse => Stale
    BY <2>1 DEF StaleParse
  <2>7. CASE NoPipesYet /\ (pc = "timer" => host = "absent")
    <3>1. CASE pc' # "write"
      BY <1>2, <2>1, <2>2, <2>7, <3>1, SequencerMoves DEF NoPipesYet
    <3>2. CASE pc' = "write"
      BY <1>2, <2>1, <2>2, <2>3, <2>7, <3>2, SequencerMoves DEF NoPipesYet
    <3>3. QED
      BY <3>1, <3>2
  <2>8. CASE pc \in {"clear", "unpend"}
    BY <1>2, <2>0, <2>1, <2>8, SequencerMoves
  <2>9. CASE state \in {"READY", "ERROR", "HTTPS_INIT", "REQUEST_GPS_INFO"}
    BY <1>2, <2>1, <2>4, <2>9, SequencerMoves
  <2>10. QED
    BY <2>5, <2>6, <2>7, <2>8, <2>9
<1>3. CASE ~SequencerCall /\ ~Detach
  <2>1. state' = state /\ pc' = pc
    BY <1>3, OnlySequencer
  <2>2. handler' = handler
    BY <1>3, <2>1, HandlerStays
  <2>3. HandlerDropped
    BY <2>1, <2>2, Zenon DEF HandlerDropped
  <2>4. pendingATCommandParse
    BY <1>3, <2>3, OnlySequencer DEF HandlerDropped, TransferDone, Reported, Unreported, M!Transmit,
       seqVars, Elsewhere, M!TimerTick, M!Replies, M!Boot, M!Answer, M!AskBody, M!BodyStored,
       M!PostDone, M!Unsolicited, M!flagVars
  <2>5. Stale
    BY <2>3, <2>4 DEF StaleParse
  <2>6. CASE pc \in {"clear", "unpend"} \/ state \in {"READY", "ERROR", "HTTPS_INIT", "REQUEST_GPS_INFO"}
    BY <2>1, <2>6
  <2>7. CASE NoPipesYet /\ (pc = "timer" => host = "absent")
    <3>1. CASE HostCall
      <4>1. pc = "write"
        BY <3>1 DEF HostCall, CallInv
      <4>2. NoPipesYet'
        BY <2>7, <3>1, HostMoves DEF NoPipesYet, UP!Owned
      <4>3. QED
        BY <2>1, <4>1, <4>2
    <3>2. CASE HostWaits
      BY <2>1, <2>7, <3>2 DEF HostWaits, CallInv, NoPipesYet, usbVars
    <3>3. CASE ~HostCall /\ ~HostWaits
      <4>1. UNCHANGED <<host, pipes, tasks, turn>>
        BY <1>3, <3>3 DEF Next, TransferDone, Elsewhere, Alone, vars, usbVars, U!TransferDone,
           U!hostVars, U!drvVars
      <4>2. QED
        BY <2>1, <2>7, <4>1 DEF NoPipesYet
    <3>4. QED
      BY <3>1, <3>2, <3>3
  <2>8. QED
    BY <2>5, <2>6, <2>7
<1>4. QED
  BY <1>1, <1>2, <1>3

-----------------------------------------------------------------------------
(***************************************************************************)
(* The command stays at one place.                                         *)
(***************************************************************************)

\* What holds the next command back goes on doing so.
LEMMA HeldStays ==
  ASSUME WaitInv, [Next]_vars, M!TypeOK, Held,
         pendingResponse' = pendingResponse \/ pendingResponse' = TRUE
  PROVE  Held'
<1>1. CASE pendingResponse
  <2>1. pendingResponse'
    BY <1>1, Zenon
  <2>2. QED
    BY <2>1 DEF Held
<1>2. CASE HandlerDropped /\ WriteSpent
  BY <1>2, DropIsForGood DEF Held
<1>3. QED
  BY <1>1, <1>2 DEF Held

\* A state that sends nothing has no command anywhere.
LEMMA QuietState ==
  ASSUME M!TypeOK, SessionInv, PromptInv, state \notin CommandStates
  PROVE  writes = <<>> /\ modem = "idle" /\ NoFinal /\ (HandlerDropped \/ NoPrompt)
<1>1. state \notin M!Sendable \cup {"none"}
  BY SameStates DEF M!TypeOK, M!Sendable, States, ListenStates
<1>2. modem = "idle"
  BY <1>1 DEF M!TypeOK, SessionInv
<1>3. writes = <<>>
  <2>1. writes # <<>> => Head(writes) \in M!Sendable
    BY DEF M!TypeOK
  <2>2. writes # <<>> => Head(writes) = state \/ modem = "input"
    BY DEF SessionInv
  <2>3. QED
    BY <1>1, <1>2, <2>1, <2>2
<1>4. NoFinal
  <2>1. \A i \in M!Unread : out[i] \in M!Lines
    BY DEF M!TypeOK, M!Unread
  <2>2. buffRecv.of \in M!Sendable \cup {"none"}
    BY DEF M!TypeOK, M!Lines
  <2>3. \A i \in M!Unread : out[i].of \in M!Sendable \cup {"none"}
    BY <2>1 DEF M!Lines
  <2>4. QED
    BY <1>1, <2>2, <2>3 DEF SessionInv, NoFinal
<1>5. HandlerDropped \/ NoPrompt
  BY <1>2 DEF PromptInv
<1>6. QED
  BY <1>2, <1>3, <1>4, <1>5

\* With no command anywhere the invariant holds whatever the state.
LEMMA IdleSession ==
  writes = <<>> /\ modem = "idle" /\ NoFinal /\ (HandlerDropped \/ NoPrompt)
    => SessionInv /\ PromptInv
BY DEF SessionInv, PromptInv, NoFinal, NoPrompt

\* Forgetting what is in the buffer keeps the invariant.
LEMMA ForgetBuffer ==
  ASSUME SessionInv, PromptInv, Held => Held', HandlerDropped => HandlerDropped',
         state' = state, writes' = writes, modem' = modem, cmd' = cmd, out' = out,
         ~M!UnparsedFinal', ~UnparsedPrompt'
  PROVE  SessionInv' /\ PromptInv'
<1>1. M!Unread' = M!Unread /\ Prompts' = Prompts
  BY DEF M!Unread, Prompts
<1>2. SessionInv'
  BY <1>1 DEF SessionInv, NoFinal
<1>3. PromptInv'
  BY <1>1 DEF PromptInv, NoPrompt
<1>4. QED
  BY <1>2, <1>3

\* Changing nothing of the command keeps it too.
LEMMA SameSession ==
  ASSUME SessionInv, PromptInv, Held => Held', HandlerDropped => HandlerDropped',
         state' = state, writes' = writes, modem' = modem, cmd' = cmd, out' = out,
         fresh' = fresh, buffRecv' = buffRecv
  PROVE  SessionInv' /\ PromptInv'
<1>1. /\ M!Unread' = M!Unread /\ Prompts' = Prompts
      /\ M!UnparsedFinal' = M!UnparsedFinal /\ UnparsedPrompt' = UnparsedPrompt
  BY DEF M!Unread, Prompts, M!UnparsedFinal, UnparsedPrompt
<1>2. SessionInv'
  BY <1>1 DEF SessionInv, NoFinal
<1>3. PromptInv'
  BY <1>1 DEF PromptInv, NoPrompt
<1>4. QED
  BY <1>2, <1>3

\* The statements of simcom_tasks keep the one-command invariant.
LEMMA SequencerSession ==
  ASSUME WaitInv, UP!UsbIInv, M!TypeOK, WritePipe, CallInv, BufferInv, StaleParse,
         SessionInv, PromptInv, ~halted, SequencerCall
  PROVE  SessionInv' /\ PromptInv'
<1> USE DEF M!flagVars, M!usbVars, M!modemVars, M!boundVars, M!histVars
<1>0. [Next]_vars
  BY DEF Next
<1>d. HandlerDropped => HandlerDropped'
  BY <1>0, DropIsForGood
<1>h. pendingResponse' = pendingResponse => (Held => Held')
  BY <1>0, HeldStays
<1>1. CASE M!WriteNotSent \/ M!NothingToWrite \/ M!WriteAccepted \/ M!PostRead \/ M!ReadNotPosted
           \/ M!NothingToRead \/ M!ReadAccepted \/ M!NothingToParse \/ M!BodyAccepted
           \/ M!ParseDone \/ NothingToDo
  <2>1. UNCHANGED <<state, writes, modem, cmd, pendingResponse, out, fresh, buffRecv>>
    BY <1>1 DEF M!WriteNotSent, M!NothingToWrite, M!WriteAccepted, M!PostRead, M!ReadNotPosted,
       M!NothingToRead, M!ReadAccepted, M!NothingToParse, M!BodyAccepted, M!ParseDone,
       NothingToDo, seqVars
  <2>2. QED
    BY <1>d, <1>h, <2>1, SameSession
<1>2. CASE M!ParseAtReady \/ M!ParseOther \/ M!ClearBuffer \/ M!DropBody
  <2>1. UNCHANGED <<state, writes, modem, cmd, pendingResponse, out>> /\ fresh' = FALSE
    BY <1>2 DEF M!ParseAtReady, M!ParseOther, M!ClearBuffer, M!DropBody, M!HearsDownload, M!Parsing
  <2>2. ~M!UnparsedFinal' /\ ~UnparsedPrompt'
    BY <2>1 DEF M!UnparsedFinal, UnparsedPrompt
  <2>3. QED
    BY <1>d, <1>h, <2>1, <2>2, ForgetBuffer
<1>3. CASE M!ComposePosition
  <2>1. UNCHANGED <<state, writes, modem, cmd, pendingResponse, out>> /\ buffRecv'.kind = "GPSINFO"
    BY <1>3 DEF M!ComposePosition, M!Line
  <2>2. ~M!UnparsedFinal' /\ ~UnparsedPrompt'
    BY <2>1 DEF M!UnparsedFinal, M!Final, UnparsedPrompt
  <2>3. QED
    BY <1>d, <1>h, <2>1, <2>2, ForgetBuffer
<1>4. CASE M!AttachHandler \/ M!ParsePosition \/ M!ListenTimer \/ M!RestOver
  <2>1. state \notin CommandStates
    <3>1. state \in {"WAITING_DRIVER_READY", "NOT_READY", "REQUEST_GPS_INFO", "READY"}
      BY <1>4 DEF M!AttachHandler, M!ParsePosition, M!RestOver, M!ListenTimer, CallInv
    <3>2. QED
      BY <3>1 DEF CommandStates
  <2>2. UNCHANGED <<writes, modem, cmd, pendingResponse, out>>
    BY <1>4 DEF M!AttachHandler, M!ParsePosition, M!RestOver, M!ListenTimer
  <2>3. (fresh' = fresh /\ buffRecv' = buffRecv) \/ fresh' = FALSE \/ buffRecv' = M!Empty
    BY <1>4 DEF M!AttachHandler, M!ParsePosition, M!RestOver, M!ListenTimer, M!Parsing
  <2>4. \/ M!UnparsedFinal' = M!UnparsedFinal /\ UnparsedPrompt' = UnparsedPrompt
        \/ ~M!UnparsedFinal' /\ ~UnparsedPrompt'
    BY <2>3 DEF M!UnparsedFinal, UnparsedPrompt, M!Final, M!Empty, M!Line
  <2>5. M!Unread' = M!Unread /\ Prompts' = Prompts
    BY <2>2 DEF M!Unread, Prompts
  <2>6. writes = <<>> /\ modem = "idle" /\ NoFinal /\ (HandlerDropped \/ NoPrompt)
    BY <2>1, QuietState
  <2>7. writes' = <<>> /\ modem' = "idle" /\ NoFinal' /\ (HandlerDropped' \/ NoPrompt')
    BY <1>d, <2>2, <2>4, <2>5, <2>6 DEF NoFinal, NoPrompt
  <2>8. QED
    BY <2>7 DEF SessionInv, PromptInv, NoFinal, NoPrompt
<1>5. CASE M!ParseAnswer \/ M!ParseError
  <2>1. /\ pc = "parse" /\ state \in AnswerableStates /\ fresh' = FALSE
        /\ M!WellFormed(buffRecv) /\ buffRecv.kind \in {Awaited(state), "ERROR"}
        /\ UNCHANGED <<writes, modem, cmd, out>>
    BY <1>5, SameStates DEF M!ParseAnswer, M!ParseError, M!Parsing, M!Answerable, M!Hears
  <2>2. writes = <<>> /\ modem = "idle" /\ M!Unread = {} /\ (HandlerDropped \/ Prompts = {})
    <3>1. CASE state \in CommandStates
      <4>1. fresh
        BY <2>1 DEF BufferInv, M!WellFormed, M!Empty, M!Line
      <4>2. M!Final(buffRecv)
        BY <2>1, <3>1 DEF M!Final, Awaited, CommandStates
      <4>3. M!UnparsedFinal
        BY <4>1, <4>2 DEF M!UnparsedFinal
      <4>4. writes = <<>> /\ modem = "idle" /\ M!Unread = {}
        BY <4>3 DEF SessionInv, NoFinal, M!TypeOK
      <4>5. QED
        BY <4>4 DEF PromptInv, NoPrompt
    <3>2. CASE state \notin CommandStates
      BY <3>2, QuietState DEF NoFinal, NoPrompt
    <3>3. QED
      BY <3>1, <3>2
  <2>3. /\ writes' = <<>> /\ modem' = "idle" /\ M!Unread' = {}
        /\ HandlerDropped' \/ Prompts' = {}
    BY <1>d, <2>1, <2>2 DEF M!Unread, Prompts
  <2>4. ~M!UnparsedFinal' /\ ~UnparsedPrompt'
    BY <2>1 DEF M!UnparsedFinal, UnparsedPrompt
  <2>5. QED
    BY <2>3, <2>4 DEF SessionInv, PromptInv, NoFinal, NoPrompt
<1>6. CASE M!WriteCommand
  <2>1. /\ pc = "write" /\ ATwrite /\ ~pendingResponse
        /\ writes' = Append(writes, state)
        /\ UNCHANGED <<state, modem, cmd, out, fresh, buffRecv>>
    BY <1>6 DEF M!WriteCommand, M!MayWrite
  <2>2. writes = <<>> /\ ~Held
    BY <2>1 DEF WritePipe, WriteSpent, Held
  <2>3. NoFinal /\ modem = "idle" /\ (HandlerDropped \/ NoPrompt)
    BY <2>2 DEF SessionInv, PromptInv
  <2>4. writes' # <<>> /\ Head(writes') = state'
    BY <2>1, <2>2
  <2>5. NoFinal' /\ (HandlerDropped' \/ NoPrompt') /\ modem' = "idle"
    BY <1>d, <2>1, <2>3 DEF NoFinal, NoPrompt, M!Unread, Prompts, M!UnparsedFinal, UnparsedPrompt
  <2>6. QED
    BY <2>4, <2>5 DEF SessionInv, PromptInv, NoFinal, NoPrompt
<1>7. CASE M!SendBody /\ U!AT_Write
  <2>1. /\ pc = "parse" /\ pendingATCommandParse /\ fresh' = FALSE /\ M!Hears("DOWNLOAD")
        /\ state = "HTTP_POST_DATA"
        /\ writes' = Append(writes, "BODY")
        /\ UNCHANGED <<state, modem, cmd, pendingResponse, out>>
    BY <1>7 DEF M!SendBody, M!HearsDownload, M!Parsing
  <2>2. ~HandlerDropped
    <3>1. pipes # {}
      BY <1>7 DEF U!AT_Write, U!Accepts
    <3>2. QED
      BY <2>1, <3>1 DEF StaleParse, NoPipesYet
  <2>3. UnparsedPrompt
    BY <2>1 DEF UnparsedPrompt, BufferInv, M!Hears, M!WellFormed, M!Empty, M!Line
  <2>4. writes = <<>> /\ modem = "input" /\ Prompts = {}
    BY <2>2, <2>3 DEF PromptInv, NoPrompt
  <2>5. M!Unread = {} /\ Held /\ cmd = state /\ cmd = "HTTP_POST_DATA"
    BY <2>4 DEF SessionInv, NoFinal
  <2>6. writes' = <<"BODY">> /\ modem' = "input" /\ M!Unread' = {} /\ Prompts' = {} /\ Held'
    BY <1>h, <2>1, <2>4, <2>5 DEF M!Unread, Prompts
  <2>7. writes' # <<>> /\ Head(writes') = "BODY" /\ ~M!UnparsedFinal' /\ ~UnparsedPrompt'
    BY <2>1, <2>6 DEF M!UnparsedFinal, UnparsedPrompt
  <2>8. QED
    BY <2>1, <2>5, <2>6, <2>7 DEF SessionInv, PromptInv, NoFinal, NoPrompt
<1>8. QED
  BY <1>1, <1>2, <1>3, <1>4, <1>5, <1>6, <1>7
     DEF SequencerCall, CallsDriver, Refused, Local

\* The end of a transfer, reported or not, keeps it.
LEMMA TransferSession ==
  ASSUME WaitInv, M!TypeOK, WritePipe, SessionInv, PromptInv, ~halted, TransferDone
  PROVE  SessionInv' /\ PromptInv'
<1>0. [Next]_vars
  BY DEF Next
<1>d. HandlerDropped => HandlerDropped'
  BY <1>0, DropIsForGood
<1>1. CASE M!Receive
  <2>1. /\ out # <<>> /\ out' \in {<<>>, Tail(out)} /\ fresh' = TRUE
        /\ UNCHANGED <<state, writes, modem, cmd, pendingResponse>>
    BY <1>1 DEF M!Receive
  <2>2. out \in Seq(M!Lines) /\ Head(out) = out[1] /\ 1 \in DOMAIN out
    BY <2>1 DEF M!TypeOK
  <2>3. buffRecv' = out[1] \/ buffRecv'.kind \in {"OTHER", "GARBLED"}
    BY <1>1, ReceiveLines
  <2>4. \A i \in DOMAIN out' : i + 1 \in DOMAIN out /\ i + 1 # 1 /\ out'[i] = out[i + 1]
    BY <2>1, <2>2
  <2>5. \A i \in M!Unread' : i + 1 \in M!Unread /\ i + 1 # 1
    BY <2>4 DEF M!Unread
  <2>6. \A i \in Prompts' : i + 1 \in Prompts /\ i + 1 # 1
    BY <2>4 DEF Prompts
  <2>7. M!UnparsedFinal' => 1 \in M!Unread /\ buffRecv' = out[1]
    BY <2>2, <2>3 DEF M!UnparsedFinal, M!Unread, M!Final
  <2>8. UnparsedPrompt' => 1 \in Prompts
    BY <2>2, <2>3 DEF UnparsedPrompt, Prompts
  <2>9. (NoFinal => NoFinal') /\ (NoPrompt => NoPrompt')
    BY <2>5, <2>6, <2>7, <2>8 DEF NoFinal, NoPrompt
  <2>10. \A i \in M!Unread' : M!Unread' = {i} /\ out'[i].of = state' /\ ~M!UnparsedFinal'
    <3> SUFFICES ASSUME NEW i \in M!Unread'
                    PROVE  M!Unread' = {i} /\ out'[i].of = state' /\ ~M!UnparsedFinal'
      OBVIOUS
    <3>1. i + 1 \in M!Unread /\ i + 1 # 1 /\ i \in DOMAIN out' /\ i \in Nat
      BY <2>1, <2>2, <2>5 DEF M!Unread
    <3>2. M!Unread = {i + 1} /\ out[i + 1].of = state
      BY <3>1 DEF SessionInv
    <3>3. \A j \in M!Unread' : j \in Nat /\ j + 1 \in {i + 1}
      BY <2>1, <2>2, <2>5, <3>2 DEF M!Unread
    <3>4. M!Unread' = {i}
      BY <3>1, <3>3
    <3>5. QED
      BY <2>1, <2>4, <2>7, <3>1, <3>2, <3>4
  <2>11. M!UnparsedFinal' => buffRecv'.of = state'
    BY <2>1, <2>7 DEF SessionInv
  <2>12. ASSUME ~HandlerDropped
         PROVE  \A i \in Prompts' : Prompts' = {i} /\ ~UnparsedPrompt'
    <3> SUFFICES ASSUME NEW i \in Prompts' PROVE Prompts' = {i} /\ ~UnparsedPrompt'
      OBVIOUS
    <3>1. i + 1 \in Prompts /\ i + 1 # 1 /\ i \in Nat
      BY <2>1, <2>2, <2>6 DEF Prompts
    <3>2. Prompts = {i + 1}
      BY <2>12, <3>1 DEF PromptInv
    <3>3. \A j \in Prompts' : j \in Nat /\ j + 1 \in {i + 1}
      BY <2>1, <2>2, <2>6, <3>2 DEF Prompts
    <3>4. \A j \in Prompts' : j = i
      BY <3>1, <3>3
    <3>5. ~UnparsedPrompt'
      BY <2>8, <3>1, <3>2
    <3>6. QED
      BY <3>4, <3>5
  <2>13. Held => Held'
    BY <1>0, <2>1, HeldStays
  <2>14. SessionInv'
    BY <2>1, <2>9, <2>10, <2>11, <2>13 DEF SessionInv
  <2>15. PromptInv'
    BY <1>d, <2>1, <2>9, <2>12 DEF PromptInv
  <2>16. QED
    BY <2>14, <2>15
<1>2. CASE M!Transmit
  <2>1. /\ writes # <<>> /\ writes' = Tail(writes)
        /\ state' = state /\ out' = out /\ fresh' = fresh /\ buffRecv' = buffRecv
        /\ M!Deliver(Head(writes))
    BY <1>2 DEF M!Transmit
  <2>2. writes' = <<>>
    BY <2>1 DEF WritePipe, M!TypeOK
  <2>3. /\ M!Unread' = M!Unread /\ Prompts' = Prompts
        /\ M!UnparsedFinal' = M!UnparsedFinal /\ UnparsedPrompt' = UnparsedPrompt
    BY <2>1 DEF M!Unread, Prompts, M!UnparsedFinal, UnparsedPrompt
  <2>4. /\ M!Unread = {} /\ ~M!UnparsedFinal
        /\ (Head(writes) = state /\ modem = "idle") \/ (Head(writes) = "BODY" /\ modem = "input")
        /\ HandlerDropped \/ NoPrompt
    BY <2>1 DEF SessionInv, PromptInv, NoFinal
  <2>5. /\ modem' # "idle" => cmd' = state
        /\ modem' \in {"input", "stored"} => cmd' = "HTTP_POST_DATA"
    BY <2>1, <2>4 DEF SessionInv, M!Deliver
  <2>6. Held'
    <3>1. CASE Reported
      <4>1. pendingResponse' = TRUE
        <5>1. ~M!Receive
          BY <2>1, <2>2 DEF M!Receive
        <5>2. QED
          BY <3>1, <5>1 DEF Reported, M!ReadComplete, M!WriteComplete
      <4>2. QED
        BY <4>1 DEF Held
    <3>2. CASE Unreported
      <4>1. state # "WAITING_DRIVER_READY"
        <5>1. "WAITING_DRIVER_READY" \notin CommandStates
          BY DEF CommandStates
        <5>2. QED
          BY <2>1, <5>1, QuietState
      <4>2. HandlerDropped /\ WriteSpent
        BY <2>1, <3>2, <4>1 DEF Unreported, HandlerDropped, WritePipe
      <4>3. QED
        BY <1>0, <4>2, DropIsForGood DEF Held
    <3>3. QED
      BY <3>1, <3>2 DEF TransferDone
  <2>7. SessionInv'
    BY <2>1, <2>2, <2>3, <2>4, <2>5, <2>6 DEF SessionInv, NoFinal
  <2>8. PromptInv'
    BY <1>d, <2>2, <2>3, <2>4 DEF PromptInv, NoPrompt
  <2>9. QED
    BY <2>7, <2>8
<1>3. QED
  BY <1>1, <1>2 DEF TransferDone, Reported, Unreported, M!ReadComplete, M!WriteComplete

\* A detach ends the transfers, and the modem forgets what it was doing or does not.
LEMMA DetachSession ==
  ASSUME WaitInv, UP!UsbIInv, M!TypeOK, UnheardInv, SessionInv, PromptInv, ~halted, Detach
  PROVE  SessionInv' /\ PromptInv'
<1>0. [Next]_vars
  BY DEF Next
<1>1. writes' = <<>>
  <2>1. CASE host \in UP!Owned
    BY <2>1 DEF Detach, AbortsReported, U!Owned, UP!Owned
  <2>2. CASE host \notin UP!Owned
    BY <2>2, NothingMoves DEF Detach, U!Owned, UP!Owned
  <2>3. QED
    BY <2>1, <2>2
<1>2. state' = state /\ fresh' = fresh /\ buffRecv' = buffRecv
  BY DEF Detach
<1>3. /\ M!UnparsedFinal' = M!UnparsedFinal /\ UnparsedPrompt' = UnparsedPrompt
  BY <1>2 DEF M!UnparsedFinal, UnparsedPrompt
<1>4. Held => Held'
  BY <1>0, HeldStays DEF Detach, AbortsReported
<1>5. HandlerDropped' \/ (NoPrompt /\ modem = "idle")
  <2> SUFFICES ASSUME ~HandlerDropped' PROVE NoPrompt /\ modem = "idle"
    OBVIOUS
  <2>1. ~HandlerDropped
    BY <1>0, DropIsForGood
  <2>2. state \in {"WAITING_DRIVER_READY", "NOT_READY"}
    <3>1. CASE state # "WAITING_DRIVER_READY"
      <4>1. handler'
        BY <1>2, <3>1 DEF HandlerDropped
      <4>2. host \notin UP!Owned /\ handler' = handler
        BY <4>1 DEF Detach, U!Detach, U!DeviceRelease, U!Owned, UP!Owned
      <4>3. handler
        BY <4>1, <4>2, Zenon
      <4>4. QED
        BY <4>2, <4>3 DEF UnheardInv
    <3>2. QED
      BY <3>1
  <2>3. state \notin CommandStates
    BY <2>2 DEF CommandStates
  <2>4. QED
    BY <2>1, <2>3, QuietState
<1>6. CASE ModemRestarts
  <2>1. modem' = "idle" /\ M!Unread' = {} /\ Prompts' = {}
    BY <1>6 DEF ModemRestarts, M!Unread, Prompts
  <2>2. SessionInv'
    BY <1>1, <1>2, <1>3, <1>4, <2>1 DEF SessionInv, NoFinal
  <2>3. PromptInv'
    BY <1>1, <1>3, <1>5, <2>1 DEF PromptInv, NoPrompt
  <2>4. QED
    BY <2>2, <2>3
<1>7. CASE ModemStays
  <2>1. modem' = modem /\ cmd' = cmd /\ out' = out
    BY <1>7 DEF ModemStays
  <2>2. M!Unread' = M!Unread /\ Prompts' = Prompts
    BY <2>1 DEF M!Unread, Prompts
  <2>3. SessionInv'
    BY <1>1, <1>2, <1>3, <1>4, <2>1, <2>2 DEF SessionInv, NoFinal
  <2>4. PromptInv'
    BY <1>1, <1>3, <1>5, <2>2 DEF PromptInv, NoPrompt
  <2>5. QED
    BY <2>3, <2>4
<1>8. QED
  BY <1>6, <1>7 DEF Detach

\* A modem that says something no state takes for an answer or a prompt.
LEMMA OtherLine ==
  ASSUME M!TypeOK, SessionInv, PromptInv, Held => Held', HandlerDropped => HandlerDropped',
         NEW k \in M!Kinds \ {"OK", "ERROR", "HTTPREAD", "DOWNLOAD"},
         NEW c \in M!Sendable \cup {"none"}, M!Says(<<M!Line(k, c)>>),
         state' = state, writes' = writes, modem' = modem, cmd' = cmd,
         fresh' = fresh, buffRecv' = buffRecv
  PROVE  SessionInv' /\ PromptInv'
<1>1. /\ DOMAIN out' = 1 .. Len(out) + 1 /\ DOMAIN out = 1 .. Len(out) /\ Len(out) \in Nat
      /\ \A i \in DOMAIN out : out'[i] = out[i]
      /\ out'[Len(out) + 1].kind = k
  <2>1. MP!TypeOK /\ k \in MP!Kinds /\ c \in MP!Sendable \cup {"none"} /\ MP!Says(<<MP!Line(k, c)>>)
    BY SameLines, SameSequencer
  <2>2. QED
    BY <2>1, MP!SaysOne DEF M!TypeOK
<1>2. M!Unread' = M!Unread
  BY <1>1 DEF M!Unread, M!Final
<1>3. Prompts' = Prompts
  BY <1>1 DEF Prompts
<1>4. M!UnparsedFinal' = M!UnparsedFinal /\ UnparsedPrompt' = UnparsedPrompt
  BY DEF M!UnparsedFinal, UnparsedPrompt
<1>5. \A i \in M!Unread : out'[i] = out[i]
  BY <1>1 DEF M!Unread
<1>6. SessionInv'
  BY <1>2, <1>4, <1>5 DEF SessionInv, NoFinal
<1>7. PromptInv'
  BY <1>3, <1>4 DEF PromptInv, NoPrompt
<1>8. QED
  BY <1>6, <1>7

\* The timer and the modem keep it.
LEMMA ElsewhereSession ==
  ASSUME WaitInv, M!TypeOK, SessionInv, PromptInv, ~halted, Elsewhere
  PROVE  SessionInv' /\ PromptInv'
<1> USE DEF M!flagVars, M!usbVars, M!modemVars, M!boundVars, M!histVars
<1>0. [Next]_vars
  BY DEF Next
<1>d. HandlerDropped => HandlerDropped'
  BY <1>0, DropIsForGood
<1>h. pendingResponse' = pendingResponse => (Held => Held')
  BY <1>0, HeldStays
<1>1. CASE M!TimerTick
  <2>1. UNCHANGED <<state, writes, modem, cmd, pendingResponse, out, fresh, buffRecv>>
    BY <1>1 DEF M!TimerTick
  <2>2. QED
    BY <1>d, <1>h, <2>1, SameSession
<1>2. CASE M!Boot \/ M!PostDone \/ M!Unsolicited
  <2>1. UNCHANGED <<state, writes, modem, cmd, pendingResponse, fresh, buffRecv>>
    BY <1>2 DEF M!Boot, M!PostDone, M!Unsolicited
  <2>2. \E k \in M!Kinds \ {"OK", "ERROR", "HTTPREAD", "DOWNLOAD"}, c \in M!Sendable \cup {"none"} :
          M!Says(<<M!Line(k, c)>>)
    BY <1>2 DEF M!Boot, M!PostDone, M!Unsolicited, M!Kinds
  <2>3. QED
    BY <1>d, <1>h, <2>1, <2>2, OtherLine
<1>3. CASE M!Answer
  <2>1. /\ modem = "exec" /\ modem' = "idle"
        /\ UNCHANGED <<state, writes, cmd, pendingResponse, fresh, buffRecv>>
    BY <1>3 DEF M!Answer
  <2>2. /\ cmd = state /\ Held /\ M!Unread = {} /\ ~M!UnparsedFinal /\ writes = <<>>
        /\ HandlerDropped \/ NoPrompt
    BY <2>1 DEF SessionInv, PromptInv, NoFinal
  <2>3. PICK k \in {MP!Awaited(cmd), "ERROR"}, n \in {1, 2} :
          /\ DOMAIN out' = 1 .. Len(out) + n
          /\ \A i \in DOMAIN out : out'[i] = out[i]
          /\ out'[Len(out) + n].kind = k /\ out'[Len(out) + n].of = cmd
          /\ n = 2 => out'[Len(out) + 1].kind = "OTHER"
    BY <1>3, SameSequencer, MP!SaysAnswer
  <2>4. DOMAIN out = 1 .. Len(out) /\ Len(out) \in Nat
    BY DEF M!TypeOK
  <2>5. \A i \in M!Unread' : i = Len(out) + n
    BY <2>2, <2>3, <2>4 DEF M!Unread, M!Final
  <2>6. Prompts = {} => Prompts' = {}
    <3>1. k # "DOWNLOAD"
      BY DEF MP!Awaited
    <3>2. QED
      BY <2>3, <2>4, <3>1 DEF Prompts
  <2>7. ~M!UnparsedFinal' /\ UnparsedPrompt' = UnparsedPrompt
    BY <2>1, <2>2 DEF M!UnparsedFinal, UnparsedPrompt
  <2>8. SessionInv'
    BY <1>h, <2>1, <2>2, <2>3, <2>5, <2>7 DEF SessionInv, NoFinal
  <2>9. PromptInv'
    BY <1>d, <2>1, <2>2, <2>6, <2>7 DEF PromptInv, NoPrompt
  <2>10. QED
    BY <2>8, <2>9
<1>4. CASE M!AskBody
  <2>1. /\ modem = "exec" /\ modem' = "input" /\ cmd = "HTTP_POST_DATA"
        /\ M!Says(<<M!Line("DOWNLOAD", cmd)>>)
        /\ UNCHANGED <<state, writes, cmd, pendingResponse, fresh, buffRecv>>
    BY <1>4 DEF M!AskBody
  <2>2. /\ cmd = state /\ Held /\ M!Unread = {} /\ ~M!UnparsedFinal /\ writes = <<>>
        /\ HandlerDropped \/ NoPrompt
    BY <2>1 DEF SessionInv, PromptInv, NoFinal
  <2>3. /\ DOMAIN out' = 1 .. Len(out) + 1 /\ DOMAIN out = 1 .. Len(out) /\ Len(out) \in Nat
        /\ \A i \in DOMAIN out : out'[i] = out[i]
        /\ out'[Len(out) + 1].kind = "DOWNLOAD"
    <3>1. MP!TypeOK /\ MP!Says(<<MP!Line("DOWNLOAD", cmd)>>)
      BY <2>1, SameLines, SameSequencer
    <3>2. "DOWNLOAD" \in MP!Kinds /\ cmd \in MP!Sendable \cup {"none"}
      BY <3>1 DEF MP!TypeOK, MP!Kinds
    <3>3. QED
      BY <3>1, <3>2, MP!SaysOne DEF M!TypeOK
  <2>4. M!Unread' = {}
    BY <2>2, <2>3 DEF M!Unread, M!Final
  <2>5. Prompts = {} => Prompts' = {Len(out) + 1}
    BY <2>3 DEF Prompts
  <2>6. ~M!UnparsedFinal' /\ UnparsedPrompt' = UnparsedPrompt
    BY <2>1, <2>2 DEF M!UnparsedFinal, UnparsedPrompt
  <2>7. SessionInv'
    BY <1>h, <2>1, <2>2, <2>4, <2>6 DEF SessionInv, NoFinal
  <2>8. PromptInv'
    BY <1>d, <2>1, <2>2, <2>5, <2>6 DEF PromptInv, NoPrompt
  <2>9. QED
    BY <2>7, <2>8
<1>5. CASE M!BodyStored
  <2>1. /\ modem = "stored" /\ modem' = "idle" /\ M!Says(<<M!Line("OK", cmd)>>)
        /\ UNCHANGED <<state, writes, cmd, pendingResponse, fresh, buffRecv>>
    BY <1>5 DEF M!BodyStored
  <2>2. /\ cmd = state /\ Held /\ M!Unread = {} /\ ~M!UnparsedFinal /\ writes = <<>>
        /\ HandlerDropped \/ NoPrompt
    BY <2>1 DEF SessionInv, PromptInv, NoFinal
  <2>3. /\ DOMAIN out' = 1 .. Len(out) + 1 /\ DOMAIN out = 1 .. Len(out) /\ Len(out) \in Nat
        /\ \A i \in DOMAIN out : out'[i] = out[i]
        /\ out'[Len(out) + 1].kind = "OK" /\ out'[Len(out) + 1].of = cmd
    <3>1. MP!TypeOK /\ MP!Says(<<MP!Line("OK", cmd)>>)
      BY <2>1, SameLines, SameSequencer
    <3>2. "OK" \in MP!Kinds /\ cmd \in MP!Sendable \cup {"none"}
      BY <3>1 DEF MP!TypeOK, MP!Kinds
    <3>3. QED
      BY <3>1, <3>2, MP!SaysOne DEF M!TypeOK
  <2>4. M!Unread' = {Len(out) + 1}
    BY <2>2, <2>3 DEF M!Unread, M!Final
  <2>5. Prompts = {} => Prompts' = {}
    BY <2>3 DEF Prompts
  <2>6. ~M!UnparsedFinal' /\ UnparsedPrompt' = UnparsedPrompt
    BY <2>1, <2>2 DEF M!UnparsedFinal, UnparsedPrompt
  <2>7. SessionInv'
    BY <1>h, <2>1, <2>2, <2>3, <2>4, <2>6 DEF SessionInv, NoFinal
  <2>8. PromptInv'
    BY <1>d, <2>1, <2>2, <2>5, <2>6 DEF PromptInv, NoPrompt
  <2>9. QED
    BY <2>7, <2>8
<1>6. QED
  BY <1>1, <1>2, <1>3, <1>4, <1>5 DEF Elsewhere, M!Replies

\* The inductive invariant is inductive, over a driver that keeps its own.
LEMMA InvariantStep == WaitInv /\ UP!UsbIInv /\ IInv /\ [Next]_vars => IInv'
<1> SUFFICES ASSUME WaitInv, UP!UsbIInv, IInv, [Next]_vars PROVE IInv'
  OBVIOUS
<1> USE DEF IInv
<1>1. M!TypeOK' /\ CallInv' /\ LateInv' /\ UnheardInv' /\ StaleParse' /\ BufferInv' /\ WritePipe'
  BY TypeStep, CallStep, LateStep, UnheardStep, StaleStep, BufferStep, WritePipeStep
<1>2. SessionInv' /\ PromptInv'
  <2>1. CASE ~halted /\ SequencerCall
    BY <2>1, SequencerSession
  <2>2. CASE ~halted /\ TransferDone
    BY <2>2, TransferSession
  <2>3. CASE ~halted /\ Detach
    BY <2>3, DetachSession
  <2>4. CASE ~halted /\ Elsewhere
    BY <2>4, ElsewhereSession
  <2>5. CASE UNCHANGED seqVars
    <3>1. pendingResponse' = pendingResponse
      BY <2>5 DEF seqVars
    <3>2. (Held => Held') /\ (HandlerDropped => HandlerDropped')
      BY <3>1, HeldStays, DropIsForGood
    <3>3. QED
      BY <2>5, <3>2, SameSession DEF seqVars
  <2>6. QED
    BY <2>1, <2>2, <2>3, <2>4, <2>5 DEF Next, HostCall, HostWaits, vars
<1>3. QED
  BY <1>1, <1>2

\* The inductive invariant holds in every reachable state.
LEMMA InvariantHolds == Spec => []IInv
<1>1. Init => M!TypeOK
  BY SameStates, SameLines, SameSequencer, MP!InitType DEF Init, M!Init, MP!Init
<1>2. Init => CallInv /\ LateInv /\ UnheardInv /\ StaleParse /\ BufferInv /\ WritePipe
  BY DEF Init, M!Init, U!UsbInit, CallInv, LateInv, UnheardInv, StaleParse, BufferInv, WritePipe,
     HandlerDropped
<1>3. Init => SessionInv /\ PromptInv
  BY DEF Init, M!Init, SessionInv, PromptInv, NoFinal, NoPrompt, M!Unread, Prompts,
     M!UnparsedFinal, UnparsedPrompt
<1>4. Init => IInv
  BY <1>1, <1>2, <1>3 DEF IInv
<1>5. QED
  BY <1>4, InvariantStep, DriverInvariant, PTL DEF Spec

\* A detach does not put question and answer out of step: the command that may
\* still be sent after it is never sent to a modem that owes an answer, nor a
\* body to one that did not ask; and one write and one read are all that is
\* ever started again.  Whenever the modem leaves and however often.
THEOREM DetachEnds == Spec => []DetachEndsTheSession
<1>1. IInv => OneCommandAtATime
  <2> SUFFICES ASSUME IInv PROVE M!OneCommandAtATime
    BY DEF OneCommandAtATime
  <2>1. state # "BODY"
    BY SameStates DEF IInv, M!TypeOK, States, CommandStates, ListenStates
  <2>2. writes # <<>> => modem = IF Head(writes) = "BODY" THEN "input" ELSE "idle"
    BY <2>1 DEF IInv, SessionInv
  <2>3. writes # <<>> \/ modem # "idle" => M!Unread = {} /\ ~M!UnparsedFinal
    BY DEF IInv, SessionInv, NoFinal
  <2>4. \A i \in M!Unread : M!Unread = {i} /\ ~M!UnparsedFinal
    BY DEF IInv, SessionInv
  <2>5. QED
    BY <2>2, <2>3, <2>4 DEF M!OneCommandAtATime
<1>2. IInv => OverAfterDetach
  BY DEF IInv, LateInv, OverAfterDetach
<1>3. QED
  BY <1>1, <1>2, InvariantHolds, PTL DEF DetachEndsTheSession
=============================================================================
