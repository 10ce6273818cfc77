--------------------------- MODULE UsbSimcomProofs ---------------------------
(***************************************************************************)
(* Theorems about UsbSimcom, for any number of attaches, faults and        *)
(* transfers outstanding on a pipe.                                        *)
(***************************************************************************)
EXTENDS UsbSimcom, TLAPS

USE UsbBoundsAssumption

-----------------------------------------------------------------------------
(***************************************************************************)
(* The inductive invariant.  What DeviceTasks has tested is remembered in  *)
(* tasks until it is assigned, and a detach may come in between: so each   *)
(* test is tied to the device only while the driver owns one.              *)
(***************************************************************************)

\* The host layer carries out at most the request the driver waits for.
RequestInv ==
  host = "setting" =>
    /\ ~hostRequestDone
    /\ \/ tasks = "WAIT_FOR_CONFIGURATION_SET"
       \/ tasks = "none" /\ drv = "WAIT_FOR_CONFIGURATION_SET"

\* An answer in hand is the answer of this device.
AnswerInv ==
  (host \in Owned /\ drv = "WAIT_FOR_CONFIGURATION_SET" /\ hostRequestDone /\ hostRequestResult)
    => host = "configured"

\* A test that has been passed still holds when its assignment is made.
PendingInv ==
  host \in Owned =>
    /\ tasks = "WAIT_FOR_CONFIGURATION_SET" => host = "setting"
    /\ tasks = "READY" => host = "configured" /\ pipes = AllPipes

UsbIInv ==
  /\ UsbTypeOK /\ NoStaleHandles /\ ReadyMeansOpen /\ NoStaleAnswer /\ RequestPending
  /\ RequestInv /\ AnswerInv /\ PendingInv

-----------------------------------------------------------------------------
(***************************************************************************)
(* Pipes.                                                                  *)
(***************************************************************************)

\* Every interface has pipes of its own.
LEMMA PipesDisjoint ==
  ASSUME NEW i \in Interfaces, NEW j \in Interfaces, NEW p \in PipesOf(i), p \in PipesOf(j)
  PROVE  i = j
BY DEF PipesOf

\* The two pipes of the AT port.
LEMMA ATpipes == ATin \in PipesOf("AT") /\ ATout \in PipesOf("AT") /\ "AT" \in Interfaces
BY DEF ATin, ATout, PipesOf, Interfaces, Endpoints

\* Offering an interface takes no pipe away: the pipes that are open belong to
\* interfaces offered before.
LEMMA PipesKept ==
  ASSUME UsbTypeOK, NoStaleHandles, NEW i \in Interfaces \ offered, NEW p \in PipesOf(i)
  PROVE  p \notin pipes
<1>1. SUFFICES ASSUME p \in pipes PROVE FALSE
  OBVIOUS
<1>2. PICK j \in offered : p \in PipesOf(j)
  BY <1>1 DEF NoStaleHandles
<1>3. j \in Interfaces
  BY <1>2 DEF UsbTypeOK
<1>4. QED
  BY <1>2, <1>3, PipesDisjoint

\* So the driver loses nothing when an interface is assigned, whatever fails.
LEMMA AssignKeepsPipes ==
  ASSUME UsbTypeOK, NoStaleHandles, InterfaceAssign
  PROVE  /\ pipes \subseteq pipes' /\ pipes' \subseteq AllPipes
         /\ pipes' \subseteq UNION {PipesOf(j) : j \in offered'}
         /\ offered' \subseteq Interfaces /\ usbFaults' \in Nat
<1>1. PICK i \in Interfaces \ offered :
        /\ offered' = offered \cup {i}
        /\ \/ pipes' = pipes \cup PipesOf(i) /\ UNCHANGED usbFaults
           \/ \E p \in PipesOf(i) : pipes' = (pipes \cup PipesOf(i)) \ {p} /\ CountUsbFault
  BY DEF InterfaceAssign
<1>2. pipes \subseteq pipes' /\ pipes' \subseteq pipes \cup PipesOf(i)
  BY <1>1, PipesKept
<1>3. PipesOf(i) \subseteq AllPipes
  BY DEF AllPipes
<1>4. usbFaults' \in Nat
  BY <1>1 DEF CountUsbFault, UsbTypeOK
<1>5. QED
  BY <1>1, <1>2, <1>3, <1>4 DEF UsbTypeOK, NoStaleHandles

-----------------------------------------------------------------------------
(***************************************************************************)
(* One step.                                                               *)
(***************************************************************************)

\* The first state.
LEMMA UsbInitial == UsbInit => UsbIInv
<1> SUFFICES ASSUME UsbInit PROVE UsbIInv
  OBVIOUS
<1>1. UsbTypeOK
  BY DEF UsbInit, UsbTypeOK, BusStates, HostStates, DriverStates
<1>2. host = "absent" /\ pipes = {} /\ reads = 0 /\ writes = 0
  BY DEF UsbInit
<1>3. NoStaleHandles
  BY <1>2 DEF NoStaleHandles
<1>4. QED
  BY <1>1, <1>2, <1>3 DEF UsbIInv, ReadyMeansOpen, NoStaleAnswer, RequestPending, RequestInv,
     AnswerInv, PendingInv, Owned

\* The host layer and the bus start-up.
LEMMA HostLayerStep == UsbIInv /\ (HostLayer \/ BusTasks) => UsbIInv'
<1> USE DEF Owned, HostStates, DriverStates, drvVars, clientVars, moving, usbBounds, Between
<1>1. ASSUME UsbIInv, BusTasks PROVE UsbIInv'
  BY <1>1 DEF BusTasks, BusStates, UsbIInv, UsbTypeOK, NoStaleHandles, ReadyMeansOpen,
     NoStaleAnswer, RequestPending, RequestInv, AnswerInv, PendingInv
<1>2. ASSUME UsbIInv, Attach PROVE UsbIInv'
  BY <1>2 DEF Attach, UsbIInv, UsbTypeOK, NoStaleHandles, ReadyMeansOpen, NoStaleAnswer,
     RequestPending, RequestInv, AnswerInv, PendingInv
<1>3. ASSUME UsbIInv, DeviceAssign PROVE UsbIInv'
  BY <1>3 DEF DeviceAssign, UsbIInv, UsbTypeOK, NoStaleHandles, ReadyMeansOpen, NoStaleAnswer,
     RequestPending, RequestInv, AnswerInv, PendingInv
<1>4. ASSUME UsbIInv, DeviceRefused PROVE UsbIInv'
  BY <1>4 DEF DeviceRefused, CountUsbFault, UsbIInv, UsbTypeOK, NoStaleHandles, ReadyMeansOpen,
     NoStaleAnswer, RequestPending, RequestInv, AnswerInv, PendingInv
<1>5. ASSUME UsbIInv, ConfigurationSet PROVE UsbIInv'
  <2>1. pipes = {} /\ reads = 0 /\ writes = 0 /\ drv = "WAIT_FOR_CONFIGURATION_SET"
    BY <1>5 DEF ConfigurationSet, UsbIInv, NoStaleHandles, RequestInv, UsbTypeOK
  <2>2. UsbTypeOK'
    <3>1. usbFaults' \in Nat /\ host' \in HostStates
      BY <1>5 DEF ConfigurationSet, CountUsbFault, UsbIInv, UsbTypeOK
    <3>2. hostRequestDone' \in BOOLEAN /\ hostRequestResult' \in BOOLEAN
      BY <1>5 DEF ConfigurationSet
    <3>3. QED
      BY <1>5, <3>1, <3>2 DEF ConfigurationSet, UsbIInv, UsbTypeOK
  <2>3. (NoStaleHandles /\ ReadyMeansOpen /\ NoStaleAnswer /\ RequestPending)'
    BY <1>5, <2>1 DEF ConfigurationSet, NoStaleHandles, ReadyMeansOpen, NoStaleAnswer,
       RequestPending
  <2>4. (RequestInv /\ AnswerInv /\ PendingInv)'
    BY <1>5, <2>1 DEF ConfigurationSet, RequestInv, AnswerInv, PendingInv
  <2>5. QED
    BY <2>2, <2>3, <2>4 DEF UsbIInv
<1>6. ASSUME UsbIInv, InterfaceAssign PROVE UsbIInv'
  <2>1. /\ pipes \subseteq pipes' /\ pipes' \subseteq AllPipes
        /\ pipes' \subseteq UNION {PipesOf(j) : j \in offered'}
        /\ offered' \subseteq Interfaces /\ usbFaults' \in Nat
    BY <1>6, AssignKeepsPipes DEF UsbIInv
  <2>2. UsbTypeOK'
    BY <1>6, <2>1 DEF InterfaceAssign, UsbIInv, UsbTypeOK
  <2>3. NoStaleHandles'
    BY <1>6, <2>1 DEF InterfaceAssign, UsbIInv, NoStaleHandles
  <2>4. (ReadyMeansOpen /\ NoStaleAnswer /\ RequestPending)'
    BY <1>6, <2>1 DEF InterfaceAssign, UsbIInv, ReadyMeansOpen, NoStaleAnswer, RequestPending
  <2>5. (RequestInv /\ AnswerInv /\ PendingInv)'
    BY <1>6, <2>1 DEF InterfaceAssign, UsbIInv, RequestInv, AnswerInv, PendingInv
  <2>6. QED
    BY <2>2, <2>3, <2>4, <2>5 DEF UsbIInv
<1>7. QED
  BY <1>1, <1>2, <1>3, <1>4, <1>5, <1>6 DEF HostLayer

\* The driver.
LEMMA DeviceTasksStep == UsbIInv /\ DeviceTasks => UsbIInv'
<1> USE DEF Owned, HostStates, DriverStates, hostVars, clientVars, moving, usbBounds, Between,
       TasksCalled
<1>1. ASSUME UsbIInv, RequestConfiguration PROVE UsbIInv'
  <2>1. pipes = {} /\ reads = 0 /\ writes = 0
    BY <1>1 DEF RequestConfiguration, UsbIInv, NoStaleHandles, UsbTypeOK
  <2>2. (UsbTypeOK /\ NoStaleHandles)'
    BY <1>1, <2>1 DEF RequestConfiguration, UsbIInv, UsbTypeOK, NoStaleHandles
  <2>3. (ReadyMeansOpen /\ NoStaleAnswer /\ RequestPending /\ RequestInv /\ AnswerInv /\ PendingInv)'
    BY <1>1 DEF RequestConfiguration, ReadyMeansOpen, NoStaleAnswer, RequestPending,
       RequestInv, AnswerInv, PendingInv
  <2>4. QED
    BY <2>2, <2>3 DEF UsbIInv
<1>2. ASSUME UsbIInv, RequestRefused PROVE UsbIInv'
  <2>1. hostRequestDone' \in BOOLEAN
    BY <1>2 DEF RequestRefused
  <2>2. usbFaults' \in Nat
    BY <1>2 DEF RequestRefused, CountUsbFault, UsbIInv, UsbTypeOK
  <2>3. (UsbTypeOK /\ NoStaleHandles)'
    BY <1>2, <2>1, <2>2 DEF RequestRefused, UsbIInv, UsbTypeOK, NoStaleHandles
  <2>4. (ReadyMeansOpen /\ NoStaleAnswer /\ RequestPending /\ RequestInv /\ AnswerInv /\ PendingInv)'
    BY <1>2 DEF RequestRefused, UsbIInv, ReadyMeansOpen, NoStaleAnswer, RequestPending,
       RequestInv, AnswerInv, PendingInv
  <2>5. QED
    BY <2>3, <2>4 DEF UsbIInv
<1>3. ASSUME UsbIInv, RequestAnswered PROVE UsbIInv'
  <2>1. (UsbTypeOK /\ NoStaleHandles)'
    BY <1>3 DEF RequestAnswered, UsbIInv, UsbTypeOK, NoStaleHandles
  <2>2. host # "setting"
    BY <1>3 DEF RequestAnswered, UsbIInv, RequestInv
  <2>3. hostRequestResult => host = "configured"
    BY <1>3 DEF RequestAnswered, UsbIInv, AnswerInv
  <2>4. (ReadyMeansOpen /\ NoStaleAnswer /\ RequestPending /\ RequestInv /\ AnswerInv /\ PendingInv)'
    BY <1>3, <2>2, <2>3 DEF RequestAnswered, UsbIInv, ReadyMeansOpen, NoStaleAnswer,
       RequestPending, RequestInv, AnswerInv, PendingInv
  <2>5. QED
    BY <2>1, <2>4 DEF UsbIInv
<1>4. ASSUME UsbIInv, InterfacesOpen PROVE UsbIInv'
  <2>1. host = "configured"
    BY <1>4 DEF InterfacesOpen, UsbIInv, NoStaleAnswer
  <2>2. QED
    BY <1>4, <2>1 DEF InterfacesOpen, UsbIInv, UsbTypeOK, NoStaleHandles, ReadyMeansOpen,
       NoStaleAnswer, RequestPending, RequestInv, AnswerInv, PendingInv
<1>5. ASSUME UsbIInv, AssignState PROVE UsbIInv'
  <2>1. (UsbTypeOK /\ NoStaleHandles)'
    BY <1>5 DEF AssignState, UsbIInv, UsbTypeOK, NoStaleHandles
  <2>2. (ReadyMeansOpen /\ NoStaleAnswer)'
    BY <1>5 DEF AssignState, UsbIInv, ReadyMeansOpen, NoStaleAnswer, PendingInv
  <2>3. (RequestPending /\ RequestInv /\ AnswerInv /\ PendingInv)'
    BY <1>5 DEF AssignState, UsbIInv, RequestPending, RequestInv, AnswerInv, PendingInv
  <2>4. QED
    BY <2>1, <2>2, <2>3 DEF UsbIInv
<1>6. QED
  BY <1>1, <1>2, <1>3, <1>4, <1>5 DEF DeviceTasks

\* The interrupts and the client.  A detach may leave any test of DeviceTasks
\* behind, but the driver owns nothing after it.
LEMMA InterruptsAndClientStep == UsbIInv /\ (Detach \/ TransferDone \/ Client) => UsbIInv'
<1> USE DEF Owned, HostStates, drvVars, hostVars, clientVars, moving, usbBounds
<1>1. ASSUME UsbIInv, Detach PROVE UsbIInv'
  <2>1. pipes' = {} /\ reads' = 0 /\ writes' = 0
    <3>1. CASE host \in Owned
      BY <1>1, <3>1 DEF Detach, DeviceRelease, ClosePipes
    <3>2. CASE host \notin Owned
      <4>1. pipes = {} /\ reads = 0 /\ writes = 0
        BY <1>1, <3>2 DEF UsbIInv, UsbTypeOK, NoStaleHandles
      <4>2. UNCHANGED <<pipes, reads, writes>>
        BY <1>1, <3>2 DEF Detach
      <4>3. QED
        BY <4>1, <4>2
    <3>3. QED
      BY <3>1, <3>2
  <2>2. UNCHANGED <<drv, tasks, hostRequestDone, hostRequestResult, bus, installed, usbBounds>>
    BY <1>1 DEF Detach, DeviceRelease
  <2>3. handler' \in BOOLEAN /\ halted' \in BOOLEAN
    BY <1>1 DEF Detach, DeviceRelease, UsbIInv, UsbTypeOK
  <2>4. host' = "absent" /\ offered' = {}
    BY <1>1 DEF Detach
  <2>5. UsbTypeOK'
    BY <1>1, <2>1, <2>2, <2>3, <2>4 DEF UsbIInv, UsbTypeOK
  <2>6. QED
    BY <2>1, <2>4, <2>5 DEF UsbIInv, NoStaleHandles, ReadyMeansOpen, NoStaleAnswer,
       RequestPending, RequestInv, AnswerInv, PendingInv
<1>2. ASSUME UsbIInv, TransferDone PROVE UsbIInv'
  <2>1. (UsbTypeOK /\ NoStaleHandles)'
    BY <1>2 DEF TransferDone, UsbIInv, UsbTypeOK, NoStaleHandles
  <2>2. QED
    BY <1>2, <2>1 DEF TransferDone, UsbIInv, ReadyMeansOpen, NoStaleAnswer, RequestPending,
       RequestInv, AnswerInv, PendingInv
<1>3. ASSUME UsbIInv, EventHandlerSet PROVE UsbIInv'
  BY <1>3 DEF EventHandlerSet, UsbIInv, UsbTypeOK, NoStaleHandles, ReadyMeansOpen,
     NoStaleAnswer, RequestPending, RequestInv, AnswerInv, PendingInv
<1>4. ASSUME UsbIInv, AT_Read \/ AT_Write PROVE UsbIInv'
  <2>1. (UsbTypeOK /\ NoStaleHandles)'
    BY <1>4 DEF AT_Read, AT_Write, Accepts, UsbIInv, UsbTypeOK, NoStaleHandles
  <2>2. UNCHANGED <<hostVars, drvVars>>
    BY <1>4 DEF AT_Read, AT_Write
  <2>3. QED
    BY <1>4, <2>1, <2>2 DEF UsbIInv, ReadyMeansOpen, NoStaleAnswer, RequestPending,
       RequestInv, AnswerInv, PendingInv
<1>5. QED
  BY <1>1, <1>2, <1>3, <1>4 DEF Client

-----------------------------------------------------------------------------
(***************************************************************************)
(* The theorems.                                                           *)
(***************************************************************************)

\* The invariant is inductive.
THEOREM UsbInvariant == UsbSpec => []UsbIInv
<1>1. UsbInit => UsbIInv
  BY UsbInitial
<1>2. UsbIInv /\ [UsbNext]_usbVarsAll => UsbIInv'
  <2>1. UsbIInv /\ UNCHANGED usbVarsAll => UsbIInv'
    BY DEF usbVarsAll, hostVars, drvVars, clientVars, moving, usbBounds, UsbIInv, UsbTypeOK,
       NoStaleHandles, ReadyMeansOpen, NoStaleAnswer, RequestPending, RequestInv, AnswerInv,
       PendingInv
  <2>2. QED
    BY <2>1, HostLayerStep, DeviceTasksStep, InterruptsAndClientStep DEF UsbNext
<1>3. QED
  BY <1>1, <1>2, PTL DEF UsbSpec

\* The driver's state, handles and transfers keep their types.
THEOREM UsbTypeCorrect == UsbSpec => []UsbTypeOK
<1>1. UsbIInv => UsbTypeOK
  BY DEF UsbIInv
<1>2. QED
  BY <1>1, UsbInvariant, PTL

\* DeviceRelease leaves no handle and no transfer of a device that has gone.
THEOREM HandlesNeverStale == UsbSpec => []NoStaleHandles
<1>1. UsbIInv => NoStaleHandles
  BY DEF UsbIInv
<1>2. QED
  BY <1>1, UsbInvariant, PTL

\* READY means the eleven pipes of the device that is there, however often and
\* wherever in DeviceTasks the devices before it left.
THEOREM ReadyIsOpen == UsbSpec => []ReadyMeansOpen
<1>1. UsbIInv => ReadyMeansOpen
  BY DEF UsbIInv
<1>2. QED
  BY <1>1, UsbInvariant, PTL

\* The answer DeviceTasks acts on is the answer to this device's request.
THEOREM AnswersNeverStale == UsbSpec => []NoStaleAnswer
<1>1. UsbIInv => NoStaleAnswer
  BY DEF UsbIInv
<1>2. QED
  BY <1>1, UsbInvariant, PTL

\* A driver that waits has a request under way or its answer in hand.
THEOREM RequestNeverLost == UsbSpec => []RequestPending
<1>1. UsbIInv => RequestPending
  BY DEF UsbIInv
<1>2. QED
  BY <1>1, UsbInvariant, PTL
=============================================================================
