------------------------------- MODULE UsbSimcom -----------------------------
(***************************************************************************)
(* The USB driver of the modem, firmware/usb_A7672E.c.  The host layer     *)
(* (Harmony) enumerates the device and calls the driver: assign, tasks,    *)
(* events, interfaces.  The driver counts on eleven pipes of four          *)
(* interfaces and moves the bytes of two of them, those of the AT port.    *)
(*                                                                         *)
(* Everything runs in the main loop except the detach and the end of a     *)
(* transfer, which are interrupts.  A detach runs with all interrupts off, *)
(* and may come between a test of DeviceTasks and the assignment it        *)
(* guards; tasks holds the assignment that is still to be made.            *)
(***************************************************************************)
EXTENDS Naturals, FiniteSets

CONSTANTS
  MaxAttaches,  \* bound: times the modem appears on the bus
  MaxFaults,    \* bound: missing endpoints, requests refused or failed
  MaxMoving     \* bound: transfers outstanding on one pipe

ASSUME UsbBoundsAssumption == MaxAttaches \in Nat /\ MaxFaults \in Nat /\ MaxMoving \in Nat

(***************************************************************************)
(* The pipes each interface of the modem brings.  "other" stands for the   *)
(* interfaces the driver gives back.                                       *)
(***************************************************************************)
Endpoints ==
  [RNDIS |-> {"int", "in", "out"}, diag |-> {"in", "out"}, AT |-> {"int", "in", "out"},
   ECM |-> {"int", "in", "out"}, other |-> {}]
Interfaces == DOMAIN Endpoints
PipesOf(i) == {i} \X Endpoints[i]
AllPipes == UNION {PipesOf(i) : i \in Interfaces}
ATin == <<"AT", "in">>
ATout == <<"AT", "out">>

VARIABLES
  bus,                \* USBHost0Data.state
  host,               \* what the host layer has done with the device
  offered,            \* interfaces given to InterfaceAssign since the configuration
  drv,                \* gUSBHostSIMCOMObj.state
  tasks,              \* state DeviceTasks is about to assign, or "none"
  hostRequestDone,
  hostRequestResult,  \* TRUE: USB_HOST_RESULT_SUCCESS
  pipes,              \* the pipe handles that are not INVALID
  handler,            \* TRUE: eventHandler is not NULL
  installed,          \* the client has set its handler, which it does once
  reads, writes,      \* transfers outstanding on ATin and ATout
  halted,             \* the program is in the general exception handler
  attaches, usbFaults \* bounds used up

hostVars   == <<bus, host, offered>>
drvVars    == <<drv, tasks, hostRequestDone, hostRequestResult, pipes>>
clientVars == <<handler, installed>>
moving     == <<reads, writes>>
usbBounds  == <<attaches, usbFaults>>

usbVarsAll == <<hostVars, drvVars, clientVars, moving, halted, usbBounds>>

BusStates == {"INIT", "ENABLING_BUS", "GETTING_DEVICES", "READY", "ERROR"}

\* The host layer owns nothing, enumerates, has assigned the driver, carries
\* out its SET_CONFIGURATION, has done so, or has been given the device back.
HostStates == {"absent", "enumerating", "owned", "setting", "configured", "released"}
Owned == {"owned", "setting", "configured"}

DriverStates ==
  {"NOT_READY", "SET_CONFIGURATION", "WAIT_FOR_CONFIGURATION_SET", "WAIT_FOR_INTERFACES",
   "READY", "ERROR"}

\* usb_simcom_init and F_USB_HOST_SIMCOM_Initialize.
UsbInit ==
  /\ bus = "INIT" /\ host = "absent" /\ offered = {}
  /\ drv = "NOT_READY" /\ tasks = "none"
  /\ hostRequestDone = FALSE /\ hostRequestResult = FALSE
  /\ pipes = {}
  /\ handler = FALSE /\ installed = FALSE
  /\ reads = 0 /\ writes = 0
  /\ halted = FALSE
  /\ attaches = 0 /\ usbFaults = 0

\* The main loop is not inside DeviceTasks.
Between == tasks = "none"
CountUsbFault == usbFaults < MaxFaults /\ usbFaults' = usbFaults + 1

-----------------------------------------------------------------------------
(***************************************************************************)
(* usb_simcom_tasks: bus start-up.  Registers the driver, enables the bus, *)
(* looks once for a device and is done, whatever it found.                 *)
(***************************************************************************)
BusTasks ==
  /\ Between
  /\ \/ bus = "INIT" /\ bus' = "ENABLING_BUS"
     \/ bus = "ENABLING_BUS" /\ bus' = "GETTING_DEVICES"
     \/ /\ bus = "GETTING_DEVICES"
        /\ bus' = IF host \in {"absent", "enumerating"} THEN "ERROR" ELSE "READY"
  /\ UNCHANGED <<host, offered, drvVars, clientVars, moving, halted, usbBounds>>

(***************************************************************************)
(* The host layer.                                                         *)
(***************************************************************************)

\* A device appears on the bus, which has been enabled.
Attach ==
  /\ bus # "INIT" /\ host = "absent" /\ attaches < MaxAttaches
  /\ host' = "enumerating"
  /\ attaches' = attaches + 1
  /\ UNCHANGED <<bus, offered, drvVars, clientVars, moving, halted, usbFaults>>

\* F_USB_HOST_SIMCOM_DeviceAssign, called when the device has enumerated.
DeviceAssign ==
  /\ Between /\ host = "enumerating"
  /\ host' = "owned" /\ drv' = "SET_CONFIGURATION"
  /\ UNCHANGED <<bus, offered, tasks, hostRequestDone, hostRequestResult, pipes, clientVars,
                 moving, halted, usbBounds>>

\* The same for a device without configurations: it is given back.
DeviceRefused ==
  /\ Between /\ host = "enumerating" /\ CountUsbFault
  /\ host' = "released" /\ drv' = "ERROR"
  /\ UNCHANGED <<bus, offered, tasks, hostRequestDone, hostRequestResult, pipes, clientVars,
                 moving, halted, attaches>>

\* Mutant of ConfigurationSet: hostRequestDone is not raised.
ConfigurationSetQuiet ==
  /\ Between /\ host = "setting"
  /\ \/ host' = "configured" /\ hostRequestResult' = TRUE /\ UNCHANGED usbFaults
     \/ host' = "owned" /\ hostRequestResult' = FALSE /\ CountUsbFault
  /\ offered' = {}
  /\ UNCHANGED <<bus, drv, tasks, hostRequestDone, pipes, clientVars, moving, halted, attaches>>

\* The host layer has carried out SET_CONFIGURATION, and tells the driver
\* (F_USB_HOST_SIMCOM_DeviceEventHandler).
ConfigurationSet ==
  /\ Between /\ host = "setting"
  /\ \/ host' = "configured" /\ hostRequestResult' = TRUE /\ UNCHANGED usbFaults
     \/ host' = "owned" /\ hostRequestResult' = FALSE /\ CountUsbFault
  /\ hostRequestDone' = TRUE
  /\ offered' = {}
  /\ UNCHANGED <<bus, drv, tasks, pipes, clientVars, moving, halted, attaches>>

\* F_USB_HOST_SIMCOM_InterfaceAssign: the host layer offers each interface of
\* the configuration once; an endpoint that is missing or a pipe that does
\* not open leaves an invalid handle.
InterfaceAssign ==
  /\ Between /\ host = "configured"
  /\ \E i \in Interfaces \ offered :
       /\ offered' = offered \cup {i}
       /\ \/ pipes' = pipes \cup PipesOf(i) /\ UNCHANGED usbFaults
          \/ \E p \in PipesOf(i) :
               pipes' = (pipes \cup PipesOf(i)) \ {p} /\ CountUsbFault
  /\ UNCHANGED <<bus, host, drv, tasks, hostRequestDone, hostRequestResult, clientVars,
                 moving, halted, attaches>>

-----------------------------------------------------------------------------
(***************************************************************************)
(* F_USB_HOST_SIMCOM_DeviceTasks, called for a device the driver owns.     *)
(***************************************************************************)
TasksCalled == Between /\ host \in Owned

\* Mutant of RequestConfiguration: hostRequestDone keeps its old value.
RequestConfigurationStale ==
  /\ TasksCalled /\ drv = "SET_CONFIGURATION" /\ host = "owned"
  /\ host' = "setting"
  /\ tasks' = "WAIT_FOR_CONFIGURATION_SET"
  /\ UNCHANGED <<bus, offered, drv, hostRequestDone, hostRequestResult, pipes, clientVars,
                 moving, halted, usbBounds>>

RequestConfiguration ==
  /\ TasksCalled /\ drv = "SET_CONFIGURATION" /\ host = "owned"
  /\ hostRequestDone' = FALSE
  /\ host' = "setting"
  /\ tasks' = "WAIT_FOR_CONFIGURATION_SET"
  /\ UNCHANGED <<bus, offered, drv, hostRequestResult, pipes, clientVars, moving, halted,
                 usbBounds>>

\* Mutant of RequestRefused: the result is not looked at.
RequestRefusedUnseen ==
  /\ TasksCalled /\ drv = "SET_CONFIGURATION" /\ CountUsbFault
  /\ hostRequestDone' = FALSE
  /\ tasks' = "WAIT_FOR_CONFIGURATION_SET"
  /\ UNCHANGED <<hostVars, drv, hostRequestResult, pipes, clientVars, moving, halted, attaches>>

\* USB_HOST_DeviceConfigurationSet refuses; the next call tries again.
RequestRefused ==
  /\ TasksCalled /\ drv = "SET_CONFIGURATION" /\ CountUsbFault
  /\ hostRequestDone' = FALSE
  /\ UNCHANGED <<hostVars, drv, tasks, hostRequestResult, pipes, clientVars, moving, halted,
                 attaches>>

RequestAnswered ==
  /\ TasksCalled /\ drv = "WAIT_FOR_CONFIGURATION_SET" /\ hostRequestDone
  /\ tasks' = IF hostRequestResult THEN "WAIT_FOR_INTERFACES" ELSE "ERROR"
  /\ UNCHANGED <<hostVars, drv, hostRequestDone, hostRequestResult, pipes, clientVars,
                 moving, halted, usbBounds>>

\* Mutant of InterfacesOpen: the AT port is not waited for.
InterfacesOpenButAT ==
  /\ TasksCalled /\ drv = "WAIT_FOR_INTERFACES" /\ AllPipes \ PipesOf("AT") \subseteq pipes
  /\ tasks' = "READY"
  /\ UNCHANGED <<hostVars, drv, hostRequestDone, hostRequestResult, pipes, clientVars,
                 moving, halted, usbBounds>>

InterfacesOpen ==
  /\ TasksCalled /\ drv = "WAIT_FOR_INTERFACES" /\ pipes = AllPipes
  /\ tasks' = "READY"
  /\ UNCHANGED <<hostVars, drv, hostRequestDone, hostRequestResult, pipes, clientVars,
                 moving, halted, usbBounds>>

\* The assignment to state that ends the call.
AssignState ==
  /\ tasks # "none"
  /\ drv' = tasks /\ tasks' = "none"
  /\ UNCHANGED <<hostVars, hostRequestDone, hostRequestResult, pipes, clientVars, moving,
                 halted, usbBounds>>

DeviceTasks ==
  RequestConfiguration \/ RequestRefused \/ RequestAnswered \/ InterfacesOpen \/ AssignState

-----------------------------------------------------------------------------
(***************************************************************************)
(* Interrupts.                                                             *)
(***************************************************************************)

\* Mutants of ClosePipes: a handle is forgotten; a transfer ends on each pipe.
ClosePipesButATin == pipes' = pipes \cap {ATin} /\ reads' = 0 /\ writes' = 0
ClosePipesMiscounted == pipes' = {} /\ reads' = reads - 1 /\ writes' = writes - 1

\* F_USB_HOST_SIMCOM_DeviceRelease.  Closing a pipe ends its transfers, while
\* the handler is still there to be told; state is left as it is.  Telling
\* the client of the detach passes no event data, which simcomEventHandler
\* copies all the same (A7672E.c:158): the load is dropped by an optimising
\* build and traps in another.
ClosePipes == pipes' = {} /\ reads' = 0 /\ writes' = 0

DeviceRelease ==
  /\ ClosePipes
  /\ halted' \in {FALSE, handler}
  /\ handler' = FALSE
  /\ UNCHANGED <<drv, tasks, hostRequestDone, hostRequestResult>>

\* The host layer forgets the device, its requests and its interfaces.
Detach ==
  /\ host # "absent"
  /\ host' = "absent" /\ offered' = {}
  /\ IF host \in Owned THEN DeviceRelease
     ELSE UNCHANGED <<drvVars, handler, moving, halted>>
  /\ UNCHANGED <<bus, installed, usbBounds>>

\* A transfer ends; F_USB_HOST_SIMCOM_InterfaceEventHandler tells the client
\* if there is a handler, and nobody if there is none.
TransferDone ==
  /\ \/ reads > 0 /\ reads' = reads - 1 /\ UNCHANGED writes
     \/ writes > 0 /\ writes' = writes - 1 /\ UNCHANGED reads
  /\ UNCHANGED <<hostVars, drvVars, clientVars, halted, usbBounds>>

-----------------------------------------------------------------------------
(***************************************************************************)
(* The client, simcom_tasks: it sets its handler when the driver is ready  *)
(* for the first time, and from then on reads and writes.                  *)
(***************************************************************************)
EventHandlerSet ==
  /\ Between /\ drv = "READY" /\ ~installed
  /\ handler' = TRUE /\ installed' = TRUE
  /\ UNCHANGED <<hostVars, drvVars, moving, halted, usbBounds>>

\* AT_Read and AT_Write are refused unless the driver is READY and the handle
\* of the pipe is valid.
Accepts(p) == Between /\ drv = "READY" /\ p \in pipes

AT_Read ==
  /\ Accepts(ATin) /\ reads < MaxMoving
  /\ reads' = reads + 1
  /\ UNCHANGED <<hostVars, drvVars, clientVars, writes, halted, usbBounds>>

AT_Write ==
  /\ Accepts(ATout) /\ writes < MaxMoving
  /\ writes' = writes + 1
  /\ UNCHANGED <<hostVars, drvVars, clientVars, reads, halted, usbBounds>>

-----------------------------------------------------------------------------
HostLayer == Attach \/ DeviceAssign \/ DeviceRefused \/ ConfigurationSet \/ InterfaceAssign
Client == EventHandlerSet \/ (installed /\ (AT_Read \/ AT_Write))

UsbNext ==
  ~halted /\ (BusTasks \/ HostLayer \/ DeviceTasks \/ Detach \/ TransferDone \/ Client)

UsbSpec == UsbInit /\ [][UsbNext]_usbVarsAll

\* The main loop runs for ever; the host layer enumerates, configures and
\* offers the interfaces.  Nothing is assumed of Attach, Detach and the client.
UsbFairness ==
  /\ WF_usbVarsAll(~halted /\ DeviceTasks)
  /\ WF_usbVarsAll(~halted /\ (DeviceAssign \/ DeviceRefused))
  /\ WF_usbVarsAll(~halted /\ ConfigurationSet)
  /\ WF_usbVarsAll(~halted /\ InterfaceAssign)

UsbFairSpec == UsbSpec /\ UsbFairness

-----------------------------------------------------------------------------
(***************************************************************************)
(* Properties.                                                             *)
(***************************************************************************)

\* Type correctness of the driver and of what the host layer does with it.
UsbTypeOK ==
  /\ bus \in BusStates /\ host \in HostStates /\ offered \subseteq Interfaces
  /\ drv \in DriverStates /\ tasks \in DriverStates \cup {"none"}
  /\ hostRequestDone \in BOOLEAN /\ hostRequestResult \in BOOLEAN
  /\ pipes \subseteq AllPipes
  /\ handler \in BOOLEAN /\ installed \in BOOLEAN
  /\ reads \in Nat /\ writes \in Nat
  /\ halted \in BOOLEAN
  /\ attaches \in Nat /\ usbFaults \in Nat

\* No handle outlives its device: pipes are open only while a configuration
\* is set, only those of interfaces that were offered, and a transfer only
\* moves on an open pipe.  DeviceRelease has to close all eleven for this.
NoStaleHandles ==
  /\ pipes # {} => host = "configured"
  /\ pipes \subseteq UNION {PipesOf(i) : i \in offered}
  /\ reads > 0 => ATin \in pipes
  /\ writes > 0 => ATout \in pipes

\* While the driver owns a device, READY means that the eleven pipes of THIS
\* device are open (usb_A7672E.c:843), although READY is not taken back when
\* the device before it left, not even if it left between the last test of
\* DeviceTasks and the assignment.
ReadyMeansOpen ==
  (host \in Owned /\ drv = "READY") => (host = "configured" /\ pipes = AllPipes)

\* The driver never takes the answer of an earlier SET_CONFIGURATION for the
\* one it is waiting for: it waits for interfaces only once this device is
\* configured.
NoStaleAnswer ==
  (host \in Owned /\ "WAIT_FOR_INTERFACES" \in {drv, tasks}) => host = "configured"

\* No lost wake-up: a driver that waits for its configuration has a request
\* under way or its answer in hand.
RequestPending ==
  (host \in Owned /\ drv = "WAIT_FOR_CONFIGURATION_SET") => (host = "setting" \/ hostRequestDone)

\* A device that appears and stays ends up READY, or in ERROR because it has
\* no configuration or refuses the one it has, or without one of its pipes;
\* whatever happened to the devices before it.
Settled ==
  \/ host = "absent" \/ halted
  \/ host = "configured" /\ drv = "READY"
  \/ host \in {"owned", "released"} /\ drv = "ERROR"
  \/ host = "configured" /\ offered = Interfaces /\ pipes # AllPipes

AttachSettles == (host = "enumerating") ~> Settled
=============================================================================
