----------------------------- MODULE PmzTasks ------------------------------
(***************************************************************************)
(* The main task (pmz.c) and what only it drives: the network manager      *)
(* (net/net.c), which brings the TCP/IP stack's interfaces up and calls    *)
(* the servers and clients, the two storage tasks (storage/), the status   *)
(* of the EERAM (drv/drv_47xxx.c) and the power pin of the modem.  One     *)
(* pass of PMZ_Tasks is one step; the stack, the links, the I2C transfer   *)
(* and the timer move between passes.  The clients, the servers, the clock *)
(* and the modem have modules of their own.                                *)
(***************************************************************************)
EXTENDS Naturals, FiniteSets

CONSTANTS
  Ifaces,     \* the interfaces the stack may have
  Fitted      \* the flash chips on the board, of the indices 0 and 1

(* Assumed by the modules that instantiate this one.                       *)
PmzAssumption == IsFiniteSet(Ifaces) /\ Fitted \subseteq 0 .. 1

VARIABLES
  pmz,        \* pmzData.state
  power,      \* IO_OUTPUT_SIMCOM_POWER
  timer,      \* TRUE until the 5 s single-shot timer has fired
  net,        \* netData.state
  iface,      \* netData.iface[i].state; NoIface where there is none
  inits,      \* times the clients and servers were initialised, up to 2
  ran,        \* TRUE once their tasks have run
  flash,      \* appData.state and the counter mmm of storage_flash.c
  eeram,      \* eeramData.state
  said,       \* what drv_47xxx_status returned
  stack,      \* TCPIP_STACK_Status
  nets,       \* the interfaces of the stack
  link        \* what the stack says of each: down, up, or up and ready

envVars == <<stack, nets, link>>
vars == <<pmz, power, timer, net, iface, inits, ran, flash, eeram, said,
          stack, nets, link>>

NetStates == {"INIT", "WAIT_STACK_INIT", "READY", "ERROR", "HALT"}
IfaceStates == {"INIT", "DOWN", "UP", "LINK"}
NoIface == "none"
MemIcMax == 2               \* DRV_SST26_MEM_IC_MAX
DefaultStatus == "0xFF"     \* what readBuff[0] is set to

Init ==   \* PMZ_Initialize
  /\ pmz = "INIT"
  /\ power = "LOW" /\ timer = TRUE
  /\ net = "INIT" /\ iface = [i \in Ifaces |-> NoIface]
  /\ inits = 0 /\ ran = FALSE
  /\ flash = [state |-> "INIT", mmm |-> 0]
  /\ eeram = "INIT" /\ said = "nothing"
  /\ stack = "BUSY" /\ nets \in {{}, Ifaces}
  /\ link = [i \in Ifaces |-> "down"]

(***************************************************************************)
(* The network manager.                                                    *)
(***************************************************************************)
\* Mutant of IfaceTask: a link that is lost stays up.
IfaceTaskStays(s, l) == IF s = "LINK" THEN s ELSE IF l = "ready" THEN "LINK" ELSE "UP"

IfaceTask(s, l) ==
  CASE s = "INIT" -> "DOWN"
    [] s = "DOWN" -> IF l # "down" THEN "UP" ELSE s
    [] s = "UP" -> IF l = "down" THEN "DOWN" ELSE IF l = "ready" THEN "LINK" ELSE s
    [] s = "LINK" -> IF l # "ready" THEN "UP" ELSE s
    [] OTHER -> s

NetInit ==
  /\ net = "INIT"
  /\ net' = "WAIT_STACK_INIT"
  /\ iface' = [i \in Ifaces |-> NoIface]
  /\ UNCHANGED <<inits, ran>>

NetWaits ==
  /\ net = "WAIT_STACK_INIT" /\ stack = "BUSY"
  /\ UNCHANGED <<net, iface, inits, ran>>

NetFails ==
  /\ net = "WAIT_STACK_INIT" /\ stack = "ERROR"
  /\ net' = "ERROR"
  /\ UNCHANGED <<iface, inits, ran>>

(* Telnet, the TCP server, the TCP and WebSocket clients are initialised,  *)
(* again on every pass while the stack has no interface.                   *)
NetStarts ==
  /\ net = "WAIT_STACK_INIT" /\ stack = "READY"
  /\ inits' = IF inits < 2 THEN inits + 1 ELSE inits
  /\ \E allocated \in BOOLEAN :
       LET has == nets # {} /\ allocated IN
       /\ net' = IF nets = {} THEN net ELSE IF has THEN "READY" ELSE "HALT"
       /\ iface' = IF has THEN [i \in Ifaces |-> "INIT"] ELSE iface
  /\ UNCHANGED ran

NetReady ==
  /\ net = "READY"
  /\ iface' = [i \in Ifaces |-> IfaceTask(iface[i], link[i])]
  /\ ran' = TRUE
  /\ UNCHANGED <<net, inits>>

NetHalts ==
  /\ net \in {"ERROR", "HALT"}
  /\ net' = "HALT"
  /\ UNCHANGED <<iface, inits, ran>>

NetTasks == NetInit \/ NetWaits \/ NetFails \/ NetStarts \/ NetReady \/ NetHalts

(***************************************************************************)
(* The storage tasks.                                                      *)
(***************************************************************************)
EeramTask ==
  \/ /\ eeram = "INIT"
     /\ eeram' = "OPEN_DRIVER"
     /\ UNCHANGED said
  \/ /\ eeram = "OPEN_DRIVER"
     /\ eeram' = "IDLE"
     /\ said' \in {DefaultStatus, "register"}  \* the I2C transfer has just begun
  \/ eeram = "IDLE" /\ UNCHANGED <<eeram, said>>

Opens(mmm) == mmm < MemIcMax /\ mmm \in Fitted    \* DRV_SST26_Open

FlashAfterOpen(mmm) ==
  IF ~Opens(mmm) THEN [flash EXCEPT !.state = "ERROR"]
  ELSE IF mmm < MemIcMax THEN [flash EXCEPT !.mmm = mmm + 1]
  ELSE [flash EXCEPT !.state = "IDLE"]

FlashTask ==
  flash' = CASE flash.state = "INIT" -> [flash EXCEPT !.state = "OPEN_DRIVER"]
             [] flash.state = "OPEN_DRIVER" -> FlashAfterOpen(flash.mmm)
             [] OTHER -> flash

(***************************************************************************)
(* PMZ_Tasks, the timer of the modem's power, and the environment.         *)
(***************************************************************************)
PmzInit ==
  /\ pmz = "INIT"
  /\ pmz' = "RUNNING"
  /\ net' = "INIT"
  /\ eeram' = "INIT"
  /\ flash' = [flash EXCEPT !.state = "INIT"]
  /\ UNCHANGED <<power, timer, iface, inits, ran, said, envVars>>

PmzRunning ==
  /\ pmz = "RUNNING"
  /\ NetTasks
  /\ EeramTask
  /\ FlashTask
  /\ UNCHANGED <<pmz, power, timer, envVars>>

SimcomPowerSupply ==
  /\ timer
  /\ timer' = FALSE
  /\ power' = IF power = "LOW" THEN "HIGH" ELSE power
  /\ UNCHANGED <<pmz, net, iface, inits, ran, flash, eeram, said, envVars>>

StackEnds ==
  /\ stack = "BUSY"
  /\ stack' \in {"READY", "ERROR"}
  /\ UNCHANGED <<pmz, power, timer, net, iface, inits, ran, flash, eeram,
                 said, nets, link>>

LinkChanges(i) ==
  /\ stack = "READY"
  /\ \E l \in {"down", "up", "ready"} \ {link[i]} : link' = [link EXCEPT ![i] = l]
  /\ UNCHANGED <<pmz, power, timer, net, iface, inits, ran, flash, eeram,
                 said, stack, nets>>

Next ==
  \/ PmzInit \/ PmzRunning \/ SimcomPowerSupply \/ StackEnds
  \/ \E i \in nets : LinkChanges(i)

(* The main loop goes round for ever and the timer runs out.               *)
Fairness == WF_vars(PmzInit \/ PmzRunning) /\ WF_vars(SimcomPowerSupply)

Spec == Init /\ [][Next]_vars /\ Fairness

(***************************************************************************)
(* Properties.                                                             *)
(***************************************************************************)

(* The variables stay in their types.                                      *)
TypeOK ==
  /\ pmz \in {"INIT", "RUNNING"} /\ power \in {"LOW", "HIGH"} /\ timer \in BOOLEAN
  /\ net \in NetStates /\ iface \in [Ifaces -> IfaceStates \cup {NoIface}]
  /\ inits \in 0 .. 2 /\ ran \in BOOLEAN
  /\ flash \in [state : {"INIT", "OPEN_DRIVER", "ERROR", "IDLE"}, mmm : 0 .. MemIcMax + 1]
  /\ eeram \in {"INIT", "OPEN_DRIVER", "IDLE"}
  /\ said \in {"nothing", DefaultStatus, "register"}
  /\ stack \in {"BUSY", "READY", "ERROR"} /\ nets \in SUBSET Ifaces
  /\ link \in [Ifaces -> {"down", "up", "ready"}]

(* The clients and servers are never initialised under their running       *)
(* tasks, whatever the links do, although the stack may have made the      *)
(* manager initialise them many times before.                              *)
NotRestarted == [][ran => inits' = inits /\ net' = "READY"]_<<ran, inits, net>>

(* Their tasks only run on slots that were initialised, over interfaces    *)
(* that are all known.                                                     *)
InitialisedFirst ==
  ran => inits > 0 /\ nets # {} /\ \A i \in Ifaces : iface[i] # NoIface

(* The manager's view of an interface that stays ready, or stays down,     *)
(* gets to be that of the stack.                                           *)
LinkSettles ==
  \A i \in Ifaces :
    /\ <>[](link[i] = "ready" /\ net = "READY") => <>[](iface[i] = "LINK")
    /\ <>[](link[i] = "down" /\ net = "READY") => <>[](iface[i] = "DOWN")

(* The modem, switched off at the start, is switched on in the end and     *)
(* stays on.                                                               *)
ModemComesUp == <>[](power = "HIGH")

(* The storage task ends in an error only if a device is missing.          *)
ErrorMeansFailure == flash.state = "ERROR" => Fitted # 0 .. MemIcMax - 1

(* The status of the EERAM is that of its register.                        *)
StatusIsRegister == said # DefaultStatus
=============================================================================
