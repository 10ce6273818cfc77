------------------------------- MODULE MCLive -------------------------------
(***************************************************************************)
(* The parts of the tracker that must make progress and share no state     *)
(* with each other, in one state space: part says which of them a          *)
(* behaviour is about, the others stand still as they were initialised.    *)
(* Since no step of one reads or writes what another one has, an           *)
(* interleaving of them all is, for each, one of its own behaviours with   *)
(* stuttering; each is run under the fairness its module states.           *)
(***************************************************************************)
EXTENDS Naturals, Integers

VARIABLES
  part,
  sid, state, hSocket, datNode, stx, offset, accepted, delivered,
  sock, holder, rx, reports,                                  \* TcpClient
  ws, curSocketId, urlData, connecting, shouldClose, validated,
  due, isOpen, good, asked,                                   \* WsOverTcp
  inUse, sState, sSocket, queueData, outState, dataIndex,
  sSock, sRx, sTold, sAccepted, sDelivered, base, cut, halted,  \* TcpServer
  initialized, input, iPin, told, lastEdge, sample,           \* IoInput
  running, out, pin, todo, oAsked, ticks,                     \* IoOutput
  rtcc, sm, sub, i2c, bus, sys, chip, ts_local, cb, owed, missed, failures,  \* Mcp7940x
  pmz, power, timer, net, iface, inits, ran, flash, eeram, said,
  stack, nets, link                                           \* PmzTasks

\* One slot that is used alone, closed and reset at any moment, and one under the
\* WebSocket client: the application leaves the connection open, or pings and closes it.
Client == INSTANCE TcpClient WITH
  MaxSlots <- 1, MaxHandles <- 1, Foreign <- {}, MaxBytes <- 3, Resets <- TRUE
Web == INSTANCE WsOverTcp WITH
  MaxSlots <- 1, MaxHandles <- 1, Foreign <- {}, MaxBytes <- 2, Resets <- FALSE,
  Polite <- TRUE, MayClose <- FALSE, Ping <- FALSE
ClosingWeb == INSTANCE WsOverTcp WITH
  MaxSlots <- 1, MaxHandles <- 1, Foreign <- {}, MaxBytes <- 2, Resets <- FALSE,
  Polite <- TRUE, MayClose <- TRUE, Ping <- TRUE

\* Every signal comes alone, every FIN can be sent and the stack starts.
Server == INSTANCE TcpServer WITH
  MaxSlots <- 1, MaxHandles <- 2, MaxBytes <- 1, Merges <- FALSE, Fails <- FALSE, Resets <- FALSE,
  state <- sState, hSocket <- sSocket, sock <- sSock, rx <- sRx, told <- sTold,
  accepted <- sAccepted, delivered <- sDelivered

Inputs == INSTANCE IoInput WITH Inputs <- {1}, pin <- iPin

\* The interrupt is kept out of the calls.
Output == INSTANCE IoOutput WITH
  Times <- {0, 200}, Inverted <- FALSE, Preempts <- FALSE, asked <- oAsked

Clock == INSTANCE Mcp7940x WITH
  Times <- {"t1", "t2"}, Factory <- "factory", Torn <- "torn", None <- "none", MaxFailures <- 2

Main == INSTANCE PmzTasks WITH Ifaces <- {1, 2}, Fitted <- {0, 1}

ASSUME ConstantsAssumption ==
  Server!ServerAssumption /\ Output!OutputAssumption /\ Clock!FailuresAssumption /\ Main!PmzAssumption

client  == <<sid, state, hSocket, datNode, stx, offset, accepted, delivered, sock, holder, rx, reports>>
web     == <<ws, curSocketId, urlData, connecting, shouldClose, validated, due, isOpen, good, asked>>
server  == <<inUse, sState, sSocket, queueData, outState, dataIndex, sSock, sRx, sTold, sAccepted,
             sDelivered, base, cut, halted>>
inputs  == <<initialized, input, iPin, told, lastEdge, sample>>
output  == <<running, out, pin, todo, oAsked, ticks>>
clock   == <<rtcc, sm, sub, i2c, bus, sys, chip, ts_local, cb, owed, missed, failures>>
main    == <<pmz, power, timer, net, iface, inits, ran, flash, eeram, said, stack, nets, link>>
vars    == <<part, client, web, server, inputs, output, clock, main>>

Init ==
  /\ part \in {"client", "web", "closing web", "server", "inputs", "output", "clock", "main"}
  /\ Web!WsInit /\ Server!Init /\ Output!Init
  /\ Inputs!Init /\ (part = "inputs" \/ iPin = <<FALSE>>)
  /\ Clock!Init /\ (part = "clock" \/ (chip.st /\ chip.vbaten))
  /\ Main!Init /\ (part = "main" \/ nets = {})

OfClient(A)  == part = "client" /\ A /\ UNCHANGED <<part, web, server, inputs, output, clock, main>>
OfWeb(A)     == part \in {"web", "closing web"} /\ A /\ UNCHANGED <<part, server, inputs, output, clock, main>>
OfServer(A)  == part = "server" /\ A /\ UNCHANGED <<part, client, web, inputs, output, clock, main>>
OfInputs(A)  == part = "inputs" /\ A /\ UNCHANGED <<part, client, web, server, output, clock, main>>
OfOutput(A)  == part = "output" /\ A /\ UNCHANGED <<part, client, web, server, inputs, clock, main>>
OfClock(A)   == part = "clock" /\ A /\ UNCHANGED <<part, client, web, server, inputs, output, main>>
OfMain(A)    == part = "main" /\ A /\ UNCHANGED <<part, client, web, server, inputs, output, clock>>

Next ==
  \/ OfClient(Client!Next)
  \/ OfWeb(part = "web" /\ Web!WsNext)
  \/ OfWeb(part = "closing web" /\ ClosingWeb!WsNext)
  \/ OfServer(Server!Next)
  \/ OfInputs(Inputs!Next)
  \/ OfOutput(Output!Next)
  \/ OfClock(Clock!Next)
  \/ OfMain(Main!Next)

-----------------------------------------------------------------------------
(***************************************************************************)
(* The fairness of each module, for the slot 1 that there is.  A behaviour *)
(* is about one part, so that fairness of a disjunction of steps of        *)
(* different parts is the fairness of each of them.                        *)
(***************************************************************************)
Fairness ==
  /\ WF_vars(\/ OfClient(Client!TaskCalled)
             \/ OfWeb(~due /\ Web!TaskCalled /\ Web!TcpStep)
             \/ OfOutput(Output!CallStep)
             \/ OfClock(Clock!Tasks)
             \/ OfMain(Main!PmzInit \/ Main!PmzRunning))
  /\ WF_vars(\/ OfClient(Client!SlotTask(1))
             \/ OfWeb(Web!SlotTask(1) /\ Web!TcpStep)
             \/ OfServer(Server!SlotTask(1))
             \/ OfInputs(Inputs!Interrupt)
             \/ OfOutput(Output!Interrupt)
             \/ OfClock(Clock!WaitEnd)
             \/ OfMain(Main!SimcomPowerSupply))
  /\ WF_vars(OfWeb(Web!WsTask) \/ OfClock(Clock!BusEnds))
  /\ SF_vars(\/ OfClient(Client!Resolved(1))
             \/ OfWeb(Web!Resolved(1) /\ Web!TcpStep)
             \/ OfServer(Server!OpenSocket(1)))
  /\ SF_vars(\/ OfClient(Client!ConnectTimeout(1))
             \/ OfWeb(Web!ConnectTimeout(1) /\ Web!TcpStep)
             \/ OfServer(Server!SendRest(1)))
  /\ SF_vars(\/ OfClient(Client!RetryElapsed(1))
             \/ OfWeb(Web!RetryElapsed(1) /\ Web!TcpStep)
             \/ OfServer(Server!Disconnect(1)))
  /\ SF_vars(OfClient(Client!Sends(1)) \/ OfWeb(Web!WsRetry))
  /\ SF_vars(OfWeb(part = "closing web" /\ ClosingWeb!PingSent))

Spec == Init /\ [][Next]_vars
FairSpec == Spec /\ Fairness

-----------------------------------------------------------------------------
(***************************************************************************)
(* Properties: those of the modules, where they are explained.             *)
(***************************************************************************)
\* The variables of the part that moves keep their types.
TypesHold ==
  CASE part = "client" -> Client!TypeOK
    [] part \in {"web", "closing web"} -> Web!TypeOK /\ Web!WsTypeOK
    [] part = "server" -> Server!TypeOK
    [] part = "inputs" -> Inputs!TypeOK
    [] part = "output" -> Output!TypeOK
    [] part = "clock" -> Clock!TypeOK
    [] part = "main" -> Main!TypeOK

\* tcp_client.c keeps what it promises its owner (ClientPromise), over connections
\* that end in the middle of a node, resets and closes of a slot without a socket; its
\* sender has the node it is in, and no queue outlives its connection.
ClientKeepsPromise ==
  /\ Client!KeepsPromise
  /\ [](part = "client" => Client!SenderHasNode /\ Client!QueueOfConnection)

\* tcp_client.c: every open is answered, what was accepted is sent or the connection
\* is over, a socket that has gone is noticed, and the slot comes back.
ClientProgress ==
  part = "client" => /\ Client!OpenAnswered /\ Client!SentOrOver
                     /\ Client!LossNoticed /\ Client!SlotFreed

\* ws_client.c: a loss is told, a connection that is lost, refused or fails is tried again,
\* and the wait for it ends, unless a close was asked for; meanwhile the client never
\* talks on a connection that is over.
LossRetried ==
  /\ [](part = "web" => Web!OverItsConnection)
  /\ part = "web" => Web!LossRetried /\ Web!TcpAnswers /\ Web!LossTold

\* ws_client.c: a close that the application asks for ends, provided a ping is set: only
\* the next ping finds out that the connection has gone.
CloseEnds == part = "closing web" => ClosingWeb!CloseEnds

\* tcp_server.c: a slot that is configured gets its socket, and a client that leaves is
\* answered, provided no signal of the stack is merged with another.
ServerProgress == Server!Opened /\ Server!LeaveAnswered

\* pmz_io_control.c: a pulse ends and a blink goes on, each phase for its time, provided
\* the interrupt does not come between the assignments of a call.
PulseEnds == Output!PulseEnds /\ Output!BlinkAlternates /\ Output!PhaseLength

\* pmz_io_control.c: an edge is never told on one sample, the state that is read is what
\* was told, and an input that stays at a level is read at that level.
InputsRead == [](Inputs!Debounced /\ Inputs!StateAsTold) /\ (part = "inputs" => Inputs!SteadyIsRead)

\* drv_mcp7940x.c: the status promises no more than the chip does (ClockPromise), the
\* driver is idle again after every error and, if no transfer has failed, calls back.
ClockComesBack == Clock!KeepsPromise /\ (part = "clock" => Clock!ComesBack /\ Clock!Answered)

\* pmz.c and net.c: the view of each interface becomes that of the stack, no client or
\* server is started twice under its task or run before, and the modem is powered.
MainProgress ==
  /\ Main!NotRestarted /\ []Main!InitialisedFirst
  /\ part = "main" => Main!LinkSettles /\ Main!ModemComesUp
=============================================================================
