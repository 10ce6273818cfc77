------------------------------- MODULE MCParts ------------------------------
(***************************************************************************)
(* The parts of the tracker of which only safety is asked, in one state    *)
(* space: they share no state, and part says which of them a behaviour is  *)
(* about (see MCLive).  Each is given what makes it hardest: merged        *)
(* signals and lost networks, failing allocations and cut connections, an  *)
(* interrupt inside every call, restarts.                                  *)
(***************************************************************************)
EXTENDS Naturals, Integers

CONSTANTS
  Degrees, LongMinutes, Fractions, Lengths,  \* the positions; minutes of two digits
  Speeds,                    \* in tenths
  ServerSlots, ServerBytes,  \* slots and bytes of the TCP server that sends
  SwapSlots,                 \* slots of the one whose slots exchange sockets
  ClientSlots,               \* slots of the TCP client
  Sockets,                   \* sockets of the stack, for each of them
  Times,                     \* the times of pulses and blinks
  ClockTimes,                \* what the clock chip may be set to
  BusFailures,               \* transfers on its bus that fail
  FlashData, Restarts,       \* what is written to a flash chip; restarts
  FrameChunk, FrameHeaders, FrameBytes,  \* FRAME_CHUNK_LENGTH, sizes of a header, bytes of a payload
  Fragments, LostBlocks      \* frames of a message; allocations that fail

VARIABLES
  part,
  line, info, body, answer, shown,                            \* GpsRecord
  year, utc,                                                  \* PmzTime
  handle, isTransferDone, cmd, desc, chain, at, dma, known, rx, chip,
  asked, restarts,                                            \* Sst26
  inUse, state, hSocket, queueData, outState, dataIndex,
  sock, sRx, told, accepted, delivered, base, cut, halted,    \* TcpServer
  frames, blocks, fOut, failures, header, pos, message, whole,  \* WsFrames
  running, out, pin, todo, oAsked, ticks,                     \* IoOutput
  sid, cState, cSocket, datNode, stx, offset, cAccepted, cDelivered,
  cSock, holder, cRx, reports,                                \* TcpClient
  rtcc, sm, sub, i2c, bus, sys, rtc, ts_local, cb, owed, missed, faults  \* Mcp7940x

\* Reports from the north-east whose minutes have two digits.
Report == INSTANCE GpsRecord WITH
  Western <- {FALSE}, Minutes <- LongMinutes, Courses <- {145}

\* Every hour of the fourteen kinds of year.
Year == INSTANCE PmzTime WITH Weekdays <- 0..6, Step <- 60

\* The owner reads no more than the descriptors hold, after a write, an erase or an
\* unlock: on a board with one chip of three pages in two blocks, whose fellow is
\* missing, and on a board with two chips of a page each.
Flash(Fitted, LastPage, MaxPages) == INSTANCE Sst26 WITH
  BlockPages <- 2, Data <- FlashData, ChainMax <- MaxPages,
  ReadsFirst <- FALSE, Closes <- TRUE, MaxRestarts <- Restarts

\* One slot whose clients leave it two sockets and send and receive, and two slots
\* that exchange their sockets.
Server == INSTANCE TcpServer WITH
  MaxSlots <- ServerSlots, MaxHandles <- Sockets, MaxBytes <- ServerBytes,
  Merges <- TRUE, Fails <- TRUE, Resets <- TRUE, rx <- sRx
Servers == INSTANCE TcpServer WITH
  MaxSlots <- SwapSlots, MaxHandles <- Sockets, MaxBytes <- 0,
  Merges <- FALSE, Fails <- TRUE, Resets <- TRUE, rx <- sRx

\* Two slots over two sockets, closed, reset and opened again at any moment, those that
\* have never had a socket included.
Clients == INSTANCE TcpClient WITH
  MaxSlots <- ClientSlots, MaxHandles <- Sockets, Foreign <- {}, MaxBytes <- 0,
  Resets <- TRUE,
  state <- cState, hSocket <- cSocket, accepted <- cAccepted, delivered <- cDelivered,
  sock <- cSock, rx <- cRx

\* All the sizes of a header with enough memory, and any one allocation that fails.
Frames == INSTANCE WsFrames WITH
  Chunk <- 3, HeaderSizes <- {2, 4, 10}, MaxPayload <- 3, MaxFragments <- 3, MaxFailures <- 0,
  Cuts <- FALSE, Masks <- TRUE, out <- fOut
ShortFrames == INSTANCE WsFrames WITH
  Chunk <- FrameChunk, HeaderSizes <- FrameHeaders, MaxPayload <- FrameBytes, MaxFragments <- Fragments,
  MaxFailures <- LostBlocks, Cuts <- TRUE, Masks <- FALSE, out <- fOut

Output == INSTANCE IoOutput WITH Inverted <- FALSE, Preempts <- TRUE, asked <- oAsked

Clock == INSTANCE Mcp7940x WITH
  Times <- ClockTimes, Factory <- "factory", Torn <- "torn", None <- "none", MaxFailures <- BusFailures,
  chip <- rtc, failures <- faults

ASSUME ConstantsAssumption ==
  /\ Report!InputsAssumption /\ LongMinutes \subseteq 10..59 /\ Year!YearAssumption
  /\ Flash({0}, 2, 2)!Sst26Assumption /\ Flash({0, 1}, 0, 1)!Sst26Assumption
  /\ Server!ServerAssumption /\ Servers!ServerAssumption
  /\ ClientSlots \in Nat \ {0} /\ Frames!FramesAssumption /\ ShortFrames!FramesAssumption
  /\ Output!OutputAssumption /\ Clock!FailuresAssumption

report  == <<line, info, body, answer, shown>>
date    == <<year, utc>>
flash   == <<handle, isTransferDone, cmd, desc, chain, at, dma, known, rx, chip, asked, restarts>>
server  == <<inUse, state, hSocket, queueData, outState, dataIndex, sock, sRx, told, accepted,
             delivered, base, cut, halted>>
ws      == <<frames, blocks, fOut, failures, header, pos, message, whole>>
output  == <<running, out, pin, todo, oAsked, ticks>>
clients == <<sid, cState, cSocket, datNode, stx, offset, cAccepted, cDelivered,
             cSock, holder, cRx, reports>>
clock   == <<rtcc, sm, sub, i2c, bus, sys, rtc, ts_local, cb, owed, missed, faults>>
vars    == <<part, report, date, flash, server, ws, output, clients, clock>>

SomeLine == CHOOSE l \in Report!Lines : TRUE

Init ==
  /\ part \in {"report", "year", "flash", "chips", "server", "servers", "frames", "short frames",
              "output", "clients", "clock"}
  /\ Year!Init /\ (part = "year" \/ year = [first |-> 0, leap |-> FALSE])
  /\ Report!Init
  /\ part = "report" \/ line = SomeLine
  /\ Clock!Init /\ (part = "clock" \/ (rtc.st /\ rtc.vbaten))
  /\ Frames!Init /\ Output!Init /\ Clients!Init
  /\ IF part = "chips" THEN Flash({0, 1}, 0, 1)!Init ELSE Flash({0}, 2, 2)!Init
  /\ IF part = "servers" THEN Servers!Init ELSE Server!Init

OfReport(A)  == A /\ UNCHANGED <<part, date, flash, server, ws, output, clients, clock>>
OfDate(A)    == A /\ UNCHANGED <<part, report, flash, server, ws, output, clients, clock>>
OfFlash(A)   == A /\ UNCHANGED <<part, report, date, server, ws, output, clients, clock>>
OfServer(A)  == A /\ UNCHANGED <<part, report, date, flash, ws, output, clients, clock>>
OfWs(A)      == A /\ UNCHANGED <<part, report, date, flash, server, output, clients, clock>>
OfOutput(A)  == A /\ UNCHANGED <<part, report, date, flash, server, ws, clients, clock>>
OfClients(A) == A /\ UNCHANGED <<part, report, date, flash, server, ws, output, clock>>
OfClock(A)   == A /\ UNCHANGED <<part, report, date, flash, server, ws, output, clients>>

Next ==
  \/ OfReport(part = "report" /\ Report!Next)
  \/ OfDate(part = "year" /\ Year!Tick)
  \/ OfFlash(part = "flash" /\ Flash({0}, 2, 2)!Next)
  \/ OfFlash(part = "chips" /\ Flash({0, 1}, 0, 1)!Next)
  \/ OfServer(part = "server" /\ Server!Next)
  \/ OfServer(part = "servers" /\ Servers!Next)
  \/ OfWs(part = "frames" /\ Frames!Next)
  \/ OfWs(part = "short frames" /\ ShortFrames!Next)
  \/ OfOutput(part = "output" /\ Output!Next)
  \/ OfClients(part = "clients" /\ Clients!Next)
  \/ OfClock(part = "clock" /\ Clock!Next)

Spec == Init /\ [][Next]_vars

-----------------------------------------------------------------------------
(***************************************************************************)
(* Properties: those of the modules, where they are explained.             *)
(***************************************************************************)
\* The variables of the part that moves keep their types.
TypesHold ==
  CASE part = "report" -> Report!TypeOK
    [] part = "year" -> Year!TypeOK
    [] part = "flash" -> Flash({0}, 2, 2)!TypeOK
    [] part = "chips" -> Flash({0, 1}, 0, 1)!TypeOK
    [] part = "server" -> Server!TypeOK
    [] part = "servers" -> Servers!TypeOK
    [] part = "frames" -> Frames!TypeOK
    [] part = "short frames" -> ShortFrames!TypeOK
    [] part = "output" -> Output!TypeOK
    [] part = "clients" -> Clients!TypeOK
    [] part = "clock" -> Clock!TypeOK

\* A7672E.c and server.py: the server accepts a report and shows the position of the record
\* and, if both minutes had six digits after the point, the one of the line, to four of
\* them, and its speed if that fits its byte.
PositionAsReported ==
  /\ Report!FullLine => Report!PositionAsReported
  /\ Report!RecordShown /\ Report!NoRefusal /\ Report!SlowSpeedKept

\* pmz_time.c: daylight saving is on between the last Sundays of March and October at
\* 01:00 UTC, the local time runs on with UTC, and the way back from local time is wrong
\* in three hours of the year at most.
LocalTime == [](Year!DstIsEuropean /\ Year!WrongOnlyAtChanges) /\ Year!LocalRuns

\* drv_sst26.c: whatever was opened, closed and restarted, an open entry selects its own
\* unlocked chip, what was reported written or erased is, and what was read is the memory.
FlashKeepsItsWord ==
  /\ part = "flash" => Flash({0}, 2, 2)!KeepsItsWord
  /\ part = "chips" => Flash({0, 1}, 0, 1)!KeepsItsWord

\* drv_sst26.c: no page changes but those an accepted call names, over every restart, and a
\* chip that is there is opened, also one that was left in quad mode.
OthersKept ==
  [][/\ part = "flash" => Flash({0}, 2, 2)!NamedChange /\ Flash({0}, 2, 2)!OpenEnds
     /\ part = "chips" => Flash({0, 1}, 0, 1)!NamedChange /\ Flash({0, 1}, 0, 1)!OpenEnds]_vars

\* tcp_server.c: unless a reset of the client has cut a node, the sender has the node it
\* is in, wherever connections end; and an owner is told the end of a connection once, and
\* of one it was told of, whoever of the owner and the client ends it first and whoever
\* comes next.  tcp_client.c: no socket is shared, lost or used after it was given back.
ConnectionsKept ==
  /\ part = "server" => Server!SenderHasNode
  /\ part = "servers" => Servers!EndToldOnce
  /\ part = "clients" => Clients!SocketsOwned

\* ws_client.c: what onMessage gets is what the server has sent, whatever control frames
\* come between the fragments (MessageStream), of a message whose first frame is at most a
\* byte longer than its last; no block is lost.  tcp_server.c: unless a node was cut,
\* nothing is skipped or sent twice.
MessageWhole ==
  /\ [][part = "frames" => \/ [Frames!Promise!Next]_(Frames!Promise!streamVars)
                           \/ Frames!LongLead /\ fOut' = Frames!Undefined]_vars
  /\ [](part = "frames" => Frames!NoLeak)
  /\ [](part = "server" => Server!StreamWhole)

\* ws_client.c: whichever allocation fails and wherever a connection ends, no frame that
\* was freed is kept and the bytes of a frame are inside its block.
FramesOwned == ShortFrames!OwnsItsFrames /\ ShortFrames!BytesFit

\* pmz_io_control.c: with the interrupt between any two assignments, the last
\* io_output_set_state wins over every pulse and blink.
LevelAsAsked == Output!LevelAsAsked

\* drv_mcp7940x.c: an idle driver has a chip that runs and, unless it was refused or has
\* failed, the time last set, however the transfers in between have failed.
ClocksAgree == Clock!ImageHeld /\ Clock!RunsWhenIdle /\ Clock!ClocksAgree
=============================================================================
