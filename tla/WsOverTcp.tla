------------------------------ MODULE WsOverTcp ------------------------------
(***************************************************************************)
(* The WebSocket client, firmware/net/client/ws_client.c, over the TCP     *)
(* clients it uses.                                                        *)
(*                                                                         *)
(* net_tasks() calls tcp_client_task and then ws_client_task; due says     *)
(* that the second is next.  sock_cb, the callback of the TCP client, runs *)
(* inside the first and does no more than note a state and a slot.  The    *)
(* application calls ws_client_open, _send and _close between two rounds.  *)
(* Frames are another module's (WsFrames): what is read here is a close    *)
(* frame or something else.                                                *)
(***************************************************************************)
EXTENDS TcpClient

CONSTANTS
  Polite,     \* TRUE if the application calls only after onOpen, and sends nothing after onError
  MayClose,   \* TRUE if the application calls ws_client_close
  Ping        \* TRUE if it has set a ping with ws_client_set_ping

ASSUME ApplicationAssumption == Polite \in BOOLEAN /\ MayClose \in BOOLEAN /\ Ping \in BOOLEAN

WsStates == {"INIT", "IDLE", "MANAGE_URL", "OPEN_CONNECTION", "WAIT_TCP_SOCKET_CONNECTION",
             "INIT_HANDSHAKE", "WAIT_HANDSHAKE_RESPONSE", "WAIT_HANDSHAKE_RESPONSE_PARSE",
             "CONNECTION_ESTABLISHED", "CLOSE", "ERROR", "RETRY", "HALT"}
Handshaking == {"INIT_HANDSHAKE", "WAIT_HANDSHAKE_RESPONSE", "WAIT_HANDSHAKE_RESPONSE_PARSE"}

VARIABLES
  ws,           \* wscData[0].state
  curSocketId,  \* the slot that connected last
  urlData,      \* "null", a url with a "valid" scheme, or one with an "other"
  connecting,   \* flags: CLIENT_CONNECTING
  shouldClose,  \* flags: CLIENT_SHOULD_CLOSE
  validated,    \* flags: REQUEST_HAS_UPGRADE, _HAS_CONNECTION and _VALID_ACCEPT
  due,          \* ws_client_task is called next
  isOpen,       \* history: onOpen has been called, and no onClose since
  good,         \* history: the last handshake response was a good one
  asked         \* history: who has asked for a close since ws_client_open, "nobody" if none

wsVars == <<ws, curSocketId, urlData, connecting, shouldClose, validated, due, isOpen, good, asked>>
tcpVars == vars
allVars == <<tcpVars, wsVars>>

\* ws_client_init; slot 1 is the code's number 0, which memset leaves in curSocketId.
WsInit ==
  /\ Init
  /\ ws = "INIT" /\ curSocketId = 1 /\ urlData = "null"
  /\ connecting = FALSE /\ shouldClose = FALSE /\ validated = FALSE
  /\ due = FALSE /\ isOpen = FALSE /\ good = FALSE /\ asked = "nobody"

-----------------------------------------------------------------------------
(***************************************************************************)
(* tcp_client_task and its callback.                                       *)
(***************************************************************************)
Told(e) == \E i \in DOMAIN reports'.events : reports'.events[i] = e

\* TX and RX change nothing; at most one of the others is told by one slot.
SockCb ==
  /\ ws' = IF Told("CONNECTED") THEN "INIT_HANDSHAKE"
           ELSE IF Told("DISCONNECTED") THEN "CLOSE"
           ELSE IF Told("TIMEOUT") \/ Told("ERROR") THEN "ERROR" ELSE ws
  /\ curSocketId' = IF Told("CONNECTED") THEN reports'.slot ELSE curSocketId

TcpStep ==
  /\ ~due /\ Task /\ SockCb
  /\ due' = (sid # 0 /\ sid' = 0)
  /\ UNCHANGED <<urlData, connecting, shouldClose, validated, isOpen, good, asked>>

NetworkStep == Network /\ UNCHANGED wsVars

-----------------------------------------------------------------------------
(***************************************************************************)
(* Calls of the TCP client, by ws_client_task or by the application.       *)
(***************************************************************************)
NoCall == Silent /\ UNCHANGED <<sid, slotVars, streamVars, netVars>>

\* tcp_client_close, refused without a handle.
TcpClose(s) == IF hSocket[s] = INVALID_SOCKET THEN NoCall ELSE Close(s)

\* Mutant of WsSend: a send that is refused is not noticed.
WsSendQuiet ==
  \/ ~connecting /\ Send(curSocketId, 1) /\ UNCHANGED ws
  \/ NoCall /\ UNCHANGED ws

\* The end of ws_client_send, and what it does to the state of the client: it is
\* an error while connecting, when the slot is not established or memory is short.
WsSend ==
  \/ ~connecting /\ Send(curSocketId, 1) /\ UNCHANGED ws
  \/ NoCall /\ ws' = "ERROR"

-----------------------------------------------------------------------------
(***************************************************************************)
(* ws_client_task, one action per branch.                                  *)
(***************************************************************************)
WsAt(st) == due /\ due' = FALSE /\ ws = st
FlagsKept == UNCHANGED <<connecting, shouldClose, validated>>
HistoryKept == UNCHANGED <<isOpen, good, asked>>

WsMoves(from, to) ==
  WsAt(from) /\ ws' = to /\ UNCHANGED <<curSocketId, urlData>> /\ FlagsKept /\ HistoryKept

WsWaits ==
  /\ NoCall
  /\ \E st \in {"IDLE", "WAIT_TCP_SOCKET_CONNECTION", "WAIT_HANDSHAKE_RESPONSE",
                "CONNECTION_ESTABLISHED", "RETRY", "HALT"} :
       /\ st = "CONNECTION_ESTABLISHED" => ~Readable(curSocketId)
       /\ WsMoves(st, st)

Ready == WsMoves("INIT", "IDLE") /\ NoCall

\* Only "ws" and "wss" can be connected; the url is read without a test.
ManageUrl ==
  /\ urlData # "null" /\ NoCall
  /\ WsMoves("MANAGE_URL", IF urlData = "valid" THEN "OPEN_CONNECTION" ELSE "HALT")

OpenConnection ==
  \/ Open("DNS_RESOLVE_HOST_ADDRESS") /\ WsMoves("OPEN_CONNECTION", "WAIT_TCP_SOCKET_CONNECTION")
  \/ Idle = {} /\ NoCall /\ WsMoves("OPEN_CONNECTION", "ERROR")

\* The request is queued, or cannot be made or queued.
InitHandshake ==
  \/ Send(curSocketId, 1) /\ WsMoves("INIT_HANDSHAKE", "WAIT_HANDSHAKE_RESPONSE")
  \/ TcpClose(curSocketId) /\ WsMoves("INIT_HANDSHAKE", "ERROR")

\* The header is complete and is read; more than the header may be there.
ResponseRead ==
  /\ Readable(curSocketId) /\ (GetRx(curSocketId) \/ NoCall)
  /\ WsMoves("WAIT_HANDSHAKE_RESPONSE", "WAIT_HANDSHAKE_RESPONSE_PARSE")

\* The flags are raised by a good response and lowered by nothing.
HandshakeParsed(isGood) == good' = isGood /\ validated' = (validated \/ isGood)

ResponseParsed(isGood) ==
  /\ WsAt("WAIT_HANDSHAKE_RESPONSE_PARSE") /\ HandshakeParsed(isGood)
  /\ IF validated'
     THEN ws' = "CONNECTION_ESTABLISHED" /\ connecting' = FALSE /\ isOpen' = TRUE /\ NoCall
     ELSE ws' = "ERROR" /\ UNCHANGED <<connecting, isOpen>> /\ TcpClose(curSocketId)
  /\ UNCHANGED <<curSocketId, urlData, shouldClose, asked>>

\* Data without a close frame.
DataRead == GetRx(curSocketId) /\ WsMoves("CONNECTION_ESTABLISHED", "CONNECTION_ESTABLISHED")

\* handle_control_frame: a close frame is sent back, if there is memory for it.
CloseFrameRead ==
  /\ WsAt("CONNECTION_ESTABLISHED") /\ Readable(curSocketId) /\ Pull(curSocketId)
  /\ Push(curSocketId, 1) \/ UNCHANGED streamVars
  /\ Silent /\ UNCHANGED <<sid, slotVars>>
  /\ shouldClose' = TRUE /\ asked' = IF asked = "nobody" THEN "server" ELSE asked
  /\ UNCHANGED <<ws, curSocketId, urlData, connecting, validated, isOpen, good>>

PingSent ==
  /\ Ping /\ ~Readable(curSocketId) /\ WsAt("CONNECTION_ESTABLISHED") /\ WsSend
  /\ UNCHANGED <<curSocketId, urlData>> /\ FlagsKept /\ HistoryKept

\* Mutant of WsError: the TCP client is not closed.
WsErrorKept == WsMoves("ERROR", "CLOSE") /\ NoCall

WsError == WsMoves("ERROR", "CLOSE") /\ TcpClose(curSocketId)

\* Mutant of WsClose: the url is always freed.
WsCloseFreed ==
  /\ WsAt("CLOSE") /\ isOpen' = FALSE /\ urlData' = "null"
  /\ ws' = IF shouldClose THEN "INIT" ELSE "RETRY"
  /\ NoCall /\ FlagsKept /\ UNCHANGED <<curSocketId, good, asked>>

\* Mutant of WsClose: only a close that was asked for is told.
WsCloseToldIfAsked ==
  /\ WsAt("CLOSE") /\ isOpen' = (isOpen /\ ~shouldClose)
  /\ IF shouldClose THEN ws' = "INIT" /\ urlData' = "null"
                    ELSE ws' = "RETRY" /\ UNCHANGED urlData
  /\ NoCall /\ FlagsKept /\ UNCHANGED <<curSocketId, good, asked>>

\* Mutant of WsClose: nothing is retried.
WsCloseGivesUp ==
  /\ WsAt("CLOSE") /\ isOpen' = FALSE /\ ws' = "INIT" /\ urlData' = "null"
  /\ NoCall /\ FlagsKept /\ UNCHANGED <<curSocketId, good, asked>>

WsClose ==
  /\ WsAt("CLOSE") /\ isOpen' = FALSE
  /\ IF shouldClose THEN ws' = "INIT" /\ urlData' = "null"
                    ELSE ws' = "RETRY" /\ UNCHANGED urlData
  /\ NoCall /\ FlagsKept /\ UNCHANGED <<curSocketId, good, asked>>

\* After 30 s; a TCP slot that failed then rests for 5 s and has done so before.
WsRetry ==
  /\ \A s \in Slots : state[s] \notin {"CONNECTION_CLOSE", "WAIT_FOR_RETRY"}
  /\ WsMoves("RETRY", "MANAGE_URL") /\ NoCall

WsTask ==
  \/ WsWaits \/ Ready \/ ManageUrl \/ OpenConnection \/ InitHandshake \/ ResponseRead
  \/ \E g \in BOOLEAN : ResponseParsed(g)
  \/ DataRead \/ CloseFrameRead \/ PingSent \/ WsError \/ WsClose \/ WsRetry

-----------------------------------------------------------------------------
(***************************************************************************)
(* The application.                                                        *)
(***************************************************************************)
Between == sid = 0 /\ ~due

\* ws_client_open of a url that can be parsed.
WsOpen ==
  /\ Between /\ ws = "IDLE" /\ ws' = "MANAGE_URL"
  /\ urlData' \in {"valid", "other"} /\ connecting' = TRUE /\ asked' = "nobody"
  /\ NoCall /\ UNCHANGED <<curSocketId, shouldClose, validated, due, isOpen, good>>

SendCall ==
  /\ Between /\ (Polite => isOpen /\ ws = "CONNECTION_ESTABLISHED") /\ WsSend
  /\ UNCHANGED <<curSocketId, urlData, due>> /\ FlagsKept /\ HistoryKept

\* ws_client_close: the state is left for the callback of the TCP client to change.
CloseCall ==
  /\ Between /\ MayClose /\ (Polite => isOpen)
  /\ TcpClose(curSocketId) /\ shouldClose' = TRUE /\ asked' = "application"
  /\ UNCHANGED <<ws, curSocketId, urlData, connecting, validated, due, isOpen, good>>

Application == WsOpen \/ SendCall \/ CloseCall

WsNext == TcpStep \/ NetworkStep \/ WsTask \/ Application

WsSpec == WsInit /\ [][WsNext]_allVars

(***************************************************************************)
(* The main loop turns, time passes (see TcpClient), and the application   *)
(* opens a client that is idle.  Nothing is assumed of the server.         *)
(***************************************************************************)
WsFairSpec ==
  /\ WsSpec
  /\ WF_allVars(~due /\ TaskCalled /\ TcpStep) /\ WF_allVars(WsTask) /\ SF_allVars(WsRetry) /\ SF_allVars(PingSent)
  /\ \A s \in Slots : /\ WF_allVars(SlotTask(s) /\ TcpStep)
                      /\ SF_allVars(Resolved(s) /\ TcpStep) /\ SF_allVars(ConnectTimeout(s) /\ TcpStep)
                      /\ SF_allVars(RetryElapsed(s) /\ TcpStep)

-----------------------------------------------------------------------------
(***************************************************************************)
(* Properties.                                                             *)
(***************************************************************************)
\* Types of the variables.
WsTypeOK ==
  /\ ws \in WsStates /\ curSocketId \in Slots /\ urlData \in {"null", "valid", "other"}
  /\ {connecting, shouldClose, validated, due, isOpen, good} \subseteq BOOLEAN
  /\ asked \in {"nobody", "server", "application"}

\* While the client handshakes or is established, its slot is: it never sends or
\* reads on a connection that is over or that is not its own.
OverItsConnection ==
  ws \in Handshaking \cup {"CONNECTION_ESTABLISHED"} => state[curSocketId] = "CONNECTION_STABLISHED"

\* Every slot that connects or is connected is the one the client waits for, uses
\* or is about to close: no connection is left behind by an error and a retry.
NoOrphans ==
  \A s \in Slots :
    /\ PhaseOf(s) = "asked" => ws = "WAIT_TCP_SOCKET_CONNECTION"
    /\ PhaseOf(s) = "up" => s = curSocketId /\ ws \in Handshaking \cup {"CONNECTION_ESTABLISHED", "ERROR"}
    /\ \A t \in Slots : PhaseOf(s) # "none" /\ PhaseOf(t) # "none" => s = t

\* The url is there whenever it is read (ManageUrl, OpenConnection, InitHandshake
\* follow the pointer without a test): it is freed only when no connection, not
\* even one that is still being opened, can come back to it.
UrlPresent == ws \in {"MANAGE_URL", "OPEN_CONNECTION"} \cup Handshaking => urlData # "null"

\* The application is not told onOpen twice without an onClose between.
OpenToldOnce == ws \in Handshaking \cup {"WAIT_TCP_SOCKET_CONNECTION", "RETRY", "IDLE"} => ~isOpen

\* A wait for the TCP client ends: whatever becomes of the open, the client is told.
TcpAnswers == ws = "WAIT_TCP_SOCKET_CONNECTION" ~> ws # "WAIT_TCP_SOCKET_CONNECTION"

\* A connection that is lost, refused or fails is tried again, unless a close was asked for.
LossRetried == (ws \in {"CLOSE", "ERROR"} /\ ~shouldClose) ~> ws = "WAIT_TCP_SOCKET_CONNECTION"

\* An established client whose connection is lost says so.
LossTold == (ws = "CONNECTION_ESTABLISHED" /\ Socket(curSocketId) = "lost") ~> ws = "CLOSE"

\* A client that is asked to close does: ws_client_close answers "Closing...".
CloseEnds == asked = "application" /\ isOpen ~> ~isOpen

\* Established means that the server has agreed to this connection, which is what
\* the three REQUEST flags are tested for.
ServerAgreed == ws = "CONNECTION_ESTABLISHED" => good

\* A connection that ends is retried unless one side asked for its close ("CLOSE ->
\* client retry"): the client does not go back to idle by itself.
IdleOnlyIfAsked == [][ws = "CLOSE" /\ ws' = "INIT" => asked # "nobody"]_allVars
===============================================================================
