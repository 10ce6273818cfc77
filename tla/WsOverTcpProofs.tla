--------------------------- MODULE WsOverTcpProofs ---------------------------
(***************************************************************************)
(* Proofs about the WebSocket client over the TCP clients (WsOverTcp), for *)
(* any number of slots and sockets: whatever the network, the server and   *)
(* time do, the client has one connection at most and it is the one it     *)
(* waits for, uses or is about to close; the url is there whenever it is   *)
(* read; and an open is told once.                                         *)
(*                                                                         *)
(* The argument goes through the phases of the slots ("none", "asked" or   *)
(* "up", see ClientPromise), which is all that ws_client.c knows of them:  *)
(* a step of tcp_client_task changes the phase of one slot and tells that  *)
(* change in its callback (TaskEffect), ws_client.c asks for one only in   *)
(* OPEN_CONNECTION, and it closes the slot it remembers before it leaves   *)
(* the states in which that slot may be up (CloseEndsAll).  It needs the   *)
(* inductive invariant of the TCP clients: a slot that is up has a handle, *)
(* without which tcp_client_close is refused.                              *)
(***************************************************************************)
EXTENDS WsOverTcp, TcpClientProofs

-----------------------------------------------------------------------------
(***************************************************************************)
(* What the TCP clients see of ws_client.c.                                *)
(***************************************************************************)

\* A close frame is read and answered: tcp_client_get_rx and tcp_client_send in one step.
CloseFrameTcp ==
  /\ state[curSocketId] = "CONNECTION_STABLISHED"
  /\ Push(curSocketId, 1) \/ UNCHANGED streamVars
  /\ Pull(curSocketId) /\ Silent /\ UNCHANGED <<sid, slotVars>>

\* Whatever the WebSocket client does is, to the TCP client, a step of its own.
LEMMA WsCalls ==
  ASSUME TypeOK, WsTypeOK, WsNext \/ UNCHANGED allVars
  PROVE  Next \/ NoCall \/ CloseFrameTcp \/ UNCHANGED vars
<1>1. curSocketId \in Slots
  BY DEF WsTypeOK
<1>2. ASSUME Send(curSocketId, 1) PROVE Next
  <2>1. 1 \in 1..MaxBytes
    <3>1. accepted[curSocketId] \in Seq(Nat) /\ Len(accepted[curSocketId]) + 1 <= MaxBytes
      BY <1>1, <1>2 DEF TypeOK, Bytes, Send, Push
    <3>2. QED
      BY <3>1, SizesAssumption
  <2>2. QED
    BY <1>1, <1>2, <2>1 DEF Next, Owner
<1>3. ASSUME TcpClose(curSocketId) PROVE Next \/ NoCall
  BY <1>1, <1>3 DEF TcpClose, Next, Owner
<1>4. ASSUME GetRx(curSocketId) PROVE Next
  BY <1>1, <1>4 DEF Next, Owner
<1>5. ASSUME Open("DNS_RESOLVE_HOST_ADDRESS") PROVE Next
  BY <1>5 DEF Next, Owner
<1>6. CASE CloseFrameRead
  BY <1>6 DEF CloseFrameRead, CloseFrameTcp, Readable
<1>7. CASE WsTask
  BY <1>2, <1>3, <1>4, <1>5, <1>6, <1>7
  DEF WsTask, WsWaits, Ready, ManageUrl, OpenConnection, InitHandshake, ResponseRead, ResponseParsed,
      DataRead, PingSent, WsError, WsClose, WsRetry, WsSend
<1>8. CASE Application
  BY <1>2, <1>3, <1>8 DEF Application, WsOpen, SendCall, CloseCall, WsSend
<1>9. CASE TcpStep \/ NetworkStep \/ UNCHANGED allVars
  BY <1>9 DEF TcpStep, NetworkStep, Next, allVars, tcpVars
<1>10. QED
  BY <1>7, <1>8, <1>9 DEF WsNext

\* The streams of the TCP clients are as sound under ws_client.c as under any owner.
LEMMA WsTcpInductive ==
  TcpIInv /\ WsTypeOK /\ [WsNext]_allVars => TcpIInv'
<1> SUFFICES ASSUME TcpIInv, WsTypeOK, [WsNext]_allVars PROVE TcpIInv'
  OBVIOUS
<1>1. TypeOK /\ curSocketId \in Slots
  BY DEF TcpIInv, WsTypeOK
<1>2. CASE Next \/ UNCHANGED vars
  BY <1>2, TcpInductive
<1>3. CASE NoCall
  <2>1. TypeOK'
    BY <1>1, <1>3 DEF NoCall, Silent, NoReport, TypeOK, slotVars, streamVars, netVars
  <2>2. QED
    BY <1>3, <2>1, NoSlot DEF NoCall, TcpIInv, slotVars, streamVars
<1>4. CASE CloseFrameTcp
  <2> PICK s \in Slots : s = curSocketId
    BY <1>1
  <2>1. /\ state' = state /\ hSocket' = hSocket /\ sid' = sid
        /\ sock' = sock /\ holder' = holder /\ reports' = NoReport
        /\ rx' = [rx EXCEPT ![hSocket[curSocketId]] = FALSE]
    BY <1>4 DEF CloseFrameTcp, slotVars, Pull, Silent
  <2>2. rx' \in [Handles -> BOOLEAN]
    BY <1>1, <2>1 DEF TypeOK
  <2>3. CASE Push(curSocketId, 1)
    <3>1. PICK n \in 1..MaxBytes : Push(s, n)
      <4>1. accepted[s] \in Seq(Nat) /\ Len(accepted[s]) + 1 <= MaxBytes
        BY <1>1, <2>3 DEF TypeOK, Bytes, Push
      <4>2. 1 \in 1..MaxBytes
        BY <4>1, SizesAssumption
      <4>3. QED
        BY <2>3, <4>2
    <3>2. SlotInv(s)' /\ OnlySlot(s)
      <4>1. state[s] = "CONNECTION_STABLISHED"
        BY <1>4 DEF CloseFrameTcp
      <4>2. QED
        BY <2>1, <3>1, <4>1, PushSlot
    <3>3. TypeOK'
      <4>1. /\ accepted' \in [Slots -> Bytes] /\ datNode' \in [Slots -> Seq(Bytes)]
            /\ stx' = stx /\ offset' = offset /\ delivered' = delivered
        BY <1>1, <3>1, PushTyped
      <4>2. QED
        <5>1. reports' \in ReportType
          BY <2>1, ReportsTyped DEF Silent
        <5>2. QED
          BY <1>1, <2>1, <2>2, <4>1, <5>1 DEF TypeOK, ReportType
    <3>4. QED
      BY <3>2, <3>3, SameSlotKept DEF OnlySlot, TcpIInv
  <2>4. CASE UNCHANGED streamVars
    <3>1. TypeOK'
      BY <1>1, <2>1, <2>2, <2>4 DEF TypeOK, streamVars, NoReport
    <3>2. QED
      BY <1>4, <2>4, <3>1, NoSlot DEF CloseFrameTcp, TcpIInv
  <2>5. QED
    BY <1>4, <2>3, <2>4 DEF CloseFrameTcp
<1>5. QED
  BY <1>1, <1>2, <1>3, <1>4, WsCalls

-----------------------------------------------------------------------------
(***************************************************************************)
(* What ws_client.c sees of the TCP clients: phases and callbacks.         *)
(***************************************************************************)
Small == {"TX", "RX"}

\* Every phase is as it was, and nothing is told that sock_cb takes notice of.
NothingTold ==
  /\ \A s \in Slots : PhaseOf(s)' = PhaseOf(s)
  /\ \A i \in DOMAIN reports'.events : reports'.events[i] \in Small

\* One slot changes its phase and tells it.
TellsOf(s) ==
  /\ \A t \in Slots \ {s} : PhaseOf(t)' = PhaseOf(t)
  /\ reports'.slot = s
  /\ \/ PhaseOf(s) = "asked" /\ PhaseOf(s)' = "up" /\ reports'.events = <<"CONNECTED">>
     \/ /\ PhaseOf(s) = "asked" /\ PhaseOf(s)' = "none"
        /\ reports'.events = <<"TIMEOUT">> \/ reports'.events = <<"ERROR">>
     \/ PhaseOf(s) = "up" /\ PhaseOf(s)' = "none" /\ reports'.events = <<"DISCONNECTED">>

\* A call of the TCP task tells the WebSocket client nothing, or of one slot what has become of it.
LEMMA TaskEffect ==
  ASSUME TypeOK, Task
  PROVE  NothingTold \/ \E s \in Slots : TellsOf(s)
<1> USE DEF PhaseOf, Resolving, Connecting, At, Goto
<1>1. CASE TaskCalled
  BY <1>1 DEF TaskCalled, NothingTold, Silent, NoReport, slotVars
<1>2. ASSUME NEW s \in Slots, Waits(s) \/ OpenSocket(s) \/ Encrypt(s) \/ CloseConnection(s)
      PROVE  NothingTold
  BY <1>2 DEF Waits, OpenSocket, Encrypt, CloseConnection, NothingTold, Silent, NoReport, slotVars, TypeOK
<1>3. ASSUME NEW s \in Slots, NEW from, NEW to, Moves(s, from, to), Silent,
             \/ from \in Resolving \cup Connecting /\ to \in Resolving \cup Connecting
             \/ from = "WAIT_FOR_RETRY" /\ to = "IDLE"
      PROVE  NothingTold
  BY <1>3 DEF Moves, NothingTold, Silent, NoReport, TypeOK
<1>4. ASSUME NEW s \in Slots, Resolve(s) \/ NotSecured(s) \/ Elapses(s)
      PROVE  NothingTold
  BY <1>3, <1>4 DEF Resolve, NotSecured, Elapses, Resolved, ConnectTimeout, RetryElapsed
<1>5. ASSUME NEW s \in Slots, Unresolved(s) \/ Unconnected(s) \/ NoSocket(s)
      PROVE  TellsOf(s)
  BY <1>5 DEF Unresolved, Unconnected, NoSocket, Moves, TellsOf, Report, TypeOK
<1>6. ASSUME NEW s \in Slots, Connected(s) \/ Secured(s) \/ Disconnected(s)
      PROVE  TellsOf(s)
  BY <1>6 DEF Connected, Secured, Established, Disconnected, Moves, TellsOf, Report, TypeOK
<1>7. ASSUME NEW s \in Slots, SendNothing(s) \/ Sends(s)
      PROVE  NothingTold
  <2>1. \A t \in Slots : PhaseOf(t)' = PhaseOf(t)
    BY <1>7 DEF SendNothing, Sends, SendSome, SendRest, InConnection, slotVars
  <2>2. reports'.events \in {<<>>, Append(<<>>, "RX"), <<"TX">>, Append(<<"TX">>, "RX")}
    BY <1>7 DEF SendNothing, Sends, SendSome, SendRest, ReportIfRead, Report
  <2>3. \A i \in DOMAIN reports'.events : reports'.events[i] \in Small
    BY <2>2 DEF Small
  <2>4. QED
    BY <2>1, <2>3 DEF NothingTold
<1>8. QED
  BY <1>1, <1>2, <1>4, <1>5, <1>6, <1>7 DEF Task, Advances

\* What a callback makes of the state of the WebSocket client.
LEMMA SockCbEffect ==
  ASSUME TypeOK, TcpStep
  PROVE  \/ NothingTold /\ ws' = ws /\ curSocketId' = curSocketId
         \/ \E s \in Slots :
              /\ \A t \in Slots \ {s} : PhaseOf(t)' = PhaseOf(t)
              /\ \/ /\ PhaseOf(s) = "asked" /\ PhaseOf(s)' = "up"
                    /\ ws' = "INIT_HANDSHAKE" /\ curSocketId' = s
                 \/ /\ PhaseOf(s) = "asked" /\ PhaseOf(s)' = "none"
                    /\ ws' = "ERROR" /\ curSocketId' = curSocketId
                 \/ /\ PhaseOf(s) = "up" /\ PhaseOf(s)' = "none"
                    /\ ws' = "CLOSE" /\ curSocketId' = curSocketId
<1>1. Task /\ SockCb
  BY DEF TcpStep
<1>2. CASE NothingTold
  BY <1>1, <1>2 DEF NothingTold, SockCb, Told, Small
<1>3. ASSUME NEW s \in Slots, TellsOf(s)
      PROVE  /\ \A t \in Slots \ {s} : PhaseOf(t)' = PhaseOf(t)
             /\ \/ /\ PhaseOf(s) = "asked" /\ PhaseOf(s)' = "up"
                   /\ ws' = "INIT_HANDSHAKE" /\ curSocketId' = s
                \/ /\ PhaseOf(s) = "asked" /\ PhaseOf(s)' = "none"
                   /\ ws' = "ERROR" /\ curSocketId' = curSocketId
                \/ /\ PhaseOf(s) = "up" /\ PhaseOf(s)' = "none"
                   /\ ws' = "CLOSE" /\ curSocketId' = curSocketId
  <2>1. \A e, d : reports'.events = <<e>> => (Told(d) <=> d = e)
    BY DEF Told
  <2>2. QED
    BY <1>1, <1>3, <2>1 DEF TellsOf, SockCb
<1>4. QED
  BY <1>1, <1>2, <1>3, TaskEffect

\* Every step keeps the types.
LEMMA WsTypes == WsTypeOK /\ TypeOK /\ [WsNext]_allVars => WsTypeOK'
<1> SUFFICES ASSUME WsTypeOK, TypeOK, [WsNext]_allVars PROVE WsTypeOK'
  OBVIOUS
<1> USE DEF WsTypeOK
<1>1. CASE TcpStep
  <2>1. ws' \in WsStates /\ curSocketId' \in Slots
    BY <1>1, SockCbEffect DEF WsStates
  <2>2. QED
    BY <1>1, <2>1 DEF TcpStep
<1>2. CASE WsTask
  BY <1>2 DEF WsStates, WsTask, WsWaits, Ready, ManageUrl, OpenConnection, InitHandshake, ResponseRead,
     ResponseParsed, HandshakeParsed, DataRead, CloseFrameRead, PingSent, WsError, WsClose, WsRetry,
     WsSend, WsMoves, WsAt, FlagsKept, HistoryKept
<1>3. CASE Application
  BY <1>3 DEF WsStates, Application, WsOpen, SendCall, CloseCall, WsSend, FlagsKept, HistoryKept
<1>4. CASE NetworkStep \/ UNCHANGED allVars
  BY <1>4 DEF NetworkStep, allVars, wsVars
<1>5. QED
  BY <1>1, <1>2, <1>3, <1>4 DEF WsNext

-----------------------------------------------------------------------------
(***************************************************************************)
(* The inductive invariant, under an application that calls only when it   *)
(* has been told that the connection is open (Polite).  UrlPresent is made *)
(* true of every state but the two in which the url may have been freed,   *)
(* and OpenToldOnce of every state but the three in which onOpen has been  *)
(* called: only so do they survive the callbacks, which lead from any of   *)
(* those states to INIT_HANDSHAKE, CLOSE or ERROR.                         *)
(***************************************************************************)
UrlKept == ws \notin {"INIT", "IDLE"} => urlData # "null"
OpenNow == isOpen => ws \in {"CONNECTION_ESTABLISHED", "ERROR", "CLOSE"}

WsIInv == TcpIInv /\ WsTypeOK /\ NoOrphans /\ UrlKept /\ OpenNow

\* Nobody waits and nobody is connected.
AllNone == \A s \in Slots : PhaseOf(s) = "none"

\* What a slot is to its owner depends on its state only.
LEMMA PhasesFollowStates ==
  ASSUME state' = state
  PROVE  \A s \in Slots : PhaseOf(s)' = PhaseOf(s)
BY DEF PhaseOf

\* Where a slot may be something else than free.
LEMMA NoneElsewhere ==
  ASSUME NoOrphans, ws \notin Handshaking \cup {"WAIT_TCP_SOCKET_CONNECTION", "CONNECTION_ESTABLISHED", "ERROR"}
  PROVE  AllNone
BY DEF NoOrphans, AllNone, PhaseOf, Handshaking

\* tcp_client_close of the slot the client remembers leaves no connection at all.
LEMMA CloseEndsAll ==
  ASSUME TcpIInv, WsTypeOK, NoOrphans, ws # "WAIT_TCP_SOCKET_CONNECTION", TcpClose(curSocketId)
  PROVE  AllNone'
<1>1. PICK c \in Slots : c = curSocketId
  BY DEF WsTypeOK
<1>2. \A s \in Slots : PhaseOf(s) \in {"none", "up"} /\ (PhaseOf(s) = "up" => s = c)
  BY <1>1 DEF NoOrphans, PhaseOf
<1>3. CASE hSocket[c] = INVALID_SOCKET
  <2>1. state' = state
    BY <1>1, <1>3 DEF TcpClose, NoCall, slotVars
  <2>2. PhaseOf(c) # "up"
    BY <1>3 DEF TcpIInv, SlotInv, HandleInv, HasSocket, Up, PhaseOf
  <2>3. QED
    BY <1>2, <2>1, <2>2, PhasesFollowStates DEF AllNone
<1>4. CASE hSocket[c] # INVALID_SOCKET
  <2>1. state' = [state EXCEPT ![c] = "CONNECTION_CLOSE"]
    BY <1>1, <1>4 DEF TcpClose, Close, Goto
  <2>2. PhaseOf(c)' = "none" /\ \A s \in Slots \ {c} : PhaseOf(s)' = PhaseOf(s)
    BY <2>1 DEF TcpIInv, TypeOK, PhaseOf, Resolving, Connecting
  <2>3. QED
    BY <1>2, <2>2 DEF AllNone
<1>5. QED
  BY <1>3, <1>4

\* A step of tcp_client_task and its callback.
LEMMA TcpStepKeeps ==
  ASSUME WsIInv, TcpStep
  PROVE  NoOrphans' /\ UrlKept' /\ OpenNow'
<1>1. urlData' = urlData /\ isOpen' = isOpen /\ TypeOK /\ ws \in WsStates
  BY DEF TcpStep, WsIInv, TcpIInv, WsTypeOK
<1>2. CASE NothingTold /\ ws' = ws /\ curSocketId' = curSocketId
  BY <1>1, <1>2 DEF WsIInv, NothingTold, NoOrphans, UrlKept, OpenNow
<1>3. ASSUME NEW s \in Slots,
             \A t \in Slots \ {s} : PhaseOf(t)' = PhaseOf(t),
             PhaseOf(s) = "asked", PhaseOf(s)' = "up", ws' = "INIT_HANDSHAKE", curSocketId' = s
      PROVE  NoOrphans' /\ UrlKept' /\ OpenNow'
  <2>1. ws = "WAIT_TCP_SOCKET_CONNECTION" /\ \A t \in Slots \ {s} : PhaseOf(t)' = "none"
    BY <1>3 DEF WsIInv, NoOrphans
  <2>2. NoOrphans'
    BY <1>3, <2>1 DEF NoOrphans, Handshaking
  <2>3. UrlKept' /\ OpenNow'
    BY <1>1, <2>1 DEF WsIInv, UrlKept, OpenNow
  <2>4. QED
    BY <2>2, <2>3
<1>4. ASSUME NEW s \in Slots,
             \A t \in Slots \ {s} : PhaseOf(t)' = PhaseOf(t),
             PhaseOf(s) # "none", PhaseOf(s)' = "none", ws' \in {"ERROR", "CLOSE"}, curSocketId' = curSocketId
      PROVE  NoOrphans' /\ UrlKept' /\ OpenNow'
  <2>1. ws \notin {"INIT", "IDLE"} /\ \A t \in Slots : PhaseOf(t)' = "none"
    BY <1>4 DEF WsIInv, NoOrphans, PhaseOf, Handshaking
  <2>2. NoOrphans'
    BY <2>1 DEF NoOrphans
  <2>3. UrlKept' /\ OpenNow'
    BY <1>1, <1>4, <2>1 DEF WsIInv, UrlKept, OpenNow
  <2>4. QED
    BY <2>2, <2>3
<1>5. QED
  BY <1>1, <1>2, <1>3, <1>4, SockCbEffect

\* A branch of ws_client_task that leaves the slots alone.
LEMMA StillPhases ==
  ASSUME WsIInv, state' = state, curSocketId' = curSocketId,
         \/ ws' = ws
         \/ ws \in Handshaking /\ ws' \in Handshaking \cup {"CONNECTION_ESTABLISHED"}
         \/ ws = "CONNECTION_ESTABLISHED" /\ ws' = "ERROR"
         \/ AllNone /\ ws' # "WAIT_TCP_SOCKET_CONNECTION"
  PROVE  NoOrphans'
<1>1. \A s \in Slots : PhaseOf(s)' = PhaseOf(s)
  BY PhasesFollowStates
<1>2. QED
  BY <1>1 DEF WsIInv, NoOrphans, Handshaking, AllNone

\* The task of the WebSocket client keeps the three.
LEMMA TaskKeeps ==
  ASSUME WsIInv, WsTask
  PROVE  NoOrphans' /\ UrlKept' /\ OpenNow'
<1> USE DEF WsAt, WsMoves, FlagsKept, HistoryKept
<1>1. TypeOK /\ NoOrphans /\ ws \in WsStates
  BY DEF WsIInv, TcpIInv, WsTypeOK
<1>2. NoCall => state' = state
  BY DEF NoCall, slotVars
<1>3. \A s : Send(s, 1) \/ GetRx(s) => state' = state
  BY DEF Send, GetRx, slotVars
<1>4. CASE WsWaits
  <2>1. ws' = ws /\ curSocketId' = curSocketId /\ urlData' = urlData /\ isOpen' = isOpen /\ state' = state
    BY <1>2, <1>4 DEF WsWaits
  <2>2. QED
    BY <2>1, StillPhases DEF WsIInv, UrlKept, OpenNow
<1>5. CASE Ready \/ ManageUrl \/ WsRetry
  <2>1. /\ ws \in {"INIT", "MANAGE_URL", "RETRY"} /\ ws' \in {"IDLE", "OPEN_CONNECTION", "HALT", "MANAGE_URL"}
        /\ ws = "INIT" => ws' = "IDLE"
        /\ curSocketId' = curSocketId /\ urlData' = urlData /\ isOpen' = isOpen /\ state' = state
    BY <1>2, <1>5 DEF Ready, ManageUrl, WsRetry
  <2>2. AllNone
    BY <1>1, <2>1, NoneElsewhere DEF Handshaking
  <2>3. NoOrphans'
    BY <2>1, <2>2, StillPhases
  <2>4. UrlKept' /\ OpenNow'
    BY <2>1 DEF WsIInv, UrlKept, OpenNow
  <2>5. QED
    BY <2>3, <2>4
<1>6. CASE OpenConnection
  <2>1. /\ ws = "OPEN_CONNECTION" /\ ws' \in {"WAIT_TCP_SOCKET_CONNECTION", "ERROR"}
        /\ curSocketId' = curSocketId /\ urlData' = urlData /\ isOpen' = isOpen
    BY <1>6 DEF OpenConnection
  <2>2. AllNone
    BY <1>1, <2>1, NoneElsewhere DEF Handshaking
  <2>3. UrlKept' /\ OpenNow'
    BY <2>1 DEF WsIInv, UrlKept, OpenNow
  <2>4. CASE NoCall /\ ws' = "ERROR"
    BY <1>2, <2>1, <2>2, <2>3, <2>4, StillPhases
  <2>5. CASE Open("DNS_RESOLVE_HOST_ADDRESS") /\ ws' = "WAIT_TCP_SOCKET_CONNECTION"
    <3>1. FirstIdle \in Slots /\ state' = [state EXCEPT ![FirstIdle] = "DNS_RESOLVE_HOST_ADDRESS"]
      BY <2>5, FirstIdleIsIdle DEF Open, Goto, Idle
    <3>2. \A s \in Slots : PhaseOf(s)' = IF s = FirstIdle THEN "asked" ELSE "none"
      BY <1>1, <2>2, <3>1 DEF AllNone, PhaseOf, TypeOK, Resolving, Connecting
    <3>3. NoOrphans'
      BY <2>5, <3>2 DEF NoOrphans
    <3>4. QED
      BY <2>3, <3>3
  <2>6. QED
    BY <1>6, <2>4, <2>5 DEF OpenConnection
<1>7. CASE InitHandshake
  <2>1. /\ ws = "INIT_HANDSHAKE" /\ ws' \in {"WAIT_HANDSHAKE_RESPONSE", "ERROR"}
        /\ curSocketId' = curSocketId /\ urlData' = urlData /\ isOpen' = isOpen
    BY <1>7 DEF InitHandshake
  <2>2. UrlKept' /\ OpenNow'
    BY <2>1 DEF WsIInv, UrlKept, OpenNow
  <2>3. CASE Send(curSocketId, 1) /\ ws' = "WAIT_HANDSHAKE_RESPONSE"
    <3>1. state' = state
      BY <1>3, <2>3
    <3>2. QED
      BY <2>1, <2>2, <2>3, <3>1, StillPhases DEF Handshaking
  <2>4. CASE TcpClose(curSocketId)
    <3>1. AllNone'
      BY <2>1, <2>4, CloseEndsAll DEF WsIInv
    <3>2. QED
      BY <2>2, <3>1 DEF AllNone, NoOrphans
  <2>5. QED
    BY <1>7, <2>3, <2>4 DEF InitHandshake
<1>8. CASE ResponseRead \/ DataRead \/ CloseFrameRead \/ PingSent
  <2>1. /\ \/ ws = "WAIT_HANDSHAKE_RESPONSE" /\ ws' = "WAIT_HANDSHAKE_RESPONSE_PARSE"
           \/ ws = "CONNECTION_ESTABLISHED" /\ ws' \in {"CONNECTION_ESTABLISHED", "ERROR"}
        /\ curSocketId' = curSocketId /\ urlData' = urlData /\ isOpen' = isOpen /\ state' = state
    BY <1>2, <1>3, <1>8 DEF ResponseRead, DataRead, CloseFrameRead, PingSent, WsSend, slotVars
  <2>2. NoOrphans'
    BY <2>1, StillPhases DEF Handshaking
  <2>3. QED
    BY <2>1, <2>2 DEF WsIInv, UrlKept, OpenNow
<1>9. ASSUME NEW g \in BOOLEAN, ResponseParsed(g)
      PROVE  NoOrphans' /\ UrlKept' /\ OpenNow'
  <2>1. ws = "WAIT_HANDSHAKE_RESPONSE_PARSE" /\ curSocketId' = curSocketId /\ urlData' = urlData
    BY <1>9 DEF ResponseParsed
  <2>2. CASE ws' = "CONNECTION_ESTABLISHED" /\ NoCall
    <3>1. NoOrphans'
      BY <1>2, <2>1, <2>2, StillPhases DEF Handshaking
    <3>2. QED
      BY <2>1, <2>2, <3>1 DEF WsIInv, UrlKept, OpenNow
  <2>3. CASE ws' = "ERROR" /\ isOpen' = isOpen /\ TcpClose(curSocketId)
    <3>1. AllNone'
      BY <2>1, <2>3, CloseEndsAll DEF WsIInv
    <3>2. QED
      BY <2>1, <2>3, <3>1 DEF AllNone, NoOrphans, WsIInv, UrlKept, OpenNow
  <2>4. QED
    BY <1>9, <2>2, <2>3 DEF ResponseParsed
<1>10. CASE WsError
  <2>1. ws = "ERROR" /\ ws' = "CLOSE" /\ urlData' = urlData /\ isOpen' = isOpen /\ TcpClose(curSocketId)
    BY <1>10 DEF WsError
  <2>2. AllNone'
    BY <2>1, CloseEndsAll DEF WsIInv
  <2>3. QED
    BY <2>1, <2>2 DEF AllNone, NoOrphans, WsIInv, UrlKept, OpenNow
<1>11. CASE WsClose
  <2>1. /\ ws = "CLOSE" /\ ~isOpen' /\ curSocketId' = curSocketId /\ state' = state
        /\ ws' = "INIT" \/ (ws' = "RETRY" /\ urlData' = urlData)
    BY <1>2, <1>11 DEF WsClose
  <2>2. AllNone
    BY <1>1, <2>1, NoneElsewhere DEF Handshaking
  <2>3. NoOrphans'
    BY <2>1, <2>2, StillPhases
  <2>4. QED
    BY <2>1, <2>3 DEF WsIInv, UrlKept, OpenNow
<1>12. QED
  BY <1>4, <1>5, <1>6, <1>7, <1>8, <1>9, <1>10, <1>11 DEF WsTask

\* The calls of an application that has been told of the connection.
LEMMA ApplicationKeeps ==
  ASSUME Polite, WsIInv, Application
  PROVE  NoOrphans' /\ UrlKept' /\ OpenNow'
<1>1. CASE WsOpen
  <2>1. /\ ws = "IDLE" /\ ws' = "MANAGE_URL" /\ urlData' \in {"valid", "other"} /\ isOpen' = isOpen
        /\ curSocketId' = curSocketId /\ state' = state
    BY <1>1 DEF WsOpen, NoCall, slotVars
  <2>2. AllNone
    BY <2>1, NoneElsewhere DEF WsIInv, Handshaking
  <2>3. NoOrphans'
    BY <2>1, <2>2, StillPhases
  <2>4. QED
    BY <2>1, <2>3 DEF WsIInv, UrlKept, OpenNow
<1>2. CASE SendCall
  <2>1. /\ ws = "CONNECTION_ESTABLISHED" /\ ws' \in {"CONNECTION_ESTABLISHED", "ERROR"}
        /\ isOpen' = isOpen /\ curSocketId' = curSocketId /\ urlData' = urlData /\ state' = state
    BY <1>2 DEF SendCall, WsSend, Send, NoCall, HistoryKept, slotVars
  <2>2. NoOrphans'
    BY <2>1, StillPhases
  <2>3. QED
    BY <2>1, <2>2 DEF WsIInv, UrlKept, OpenNow
<1>3. CASE CloseCall
  <2>1. /\ isOpen /\ isOpen' = isOpen /\ ws' = ws /\ urlData' = urlData /\ TcpClose(curSocketId)
    BY <1>3 DEF CloseCall
  <2>2. ws # "WAIT_TCP_SOCKET_CONNECTION"
    BY <2>1 DEF WsIInv, OpenNow
  <2>3. AllNone'
    BY <2>1, <2>2, CloseEndsAll DEF WsIInv
  <2>4. QED
    BY <2>1, <2>3 DEF AllNone, NoOrphans, WsIInv, UrlKept, OpenNow
<1>4. QED
  BY <1>1, <1>2, <1>3 DEF Application

\* So does every step, with an application that calls only once it is told.
LEMMA WsInductive ==
  ASSUME Polite PROVE WsIInv /\ [WsNext]_allVars => WsIInv'
<1> SUFFICES ASSUME WsIInv, [WsNext]_allVars PROVE WsIInv'
  OBVIOUS
<1>1. TcpIInv' /\ WsTypeOK'
  BY WsTcpInductive, WsTypes DEF WsIInv, TcpIInv
<1>2. NoOrphans' /\ UrlKept' /\ OpenNow'
  <2>1. CASE NetworkStep \/ UNCHANGED allVars
    <3>1. /\ state' = state /\ curSocketId' = curSocketId /\ ws' = ws /\ urlData' = urlData
          /\ isOpen' = isOpen
      BY <2>1, NetworkSlots DEF NetworkStep, allVars, wsVars, tcpVars, vars, slotVars
    <3>2. QED
      BY <3>1, StillPhases DEF WsIInv, UrlKept, OpenNow
  <2>2. QED
    BY <2>1, TcpStepKeeps, TaskKeeps, ApplicationKeeps DEF WsNext
<1>3. QED
  BY <1>1, <1>2 DEF WsIInv

\* The first state has them all.
LEMMA WsFirst == WsInit => TcpIInv /\ WsTypeOK
<1> SUFFICES ASSUME WsInit PROVE TcpIInv /\ WsTypeOK
  OBVIOUS
<1>1. TcpIInv
  BY InitialTypes, FirstStreams DEF WsInit, TcpIInv
<1>2. 1 \in Slots
  BY SizesAssumption DEF Slots
<1>3. WsTypeOK
  BY <1>2 DEF WsInit, WsTypeOK, WsStates
<1>4. QED
  BY <1>1, <1>3

\* The invariant holds of the WebSocket client over any number of slots.
THEOREM WsInvariant == ASSUME Polite PROVE WsSpec => []WsIInv
<1>1. WsInit => WsIInv
  <2> SUFFICES ASSUME WsInit PROVE WsIInv
    OBVIOUS
  <2>1. AllNone
    BY DEF WsInit, Init, AllNone, PhaseOf, Resolving, Connecting
  <2>2. QED
    BY <2>1, WsFirst DEF WsIInv, AllNone, NoOrphans, UrlKept, OpenNow, WsInit
<1>2. QED
  BY <1>1, WsInductive, PTL DEF WsSpec

\* NoOrphans: a connection that is asked for or up is the one the client waits for, uses
\* or is about to close, and there is one at most.
THEOREM NoConnectionLeftBehind == ASSUME Polite PROVE WsSpec => []NoOrphans
<1>1. WsIInv => NoOrphans
  BY DEF WsIInv
<1>2. QED
  BY <1>1, WsInvariant, PTL

\* UrlPresent: the pointer to the url is never followed after it was freed.
THEOREM UrlNeverReadFreed == ASSUME Polite PROVE WsSpec => []UrlPresent
<1>1. WsIInv => UrlPresent
  BY DEF WsIInv, UrlKept, UrlPresent, Handshaking
<1>2. QED
  BY <1>1, WsInvariant, PTL

\* OpenToldOnce: between two onOpen there is an onClose.
THEOREM OpenNeverToldTwice == ASSUME Polite PROVE WsSpec => []OpenToldOnce
<1>1. WsIInv => OpenToldOnce
  BY DEF WsIInv, OpenNow, OpenToldOnce, Handshaking
<1>2. QED
  BY <1>1, WsInvariant, PTL

-----------------------------------------------------------------------------
(***************************************************************************)
(* The promise of the TCP client, kept for this owner as well.             *)
(***************************************************************************)

\* KeepsPromise: whatever the application does, polite or not, the TCP clients under
\* ws_client.c implement ClientPromise.
THEOREM PromiseKeptForWebSocket == WsSpec => KeepsPromise
<1>1. WsInit => Promise!Init
  BY DEF WsInit, Init, Promise!Init, PhaseOf, OfUp, Resolving, Connecting, NoReport
<1>2. WsInit => TcpIInv /\ WsTypeOK
  BY WsFirst
<1>3. TcpIInv /\ WsTypeOK /\ [WsNext]_allVars => TcpIInv' /\ WsTypeOK'
  BY WsTcpInductive, WsTypes DEF TcpIInv
<1>4. TcpIInv /\ TcpIInv' /\ InOrder' /\ WsTypeOK /\ [WsNext]_allVars => [Promise!Next]_(Promise!promiseVars)
  <2> SUFFICES ASSUME TcpIInv, TcpIInv', InOrder', WsTypeOK, [WsNext]_allVars
               PROVE  [Promise!Next]_(Promise!promiseVars)
    OBVIOUS
  <2>1. TypeOK /\ 0 \notin Slots
    BY DEF TcpIInv, Slots
  <2>2. CASE Next \/ UNCHANGED vars
    BY <2>2, PromiseKept
  <2>3. CASE NoCall
    <3>1. ASSUME NEW s \in Slots PROVE PromiseStep(s)
      BY <2>3, <2>1, QuietSlot DEF NoCall, SameSlot, slotVars, streamVars, Silent, NoReport
    <3>2. QED
      BY <3>1 DEF PromiseStep, Promise!Next
  <2>4. CASE CloseFrameTcp
    <3> PICK c \in Slots : c = curSocketId
      BY DEF WsTypeOK
    <3>1. /\ state' = state /\ hSocket' = hSocket /\ reports' = NoReport
          /\ state[c] = "CONNECTION_STABLISHED" /\ reports'.slot \notin Slots
      BY <2>1, <2>4 DEF CloseFrameTcp, slotVars, Silent, NoReport
    <3>2. CASE Push(c, 1)
      <4>1. PICK n \in 1..MaxBytes : Push(c, n)
        <5>1. accepted[c] \in Seq(Nat) /\ Len(accepted[c]) + 1 <= MaxBytes
          BY <2>1, <3>2 DEF TypeOK, Bytes, Push
        <5>2. 1 \in 1..MaxBytes
          BY <5>1, SizesAssumption
        <5>3. QED
          BY <3>2, <5>2
      <4>2. ASSUME NEW s \in Slots PROVE PromiseStep(s)
        BY <3>1, <4>1, PushPromise
      <4>3. QED
        BY <4>2 DEF PromiseStep, Promise!Next
    <3>3. CASE UNCHANGED streamVars
      <4>1. ASSUME NEW s \in Slots PROVE PromiseStep(s)
        BY <3>1, <3>3, QuietSlot DEF SameSlot, streamVars
      <4>2. QED
        BY <4>1 DEF PromiseStep, Promise!Next
    <3>4. QED
      BY <2>4, <3>2, <3>3 DEF CloseFrameTcp
  <2>5. QED
    BY <2>1, <2>2, <2>3, <2>4, WsCalls
<1>5. QED
  BY <1>1, <1>2, <1>3, <1>4, DeliveredOfAccepted, PTL DEF WsSpec, KeepsPromise, Promise!Spec

=============================================================================
