------------------------------ MODULE TcpClient ------------------------------
(***************************************************************************)
(* The TCP clients of the tracker, firmware/net/client/tcp_client.c.       *)
(*                                                                         *)
(* A few slots, each a state machine that resolves a name, opens a socket, *)
(* negotiates TLS, sends what is queued and reports to its owner through a *)
(* callback.  tcp_client_task() runs through the slots, sid being its      *)
(* loop variable, and the owner calls tcp_client_open_*, _send, _get_rx    *)
(* and _close between two of its calls: the only owner in the firmware,    *)
(* ws_client.c, takes notes in the callback and calls nothing.  The        *)
(* presentation layer of the TCP/IP stack, which gives out socket handles  *)
(* from a pool it shares with the telnet server, is the environment.       *)
(***************************************************************************)
EXTENDS Naturals, Integers, FiniteSets, Sequences

CONSTANTS
  MaxSlots,    \* TCP_CLIENT_MAX_SOCKETS (3 in the code)
  MaxHandles,  \* sockets of the presentation layer (NET_PRES_NUM_SOCKETS)
  Foreign,     \* handles that belong to the telnet server
  MaxBytes,    \* bound: bytes accepted for one connection
  Resets       \* TRUE if tcp_client_reset may be called

Slots == 1..MaxSlots

\* NET_PRES_SocketOpen adds 1 to the index of a socket, so that 0 is no handle.
Handles == 1..MaxHandles
INVALID_SOCKET == -1

ASSUME SizesAssumption == MaxSlots \in Nat \ {0} /\ MaxHandles \in Nat \ {0} /\ MaxBytes \in Nat
ASSUME ForeignAssumption == Foreign \subseteq Handles
ASSUME ChoicesAssumption == Resets \in BOOLEAN

Resolving  == {"DNS_RESOLVE_HOST_ADDRESS", "DNS_WAIT", "DNS_TIMEOUT", "DNS_ERROR"}
Connecting == {"CONNECTION_INIT", "CONNECTION_WAITING_FOR", "CONNECTION_SSL_NEGOTIATION_WAIT",
               "CONNECTION_TIMEOUT", "CONNECTION_ERROR"}
States == Resolving \cup Connecting
          \cup {"IDLE", "CONNECTION_STABLISHED", "CONNECTION_CLOSE", "WAIT_FOR_RETRY"}

\* A socket of the presentation layer; "refused" is a TLS negotiation that failed,
\* "lost" a connection that was reset or closed by the peer.
SocketStates == {"closed", "opening", "connected", "negotiating", "secure", "refused", "lost"}
IsConnected == {"connected", "negotiating", "secure", "refused"}
CarriesData == {"connected", "secure"}

VARIABLES
  sid,        \* the slot tcp_client_task is at; 0 between two of its calls
  state, hSocket,  \* fields of clientData[sid], with their names
  datNode,    \* stx.datNode: the queue, each node a sequence of bytes
  stx,        \* stx.state
  offset,     \* stx.curDataOffset
  sock,       \* state of each handle's socket
  holder,     \* who opened it: a slot, 0 for the telnet server, -1 for nobody
  rx,         \* unread bytes are waiting in it
  accepted,   \* history: bytes accepted for the connection
  delivered,  \* history: bytes written to the socket of the connection
  reports     \* the callbacks of the last step: the slot and the events

slotVars   == <<state, hSocket>>
streamVars == <<datNode, stx, offset, accepted, delivered>>
netVars    == <<sock, holder, rx>>
vars == <<sid, slotVars, streamVars, netVars, reports>>

NoReport == [slot |-> 0, events |-> <<>>]
Report(s, e) == reports' = [slot |-> s, events |-> e]
Silent == reports' = NoReport

\* tcp_client_init: memset leaves hSocket 0, which is no handle and not INVALID_SOCKET
\* either: tcp_client_close accepts such a slot, NET_PRES_SocketClose ignores it.
Init ==
  /\ sid = 0
  /\ state = [s \in Slots |-> "IDLE"]
  /\ hSocket = [s \in Slots |-> 0]
  /\ datNode = [s \in Slots |-> <<>>] /\ stx = [s \in Slots |-> "IDLE"]
  /\ offset = [s \in Slots |-> 0]
  /\ sock = [h \in Handles |-> IF h \in Foreign THEN "opening" ELSE "closed"]
  /\ holder = [h \in Handles |-> IF h \in Foreign THEN 0 ELSE -1]
  /\ rx = [h \in Handles |-> FALSE]
  /\ accepted = [s \in Slots |-> <<>>] /\ delivered = [s \in Slots |-> <<>>]
  /\ reports = NoReport

\* The histories of these slots' connections end.
Forget(S) ==
  /\ accepted' = [s \in Slots |-> IF s \in S THEN <<>> ELSE accepted[s]]
  /\ delivered' = [s \in Slots |-> IF s \in S THEN <<>> ELSE delivered[s]]

Goto(s, st) == state' = [state EXCEPT ![s] = st]

-----------------------------------------------------------------------------
(***************************************************************************)
(* The presentation layer, as tcp_client.c calls it.                       *)
(***************************************************************************)
Socket(s) == IF hSocket[s] \in Handles THEN sock[hSocket[s]] ELSE "closed"

\* NET_PRES_SocketOpen takes the first handle that is free.
Free == {h \in Handles : holder[h] = -1}
FirstFree == CHOOSE h \in Free : \A g \in Free : h <= g

\* The sockets with these handles are closed; a number that is no handle closes nothing.
CloseSockets(H) ==
  /\ sock' = [h \in Handles |-> IF h \in H THEN "closed" ELSE sock[h]]
  /\ holder' = [h \in Handles |-> IF h \in H THEN -1 ELSE holder[h]]
  /\ rx' = [h \in Handles |-> h \notin H /\ rx[h]]

SocketBecomes(h, from, to) ==
  /\ sock[h] \in from
  /\ sock' = [sock EXCEPT ![h] = to]
  /\ Silent /\ UNCHANGED <<sid, slotVars, streamVars, holder, rx>>

PeerAccepts(h) == SocketBecomes(h, {"opening"}, "connected")
Negotiated(h)  == SocketBecomes(h, {"negotiating"}, "secure")
Refused(h)     == SocketBecomes(h, {"negotiating"}, "refused")
PeerLost(h)    == SocketBecomes(h, IsConnected, "lost")

Arrives(h) ==
  /\ sock[h] \in CarriesData /\ ~rx[h]
  /\ rx' = [rx EXCEPT ![h] = TRUE]
  /\ Silent /\ UNCHANGED <<sid, slotVars, streamVars, sock, holder>>

Network == \E h \in Handles :
  PeerAccepts(h) \/ Negotiated(h) \/ Refused(h) \/ PeerLost(h) \/ Arrives(h)

-----------------------------------------------------------------------------
(***************************************************************************)
(* tcp_client_task: one action per branch of its switch, for slot s.       *)
(***************************************************************************)
At(s, st) == sid = s /\ state[s] = st /\ sid' = (s + 1) % (MaxSlots + 1)

\* A branch that changes the state of the slot, and the socket of no one.
Moves(s, from, to) == At(s, from) /\ Goto(s, to) /\ UNCHANGED <<hSocket, streamVars, netVars>>

TaskCalled == sid = 0 /\ sid' = 1 /\ Silent /\ UNCHANGED <<slotVars, streamVars, netVars>>

\* Nothing to do yet: no answer, not connected, not negotiated, not elapsed.
Waits(s) ==
  /\ \/ At(s, "IDLE") \/ At(s, "DNS_WAIT") \/ At(s, "WAIT_FOR_RETRY")
     \/ At(s, "CONNECTION_WAITING_FOR") /\ Socket(s) \notin IsConnected
     \/ At(s, "CONNECTION_SSL_NEGOTIATION_WAIT") /\ Socket(s) = "negotiating"
  /\ Silent /\ UNCHANGED <<slotVars, streamVars, netVars>>

Resolve(s) ==
  /\ Silent
  /\ \E st \in {"DNS_ERROR", "CONNECTION_INIT", "DNS_WAIT"} : Moves(s, "DNS_RESOLVE_HOST_ADDRESS", st)

Resolved(s) ==
  /\ Silent
  /\ \E st \in {"CONNECTION_INIT", "DNS_TIMEOUT", "DNS_ERROR"} : Moves(s, "DNS_WAIT", st)

Unresolved(s) ==
  \/ Moves(s, "DNS_TIMEOUT", "WAIT_FOR_RETRY") /\ Report(s, <<"TIMEOUT">>)
  \/ Moves(s, "DNS_ERROR", "WAIT_FOR_RETRY") /\ Report(s, <<"ERROR">>)

NoSocket(s) ==
  /\ At(s, "CONNECTION_INIT") /\ Goto(s, "WAIT_FOR_RETRY")
  /\ hSocket' = [hSocket EXCEPT ![s] = INVALID_SOCKET]
  /\ Report(s, <<"ERROR">>) /\ UNCHANGED <<streamVars, netVars>>

OpenSocket(s) ==
  /\ At(s, "CONNECTION_INIT") /\ Free # {} /\ Goto(s, "CONNECTION_WAITING_FOR")
  /\ hSocket' = [hSocket EXCEPT ![s] = FirstFree]
  /\ sock' = [sock EXCEPT ![FirstFree] = "opening"]
  /\ holder' = [holder EXCEPT ![FirstFree] = s]
  /\ rx' = [rx EXCEPT ![FirstFree] = FALSE]
  /\ Silent /\ UNCHANGED streamVars

\* clientData[sid].tls is what the open said; it is read here only, so it is chosen
\* here: Connected without TLS, Encrypt with it.
Established(s, from) ==
  /\ At(s, from) /\ Goto(s, "CONNECTION_STABLISHED")
  /\ Report(s, <<"CONNECTED">>)
  /\ UNCHANGED <<hSocket, datNode, offset, accepted, delivered>>

\* Mutant of Connected: the sender of the last connection is not reset.
ConnectedSendingOn(s) ==
  /\ Socket(s) \in IsConnected
  /\ Established(s, "CONNECTION_WAITING_FOR") /\ UNCHANGED <<stx, netVars>>

Connected(s) ==
  /\ Socket(s) \in IsConnected
  /\ stx' = [stx EXCEPT ![s] = "IDLE"]
  /\ Established(s, "CONNECTION_WAITING_FOR") /\ UNCHANGED netVars

\* NET_PRES_SocketEncryptSocket: FALSE leaves the socket as it is.
Encrypt(s) ==
  /\ At(s, "CONNECTION_WAITING_FOR") /\ Socket(s) \in IsConnected
  /\ stx' = [stx EXCEPT ![s] = "IDLE"]
  /\ \/ /\ Goto(s, "CONNECTION_SSL_NEGOTIATION_WAIT")
        /\ sock' = [sock EXCEPT ![hSocket[s]] = "negotiating"]
     \/ Goto(s, "CONNECTION_ERROR") /\ UNCHANGED sock
  /\ Silent /\ UNCHANGED <<hSocket, datNode, offset, accepted, delivered, holder, rx>>

Secured(s) ==
  /\ Socket(s) = "secure"
  /\ Established(s, "CONNECTION_SSL_NEGOTIATION_WAIT") /\ UNCHANGED <<stx, netVars>>

NotSecured(s) ==
  /\ Socket(s) \notin {"negotiating", "secure"}
  /\ Silent /\ Moves(s, "CONNECTION_SSL_NEGOTIATION_WAIT", "CONNECTION_ERROR")

\* Mutant of ConnectTimeout: a negotiation has no time limit.
ConnectTimeoutNoTls(s) ==
  Silent /\ Socket(s) \notin IsConnected /\ Moves(s, "CONNECTION_WAITING_FOR", "CONNECTION_TIMEOUT")

ConnectTimeout(s) ==
  /\ Silent
  /\ \/ Socket(s) \notin IsConnected /\ Moves(s, "CONNECTION_WAITING_FOR", "CONNECTION_TIMEOUT")
     \/ Socket(s) = "negotiating" /\ Moves(s, "CONNECTION_SSL_NEGOTIATION_WAIT", "CONNECTION_TIMEOUT")

Unconnected(s) ==
  \/ Moves(s, "CONNECTION_TIMEOUT", "CONNECTION_CLOSE") /\ Report(s, <<"TIMEOUT">>)
  \/ Moves(s, "CONNECTION_ERROR", "CONNECTION_CLOSE") /\ Report(s, <<"ERROR">>)

Disconnected(s) == Socket(s) = "lost" /\ Report(s, <<"DISCONNECTED">>)
                   /\ Moves(s, "CONNECTION_STABLISHED", "CONNECTION_CLOSE")

\* RX is told after whatever tx_task has told.
ReportIfRead(s, e) ==
  Report(s, IF hSocket[s] \in Handles /\ rx[hSocket[s]] THEN Append(e, "RX") ELSE e)

InConnection(s) == At(s, "CONNECTION_STABLISHED") /\ Socket(s) # "lost"
                   /\ UNCHANGED <<slotVars, netVars, accepted>>

SendNothing(s) ==
  /\ InConnection(s) /\ ReportIfRead(s, <<>>)
  /\ IF stx[s] = "IDLE" /\ datNode[s] # <<>>
     THEN stx' = [stx EXCEPT ![s] = "SENDING"] /\ offset' = [offset EXCEPT ![s] = 0]
     ELSE UNCHANGED <<stx, offset>>
  /\ UNCHANGED <<datNode, delivered>>

\* The n bytes the socket has room for, of the node at the head of the queue.
Write(s, n) ==
  /\ stx[s] = "SENDING" /\ Socket(s) \in CarriesData
  /\ datNode[s] # <<>> /\ n \in 1..(Len(Head(datNode[s])) - offset[s])
  /\ delivered' = [delivered EXCEPT ![s] = @ \o SubSeq(Head(datNode[s]), offset[s] + 1, offset[s] + n)]

SendSome(s) ==
  /\ InConnection(s) /\ ReportIfRead(s, <<>>)
  /\ \E n \in 1..MaxBytes :
       /\ Write(s, n) /\ n < Len(Head(datNode[s])) - offset[s]
       /\ offset' = [offset EXCEPT ![s] = @ + n]
  /\ UNCHANGED <<datNode, stx>>

SendRest(s) ==
  /\ InConnection(s) /\ ReportIfRead(s, <<"TX">>)
  /\ Write(s, Len(Head(datNode[s])) - offset[s])
  /\ datNode' = [datNode EXCEPT ![s] = Tail(@)]
  /\ stx' = [stx EXCEPT ![s] = "IDLE"]
  /\ UNCHANGED offset

CloseConnection(s) ==
  /\ At(s, "CONNECTION_CLOSE") /\ Goto(s, "WAIT_FOR_RETRY")
  /\ CloseSockets({hSocket[s]})
  /\ hSocket' = [hSocket EXCEPT ![s] = INVALID_SOCKET]
  /\ datNode' = [datNode EXCEPT ![s] = <<>>]
  /\ Forget({s}) /\ Silent /\ UNCHANGED <<stx, offset>>

RetryElapsed(s) == Silent /\ Moves(s, "WAIT_FOR_RETRY", "IDLE")

Advances(s) ==
  \/ Resolve(s) \/ Unresolved(s) \/ NoSocket(s) \/ OpenSocket(s)
  \/ Connected(s) \/ Encrypt(s) \/ Secured(s) \/ NotSecured(s) \/ Unconnected(s)
  \/ Disconnected(s) \/ SendNothing(s) \/ CloseConnection(s)
Elapses(s) == Resolved(s) \/ ConnectTimeout(s) \/ RetryElapsed(s)
Sends(s)   == SendSome(s) \/ SendRest(s)

Task == TaskCalled \/ \E s \in Slots : Waits(s) \/ Advances(s) \/ Elapses(s) \/ Sends(s)

-----------------------------------------------------------------------------
(***************************************************************************)
(* The calls of an owner.                                                  *)
(***************************************************************************)
Idle == {s \in Slots : state[s] = "IDLE"}
FirstIdle == CHOOSE s \in Idle : \A t \in Idle : s <= t

\* tcp_client_open_host and tcp_client_open_ip; BUSY, with no slot idle, changes nothing.
Open(first) ==
  /\ sid = 0 /\ Idle # {} /\ Goto(FirstIdle, first)
  /\ Silent /\ UNCHANGED <<sid, hSocket, streamVars, netVars>>

\* list_new_node and list_push_node; a node that cannot be allocated is refused.
Push(s, n) ==
  LET have == Len(accepted[s])
      node == [i \in 1..n |-> have + i]
  IN  /\ have + n <= MaxBytes
      /\ accepted' = [accepted EXCEPT ![s] = @ \o node]
      /\ datNode' = [datNode EXCEPT ![s] = Append(@, node)]
      /\ UNCHANGED <<stx, offset, delivered>>

\* tcp_client_send, refused in every other state.
Send(s, n) ==
  /\ sid = 0 /\ state[s] = "CONNECTION_STABLISHED" /\ Push(s, n)
  /\ Silent /\ UNCHANGED <<sid, slotVars, netVars>>

\* tcp_client_peek_rx and tcp_client_get_rx see something.
Readable(s) == state[s] = "CONNECTION_STABLISHED" /\ hSocket[s] \in Handles /\ rx[hSocket[s]]

\* All that is there is read.
Pull(s) == rx' = [rx EXCEPT ![hSocket[s]] = FALSE] /\ UNCHANGED <<sock, holder>>

GetRx(s) == sid = 0 /\ Readable(s) /\ Pull(s) /\ Silent /\ UNCHANGED <<sid, slotVars, streamVars>>

\* tcp_client_close: in any state, provided hSocket is not INVALID_SOCKET.
Close(s) ==
  /\ sid = 0 /\ hSocket[s] # INVALID_SOCKET
  /\ Goto(s, "CONNECTION_CLOSE")
  /\ Silent /\ UNCHANGED <<sid, hSocket, streamVars, netVars>>

\* tcp_client_reset, all slots at once; stx.state is set only where a queue was emptied.
Reset ==
  /\ sid = 0 /\ Resets
  /\ CloseSockets({hSocket[s] : s \in Slots})
  /\ state' = [s \in Slots |-> "IDLE"]
  /\ hSocket' = [s \in Slots |-> INVALID_SOCKET]
  /\ LET emptied(s) == hSocket[s] # INVALID_SOCKET /\ datNode[s] # <<>>
     IN  /\ datNode' = [s \in Slots |-> IF emptied(s) THEN <<>> ELSE datNode[s]]
         /\ stx' = [s \in Slots |-> IF emptied(s) THEN "IDLE" ELSE stx[s]]
  /\ Forget(Slots) /\ Silent /\ UNCHANGED <<sid, offset>>

Owner ==
  \/ Open("DNS_RESOLVE_HOST_ADDRESS") \/ Open("CONNECTION_INIT") \/ Reset
  \/ \E s \in Slots : GetRx(s) \/ Close(s) \/ \E n \in 1..MaxBytes : Send(s, n)

Next == Task \/ Owner \/ Network

Spec == Init /\ [][Next]_vars

SlotTask(s) == Waits(s) \/ Advances(s) \/ Elapses(s) \/ Sends(s)

(***************************************************************************)
(* The main loop calls tcp_client_task for ever, and it visits every slot. *)
(* Time passes: a wait for an answer or a period ends.  A peer that is     *)
(* connected makes room for what is sent, sooner or later.                 *)
(***************************************************************************)
Fairness ==
  /\ WF_vars(TaskCalled)
  /\ \A s \in Slots : /\ WF_vars(SlotTask(s))
                       /\ SF_vars(Resolved(s)) /\ SF_vars(ConnectTimeout(s)) /\ SF_vars(RetryElapsed(s))
                       /\ SF_vars(Sends(s))

FairSpec == Spec /\ Fairness

-----------------------------------------------------------------------------
(***************************************************************************)
(* Properties.                                                             *)
(***************************************************************************)
Bytes == Seq(Nat)
Events == {"CONNECTED", "TIMEOUT", "ERROR", "TX", "RX", "DISCONNECTED"}

\* Types of the variables.
TypeOK ==
  /\ sid \in 0..MaxSlots
  /\ state \in [Slots -> States]
  /\ hSocket \in [Slots -> Handles \cup {0, INVALID_SOCKET}]
  /\ datNode \in [Slots -> Seq(Bytes)] /\ stx \in [Slots -> {"IDLE", "SENDING"}]
  /\ offset \in [Slots -> Nat]
  /\ sock \in [Handles -> SocketStates] /\ holder \in [Handles -> Slots \cup {0, -1}]
  /\ rx \in [Handles -> BOOLEAN]
  /\ accepted \in [Slots -> Bytes] /\ delivered \in [Slots -> Bytes]
  /\ reports \in [slot : Slots \cup {0}, events : Seq(Events)]

\* tx_task in STREAM_STATE_SENDING follows stx.datNode without a test, and
\* curDataOffset bytes into it: the node is there, and that long.  Neither the
\* end of a connection in the middle of a node nor a reset may leave it otherwise.
SenderHasNode ==
  \A s \in Slots : state[s] = "CONNECTION_STABLISHED" /\ stx[s] = "SENDING"
                    => datNode[s] # <<>> /\ offset[s] < Len(Head(datNode[s]))

\* What is queued belongs to the connection that accepted it: no queue outlives
\* its connection, whoever ended it.
QueueOfConnection ==
  \A s \in Slots : datNode[s] # <<>> => state[s] \in {"CONNECTION_STABLISHED", "CONNECTION_CLOSE"}

\* No handle is used by two clients, none is used that has been given back, and
\* none is lost to the pool: a client that has a socket is the one that opened it.
SocketsOwned ==
  /\ \A s \in Slots : hSocket[s] \in Handles => holder[hSocket[s]] = s
  /\ \A h \in Handles : holder[h] \in Slots => hSocket[holder[h]] = h

\* A slot closes no socket but the one it has opened itself and holds, whenever the
\* owner closes or net.c resets: neither another client's nor the telnet server's.
ClosesItsOwn ==
  [][\A h \in Handles : holder[h] # -1 /\ holder'[h] = -1
        => \E s \in Slots : holder[h] = s /\ hSocket[s] = h]_vars

\* What the owner of slot s has been promised (ClientPromise): an answer to
\* every open, in-order delivery, and no event out of turn.
PhaseOf(s) ==
  IF state[s] = "CONNECTION_STABLISHED" THEN "up"
  ELSE IF state[s] \in Resolving \cup Connecting THEN "asked" ELSE "none"

OfUp(bytes) == [s \in Slots |-> IF PhaseOf(s) = "up" THEN bytes[s] ELSE <<>>]

Promise == INSTANCE ClientPromise WITH
  Owners <- Slots, phase <- [s \in Slots |-> PhaseOf(s)],
  accepted <- OfUp(accepted), delivered <- OfUp(delivered),
  reports <- [s \in Slots |-> IF reports.slot = s THEN reports.events ELSE <<>>]

KeepsPromise == Promise!Spec

\* Every open ends in a callback, unless it is closed or reset: name servers,
\* peers and negotiations that never answer are all given up.
OpenAnswered == \A s \in Slots : PhaseOf(s) = "asked" ~> PhaseOf(s) # "asked"

\* What was accepted is handed to the socket, or the connection is over.
SentOrOver ==
  \A s \in Slots : (PhaseOf(s) = "up" /\ delivered[s] # accepted[s])
                     ~> (PhaseOf(s) # "up" \/ delivered[s] = accepted[s])

\* A connection whose socket is gone does not stay established.
LossNoticed ==
  \A s \in Slots : (PhaseOf(s) = "up" /\ Socket(s) \notin IsConnected) ~> PhaseOf(s) # "up"

\* A slot whose connection is over can be opened again.
SlotFreed ==
  \A s \in Slots : state[s] \in {"CONNECTION_CLOSE", "WAIT_FOR_RETRY"} ~> state[s] = "IDLE"
===============================================================================
