------------------------------ MODULE TcpServer ------------------------------
(***************************************************************************)
(* The TCP servers of the tracker, firmware/net/server/tcp_server.c.       *)
(*                                                                         *)
(* A few slots, each a listening socket that serves one client after       *)
(* another: tcp_server_task() reads, sends what is queued and disconnects, *)
(* tcp_event_callback() is called by the TCP/IP stack, from the same main  *)
(* loop, when something happens to the socket.  Slots share nothing but    *)
(* the pool of sockets, so a call of the task is drawn as one step per     *)
(* slot.  The stack is the environment.                                    *)
(***************************************************************************)
EXTENDS Naturals, Integers, Sequences, SequencesExt

CONSTANTS
  MaxSlots,    \* TCP_SERVER_MAX_SOCKETS (3 in the code)
  MaxHandles,  \* sockets of the stack, 0 .. MaxHandles - 1
  MaxBytes,    \* bound: bytes accepted by one slot
  Merges,      \* TRUE if a signal may come together with RX_DATA or TX_SPACE
  Fails,       \* TRUE if the stack may fail to send the FIN of a disconnection
  Resets       \* TRUE if the stack may fail to start (tcp_server_reset)

Slots == 1..MaxSlots
Handles == 0..(MaxHandles - 1)
INVALID_SOCKET == -1

\* Assumed by the modules that instantiate this one.
ServerAssumption ==
  /\ MaxSlots \in Nat \ {0} /\ MaxHandles \in Nat \ {0} /\ MaxBytes \in Nat
  /\ Merges \in BOOLEAN /\ Fails \in BOOLEAN /\ Resets \in BOOLEAN

\* CLOSE and WAIT_CLOSE are left out: no statement leads to them.
States == {"INIT", "OPEN_SOCKET", "WAIT_FOR_CONNECTION", "CONNECTION_STABLISHED", "DISCONNECTING",
           "WAIT_DISCONNECT", "ABORTING", "WAIT_ABORT", "DISABLE"}

\* A socket of the stack: "closing" and "last_ack" have seen both FINs.
FinSeen == {"close_wait", "closing", "last_ack"}
Leaving == {"fin_wait", "closing", "last_ack"}
CanPut  == {"established", "close_wait"}
SocketStates == {"closed", "listen"} \cup Leaving \cup CanPut

VARIABLES
  inUse, state, hSocket,  \* fields of serverData[s], with their names
  queueData,  \* out.queueData: the queue, each node a sequence of bytes
  outState,   \* out.state
  dataIndex,  \* out.dataIndex
  sock,       \* state of each socket
  rx,         \* unread bytes are waiting in it
  told,       \* history: what the owner knows of its connection: "up", "over", or
              \* "astray" once it was told the end of a connection that was not up
  accepted,   \* history: bytes accepted by tcp_server_send and not withdrawn
  delivered,  \* history: bytes written to the sockets of the slot
  base,       \* history: how many were accepted before the present connection
  cut,        \* history: a queue was emptied in the middle of a node
  halted      \* the exception handler, where tx_task has followed a null queue, or
              \* NET_STATE_HALT

slotVars == <<inUse, state, hSocket>>
outVars  == <<queueData, outState, dataIndex>>
netVars  == <<sock, rx>>
pastVars == <<accepted, delivered, base, cut, halted>>
vars == <<slotVars, outVars, netVars, pastVars, told>>

\* tcp_server_init: memset leaves hSocket 0, which is a socket, not INVALID_SOCKET.
Init ==
  /\ inUse = [s \in Slots |-> FALSE] /\ state = [s \in Slots |-> "INIT"]
  /\ hSocket = [s \in Slots |-> 0]
  /\ queueData = [s \in Slots |-> <<>>] /\ outState = [s \in Slots |-> "IDLE"]
  /\ dataIndex = [s \in Slots |-> 0]
  /\ sock = [h \in Handles |-> "closed"] /\ rx = [h \in Handles |-> FALSE]
  /\ told = [s \in Slots |-> "over"]
  /\ accepted = [s \in Slots |-> <<>>] /\ delivered = [s \in Slots |-> <<>>]
  /\ base = [s \in Slots |-> 0] /\ cut = [s \in Slots |-> FALSE]
  /\ halted = FALSE

Goto(s, st) == state' = [state EXCEPT ![s] = st]
Tell(s, what) == told' = [told EXCEPT ![s] = what]

-----------------------------------------------------------------------------
(***************************************************************************)
(* The stack, as tcp_server.c calls it.                                    *)
(***************************************************************************)
Socket(s) == IF hSocket[s] \in Handles THEN sock[hSocket[s]] ELSE "closed"
WasDisconnected(s) == Socket(s) \in FinSeen

\* A call of the stack with handle g; an invalid one does nothing.
SetSocket(g, st) ==
  /\ sock' = [h \in Handles |-> IF h = g THEN st ELSE sock[h]]
  /\ rx' = [h \in Handles |-> rx[h] /\ (h # g \/ st \notin {"closed", "listen"})]

\* The owner's rxP reads all there is; without one it is discarded.
ReadAll(s) == rx' = [h \in Handles |-> rx[h] /\ h # hSocket[s]] /\ UNCHANGED sock

\* TCPIP_TCP_Disconnect sends a FIN to a client that is connected.
SendFin(s) ==
  \/ Socket(s) = "established" /\ SetSocket(hSocket[s], "fin_wait")
  \/ Socket(s) = "close_wait" /\ SetSocket(hSocket[s], "last_ack")
  \/ (Socket(s) \notin CanPut \/ Fails) /\ UNCHANGED netVars

(***************************************************************************)
(* tcp_event_callback, and what makes the stack call it.                   *)
(***************************************************************************)
\* The slot the handler of this socket was registered for.
Served(h) == {s \in Slots : hSocket[s] = h /\ state[s] \notin {"INIT", "OPEN_SOCKET", "DISABLE"}}

\* A signal that comes alone matches its case of the switch.
Signal(h, st) == state' = [s \in Slots |-> IF s \in Served(h) THEN st ELSE state[s]]

SocketBecomes(h, from, to) ==
  /\ ~halted /\ sock[h] \in from /\ SetSocket(h, to)
  /\ UNCHANGED <<inUse, hSocket, outVars, accepted, delivered, cut, halted>>

\* ESTABLISHED, alone or with the first data of the client.
ClientConnects(h) ==
  /\ SocketBecomes(h, {"listen"}, "established")
  /\ base' = [s \in Slots |-> IF s \in Served(h) THEN Len(accepted[s]) ELSE base[s]]
  /\ \/ /\ Signal(h, "CONNECTION_STABLISHED")
        /\ told' = [s \in Slots |-> IF s \in Served(h) THEN "up" ELSE told[s]]
     \/ Merges /\ UNCHANGED <<state, told>>

\* RX_FIN, alone or with data or an acknowledgement; a FIN that answers ours may
\* close the socket before it is signalled.
Leaves(h) ==
  /\ \/ SocketBecomes(h, {"established"}, "close_wait")
     \/ SocketBecomes(h, {"fin_wait"}, "closing")
     \/ SocketBecomes(h, {"fin_wait"}, "listen")
  /\ UNCHANGED <<base, told>>

\* Mutant of ClientLeaves: the signal is not handled.
ClientLeavesUnheard(h) == Leaves(h) /\ UNCHANGED state

ClientLeaves(h) == Leaves(h) /\ (Signal(h, "DISCONNECTING") \/ (Merges /\ UNCHANGED state))

\* RX_RST.
ClientResets(h) ==
  /\ SocketBecomes(h, Leaving \cup CanPut, "listen")
  /\ Signal(h, "ABORTING") /\ UNCHANGED <<base, told>>

\* No signal: the last acknowledgement, the timer of FIN_WAIT_2, or the stack
\* that gives up a client that does not acknowledge.
Silently(h) ==
  /\ SocketBecomes(h, Leaving, "listen") \/ SocketBecomes(h, {"established"}, "fin_wait")
  /\ UNCHANGED <<state, base, told>>

Arrives(h) ==
  /\ ~halted /\ sock[h] \in {"established", "fin_wait"} /\ ~rx[h]
  /\ rx' = [rx EXCEPT ![h] = TRUE]
  /\ UNCHANGED <<slotVars, outVars, sock, pastVars, told>>

Stack == \E h \in Handles :
  ClientConnects(h) \/ ClientLeaves(h) \/ ClientResets(h) \/ Silently(h) \/ Arrives(h)

-----------------------------------------------------------------------------
(***************************************************************************)
(* tcp_server_task: one action per branch of its switch, for slot s.       *)
(***************************************************************************)
Moves(s, from, to) ==
  /\ ~halted /\ state[s] = from /\ Goto(s, to)
  /\ UNCHANGED <<inUse, outVars, pastVars>>

Start(s) ==
  /\ Moves(s, "INIT", IF inUse[s] THEN "OPEN_SOCKET" ELSE "DISABLE")
  /\ UNCHANGED <<hSocket, netVars, told>>

\* TCPIP_TCP_ServerOpen; without a socket it is tried again.
OpenSocket(s) ==
  /\ Moves(s, "OPEN_SOCKET", "WAIT_FOR_CONNECTION") /\ UNCHANGED told
  /\ \E h \in Handles : /\ sock[h] = "closed" /\ SetSocket(h, "listen")
                        /\ hSocket' = [hSocket EXCEPT ![s] = h]

NoSocket(s) ==
  /\ Moves(s, "OPEN_SOCKET", "OPEN_SOCKET") /\ UNCHANGED <<netVars, told>>
  /\ hSocket' = [hSocket EXCEPT ![s] = INVALID_SOCKET]

\* DISCONNECTING: an rxP that has read something is asked again, else the FIN is
\* sent, and nobody looks whether it was.
ReadOn(s) ==
  /\ Moves(s, "DISCONNECTING", "DISCONNECTING") /\ \E h \in Handles : h = hSocket[s] /\ rx[h]
  /\ ReadAll(s) /\ UNCHANGED <<hSocket, told>>

Disconnect(s) ==
  /\ Moves(s, "DISCONNECTING", "WAIT_DISCONNECT")
  /\ SendFin(s) /\ UNCHANGED <<hSocket, told>>

TellsOver(s) == Tell(s, IF told[s] = "up" THEN "over" ELSE "astray") /\ UNCHANGED <<hSocket, netVars>>

\* The end of the connection is told.
Over(s) ==
  /\ WasDisconnected(s) /\ TellsOver(s)
  /\ Moves(s, "WAIT_DISCONNECT", "WAIT_FOR_CONNECTION") \/ Moves(s, "WAIT_ABORT", "WAIT_FOR_CONNECTION")

\* list_delete of the queues of S: what was not written is withdrawn.
DropQueues(S) ==
  /\ queueData' = [s \in Slots |-> IF s \in S THEN <<>> ELSE queueData[s]]
  /\ accepted' = [s \in Slots |-> IF s \in S THEN delivered[s] ELSE accepted[s]]
  /\ base' = [s \in Slots |-> IF s \in S THEN Len(delivered[s]) ELSE base[s]]
  /\ UNCHANGED <<dataIndex, delivered, halted>>

\* ABORTING: out.state is left as it is, and TCPIP_TCP_Abort resets whatever
\* connection the socket has by now.
Abort(s) ==
  /\ ~halted /\ state[s] = "ABORTING" /\ Goto(s, "WAIT_ABORT")
  /\ DropQueues({s}) /\ cut' = [cut EXCEPT ![s] = @ \/ outState[s] = "SENDING"]
  /\ SetSocket(hSocket[s], "listen")
  /\ UNCHANGED <<inUse, hSocket, outState, told>>

-----------------------------------------------------------------------------
(***************************************************************************)
(* CONNECTION_STABLISHED: rxP, then tx_task.                               *)
(***************************************************************************)
InConnection(s) == ~halted /\ state[s] = "CONNECTION_STABLISHED" /\ ReadAll(s)
                   /\ UNCHANGED <<slotVars, accepted, base, cut, told>>

\* Nothing to send, or no room for it.
SendNothing(s) ==
  /\ InConnection(s) /\ (outState[s] = "SENDING" \/ queueData[s] = <<>>)
  /\ UNCHANGED <<outVars, delivered, halted>>

StartNode(s) ==
  /\ InConnection(s) /\ outState[s] = "IDLE" /\ queueData[s] # <<>>
  /\ outState' = [outState EXCEPT ![s] = "SENDING"]
  /\ dataIndex' = [dataIndex EXCEPT ![s] = 0]
  /\ UNCHANGED <<queueData, delivered, halted>>

Sending(s) == InConnection(s) /\ outState[s] = "SENDING" /\ Socket(s) \in CanPut

\* dataLength - dataIndex, which an aborted connection may leave negative.
Rest(s) == Len(Head(queueData[s])) - dataIndex[s]

\* TCPIP_TCP_ArrayPut of n bytes of the node; 0 is a byte from beyond its end.
Put(s, n) ==
  LET bytes == IF n < 0 THEN <<0>> ELSE SubSeq(Head(queueData[s]), dataIndex[s] + 1, dataIndex[s] + n)
  IN  delivered' = [delivered EXCEPT ![s] = @ \o bytes]

SendSome(s) ==
  /\ Sending(s) /\ queueData[s] # <<>>
  /\ \E n \in 1..(Rest(s) - 1) : Put(s, n) /\ dataIndex' = [dataIndex EXCEPT ![s] = @ + n]
  /\ UNCHANGED <<queueData, outState, halted>>

\* Mutant of SendRest: the sender stays SENDING.
SendRestStateKept(s) ==
  /\ Sending(s) /\ queueData[s] # <<>> /\ Put(s, Rest(s))
  /\ queueData' = [queueData EXCEPT ![s] = Tail(@)]
  /\ UNCHANGED <<outState, dataIndex, halted>>

SendRest(s) ==
  /\ Sending(s) /\ queueData[s] # <<>> /\ Put(s, Rest(s))
  /\ queueData' = [queueData EXCEPT ![s] = Tail(@)]
  /\ outState' = [outState EXCEPT ![s] = "IDLE"]
  /\ UNCHANGED <<dataIndex, halted>>

\* queueData->dataLength of a queue that is empty: nothing is mapped at address 0.
FollowNull(s) == Sending(s) /\ queueData[s] = <<>> /\ halted' = TRUE /\ UNCHANGED <<outVars, delivered>>

Serves(s) == SendNothing(s) \/ StartNode(s) \/ SendSome(s) \/ SendRest(s) \/ FollowNull(s)
SlotTask(s) == Start(s) \/ OpenSocket(s) \/ NoSocket(s) \/ ReadOn(s) \/ Disconnect(s) \/ Over(s)
               \/ Abort(s) \/ Serves(s)

-----------------------------------------------------------------------------
(***************************************************************************)
(* The calls of an owner, and of net.c.                                    *)
(***************************************************************************)
Unused == {s \in Slots : ~inUse[s]}
FirstUnused == CHOOSE s \in Unused : \A t \in Unused : s <= t

\* tcp_server_config; with every slot in use it changes nothing.
Config ==
  /\ ~halted /\ Unused # {} /\ Goto(FirstUnused, "INIT")
  /\ inUse' = [inUse EXCEPT ![FirstUnused] = TRUE]
  /\ UNCHANGED <<hSocket, outVars, netVars, pastVars, told>>

SendUnasked(s, n) ==
  /\ ~halted /\ inUse[s] /\ Len(accepted[s]) + n <= MaxBytes
  /\ LET node == [i \in 1..n |-> Len(accepted[s]) + i]
     IN  /\ queueData' = [queueData EXCEPT ![s] = Append(@, node)]
         /\ accepted' = [accepted EXCEPT ![s] = @ \o node]
  /\ UNCHANGED <<slotVars, outState, dataIndex, netVars, delivered, base, cut, halted, told>>

\* tcp_server_send; in every other state the data are discarded.
Send(s, n) == state[s] = "CONNECTION_STABLISHED" /\ SendUnasked(s, n)

\* tcp_server_force_disconnect, by an owner that has a connection.
ForceDisconnect(s) ==
  /\ told[s] = "up" /\ \E st \in States : Moves(s, st, "DISCONNECTING")
  /\ UNCHANGED <<hSocket, netVars, told>>

\* tcp_server_reset.  net.c calls it where the stack has failed to start (line 291), before
\* tcp_server_init: there is no queue to empty and no socket to close, hSocket 0 is one
\* of a stack that is not there, and net.c stays in NET_STATE_HALT.
Reset ==
  /\ Resets /\ ~halted
  /\ \A s \in Slots : ~inUse[s] /\ state[s] = "INIT"
  /\ \A h \in Handles : sock[h] = "closed"
  /\ hSocket' = [s \in Slots |-> INVALID_SOCKET] /\ halted' = TRUE
  /\ UNCHANGED <<inUse, state, outVars, netVars, accepted, delivered, base, cut, told>>

Owner == Config \/ Reset \/ \E s \in Slots : ForceDisconnect(s) \/ \E n \in 1..MaxBytes : Send(s, n)

Next == Stack \/ Owner \/ \E s \in Slots : SlotTask(s)

Spec == Init /\ [][Next]_vars

\* The task is called for ever; a socket is to be had, and there is room in it,
\* some of the time.
Fairness == \A s \in Slots : WF_vars(SlotTask(s)) /\ SF_vars(OpenSocket(s)) /\ SF_vars(SendRest(s))
                             /\ SF_vars(Disconnect(s))

FairSpec == Spec /\ Fairness

-----------------------------------------------------------------------------
(***************************************************************************)
(* Properties.                                                             *)
(***************************************************************************)
Bytes == Seq(Nat)

\* Types of the variables; CLOSE and WAIT_CLOSE, which close the socket for good,
\* are not reached.
TypeOK ==
  /\ inUse \in [Slots -> BOOLEAN] /\ state \in [Slots -> States]
  /\ hSocket \in [Slots -> Handles \cup {INVALID_SOCKET}]
  /\ queueData \in [Slots -> Seq(Bytes)] /\ outState \in [Slots -> {"IDLE", "SENDING"}]
  /\ dataIndex \in [Slots -> Nat]
  /\ sock \in [Handles -> SocketStates] /\ rx \in [Handles -> BOOLEAN]
  /\ told \in [Slots -> {"up", "over", "astray"}]
  /\ accepted \in [Slots -> Bytes] /\ delivered \in [Slots -> Bytes] /\ base \in [Slots -> Nat]
  /\ cut \in [Slots -> BOOLEAN] /\ halted \in BOOLEAN

\* tx_task follows out.queueData without a test while it is SENDING: over clients that
\* leave in the middle of a node and over forced disconnections the node stays
\* there, and dataIndex inside it.  The one exception is
\* a client that resets its connection in the middle of a node (cut).
SenderHasNode ==
  \A s \in Slots : outState[s] = "SENDING" /\ ~cut[s]
                     => queueData[s] # <<>> /\ dataIndex[s] < Len(Head(queueData[s]))

\* What was written and what is left to write are what was accepted, in order and
\* without a gap, wherever connections end, unless a node was cut.
StreamWhole ==
  \A s \in Slots : ~cut[s] =>
    LET waiting == FlattenSeq(queueData[s])
        begun == IF outState[s] = "SENDING" THEN dataIndex[s] ELSE 0
    IN  delivered[s] \o SubSeq(waiting, begun + 1, Len(waiting)) = accepted[s]

\* SERVER_EVENT_DISCONNECTED is told once of a connection the owner was told of,
\* whatever the order of its own disconnection, the FIN and the reset of the
\* client, and the next client.
EndToldOnce == \A s \in Slots : told[s] # "astray"

\* What is sent to a client was accepted while it was connected: tcp_server_send
\* says "Send NO connection stablished. Discard!" of anything else.
SentToItsClient ==
  [][\A s \in Slots : delivered'[s] # delivered[s] => Len(delivered[s]) >= base[s]]_vars

\* A slot that is configured comes to have a socket, whether the task had found
\* it unused before or not.
Opened == \A s \in Slots : inUse[s] ~> (Socket(s) # "closed" \/ halted)

\* A client that leaves is answered with a FIN: the stack waits for it for ever
\* (TCPIP_TCP_CLOSE_WAIT_TIMEOUT is 0), and no other client is served until then.
LeaveAnswered == \A h \in Handles : sock[h] = "close_wait" ~> (sock[h] # "close_wait" \/ halted)

\* A client that resets its connection is told to the owner: after ABORTING the
\* slot reports DISCONNECTED and says "Socket aborted. Wait for connection".
AbortEnds == \A s \in Slots : state[s] = "ABORTING" ~> (state[s] \notin {"ABORTING", "WAIT_ABORT"} \/ halted)
===============================================================================
