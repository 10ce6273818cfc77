--------------------------- MODULE MCPartsProofs ----------------------------
(***************************************************************************)
(* Proofs about the bench MCParts: what its run asks of the parts, for     *)
(* all positions, slots, sockets, bytes, times, failures and restarts.     *)
(* Of a part that has proofs of its own the bench's instance is shown to   *)
(* be an instance of them; the server is proved here.                      *)
(***************************************************************************)
EXTENDS MCParts, SequenceTheorems, TLAPS

\* A step of the bench moves the part it is about, or none.
LEMMA PartSteps ==
  ASSUME [Next]_vars
  PROVE  /\ part' = part
         /\ part = "server" => Server!Next \/ UNCHANGED Server!vars
         /\ part = "servers" => Servers!Next \/ UNCHANGED Servers!vars
         /\ part = "flash" => Flash({0}, 2, 2)!Next \/ UNCHANGED flash
         /\ part = "chips" => Flash({0, 1}, 0, 1)!Next \/ UNCHANGED flash
         /\ part = "frames" => Frames!Next \/ UNCHANGED ws
         /\ part = "short frames" => ShortFrames!Next \/ UNCHANGED ws
         /\ part \notin {"frames", "short frames"} => UNCHANGED ws
         /\ Report!Next \/ UNCHANGED report
         /\ Output!Next \/ UNCHANGED output
         /\ Clients!Next \/ UNCHANGED clients
         /\ Clock!Next \/ UNCHANGED clock
<1> USE DEF OfReport, OfDate, OfFlash, OfServer, OfWs, OfOutput, OfClients, OfClock
<1>1. Next \/ UNCHANGED vars
  OBVIOUS
<1>2. CASE UNCHANGED vars
  BY <1>2 DEF vars, server, Server!vars, Server!slotVars, Server!outVars, Server!netVars, Server!pastVars,
     Servers!vars, Servers!slotVars, Servers!outVars, Servers!netVars, Servers!pastVars
<1>3. CASE Next
  BY <1>3 DEF Next
<1>4. QED
  BY <1>1, <1>2, <1>3

-----------------------------------------------------------------------------
(***************************************************************************)
(* The TCP server whose slots exchange their sockets: the end of a         *)
(* connection is told once.                                                *)
(***************************************************************************)
\* The states of a slot that has a socket, or has lost it.
Serving(s) == state[s] \notin {"INIT", "OPEN_SOCKET", "DISABLE"}

\* The types of what decides about the end of a connection.
SwapTypes ==
  /\ state \in [Servers!Slots -> Servers!States] /\ told \in [Servers!Slots -> {"up", "over", "astray"}]
  /\ hSocket \in [Servers!Slots -> Servers!Handles \cup {-1}]
  /\ sock \in [Servers!Handles -> Servers!SocketStates]

\* An owner that knows of no connection has none: the socket of the slot listens, has
\* gone, or still acknowledges the end of the last connection, which was told.
ToldOf(s) ==
  told[s] # "up" =>
    /\ told[s] # "astray"
    /\ Serving(s) => \/ Servers!Socket(s) \in {"closed", "listen"}
                     \/ state[s] = "WAIT_FOR_CONNECTION" /\ Servers!Socket(s) \in Servers!FinSeen

SwapInv == SwapTypes /\ \A s \in Servers!Slots : ToldOf(s)

\* At first no slot serves.
LEMMA SwapInit == Servers!Init => SwapInv
<1>1. 0 \in Servers!Handles
  BY ConstantsAssumption DEF Servers!ServerAssumption, Servers!Handles
<1>2. QED
  BY <1>1 DEF Servers!Init, SwapInv, SwapTypes, ToldOf, Serving, Servers!SocketStates, Servers!States

\* The signals: that of a connection tells of it, the others find it told.
LEMMA SwapStack == SwapInv /\ Servers!Stack => SwapInv'
<1> SUFFICES ASSUME SwapInv, NEW h \in Servers!Handles,
                    \/ Servers!ClientConnects(h) \/ Servers!ClientLeaves(h) \/ Servers!ClientResets(h)
                    \/ Servers!Silently(h) \/ Servers!Arrives(h)
             PROVE  SwapInv'
  BY DEF Servers!Stack
<1> USE DEF SwapInv, SwapTypes, ToldOf, Serving, Servers!States, Servers!SocketStates, Servers!Leaving,
            Servers!CanPut, Servers!FinSeen, Servers!Socket, Servers!Served
<1>1. CASE Servers!ClientConnects(h)
  <2>1. SwapTypes'
    BY <1>1 DEF Servers!ClientConnects, Servers!SocketBecomes, Servers!SetSocket,
       Servers!Signal
  <2>2. ASSUME NEW t \in Servers!Slots PROVE ToldOf(t)'
    BY <1>1, <2>1 DEF Servers!ClientConnects, Servers!SocketBecomes, Servers!SetSocket,
       Servers!Signal
  <2>3. QED
    BY <2>1, <2>2
<1>2. CASE Servers!ClientLeaves(h)
  <2>1. SwapTypes'
    BY <1>2 DEF Servers!ClientLeaves, Servers!Leaves, Servers!SocketBecomes,
       Servers!SetSocket, Servers!Signal
  <2>2. ASSUME NEW t \in Servers!Slots PROVE ToldOf(t)'
    BY <1>2, <2>1 DEF Servers!ClientLeaves, Servers!Leaves, Servers!SocketBecomes,
       Servers!SetSocket, Servers!Signal
  <2>3. QED
    BY <2>1, <2>2
<1>3. CASE Servers!ClientResets(h)
  <2>1. SwapTypes'
    BY <1>3 DEF Servers!ClientResets, Servers!SocketBecomes, Servers!SetSocket,
       Servers!Signal
  <2>2. ASSUME NEW t \in Servers!Slots PROVE ToldOf(t)'
    BY <1>3, <2>1 DEF Servers!ClientResets, Servers!SocketBecomes, Servers!SetSocket,
       Servers!Signal
  <2>3. QED
    BY <2>1, <2>2
<1>4. CASE Servers!Silently(h)
  <2>1. SwapTypes'
    BY <1>4 DEF Servers!Silently, Servers!SocketBecomes, Servers!SetSocket
  <2>2. ASSUME NEW t \in Servers!Slots PROVE ToldOf(t)'
    BY <1>4, <2>1 DEF Servers!Silently, Servers!SocketBecomes, Servers!SetSocket
  <2>3. QED
    BY <2>1, <2>2
<1>5. CASE Servers!Arrives(h)
  <2>1. SwapTypes'
    BY <1>5 DEF Servers!Arrives, Servers!slotVars
  <2>2. ASSUME NEW t \in Servers!Slots PROVE ToldOf(t)'
    BY <1>5, <2>1 DEF Servers!Arrives, Servers!slotVars
  <2>3. QED
    BY <2>1, <2>2
<1>6. QED
  BY <1>1, <1>2, <1>3, <1>4, <1>5

\* The owner: only one that has a connection ends it.
LEMMA SwapOwner == SwapInv /\ Servers!Owner => SwapInv'
<1> SUFFICES ASSUME SwapInv, Servers!Owner PROVE SwapInv'
  OBVIOUS
<1> USE DEF SwapInv, SwapTypes, ToldOf, Serving, Servers!States, Servers!SocketStates, Servers!Leaving,
            Servers!CanPut, Servers!FinSeen, Servers!Socket
<1>1. CASE Servers!Config
  <2>1. SwapTypes'
    BY <1>1 DEF Servers!Config, Servers!Goto, Servers!netVars
  <2>2. ASSUME NEW t \in Servers!Slots PROVE ToldOf(t)'
    BY <1>1, <2>1 DEF Servers!Config, Servers!Goto, Servers!netVars
  <2>3. QED
    BY <2>1, <2>2
<1>2. CASE Servers!Reset
  <2>1. SwapTypes'
    BY <1>2 DEF Servers!Reset, Servers!INVALID_SOCKET, Servers!netVars
  <2>2. ASSUME NEW t \in Servers!Slots PROVE ToldOf(t)'
    BY <1>2, <2>1 DEF Servers!Reset, Servers!INVALID_SOCKET, Servers!netVars
  <2>3. QED
    BY <2>1, <2>2
<1>3. ASSUME NEW s \in Servers!Slots, Servers!ForceDisconnect(s) PROVE SwapInv'
  <2>1. SwapTypes'
    BY <1>3 DEF Servers!ForceDisconnect, Servers!Moves, Servers!Goto, Servers!netVars
  <2>2. ASSUME NEW t \in Servers!Slots PROVE ToldOf(t)'
    BY <1>3, <2>1 DEF Servers!ForceDisconnect, Servers!Moves, Servers!Goto, Servers!netVars
  <2>3. QED
    BY <2>1, <2>2
<1>4. QED
  BY <1>1, <1>2, <1>3 DEF Servers!Owner

\* The task: the end of a connection is told of one that was up.
LEMMA SwapTask == SwapInv /\ (\E s \in Servers!Slots : Servers!SlotTask(s)) => SwapInv'
<1> SUFFICES ASSUME SwapInv, NEW s \in Servers!Slots, Servers!SlotTask(s) PROVE SwapInv'
  OBVIOUS
<1> USE DEF SwapInv, SwapTypes, ToldOf, Serving, Servers!States, Servers!SocketStates, Servers!Leaving,
            Servers!CanPut, Servers!FinSeen, Servers!Socket
<1>1. CASE Servers!Start(s)
  <2>1. SwapTypes'
    BY <1>1 DEF Servers!Start, Servers!Moves, Servers!Goto, Servers!netVars
  <2>2. ASSUME NEW t \in Servers!Slots PROVE ToldOf(t)'
    BY <1>1, <2>1 DEF Servers!Start, Servers!Moves, Servers!Goto, Servers!netVars
  <2>3. QED
    BY <2>1, <2>2
<1>2. CASE Servers!OpenSocket(s)
  <2>1. SwapTypes'
    BY <1>2 DEF Servers!OpenSocket, Servers!Moves, Servers!Goto, Servers!SetSocket
  <2>2. ASSUME NEW t \in Servers!Slots PROVE ToldOf(t)'
    BY <1>2, <2>1 DEF Servers!OpenSocket, Servers!Moves, Servers!Goto, Servers!SetSocket
  <2>3. QED
    BY <2>1, <2>2
<1>3. CASE Servers!NoSocket(s)
  <2>1. SwapTypes'
    BY <1>3 DEF Servers!NoSocket, Servers!Moves, Servers!Goto, Servers!netVars,
       Servers!INVALID_SOCKET
  <2>2. ASSUME NEW t \in Servers!Slots PROVE ToldOf(t)'
    BY <1>3, <2>1 DEF Servers!NoSocket, Servers!Moves, Servers!Goto, Servers!netVars,
       Servers!INVALID_SOCKET
  <2>3. QED
    BY <2>1, <2>2
<1>4. CASE Servers!ReadOn(s)
  <2>1. SwapTypes'
    BY <1>4 DEF Servers!ReadOn, Servers!Moves, Servers!Goto, Servers!ReadAll
  <2>2. ASSUME NEW t \in Servers!Slots PROVE ToldOf(t)'
    BY <1>4, <2>1 DEF Servers!ReadOn, Servers!Moves, Servers!Goto, Servers!ReadAll
  <2>3. QED
    BY <2>1, <2>2
<1>5. CASE Servers!Disconnect(s)
  <2>1. SwapTypes'
    BY <1>5 DEF Servers!Disconnect, Servers!Moves, Servers!Goto, Servers!SendFin,
       Servers!SetSocket, Servers!netVars
  <2>2. ASSUME NEW t \in Servers!Slots PROVE ToldOf(t)'
    BY <1>5, <2>1 DEF Servers!Disconnect, Servers!Moves, Servers!Goto, Servers!SendFin,
       Servers!SetSocket, Servers!netVars
  <2>3. QED
    BY <2>1, <2>2
<1>6. CASE Servers!Over(s)
  <2>1. SwapTypes'
    BY <1>6 DEF Servers!Over, Servers!Moves, Servers!Goto, Servers!TellsOver, Servers!Tell,
       Servers!WasDisconnected, Servers!netVars
  <2>2. ASSUME NEW t \in Servers!Slots PROVE ToldOf(t)'
    BY <1>6, <2>1 DEF Servers!Over, Servers!Moves, Servers!Goto, Servers!TellsOver,
       Servers!Tell, Servers!WasDisconnected, Servers!netVars
  <2>3. QED
    BY <2>1, <2>2
<1>7. CASE Servers!Abort(s)
  <2>1. SwapTypes'
    BY <1>7 DEF Servers!Abort, Servers!Goto, Servers!SetSocket
  <2>2. ASSUME NEW t \in Servers!Slots PROVE ToldOf(t)'
    BY <1>7, <2>1 DEF Servers!Abort, Servers!Goto, Servers!SetSocket
  <2>3. QED
    BY <2>1, <2>2
<1>8. CASE Servers!Serves(s)
  <2>1. SwapTypes'
    BY <1>8 DEF Servers!Serves, Servers!SendNothing, Servers!StartNode, Servers!SendSome,
       Servers!SendRest, Servers!FollowNull, Servers!Sending, Servers!InConnection,
       Servers!ReadAll, Servers!slotVars
  <2>2. ASSUME NEW t \in Servers!Slots PROVE ToldOf(t)'
    BY <1>8, <2>1 DEF Servers!Serves, Servers!SendNothing, Servers!StartNode,
       Servers!SendSome, Servers!SendRest, Servers!FollowNull, Servers!Sending,
       Servers!InConnection, Servers!ReadAll, Servers!slotVars
  <2>3. QED
    BY <2>1, <2>2
<1>9. QED
  BY <1>1, <1>2, <1>3, <1>4, <1>5, <1>6, <1>7, <1>8 DEF Servers!SlotTask

-----------------------------------------------------------------------------
(***************************************************************************)
(* The TCP server that sends: the queue of its sender.                     *)
(***************************************************************************)
\* A node of the queue has bytes: tcp_server_send is not asked to send none.
Node == Seq(Nat) \ {<<>>}

\* The types of what tx_task works on.
QueueTypes ==
  /\ queueData \in [Server!Slots -> Seq(Node)] /\ outState \in [Server!Slots -> {"IDLE", "SENDING"}]
  /\ dataIndex \in [Server!Slots -> Nat] /\ cut \in [Server!Slots -> BOOLEAN]
  /\ accepted \in [Server!Slots -> Seq(Nat)] /\ delivered \in [Server!Slots -> Seq(Nat)]

\* The sender of a slot has its node, unless the node was cut.
HasNode(s) ==
  outState[s] = "SENDING" /\ ~cut[s] => queueData[s] # <<>> /\ dataIndex[s] < Len(Head(queueData[s]))

QueueInv == QueueTypes /\ \A s \in Server!Slots : HasNode(s)

\* The first node, and the queue behind it.
LEMMA HeadNode ==
  ASSUME NEW q \in Seq(Node), q # <<>>
  PROVE  Head(q) \in Seq(Nat) /\ Len(Head(q)) \in Nat \ {0} /\ Tail(q) \in Seq(Node)
<1>1. Head(q) \in Node /\ Tail(q) \in Seq(Node)
  BY HeadTailProperties
<1>2. QED
  BY <1>1, EmptySeq, LenProperties DEF Node

\* A node that is put behind the queue leaves the first one where it is.
LEMMA AppendNode ==
  ASSUME NEW q \in Seq(Node), NEW b \in Node
  PROVE  /\ Append(q, b) \in Seq(Node) /\ Append(q, b) # <<>>
         /\ q # <<>> => Head(Append(q, b)) = Head(q)
BY AppendProperties

\* The bytes of a node are those that follow what has been accepted.
LEMMA NewNode ==
  ASSUME NEW n \in Nat \ {0}, NEW k \in Nat
  PROVE  [i \in 1..n |-> k + i] \in Node
<1> DEFINE b == [i \in 1..n |-> k + i]
<1>1. b \in Seq(Nat) /\ Len(b) = n
  BY SeqDef
<1>2. b # <<>>
  BY <1>1
<1>3. QED
  BY <1>1, <1>2 DEF Node

\* What is written at the end of what was delivered is bytes.
LEMMA PutBytes ==
  ASSUME QueueTypes, NEW s \in Server!Slots, queueData[s] # <<>>,
         NEW n \in Int, n <= Server!Rest(s), Server!Put(s, n)
  PROVE  delivered' \in [Server!Slots -> Seq(Nat)]
<1> DEFINE node == Head(queueData[s])
           bytes == IF n < 0 THEN <<0>> ELSE SubSeq(node, dataIndex[s] + 1, dataIndex[s] + n)
<1>1. node \in Seq(Nat) /\ Len(node) \in Nat /\ dataIndex[s] \in Nat
  BY HeadNode DEF QueueTypes
<1>2. n <= Len(node) - dataIndex[s]
  BY DEF Server!Rest
<1>3. bytes \in Seq(Nat)
  <2>1. CASE n < 0
    BY <2>1
  <2>2. CASE n >= 0
    <3> HIDE DEF node
    <3>1. ASSUME NEW i \in (dataIndex[s] + 1)..(dataIndex[s] + n) PROVE node[i] \in Nat
      <4>1. i \in 1..Len(node)
        BY <1>1, <1>2, <2>2
      <4>2. QED
        BY <1>1, <4>1, ElementOfSeq
    <3>2. SubSeq(node, dataIndex[s] + 1, dataIndex[s] + n) \in Seq(Nat)
      BY <1>1, <1>2, <2>2, <3>1, SubSeqProperties
    <3>3. QED
      BY <2>2, <3>2
  <2>3. QED
    BY <2>1, <2>2
<1>4. delivered' = [delivered EXCEPT ![s] = @ \o bytes]
  BY DEF Server!Put
<1> HIDE DEF bytes
<1>5. delivered[s] \o bytes \in Seq(Nat)
  BY <1>3, ConcatProperties DEF QueueTypes
<1>6. QED
  BY <1>4, <1>5 DEF QueueTypes

-----------------------------------------------------------------------------
\* At first nothing is queued.
LEMMA QueueInit == Server!Init => QueueInv
BY EmptySeq DEF Server!Init, QueueInv, QueueTypes, HasNode

\* What leaves the queue alone.
LEMMA QueueUntouched ==
  ASSUME QueueInv, UNCHANGED <<queueData, outState, dataIndex, cut, accepted, delivered>>
  PROVE  QueueInv'
BY DEF QueueInv, QueueTypes, HasNode

\* The stack does not touch the queue, nor does most of the task.
LEMMA QueueStack == QueueInv /\ Server!Stack => QueueInv'
<1> SUFFICES ASSUME QueueInv, Server!Stack PROVE QueueInv'
  OBVIOUS
<1>1. UNCHANGED <<queueData, outState, dataIndex, cut, accepted, delivered>>
  BY DEF Server!Stack, Server!ClientConnects, Server!ClientLeaves, Server!Leaves, Server!ClientResets,
     Server!Silently, Server!Arrives, Server!SocketBecomes, Server!outVars, Server!pastVars
<1>2. QED
  BY <1>1, QueueUntouched

\* tx_task: a node is begun at its first byte and left after its last.
LEMMA QueueServes ==
  ASSUME QueueInv, NEW s \in Server!Slots, Server!Serves(s)
  PROVE  QueueInv'
<1> USE DEF Server!InConnection, Server!Sending, Server!outVars
<1>1. UNCHANGED <<cut, accepted>>
  BY DEF Server!Serves, Server!SendNothing, Server!StartNode, Server!SendSome, Server!SendRest,
     Server!FollowNull
<1>2. CASE Server!SendNothing(s) \/ Server!FollowNull(s)
  BY <1>1, <1>2, QueueUntouched DEF Server!SendNothing, Server!FollowNull
<1>3. CASE Server!StartNode(s)
  <2>1. queueData[s] \in Seq(Node) /\ queueData[s] # <<>>
    BY <1>3 DEF Server!StartNode, QueueInv, QueueTypes
  <2>2. Len(Head(queueData[s])) > 0
    BY <2>1, HeadNode
  <2>3. QED
    BY <1>1, <1>3, <2>1, <2>2 DEF Server!StartNode, QueueInv, QueueTypes, HasNode
<1>4. CASE Server!SendSome(s)
  <2>1. PICK n \in 1..(Server!Rest(s) - 1) : Server!Put(s, n) /\ dataIndex' = [dataIndex EXCEPT ![s] = @ + n]
    BY <1>4 DEF Server!SendSome
  <2>2. /\ queueData[s] \in Seq(Node) /\ queueData[s] # <<>> /\ dataIndex[s] \in Nat
        /\ UNCHANGED <<queueData, outState>>
    BY <1>4 DEF Server!SendSome, QueueInv, QueueTypes
  <2>3. Len(Head(queueData[s])) \in Nat
    BY <2>2, HeadNode
  <2>4. n \in Nat /\ n <= Server!Rest(s) /\ dataIndex[s] + n < Len(Head(queueData[s]))
    BY <2>1, <2>2, <2>3 DEF Server!Rest
  <2>5. delivered' \in [Server!Slots -> Seq(Nat)]
    BY <2>1, <2>2, <2>4, PutBytes DEF QueueInv
  <2>6. QueueTypes' /\ dataIndex'[s] = dataIndex[s] + n
    <3>1. dataIndex[s] + n \in Nat /\ dataIndex \in [Server!Slots -> Nat]
      BY <2>2, <2>4 DEF QueueInv, QueueTypes
    <3>2. dataIndex' \in [Server!Slots -> Nat] /\ dataIndex'[s] = dataIndex[s] + n
      BY <2>1, <3>1
    <3>3. QED
      BY <1>1, <2>2, <2>5, <3>2 DEF QueueInv, QueueTypes
  <2>7. ASSUME NEW t \in Server!Slots PROVE HasNode(t)'
    <3>1. CASE t = s
      BY <2>2, <2>4, <2>6, <3>1 DEF HasNode
    <3>2. CASE t # s
      BY <1>1, <2>1, <2>2, <3>2 DEF QueueInv, QueueTypes, HasNode
    <3>3. QED
      BY <3>1, <3>2
  <2>8. QED
    BY <2>6, <2>7 DEF QueueInv
<1>5. CASE Server!SendRest(s)
  <2>1. /\ queueData[s] \in Seq(Node) /\ queueData[s] # <<>> /\ dataIndex[s] \in Nat
        /\ queueData' = [queueData EXCEPT ![s] = Tail(@)] /\ outState' = [outState EXCEPT ![s] = "IDLE"]
        /\ dataIndex' = dataIndex /\ Server!Put(s, Server!Rest(s))
    BY <1>5 DEF Server!SendRest, QueueInv, QueueTypes
  <2>2. Tail(queueData[s]) \in Seq(Node) /\ Len(Head(queueData[s])) \in Nat
    BY <2>1, HeadNode
  <2>3. Server!Rest(s) \in Int
    BY <2>1, <2>2 DEF Server!Rest
  <2>4. delivered' \in [Server!Slots -> Seq(Nat)]
    BY <2>1, <2>3, PutBytes DEF QueueInv
  <2>5. QED
    BY <1>1, <2>1, <2>2, <2>4 DEF QueueInv, QueueTypes, HasNode
<1>6. QED
  BY <1>2, <1>3, <1>4, <1>5 DEF Server!Serves

\* The queue is emptied: what was not written is withdrawn.
LEMMA QueuesDropped ==
  ASSUME QueueInv, NEW S, Server!DropQueues(S),
         cut' \in [Server!Slots -> BOOLEAN], outState' \in [Server!Slots -> {"IDLE", "SENDING"}],
         \A s \in Server!Slots : \/ s \in S /\ (outState'[s] = "SENDING" => cut'[s])
                                 \/ s \notin S /\ outState'[s] = outState[s] /\ cut'[s] = cut[s]
  PROVE  QueueInv'
<1>1. QueueTypes'
  BY EmptySeq DEF QueueInv, QueueTypes, Server!DropQueues
<1>2. ASSUME NEW s \in Server!Slots PROVE HasNode(s)'
  <2>1. CASE s \in S
    BY <2>1 DEF HasNode
  <2>2. CASE s \notin S
    <3>1. queueData'[s] = queueData[s] /\ dataIndex' = dataIndex
      BY <2>2 DEF Server!DropQueues
    <3>2. QED
      BY <2>2, <3>1 DEF QueueInv, HasNode
  <2>3. QED
    BY <2>1, <2>2
<1>3. QED
  BY <1>1, <1>2 DEF QueueInv

\* The task.
LEMMA QueueTask == QueueInv /\ (\E s \in Server!Slots : Server!SlotTask(s)) => QueueInv'
<1> SUFFICES ASSUME QueueInv, NEW s \in Server!Slots, Server!SlotTask(s) PROVE QueueInv'
  OBVIOUS
<1>1. CASE Server!Serves(s)
  BY <1>1, QueueServes
<1>2. CASE Server!Abort(s)
  <2>1. /\ Server!DropQueues({s}) /\ outState' = outState
        /\ cut' = [cut EXCEPT ![s] = cut[s] \/ outState[s] = "SENDING"]
    BY <1>2 DEF Server!Abort
  <2>2. QED
    BY <2>1, QueuesDropped DEF QueueInv, QueueTypes
<1>3. CASE \/ Server!Start(s) \/ Server!OpenSocket(s) \/ Server!NoSocket(s) \/ Server!ReadOn(s)
           \/ Server!Disconnect(s) \/ Server!Over(s)
  <2>1. UNCHANGED <<queueData, outState, dataIndex, cut, accepted, delivered>>
    BY <1>3 DEF Server!Start, Server!OpenSocket, Server!NoSocket, Server!ReadOn, Server!Disconnect,
       Server!Over, Server!Moves, Server!outVars, Server!pastVars
  <2>2. QED
    BY <2>1, QueueUntouched
<1>4. QED
  BY <1>1, <1>2, <1>3 DEF Server!SlotTask

\* The owner: a send adds a node behind the others.
LEMMA QueueOwner == QueueInv /\ Server!Owner => QueueInv'
<1> SUFFICES ASSUME QueueInv, Server!Owner PROVE QueueInv'
  OBVIOUS
<1>1. CASE Server!Config
  BY <1>1, QueueUntouched DEF Server!Config, Server!outVars, Server!pastVars
<1>2. ASSUME NEW s \in Server!Slots, Server!ForceDisconnect(s) PROVE QueueInv'
  BY <1>2, QueueUntouched DEF Server!ForceDisconnect, Server!Moves, Server!outVars, Server!pastVars
<1>3. CASE Server!Reset
  BY <1>3, QueueUntouched DEF Server!Reset, Server!outVars
<1>4. ASSUME NEW s \in Server!Slots, NEW n \in 1..ServerBytes, Server!Send(s, n) PROVE QueueInv'
  <2> DEFINE node == [i \in 1..n |-> Len(accepted[s]) + i]
  <2>1. /\ queueData' = [queueData EXCEPT ![s] = Append(queueData[s], node)]
        /\ accepted' = [accepted EXCEPT ![s] = accepted[s] \o node]
        /\ UNCHANGED <<outState, dataIndex, delivered, cut>>
    BY <1>4 DEF Server!Send, Server!SendUnasked
  <2>2. queueData[s] \in Seq(Node) /\ accepted[s] \in Seq(Nat) /\ Len(accepted[s]) \in Nat
    BY LenProperties DEF QueueInv, QueueTypes
  <2>3. n \in Nat \ {0}
    BY ConstantsAssumption DEF Server!ServerAssumption
  <2>4. node \in Node /\ node \in Seq(Nat)
    BY <2>2, <2>3, NewNode DEF Node
  <2> HIDE DEF node
  <2>5. accepted[s] \o node \in Seq(Nat)
    BY <2>2, <2>4, ConcatProperties
  <2>6. QueueTypes'
    BY <2>1, <2>2, <2>4, <2>5, AppendNode DEF QueueInv, QueueTypes
  <2>7. ASSUME NEW t \in Server!Slots PROVE HasNode(t)'
    BY <2>1, <2>2, <2>4, AppendNode DEF QueueInv, QueueTypes, HasNode
  <2>8. QED
    BY <2>6, <2>7 DEF QueueInv
<1>5. QED
  BY <1>1, <1>2, <1>3, <1>4 DEF Server!Owner

-----------------------------------------------------------------------------
\* The invariants of the servers hold while they move.
LEMMA ServersKept == Spec => [](/\ part = "server" => QueueInv
                                /\ part = "servers" => SwapInv)
<1> DEFINE Inv == (part = "server" => QueueInv) /\ (part = "servers" => SwapInv)
<1>1. Init => Inv
  BY QueueInit, SwapInit, Zenon DEF Init
<1>2. ASSUME Inv, [Next]_vars PROVE Inv'
  <2>1. part' = part
    BY <1>2, PartSteps
  <2>2. ASSUME part = "server" PROVE QueueInv'
    <3>1. QueueInv /\ (Server!Next \/ UNCHANGED Server!vars)
      BY <1>2, <2>2, PartSteps
    <3>2. CASE Server!Next
      BY <3>1, <3>2, QueueStack, QueueOwner, QueueTask DEF Server!Next
    <3>3. CASE UNCHANGED Server!vars
      <4>1. UNCHANGED <<queueData, outState, dataIndex, cut, accepted, delivered>>
        BY <3>3 DEF Server!vars, Server!outVars, Server!pastVars
      <4>2. QED
        BY <3>1, <4>1, QueueUntouched
    <3>4. QED
      BY <3>1, <3>2, <3>3
  <2>3. ASSUME part = "servers" PROVE SwapInv'
    <3>1. SwapInv /\ (Servers!Next \/ UNCHANGED Servers!vars)
      BY <1>2, <2>3, PartSteps
    <3>2. CASE Servers!Next
      BY <3>1, <3>2, SwapStack, SwapOwner, SwapTask DEF Servers!Next
    <3>3. CASE UNCHANGED Servers!vars
      BY <3>1, <3>3 DEF SwapInv, SwapTypes, ToldOf, Serving, Servers!Socket, Servers!vars,
         Servers!slotVars, Servers!netVars, Servers!pastVars
    <3>4. QED
      BY <3>1, <3>2, <3>3
  <2>4. QED
    BY <2>1, <2>2, <2>3
<1>3. QED
  BY <1>1, <1>2, PTL DEF Spec

-----------------------------------------------------------------------------
(***************************************************************************)
(* The reports, the outputs and the frames: PartProofs, with the values    *)
(* the bench gives its constants: those of the short frames, then those of *)
(* the long ones.                                                          *)
(***************************************************************************)
ShortParts == INSTANCE PartProofs WITH
  Inverted <- FALSE, Preempts <- TRUE, asked <- oAsked,
  Western <- {FALSE}, Minutes <- LongMinutes, Courses <- {145},
  Chunk <- FrameChunk, HeaderSizes <- FrameHeaders, MaxPayload <- FrameBytes, MaxFragments <- Fragments,
  MaxFailures <- LostBlocks, Cuts <- TRUE, Masks <- FALSE

\* The bench's reports behave as GpsRecord says.
LEMMA SameReport ==
  /\ Report!Init => ShortParts!Report!Init
  /\ Report!Next => ShortParts!Report!Next
  /\ ShortParts!Report!FullLine <=> Report!FullLine
  /\ ShortParts!Report!PositionAsReported <=> Report!PositionAsReported
  /\ ShortParts!Report!RecordShown <=> Report!RecordShown
  /\ ShortParts!Report!NoRefusal <=> Report!NoRefusal
  /\ ShortParts!Report!SlowSpeedKept <=> Report!SlowSpeedKept
<1>1. \A c : Report!Coordinate(c) = ShortParts!Report!Coordinate(c)
  BY DEF Report!Coordinate, ShortParts!Report!Coordinate, Report!Signed, ShortParts!Report!Signed
<1>2. \A s : Report!Speed(s) = ShortParts!Report!Speed(s)
  BY DEF Report!Speed, ShortParts!Report!Speed, Report!Byte, ShortParts!Report!Byte
<1>3. \A n : Report!TenTo(n) = ShortParts!Report!TenTo(n)
  BY DEF Report!TenTo, ShortParts!Report!TenTo
<1>4. \A n : Report!Digits(n) = ShortParts!Report!Digits(n)
  BY <1>3 DEF Report!Digits, ShortParts!Report!Digits
<1>5. \A n, r, w : Report!Text(n, r, w) = ShortParts!Report!Text(n, r, w)
  BY <1>4 DEF Report!Text, ShortParts!Report!Text
<1>6. \A n : Report!DegreesText(n) = ShortParts!Report!DegreesText(n)
  BY <1>5 DEF Report!DegreesText, ShortParts!Report!DegreesText, Report!Quotient,
     ShortParts!Report!Quotient, Report!Remainder, ShortParts!Report!Remainder
<1>7. \A t : /\ Report!IsNumber(t) <=> ShortParts!Report!IsNumber(t)
             /\ Report!Millionths(t) = ShortParts!Report!Millionths(t)
  BY <1>3 DEF Report!IsNumber, ShortParts!Report!IsNumber, Report!Millionths, ShortParts!Report!Millionths
<1>8. \A c : Report!Reading(c) = ShortParts!Report!Reading(c)
  BY <1>3 DEF Report!Reading, ShortParts!Report!Reading, Report!Signed, ShortParts!Report!Signed
<1>9. Report!None = ShortParts!Report!None
  BY DEF Report!None, ShortParts!Report!None
<1>10. Report!Init => ShortParts!Report!Init
  BY <1>3, <1>9 DEF Report!Init, ShortParts!Report!Init, Report!Lines, ShortParts!Report!Lines,
     Report!Coordinates, ShortParts!Report!Coordinates
<1>11. Report!UpdateGPSInfo => ShortParts!Report!UpdateGPSInfo
  BY <1>1, <1>2, <1>9 DEF Report!UpdateGPSInfo, ShortParts!Report!UpdateGPSInfo
<1>12. Report!GPSInfoToString => ShortParts!Report!GPSInfoToString
  BY <1>5, <1>6, <1>9 DEF Report!GPSInfoToString, ShortParts!Report!GPSInfoToString
<1>13. Report!RecibirPosicion => ShortParts!Report!RecibirPosicion
  BY <1>7, <1>9 DEF Report!RecibirPosicion, ShortParts!Report!RecibirPosicion
<1>14. ShortParts!Report!PositionAsReported <=> Report!PositionAsReported
  BY <1>8 DEF Report!PositionAsReported, ShortParts!Report!PositionAsReported
<1>15. /\ ShortParts!Report!FullLine <=> Report!FullLine
       /\ ShortParts!Report!RecordShown <=> Report!RecordShown
       /\ ShortParts!Report!NoRefusal <=> Report!NoRefusal
  BY DEF Report!NoRefusal, ShortParts!Report!NoRefusal, Report!FullLine, ShortParts!Report!FullLine,
     Report!RecordShown, ShortParts!Report!RecordShown
<1>16. ShortParts!Report!SlowSpeedKept <=> Report!SlowSpeedKept
  BY DEF Report!SlowSpeedKept, ShortParts!Report!SlowSpeedKept, Report!SpeedAsReported,
     ShortParts!Report!SpeedAsReported
<1>17. QED
  BY <1>10, <1>11, <1>12, <1>13, <1>14, <1>15, <1>16 DEF Report!Next, ShortParts!Report!Next

\* The outputs of the bench behave as IoOutput says.
LEMMA SameOutput ==
  /\ Output!Init => ShortParts!Init
  /\ Output!Next => ShortParts!Next
  /\ Output!LevelAsAsked <=> ShortParts!LevelAsAsked
<1>1. Output!Init => ShortParts!Init
  BY DEF Output!Init, ShortParts!Init, Output!Off, ShortParts!Off
<1>2. Output!Next => ShortParts!Next
  BY DEF Output!Next, ShortParts!Next, Output!Calls, ShortParts!Calls, Output!CallStep,
     ShortParts!CallStep, Output!Interrupt, ShortParts!Interrupt, Output!Levels, ShortParts!Levels,
     Output!SetState, ShortParts!SetState, Output!Pulse, ShortParts!Pulse, Output!Toggle,
     ShortParts!Toggle, Output!Blink, ShortParts!Blink, Output!PinIs, ShortParts!PinIs,
     Output!Other, ShortParts!Other, Output!Dec, ShortParts!Dec, Output!OperDue,
     ShortParts!OperDue, Output!PulseDue, ShortParts!PulseDue, Output!Toggles, ShortParts!Toggles,
     Output!MaxTicks, ShortParts!MaxTicks, Output!Call, ShortParts!Call, Output!Assign,
     ShortParts!Assign, Output!Off, ShortParts!Off, Output!SetMode, ShortParts!SetMode,
     Output!SetOutput, ShortParts!SetOutput, Output!TimerMs, ShortParts!TimerMs, Output!Expired,
     ShortParts!Expired, Output!GetState, ShortParts!GetState, Output!TIME_RESOLUTION_MS,
     ShortParts!TIME_RESOLUTION_MS
<1>3. Output!LevelAsAsked <=> ShortParts!LevelAsAsked
  BY DEF Output!LevelAsAsked, ShortParts!LevelAsAsked, Output!Idle, ShortParts!Idle, Output!Levels,
     ShortParts!Levels, Output!GetState, ShortParts!GetState, Output!Other, ShortParts!Other
<1>4. QED
  BY <1>1, <1>2, <1>3

\* The same of the short frames.
LEMMA SameShortFrames ==
  /\ ShortFrames!Init => ShortParts!Frames!Init
  /\ ShortFrames!Next => ShortParts!Frames!Next
  /\ ShortParts!Frames!OwnsItsFrames <=> ShortFrames!OwnsItsFrames
  /\ ShortParts!Frames!BytesFit <=> ShortFrames!BytesFit
<1>1. /\ ShortFrames!Plain = ShortParts!Frames!Plain
      /\ ShortFrames!Nothing = ShortParts!Frames!Nothing
      /\ ShortFrames!Undefined = ShortParts!Frames!Undefined
      /\ \A n : ShortFrames!NewFrame(n) = ShortParts!Frames!NewFrame(n)
      /\ ShortFrames!Current = ShortParts!Frames!Current
      /\ ShortFrames!Earlier = ShortParts!Frames!Earlier
      /\ ShortFrames!BlocksNow = ShortParts!Frames!BlocksNow
      /\ ShortFrames!Headers = ShortParts!Frames!Headers
      /\ ShortFrames!NextHeaders = ShortParts!Frames!NextHeaders
  BY DEF ShortFrames!Undefined, ShortParts!Frames!Undefined, ShortFrames!Plain,
     ShortParts!Frames!Plain, ShortFrames!Nothing, ShortParts!Frames!Nothing,
     ShortFrames!Promise!Nothing, ShortParts!Frames!Promise!Nothing, ShortFrames!NewFrame,
     ShortParts!Frames!NewFrame, ShortFrames!Current, ShortParts!Frames!Current, ShortFrames!Earlier,
     ShortParts!Frames!Earlier, ShortFrames!Last, ShortParts!Frames!Last, ShortFrames!Front,
     ShortParts!Frames!Front, ShortFrames!BlocksNow, ShortParts!Frames!BlocksNow, ShortFrames!Headers,
     ShortParts!Frames!Headers, ShortFrames!NextHeaders, ShortParts!Frames!NextHeaders, ShortFrames!Legal,
     ShortParts!Frames!Legal
<1>2. /\ \A h : ShortFrames!ReadAs(h) = ShortParts!Frames!ReadAs(h)
      /\ \A f : ShortFrames!Extended(f) = ShortParts!Frames!Extended(f)
      /\ \A f, r, v : ShortFrames!Stored(f, r, v) = ShortParts!Frames!Stored(f, r, v)
      /\ \A f : ShortFrames!Complete(f) <=> ShortParts!Frames!Complete(f)
      /\ \A f : ShortFrames!IsControl(f) <=> ShortParts!Frames!IsControl(f)
      /\ \A s : ShortFrames!Handed(s) = ShortParts!Frames!Handed(s)
  BY <1>1 DEF ShortFrames!ReadAs, ShortParts!Frames!ReadAs, ShortFrames!Extended,
     ShortParts!Frames!Extended, ShortFrames!Stored, ShortParts!Frames!Stored, ShortFrames!Complete,
     ShortParts!Frames!Complete, ShortFrames!IsControl, ShortParts!Frames!IsControl, ShortFrames!FlattenSeq,
     ShortParts!Frames!FlattenSeq, ShortFrames!MessageOf, ShortParts!Frames!MessageOf,
     ShortFrames!PayloadOf, ShortParts!Frames!PayloadOf, ShortFrames!Handed, ShortParts!Frames!Handed,
     ShortFrames!BlockSize, ShortParts!Frames!BlockSize, ShortFrames!Last, ShortParts!Frames!Last,
     ShortFrames!Undefined, ShortParts!Frames!Undefined
<1>3. /\ ShortFrames!Failed => ShortParts!Frames!Failed
      /\ ShortFrames!Fine => ShortParts!Frames!Fine
      /\ ShortFrames!NotAllocated => ShortParts!Frames!NotAllocated
      /\ ShortFrames!NotExtended => ShortParts!Frames!NotExtended
      /\ \A h : ShortFrames!Sends(h) => ShortParts!Frames!Sends(h)
  BY <1>1 DEF ShortFrames!Failed, ShortParts!Frames!Failed, ShortFrames!Fine, ShortParts!Frames!Fine,
     ShortFrames!NotAllocated, ShortParts!Frames!NotAllocated, ShortFrames!NotExtended,
     ShortParts!Frames!NotExtended, ShortFrames!Allocated, ShortParts!Frames!Allocated,
     ShortFrames!frameVars, ShortParts!Frames!frameVars, ShortFrames!Sends, ShortParts!Frames!Sends,
     ShortFrames!Ends, ShortParts!Frames!Ends, ShortFrames!IsPayload, ShortParts!Frames!IsPayload
<1>4. /\ \A f : ShortFrames!Incomplete(f) => ShortParts!Frames!Incomplete(f)
      /\ \A f : ShortFrames!Control(f) => ShortParts!Frames!Control(f)
      /\ \A f : ShortFrames!Dispatch(f) => ShortParts!Frames!Dispatch(f)
      /\ \A f : ShortFrames!Fragment(f) => ShortParts!Frames!Fragment(f)
  BY <1>1, <1>2, <1>3 DEF ShortFrames!Incomplete, ShortParts!Frames!Incomplete, ShortFrames!Control,
     ShortParts!Frames!Control, ShortFrames!Dispatch, ShortParts!Frames!Dispatch, ShortFrames!Fragment,
     ShortParts!Frames!Fragment
<1>5. /\ ShortFrames!InData => ShortParts!Frames!InData
      /\ ShortFrames!Reconnect => ShortParts!Frames!Reconnect
  BY <1>1, <1>2, <1>3, <1>4 DEF ShortFrames!InData, ShortParts!Frames!InData, ShortFrames!Reconnect,
     ShortParts!Frames!Reconnect, ShortFrames!frameVars, ShortParts!Frames!frameVars
<1>6. ShortFrames!Init => ShortParts!Frames!Init
  BY <1>1 DEF ShortFrames!Init, ShortParts!Frames!Init
<1>7. /\ ShortParts!Frames!OwnsItsFrames <=> ShortFrames!OwnsItsFrames
      /\ ShortParts!Frames!BytesFit <=> ShortFrames!BytesFit
  BY DEF ShortFrames!OwnsItsFrames, ShortParts!Frames!OwnsItsFrames, ShortFrames!Owned,
     ShortParts!Frames!Owned, ShortFrames!Cardinality, ShortParts!Frames!Cardinality, ShortFrames!BytesFit,
     ShortParts!Frames!BytesFit
<1>8. QED
  BY <1>1, <1>5, <1>6, <1>7 DEF ShortFrames!Next, ShortParts!Frames!Next

\* A7672E.c and server.py: whatever north-east position and course the modem reports with
\* minutes of two digits and a fraction of any length, the server accepts the report and
\* shows what the record holds, and the speed if it fits its byte; of fractions of six
\* digits that is the position, to four digits of the minute.
THEOREM PositionAlwaysReported == Spec => []PositionAsReported
<1>1. Init => ShortParts!Report!Init
  BY SameReport, Zenon DEF Init
<1>2. [Next]_vars => [ShortParts!Report!Next]_(ShortParts!Report!vars)
  BY PartSteps, SameReport, Zenon DEF report, ShortParts!Report!vars
<1>3. ShortParts!LongLines
  BY ConstantsAssumption, SMT DEF ShortParts!LongLines, Report!InputsAssumption,
     ShortParts!Report!InputsAssumption
<1> DEFINE Shown ==
  /\ ShortParts!Report!FullLine => ShortParts!Report!PositionAsReported
  /\ ShortParts!Report!RecordShown /\ ShortParts!Report!NoRefusal /\ ShortParts!Report!SlowSpeedKept
<1>4. ShortParts!Report!Spec => []Shown
  BY <1>3, ShortParts!PositionShown, Zenon
<1>5. Shown => PositionAsReported
  BY SameReport DEF PositionAsReported
<1> HIDE DEF Shown
<1>6. QED
  BY <1>1, <1>2, <1>4, <1>5, PTL DEF Spec, ShortParts!Report!Spec

\* pmz_io_control.c: with the interrupt between any two assignments, whatever pulses and
\* blinks have been asked for, the pin has the level that was set last.
THEOREM LevelIsAsAsked == Spec => []LevelAsAsked
<1>1. Init => ShortParts!Init
  BY SameOutput, Zenon DEF Init
<1>2. [Next]_vars => [ShortParts!Next]_(ShortParts!vars)
  BY PartSteps, SameOutput, Zenon DEF output, ShortParts!vars
<1>3. Spec => ShortParts!Spec
  BY <1>1, <1>2, PTL DEF Spec, ShortParts!Spec
<1>4. ShortParts!OutputAssumption /\ ~FALSE
  BY ConstantsAssumption DEF Output!OutputAssumption, ShortParts!OutputAssumption,
     Output!TIME_RESOLUTION_MS, ShortParts!TIME_RESOLUTION_MS
<1>5. ShortParts!Spec => []ShortParts!LevelAsAsked
  BY <1>4, ShortParts!LastSetStateWins
<1>6. ShortParts!LevelAsAsked <=> LevelAsAsked
  BY SameOutput DEF LevelAsAsked
<1>7. QED
  BY <1>3, <1>5, <1>6, PTL

LongParts == INSTANCE PartProofs WITH
  Inverted <- FALSE, Preempts <- TRUE, asked <- oAsked,
  Western <- {FALSE}, Minutes <- LongMinutes, Courses <- {145},
  Chunk <- 3, HeaderSizes <- {2, 4, 10}, MaxPayload <- 3, MaxFragments <- 3, MaxFailures <- 0,
  Cuts <- FALSE, Masks <- TRUE

\* The bench's frames behave as WsFrames says: those of enough memory, and those of an
\* allocation that fails; what is asked of them says nothing of the constants.
LEMMA SameFrames ==
  /\ Frames!Init => LongParts!Frames!Init
  /\ Frames!Next => LongParts!Frames!Next
  /\ LongParts!Frames!OwnsItsFrames <=> ShortFrames!OwnsItsFrames
  /\ LongParts!Frames!BytesFit <=> ShortFrames!BytesFit
<1>1. /\ Frames!Plain = LongParts!Frames!Plain
      /\ Frames!Nothing = LongParts!Frames!Nothing
      /\ Frames!Undefined = LongParts!Frames!Undefined
      /\ \A n : Frames!NewFrame(n) = LongParts!Frames!NewFrame(n)
      /\ Frames!Current = LongParts!Frames!Current
      /\ Frames!Earlier = LongParts!Frames!Earlier
      /\ Frames!BlocksNow = LongParts!Frames!BlocksNow
      /\ Frames!Headers = LongParts!Frames!Headers
      /\ Frames!NextHeaders = LongParts!Frames!NextHeaders
  BY DEF Frames!Undefined, LongParts!Frames!Undefined, Frames!Plain, LongParts!Frames!Plain,
     Frames!Nothing, LongParts!Frames!Nothing,
     Frames!Promise!Nothing, LongParts!Frames!Promise!Nothing, Frames!NewFrame, LongParts!Frames!NewFrame,
     Frames!Current, LongParts!Frames!Current, Frames!Earlier, LongParts!Frames!Earlier, Frames!Last,
     LongParts!Frames!Last, Frames!Front, LongParts!Frames!Front, Frames!BlocksNow,
     LongParts!Frames!BlocksNow, Frames!Headers, LongParts!Frames!Headers, Frames!NextHeaders,
     LongParts!Frames!NextHeaders, Frames!Legal, LongParts!Frames!Legal
<1>2. /\ \A h : Frames!ReadAs(h) = LongParts!Frames!ReadAs(h)
      /\ \A f : Frames!Extended(f) = LongParts!Frames!Extended(f)
      /\ \A f, r, v : Frames!Stored(f, r, v) = LongParts!Frames!Stored(f, r, v)
      /\ \A f : Frames!Complete(f) <=> LongParts!Frames!Complete(f)
      /\ \A f : Frames!IsControl(f) <=> LongParts!Frames!IsControl(f)
      /\ \A s : Frames!Handed(s) = LongParts!Frames!Handed(s)
  BY <1>1 DEF Frames!ReadAs, LongParts!Frames!ReadAs, Frames!Extended, LongParts!Frames!Extended,
     Frames!Stored, LongParts!Frames!Stored, Frames!Complete, LongParts!Frames!Complete, Frames!IsControl,
     LongParts!Frames!IsControl, Frames!FlattenSeq, LongParts!Frames!FlattenSeq, Frames!MessageOf,
     LongParts!Frames!MessageOf, Frames!PayloadOf, LongParts!Frames!PayloadOf, Frames!Handed,
     LongParts!Frames!Handed, Frames!BlockSize, LongParts!Frames!BlockSize, Frames!Last,
     LongParts!Frames!Last, Frames!Undefined, LongParts!Frames!Undefined
<1>3. /\ Frames!Failed => LongParts!Frames!Failed
      /\ Frames!Fine => LongParts!Frames!Fine
      /\ Frames!NotAllocated => LongParts!Frames!NotAllocated
      /\ Frames!NotExtended => LongParts!Frames!NotExtended
      /\ \A h : Frames!Sends(h) => LongParts!Frames!Sends(h)
  BY <1>1 DEF Frames!Failed, LongParts!Frames!Failed, Frames!Fine, LongParts!Frames!Fine,
     Frames!NotAllocated, LongParts!Frames!NotAllocated, Frames!NotExtended, LongParts!Frames!NotExtended,
     Frames!Allocated, LongParts!Frames!Allocated, Frames!frameVars, LongParts!Frames!frameVars,
     Frames!Sends, LongParts!Frames!Sends, Frames!Ends, LongParts!Frames!Ends, Frames!IsPayload,
     LongParts!Frames!IsPayload
<1>4. /\ \A f : Frames!Incomplete(f) => LongParts!Frames!Incomplete(f)
      /\ \A f : Frames!Control(f) => LongParts!Frames!Control(f)
      /\ \A f : Frames!Dispatch(f) => LongParts!Frames!Dispatch(f)
      /\ \A f : Frames!Fragment(f) => LongParts!Frames!Fragment(f)
  BY <1>1, <1>2, <1>3 DEF Frames!Incomplete, LongParts!Frames!Incomplete, Frames!Control,
     LongParts!Frames!Control, Frames!Dispatch, LongParts!Frames!Dispatch, Frames!Fragment,
     LongParts!Frames!Fragment
<1>5. /\ Frames!InData => LongParts!Frames!InData
      /\ Frames!Reconnect => LongParts!Frames!Reconnect
  BY <1>1, <1>2, <1>3, <1>4 DEF Frames!InData, LongParts!Frames!InData, Frames!Reconnect,
     LongParts!Frames!Reconnect, Frames!frameVars, LongParts!Frames!frameVars
<1>6. Frames!Init => LongParts!Frames!Init
  BY <1>1 DEF Frames!Init, LongParts!Frames!Init
<1>7. /\ LongParts!Frames!OwnsItsFrames <=> ShortFrames!OwnsItsFrames
      /\ LongParts!Frames!BytesFit <=> ShortFrames!BytesFit
  BY DEF ShortFrames!OwnsItsFrames, LongParts!Frames!OwnsItsFrames, ShortFrames!Owned,
     LongParts!Frames!Owned, ShortFrames!Cardinality, LongParts!Frames!Cardinality, ShortFrames!BytesFit,
     LongParts!Frames!BytesFit
<1>8. QED
  BY <1>1, <1>5, <1>6, <1>7 DEF Frames!Next, LongParts!Frames!Next

\* ws_client.c: whichever allocation fails and wherever a connection ends, no frame that
\* was freed is kept and the bytes of a frame are inside its block.
THEOREM FramesAlwaysOwned == Spec => []FramesOwned
<1> DEFINE Long == LongParts!Frames!OwnsItsFrames /\ LongParts!Frames!BytesFit
           Short == ShortParts!Frames!OwnsItsFrames /\ ShortParts!Frames!BytesFit
<1>1. Init => LongParts!Frames!Init /\ ShortParts!Frames!Init
  <2>1. Frames!Init => ShortFrames!Init
    BY DEF Frames!Init, ShortFrames!Init, Frames!Nothing, ShortFrames!Nothing, Frames!Promise!Nothing,
       ShortFrames!Promise!Nothing, Frames!Plain, ShortFrames!Plain
  <2>2. QED
    BY <2>1, SameFrames, SameShortFrames, Zenon DEF Init
<1>2. [Next]_vars => ((part = "frames")' <=> part = "frames")
  BY PartSteps, Zenon
<1>3. part = "frames" /\ [Next]_vars => [LongParts!Frames!Next]_(LongParts!Frames!vars)
  BY PartSteps, SameFrames DEF ws, LongParts!Frames!vars, LongParts!Frames!frameVars,
     LongParts!Frames!serverVars
<1>4. ~(part = "frames") /\ [Next]_vars => [ShortParts!Frames!Next]_(ShortParts!Frames!vars)
  BY PartSteps, SameShortFrames, Zenon DEF ws, ShortParts!Frames!vars, ShortParts!Frames!frameVars,
     ShortParts!Frames!serverVars
<1>5. LongParts!Frames!FramesAssumption /\ ShortParts!Frames!FramesAssumption
  BY ConstantsAssumption DEF Frames!FramesAssumption, ShortFrames!FramesAssumption,
     LongParts!Frames!FramesAssumption, ShortParts!Frames!FramesAssumption
<1>6. LongParts!Frames!Spec => []Long
  BY <1>5, LongParts!FramesKept, Zenon
<1>7. ShortParts!Frames!Spec => []Short
  BY <1>5, ShortParts!FramesKept, Zenon
<1>8. Long \/ Short => FramesOwned
  BY SameFrames, SameShortFrames DEF FramesOwned
<1> HIDE DEF Long, Short
<1>9. QED
  BY <1>1, <1>2, <1>3, <1>4, <1>6, <1>7, <1>8, PTL DEF Spec, LongParts!Frames!Spec, ShortParts!Frames!Spec

-----------------------------------------------------------------------------
(***************************************************************************)
(* The chips: ChipProofs.                                                  *)
(***************************************************************************)
\* A board with the first chip.
\* A board with the first chip, and one with both.
OneChip == INSTANCE ChipProofs WITH
  Fitted <- {0}, LastPage <- 2, BlockPages <- 2, Data <- FlashData, ChainMax <- 2, MaxPages <- 2,
  ReadsFirst <- FALSE, Closes <- TRUE, MaxRestarts <- Restarts,
  Times <- ClockTimes, Factory <- "factory", Torn <- "torn", None <- "none", MaxFailures <- BusFailures,
  failures <- faults

\* The clock chip of the bench behaves as Mcp7940x says.
LEMMA SameClock ==
  /\ Clock!Init => OneChip!Clock!Init
  /\ Clock!Next => OneChip!Clock!Next
  /\ Clock!ImageHeld <=> OneChip!Clock!ImageHeld
  /\ Clock!RunsWhenIdle <=> OneChip!Clock!RunsWhenIdle
  /\ Clock!ClocksAgree <=> OneChip!Clock!ClocksAgree
<1>1. Clock!Init => OneChip!Clock!Init
  BY DEF Clock!Init, OneChip!Clock!Init, Clock!Sub, OneChip!Clock!Sub
<1>2. Clock!Next => OneChip!Clock!Next
  BY DEF Clock!Next, OneChip!Clock!Next, Clock!Tasks, OneChip!Clock!Tasks, Clock!WaitEnd,
     OneChip!Clock!WaitEnd, Clock!GetTs, OneChip!Clock!GetTs, Clock!BusEnds, OneChip!Clock!BusEnds,
     Clock!SetTime, OneChip!Clock!SetTime, Clock!WaitStart, OneChip!Clock!WaitStart, Clock!Transfer,
     OneChip!Clock!Transfer, Clock!InitTask, OneChip!Clock!InitTask, Clock!CheckOn,
     OneChip!Clock!CheckOn, Clock!RefreshData, OneChip!Clock!RefreshData, Clock!RefreshForUpdate,
     OneChip!Clock!RefreshForUpdate, Clock!TurnOn, OneChip!Clock!TurnOn, Clock!Updating,
     OneChip!Clock!Updating, Clock!ErrorTask, OneChip!Clock!ErrorTask, Clock!End, OneChip!Clock!End,
     Clock!MayFail, OneChip!Clock!MayFail, Clock!Errors, OneChip!Clock!Errors, Clock!Mixed,
     OneChip!Clock!Mixed, Clock!TakesTs, OneChip!Clock!TakesTs, Clock!TransferStarts,
     OneChip!Clock!TransferStarts, Clock!I2cTask, OneChip!Clock!I2cTask, Clock!TransferEnds,
     OneChip!Clock!TransferEnds, Clock!Starts, OneChip!Clock!Starts, Clock!Ends, OneChip!Clock!Ends,
     Clock!Task, OneChip!Clock!Task, Clock!IsOn, OneChip!Clock!IsOn, Clock!Begins, OneChip!Clock!Begins,
     Clock!Sub, OneChip!Clock!Sub, Clock!Setting, OneChip!Clock!Setting, Clock!Outcome,
     OneChip!Clock!Outcome
<1>3. Clock!ImageHeld <=> OneChip!Clock!ImageHeld
  BY DEF Clock!ImageHeld, OneChip!Clock!ImageHeld
<1>4. Clock!RunsWhenIdle <=> OneChip!Clock!RunsWhenIdle
  BY DEF Clock!RunsWhenIdle, OneChip!Clock!RunsWhenIdle
<1>5. Clock!ClocksAgree <=> OneChip!Clock!ClocksAgree
  BY DEF Clock!ClocksAgree, OneChip!Clock!ClocksAgree
<1>6. QED
  BY <1>1, <1>2, <1>3, <1>4, <1>5

\* drv_mcp7940x.c: however the transfers on the bus have failed, the image of the registers
\* belongs to the transfer that is on its way, an idle driver has a chip that runs and,
\* unless it was refused or has failed, the time that was set last.
THEOREM ClocksAlwaysAgree == Spec => []ClocksAgree
<1>1. Init => OneChip!Clock!Init
  BY SameClock, Zenon DEF Init
<1>2. [Next]_vars => [OneChip!Clock!Next]_(OneChip!Clock!vars)
  BY PartSteps, SameClock, Zenon DEF clock, OneChip!Clock!vars, OneChip!Clock!driverVars
<1>3. Spec => OneChip!Clock!Spec
  BY <1>1, <1>2, PTL DEF Spec, OneChip!Clock!Spec
<1>4. OneChip!Clock!FailuresAssumption
  BY ConstantsAssumption DEF Clock!FailuresAssumption, OneChip!Clock!FailuresAssumption
<1>5. OneChip!Clock!Spec
        => [](OneChip!Clock!ImageHeld /\ OneChip!Clock!RunsWhenIdle /\ OneChip!Clock!ClocksAgree)
  BY <1>4, OneChip!ChipShowsTheTime
<1>6. OneChip!Clock!ImageHeld /\ OneChip!Clock!RunsWhenIdle /\ OneChip!Clock!ClocksAgree <=> ClocksAgree
  BY SameClock DEF ClocksAgree
<1>7. QED
  BY <1>3, <1>5, <1>6, PTL

\* The board with the first chip behaves as Sst26 says.
LEMMA SameChip ==
  /\ Flash({0}, 2, 2)!Init => OneChip!Init
  /\ Flash({0}, 2, 2)!Next => OneChip!Next
  /\ OneChip!KeepsItsWord <=> Flash({0}, 2, 2)!KeepsItsWord
  /\ OneChip!NamedChange <=> Flash({0}, 2, 2)!NamedChange
  /\ OneChip!OpenEnds <=> Flash({0}, 2, 2)!OpenEnds
<1>1. Flash({0}, 2, 2)!Init => OneChip!Init
  BY DEF Flash!Init, OneChip!Init, Flash!IC, OneChip!IC, Flash!Closed, OneChip!Closed, Flash!Bare,
     OneChip!Bare, Flash!NoChip, OneChip!NoChip, Flash!NoChain, OneChip!NoChain, Flash!Idle,
     OneChip!Idle, Flash!NoTransfer, OneChip!NoTransfer, Flash!NewChip, OneChip!NewChip, Flash!NoCall,
     OneChip!NoCall, Flash!Page, OneChip!Page, Flash!Call, OneChip!Call
<1>2. Flash({0}, 2, 2)!Next => OneChip!Next
  <2>1. /\ \A ch, d : Flash({0}, 2, 2)!Send(ch, d) = OneChip!Send(ch, d)
        /\ \A ch, d : Flash({0}, 2, 2)!Follows(ch, d) = OneChip!Follows(ch, d)
        /\ \A ch : Flash({0}, 2, 2)!HalfWay(ch) = OneChip!HalfWay(ch)
    BY DEF Flash!Send, OneChip!Send, Flash!Follows, OneChip!Follows, Flash!Executed, OneChip!Executed,
       Flash!CommandLength, OneChip!CommandLength, Flash!Erase, OneChip!Erase, Flash!Enabled,
       OneChip!Enabled, Flash!Page, OneChip!Page, Flash!Touched, OneChip!Touched, Flash!Programmed,
       OneChip!Programmed, Flash!Ops, OneChip!Ops, Flash!HalfWay, OneChip!HalfWay, Flash!IC, OneChip!IC
  <2>2. /\ \A r : Flash({0}, 2, 2)!BeforeLast(r) = OneChip!BeforeLast(r)
        /\ \A r : Flash({0}, 2, 2)!LastDesc(r) = OneChip!LastDesc(r)
    BY <2>1 DEF Flash!BeforeLast, OneChip!BeforeLast, Flash!First, OneChip!First, Flash!LastDesc,
       OneChip!LastDesc
  <2>3. /\ \A r : Flash({0}, 2, 2)!AfterTransfer(r) = OneChip!AfterTransfer(r)
        /\ \A r : Flash({0}, 2, 2)!Answered(r) = OneChip!Answered(r)
    BY <2>1, <2>2 DEF Flash!AfterTransfer, OneChip!AfterTransfer, Flash!Answered, OneChip!Answered
  <2>4. /\ Flash({0}, 2, 2)!Received = OneChip!Received
        /\ Flash({0}, 2, 2)!Outcomes = OneChip!Outcomes
    BY <2>3, <2>1 DEF Flash!Received, OneChip!Received, Flash!Outcomes, OneChip!Outcomes, Flash!NoTransfer,
       OneChip!NoTransfer
  <2>5. \A h : Flash({0}, 2, 2)!Open(h) => OneChip!Open(h)
    BY DEF Flash!Open, OneChip!Open, Flash!Idle, OneChip!Idle, Flash!NoCall, OneChip!NoCall,
       Flash!OpenTransfer, OneChip!OpenTransfer, Flash!Call, OneChip!Call, Flash!Transfer, OneChip!Transfer,
       Flash!Only0, OneChip!Only0, Flash!Bare, OneChip!Bare, Flash!Only1, OneChip!Only1, Flash!Both,
       OneChip!Both, Flash!EnableWrite, OneChip!EnableWrite, Flash!Instruction, OneChip!Instruction,
       Flash!WithData, OneChip!WithData, Flash!Chain, OneChip!Chain, Flash!IC, OneChip!IC
  <2>6. \A h : Flash({0}, 2, 2)!Close(h) => OneChip!Close(h)
    BY DEF Flash!Close, OneChip!Close, Flash!CheckHandle, OneChip!CheckHandle, Flash!InitHandleData,
       OneChip!InitHandleData, Flash!Idle, OneChip!Idle, Flash!NoChip, OneChip!NoChip
  <2>7. \A h : Flash({0}, 2, 2)!UnlockFlash(h) => OneChip!UnlockFlash(h)
    BY DEF Flash!UnlockFlash, OneChip!UnlockFlash, Flash!CheckHandle, OneChip!CheckHandle, Flash!Call,
       OneChip!Call, Flash!Transfer, OneChip!Transfer, Flash!Both, OneChip!Both, Flash!EnableWrite,
       OneChip!EnableWrite, Flash!Instruction, OneChip!Instruction, Flash!Idle, OneChip!Idle, Flash!IC,
       OneChip!IC, Flash!Bare, OneChip!Bare
  <2>8. \A h : Flash({0}, 2, 2)!ReadStatus(h) => OneChip!ReadStatus(h)
    BY DEF Flash!ReadStatus, OneChip!ReadStatus, Flash!CheckHandle, OneChip!CheckHandle, Flash!Call,
       OneChip!Call, Flash!Transfer, OneChip!Transfer, Flash!Only0, OneChip!Only0, Flash!WithData,
       OneChip!WithData, Flash!Chain, OneChip!Chain, Flash!Idle, OneChip!Idle, Flash!Instruction,
       OneChip!Instruction, Flash!Bare, OneChip!Bare
  <2>9. /\ Flash({0}, 2, 2)!OpenNext => OneChip!OpenNext
        /\ Flash({0}, 2, 2)!OpenFails => OneChip!OpenFails
        /\ Flash({0}, 2, 2)!OpenDone => OneChip!OpenDone
        /\ Flash({0}, 2, 2)!WaitEnds => OneChip!WaitEnds
    BY DEF Flash!OpenNext, OneChip!OpenNext, Flash!OpenTransfer, OneChip!OpenTransfer, Flash!Transfer,
       OneChip!Transfer, Flash!Only0, OneChip!Only0, Flash!Bare, OneChip!Bare, Flash!Only1, OneChip!Only1,
       Flash!Both, OneChip!Both, Flash!EnableWrite, OneChip!EnableWrite, Flash!Instruction,
       OneChip!Instruction, Flash!WithData, OneChip!WithData, Flash!Chain, OneChip!Chain, Flash!IC,
       OneChip!IC, Flash!OpenFails, OneChip!OpenFails, Flash!Idle, OneChip!Idle, Flash!OpenDone,
       OneChip!OpenDone, Flash!WaitEnds, OneChip!WaitEnds
  <2>10. \A h, p, n : Flash({0}, 2, 2)!Read(h, p, n) => OneChip!Read(h, p, n)
    BY DEF Flash!Read, OneChip!Read, Flash!CheckHandle, OneChip!CheckHandle, Flash!Erase, OneChip!Erase,
       Flash!Call, OneChip!Call, Flash!Transfer, OneChip!Transfer, Flash!Only1, OneChip!Only1,
       Flash!WithData, OneChip!WithData, Flash!Chain, OneChip!Chain, Flash!Chained, OneChip!Chained,
       Flash!Idle, OneChip!Idle, Flash!Instruction, OneChip!Instruction, Flash!Bare, OneChip!Bare
  <2>11. \A h, p, d : Flash({0}, 2, 2)!PageWrite(h, p, d) => OneChip!PageWrite(h, p, d)
    BY DEF Flash!PageWrite, OneChip!PageWrite, Flash!CheckHandle, OneChip!CheckHandle, Flash!Call,
       OneChip!Call, Flash!Transfer, OneChip!Transfer, Flash!Both, OneChip!Both, Flash!EnableWrite,
       OneChip!EnableWrite, Flash!WithData, OneChip!WithData, Flash!Chain, OneChip!Chain, Flash!Idle,
       OneChip!Idle, Flash!IC, OneChip!IC, Flash!Bare, OneChip!Bare, Flash!Instruction, OneChip!Instruction
  <2>12. \A h, p : Flash({0}, 2, 2)!SectorErase(h, p) => OneChip!SectorErase(h, p)
    BY DEF Flash!SectorErase, OneChip!SectorErase, Flash!EraseCall, OneChip!EraseCall, Flash!CheckHandle,
       OneChip!CheckHandle, Flash!Call, OneChip!Call, Flash!Transfer, OneChip!Transfer, Flash!Both,
       OneChip!Both, Flash!EnableWrite, OneChip!EnableWrite, Flash!Instruction, OneChip!Instruction,
       Flash!CommandLength, OneChip!CommandLength, Flash!Idle, OneChip!Idle, Flash!IC, OneChip!IC,
       Flash!Bare, OneChip!Bare, Flash!Ops, OneChip!Ops, Flash!Erase, OneChip!Erase
  <2>13. \A h, p : Flash({0}, 2, 2)!BulkErase(h, p) => OneChip!BulkErase(h, p)
    BY DEF Flash!BulkErase, OneChip!BulkErase, Flash!EraseCall, OneChip!EraseCall, Flash!CheckHandle,
       OneChip!CheckHandle, Flash!Call, OneChip!Call, Flash!Transfer, OneChip!Transfer, Flash!Both,
       OneChip!Both, Flash!EnableWrite, OneChip!EnableWrite, Flash!Instruction, OneChip!Instruction,
       Flash!CommandLength, OneChip!CommandLength, Flash!Idle, OneChip!Idle, Flash!IC, OneChip!IC,
       Flash!Bare, OneChip!Bare, Flash!Ops, OneChip!Ops, Flash!Erase, OneChip!Erase
  <2>14. \A h : Flash({0}, 2, 2)!ChipErase(h) => OneChip!ChipErase(h)
    BY DEF Flash!ChipErase, OneChip!ChipErase, Flash!EraseCall, OneChip!EraseCall, Flash!CheckHandle,
       OneChip!CheckHandle, Flash!Call, OneChip!Call, Flash!Transfer, OneChip!Transfer, Flash!Both,
       OneChip!Both, Flash!EnableWrite, OneChip!EnableWrite, Flash!Instruction, OneChip!Instruction,
       Flash!CommandLength, OneChip!CommandLength, Flash!Idle, OneChip!Idle, Flash!IC, OneChip!IC,
       Flash!Bare, OneChip!Bare, Flash!Ops, OneChip!Ops, Flash!Erase, OneChip!Erase
  <2>15. /\ Flash({0}, 2, 2)!EventHandler => OneChip!EventHandler
         /\ Flash({0}, 2, 2)!Restart => OneChip!Restart
    BY <2>3, <2>4 DEF Flash!EventHandler, OneChip!EventHandler, Flash!NoTransfer, OneChip!NoTransfer,
       Flash!Restart, OneChip!Restart, Flash!IC, OneChip!IC, Flash!NewChip, OneChip!NewChip, Flash!Closed,
       OneChip!Closed, Flash!Bare, OneChip!Bare, Flash!NoChip, OneChip!NoChip, Flash!NoChain,
       OneChip!NoChain, Flash!Idle, OneChip!Idle, Flash!NoCall, OneChip!NoCall, Flash!Call, OneChip!Call,
       Flash!Page, OneChip!Page
  <2>16. QED
    BY <2>5, <2>6, <2>7, <2>8, <2>9, <2>10, <2>11, <2>12, <2>13, <2>14, <2>15 DEF Flash!Next, OneChip!Next,
       Flash!IC, OneChip!IC, Flash!Page, OneChip!Page
<1>3. OneChip!KeepsItsWord <=> Flash({0}, 2, 2)!KeepsItsWord
  BY DEF Flash!KeepsItsWord, OneChip!KeepsItsWord, Flash!OpenedHasItsChip, OneChip!OpenedHasItsChip,
     Flash!Landed, OneChip!Landed, Flash!ReadIsMemory, OneChip!ReadIsMemory, Flash!IC, OneChip!IC,
     Flash!NoTransfer, OneChip!NoTransfer, Flash!Erase, OneChip!Erase, Flash!Touched, OneChip!Touched,
     Flash!Page, OneChip!Page
<1>4. OneChip!NamedChange <=> Flash({0}, 2, 2)!NamedChange
  BY DEF Flash!NamedChange, OneChip!NamedChange, Flash!IC, OneChip!IC, Flash!Page, OneChip!Page,
     Flash!Touched, OneChip!Touched
<1>5. OneChip!OpenEnds <=> Flash({0}, 2, 2)!OpenEnds
  BY DEF Flash!OpenEnds, OneChip!OpenEnds, Flash!Idle, OneChip!Idle
<1>6. QED
  BY <1>1, <1>2, <1>3, <1>4, <1>5

\* A board with both chips.
BothChips == INSTANCE ChipProofs WITH
  Fitted <- {0, 1}, LastPage <- 0, BlockPages <- 2, Data <- FlashData, ChainMax <- 1, MaxPages <- 1,
  ReadsFirst <- FALSE, Closes <- TRUE, MaxRestarts <- Restarts,
  Times <- ClockTimes, Factory <- "factory", Torn <- "torn", None <- "none", MaxFailures <- BusFailures,
  failures <- faults

\* The board with both chips behaves as Sst26 says.
LEMMA SameChips ==
  /\ Flash({0, 1}, 0, 1)!Init => BothChips!Init
  /\ Flash({0, 1}, 0, 1)!Next => BothChips!Next
  /\ BothChips!KeepsItsWord <=> Flash({0, 1}, 0, 1)!KeepsItsWord
  /\ BothChips!NamedChange <=> Flash({0, 1}, 0, 1)!NamedChange
  /\ BothChips!OpenEnds <=> Flash({0, 1}, 0, 1)!OpenEnds
<1>1. Flash({0, 1}, 0, 1)!Init => BothChips!Init
  BY DEF Flash!Init, BothChips!Init, Flash!IC, BothChips!IC, Flash!Closed, BothChips!Closed, Flash!Bare,
     BothChips!Bare, Flash!NoChip, BothChips!NoChip, Flash!NoChain, BothChips!NoChain, Flash!Idle,
     BothChips!Idle, Flash!NoTransfer, BothChips!NoTransfer, Flash!NewChip, BothChips!NewChip,
     Flash!NoCall, BothChips!NoCall, Flash!Page, BothChips!Page, Flash!Call, BothChips!Call
<1>2. Flash({0, 1}, 0, 1)!Next => BothChips!Next
  <2>1. /\ \A ch, d : Flash({0, 1}, 0, 1)!Send(ch, d) = BothChips!Send(ch, d)
        /\ \A ch, d : Flash({0, 1}, 0, 1)!Follows(ch, d) = BothChips!Follows(ch, d)
        /\ \A ch : Flash({0, 1}, 0, 1)!HalfWay(ch) = BothChips!HalfWay(ch)
    BY DEF Flash!Send, BothChips!Send, Flash!Follows, BothChips!Follows, Flash!Executed, BothChips!Executed,
       Flash!CommandLength, BothChips!CommandLength, Flash!Erase, BothChips!Erase, Flash!Enabled,
       BothChips!Enabled, Flash!Page, BothChips!Page, Flash!Touched, BothChips!Touched, Flash!Programmed,
       BothChips!Programmed, Flash!Ops, BothChips!Ops, Flash!HalfWay, BothChips!HalfWay, Flash!IC,
       BothChips!IC
  <2>2. /\ \A r : Flash({0, 1}, 0, 1)!BeforeLast(r) = BothChips!BeforeLast(r)
        /\ \A r : Flash({0, 1}, 0, 1)!LastDesc(r) = BothChips!LastDesc(r)
    BY <2>1 DEF Flash!BeforeLast, BothChips!BeforeLast, Flash!First, BothChips!First, Flash!LastDesc,
       BothChips!LastDesc
  <2>3. /\ \A r : Flash({0, 1}, 0, 1)!AfterTransfer(r) = BothChips!AfterTransfer(r)
        /\ \A r : Flash({0, 1}, 0, 1)!Answered(r) = BothChips!Answered(r)
    BY <2>1, <2>2 DEF Flash!AfterTransfer, BothChips!AfterTransfer, Flash!Answered, BothChips!Answered
  <2>4. /\ Flash({0, 1}, 0, 1)!Received = BothChips!Received
        /\ Flash({0, 1}, 0, 1)!Outcomes = BothChips!Outcomes
    BY <2>3, <2>1 DEF Flash!Received, BothChips!Received, Flash!Outcomes, BothChips!Outcomes,
       Flash!NoTransfer, BothChips!NoTransfer
  <2>5. \A h : Flash({0, 1}, 0, 1)!Open(h) => BothChips!Open(h)
    BY DEF Flash!Open, BothChips!Open, Flash!Idle, BothChips!Idle, Flash!NoCall, BothChips!NoCall,
       Flash!OpenTransfer, BothChips!OpenTransfer, Flash!Call, BothChips!Call, Flash!Transfer,
       BothChips!Transfer, Flash!Only0, BothChips!Only0, Flash!Bare, BothChips!Bare, Flash!Only1,
       BothChips!Only1, Flash!Both, BothChips!Both, Flash!EnableWrite, BothChips!EnableWrite,
       Flash!Instruction, BothChips!Instruction, Flash!WithData, BothChips!WithData, Flash!Chain,
       BothChips!Chain, Flash!IC, BothChips!IC
  <2>6. \A h : Flash({0, 1}, 0, 1)!Close(h) => BothChips!Close(h)
    BY DEF Flash!Close, BothChips!Close, Flash!CheckHandle, BothChips!CheckHandle, Flash!InitHandleData,
       BothChips!InitHandleData, Flash!Idle, BothChips!Idle, Flash!NoChip, BothChips!NoChip
  <2>7. \A h : Flash({0, 1}, 0, 1)!UnlockFlash(h) => BothChips!UnlockFlash(h)
    BY DEF Flash!UnlockFlash, BothChips!UnlockFlash, Flash!CheckHandle, BothChips!CheckHandle, Flash!Call,
       BothChips!Call, Flash!Transfer, BothChips!Transfer, Flash!Both, BothChips!Both, Flash!EnableWrite,
       BothChips!EnableWrite, Flash!Instruction, BothChips!Instruction, Flash!Idle, BothChips!Idle,
       Flash!IC, BothChips!IC, Flash!Bare, BothChips!Bare
  <2>8. \A h : Flash({0, 1}, 0, 1)!ReadStatus(h) => BothChips!ReadStatus(h)
    BY DEF Flash!ReadStatus, BothChips!ReadStatus, Flash!CheckHandle, BothChips!CheckHandle, Flash!Call,
       BothChips!Call, Flash!Transfer, BothChips!Transfer, Flash!Only0, BothChips!Only0, Flash!WithData,
       BothChips!WithData, Flash!Chain, BothChips!Chain, Flash!Idle, BothChips!Idle, Flash!Instruction,
       BothChips!Instruction, Flash!Bare, BothChips!Bare
  <2>9. /\ Flash({0, 1}, 0, 1)!OpenNext => BothChips!OpenNext
        /\ Flash({0, 1}, 0, 1)!OpenFails => BothChips!OpenFails
        /\ Flash({0, 1}, 0, 1)!OpenDone => BothChips!OpenDone
        /\ Flash({0, 1}, 0, 1)!WaitEnds => BothChips!WaitEnds
    BY DEF Flash!OpenNext, BothChips!OpenNext, Flash!OpenTransfer, BothChips!OpenTransfer, Flash!Transfer,
       BothChips!Transfer, Flash!Only0, BothChips!Only0, Flash!Bare, BothChips!Bare, Flash!Only1,
       BothChips!Only1, Flash!Both, BothChips!Both, Flash!EnableWrite, BothChips!EnableWrite,
       Flash!Instruction, BothChips!Instruction, Flash!WithData, BothChips!WithData, Flash!Chain,
       BothChips!Chain, Flash!IC, BothChips!IC, Flash!OpenFails, BothChips!OpenFails, Flash!Idle,
       BothChips!Idle, Flash!OpenDone, BothChips!OpenDone, Flash!WaitEnds, BothChips!WaitEnds
  <2>10. \A h, p, n : Flash({0, 1}, 0, 1)!Read(h, p, n) => BothChips!Read(h, p, n)
    BY DEF Flash!Read, BothChips!Read, Flash!CheckHandle, BothChips!CheckHandle, Flash!Erase,
       BothChips!Erase, Flash!Call, BothChips!Call, Flash!Transfer, BothChips!Transfer, Flash!Only1,
       BothChips!Only1, Flash!WithData, BothChips!WithData, Flash!Chain, BothChips!Chain, Flash!Chained,
       BothChips!Chained, Flash!Idle, BothChips!Idle, Flash!Instruction, BothChips!Instruction, Flash!Bare,
       BothChips!Bare
  <2>11. \A h, p, d : Flash({0, 1}, 0, 1)!PageWrite(h, p, d) => BothChips!PageWrite(h, p, d)
    BY DEF Flash!PageWrite, BothChips!PageWrite, Flash!CheckHandle, BothChips!CheckHandle, Flash!Call,
       BothChips!Call, Flash!Transfer, BothChips!Transfer, Flash!Both, BothChips!Both, Flash!EnableWrite,
       BothChips!EnableWrite, Flash!WithData, BothChips!WithData, Flash!Chain, BothChips!Chain, Flash!Idle,
       BothChips!Idle, Flash!IC, BothChips!IC, Flash!Bare, BothChips!Bare, Flash!Instruction,
       BothChips!Instruction
  <2>12. \A h, p : Flash({0, 1}, 0, 1)!SectorErase(h, p) => BothChips!SectorErase(h, p)
    BY DEF Flash!SectorErase, BothChips!SectorErase, Flash!EraseCall, BothChips!EraseCall,
       Flash!CheckHandle, BothChips!CheckHandle, Flash!Call, BothChips!Call, Flash!Transfer,
       BothChips!Transfer, Flash!Both, BothChips!Both, Flash!EnableWrite, BothChips!EnableWrite,
       Flash!Instruction, BothChips!Instruction, Flash!CommandLength, BothChips!CommandLength, Flash!Idle,
       BothChips!Idle, Flash!IC, BothChips!IC, Flash!Bare, BothChips!Bare, Flash!Ops, BothChips!Ops,
       Flash!Erase, BothChips!Erase
  <2>13. \A h, p : Flash({0, 1}, 0, 1)!BulkErase(h, p) => BothChips!BulkErase(h, p)
    BY DEF Flash!BulkErase, BothChips!BulkErase, Flash!EraseCall, BothChips!EraseCall, Flash!CheckHandle,
       BothChips!CheckHandle, Flash!Call, BothChips!Call, Flash!Transfer, BothChips!Transfer, Flash!Both,
       BothChips!Both, Flash!EnableWrite, BothChips!EnableWrite, Flash!Instruction, BothChips!Instruction,
       Flash!CommandLength, BothChips!CommandLength, Flash!Idle, BothChips!Idle, Flash!IC, BothChips!IC,
       Flash!Bare, BothChips!Bare, Flash!Ops, BothChips!Ops, Flash!Erase, BothChips!Erase
  <2>14. \A h : Flash({0, 1}, 0, 1)!ChipErase(h) => BothChips!ChipErase(h)
    BY DEF Flash!ChipErase, BothChips!ChipErase, Flash!EraseCall, BothChips!EraseCall, Flash!CheckHandle,
       BothChips!CheckHandle, Flash!Call, BothChips!Call, Flash!Transfer, BothChips!Transfer, Flash!Both,
       BothChips!Both, Flash!EnableWrite, BothChips!EnableWrite, Flash!Instruction, BothChips!Instruction,
       Flash!CommandLength, BothChips!CommandLength, Flash!Idle, BothChips!Idle, Flash!IC, BothChips!IC,
       Flash!Bare, BothChips!Bare, Flash!Ops, BothChips!Ops, Flash!Erase, BothChips!Erase
  <2>15. /\ Flash({0, 1}, 0, 1)!EventHandler => BothChips!EventHandler
         /\ Flash({0, 1}, 0, 1)!Restart => BothChips!Restart
    BY <2>3, <2>4 DEF Flash!EventHandler, BothChips!EventHandler, Flash!NoTransfer, BothChips!NoTransfer,
       Flash!Restart, BothChips!Restart, Flash!IC, BothChips!IC, Flash!NewChip, BothChips!NewChip,
       Flash!Closed, BothChips!Closed, Flash!Bare, BothChips!Bare, Flash!NoChip, BothChips!NoChip,
       Flash!NoChain, BothChips!NoChain, Flash!Idle, BothChips!Idle, Flash!NoCall, BothChips!NoCall,
       Flash!Call, BothChips!Call, Flash!Page, BothChips!Page
  <2>16. QED
    BY <2>5, <2>6, <2>7, <2>8, <2>9, <2>10, <2>11, <2>12, <2>13, <2>14, <2>15 DEF Flash!Next,
       BothChips!Next, Flash!IC, BothChips!IC, Flash!Page, BothChips!Page
<1>3. BothChips!KeepsItsWord <=> Flash({0, 1}, 0, 1)!KeepsItsWord
  BY DEF Flash!KeepsItsWord, BothChips!KeepsItsWord, Flash!OpenedHasItsChip, BothChips!OpenedHasItsChip,
     Flash!Landed, BothChips!Landed, Flash!ReadIsMemory, BothChips!ReadIsMemory, Flash!IC, BothChips!IC,
     Flash!NoTransfer, BothChips!NoTransfer, Flash!Erase, BothChips!Erase, Flash!Touched,
     BothChips!Touched, Flash!Page, BothChips!Page
<1>4. BothChips!NamedChange <=> Flash({0, 1}, 0, 1)!NamedChange
  BY DEF Flash!NamedChange, BothChips!NamedChange, Flash!IC, BothChips!IC, Flash!Page, BothChips!Page,
     Flash!Touched, BothChips!Touched
<1>5. BothChips!OpenEnds <=> Flash({0, 1}, 0, 1)!OpenEnds
  BY DEF Flash!OpenEnds, BothChips!OpenEnds, Flash!Idle, BothChips!Idle
<1>6. QED
  BY <1>1, <1>2, <1>3, <1>4, <1>5

\* A behaviour of the bench about a board is one of the board.
LEMMA BoardsMove ==
  /\ Spec /\ part = "flash" => OneChip!Spec
  /\ Spec /\ part = "chips" => BothChips!Spec
<1>1. Init /\ part = "flash" => OneChip!Init
  BY SameChip DEF Init
<1>2. Init /\ part = "chips" => BothChips!Init
  BY SameChips DEF Init
<1>3. [Next]_vars => ((part = "flash")' <=> part = "flash") /\ ((part = "chips")' <=> part = "chips")
  BY PartSteps, Zenon
<1>4. part = "flash" /\ [Next]_vars => [OneChip!Next]_(OneChip!vars)
  BY PartSteps, SameChip DEF flash, OneChip!vars
<1>5. part = "chips" /\ [Next]_vars => [BothChips!Next]_(BothChips!vars)
  BY PartSteps, SameChips DEF flash, BothChips!vars
<1>6. QED
  BY <1>1, <1>2, <1>3, <1>4, <1>5, PTL DEF Spec, OneChip!Spec, BothChips!Spec

\* What is assumed of a board is true of both.
LEMMA BoardsAssumed ==
  /\ OneChip!Sst26Assumption /\ 2 <= 2
  /\ BothChips!Sst26Assumption /\ 1 <= 1
  /\ ~FALSE
BY ConstantsAssumption DEF Flash!Sst26Assumption, OneChip!Sst26Assumption, BothChips!Sst26Assumption

\* drv_sst26.c: whatever was opened, closed and restarted, an open entry selects its own
\* unlocked chip, what was reported written or erased is, and what was read is the memory.
THEOREM FlashAlwaysKeepsItsWord == Spec => []FlashKeepsItsWord
<1>1. OneChip!Spec => []OneChip!KeepsItsWord
  BY BoardsAssumed, OneChip!FlashWordKept, Zenon
<1>2. BothChips!Spec => []BothChips!KeepsItsWord
  BY BoardsAssumed, BothChips!FlashWordKept, Zenon
<1>3. [Next]_vars => ((part = "flash")' <=> part = "flash") /\ ((part = "chips")' <=> part = "chips")
  BY PartSteps, Zenon
<1>4. (part = "flash" => OneChip!KeepsItsWord) /\ (part = "chips" => BothChips!KeepsItsWord)
        => FlashKeepsItsWord
  BY SameChip, SameChips DEF FlashKeepsItsWord
<1>5. QED
  BY <1>1, <1>2, <1>3, <1>4, BoardsMove, PTL DEF Spec

\* drv_sst26.c: no page changes but those an accepted call names, over every restart, and a
\* chip that is there is opened, also one that was left in quad mode.
THEOREM OtherPagesKept == Spec => OthersKept
<1> DEFINE One  == OneChip!NamedChange /\ OneChip!OpenEnds
           Both == BothChips!NamedChange /\ BothChips!OpenEnds
<1>1. OneChip!Spec => [][One]_(OneChip!vars)
  BY BoardsAssumed, OneChip!FlashPagesKept, Zenon
<1>2. BothChips!Spec => [][Both]_(BothChips!vars)
  BY BoardsAssumed, BothChips!FlashPagesKept, Zenon
<1>3. [Next]_vars => ((part = "flash")' <=> part = "flash") /\ ((part = "chips")' <=> part = "chips")
  BY PartSteps, Zenon
<1>4. UNCHANGED OneChip!vars => One
  BY DEF OneChip!vars, OneChip!NamedChange, OneChip!OpenEnds, OneChip!Idle
<1>5. UNCHANGED BothChips!vars => Both
  BY DEF BothChips!vars, BothChips!NamedChange, BothChips!OpenEnds, BothChips!Idle
<1> DEFINE Kept == /\ part = "flash" => Flash({0}, 2, 2)!NamedChange /\ Flash({0}, 2, 2)!OpenEnds
                   /\ part = "chips" => Flash({0, 1}, 0, 1)!NamedChange /\ Flash({0, 1}, 0, 1)!OpenEnds
<1>6. (part = "flash" => [One]_(OneChip!vars)) /\ (part = "chips" => [Both]_(BothChips!vars)) => Kept
  BY <1>4, <1>5, SameChip, SameChips
<1> HIDE DEF One, Both, Kept
<1>7. Spec => [][Kept]_vars
  BY <1>1, <1>2, <1>3, <1>6, BoardsMove, PTL DEF Spec
<1>8. QED
  BY <1>7 DEF Kept, OthersKept

-----------------------------------------------------------------------------
(***************************************************************************)
(* The TCP clients: TcpClientProofs.                                       *)
(***************************************************************************)
ClientProofs == INSTANCE TcpClientProofs WITH
  MaxSlots <- ClientSlots, MaxHandles <- Sockets, Foreign <- {}, MaxBytes <- 0,
  Resets <- TRUE,
  state <- cState, hSocket <- cSocket, accepted <- cAccepted, delivered <- cDelivered,
  sock <- cSock, rx <- cRx

\* The slots of the TCP client of the bench behave as TcpClient says.
LEMMA SameClients ==
  /\ Clients!Init => ClientProofs!Init
  /\ Clients!Next => ClientProofs!Next
  /\ Clients!SocketsOwned <=> ClientProofs!SocketsOwned
<1>1. Clients!Init => ClientProofs!Init
  BY DEF Clients!Init, ClientProofs!Init, Clients!Slots, ClientProofs!Slots, Clients!Handles,
     ClientProofs!Handles, Clients!NoReport, ClientProofs!NoReport
<1>2. Clients!Next => ClientProofs!Next
  <2>1. Clients!TaskCalled => ClientProofs!TaskCalled
    BY DEF Clients!TaskCalled, ClientProofs!TaskCalled, Clients!Silent, ClientProofs!Silent,
      Clients!slotVars, ClientProofs!slotVars, Clients!streamVars, ClientProofs!streamVars, Clients!netVars,
      ClientProofs!netVars, Clients!NoReport, ClientProofs!NoReport
  <2>2. \A s : Clients!Waits(s) => ClientProofs!Waits(s)
    BY DEF Clients!Waits, ClientProofs!Waits, Clients!At, ClientProofs!At, Clients!Socket,
      ClientProofs!Socket, Clients!IsConnected, ClientProofs!IsConnected, Clients!Silent, ClientProofs!Silent,
      Clients!slotVars, ClientProofs!slotVars, Clients!streamVars, ClientProofs!streamVars, Clients!netVars,
      ClientProofs!netVars, Clients!Handles, ClientProofs!Handles, Clients!NoReport, ClientProofs!NoReport
  <2>3. \A s : Clients!Advances(s) => ClientProofs!Advances(s)
    <3>1. /\ \A s : Clients!Resolve(s) => ClientProofs!Resolve(s)
          /\ \A s : Clients!Unresolved(s) => ClientProofs!Unresolved(s)
          /\ \A s : Clients!NoSocket(s) => ClientProofs!NoSocket(s)
      BY DEF Clients!Resolve, ClientProofs!Resolve, Clients!Silent, ClientProofs!Silent, Clients!Moves,
         ClientProofs!Moves, Clients!NoReport, ClientProofs!NoReport, Clients!At, ClientProofs!At,
         Clients!Goto, ClientProofs!Goto, Clients!streamVars, ClientProofs!streamVars, Clients!netVars,
         ClientProofs!netVars, Clients!Unresolved, ClientProofs!Unresolved, Clients!Report,
         ClientProofs!Report, Clients!NoSocket, ClientProofs!NoSocket, Clients!INVALID_SOCKET,
         ClientProofs!INVALID_SOCKET, Clients!Handles, ClientProofs!Handles
    <3>2. \A s : Clients!OpenSocket(s) => ClientProofs!OpenSocket(s)
      BY DEF Clients!OpenSocket, ClientProofs!OpenSocket, Clients!At, ClientProofs!At, Clients!Free,
         ClientProofs!Free, Clients!Goto, ClientProofs!Goto, Clients!FirstFree, ClientProofs!FirstFree,
         Clients!Silent, ClientProofs!Silent, Clients!streamVars, ClientProofs!streamVars, Clients!Handles,
         ClientProofs!Handles, Clients!NoReport, ClientProofs!NoReport
    <3>3. /\ \A s : Clients!Connected(s) => ClientProofs!Connected(s)
          /\ \A s : Clients!Encrypt(s) => ClientProofs!Encrypt(s)
          /\ \A s : Clients!Secured(s) => ClientProofs!Secured(s)
          /\ \A s : Clients!NotSecured(s) => ClientProofs!NotSecured(s)
      BY DEF Clients!Connected, ClientProofs!Connected, Clients!Socket, ClientProofs!Socket,
         Clients!IsConnected, ClientProofs!IsConnected, Clients!Established, ClientProofs!Established,
         Clients!netVars, ClientProofs!netVars, Clients!Handles, ClientProofs!Handles, Clients!At,
         ClientProofs!At, Clients!Goto, ClientProofs!Goto, Clients!Report, ClientProofs!Report,
         Clients!Encrypt, ClientProofs!Encrypt, Clients!Silent, ClientProofs!Silent, Clients!NoReport,
         ClientProofs!NoReport, Clients!Secured, ClientProofs!Secured, Clients!NotSecured,
         ClientProofs!NotSecured, Clients!Moves, ClientProofs!Moves, Clients!streamVars,
         ClientProofs!streamVars
    <3>4. /\ \A s : Clients!Unconnected(s) => ClientProofs!Unconnected(s)
          /\ \A s : Clients!Disconnected(s) => ClientProofs!Disconnected(s)
      BY DEF Clients!Unconnected, ClientProofs!Unconnected, Clients!Moves, ClientProofs!Moves,
         Clients!Report, ClientProofs!Report, Clients!At, ClientProofs!At, Clients!Goto, ClientProofs!Goto,
         Clients!streamVars, ClientProofs!streamVars, Clients!netVars, ClientProofs!netVars,
         Clients!Disconnected, ClientProofs!Disconnected, Clients!Socket, ClientProofs!Socket,
         Clients!Handles, ClientProofs!Handles
    <3>5. /\ \A s : Clients!SendNothing(s) => ClientProofs!SendNothing(s)
          /\ \A s : Clients!CloseConnection(s) => ClientProofs!CloseConnection(s)
      BY DEF Clients!SendNothing, ClientProofs!SendNothing, Clients!InConnection, ClientProofs!InConnection,
         Clients!ReportIfRead, ClientProofs!ReportIfRead, Clients!At, ClientProofs!At, Clients!Socket,
         ClientProofs!Socket, Clients!slotVars, ClientProofs!slotVars, Clients!netVars,
         ClientProofs!netVars, Clients!Report, ClientProofs!Report, Clients!Handles, ClientProofs!Handles,
         Clients!CloseConnection, ClientProofs!CloseConnection, Clients!Goto, ClientProofs!Goto,
         Clients!CloseSockets, ClientProofs!CloseSockets, Clients!INVALID_SOCKET,
         ClientProofs!INVALID_SOCKET, Clients!Forget, ClientProofs!Forget, Clients!Silent,
         ClientProofs!Silent, Clients!Slots, ClientProofs!Slots, Clients!NoReport, ClientProofs!NoReport
    <3>6. QED
      BY <3>1, <3>2, <3>3, <3>4, <3>5 DEF Clients!Advances, ClientProofs!Advances
  <2>4. \A s : Clients!Elapses(s) => ClientProofs!Elapses(s)
    BY DEF Clients!Elapses, ClientProofs!Elapses, Clients!Resolved, ClientProofs!Resolved,
      Clients!ConnectTimeout, ClientProofs!ConnectTimeout, Clients!RetryElapsed, ClientProofs!RetryElapsed,
      Clients!Silent, ClientProofs!Silent, Clients!Moves, ClientProofs!Moves, Clients!Socket,
      ClientProofs!Socket, Clients!IsConnected, ClientProofs!IsConnected, Clients!NoReport,
      ClientProofs!NoReport, Clients!At, ClientProofs!At, Clients!Goto, ClientProofs!Goto, Clients!streamVars,
      ClientProofs!streamVars, Clients!netVars, ClientProofs!netVars, Clients!Handles, ClientProofs!Handles
  <2>5. \A s : Clients!Sends(s) => ClientProofs!Sends(s)
    BY DEF Clients!Sends, ClientProofs!Sends, Clients!SendSome, ClientProofs!SendSome, Clients!SendRest,
      ClientProofs!SendRest, Clients!InConnection, ClientProofs!InConnection, Clients!ReportIfRead,
      ClientProofs!ReportIfRead, Clients!Write, ClientProofs!Write, Clients!At, ClientProofs!At,
      Clients!Socket, ClientProofs!Socket, Clients!slotVars, ClientProofs!slotVars, Clients!netVars,
      ClientProofs!netVars, Clients!Report, ClientProofs!Report, Clients!Handles, ClientProofs!Handles,
      Clients!CarriesData, ClientProofs!CarriesData
  <2>6. Clients!Owner => ClientProofs!Owner
    BY DEF Clients!Owner, ClientProofs!Owner, Clients!Open, ClientProofs!Open, Clients!Reset,
      ClientProofs!Reset, Clients!Slots, ClientProofs!Slots, Clients!GetRx, ClientProofs!GetRx, Clients!Close,
      ClientProofs!Close, Clients!Send, ClientProofs!Send, Clients!Idle, ClientProofs!Idle, Clients!Goto,
      ClientProofs!Goto, Clients!FirstIdle, ClientProofs!FirstIdle, Clients!Silent, ClientProofs!Silent,
      Clients!streamVars, ClientProofs!streamVars, Clients!netVars, ClientProofs!netVars,
      Clients!CloseSockets, ClientProofs!CloseSockets, Clients!INVALID_SOCKET, ClientProofs!INVALID_SOCKET,
      Clients!Forget, ClientProofs!Forget, Clients!Readable, ClientProofs!Readable, Clients!Pull,
      ClientProofs!Pull, Clients!slotVars, ClientProofs!slotVars, Clients!Push, ClientProofs!Push,
      Clients!NoReport, ClientProofs!NoReport, Clients!Handles, ClientProofs!Handles
  <2>7. Clients!Network => ClientProofs!Network
    BY DEF Clients!Network, ClientProofs!Network, Clients!Handles, ClientProofs!Handles,
      Clients!PeerAccepts, ClientProofs!PeerAccepts, Clients!Negotiated, ClientProofs!Negotiated,
      Clients!Refused, ClientProofs!Refused, Clients!PeerLost, ClientProofs!PeerLost, Clients!Arrives,
      ClientProofs!Arrives, Clients!SocketBecomes, ClientProofs!SocketBecomes, Clients!IsConnected,
      ClientProofs!IsConnected, Clients!CarriesData, ClientProofs!CarriesData, Clients!Silent,
      ClientProofs!Silent, Clients!slotVars, ClientProofs!slotVars, Clients!streamVars,
      ClientProofs!streamVars, Clients!NoReport, ClientProofs!NoReport
  <2>8. QED
    BY <2>1, <2>2, <2>3, <2>4, <2>5, <2>6, <2>7 DEF Clients!Next, ClientProofs!Next, Clients!Task,
      ClientProofs!Task, Clients!Slots, ClientProofs!Slots
<1>3. Clients!SocketsOwned <=> ClientProofs!SocketsOwned
  BY DEF Clients!SocketsOwned, ClientProofs!SocketsOwned, Clients!Slots, ClientProofs!Slots,
     Clients!INVALID_SOCKET, ClientProofs!INVALID_SOCKET, Clients!Handles, ClientProofs!Handles
<1>4. QED
  BY <1>1, <1>2, <1>3

\* No socket of the TCP client is shared, lost or used after it was given back.
LEMMA ClientSockets == Spec => []Clients!SocketsOwned
<1>1. Init => ClientProofs!Init
  BY SameClients, Zenon DEF Init
<1>2. [Next]_vars => [ClientProofs!Next]_(ClientProofs!vars)
  BY PartSteps, SameClients, Zenon DEF clients, ClientProofs!vars, ClientProofs!slotVars,
     ClientProofs!streamVars, ClientProofs!netVars
<1>3. Spec => ClientProofs!Spec
  BY <1>1, <1>2, PTL DEF Spec, ClientProofs!Spec
<1>4. ClientSlots \in Nat \ {0} /\ Sockets \in Nat \ {0}
  BY ConstantsAssumption DEF Server!ServerAssumption
<1>5. /\ ClientSlots \in Nat \ {0} /\ Sockets \in Nat \ {0} /\ 0 \in Nat
      /\ {} \subseteq ClientProofs!Handles /\ TRUE \in BOOLEAN
  BY <1>4
<1>6. ClientProofs!Spec => []ClientProofs!SocketsOwned
  BY <1>5, ClientProofs!SocketsNeverShared DEF ClientProofs!SizesAssumption,
     ClientProofs!ForeignAssumption, ClientProofs!ChoicesAssumption
<1>7. ClientProofs!SocketsOwned <=> Clients!SocketsOwned
  BY SameClients
<1>8. QED
  BY <1>3, <1>6, <1>7, PTL

\* tcp_server.c: unless a reset of the client has cut a node, the sender has the node it is
\* in, wherever connections end; and an owner is told the end of a connection once, and of
\* one it was told of.  tcp_client.c: no socket is shared, lost or used after it was given
\* back.
THEOREM ConnectionsAlwaysKept == Spec => []ConnectionsKept
<1>1. QueueInv => Server!SenderHasNode
  BY DEF QueueInv, HasNode, Server!SenderHasNode
<1>2. SwapInv => Servers!EndToldOnce
  BY DEF SwapInv, SwapTypes, ToldOf, Servers!EndToldOnce
<1>3. (/\ part = "server" => QueueInv
       /\ part = "servers" => SwapInv) /\ Clients!SocketsOwned => ConnectionsKept
  BY <1>1, <1>2 DEF ConnectionsKept
<1>4. QED
  BY <1>3, ServersKept, ClientSockets, PTL

=============================================================================
