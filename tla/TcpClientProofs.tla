--------------------------- MODULE TcpClientProofs ---------------------------
(***************************************************************************)
(* Theorems about TcpClient, for any number of slots, sockets and bytes,   *)
(* closes and resets at any moment.                                        *)
(***************************************************************************)
EXTENDS TcpClient, SequenceTheorems, WellFoundedInduction, TLAPS

USE SizesAssumption, ForeignAssumption, ChoicesAssumption

-----------------------------------------------------------------------------
(***************************************************************************)
(* The operators of the module.                                            *)
(***************************************************************************)

\* A set of naturals that is not empty has a least element.
LEMMA LeastNatural ==
  ASSUME NEW T, T \subseteq Nat, T # {}
  PROVE  \E x \in T : \A y \in T : x <= y
<1> DEFINE R == {ss \in Nat \X Nat : ss[1] < ss[2]}
<1>1. IsWellFoundedOn(R, Nat)
  BY NatLessThanWellFounded DEF OpToRel
<1>2. PICK x \in T : \A y \in T : <<y, x>> \notin R
  <2> HIDE DEF IsWellFoundedOn, R
  <2> QED BY <1>1, WFMin, Zenon
<1>3. SUFFICES ASSUME NEW y \in T, ~(x <= y) PROVE FALSE
  OBVIOUS
<1>4. <<y, x>> \in R
  BY <1>3
<1>5. QED
  BY <1>2, <1>4

\* The socket that is given out was free, the slot that is opened was idle.
LEMMA FirstFreeIsFree == Free # {} => FirstFree \in Free
<1>1. Free \subseteq Nat
  BY DEF Free, Handles
<1>2. QED
  BY <1>1, LeastNatural DEF FirstFree

\* The search for a free slot ends at one, when there is one.
LEMMA FirstIdleIsIdle == Idle # {} => FirstIdle \in Idle
<1>1. Idle \subseteq Nat
  BY DEF Idle, Slots
<1>2. QED
  BY <1>1, LeastNatural DEF FirstIdle

\* The task goes on to the next slot, and out of the last one to the main loop.
LEMMA NextSlot == \A s \in Slots : (s + 1) % (MaxSlots + 1) \in 0..MaxSlots
BY DEF Slots

\* The bytes of a node are those that follow what has been accepted.
LEMMA NodeOf ==
  ASSUME NEW n \in Nat, NEW h \in Nat
  PROVE  /\ [i \in 1..n |-> h + i] \in Bytes
         /\ Len([i \in 1..n |-> h + i]) = n
BY SeqDef DEF Bytes

\* The bytes that are written are those of the node behind the offset.
LEMMA PieceOf ==
  ASSUME NEW node \in Bytes, NEW o \in Nat, NEW n \in Nat, o + n <= Len(node)
  PROVE  /\ SubSeq(node, o + 1, o + n) \in Bytes
         /\ Len(SubSeq(node, o + 1, o + n)) = n
         /\ \A i \in 1..n : SubSeq(node, o + 1, o + n)[i] = node[o + i]
<1>1. \A i \in (o + 1)..(o + n) : node[i] \in Nat
  BY ElementOfSeq DEF Bytes
<1>2. QED
  BY <1>1, SubSeqProperties DEF Bytes

\* What TCPIP_TCP_ArrayPut takes is a piece of the first node, from the offset on.
LEMMA Written ==
  ASSUME NEW s \in Slots, NEW n \in Nat, TypeOK, Write(s, n)
  PROVE  LET piece == SubSeq(Head(datNode[s]), offset[s] + 1, offset[s] + n)
         IN  /\ Head(datNode[s]) \in Bytes /\ piece \in Bytes /\ Len(piece) = n /\ n > 0
             /\ \A i \in 1..n : piece[i] = Head(datNode[s])[offset[s] + i]
             /\ offset[s] + n <= Len(Head(datNode[s]))
             /\ delivered' = [delivered EXCEPT ![s] = @ \o piece]
             /\ delivered' \in [Slots -> Bytes]
<1> DEFINE piece == SubSeq(Head(datNode[s]), offset[s] + 1, offset[s] + n)
<1>1. /\ datNode[s] \in Seq(Bytes) /\ datNode[s] # <<>> /\ offset[s] \in Nat
      /\ n \in 1..(Len(Head(datNode[s])) - offset[s])
      /\ delivered' = [delivered EXCEPT ![s] = @ \o piece]
      /\ delivered \in [Slots -> Bytes]
  BY DEF Write, TypeOK
<1>2. Head(datNode[s]) \in Bytes
  BY <1>1, HeadTailProperties
<1>3. offset[s] + n <= Len(Head(datNode[s])) /\ n > 0
  <2> DEFINE length == Len(Head(datNode[s]))
  <2>1. length \in Nat
    BY <1>2, LenProperties DEF Bytes
  <2>2. n \in 1..(length - offset[s])
    BY <1>1
  <2>3. offset[s] \in Nat
    BY <1>1
  <2> HIDE DEF length
  <2>4. offset[s] + n <= length /\ n > 0
    BY <2>1, <2>2, <2>3
  <2>5. QED
    BY <2>4 DEF length
<1>4. piece \in Bytes /\ Len(piece) = n /\ \A i \in 1..n : piece[i] = Head(datNode[s])[offset[s] + i]
  BY <1>1, <1>2, <1>3, PieceOf
<1> HIDE DEF piece
<1>5. delivered[s] \o piece \in Bytes
  BY <1>1, <1>4, ConcatProperties DEF Bytes
<1>6. delivered' \in [Slots -> Bytes]
  BY <1>1, <1>5
<1>7. QED
  BY <1>1, <1>2, <1>3, <1>4, <1>6 DEF piece

-----------------------------------------------------------------------------
(***************************************************************************)
(* Types.                                                                  *)
(***************************************************************************)

\* What a step may tell, and the slot it is told of.
ReportType == [slot : Slots \cup {0}, events : Seq(Events)]

\* Every callback of the task is one of the events.
LEMMA ReportsTyped ==
  /\ Silent => reports' \in ReportType
  /\ \A s \in Slots, e \in Events : Report(s, <<e>>) => reports' \in ReportType
  /\ \A s \in Slots : ReportIfRead(s, <<>>) \/ ReportIfRead(s, <<"TX">>) => reports' \in ReportType
<1>1. Silent => reports' \in ReportType
  BY DEF Silent, NoReport, ReportType
<1>2. ASSUME NEW s \in Slots, NEW q \in Seq(Events), Report(s, q) PROVE reports' \in ReportType
  BY <1>2 DEF Report, ReportType
<1>3. /\ \A e \in Events : <<e>> \in Seq(Events)
      /\ <<>> \in Seq(Events) /\ <<"TX">> \in Seq(Events)
      /\ Append(<<>>, "RX") \in Seq(Events) /\ Append(<<"TX">>, "RX") \in Seq(Events)
  BY DEF Events
<1>4. QED
  BY <1>1, <1>2, <1>3 DEF ReportIfRead

\* The first state is well typed.
LEMMA InitialTypes == Init => TypeOK
BY DEF Init, TypeOK, Slots, Handles, States, SocketStates, NoReport, Events, Bytes, INVALID_SOCKET

\* A branch that only changes the state of its slot.
LEMMA MovesTypes ==
  ASSUME TypeOK, NEW s \in Slots, NEW from, NEW to \in States, Moves(s, from, to),
         reports' \in ReportType
  PROVE  TypeOK'
BY NextSlot DEF Moves, At, Goto, TypeOK, ReportType, streamVars, netVars

\* The task keeps the types,
LEMMA TaskTypes == TypeOK /\ Task => TypeOK'
<1> SUFFICES ASSUME TypeOK, Task PROVE TypeOK'
  OBVIOUS
<1> USE NextSlot, ReportsTyped DEF At, Goto, slotVars, streamVars, netVars, ReportType
<1>1. CASE TaskCalled
  <2>1. sid' = 1 /\ 1 \in 0..MaxSlots /\ reports' \in ReportType
    BY <1>1 DEF TaskCalled, SizesAssumption
  <2>2. QED
    BY <1>1, <2>1 DEF TaskCalled, TypeOK
<1>2. ASSUME NEW s \in Slots, Waits(s) PROVE TypeOK'
  BY <1>2 DEF Waits, TypeOK
<1>3. ASSUME NEW s \in Slots, Resolve(s) \/ Unresolved(s) \/ NotSecured(s) \/ Unconnected(s)
                              \/ Disconnected(s) \/ Elapses(s)
      PROVE  TypeOK'
  <2>1. reports' \in ReportType
    BY <1>3 DEF Resolve, Unresolved, NotSecured, Unconnected, Disconnected, Elapses, Resolved,
       ConnectTimeout, RetryElapsed, Events
  <2>2. \E from, to \in States : Moves(s, from, to)
    BY <1>3 DEF Resolve, Unresolved, NotSecured, Unconnected, Disconnected, Elapses, Resolved,
       ConnectTimeout, RetryElapsed, States, Resolving, Connecting
  <2>3. QED
    BY <2>1, <2>2, MovesTypes
<1>4. ASSUME NEW s \in Slots, NoSocket(s) PROVE TypeOK'
  BY <1>4 DEF NoSocket, TypeOK, States, Events
<1>5. ASSUME NEW s \in Slots, OpenSocket(s) PROVE TypeOK'
  <2>1. FirstFree \in Handles
    BY <1>5, FirstFreeIsFree DEF OpenSocket, Free
  <2>2. QED
    BY <1>5, <2>1 DEF OpenSocket, TypeOK, SocketStates, States, Connecting
<1>6. ASSUME NEW s \in Slots, Connected(s) \/ Secured(s) PROVE TypeOK'
  BY <1>6 DEF Connected, Secured, Established, TypeOK, States, Events
<1>7. ASSUME NEW s \in Slots, Encrypt(s) PROVE TypeOK'
  <2>1. sock' \in [Handles -> SocketStates] /\ state' \in [Slots -> States]
    BY <1>7 DEF Encrypt, TypeOK, SocketStates, States, Connecting
  <2>2. QED
    BY <1>7, <2>1 DEF Encrypt, TypeOK
<1>8. ASSUME NEW s \in Slots, SendNothing(s) PROVE TypeOK'
  <2>1. sid' \in 0..MaxSlots /\ reports' \in ReportType
    BY <1>8 DEF SendNothing, InConnection
  <2>2. stx' \in [Slots -> {"IDLE", "SENDING"}] /\ offset' \in [Slots -> Nat]
    <3>1. stx \in [Slots -> {"IDLE", "SENDING"}] /\ offset \in [Slots -> Nat]
      BY DEF TypeOK
    <3>2. \/ stx' = [stx EXCEPT ![s] = "SENDING"] /\ offset' = [offset EXCEPT ![s] = 0]
          \/ stx' = stx /\ offset' = offset
      BY <1>8 DEF SendNothing
    <3>3. QED
      BY <3>1, <3>2
  <2>3. UNCHANGED <<state, hSocket, datNode, sock, holder, rx, accepted, delivered>>
    BY <1>8 DEF SendNothing, InConnection
  <2>4. QED
    BY <2>1, <2>2, <2>3 DEF TypeOK
<1>9. ASSUME NEW s \in Slots, SendSome(s) PROVE TypeOK'
  <2>1. PICK n \in 1..MaxBytes : Write(s, n) /\ offset' = [offset EXCEPT ![s] = @ + n]
    BY <1>9 DEF SendSome
  <2>2. n \in Nat
    BY DEF SizesAssumption
  <2>3. delivered' \in [Slots -> Bytes]
    BY <2>1, <2>2, Written
  <2>4. offset' \in [Slots -> Nat]
    BY <2>1, <2>2 DEF TypeOK
  <2>5. QED
    BY <1>9, <2>3, <2>4 DEF SendSome, InConnection, TypeOK
<1>10. ASSUME NEW s \in Slots, SendRest(s) PROVE TypeOK'
  <2> DEFINE n == Len(Head(datNode[s])) - offset[s]
  <2>1. Write(s, n) /\ datNode[s] \in Seq(Bytes) /\ datNode[s] # <<>> /\ offset[s] \in Nat
    BY <1>10 DEF SendRest, Write, TypeOK
  <2>2. Head(datNode[s]) \in Bytes /\ Tail(datNode[s]) \in Seq(Bytes)
    BY <2>1, HeadTailProperties
  <2>3. n \in Nat
    BY <2>1, <2>2 DEF Write, Bytes
  <2>4. delivered' \in [Slots -> Bytes]
    BY <2>1, <2>3, Written
  <2>5. QED
    BY <1>10, <2>2, <2>4 DEF SendRest, InConnection, TypeOK
<1>11. ASSUME NEW s \in Slots, CloseConnection(s) PROVE TypeOK'
  BY <1>11, SMTT(60) DEF CloseConnection, CloseSockets, Forget, TypeOK, SocketStates, Bytes, States
<1>12. QED
  BY <1>1, <1>2, <1>3, <1>4, <1>5, <1>6, <1>7, <1>8, <1>9, <1>10, <1>11
  DEF Task, Advances, Sends

\* a node that is queued too,
LEMMA PushTyped ==
  ASSUME TypeOK, NEW s \in Slots, NEW n \in 1..MaxBytes, Push(s, n)
  PROVE  /\ accepted' \in [Slots -> Bytes] /\ datNode' \in [Slots -> Seq(Bytes)]
         /\ stx' = stx /\ offset' = offset /\ delivered' = delivered
<1> DEFINE node == [i \in 1..n |-> Len(accepted[s]) + i]
<1>1. node \in Bytes
  BY NodeOf DEF TypeOK, Bytes
<1> HIDE DEF node
<1>2. /\ accepted' = [accepted EXCEPT ![s] = @ \o node]
      /\ datNode' = [datNode EXCEPT ![s] = Append(@, node)]
      /\ stx' = stx /\ offset' = offset /\ delivered' = delivered
  BY DEF Push, node
<1>3. QED
  BY <1>1, <1>2 DEF TypeOK, Bytes

\* and the calls of the owner,
LEMMA OwnerTypes == TypeOK /\ Owner => TypeOK'
<1> SUFFICES ASSUME TypeOK, Owner PROVE TypeOK'
  OBVIOUS
<1> USE ReportsTyped DEF Goto, slotVars, streamVars, netVars, ReportType
<1>1. CASE Open("DNS_RESOLVE_HOST_ADDRESS") \/ Open("CONNECTION_INIT")
  <2>1. PICK first \in {"DNS_RESOLVE_HOST_ADDRESS", "CONNECTION_INIT"} : Open(first)
    BY <1>1
  <2>2. FirstIdle \in Slots /\ first \in States
    BY <2>1, FirstIdleIsIdle DEF Open, Idle, Resolving, Connecting, States
  <2>3. state' \in [Slots -> States]
    BY <2>1, <2>2 DEF Open, TypeOK
  <2>4. QED
    BY <2>1, <2>3 DEF Open, TypeOK
<1>2. CASE Reset
  BY <1>2 DEF Reset, CloseSockets, Forget, TypeOK, SocketStates, Bytes, States
<1>3. ASSUME NEW s \in Slots, GetRx(s) PROVE TypeOK'
  <2>1. rx' \in [Handles -> BOOLEAN]
    BY <1>3 DEF GetRx, Pull, TypeOK
  <2>2. QED
    BY <1>3, <2>1 DEF GetRx, Pull, TypeOK
<1>4. ASSUME NEW s \in Slots, Close(s) PROVE TypeOK'
  BY <1>4 DEF Close, TypeOK, States
<1>5. ASSUME NEW s \in Slots, NEW n \in 1..MaxBytes, Send(s, n) PROVE TypeOK'
  <2>1. Push(s, n)
    BY <1>5 DEF Send
  <2>2. QED
    BY <1>5, <2>1, PushTyped DEF Send, TypeOK
<1>6. QED
  BY <1>1, <1>2, <1>3, <1>4, <1>5 DEF Owner

\* and the presentation layer and the peers.
LEMMA NetworkTypes == TypeOK /\ Network => TypeOK'
<1> SUFFICES ASSUME TypeOK, NEW h \in Handles,
                    PeerAccepts(h) \/ Negotiated(h) \/ Refused(h) \/ PeerLost(h) \/ Arrives(h)
             PROVE  TypeOK'
  BY DEF Network
<1> USE ReportsTyped DEF slotVars, streamVars, netVars, ReportType
<1>1. CASE Arrives(h)
  BY <1>1 DEF Arrives, TypeOK
<1>2. ASSUME NEW from, NEW to \in SocketStates, SocketBecomes(h, from, to) PROVE TypeOK'
  BY <1>2 DEF SocketBecomes, TypeOK
<1>3. QED
  BY <1>1, <1>2 DEF PeerAccepts, Negotiated, Refused, PeerLost, SocketStates

\* So does every step.
LEMMA TypesKept == TypeOK /\ [Next]_vars => TypeOK'
<1>1. TypeOK /\ UNCHANGED vars => TypeOK'
  BY DEF vars, slotVars, streamVars, netVars, TypeOK
<1>2. QED
  BY <1>1, TaskTypes, OwnerTypes, NetworkTypes DEF Next

\* Every variable of the TCP clients keeps its type, however the handles are
\* closed, lost and given out again.
THEOREM TcpTypeCorrect == Spec => []TypeOK
BY InitialTypes, TypesKept, PTL DEF Spec

-----------------------------------------------------------------------------
(***************************************************************************)
(* The inductive invariant of the streams.  A byte is known by its number, *)
(* so that order and completeness are facts about numbers: a node is an    *)
(* interval, each node starts where the one before it ends, and the queue  *)
(* holds exactly what is between delivered and accepted.                   *)
(***************************************************************************)
Up == {"CONNECTION_STABLISHED", "CONNECTION_CLOSE"}
HasSocket == Up \cup {"CONNECTION_WAITING_FOR", "CONNECTION_SSL_NEGOTIATION_WAIT",
                      "CONNECTION_TIMEOUT", "CONNECTION_ERROR"}

\* A slot past CONNECTION_INIT has a handle, which is not INVALID_SOCKET.
HandleInv(s) == state[s] \in HasSocket => hSocket[s] # INVALID_SOCKET

\* A slot that is not connected has kept nothing of its last connection that is queued,
\* and its sender is reset before it is connected.
BareInv(s) ==
  /\ state[s] \notin Up => datNode[s] = <<>> /\ accepted[s] = <<>> /\ delivered[s] = <<>>
  /\ state[s] = "CONNECTION_SSL_NEGOTIATION_WAIT" => stx[s] = "IDLE"

\* The bytes of a connection are numbered from 1.
Numbered(bytes) == \A i \in 1..Len(bytes) : bytes[i] = i

\* The nodes of the queue q are intervals, one behind the other, up to end.
Contiguous(q, end) ==
  /\ \A k \in 1..Len(q) : /\ q[k] # <<>> /\ \A i \in 1..Len(q[k]) : q[k][i] = q[k][1] + i - 1
                          /\ q[k][1] + Len(q[k]) <= end + 1
  /\ \A k \in 1..(Len(q) - 1) : q[k + 1][1] = q[k][1] + Len(q[k])
  /\ q # <<>> => q[Len(q)][1] + Len(q[Len(q)]) = end + 1

\* The byte the sender has sent last.
Sent(s) ==
  IF datNode[s] = <<>> THEN Len(accepted[s])
  ELSE datNode[s][1][1] - 1 + (IF stx[s] = "SENDING" THEN offset[s] ELSE 0)

StreamInv(s) ==
  state[s] = "CONNECTION_STABLISHED" =>
    /\ Numbered(accepted[s]) /\ Numbered(delivered[s])
    /\ Contiguous(datNode[s], Len(accepted[s]))
    /\ Len(delivered[s]) = Sent(s)
    /\ stx[s] = "SENDING" => datNode[s] # <<>> /\ offset[s] < Len(datNode[s][1])

SlotInv(s) == HandleInv(s) /\ BareInv(s) /\ StreamInv(s)

TcpIInv == TypeOK /\ \A s \in Slots : SlotInv(s)

-----------------------------------------------------------------------------
(***************************************************************************)
(* Queues and streams.                                                     *)
(***************************************************************************)

\* A stream that is continued with the next numbers.
LEMMA NumberedGrows ==
  ASSUME NEW b \in Bytes, NEW p \in Bytes, Numbered(b), \A i \in 1..Len(p) : p[i] = Len(b) + i
  PROVE  Numbered(b \o p) /\ Len(b \o p) = Len(b) + Len(p)
<1>1. /\ Len(b) \in Nat /\ Len(p) \in Nat /\ Len(b \o p) = Len(b) + Len(p)
      /\ \A i \in 1..(Len(b) + Len(p)) : (b \o p)[i] = IF i <= Len(b) THEN b[i] ELSE p[i - Len(b)]
  BY ConcatProperties, LenProperties DEF Bytes
<1>2. ASSUME NEW i \in 1..(Len(b) + Len(p)) PROVE (b \o p)[i] = i
  <2>1. CASE i <= Len(b)
    BY <1>1, <2>1 DEF Numbered
  <2>2. CASE ~(i <= Len(b))
    BY <1>1, <2>2
  <2>3. QED
    BY <2>1, <2>2
<1>3. QED
  BY <1>1, <1>2 DEF Numbered

\* A node that is queued begins behind the last one.
LEMMA ContiguousPush ==
  ASSUME NEW q \in Seq(Bytes), NEW end \in Nat, NEW n \in Nat \ {0}, NEW node \in Bytes,
         Contiguous(q, end), Len(node) = n, \A i \in 1..n : node[i] = end + i
  PROVE  Contiguous(Append(q, node), end + n)
<1> DEFINE r == Append(q, node)
<1>1. /\ r \in Seq(Bytes) /\ Len(r) = Len(q) + 1 /\ Len(q) \in Nat
      /\ \A k \in 1..Len(q) : r[k] = q[k]
      /\ r[Len(q) + 1] = node /\ (q # <<>> <=> Len(q) # 0)
  BY AppendProperties, LenProperties, EmptySeq
<1> HIDE DEF r
<1>2. \A k \in 1..Len(q) : q[k] \in Bytes /\ Len(q[k]) \in Nat /\ (q[k] # <<>> => q[k][1] \in Nat)
  BY ElementOfSeq, LenProperties, EmptySeq DEF Bytes
<1>3. node # <<>> /\ node[1] = end + 1
  BY EmptySeq DEF Bytes
<1>4. ASSUME NEW k \in 1..Len(r)
      PROVE  /\ r[k] # <<>> /\ \A i \in 1..Len(r[k]) : r[k][i] = r[k][1] + i - 1
             /\ r[k][1] + Len(r[k]) <= end + n + 1
  <2>1. CASE k \in 1..Len(q)
    <3>1. /\ q[k] # <<>> /\ \A i \in 1..Len(q[k]) : q[k][i] = q[k][1] + i - 1
          /\ q[k][1] + Len(q[k]) <= end + 1
      BY <2>1 DEF Contiguous
    <3>2. q[k][1] \in Nat /\ Len(q[k]) \in Nat
      BY <1>2, <2>1, <3>1
    <3>3. QED
      BY <1>1, <2>1, <3>1, <3>2
  <2>2. CASE k = Len(q) + 1
    <3>1. r[k] = node
      BY <1>1, <2>2
    <3>2. ASSUME NEW i \in 1..n PROVE node[i] = node[1] + i - 1
      <4>1. node[i] = end + i
        OBVIOUS
      <4>2. QED
        BY <1>3, <4>1
    <3>3. node[1] + n <= end + n + 1
      BY <1>3
    <3>4. QED
      BY <1>3, <3>1, <3>2, <3>3
  <2>3. k \in 1..Len(q) \/ k = Len(q) + 1
    BY <1>1
  <2>4. QED
    BY <2>1, <2>2, <2>3, Zenon
<1>5. ASSUME NEW k \in 1..(Len(r) - 1) PROVE r[k + 1][1] = r[k][1] + Len(r[k])
  <2>1. CASE k \in 1..(Len(q) - 1)
    <3>1. r[k] = q[k] /\ r[k + 1] = q[k + 1]
      BY <1>1, <2>1
    <3>2. q[k + 1][1] = q[k][1] + Len(q[k])
      BY <2>1 DEF Contiguous
    <3>3. QED
      BY <3>1, <3>2
  <2>2. CASE k = Len(q)
    <3>1. r[k] = q[k] /\ r[k + 1] = node /\ q # <<>>
      BY <1>1, <2>2
    <3>2. q[k][1] + Len(q[k]) = end + 1
      BY <2>2, <3>1 DEF Contiguous
    <3>3. QED
      BY <1>3, <3>1, <3>2
  <2>3. QED
    BY <1>1, <2>1, <2>2
<1>6. r[Len(r)][1] + Len(r[Len(r)]) = end + n + 1
  <2>1. r[Len(r)] = node
    BY <1>1
  <2>2. QED
    BY <1>3, <2>1
<1>7. QED
  BY <1>4, <1>5, <1>6 DEF Contiguous, r

\* Without its first node the queue begins where that one ended.
LEMMA ContiguousPop ==
  ASSUME NEW q \in Seq(Bytes), NEW end \in Nat, Contiguous(q, end), q # <<>>
  PROVE  /\ Head(q) = q[1] /\ Head(q) \in Bytes /\ Len(Head(q)) \in Nat \ {0} /\ q[1][1] \in Nat
         /\ Contiguous(Tail(q), end)
         /\ IF Tail(q) = <<>> THEN q[1][1] + Len(q[1]) = end + 1
                              ELSE Tail(q)[1][1] = q[1][1] + Len(q[1])
<1> DEFINE r == Tail(q)
<1>1. /\ Len(q) \in Nat \ {0} /\ r \in Seq(Bytes) /\ Len(r) = Len(q) - 1
      /\ \A k \in 1..Len(r) : r[k] = q[k + 1]
      /\ r # <<>> => Len(r) # 0
  BY HeadTailProperties, EmptySeq
<1>2. Head(q) = q[1] /\ q[1] \in Bytes
  BY <1>1, HeadTailProperties
<1> HIDE DEF r
<1>3. q[1] # <<>> /\ Len(q[1]) \in Nat \ {0} /\ q[1][1] \in Nat
  BY <1>1, <1>2, EmptySeq, ElementOfSeq DEF Contiguous, Bytes
<1>4. r = <<>> => Len(r) = 0
  BY EmptySeq
<1>5. IF r = <<>> THEN q[1][1] + Len(q[1]) = end + 1 ELSE r[1][1] = q[1][1] + Len(q[1])
  <2>1. CASE r = <<>>
    <3>1. Len(q) = 1
      BY <1>1, <1>4, <2>1
    <3>2. QED
      BY <3>1, <2>1 DEF Contiguous
  <2>2. CASE r # <<>>
    BY <1>1, <2>2 DEF Contiguous
  <2>3. QED
    BY <2>1, <2>2
<1>6. Contiguous(r, end)
  <2>1. ASSUME NEW k \in 1..Len(r)
        PROVE  /\ r[k] # <<>> /\ \A i \in 1..Len(r[k]) : r[k][i] = r[k][1] + i - 1
               /\ r[k][1] + Len(r[k]) <= end + 1
    <3>1. k + 1 \in 1..Len(q) /\ r[k] = q[k + 1]
      BY <1>1
    <3>2. QED
      BY <3>1 DEF Contiguous
  <2>2. ASSUME NEW k \in 1..(Len(r) - 1) PROVE r[k + 1][1] = r[k][1] + Len(r[k])
    <3>1. k + 1 \in 1..(Len(q) - 1) /\ r[k] = q[k + 1] /\ r[k + 1] = q[(k + 1) + 1]
      BY <1>1
    <3>2. QED
      BY <3>1 DEF Contiguous
  <2>3. r # <<>> => r[Len(r)][1] + Len(r[Len(r)]) = end + 1
    BY <1>1 DEF Contiguous
  <2>4. QED
    BY <2>1, <2>2, <2>3 DEF Contiguous
<1>7. QED
  BY <1>2, <1>3, <1>5, <1>6 DEF r

-----------------------------------------------------------------------------
(***************************************************************************)
(* One step.  It changes one slot, except for a reset.                     *)
(***************************************************************************)
SameSlot(s) ==
  /\ state'[s] = state[s] /\ hSocket'[s] = hSocket[s]
  /\ datNode'[s] = datNode[s] /\ stx'[s] = stx[s] /\ offset'[s] = offset[s]
  /\ accepted'[s] = accepted[s] /\ delivered'[s] = delivered[s]

OnlySlot(s) == \A t \in Slots \ {s} : SameSlot(t)

\* A slot that is not touched keeps what it has.
LEMMA SameSlotKept ==
  ASSUME NEW s \in Slots, SlotInv(s), SameSlot(s)
  PROVE  SlotInv(s)'
BY DEF SlotInv, SameSlot, HandleInv, BareInv, StreamInv, Sent

\* Nothing is queued or connected at first.
LEMMA FirstStreams == Init => \A s \in Slots : SlotInv(s)
BY DEF Init, SlotInv, HandleInv, BareInv, StreamInv, Up, HasSocket

\* A branch that only changes the state of its slot.
LEMMA MovesSlot ==
  ASSUME NEW s \in Slots, TypeOK, SlotInv(s), NEW from, NEW to, Moves(s, from, to),
         to \notin {"CONNECTION_STABLISHED", "CONNECTION_SSL_NEGOTIATION_WAIT"},
         to \in HasSocket => from \in HasSocket, from \in Up => to \in Up
  PROVE  SlotInv(s)' /\ OnlySlot(s)
<1>1. /\ state[s] = from /\ state' = [state EXCEPT ![s] = to]
      /\ UNCHANGED <<hSocket, datNode, stx, offset, accepted, delivered>>
  BY DEF Moves, At, Goto, streamVars
<1>2. state'[s] = to /\ OnlySlot(s)
  BY <1>1 DEF TypeOK, OnlySlot, SameSlot
<1>3. QED
  BY <1>1, <1>2 DEF SlotInv, HandleInv, BareInv, StreamInv

\* One call of the task for one slot keeps what is said of it and leaves the others alone.
LEMMA TaskSlot ==
  ASSUME TypeOK, NEW s \in Slots, SlotInv(s), Waits(s) \/ Advances(s) \/ Elapses(s) \/ Sends(s)
  PROVE  SlotInv(s)' /\ OnlySlot(s)
<1> USE DEF At, Goto, streamVars, slotVars, OnlySlot, SameSlot
<1>1. CASE Waits(s)
  BY <1>1, SameSlotKept DEF Waits
<1>2. CASE Resolve(s) \/ Unresolved(s) \/ NotSecured(s) \/ Unconnected(s) \/ Disconnected(s) \/ Elapses(s)
  <2>1. PICK from, to : /\ Moves(s, from, to)
                        /\ to \notin {"CONNECTION_STABLISHED", "CONNECTION_SSL_NEGOTIATION_WAIT"}
                        /\ to \in HasSocket => from \in HasSocket
                        /\ from \in Up => to \in Up
    BY <1>2 DEF Resolve, Unresolved, NotSecured, Unconnected, Disconnected, Elapses, Resolved,
       ConnectTimeout, RetryElapsed, HasSocket, Up
  <2>2. QED
    BY <2>1, MovesSlot
<1>3. CASE NoSocket(s)
  BY <1>3 DEF NoSocket, TypeOK, SlotInv, HandleInv, BareInv, StreamInv, HasSocket, Up
<1>4. CASE OpenSocket(s)
  <2>1. FirstFree # INVALID_SOCKET
    BY <1>4, FirstFreeIsFree DEF OpenSocket, Free, Handles, INVALID_SOCKET
  <2>2. QED
    BY <1>4, <2>1 DEF OpenSocket, TypeOK, SlotInv, HandleInv, BareInv, StreamInv, HasSocket, Up
<1>5. CASE Connected(s) \/ Secured(s)
  <2>1. /\ state[s] \in {"CONNECTION_WAITING_FOR", "CONNECTION_SSL_NEGOTIATION_WAIT"}
        /\ state' = [state EXCEPT ![s] = "CONNECTION_STABLISHED"]
        /\ UNCHANGED <<hSocket, datNode, offset, accepted, delivered>>
    BY <1>5 DEF Connected, Secured, Established
  <2>2. datNode[s] = <<>> /\ accepted[s] = <<>> /\ delivered[s] = <<>> /\ hSocket[s] # INVALID_SOCKET
    BY <2>1 DEF SlotInv, BareInv, HandleInv, Up, HasSocket
  <2>3. stx'[s] = "IDLE" /\ \A t \in Slots \ {s} : stx'[t] = stx[t]
    BY <1>5 DEF Connected, Secured, Established, SlotInv, BareInv, TypeOK
  <2>4. StreamInv(s)'
    BY <2>1, <2>2, <2>3 DEF StreamInv, Sent, Numbered, Contiguous
  <2>5. QED
    BY <2>1, <2>2, <2>3, <2>4 DEF TypeOK, SlotInv, HandleInv, BareInv, HasSocket, Up
<1>6. CASE Encrypt(s)
  BY <1>6 DEF Encrypt, TypeOK, SlotInv, HandleInv, BareInv, StreamInv, HasSocket, Up
<1>7. CASE SendNothing(s)
  <2>1. /\ state[s] = "CONNECTION_STABLISHED"
        /\ UNCHANGED <<state, hSocket, datNode, accepted, delivered>>
    BY <1>7 DEF SendNothing, InConnection
  <2>2. \A t \in Slots \ {s} : stx'[t] = stx[t] /\ offset'[t] = offset[t]
    BY <1>7 DEF SendNothing, TypeOK
  <2>3. CASE UNCHANGED <<stx, offset>>
    BY <2>1, <2>3, SameSlotKept
  <2>4. CASE /\ stx[s] = "IDLE" /\ datNode[s] # <<>>
             /\ stx'[s] = "SENDING" /\ offset'[s] = 0
    <3>1. datNode[s] \in Seq(Bytes) /\ Len(accepted[s]) \in Nat /\ Contiguous(datNode[s], Len(accepted[s]))
      BY <2>1 DEF TypeOK, Bytes, SlotInv, StreamInv
    <3>2. Len(datNode[s][1]) \in Nat \ {0} /\ datNode[s][1][1] \in Nat
      BY <2>4, <3>1, ContiguousPop
    <3>3. StreamInv(s)'
      BY <2>1, <2>4, <3>1, <3>2 DEF SlotInv, StreamInv, Sent
    <3>4. QED
      BY <2>1, <2>2, <3>3 DEF SlotInv, HandleInv, BareInv, Up
  <2>5. QED
    BY <1>7, <2>3, <2>4 DEF SendNothing, TypeOK
<1>8. CASE SendSome(s) \/ SendRest(s)
  <2>1. PICK n \in Nat :
          /\ Write(s, n)
          /\ \/ /\ n < Len(Head(datNode[s])) - offset[s] /\ offset' = [offset EXCEPT ![s] = @ + n]
                /\ UNCHANGED <<datNode, stx>>
             \/ /\ n = Len(Head(datNode[s])) - offset[s] /\ UNCHANGED offset
                /\ datNode' = [datNode EXCEPT ![s] = Tail(@)] /\ stx' = [stx EXCEPT ![s] = "IDLE"]
    <3>1. CASE SendSome(s)
      <4>1. PICK n \in 1..MaxBytes :
              /\ Write(s, n) /\ n < Len(Head(datNode[s])) - offset[s]
              /\ offset' = [offset EXCEPT ![s] = @ + n]
        BY <3>1 DEF SendSome
      <4>2. n \in Nat /\ UNCHANGED <<datNode, stx>>
        BY <3>1 DEF SendSome
      <4>3. QED
        BY <4>1, <4>2
    <3>2. CASE SendRest(s)
      <4>1. Len(Head(datNode[s])) - offset[s] \in Nat
        BY <3>2 DEF SendRest, Write
      <4>2. QED
        BY <3>2, <4>1 DEF SendRest
    <3>3. QED
      BY <1>8, <3>1, <3>2
  <2>2. /\ state[s] = "CONNECTION_STABLISHED" /\ UNCHANGED <<state, hSocket, accepted>>
        /\ stx[s] = "SENDING" /\ datNode[s] # <<>>
    BY <1>8, <2>1 DEF SendSome, SendRest, InConnection, Write
  <2> DEFINE q == datNode[s]
             piece == SubSeq(Head(q), offset[s] + 1, offset[s] + n)
  <2>3. /\ q \in Seq(Bytes) /\ delivered[s] \in Bytes /\ offset[s] \in Nat
        /\ Len(accepted[s]) \in Nat /\ Len(delivered[s]) \in Nat
    BY DEF TypeOK, Bytes
  <2>4. /\ Numbered(accepted[s]) /\ Numbered(delivered[s]) /\ Contiguous(q, Len(accepted[s]))
        /\ Len(delivered[s]) = q[1][1] - 1 + offset[s]
    BY <2>2 DEF SlotInv, StreamInv, Sent
  <2>5. /\ Head(q) = q[1] /\ Len(Head(q)) \in Nat \ {0} /\ q[1][1] \in Nat
        /\ Contiguous(Tail(q), Len(accepted[s]))
        /\ IF Tail(q) = <<>> THEN q[1][1] + Len(q[1]) = Len(accepted[s]) + 1
                             ELSE Tail(q)[1][1] = q[1][1] + Len(q[1])
    BY <2>2, <2>3, <2>4, ContiguousPop
  <2>6. /\ piece \in Bytes /\ Len(piece) = n /\ n > 0 /\ offset[s] + n <= Len(Head(q))
        /\ \A i \in 1..n : piece[i] = Head(q)[offset[s] + i]
        /\ delivered' = [delivered EXCEPT ![s] = @ \o piece]
    BY <2>1, Written
  <2> HIDE DEF piece, q
  <2>7. ASSUME NEW i \in 1..n PROVE piece[i] = Len(delivered[s]) + i
    <3>1. offset[s] + i \in 1..Len(q[1]) /\ piece[i] = q[1][offset[s] + i]
      BY <2>3, <2>5, <2>6, SMTT(60)
    <3>2. Len(q) \in Nat \ {0}
      BY <2>2, <2>3, EmptySeq DEF q
    <3>3. \A j \in 1..Len(q[1]) : q[1][j] = q[1][1] + j - 1
      BY <2>4, <3>2 DEF Contiguous
    <3>4. piece[i] = q[1][1] + (offset[s] + i) - 1
      BY <3>1, <3>3
    <3>5. q[1][1] \in Nat /\ offset[s] \in Nat /\ Len(delivered[s]) = q[1][1] - 1 + offset[s]
      BY <2>3, <2>4, <2>5
    <3>6. QED
      BY <3>4, <3>5
  <2>8. /\ Numbered(delivered[s] \o piece)
        /\ Len(delivered[s] \o piece) = q[1][1] - 1 + offset[s] + n
    <3> DEFINE d == delivered[s]
    <3>1. d \in Bytes /\ piece \in Bytes /\ Len(piece) = n /\ Numbered(d)
      BY <2>3, <2>4, <2>6
    <3>2. \A i \in 1..Len(piece) : piece[i] = Len(d) + i
      BY <2>7, <3>1
    <3> HIDE DEF d
    <3>3. Numbered(d \o piece) /\ Len(d \o piece) = Len(d) + Len(piece)
      BY <3>1, <3>2, NumberedGrows
    <3>4. Len(d) = q[1][1] - 1 + offset[s]
      BY <2>4 DEF d
    <3>5. QED
      BY <3>1, <3>3, <3>4 DEF d
  <2>9. /\ delivered'[s] = delivered[s] \o piece
        /\ \A t \in Slots \ {s} : SameSlot(t)
    BY <2>1, <2>2, <2>6 DEF TypeOK
  <2>10. CASE /\ n < Len(Head(q)) - offset[s] /\ offset' = [offset EXCEPT ![s] = @ + n]
              /\ UNCHANGED <<datNode, stx>>
    <3>1. offset'[s] = offset[s] + n /\ offset'[s] < Len(q[1])
      BY <2>10, <2>3, <2>5 DEF TypeOK
    <3>2. StreamInv(s)'
      BY <2>2, <2>3, <2>4, <2>5, <2>8, <2>9, <2>10, <3>1, SMTT(60) DEF StreamInv, Sent, q
    <3>3. QED
      BY <2>2, <2>9, <3>2 DEF SlotInv, HandleInv, BareInv, Up
  <2>11. CASE /\ n = Len(Head(q)) - offset[s] /\ UNCHANGED offset
              /\ datNode' = [datNode EXCEPT ![s] = Tail(@)] /\ stx' = [stx EXCEPT ![s] = "IDLE"]
    <3>1. datNode'[s] = Tail(q) /\ stx'[s] = "IDLE"
      BY <2>11 DEF TypeOK, q
    <3>2. Len(delivered'[s]) = q[1][1] - 1 + Len(q[1])
      <4>1. Len(delivered'[s]) = q[1][1] - 1 + offset[s] + n
        BY <2>8, <2>9
      <4>2. offset[s] + n = Len(q[1]) /\ q[1][1] \in Nat /\ offset[s] \in Nat
        BY <2>3, <2>5, <2>11
      <4>3. QED
        BY <4>1, <4>2
    <3>3. Len(delivered'[s]) = Sent(s)'
      <4>1. CASE Tail(q) = <<>>
        BY <2>2, <2>3, <2>5, <3>1, <3>2, <4>1 DEF Sent
      <4>2. CASE Tail(q) # <<>>
        <5>1. Tail(q)[1][1] = q[1][1] + Len(q[1]) /\ q[1][1] \in Nat /\ Len(q[1]) \in Nat
          BY <2>3, <2>5, <4>2
        <5>2. QED
          BY <3>1, <3>2, <4>2, <5>1 DEF Sent
      <4>3. QED
        BY <4>1, <4>2
    <3>4. StreamInv(s)'
      BY <2>2, <2>4, <2>5, <2>8, <2>9, <3>1, <3>3 DEF StreamInv
    <3>5. QED
      BY <2>2, <2>9, <3>4 DEF SlotInv, HandleInv, BareInv, Up
  <2>12. QED
    BY <2>1, <2>10, <2>11 DEF q
<1>9. CASE CloseConnection(s)
  BY <1>9 DEF CloseConnection, Forget, TypeOK, SlotInv, HandleInv, BareInv, StreamInv, HasSocket, Up
<1>10. QED
  BY <1>1, <1>2, <1>3, <1>4, <1>5, <1>6, <1>7, <1>8, <1>9 DEF Advances, Sends

\* What is accepted for a connection goes to the end of its queue.
LEMMA PushSlot ==
  ASSUME TcpIInv, NEW s \in Slots, NEW n \in 1..MaxBytes, Push(s, n),
         state[s] = "CONNECTION_STABLISHED", state' = state, hSocket' = hSocket
  PROVE  SlotInv(s)' /\ OnlySlot(s)
<1> USE DEF OnlySlot, SameSlot
<1> DEFINE node == [i \in 1..n |-> Len(accepted[s]) + i]
           q == datNode[s]
<1>1. /\ n \in Nat \ {0} /\ Len(accepted[s]) \in Nat /\ accepted[s] \in Bytes /\ q \in Seq(Bytes)
      /\ Len(delivered[s]) \in Nat
  BY DEF TcpIInv, TypeOK, Bytes
<1>2. /\ node \in Bytes /\ Len(node) = n /\ \A i \in 1..n : node[i] = Len(accepted[s]) + i
  BY <1>1, NodeOf
<1> HIDE DEF node
<1>3. /\ state[s] = "CONNECTION_STABLISHED" /\ UNCHANGED <<state, hSocket, stx, offset, delivered>>
      /\ accepted' = [accepted EXCEPT ![s] = @ \o node]
      /\ datNode' = [datNode EXCEPT ![s] = Append(@, node)]
  BY DEF Push, node
<1>4. /\ Numbered(accepted[s]) /\ Numbered(delivered[s]) /\ Contiguous(q, Len(accepted[s]))
      /\ Len(delivered[s]) = Sent(s)
      /\ stx[s] = "SENDING" => q # <<>> /\ offset[s] < Len(q[1])
  BY <1>3 DEF TcpIInv, SlotInv, StreamInv
<1>5. /\ accepted'[s] = accepted[s] \o node /\ datNode'[s] = Append(q, node)
      /\ OnlySlot(s)
  BY <1>3 DEF TcpIInv, TypeOK
<1>6. Numbered(accepted'[s]) /\ Len(accepted'[s]) = Len(accepted[s]) + n
  BY <1>1, <1>2, <1>4, <1>5, NumberedGrows
<1>7. Contiguous(datNode'[s], Len(accepted'[s]))
  BY <1>1, <1>2, <1>4, <1>5, <1>6, ContiguousPush
<1>8. /\ datNode'[s] # <<>>
      /\ datNode'[s][1] = IF q = <<>> THEN node ELSE q[1]
  <2>1. /\ Append(q, node) # <<>> /\ \A k \in 1..Len(q) : Append(q, node)[k] = q[k]
        /\ Append(q, node)[Len(q) + 1] = node
    BY <1>1, <1>2, AppendProperties
  <2>2. Len(q) = 0 <=> q = <<>>
    BY <1>1, EmptySeq
  <2>3. Len(q) \in Nat
    BY <1>1, LenProperties
  <2>4. QED
    BY <1>5, <2>1, <2>2, <2>3
<1>9. node[1] = Len(accepted[s]) + 1
  BY <1>1, <1>2
<1>10. Len(delivered'[s]) = Sent(s)' /\ (stx'[s] = "SENDING" => offset'[s] < Len(datNode'[s][1]))
  <2>1. CASE q = <<>>
    BY <1>1, <1>3, <1>4, <1>8, <1>9, <2>1 DEF Sent
  <2>2. CASE q # <<>>
    BY <1>3, <1>4, <1>8, <2>2 DEF Sent
  <2>3. QED
    BY <2>1, <2>2
<1>11. StreamInv(s)'
  BY <1>3, <1>4, <1>6, <1>7, <1>8, <1>10 DEF StreamInv
<1>12. QED
  BY <1>3, <1>5, <1>11 DEF TcpIInv, SlotInv, HandleInv, BareInv, Up

\* A call of the owner does the same to the slot it is about; the reset does it to all.
LEMMA OwnerSlots ==
  ASSUME TcpIInv, Owner
  PROVE  /\ \A s \in Slots : SlotInv(s)'
         /\ \/ Reset
            \/ \E s \in Slots : OnlySlot(s)
<1> USE DEF Goto, streamVars, slotVars, OnlySlot, SameSlot
<1>1. SUFFICES \/ Reset /\ \A s \in Slots : SlotInv(s)'
               \/ \E s \in Slots : SlotInv(s)' /\ OnlySlot(s)
  BY SameSlotKept DEF TcpIInv
<1>2. ASSUME NEW first \in {"DNS_RESOLVE_HOST_ADDRESS", "CONNECTION_INIT"}, Open(first)
      PROVE  \E s \in Slots : SlotInv(s)' /\ OnlySlot(s)
  <2>1. PICK s \in Slots : s = FirstIdle /\ state[s] = "IDLE"
    BY <1>2, FirstIdleIsIdle DEF Open, Idle
  <2>2. /\ state' = [state EXCEPT ![s] = first]
        /\ UNCHANGED <<hSocket, datNode, stx, offset, accepted, delivered>>
    BY <1>2, <2>1 DEF Open
  <2>3. state'[s] = first /\ \A t \in Slots \ {s} : state'[t] = state[t]
    BY <2>2 DEF TcpIInv, TypeOK
  <2>4. SlotInv(s)
    BY DEF TcpIInv
  <2>5. SlotInv(s)'
    BY <1>2, <2>1, <2>2, <2>3, <2>4 DEF SlotInv, HandleInv, BareInv, StreamInv, HasSocket, Up, Sent
  <2>6. QED
    BY <1>2, <2>2, <2>3, <2>5 DEF Open
<1>3. ASSUME Reset, NEW s \in Slots PROVE SlotInv(s)'
  <2>1. datNode'[s] = <<>>
    BY <1>3 DEF Reset, TcpIInv, SlotInv, HandleInv, BareInv, HasSocket, Up
  <2>2. state'[s] = "IDLE" /\ accepted'[s] = <<>> /\ delivered'[s] = <<>>
    BY <1>3 DEF Reset, Forget
  <2>3. QED
    BY <2>1, <2>2 DEF SlotInv, HandleInv, BareInv, StreamInv, HasSocket, Up
<1>4. ASSUME NEW s \in Slots, GetRx(s) PROVE SlotInv(s)' /\ OnlySlot(s)
  BY <1>4, SameSlotKept DEF GetRx, TcpIInv
<1>5. ASSUME NEW s \in Slots, Close(s) PROVE SlotInv(s)' /\ OnlySlot(s)
  BY <1>5 DEF Close, TcpIInv, TypeOK, SlotInv, HandleInv, BareInv, StreamInv, HasSocket, Up
<1>6. ASSUME NEW s \in Slots, NEW n \in 1..MaxBytes, Send(s, n) PROVE SlotInv(s)' /\ OnlySlot(s)
  BY <1>6, PushSlot DEF Send
<1>7. QED
  BY <1>2, <1>3, <1>4, <1>5, <1>6 DEF Owner

\* What leaves the slots alone.
LEMMA NoSlot ==
  ASSUME TcpIInv, UNCHANGED <<slotVars, streamVars>>
  PROVE  \A s \in Slots : SlotInv(s)' /\ SameSlot(s)
BY SameSlotKept DEF TcpIInv, slotVars, streamVars, SameSlot

\* The network knows sockets, not slots.
LEMMA NetworkSlots == ASSUME Network PROVE UNCHANGED <<slotVars, streamVars>>
BY DEF Network, PeerAccepts, Negotiated, Refused, PeerLost, Arrives, SocketBecomes

\* The invariant is inductive, for every number of slots.
LEMMA TcpInductive == TcpIInv /\ [Next]_vars => TcpIInv'
<1> SUFFICES ASSUME TcpIInv, [Next]_vars PROVE TcpIInv'
  OBVIOUS
<1>1. TypeOK'
  BY TypesKept DEF TcpIInv
<1>2. \A s \in Slots : SlotInv(s)'
  <2>1. CASE Task
    <3>1. CASE TaskCalled
      BY <3>1, NoSlot DEF TaskCalled
    <3>2. ASSUME NEW s \in Slots, Waits(s) \/ Advances(s) \/ Elapses(s) \/ Sends(s)
          PROVE  \A t \in Slots : SlotInv(t)'
      <4>1. SlotInv(s)' /\ OnlySlot(s)
        BY <3>2, TaskSlot DEF TcpIInv
      <4>2. QED
        BY <4>1, SameSlotKept DEF OnlySlot, TcpIInv
    <3>3. QED
      BY <2>1, <3>1, <3>2 DEF Task
  <2>2. CASE Owner
    BY <2>2, OwnerSlots
  <2>3. CASE Network \/ UNCHANGED vars
    BY <2>3, NetworkSlots, NoSlot DEF vars
  <2>4. QED
    BY <2>1, <2>2, <2>3 DEF Next
<1>3. QED
  BY <1>1, <1>2 DEF TcpIInv

\* What is said of every slot holds for ever.
LEMMA TcpInvariant == Spec => []TcpIInv
<1>1. Init => TcpIInv
  BY InitialTypes, FirstStreams DEF TcpIInv
<1>2. QED
  BY <1>1, TcpInductive, PTL DEF Spec

\* tx_task follows stx.datNode without a test: in STREAM_STATE_SENDING the node is there,
\* and longer than curDataOffset, wherever the connection before it has ended.
THEOREM SenderAlwaysHasNode == Spec => []SenderHasNode
<1>1. TcpIInv => SenderHasNode
  <2> SUFFICES ASSUME TcpIInv, NEW s \in Slots, state[s] = "CONNECTION_STABLISHED", stx[s] = "SENDING"
               PROVE  datNode[s] # <<>> /\ offset[s] < Len(Head(datNode[s]))
    BY DEF SenderHasNode
  <2>1. datNode[s] # <<>> /\ offset[s] < Len(datNode[s][1]) /\ datNode[s] \in Seq(Bytes)
    BY DEF TcpIInv, SlotInv, StreamInv, TypeOK
  <2>2. QED
    BY <2>1
<1>2. QED
  BY <1>1, TcpInvariant, PTL

\* A queue is that of a connection which is up or is being closed.
THEOREM QueueNeverOutlives == Spec => []QueueOfConnection
<1>1. TcpIInv => QueueOfConnection
  BY DEF TcpIInv, SlotInv, BareInv, QueueOfConnection, Up
<1>2. QED
  BY <1>1, TcpInvariant, PTL

-----------------------------------------------------------------------------
(***************************************************************************)
(* The promise.  Every step is one of the promise for the slot it changes, *)
(* and a quiet one for the others.                                         *)
(***************************************************************************)

\* Of two streams of numbered bytes the shorter one is a prefix of the other.
LEMMA NumberedPrefix ==
  ASSUME NEW b \in Bytes, NEW c \in Bytes, Numbered(b), Numbered(c), Len(b) <= Len(c)
  PROVE  Promise!IsPrefix(b, c)
<1>1. Len(b) \in Nat /\ Len(c) \in Nat
  BY DEF Bytes
<1>2. (\A i \in 1..Len(b) : b[i] \in Nat) /\ (\A i \in 1..Len(b) : c[i] \in Nat)
  BY <1>1, ElementOfSeq DEF Bytes
<1> DEFINE d == SubSeq(b, 1, Len(b))
           e == SubSeq(c, 1, Len(b))
<1>3. /\ d \in Seq(Nat) /\ Len(d) = Len(b) /\ \A i \in 1..Len(b) : d[i] = b[i]
  <2>1. /\ d \in Seq(Nat) /\ Len(d) = IF 1 <= Len(b) THEN Len(b) - 1 + 1 ELSE 0
        /\ \A i \in 1..(Len(b) - 1 + 1) : d[i] = b[1 + i - 1]
    BY <1>1, <1>2, SubSeqProperties
  <2>2. QED
    BY <1>1, <2>1
<1>4. /\ e \in Seq(Nat) /\ Len(e) = Len(b) /\ \A i \in 1..Len(b) : e[i] = c[i]
  <2>1. /\ e \in Seq(Nat) /\ Len(e) = IF 1 <= Len(b) THEN Len(b) - 1 + 1 ELSE 0
        /\ \A i \in 1..(Len(b) - 1 + 1) : e[i] = c[1 + i - 1]
    BY <1>1, <1>2, SubSeqProperties
  <2>2. QED
    BY <1>1, <2>1
<1> HIDE DEF d, e
<1>5. \A i \in 1..Len(b) : d[i] = e[i]
  BY <1>1, <1>3, <1>4 DEF Numbered
<1>6. d = e
  BY <1>3, <1>4, <1>5, SeqEqual
<1>7. QED
  BY <1>6 DEF Promise!IsPrefix, d, e

\* No more is delivered than was accepted, and in that order.
InOrder ==
  \A s \in Slots : state[s] = "CONNECTION_STABLISHED" => Promise!IsPrefix(delivered[s], accepted[s])

\* What has left is the beginning of what was accepted.
LEMMA DeliveredOfAccepted == TcpIInv => InOrder
<1> SUFFICES ASSUME TypeOK, NEW s \in Slots, SlotInv(s), state[s] = "CONNECTION_STABLISHED"
             PROVE  Promise!IsPrefix(delivered[s], accepted[s])
  BY DEF TcpIInv, InOrder
<1>1. /\ datNode[s] \in Seq(Bytes) /\ accepted[s] \in Bytes /\ delivered[s] \in Bytes
      /\ Len(accepted[s]) \in Nat /\ offset[s] \in Nat
  BY DEF TypeOK, Bytes
<1>2. /\ Numbered(accepted[s]) /\ Numbered(delivered[s])
      /\ Contiguous(datNode[s], Len(accepted[s])) /\ Len(delivered[s]) = Sent(s)
      /\ stx[s] = "SENDING" => offset[s] < Len(datNode[s][1])
  BY DEF SlotInv, StreamInv
<1>3. Sent(s) <= Len(accepted[s])
  <2>1. CASE datNode[s] = <<>>
    BY <1>1, <2>1 DEF Sent
  <2>2. CASE datNode[s] # <<>>
    <3>1. datNode[s][1][1] \in Nat /\ Len(datNode[s][1]) \in Nat \ {0}
      BY <1>1, <1>2, <2>2, ContiguousPop
    <3>2. datNode[s][1][1] + Len(datNode[s][1]) <= Len(accepted[s]) + 1
      <4>1. 1 \in 1..Len(datNode[s])
        BY <1>1, <2>2, EmptySeq
      <4>2. QED
        BY <1>2, <4>1 DEF Contiguous
    <3>3. Sent(s) = datNode[s][1][1] - 1 + (IF stx[s] = "SENDING" THEN offset[s] ELSE 0)
      BY <2>2 DEF Sent
    <3>4. CASE stx[s] = "SENDING"
      <4>1. offset[s] < Len(datNode[s][1])
        BY <1>2, <3>4
      <4>2. Sent(s) = datNode[s][1][1] - 1 + offset[s]
        BY <3>3, <3>4
      <4> HIDE DEF Sent
      <4>3. QED
        BY <1>1, <3>1, <3>2, <4>1, <4>2, SMTT(60)
    <3>5. CASE stx[s] # "SENDING"
      <4>1. Sent(s) = datNode[s][1][1] - 1 + 0
        BY <3>3, <3>5
      <4>2. QED
        BY <1>1, <3>1, <3>2, <4>1
    <3>6. QED
      BY <3>4, <3>5
  <2>3. QED
    BY <2>1, <2>2
<1>4. QED
  BY <1>1, <1>2, <1>3, NumberedPrefix

\* What the owner of slot s may see of a step.
PromiseStep(s) ==
  \/ Promise!Open(s) \/ Promise!Connected(s) \/ Promise!Failed(s) \/ Promise!Lost(s)
  \/ Promise!Withdrawn(s) \/ Promise!Quiet(s) \/ Promise!Accept(s) \/ Promise!Exchange(s)

\* Nothing is seen of a step that leaves the slot alone, unless it is told.
LEMMA QuietSlot ==
  ASSUME NEW s \in Slots, SameSlot(s), reports'.slot = s => reports'.events = <<>>
  PROVE  PromiseStep(s)
BY DEF PromiseStep, Promise!Quiet, Promise!Became, SameSlot, PhaseOf, OfUp

\* A branch that changes the state only, of a slot that does not get connected by it.
LEMMA MovesPromise ==
  ASSUME TypeOK, NEW s \in Slots, SlotInv(s), NEW from, NEW to, Moves(s, from, to),
         \/ /\ {from, to} \subseteq Resolving \cup Connecting
            /\ Silent
         \/ /\ from \in Resolving \cup Connecting /\ to \in {"CONNECTION_CLOSE", "WAIT_FOR_RETRY"}
            /\ \E e \in {"TIMEOUT", "ERROR"} : Report(s, <<e>>)
         \/ /\ from = "CONNECTION_STABLISHED" /\ to = "CONNECTION_CLOSE"
            /\ Report(s, <<"DISCONNECTED">>)
         \/ /\ from = "WAIT_FOR_RETRY" /\ to = "IDLE"
            /\ Silent
  PROVE  PromiseStep(s)
<1>1. state[s] = from /\ state'[s] = to /\ UNCHANGED <<accepted, delivered>>
  BY DEF Moves, At, Goto, TypeOK, streamVars
<1>2. QED
  BY <1>1 DEF PromiseStep, Promise!Quiet, Promise!Failed, Promise!Lost, Promise!Became, Promise!Bare,
     PhaseOf, OfUp, Resolving, Connecting, Silent, NoReport, Report

\* The task keeps the promise to the owner of the slot, and calls no other back.
LEMMA TaskPromise ==
  ASSUME TcpIInv, InOrder', NEW s \in Slots, Waits(s) \/ Advances(s) \/ Elapses(s) \/ Sends(s)
  PROVE  PromiseStep(s) /\ reports'.slot \in {0, s}
<1>1. TypeOK /\ SlotInv(s)
  BY DEF TcpIInv
<1>2. TypeOK' /\ SlotInv(s)' /\ OnlySlot(s)
  BY <1>1, TaskSlot, TaskTypes DEF Task, TcpIInv
<1> USE DEF At, Goto, streamVars, slotVars
<1>3. reports'.slot \in {0, s}
  BY DEF Waits, Advances, Elapses, Sends, Resolve, Unresolved, NoSocket, OpenSocket, Connected,
     Encrypt, Secured, Established, NotSecured, Unconnected, Disconnected, SendNothing, SendSome,
     SendRest, CloseConnection, Resolved, ConnectTimeout, RetryElapsed, ReportIfRead, Report,
     Silent, NoReport
<1>4. CASE Waits(s)
  BY <1>4, QuietSlot DEF Waits, SameSlot, Silent, NoReport
<1>5. CASE Resolve(s) \/ Unresolved(s) \/ NotSecured(s) \/ Unconnected(s) \/ Disconnected(s) \/ Elapses(s)
  <2> HIDE DEF At, Goto, streamVars, slotVars
  <2>1. CASE Resolve(s) \/ Resolved(s) \/ NotSecured(s) \/ ConnectTimeout(s)
    <3>1. PICK from \in Resolving \cup Connecting, to \in Resolving \cup Connecting :
            Moves(s, from, to) /\ Silent
      BY <2>1 DEF Resolve, Resolved, NotSecured, ConnectTimeout, Resolving, Connecting
    <3>2. {from, to} \subseteq Resolving \cup Connecting
      OBVIOUS
    <3>3. QED
      BY <1>1, <1>3, <3>1, <3>2, MovesPromise
  <2>2. CASE Unresolved(s) \/ Unconnected(s)
    <3>1. PICK from \in Resolving \cup Connecting, to \in {"CONNECTION_CLOSE", "WAIT_FOR_RETRY"} :
            Moves(s, from, to) /\ \E e \in {"TIMEOUT", "ERROR"} : Report(s, <<e>>)
      BY <2>2 DEF Unresolved, Unconnected, Resolving, Connecting
    <3>2. QED
      BY <1>1, <1>3, <3>1, MovesPromise
  <2>3. CASE Disconnected(s) \/ RetryElapsed(s)
    BY <1>1, <1>3, <2>3, MovesPromise DEF Disconnected, RetryElapsed
  <2>4. QED
    BY <1>5, <2>1, <2>2, <2>3 DEF Elapses
<1>6. CASE NoSocket(s)
  BY <1>1, <1>6 DEF NoSocket, Report, TypeOK, PhaseOf, OfUp, Resolving, Connecting, PromiseStep,
     Promise!Failed, Promise!Became, Promise!Bare
<1>7. CASE OpenSocket(s) \/ Encrypt(s)
  BY <1>1, <1>7 DEF OpenSocket, Encrypt, Silent, NoReport, TypeOK, PhaseOf, OfUp, Resolving, Connecting,
     PromiseStep, Promise!Quiet, Promise!Became
<1>8. CASE Connected(s) \/ Secured(s)
  <2>1. /\ state[s] \in {"CONNECTION_WAITING_FOR", "CONNECTION_SSL_NEGOTIATION_WAIT"}
        /\ state'[s] = "CONNECTION_STABLISHED" /\ Report(s, <<"CONNECTED">>)
        /\ UNCHANGED <<accepted, delivered>>
    BY <1>1, <1>8 DEF Connected, Secured, Established, TypeOK
  <2>2. accepted[s] = <<>> /\ delivered[s] = <<>>
    BY <1>1, <2>1 DEF SlotInv, BareInv, Up
  <2>3. QED
    BY <2>1, <2>2 DEF Report, PhaseOf, OfUp, Resolving, Connecting, PromiseStep,
       Promise!Connected, Promise!Became, Promise!Bare
<1>9. CASE SendNothing(s) \/ SendSome(s) \/ SendRest(s)
  <2>1. /\ state[s] = "CONNECTION_STABLISHED" /\ UNCHANGED <<state, accepted>>
        /\ PhaseOf(s) = "up" /\ PhaseOf(s)' = "up"
    BY <1>9 DEF SendNothing, SendSome, SendRest, InConnection, PhaseOf
  <2>2. Promise!IsPrefix(delivered'[s], accepted'[s])
    BY <2>1 DEF InOrder
  <2>3. delivered[s] \in Bytes /\ delivered'[s] \in Bytes /\ Numbered(delivered[s]) /\ Numbered(delivered'[s])
    BY <1>1, <1>2, <2>1 DEF SlotInv, StreamInv, TypeOK
  <2>4. CASE SendNothing(s)
    <3>1. delivered'[s] = delivered[s] /\ Len(delivered[s]) <= Len(delivered'[s])
      BY <2>3, <2>4 DEF SendNothing, Bytes
    <3>2. Promise!IsPrefix(delivered[s], delivered'[s])
      BY <2>3, <3>1, NumberedPrefix
    <3>3. PICK r \in {<<>>, <<"RX">>} : Report(s, r)
      BY <2>4 DEF SendNothing, ReportIfRead
    <3>4. QED
      BY <2>1, <2>2, <3>1, <3>2, <3>3 DEF Report, OfUp, PromiseStep, Promise!Exchange, Promise!Became
  <2>5. CASE SendSome(s) \/ SendRest(s)
    <3>1. PICK n \in Nat : Write(s, n)
      <4>1. CASE SendSome(s)
        <5>1. PICK n \in 1..MaxBytes : Write(s, n)
          BY <4>1 DEF SendSome
        <5>2. QED
          BY <5>1
      <4>2. CASE SendRest(s)
        <5> DEFINE n == Len(Head(datNode[s])) - offset[s]
        <5>1. Write(s, n) /\ n \in 1..n
          BY <4>2 DEF SendRest, Write
        <5> HIDE DEF n
        <5>2. QED
          BY <5>1
      <4>3. QED
        BY <2>5, <4>1, <4>2
    <3> DEFINE piece == SubSeq(Head(datNode[s]), offset[s] + 1, offset[s] + n)
    <3>2. piece \in Bytes /\ Len(piece) = n /\ n > 0 /\ delivered'[s] = delivered[s] \o piece
      <4>1. piece \in Bytes /\ Len(piece) = n /\ n > 0 /\ delivered' = [delivered EXCEPT ![s] = @ \o piece]
        BY <1>1, <3>1, Written
      <4>2. QED
        BY <1>1, <4>1 DEF TypeOK
    <3> HIDE DEF piece
    <3>3. Len(delivered[s]) \in Nat /\ Len(delivered'[s]) = Len(delivered[s]) + n
      <4> USE DEF Bytes
      <4>1. Len(delivered[s] \o piece) = Len(delivered[s]) + Len(piece)
        BY <2>3, <3>2, ConcatProperties
      <4>2. QED
        BY <2>3, <3>2, <4>1
    <3>4. Promise!IsPrefix(delivered[s], delivered'[s]) /\ delivered'[s] # delivered[s]
      <4>1. Len(delivered[s]) <= Len(delivered'[s]) /\ Len(delivered[s]) # Len(delivered'[s])
        BY <3>2, <3>3
      <4>2. QED
        BY <2>3, <4>1, NumberedPrefix
    <3>5. \E r \in {<<>>, <<"RX">>} : Report(s, r) \/ Report(s, <<"TX">> \o r)
      <4>1. Append(<<>>, "RX") = <<>> \o <<"RX">> /\ Append(<<"TX">>, "RX") = <<"TX">> \o <<"RX">>
        OBVIOUS
      <4>2. <<>> \o <<"RX">> = <<"RX">> /\ <<"TX">> \o <<>> = <<"TX">>
        OBVIOUS
      <4>3. QED
        BY <2>5, <4>1, <4>2 DEF SendSome, SendRest, ReportIfRead
    <3>6. QED
      BY <2>1, <2>2, <3>4, <3>5 DEF Report, OfUp, PromiseStep, Promise!Exchange, Promise!Became
  <2>6. QED
    BY <1>9, <2>4, <2>5
<1>10. CASE CloseConnection(s)
  BY <1>1, <1>10 DEF CloseConnection, Silent, NoReport, TypeOK, PhaseOf, OfUp, Resolving, Connecting,
     PromiseStep, Promise!Quiet, Promise!Became
<1>11. QED
  BY <1>3, <1>4, <1>5, <1>6, <1>7, <1>8, <1>9, <1>10 DEF Advances, Sends

\* A node that is queued prolongs what was accepted, and nothing else.
LEMMA PushPromise ==
  ASSUME TcpIInv, TcpIInv', NEW t \in Slots, NEW n \in 1..MaxBytes, Push(t, n),
         state[t] = "CONNECTION_STABLISHED", state' = state, hSocket' = hSocket,
         reports'.slot \notin Slots, NEW s \in Slots
  PROVE  PromiseStep(s)
<1>1. CASE s = t
  <2>1. /\ state[s] = "CONNECTION_STABLISHED" /\ state'[s] = "CONNECTION_STABLISHED"
        /\ delivered'[s] = delivered[s]
    BY <1>1 DEF Push
  <2>2. /\ accepted[s] \in Bytes /\ accepted'[s] \in Bytes
        /\ Numbered(accepted[s]) /\ Numbered(accepted'[s])
    BY <2>1 DEF TcpIInv, TypeOK, SlotInv, StreamInv
  <2>3. Len(accepted[s]) <= Len(accepted'[s])
    <3> DEFINE node == [i \in 1..n |-> Len(accepted[s]) + i]
    <3>1. n \in Nat /\ Len(accepted[s]) \in Nat
      BY <2>2 DEF Bytes
    <3>2. node \in Bytes /\ Len(node) = n
      BY <3>1, NodeOf
    <3>3. accepted' = [accepted EXCEPT ![s] = @ \o node]
      BY <1>1 DEF Push
    <3> HIDE DEF node
    <3>4. accepted'[s] = accepted[s] \o node
      BY <3>3 DEF TcpIInv, TypeOK
    <3>5. Len(accepted'[s]) = Len(accepted[s]) + Len(node)
      BY <2>2, <3>2, <3>4, ConcatProperties DEF Bytes
    <3>6. QED
      BY <3>1, <3>2, <3>5
  <2>4. Promise!IsPrefix(accepted[s], accepted'[s])
    BY <2>2, <2>3, NumberedPrefix
  <2>5. QED
    BY <2>1, <2>4 DEF PhaseOf, OfUp, PromiseStep, Promise!Accept, Promise!Became
<1>2. CASE s # t
  BY <1>2, QuietSlot DEF TcpIInv, TypeOK, Push, SameSlot
<1>3. QED
  BY <1>1, <1>2

\* An owner's call is a step of the promise for the slot it is about.
LEMMA OwnerPromise ==
  ASSUME TcpIInv, TcpIInv', Owner
  PROVE  \A s \in Slots : PromiseStep(s)
<1> USE DEF Goto, streamVars, slotVars
<1>1. reports'.slot \notin Slots
  BY DEF Owner, Open, Reset, GetRx, Close, Send, Silent, NoReport, Slots
<1>2. TypeOK
  BY DEF TcpIInv
<1>3. ASSUME NEW first \in {"DNS_RESOLVE_HOST_ADDRESS", "CONNECTION_INIT"}, Open(first), NEW s \in Slots
      PROVE  PromiseStep(s)
  <2>1. FirstIdle \in Slots /\ state[FirstIdle] = "IDLE"
    BY <1>3, FirstIdleIsIdle DEF Open, Idle
  <2>2. reports'.events = <<>>
    BY <1>3 DEF Open, Silent, NoReport
  <2>3. CASE s = FirstIdle
    BY <1>1, <1>2, <1>3, <2>1, <2>3 DEF Open, TypeOK, PhaseOf, OfUp, Resolving, Connecting,
       PromiseStep, Promise!Open, Promise!Became, Promise!Bare
  <2>4. CASE s # FirstIdle
    BY <1>1, <1>2, <1>3, <2>1, <2>4, QuietSlot DEF Open, SameSlot, TypeOK
  <2>5. QED
    BY <2>3, <2>4
<1>4. ASSUME Reset, NEW s \in Slots PROVE PromiseStep(s)
  BY <1>1, <1>4 DEF Reset, Forget, PhaseOf, OfUp, Resolving, Connecting, PromiseStep,
     Promise!Withdrawn, Promise!Quiet, Promise!Became, Promise!Bare
<1>5. ASSUME NEW t \in Slots, GetRx(t), NEW s \in Slots PROVE PromiseStep(s)
  BY <1>1, <1>5, QuietSlot DEF GetRx, SameSlot
<1>6. ASSUME NEW t \in Slots, Close(t), NEW s \in Slots PROVE PromiseStep(s)
  <2>1. CASE s = t
    BY <1>1, <1>2, <1>6, <2>1 DEF Close, TypeOK, PhaseOf, OfUp, Resolving, Connecting, PromiseStep,
       Promise!Withdrawn, Promise!Quiet, Promise!Became, Promise!Bare
  <2>2. CASE s # t
    BY <1>1, <1>2, <1>6, <2>2, QuietSlot DEF Close, SameSlot, TypeOK
  <2>3. QED
    BY <2>1, <2>2
<1>7. ASSUME NEW t \in Slots, NEW n \in 1..MaxBytes, Send(t, n), NEW s \in Slots PROVE PromiseStep(s)
  BY <1>1, <1>7, PushPromise DEF Send
<1>8. QED
  BY <1>3, <1>4, <1>5, <1>6, <1>7 DEF Owner

\* Every step of the client is a step of the promise.
LEMMA PromiseKept ==
  ASSUME TcpIInv, TcpIInv', InOrder', [Next]_vars
  PROVE  [Promise!Next]_(Promise!promiseVars)
<1>1. CASE Owner \/ Network \/ TaskCalled \/ \E t \in Slots : Waits(t) \/ Advances(t) \/ Elapses(t) \/ Sends(t)
  <2>1. ASSUME NEW s \in Slots PROVE PromiseStep(s)
    <3>1. CASE Owner
      BY <3>1, OwnerPromise
    <3>2. CASE Network \/ TaskCalled
      BY <3>2, NetworkSlots, QuietSlot
      DEF Network, PeerAccepts, Negotiated, Refused, PeerLost, Arrives, SocketBecomes, TaskCalled,
          Silent, NoReport, SameSlot, slotVars, streamVars
    <3>3. CASE \E t \in Slots : Waits(t) \/ Advances(t) \/ Elapses(t) \/ Sends(t)
      <4>1. PICK t \in Slots : Waits(t) \/ Advances(t) \/ Elapses(t) \/ Sends(t)
        BY <3>3
      <4>2. PromiseStep(t) /\ reports'.slot \in {0, t}
        BY <4>1, TaskPromise
      <4>3. OnlySlot(t)
        BY <4>1, TaskSlot DEF TcpIInv
      <4>4. CASE s # t
        BY <4>2, <4>3, <4>4, QuietSlot DEF OnlySlot, Slots
      <4>5. QED
        BY <4>2, <4>4
    <3>4. QED
      BY <1>1, <3>1, <3>2, <3>3
  <2>2. QED
    BY <2>1 DEF PromiseStep, Promise!Next
<1>2. CASE UNCHANGED vars
  BY <1>2 DEF vars, slotVars, streamVars, Promise!promiseVars, PhaseOf, OfUp
<1>3. QED
  BY <1>1, <1>2 DEF Next, Task

\* KeepsPromise: the client implements ClientPromise for the owner of every slot,
\* for any number of slots and handles and any length of what is sent.
THEOREM PromiseImplemented == Spec => KeepsPromise
<1>1. Init => Promise!Init
  BY DEF Init, Promise!Init, PhaseOf, OfUp, Resolving, Connecting, NoReport
<1>2. TcpIInv /\ InOrder /\ TcpIInv' /\ InOrder' /\ [Next]_vars => [Promise!Next]_(Promise!promiseVars)
  BY PromiseKept
<1>3. Spec => [](TcpIInv /\ InOrder)
  BY TcpInvariant, DeliveredOfAccepted, PTL
<1>4. QED
  BY <1>1, <1>2, <1>3, PTL DEF Spec, KeepsPromise, Promise!Spec

-----------------------------------------------------------------------------
(***************************************************************************)
(* Sockets.  A slot that never had one has hSocket 0, which is no handle:  *)
(* its owner may close it, and nothing of the pool changes.                *)
(***************************************************************************)

\* A slot holds a socket in no state but those that use one.
HoldsWhileUsed == \A s \in Slots : state[s] \notin HasSocket => hSocket[s] \notin Handles

PoolIInv == TcpIInv /\ HoldsWhileUsed /\ SocketsOwned

\* At first no slot has a socket.
LEMMA FirstPool == Init => HoldsWhileUsed /\ SocketsOwned
BY DEF Init, HoldsWhileUsed, SocketsOwned, HasSocket, Up, Slots, Handles

\* A step that neither opens nor closes a socket, of a slot that keeps or does not need one.
LEMMA PoolOfMoves ==
  ASSUME PoolIInv, hSocket' = hSocket, holder' = holder,
         \A s \in Slots : state[s] \in HasSocket => state'[s] \in HasSocket
  PROVE  HoldsWhileUsed' /\ SocketsOwned'
BY DEF PoolIInv, HoldsWhileUsed, SocketsOwned

\* The task takes a free socket of the pool and gives back its own.
LEMMA TaskPool ==
  ASSUME PoolIInv, NEW s \in Slots, Waits(s) \/ Advances(s) \/ Elapses(s) \/ Sends(s)
  PROVE  HoldsWhileUsed' /\ SocketsOwned'
<1> USE DEF At, Goto, streamVars, slotVars, netVars
<1>1. /\ TypeOK /\ HoldsWhileUsed /\ SocketsOwned
      /\ state \in [Slots -> States] /\ hSocket \in [Slots -> Handles \cup {0, INVALID_SOCKET}]
      /\ holder \in [Handles -> Slots \cup {0, -1}]
  BY DEF PoolIInv, TcpIInv, TypeOK
<1>2. INVALID_SOCKET \notin Handles /\ 0 \notin Slots /\ -1 \notin Slots
  BY DEF INVALID_SOCKET, Handles, Slots
<1>3. CASE Waits(s)
  BY <1>3, PoolOfMoves DEF Waits
<1>4. CASE \/ Resolve(s) \/ Unresolved(s) \/ Connected(s) \/ Encrypt(s) \/ Secured(s) \/ NotSecured(s)
           \/ Unconnected(s) \/ Disconnected(s) \/ SendNothing(s) \/ Elapses(s) \/ Sends(s)
  <2>1. hSocket' = hSocket /\ holder' = holder
    BY <1>4 DEF Resolve, Unresolved, Connected, Encrypt, Secured, Established, NotSecured, Unconnected,
       Disconnected, SendNothing, Elapses, Resolved, ConnectTimeout, RetryElapsed, Sends, SendSome,
       SendRest, InConnection, Moves
  <2>2. ASSUME NEW t \in Slots
        PROVE  state[t] \in HasSocket => state'[t] \in HasSocket
    BY <1>1, <1>4 DEF Resolve, Unresolved, Connected, Encrypt, Secured, Established, NotSecured,
       Unconnected, Disconnected, SendNothing, Elapses, Resolved, ConnectTimeout, RetryElapsed, Sends,
       SendSome, SendRest, InConnection, Moves, HasSocket, Up
  <2>3. QED
    BY <2>1, <2>2, PoolOfMoves
<1>5. CASE NoSocket(s)
  <2>1. state[s] \notin HasSocket
    BY <1>5 DEF NoSocket, HasSocket, Up
  <2>2. \A h \in Handles : holder[h] # s
    BY <1>1, <1>2, <2>1 DEF SocketsOwned, HoldsWhileUsed
  <2>3. /\ hSocket' = [hSocket EXCEPT ![s] = INVALID_SOCKET]
        /\ state' = [state EXCEPT ![s] = "WAIT_FOR_RETRY"] /\ holder' = holder
    BY <1>5 DEF NoSocket
  <2>4. HoldsWhileUsed'
    BY <1>1, <1>2, <2>3 DEF HoldsWhileUsed, HasSocket, Up
  <2>5. SocketsOwned'
    BY <1>1, <1>2, <2>2, <2>3 DEF SocketsOwned
  <2>6. QED
    BY <2>4, <2>5
<1>6. CASE OpenSocket(s)
  <2> DEFINE f == FirstFree
  <2>1. f \in Handles /\ holder[f] = -1
    BY <1>6, FirstFreeIsFree DEF OpenSocket, Free
  <2>2. \A h \in Handles : holder[h] # s
    <3>1. state[s] \notin HasSocket
      BY <1>6 DEF OpenSocket, HasSocket, Up
    <3>2. QED
      BY <1>1, <1>2, <3>1 DEF SocketsOwned, HoldsWhileUsed
  <2>3. /\ hSocket' = [hSocket EXCEPT ![s] = f]
        /\ state' = [state EXCEPT ![s] = "CONNECTION_WAITING_FOR"] /\ holder' = [holder EXCEPT ![f] = s]
    BY <1>6 DEF OpenSocket
  <2> HIDE DEF f
  <2>4. HoldsWhileUsed'
    BY <1>1, <2>3 DEF HoldsWhileUsed, HasSocket, Up
  <2>5. SocketsOwned'
    <3>1. ASSUME NEW t \in Slots, hSocket'[t] \in Handles PROVE holder'[hSocket'[t]] = t
      BY <1>1, <1>2, <2>1, <2>3, <3>1 DEF SocketsOwned
    <3>2. ASSUME NEW h \in Handles, holder'[h] \in Slots PROVE hSocket'[holder'[h]] = h
      BY <1>1, <2>1, <2>2, <2>3, <3>2 DEF SocketsOwned
    <3>3. QED
      BY <3>1, <3>2 DEF SocketsOwned
  <2>6. QED
    BY <2>4, <2>5
<1>7. CASE CloseConnection(s)
  <2> DEFINE g == hSocket[s]
  <2>1. g \in Handles => holder[g] = s
    BY <1>1 DEF SocketsOwned
  <2>2. /\ hSocket' = [hSocket EXCEPT ![s] = INVALID_SOCKET]
        /\ state' = [state EXCEPT ![s] = "WAIT_FOR_RETRY"]
        /\ holder' = [h \in Handles |-> IF h = g THEN -1 ELSE holder[h]]
    BY <1>7 DEF CloseConnection, CloseSockets
  <2> HIDE DEF g
  <2>3. HoldsWhileUsed'
    BY <1>1, <1>2, <2>2 DEF HoldsWhileUsed, HasSocket, Up
  <2>4. SocketsOwned'
    <3>1. ASSUME NEW t \in Slots, hSocket'[t] \in Handles PROVE holder'[hSocket'[t]] = t
      BY <1>1, <1>2, <2>1, <2>2, <3>1 DEF SocketsOwned
    <3>2. ASSUME NEW h \in Handles, holder'[h] \in Slots PROVE hSocket'[holder'[h]] = h
      <4>1. h # g /\ holder'[h] = holder[h]
        BY <1>2, <2>2, <3>2
      <4>2. hSocket[holder[h]] = h
        BY <1>1, <3>2, <4>1 DEF SocketsOwned
      <4>3. holder[h] # s
        BY <4>1, <4>2 DEF g
      <4>4. QED
        BY <1>1, <2>2, <3>2, <4>1, <4>2, <4>3
    <3>3. QED
      BY <3>1, <3>2 DEF SocketsOwned
  <2>5. QED
    BY <2>3, <2>4
<1>8. QED
  BY <1>3, <1>4, <1>5, <1>6, <1>7 DEF Advances

\* An owner closes and resets slots, and takes no socket of another.
LEMMA OwnerPool ==
  ASSUME PoolIInv, Owner
  PROVE  HoldsWhileUsed' /\ SocketsOwned'
<1> USE DEF Goto, streamVars, slotVars, netVars
<1>1. /\ TypeOK /\ HoldsWhileUsed /\ SocketsOwned /\ state \in [Slots -> States]
      /\ INVALID_SOCKET \notin Handles /\ -1 \notin Slots
  BY DEF PoolIInv, TcpIInv, TypeOK, INVALID_SOCKET, Handles, Slots
<1>2. ASSUME NEW first \in {"DNS_RESOLVE_HOST_ADDRESS", "CONNECTION_INIT"}, Open(first)
      PROVE  HoldsWhileUsed' /\ SocketsOwned'
  <2>1. state[FirstIdle] = "IDLE"
    BY <1>2, FirstIdleIsIdle DEF Open, Idle
  <2>2. QED
    BY <1>1, <1>2, <2>1, PoolOfMoves DEF Open, HasSocket, Up
<1>3. CASE Reset
  <2>1. ASSUME NEW s \in Slots PROVE state'[s] = "IDLE" /\ hSocket'[s] = INVALID_SOCKET
    BY <1>3 DEF Reset
  <2>2. ASSUME NEW h \in Handles, holder'[h] \in Slots PROVE FALSE
    <3>1. holder'[h] = holder[h] /\ h \notin {hSocket[s] : s \in Slots}
      BY <1>1, <1>3, <2>2 DEF Reset, CloseSockets
    <3>2. hSocket[holder[h]] = h /\ holder[h] \in Slots
      BY <1>1, <2>2, <3>1 DEF SocketsOwned
    <3>3. QED
      BY <3>1, <3>2
  <2>3. QED
    BY <1>1, <2>1, <2>2 DEF HoldsWhileUsed, SocketsOwned, HasSocket, Up
<1>4. ASSUME NEW s \in Slots, GetRx(s) PROVE HoldsWhileUsed' /\ SocketsOwned'
  BY <1>4, PoolOfMoves DEF GetRx, Pull
<1>5. ASSUME NEW s \in Slots, Close(s) PROVE HoldsWhileUsed' /\ SocketsOwned'
  BY <1>1, <1>5, PoolOfMoves DEF Close, HasSocket, Up
<1>6. ASSUME NEW s \in Slots, NEW n \in 1..MaxBytes, Send(s, n) PROVE HoldsWhileUsed' /\ SocketsOwned'
  BY <1>6, PoolOfMoves DEF Send
<1>7. QED
  BY <1>2, <1>3, <1>4, <1>5, <1>6 DEF Owner

\* Every step keeps the pool in order,
LEMMA PoolInductive ==
  PoolIInv /\ [Next]_vars => HoldsWhileUsed' /\ SocketsOwned'
<1> SUFFICES ASSUME PoolIInv, [Next]_vars PROVE HoldsWhileUsed' /\ SocketsOwned'
  OBVIOUS
<1>1. CASE Owner
  BY <1>1, OwnerPool
<1>2. CASE \E s \in Slots : Waits(s) \/ Advances(s) \/ Elapses(s) \/ Sends(s)
  BY <1>2, TaskPool
<1>3. CASE Network \/ TaskCalled \/ UNCHANGED vars
  BY <1>3, PoolOfMoves DEF Network, PeerAccepts, Negotiated, Refused, PeerLost, Arrives, SocketBecomes,
     TaskCalled, vars, slotVars, streamVars, netVars
<1>4. QED
  BY <1>1, <1>2, <1>3 DEF Next, Task

\* so that it always is.
LEMMA PoolInvariant == Spec => []PoolIInv
BY FirstPool, PoolInductive, TcpInvariant, PTL DEF Spec, PoolIInv

\* SocketsOwned: no socket is shared, lost to the pool or used after it was given back.
THEOREM SocketsNeverShared == Spec => []SocketsOwned
<1>1. PoolIInv => SocketsOwned
  BY DEF PoolIInv
<1>2. QED
  BY <1>1, PoolInvariant, PTL

\* ClosesItsOwn: whenever an owner closes, also a slot that has never had a socket, and
\* whenever the network is reset, no socket is closed but those that clients have opened
\* and hold: what the telnet server has opened stays open.
THEOREM OnlyOwnSocketsClosed == Spec => ClosesItsOwn
<1> DEFINE Own == \A h \in Handles : holder[h] # -1 /\ holder'[h] = -1
                      => \E s \in Slots : holder[h] = s /\ hSocket[s] = h
<1>1. PoolIInv /\ [Next]_vars => [Own]_vars
  <2> SUFFICES ASSUME PoolIInv, Next, NEW h \in Handles, holder[h] # -1, holder'[h] = -1
               PROVE  \E s \in Slots : holder[h] = s /\ hSocket[s] = h
    OBVIOUS
  <2>1. \A g \in Handles, s \in Slots : [holder EXCEPT ![g] = s][h] \in {s, holder[h]} /\ s # -1
    BY DEF PoolIInv, TcpIInv, TypeOK, Slots
  <2>2. ASSUME NEW s \in Slots, OpenSocket(s) PROVE FALSE
    BY <2>1, <2>2, FirstFreeIsFree DEF OpenSocket, Free
  <2>3. holder' = holder \/ Reset \/ \E s \in Slots : OpenSocket(s) \/ CloseConnection(s)
    BY DEF Next, Task, Owner, Network, PeerAccepts, Negotiated, Refused, PeerLost, Arrives,
       SocketBecomes, TaskCalled, Waits, Advances, Elapses, Sends, Resolve, Unresolved, NoSocket,
       Connected, Encrypt, Secured, Established, NotSecured, Unconnected, Disconnected, SendNothing,
       SendSome, SendRest, InConnection, Resolved, ConnectTimeout, RetryElapsed, Moves, Open, Send,
       GetRx, Pull, Close, netVars
  <2>4. PICK s \in Slots : hSocket[s] = h
    <3>1. CASE Reset
      BY <3>1 DEF Reset, CloseSockets
    <3>2. ASSUME NEW s \in Slots, CloseConnection(s) PROVE hSocket[s] = h
      BY <3>2 DEF CloseConnection, CloseSockets
    <3>3. QED
      BY <2>2, <2>3, <3>1, <3>2
  <2>5. QED
    BY <2>4 DEF PoolIInv, SocketsOwned
<1>2. QED
  BY <1>1, PoolInvariant, PTL DEF Spec, ClosesItsOwn
===============================================================================
