-------------------------- MODULE SimcomModemProofs --------------------------
(***************************************************************************)
(* Theorems about SimcomModem, for every value of its constants.           *)
(***************************************************************************)
EXTENDS SimcomModem, TLAPS

USE TimesAssumption, BoundsAssumption

-----------------------------------------------------------------------------
(***************************************************************************)
(* The chain of states.                                                    *)
(***************************************************************************)

\* Every state that waits for a line has a sequel among the states.
LEMMA SequelType ==
  ASSUME NEW s \in AnswerableStates
  PROVE  Sequel(s) \in States /\ SequelOfError(s) \in States
BY DEF AnswerableStates, CommandStates, ListenStates, States, Sequel, SequelOfError

\* What a transfer leaves in the buffer is a line.
LEMMA MergedType ==
  ASSUME NEW q \in Seq(Lines), q # <<>>
  PROVE  Merged(q) \in Lines /\ Merged(<<Head(q)>>) = Head(q)
<1>1. Head(q) \in Lines
  OBVIOUS
<1>2. Line("OTHER", "none") \in Lines
  BY DEF Line, Lines, Kinds
<1>3. QED
  BY <1>1, <1>2 DEF Merged

\* The event handler and the environment leave well-typed states.
LEMMA InterruptType == TypeOK /\ (Interrupt \/ UNCHANGED vars) => TypeOK'
<1> USE DEF flagVars, usbVars, modemVars, boundVars, histVars
<1>1. ASSUME TypeOK, TimerTick PROVE TypeOK'
  BY <1>1 DEF TypeOK, TimerTick
<1>2. ASSUME TypeOK, ReadComplete PROVE TypeOK'
  <2>1. reads' \in Nat
    BY <1>2 DEF TypeOK, ReadComplete, Receive
  <2>2. PICK taken \in {<<Head(out)>>, out} :
          buffRecv' \in Contents(taken) /\ out' = IF taken = out THEN <<>> ELSE Tail(out)
    BY <1>2 DEF ReadComplete, Receive
  <2>3. buffRecv' \in Lines
    <3>1. out \in Seq(Lines) /\ out # <<>> /\ Head(out) \in Lines
      BY <1>2 DEF TypeOK, ReadComplete, Receive
    <3>2. Merged(out) \in Lines /\ Merged(<<Head(out)>>) = Head(out)
      BY <3>1, MergedType
    <3>3. \A l \in Lines : Overlaid(l) \in Lines
      BY DEF Overlaid, Line, Lines, Kinds
    <3>4. Head(taken) \in Lines /\ Merged(taken) \in Lines
      BY <3>1, <3>2
    <3>5. QED
      BY <2>2, <3>3, <3>4 DEF Contents
  <2>4. out' \in Seq(Lines)
    BY <1>2, <2>2 DEF TypeOK, ReadComplete, Receive
  <2>5. missed' \in BOOLEAN
    BY <1>2 DEF TypeOK, ReadComplete, Receive
  <2>6. QED
    BY <1>2, <2>1, <2>3, <2>4, <2>5 DEF TypeOK, ReadComplete, Receive
<1>3. ASSUME TypeOK, ReadFailed PROVE TypeOK'
  BY <1>3 DEF TypeOK, ReadFailed
<1>4. ASSUME TypeOK, WriteComplete PROVE TypeOK'
  <2>1. ATwrite' \in BOOLEAN /\ pendingResponse' \in BOOLEAN /\ missed' \in BOOLEAN
    BY <1>4 DEF WriteComplete, Transmit
  <2>2. writes' \in Seq(Sendable)
    BY <1>4 DEF TypeOK, WriteComplete, Transmit
  <2>3. modem' \in {"idle", "exec", "input", "stored"}
    BY <1>4 DEF WriteComplete, Transmit, Deliver
  <2>4. QED
    BY <1>4, <2>1, <2>2, <2>3 DEF TypeOK, WriteComplete, Transmit, Deliver
<1>5. ASSUME TypeOK, WriteFailed PROVE TypeOK'
  BY <1>5 DEF TypeOK, WriteFailed
<1>6. ASSUME TypeOK, UNCHANGED vars PROVE TypeOK'
  BY <1>6 DEF TypeOK, vars
<1>7. QED
  BY <1>1, <1>2, <1>3, <1>4, <1>5, <1>6 DEF Interrupt

\* So do the modem and the USB driver.
LEMMA EnvironmentType == TypeOK /\ Environment => TypeOK'
<1> USE DEF flagVars, usbVars, modemVars, boundVars, histVars
<1>0. \A k \in Kinds, c \in Sendable \cup {"none"} : Line(k, c) \in Lines
  BY DEF Line, Lines
<1>1. ASSUME TypeOK, DriverUp PROVE TypeOK'
  BY <1>1 DEF TypeOK, DriverUp
<1>2. ASSUME TypeOK, Boot PROVE TypeOK'
  <2>1. Line("ATREADY", "none") \in Lines
    BY <1>0 DEF Kinds
  <2>2. QED
    BY <1>2, <2>1 DEF TypeOK, Boot, Says
<1>3. ASSUME TypeOK, Answer PROVE TypeOK'
  <2> DEFINE Info == {<<>>, <<Line("OTHER", "none")>>}
  <2>1. PICK k \in {Awaited(cmd), "ERROR"}, info \in Info : out' = out \o Append(info, Line(k, cmd))
    BY <1>3 DEF Answer, Says
  <2>2. k \in Kinds
    BY DEF Kinds, Awaited
  <2>3. Line(k, cmd) \in Lines /\ Line("OTHER", "none") \in Lines
    BY <1>0, <1>3, <2>2 DEF TypeOK, Kinds
  <2>4. <<>> \in Seq(Lines) /\ <<Line("OTHER", "none")>> \in Seq(Lines)
    BY <2>3
  <2>5. Append(info, Line(k, cmd)) \in Seq(Lines)
    <3>1. info \in Seq(Lines)
      BY <2>4
    <3> HIDE DEF Info
    <3> DEFINE answer == Line(k, cmd)
    <3>2. answer \in Lines
      BY <2>3
    <3> HIDE DEF answer
    <3>3. Append(info, answer) \in Seq(Lines)
      BY <3>1, <3>2
    <3>4. QED
      BY <3>3 DEF answer
  <2>6. out' \in Seq(Lines)
    BY <1>3, <2>1, <2>5 DEF TypeOK
  <2>7. posting' \in BOOLEAN
    BY <1>3 DEF Answer
  <2>8. QED
    BY <1>3, <2>6, <2>7 DEF TypeOK, Answer
<1>4. ASSUME TypeOK, AskBody PROVE TypeOK'
  <2>1. Line("DOWNLOAD", cmd) \in Lines
    BY <1>0, <1>4 DEF TypeOK, Kinds
  <2>2. QED
    BY <1>4, <2>1 DEF TypeOK, AskBody, Says
<1>5. ASSUME TypeOK, BodyStored PROVE TypeOK'
  <2>1. Line("OK", cmd) \in Lines
    BY <1>0, <1>5 DEF TypeOK, Kinds
  <2>2. QED
    BY <1>5, <2>1 DEF TypeOK, BodyStored, Says
<1>6. ASSUME TypeOK, PostDone PROVE TypeOK'
  <2>1. Line("HTTPACTION", "none") \in Lines
    BY <1>0 DEF Kinds
  <2>2. posting' \in BOOLEAN
    BY <1>6 DEF PostDone
  <2>3. out' \in Seq(Lines)
    BY <1>6, <2>1 DEF TypeOK, PostDone, Says
  <2>4. QED
    BY <1>6, <2>2, <2>3 DEF TypeOK, PostDone
<1>7. ASSUME TypeOK, Unsolicited PROVE TypeOK'
  <2>1. Line("OTHER", "none") \in Lines /\ Line("GARBLED", "none") \in Lines
    BY <1>0 DEF Kinds
  <2>2. QED
    BY <1>7, <2>1 DEF TypeOK, Unsolicited, Says
<1>8. QED
  BY <1>1, <1>2, <1>3, <1>4, <1>5, <1>6, <1>7 DEF Environment, Replies

\* The statements of simcom_tasks.
LEMMA ForegroundType == TypeOK /\ Foreground => TypeOK'
<1> USE DEF flagVars, usbVars, modemVars, boundVars, histVars, PCs
<1>1. ASSUME TypeOK, AttachHandler PROVE TypeOK'
  BY <1>1 DEF TypeOK, AttachHandler, Empty, Line, Lines, Kinds, States, ListenStates
<1>2. ASSUME TypeOK, WriteCommand PROVE TypeOK'
  BY <1>2 DEF TypeOK, WriteCommand, MayWrite, FormatCommand, Sendable
<1>3. ASSUME TypeOK, WriteRefused PROVE TypeOK'
  BY <1>3 DEF TypeOK, WriteRefused, WriteNotSent, CountFault, FormatCommand
<1>4. ASSUME TypeOK, NothingToWrite PROVE TypeOK'
  BY <1>4 DEF TypeOK, NothingToWrite, FormatCommand
<1>5. ASSUME TypeOK, WriteAccepted PROVE TypeOK'
  <2>1. ATwrite' \in BOOLEAN
    BY <1>5 DEF WriteAccepted
  <2>2. QED
    BY <1>5, <2>1 DEF TypeOK, WriteAccepted
<1>6. ASSUME TypeOK, PostRead \/ ReadRefused \/ NothingToRead \/ ReadAccepted PROVE TypeOK'
  <2>1. CASE PostRead
    BY <1>6, <2>1 DEF TypeOK, PostRead
  <2>2. CASE ReadRefused
    BY <1>6, <2>2 DEF TypeOK, ReadRefused, ReadNotPosted, CountFault
  <2>3. CASE NothingToRead
    BY <1>6, <2>3 DEF TypeOK, NothingToRead
  <2>4. CASE ReadAccepted
    <3>1. ATread' \in BOOLEAN
      BY <2>4 DEF ReadAccepted
    <3>2. QED
      BY <1>6, <2>4, <3>1 DEF TypeOK, ReadAccepted
  <2>5. QED
    BY <1>6, <2>1, <2>2, <2>3, <2>4
<1>7. ASSUME TypeOK, NothingToParse PROVE TypeOK'
  <2>1. postCmd' \in BOOLEAN /\ pc' \in PCs
    BY <1>7 DEF NothingToParse, Return
  <2>2. QED
    BY <1>7, <2>1 DEF TypeOK, NothingToParse
<1>8. ASSUME TypeOK, ParseAnswer PROVE TypeOK'
  <2>1. Sequel(state) \in States
    BY <1>8, SequelType DEF ParseAnswer, Answerable
  <2>2. timer' \in Nat
    BY <1>8 DEF TypeOK, ParseAnswer
  <2>3. fresh' \in BOOLEAN /\ pendingResponse' \in BOOLEAN
    BY <1>8 DEF ParseAnswer, Parsing
  <2>4. QED
    BY <1>8, <2>1, <2>2, <2>3 DEF TypeOK, ParseAnswer
<1>9. ASSUME TypeOK, ParseError PROVE TypeOK'
  <2>1. state' \in States
    BY <1>9, SequelType DEF ParseError, Answerable
  <2>2. fresh' \in BOOLEAN /\ pendingResponse' \in BOOLEAN
    BY <1>9 DEF ParseError, Parsing
  <2>3. QED
    BY <1>9, <2>1, <2>2 DEF TypeOK, ParseError
<1>10. ASSUME TypeOK, ParseDownload PROVE TypeOK'
  <2>1. writes' \in Seq(Sendable)
    <3>1. writes' = Append(writes, "BODY") \/ writes' = writes
      BY <1>10 DEF ParseDownload, SendBody, DropBody
    <3>2. writes \in Seq(Sendable) /\ "BODY" \in Sendable
      BY <1>10 DEF TypeOK, Sendable
    <3>3. QED
      BY <3>1, <3>2
  <2>2. missed' \in BOOLEAN
    BY <1>10 DEF TypeOK, ParseDownload, HearsDownload, SendBody, DropBody, CountFault
  <2>3. pc' \in PCs /\ faults' \in Nat
    BY <1>10 DEF TypeOK, ParseDownload, HearsDownload, SendBody, DropBody, CountFault
  <2>4. fresh' \in BOOLEAN
    BY <1>10 DEF ParseDownload, HearsDownload, SendBody, DropBody, CountFault, Parsing
  <2>5. QED
    BY <1>10, <2>1, <2>2, <2>3, <2>4 DEF TypeOK, ParseDownload, HearsDownload, SendBody,
       DropBody, CountFault
<1>11. ASSUME TypeOK, ParseAtReady PROVE TypeOK'
  <2>1. fresh' \in BOOLEAN
    BY <1>11 DEF ParseAtReady, Parsing
  <2>2. QED
    BY <1>11, <2>1 DEF TypeOK, ParseAtReady
<1>12. ASSUME TypeOK, ParsePosition PROVE TypeOK'
  <2>1. missed' \in BOOLEAN /\ fresh' \in BOOLEAN
    BY <1>12 DEF ParsePosition, Parsing
  <2>2. gpsFrom' \in Kinds /\ state' \in States
    BY <1>12 DEF TypeOK, ParsePosition, Lines, States, CommandStates
  <2>3. QED
    BY <1>12, <2>1, <2>2 DEF TypeOK, ParsePosition
<1>13. ASSUME TypeOK, ParseOther PROVE TypeOK'
  <2>1. fresh' \in BOOLEAN
    BY <1>13 DEF ParseOther, Parsing
  <2>2. QED
    BY <1>13, <2>1 DEF TypeOK, ParseOther
<1>14. ASSUME TypeOK, BodyAccepted PROVE TypeOK'
  <2>1. ATwrite' \in BOOLEAN
    BY <1>14 DEF BodyAccepted
  <2>2. QED
    BY <1>14, <2>1 DEF TypeOK, BodyAccepted
<1>15. ASSUME TypeOK, ClearBuffer PROVE TypeOK'
  <2>1. missed' \in BOOLEAN /\ fresh' \in BOOLEAN
    BY <1>15 DEF ClearBuffer
  <2>2. buffRecv' \in Lines
    BY <1>15 DEF ClearBuffer, Empty, Line, Lines, Kinds
  <2>3. QED
    BY <1>15, <2>1, <2>2 DEF TypeOK, ClearBuffer
<1>16. ASSUME TypeOK, ParseDone PROVE TypeOK'
  <2>1. pendingATCommandParse' \in BOOLEAN /\ missed' \in BOOLEAN /\ postCmd' \in BOOLEAN
    BY <1>16 DEF ParseDone, Return
  <2>2. pc' \in PCs
    BY <1>16 DEF ParseDone, Return
  <2>3. QED
    BY <1>16, <2>1, <2>2 DEF TypeOK, ParseDone
<1>17. ASSUME TypeOK, ListenTimer PROVE TypeOK'
  BY <1>17 DEF TypeOK, ListenTimer, States, CommandStates
<1>18. ASSUME TypeOK, ComposePosition PROVE TypeOK'
  BY <1>18 DEF TypeOK, ComposePosition, Line, Lines, Kinds, Unseen
<1>19. ASSUME TypeOK, RestOver PROVE TypeOK'
  BY <1>19 DEF TypeOK, RestOver, States, CommandStates
<1>20. QED
  BY <1>1, <1>2, <1>3, <1>4, <1>5, <1>6, <1>7, <1>8, <1>9, <1>10, <1>11, <1>12,
     <1>13, <1>14, <1>15, <1>16, <1>17, <1>18, <1>19 DEF Foreground, Parse

\* The initial state is well typed.
LEMMA InitType == Init => TypeOK
<1>1. ASSUME Init PROVE buffRecv \in Lines /\ state \in States /\ gpsFrom \in Kinds \cup {"none"}
  BY <1>1 DEF Init, Empty, Line, Lines, Kinds, States
<1>2. ASSUME Init
      PROVE  /\ ATread \in BOOLEAN /\ ATwrite \in BOOLEAN
             /\ pendingATCommandParse \in BOOLEAN /\ pendingResponse \in BOOLEAN
             /\ postCmd \in BOOLEAN /\ driverReady \in BOOLEAN
             /\ booted \in BOOLEAN /\ posting \in BOOLEAN
             /\ fresh \in BOOLEAN /\ missed \in BOOLEAN
  BY <1>2 DEF Init
<1>3. ASSUME Init
      PROVE  /\ pc \in PCs /\ timer \in Nat /\ reads \in Nat /\ quiet \in Nat
             /\ faults \in Nat /\ urcs \in Nat
             /\ writes \in Seq(Sendable) /\ out \in Seq(Lines)
             /\ modem \in {"idle", "exec", "input", "stored"} /\ cmd \in Sendable \cup {"none"}
  BY <1>3 DEF Init, PCs
<1>4. QED
  BY <1>1, <1>2, <1>3 DEF TypeOK

\* The sequencer, its interrupts and the modem never leave the type of any
\* variable: in particular the timer interrupt never counts below zero.
THEOREM TypeCorrect == Spec => []TypeOK
<1>1. Init => TypeOK
  BY InitType
<1>2. TypeOK /\ [Next]_vars => TypeOK'
  BY ForegroundType, InterruptType, EnvironmentType DEF Next
<1>3. QED
  BY <1>1, <1>2, PTL DEF Spec

-----------------------------------------------------------------------------
(***************************************************************************)
(* The two pipes.                                                          *)
(***************************************************************************)

\* Why a pipe never gets a second transfer: while one is outstanding its flag
\* is down, or the statement that lowers it is the next one.
ReadPipe == reads = 0 \/ (reads = 1 /\ (~ATread \/ pc = "posted"))
WritePipe == writes = <<>> \/ (Len(writes) = 1 /\ (~ATwrite \/ pc \in {"wrote", "body"}))
PipesInv == ReadPipe /\ WritePipe

\* Every step keeps at most one read outstanding, with its flag accounted for.
LEMMA ReadPipeStep == TypeOK /\ ReadPipe /\ [Next]_vars => ReadPipe'
<1> SUFFICES ASSUME TypeOK, ReadPipe, [Next]_vars PROVE ReadPipe'
  OBVIOUS
<1> USE DEF ReadPipe, flagVars, usbVars, modemVars, boundVars, histVars
<1>1. reads \in Nat
  BY DEF TypeOK
<1>2. CASE Foreground
  <2>1. CASE PostRead
    BY <1>1, <2>1 DEF PostRead
  <2>2. CASE ReadAccepted
    BY <1>1, <2>2 DEF ReadAccepted
  <2>3. CASE ~PostRead /\ ~ReadAccepted
    <3>1. reads' = reads /\ ATread' = ATread /\ pc # "posted"
      BY <1>2, <2>3 DEF Foreground, Parse, Parsing, AttachHandler, WriteCommand, WriteRefused,
         WriteNotSent, CountFault, NothingToWrite, WriteAccepted, ReadRefused, ReadNotPosted,
         NothingToRead, NothingToParse, ParseAnswer, ParseError, ParseDownload, HearsDownload,
         SendBody, DropBody, ParseAtReady, ParsePosition, ParseOther, BodyAccepted,
         ClearBuffer, ParseDone, ListenTimer, ComposePosition, RestOver
    <3>2. QED
      BY <3>1
  <2>4. QED
    BY <2>1, <2>2, <2>3
<1>3. CASE Interrupt
  <2>1. CASE ReadComplete \/ ReadFailed
    <3>1. reads > 0 /\ reads' = reads - 1
      BY <2>1 DEF ReadComplete, Receive, ReadFailed
    <3>2. QED
      BY <1>1, <3>1
  <2>2. CASE TimerTick \/ WriteComplete \/ WriteFailed
    BY <2>2 DEF TimerTick, WriteComplete, Transmit, WriteFailed
  <2>3. QED
    BY <1>3, <2>1, <2>2 DEF Interrupt
<1>4. CASE Environment
  BY <1>4 DEF Environment, Replies, DriverUp, Boot, Answer, AskBody, BodyStored, PostDone, Unsolicited
<1>5. CASE UNCHANGED vars
  BY <1>5 DEF vars
<1>6. QED
  BY <1>2, <1>3, <1>4, <1>5 DEF Next

\* Every step keeps at most one write outstanding, with its flag accounted for.
LEMMA WritePipeStep == TypeOK /\ WritePipe /\ [Next]_vars => WritePipe'
<1> SUFFICES ASSUME TypeOK, WritePipe, [Next]_vars PROVE WritePipe'
  OBVIOUS
<1> USE DEF WritePipe, flagVars, usbVars, modemVars, boundVars, histVars
<1>1. writes \in Seq(Sendable)
  BY DEF TypeOK
<1>2. CASE Foreground
  <2>1. CASE WriteCommand
    <3>1. writes = <<>> /\ writes' = <<state>> /\ pc' = "wrote"
      BY <1>1, <2>1 DEF WriteCommand, MayWrite
    <3>2. QED
      BY <3>1
  <2>2. CASE WriteAccepted \/ BodyAccepted
    BY <2>2 DEF WriteAccepted, BodyAccepted
  <2>3. CASE ParseDownload
    <3>1. CASE writes' = Append(writes, "BODY") /\ ATwrite /\ pc' = "body"
      <4>1. writes = <<>>
        BY <2>3, <3>1 DEF ParseDownload, HearsDownload, SendBody, DropBody, CountFault, Parsing
      <4>2. QED
        BY <3>1, <4>1
    <3>2. CASE writes' = writes
      BY <2>3, <3>2 DEF ParseDownload, HearsDownload, SendBody, DropBody, CountFault, Parsing
    <3>3. QED
      BY <2>3, <3>1, <3>2 DEF ParseDownload, HearsDownload, SendBody, DropBody, CountFault
  <2>4. CASE ~(WriteCommand \/ WriteAccepted \/ BodyAccepted \/ ParseDownload)
    <3>1. writes' = writes /\ ATwrite' = ATwrite /\ pc \notin {"wrote", "body"}
      BY <1>2, <2>4 DEF Foreground, Parse, Parsing, AttachHandler, WriteRefused, WriteNotSent,
         CountFault, NothingToWrite, PostRead, ReadAccepted, ReadRefused, ReadNotPosted,
         NothingToRead, NothingToParse, ParseAnswer, ParseError, ParseAtReady, ParsePosition,
         ParseOther, ClearBuffer, ParseDone, ListenTimer, ComposePosition, RestOver
    <3>2. QED
      BY <3>1
  <2>5. QED
    BY <2>1, <2>2, <2>3, <2>4
<1>3. CASE Interrupt
  <2>1. CASE WriteComplete \/ WriteFailed
    <3>1. writes # <<>> /\ writes' = Tail(writes)
      BY <2>1 DEF WriteComplete, Transmit, WriteFailed
    <3>2. QED
      BY <1>1, <3>1
  <2>2. CASE TimerTick \/ ReadComplete \/ ReadFailed
    BY <2>2 DEF TimerTick, ReadComplete, Receive, ReadFailed
  <2>3. QED
    BY <1>3, <2>1, <2>2 DEF Interrupt
<1>4. CASE Environment
  BY <1>4 DEF Environment, Replies, DriverUp, Boot, Answer, AskBody, BodyStored, PostDone, Unsolicited
<1>5. CASE UNCHANGED vars
  BY <1>5 DEF vars
<1>6. QED
  BY <1>2, <1>3, <1>4, <1>5 DEF Next

\* Both pipe invariants hold in every reachable state.
LEMMA PipesCorrect == Spec => []PipesInv
<1>1. Init => PipesInv
  BY DEF Init, PipesInv, ReadPipe, WritePipe
<1>2. TypeOK /\ PipesInv /\ [Next]_vars => PipesInv'
  BY ReadPipeStep, WritePipeStep DEF PipesInv
<1>3. QED
  BY <1>1, <1>2, TypeCorrect, PTL DEF Spec

\* A pipe never has two transfers, however the completion interrupts fall
\* between the posting of a transfer and the lowering of its flag.
THEOREM PipesNeverQueue == Spec => []OneTransferPerPipe
<1>1. ASSUME ReadPipe PROVE reads <= 1
  BY <1>1 DEF ReadPipe
<1>2. ASSUME WritePipe PROVE Len(writes) <= 1
  <2>1. CASE writes = <<>>
    BY <2>1
  <2>2. CASE Len(writes) = 1
    BY <2>2
  <2>3. QED
    BY <1>2, <2>1, <2>2 DEF WritePipe
<1>3. PipesInv => OneTransferPerPipe
  BY <1>1, <1>2 DEF PipesInv, OneTransferPerPipe
<1>4. QED
  BY <1>3, PipesCorrect, PTL

\* A write flag that is down with nothing to raise it stays down: no step of
\* the sequencer, no interrupt and nothing the modem does sends a command again.
THEOREM LossNeverRepaired == Spec => LossIsForever
<1>1. [Next]_vars => [WriteFlagLost => WriteFlagLost' /\ writes' = <<>>]_vars
  <2> SUFFICES ASSUME Next, WriteFlagLost PROVE WriteFlagLost' /\ writes' = <<>>
    BY DEF vars
  <2> USE DEF WriteFlagLost, flagVars, usbVars, modemVars, boundVars, histVars
  <2>1. CASE Foreground
    <3>1. ~WriteCommand
      BY DEF WriteCommand, MayWrite
    <3>2. writes' = writes /\ ATwrite' = ATwrite /\ pc' \notin {"wrote", "body"}
      BY <2>1, <3>1 DEF Foreground, Parse, Parsing, AttachHandler, WriteRefused, WriteNotSent,
         CountFault, Return, NothingToWrite, WriteAccepted, PostRead, ReadAccepted,
         ReadRefused, ReadNotPosted, NothingToRead, NothingToParse, ParseAnswer, ParseError,
         ParseDownload, HearsDownload, SendBody, DropBody, ParseAtReady, ParsePosition,
         ParseOther, BodyAccepted, ClearBuffer, ParseDone, ListenTimer, ComposePosition,
         RestOver
    <3>3. QED
      BY <3>2
  <2>2. CASE Interrupt
    <3>1. ~WriteComplete /\ ~WriteFailed
      BY DEF WriteComplete, Transmit, WriteFailed
    <3>2. writes' = writes /\ ATwrite' = ATwrite /\ pc' = pc
      BY <2>2, <3>1 DEF Interrupt, TimerTick, ReadComplete, Receive, ReadFailed
    <3>3. QED
      BY <3>2
  <2>3. CASE Environment
    BY <2>3 DEF Environment, Replies, DriverUp, Boot, Answer, AskBody, BodyStored, PostDone, Unsolicited
  <2>4. QED
    BY <2>1, <2>2, <2>3 DEF Next
<1>2. QED
  BY <1>1, PTL DEF Spec, LossIsForever

-----------------------------------------------------------------------------
(***************************************************************************)
(* The command under way.                                                  *)
(***************************************************************************)

\* The DOWNLOAD prompts on their way to the parser.
Prompts == {i \in DOMAIN out : out[i].kind = "DOWNLOAD"}
UnparsedPrompt == fresh /\ buffRecv.kind = "DOWNLOAD"

\* Nothing the modem said about a command is left to be parsed.
NoFinal == Unread = {} /\ ~UnparsedFinal
NoPrompt == Prompts = {} /\ ~UnparsedPrompt

\* A command is at one place at a time: in the write pipe, in the modem, on
\* its way back or in the buffer; and from the moment it has left the pipe
\* until its answer is parsed pendingResponse keeps the next one from being sent.
SessionInv ==
  /\ writes # <<>> =>
       /\ NoFinal /\ NoPrompt
       /\ \/ Head(writes) = state /\ modem = "idle"
          \/ Head(writes) = "BODY" /\ modem = "input"
  /\ modem # "idle" => cmd = state /\ pendingResponse /\ NoFinal
  /\ modem \in {"input", "stored"} => cmd = "HTTP_POST_DATA"
  /\ ~NoFinal => pendingResponse
  /\ \A i \in Unread : Unread = {i} /\ out[i].of = state /\ ~UnparsedFinal
  /\ UnparsedFinal => buffRecv.of = state
  /\ ~NoPrompt => modem = "input"
  /\ \A i \in Prompts : Prompts = {i} /\ ~UnparsedPrompt

\* And the comparisons never see a content they have already seen.
BufferInv == fresh \/ buffRecv = Empty \/ pc \in {"clear", "body"}

-----------------------------------------------------------------------------
(***************************************************************************)
(* The silence after *ATREADY.                                             *)
(***************************************************************************)

\* While the timer runs it and the silence so far add up to the whole period.
ListenInv ==
  /\ state = "WAITING_DRIVER_READY" => timer = 0
  /\ state = "NOT_READY" /\ timer > 0 => booted /\ timer + quiet = ListenMs
  /\ state \notin {"WAITING_DRIVER_READY", "NOT_READY"} => booted /\ quiet = ListenMs - 1
  /\ pc = "timer" => state = "NOT_READY"
  /\ buffRecv.kind = "ATREADY" => booted
  /\ \A i \in DOMAIN out : out[i].kind = "ATREADY" => booted

\* The chain never leads back to the states before the first command.
LEMMA SequelLeaves ==
  ASSUME NEW s \in AnswerableStates
  PROVE  /\ s \notin {"WAITING_DRIVER_READY", "NOT_READY"}
         /\ Sequel(s) \notin {"WAITING_DRIVER_READY", "NOT_READY"}
         /\ SequelOfError(s) \notin {"WAITING_DRIVER_READY", "NOT_READY"}
BY DEF AnswerableStates, CommandStates, Sequel, SequelOfError

\* A transfer leaves the first of its lines in the buffer, or a line no state
\* looks for.
LEMMA ContentsLine ==
  ASSUME NEW q \in Seq(Lines), q # <<>>, NEW l \in Contents(q)
  PROVE  l = Head(q) \/ l.kind \in {"OTHER", "GARBLED"}
<1>1. Merged(q) = Head(q) \/ Merged(q).kind = "OTHER"
  BY DEF Merged, Line
<1>2. \A x : Overlaid(x).kind \in {"OTHER", "GARBLED"}
  BY DEF Overlaid, Line
<1>3. QED
  BY <1>1, <1>2 DEF Contents

\* What the fields of a line are.
LEMMA LineFields ==
  ASSUME NEW k \in Kinds, NEW c \in Sendable \cup {"none"}
  PROVE  Line(k, c) \in Lines /\ Line(k, c).kind = k /\ Line(k, c).of = c
BY DEF Line, Lines

\* A modem that says one line leaves the others where they were.
LEMMA SaysOne ==
  ASSUME TypeOK, NEW k \in Kinds, NEW c \in Sendable \cup {"none"}, Says(<<Line(k, c)>>)
  PROVE  /\ DOMAIN out' = 1 .. Len(out) + 1
         /\ \A i \in DOMAIN out : out'[i] = out[i]
         /\ out'[Len(out) + 1].kind = k /\ out'[Len(out) + 1].of = c
<1> DEFINE l == Line(k, c)
<1>1. l \in Lines /\ l.kind = k /\ l.of = c
  BY LineFields
<1>2. out' = out \o <<l>> /\ out \in Seq(Lines)
  BY DEF Says, TypeOK
<1> HIDE DEF l
<1>3. QED
  BY <1>1, <1>2

\* A modem that has executed a command says the answer last, after at most one
\* line of information.
LEMMA SaysAnswer ==
  ASSUME TypeOK, Answer
  PROVE  \E k \in {Awaited(cmd), "ERROR"}, n \in {1, 2} :
           /\ DOMAIN out' = 1 .. Len(out) + n
           /\ \A i \in DOMAIN out : out'[i] = out[i]
           /\ out'[Len(out) + n].kind = k /\ out'[Len(out) + n].of = cmd
           /\ n = 2 => out'[Len(out) + 1].kind = "OTHER"
<1>1. PICK k \in {Awaited(cmd), "ERROR"}, info \in {<<>>, <<Line("OTHER", "none")>>} :
        out' = out \o Append(info, Line(k, cmd))
  BY DEF Answer, Says
<1>2. Line(k, cmd) \in Lines /\ Line(k, cmd).kind = k /\ Line(k, cmd).of = cmd
  <2>1. k \in Kinds
    BY DEF Kinds, Awaited
  <2>2. QED
    BY <2>1, LineFields DEF TypeOK
<1>3. Line("OTHER", "none") \in Lines /\ Line("OTHER", "none").kind = "OTHER"
  BY LineFields DEF Kinds
<1> DEFINE answer == Line(k, cmd)
           note == Line("OTHER", "none")
<1>4. answer \in Lines /\ note \in Lines /\ note.kind = "OTHER" /\ answer.kind = k /\ answer.of = cmd
  BY <1>2, <1>3
<1>5. out \in Seq(Lines) /\ out' = out \o Append(info, answer) /\ info \in {<<>>, <<note>>}
  BY <1>1 DEF TypeOK
<1> HIDE DEF answer, note
<1>6. CASE info = <<>>
  <2>1. out' = out \o <<answer>>
    BY <1>5, <1>6
  <2>2. /\ DOMAIN out' = 1 .. Len(out) + 1
        /\ \A i \in DOMAIN out : out'[i] = out[i]
        /\ out'[Len(out) + 1] = answer
    BY <1>4, <1>5, <2>1
  <2>3. QED
    BY <1>4, <2>2
<1>7. CASE info = <<note>>
  <2>1. out' = out \o <<note, answer>>
    BY <1>5, <1>7
  <2>2. /\ DOMAIN out' = 1 .. Len(out) + 2
        /\ \A i \in DOMAIN out : out'[i] = out[i]
        /\ out'[Len(out) + 1] = note /\ out'[Len(out) + 2] = answer
    BY <1>4, <1>5, <2>1
  <2>3. QED
    BY <1>4, <2>2
<1>8. QED
  BY <1>5, <1>6, <1>7

\* A completed read leaves the oldest unread line in the buffer, or a line that
\* no state looks for.
LEMMA ReadLine ==
  ASSUME TypeOK, ReadComplete
  PROVE  buffRecv' = out[1] \/ buffRecv'.kind \in {"OTHER", "GARBLED"}
<1>1. out \in Seq(Lines) /\ out # <<>> /\ Head(out) = out[1] /\ out[1] \in Lines
  BY DEF TypeOK, ReadComplete, Receive
<1>2. PICK taken \in {<<Head(out)>>, out} : buffRecv' \in Contents(taken)
  BY DEF ReadComplete, Receive
<1>3. taken \in Seq(Lines) /\ taken # <<>> /\ Head(taken) = out[1]
  <2>1. CASE taken = out
    BY <1>1, <2>1
  <2>2. CASE taken = <<Head(out)>>
    BY <1>1, <2>2
  <2>3. QED
    BY <1>2, <2>1, <2>2
<1>4. QED
  BY <1>2, <1>3, ContentsLine

\* Every step keeps the account of the silence after *ATREADY.
LEMMA ListenStep == TypeOK /\ ListenInv /\ [Next]_vars => ListenInv'
<1> SUFFICES ASSUME TypeOK, ListenInv, [Next]_vars PROVE ListenInv'
  OBVIOUS
<1> USE DEF ListenInv, flagVars, usbVars, modemVars, boundVars, histVars
<1>1. timer \in Nat /\ quiet \in Nat /\ out \in Seq(Lines)
  BY DEF TypeOK
<1>2. CASE Foreground
  <2>1. CASE AttachHandler
    BY <2>1 DEF AttachHandler, Empty, Line
  <2>2. CASE WriteCommand \/ WriteRefused \/ NothingToWrite \/ WriteAccepted \/ PostRead
             \/ ReadRefused \/ NothingToRead \/ ReadAccepted
    <3>1. /\ UNCHANGED <<state, timer, quiet, booted, buffRecv, out>>
          /\ pc' # "timer"
      BY <2>2 DEF WriteCommand, WriteRefused, WriteNotSent, CountFault, NothingToWrite,
         WriteAccepted, PostRead, ReadRefused, ReadNotPosted, NothingToRead, ReadAccepted
    <3>2. QED
      BY <3>1
  <2>3. CASE ParseDownload \/ ParseOther \/ BodyAccepted
    <3>1. /\ UNCHANGED <<state, timer, quiet, booted, buffRecv, out>>
          /\ pc' # "timer"
      BY <2>3 DEF ParseDownload, HearsDownload, SendBody, DropBody, CountFault, ParseOther,
         BodyAccepted, Parsing
    <3>2. QED
      BY <3>1
  <2>4. CASE NothingToParse \/ ParseDone
    <3>1. UNCHANGED <<state, timer, quiet, booted, buffRecv, out>>
      BY <2>4 DEF NothingToParse, ParseDone
    <3>2. pc' = "timer" => state = "NOT_READY"
      BY <2>4 DEF NothingToParse, ParseDone, Return
    <3>3. QED
      BY <3>1, <3>2
  <2>5. CASE ParseAnswer \/ ParseError
    <3>1. state \in AnswerableStates /\ state' \in {Sequel(state), SequelOfError(state)}
      BY <2>5 DEF ParseAnswer, ParseError, Answerable
    <3>2. UNCHANGED <<quiet, booted, buffRecv, out>> /\ pc' = "clear"
      BY <2>5 DEF ParseAnswer, ParseError
    <3>3. {state, state'} \cap {"WAITING_DRIVER_READY", "NOT_READY"} = {}
      BY <3>1, SequelLeaves
    <3>4. QED
      BY <3>2, <3>3
  <2>6. CASE ParseAtReady
    <3>1. booted
      BY <2>6 DEF ParseAtReady, Hears
    <3>2. /\ state = "NOT_READY" /\ timer' = ListenMs /\ quiet' = 0 /\ pc' = "clear"
          /\ UNCHANGED <<state, booted, buffRecv, out>>
      BY <2>6 DEF ParseAtReady
    <3>3. QED
      BY <3>1, <3>2, TimesAssumption
  <2>7. CASE ParsePosition \/ RestOver \/ ComposePosition
    <3>1. /\ UNCHANGED <<timer, quiet, booted, out>> /\ pc' # "timer"
          /\ {state, state'} \cap {"WAITING_DRIVER_READY", "NOT_READY"} = {}
          /\ buffRecv' = buffRecv \/ buffRecv'.kind = "GPSINFO"
      BY <2>7 DEF ParsePosition, RestOver, ComposePosition, Line
    <3>2. QED
      BY <3>1
  <2>8. CASE ClearBuffer
    <3>1. /\ UNCHANGED <<state, timer, quiet, booted, out>> /\ pc' # "timer"
          /\ buffRecv'.kind = "EMPTY"
      BY <2>8 DEF ClearBuffer, Empty, Line
    <3>2. QED
      BY <3>1
  <2>9. CASE ListenTimer
    <3>1. /\ pc = "timer" /\ state = "NOT_READY" /\ pc' = "write"
          /\ state' = IF timer = 1 THEN "DISABLING_ECO" ELSE state
          /\ UNCHANGED <<timer, quiet, booted, buffRecv, out>>
      BY <2>9 DEF ListenTimer
    <3>2. CASE timer = 1
      <4>1. booted /\ quiet = ListenMs - 1
        BY <1>1, <3>1, <3>2, TimesAssumption
      <4>2. QED
        BY <3>1, <3>2, <4>1
    <3>3. CASE timer # 1
      BY <3>1, <3>3
    <3>4. QED
      BY <3>2, <3>3
  <2>10. QED
    BY <1>2, <2>1, <2>2, <2>3, <2>4, <2>5, <2>6, <2>7, <2>8, <2>9 DEF Foreground, Parse
<1>3. CASE Interrupt
  <2>1. CASE TimerTick
    <3>1. /\ state # "WAITING_DRIVER_READY" /\ timer > 1 /\ timer' = timer - 1
          /\ quiet' = IF quiet < ListenMs - 1 THEN quiet + 1 ELSE quiet
          /\ UNCHANGED <<state, pc, booted, buffRecv, out>>
      BY <2>1 DEF TimerTick
    <3>2. CASE state = "NOT_READY"
      <4>1. booted /\ timer + quiet = ListenMs
        BY <1>1, <3>1, <3>2
      <4>2. timer' + quiet' = ListenMs
        BY <1>1, <3>1, <4>1, TimesAssumption
      <4>3. QED
        BY <3>1, <3>2, <4>1, <4>2
    <3>3. CASE state # "NOT_READY"
      BY <3>1, <3>3, TimesAssumption
    <3>4. QED
      BY <3>2, <3>3
  <2>2. CASE ReadComplete
    <3>1. /\ out # <<>> /\ out' \in {<<>>, Tail(out)}
          /\ UNCHANGED <<state, pc, timer, quiet, booted>>
      BY <2>2 DEF ReadComplete, Receive
    <3>2. out # <<>> /\ Head(out) \in Lines /\ out[1] = Head(out)
      BY <1>1, <2>2 DEF ReadComplete, Receive
    <3>3. buffRecv' = Head(out) \/ buffRecv'.kind \in {"OTHER", "GARBLED"}
      BY <2>2, <3>2, ReadLine
    <3>4. buffRecv'.kind = "ATREADY" => booted
      BY <3>2, <3>3
    <3>5. \A i \in DOMAIN out' : \E j \in DOMAIN out : out'[i] = out[j]
      BY <1>1, <3>1, <3>2
    <3>6. QED
      BY <3>1, <3>4, <3>5
  <2>3. CASE ReadFailed \/ WriteComplete \/ WriteFailed
    BY <2>3 DEF ReadFailed, WriteComplete, Transmit, WriteFailed
  <2>4. QED
    BY <1>3, <2>1, <2>2, <2>3 DEF Interrupt
<1>4. CASE Environment
  <2>1. UNCHANGED <<state, pc, timer, quiet, buffRecv>>
    BY <1>4 DEF Environment, Replies, DriverUp, Boot, Answer, AskBody, BodyStored, PostDone,
       Unsolicited
  <2>2. booted => booted'
    BY <1>4 DEF Environment, Replies, DriverUp, Boot, Answer, AskBody, BodyStored, PostDone,
       Unsolicited
  <2>3. booted' \/ \A i \in DOMAIN out' : out'[i].kind = "ATREADY" => booted
    <3>1. CASE Boot
      BY <3>1 DEF Boot
    <3>2. CASE DriverUp
      BY <3>2 DEF DriverUp
    <3>3. CASE AskBody \/ BodyStored \/ PostDone \/ Unsolicited
      <4>1. \E k \in Kinds \ {"ATREADY"}, c \in Sendable \cup {"none"} : Says(<<Line(k, c)>>)
        BY <3>3 DEF AskBody, BodyStored, PostDone, Unsolicited, Kinds, TypeOK
      <4>2. QED
        BY <1>1, <4>1, SaysOne
    <3>4. CASE Answer
      <4>1. \A k \in {Awaited(cmd), "ERROR"} : k # "ATREADY"
        BY DEF Awaited
      <4>2. QED
        BY <1>1, <3>4, <4>1, SaysAnswer
    <3>5. QED
      BY <1>4, <3>1, <3>2, <3>3, <3>4 DEF Environment, Replies
  <2>4. QED
    BY <2>1, <2>2, <2>3
<1>5. CASE UNCHANGED vars
  BY <1>5 DEF vars
<1>6. QED
  BY <1>2, <1>3, <1>4, <1>5 DEF Next

\* Nothing is sent before *ATREADY and the whole of the silence after it.
THEOREM SilenceKept == Spec => []SilentUntilReady
<1>1. Init => ListenInv
  BY DEF Init, ListenInv, Empty, Line
<1>2. ListenInv => SilentUntilReady
  BY DEF ListenInv, SilentUntilReady
<1>3. QED
  BY <1>1, <1>2, ListenStep, TypeCorrect, PTL DEF Spec

-----------------------------------------------------------------------------
(***************************************************************************)
(* Every step keeps the command at one place.                              *)
(***************************************************************************)

\* What the comparisons look at has not been looked at before.
LEMMA BufferStep == TypeOK /\ BufferInv /\ [Next]_vars => BufferInv'
<1> SUFFICES ASSUME BufferInv, [Next]_vars PROVE BufferInv'
  OBVIOUS
<1> USE DEF BufferInv, flagVars, usbVars, modemVars, boundVars, histVars
<1>1. CASE Foreground
  <2>1. CASE AttachHandler \/ ComposePosition
    BY <2>1 DEF AttachHandler, ComposePosition
  <2>2. CASE WriteCommand \/ WriteRefused \/ NothingToWrite \/ WriteAccepted \/ PostRead
             \/ ReadRefused \/ NothingToRead \/ ReadAccepted \/ NothingToParse \/ ParseDone
             \/ ListenTimer \/ RestOver
    <3>1. pc \notin {"clear", "body"} /\ UNCHANGED <<fresh, buffRecv>>
      BY <2>2 DEF WriteCommand, WriteRefused, WriteNotSent, CountFault, NothingToWrite,
         WriteAccepted, PostRead, ReadRefused, ReadNotPosted, NothingToRead, ReadAccepted,
         NothingToParse, ParseDone, ListenTimer, RestOver
    <3>2. QED
      BY <3>1
  <2>3. CASE Parse \/ BodyAccepted
    <3>1. pc' \in {"clear", "body"}
      BY <2>3 DEF Parse, Parsing, ParseAnswer, ParseError, ParseDownload, HearsDownload,
         SendBody, DropBody, CountFault, ParseAtReady, ParsePosition, ParseOther, BodyAccepted
    <3>2. QED
      BY <3>1
  <2>4. CASE ClearBuffer
    BY <2>4 DEF ClearBuffer
  <2>5. QED
    BY <1>1, <2>1, <2>2, <2>3, <2>4 DEF Foreground
<1>2. CASE Interrupt
  <2>1. CASE ReadComplete
    BY <2>1 DEF ReadComplete, Receive
  <2>2. CASE TimerTick \/ ReadFailed \/ WriteComplete \/ WriteFailed
    BY <2>2 DEF TimerTick, ReadFailed, WriteComplete, Transmit, WriteFailed
  <2>3. QED
    BY <1>2, <2>1, <2>2 DEF Interrupt
<1>3. CASE Environment
  BY <1>3 DEF Environment, Replies, DriverUp, Boot, Answer, AskBody, BodyStored, PostDone, Unsolicited
<1>4. CASE UNCHANGED vars
  BY <1>4 DEF vars
<1>5. QED
  BY <1>1, <1>2, <1>3, <1>4 DEF Next

\* With no command anywhere the invariant holds whatever the state.
LEMMA IdleSession ==
  writes = <<>> /\ modem = "idle" /\ NoFinal /\ NoPrompt => SessionInv
BY DEF SessionInv, NoFinal, NoPrompt

\* A state that sends nothing has no command anywhere.
LEMMA QuietState ==
  ASSUME TypeOK, SessionInv, state \notin CommandStates
  PROVE  writes = <<>> /\ modem = "idle" /\ NoFinal /\ NoPrompt
<1>1. state \notin Sendable \cup {"none"}
  BY DEF TypeOK, Sendable, States, ListenStates
<1>2. modem = "idle"
  BY <1>1 DEF TypeOK, SessionInv
<1>3. writes = <<>>
  <2>1. writes # <<>> => Head(writes) \in Sendable
    BY DEF TypeOK
  <2>2. writes # <<>> => Head(writes) = state \/ modem = "input"
    BY DEF SessionInv
  <2>3. Head(writes) = state => state \in Sendable \/ writes = <<>>
    BY <2>1
  <2>4. QED
    BY <1>1, <1>2, <2>2, <2>3
<1>4. NoFinal
  <2>1. \A i \in Unread : out[i] \in Lines
    BY DEF TypeOK, Unread
  <2>2. buffRecv.of \in Sendable \cup {"none"}
    BY DEF TypeOK, Lines
  <2>3. \A i \in Unread : out[i].of \in Sendable \cup {"none"}
    BY <2>1 DEF Lines
  <2>4. QED
    BY <1>1, <2>2, <2>3 DEF SessionInv, NoFinal
<1>5. NoPrompt
  BY <1>2 DEF SessionInv
<1>6. QED
  BY <1>2, <1>3, <1>4, <1>5

\* Forgetting what is in the buffer keeps the invariant.
LEMMA ForgetBuffer ==
  ASSUME SessionInv, UNCHANGED <<state, writes, modem, cmd, pendingResponse, out>>,
         ~UnparsedFinal', ~UnparsedPrompt'
  PROVE  SessionInv'
<1>1. Unread' = Unread /\ Prompts' = Prompts
  BY DEF Unread, Prompts
<1>2. QED
  BY <1>1 DEF SessionInv, NoFinal, NoPrompt

\* Changing nothing of the command keeps it too.
LEMMA SameSession ==
  ASSUME SessionInv,
         UNCHANGED <<state, writes, modem, cmd, pendingResponse, out, fresh, buffRecv>>
  PROVE  SessionInv'
<1>1. /\ Unread' = Unread /\ Prompts' = Prompts
      /\ UnparsedFinal' = UnparsedFinal /\ UnparsedPrompt' = UnparsedPrompt
  BY DEF Unread, Prompts, UnparsedFinal, UnparsedPrompt
<1>2. QED
  BY <1>1 DEF SessionInv, NoFinal, NoPrompt

\* The statements of simcom_tasks keep the one-command invariant.
LEMMA ForegroundSession ==
  ASSUME TypeOK, WritePipe, ListenInv, BufferInv, SessionInv, Foreground
  PROVE  SessionInv'
<1> USE DEF flagVars, usbVars, modemVars, boundVars, histVars
<1>1. CASE WriteRefused \/ NothingToWrite \/ WriteAccepted \/ PostRead \/ ReadRefused
           \/ NothingToRead \/ ReadAccepted \/ NothingToParse \/ BodyAccepted \/ ParseDone
  <2>1. UNCHANGED <<state, writes, modem, cmd, pendingResponse, out, fresh, buffRecv>>
    BY <1>1 DEF WriteRefused, WriteNotSent, CountFault, NothingToWrite, WriteAccepted,
       PostRead, ReadRefused, ReadNotPosted, NothingToRead, ReadAccepted, NothingToParse,
       BodyAccepted, ParseDone
  <2>2. QED
    BY <2>1, SameSession
<1>2. CASE ParseAtReady \/ ParseOther \/ ClearBuffer
  <2>1. UNCHANGED <<state, writes, modem, cmd, pendingResponse, out>> /\ fresh' = FALSE
    BY <1>2 DEF ParseAtReady, ParseOther, ClearBuffer, Parsing
  <2>2. QED
    BY <2>1, ForgetBuffer DEF UnparsedFinal, UnparsedPrompt
<1>3. CASE ComposePosition
  <2>1. UNCHANGED <<state, writes, modem, cmd, pendingResponse, out>> /\ buffRecv'.kind = "GPSINFO"
    BY <1>3 DEF ComposePosition, Line
  <2>2. QED
    BY <2>1, ForgetBuffer DEF UnparsedFinal, UnparsedPrompt, Final
<1>4. CASE AttachHandler \/ ParsePosition \/ ListenTimer \/ RestOver
  <2>1. state \notin CommandStates
    <3>1. state \in {"WAITING_DRIVER_READY", "NOT_READY", "REQUEST_GPS_INFO", "READY"}
      BY <1>4 DEF AttachHandler, ParsePosition, RestOver, ListenTimer, ListenInv
    <3>2. QED
      BY <3>1 DEF CommandStates
  <2>2. UNCHANGED <<writes, modem, cmd, pendingResponse, out>>
    BY <1>4 DEF AttachHandler, ParsePosition, RestOver, ListenTimer
  <2>3. (fresh' = fresh /\ buffRecv' = buffRecv) \/ fresh' = FALSE \/ buffRecv' = Empty
    BY <1>4 DEF AttachHandler, ParsePosition, RestOver, ListenTimer, Parsing
  <2>4. \/ UnparsedFinal' = UnparsedFinal /\ UnparsedPrompt' = UnparsedPrompt
        \/ ~UnparsedFinal' /\ ~UnparsedPrompt'
    BY <2>3 DEF UnparsedFinal, UnparsedPrompt, Final, Empty, Line
  <2>5. Unread' = Unread /\ Prompts' = Prompts
    BY <2>2 DEF Unread, Prompts
  <2>6. writes' = <<>> /\ modem' = "idle" /\ NoFinal' /\ NoPrompt'
    BY <2>1, <2>2, <2>4, <2>5, QuietState DEF NoFinal, NoPrompt
  <2>7. QED
    BY <2>6 DEF SessionInv, NoFinal, NoPrompt
<1>5. CASE ParseAnswer \/ ParseError
  <2>1. /\ pc = "parse" /\ state \in AnswerableStates /\ fresh' = FALSE
        /\ WellFormed(buffRecv) /\ buffRecv.kind \in {Awaited(state), "ERROR"}
        /\ UNCHANGED <<writes, modem, cmd, out>>
    BY <1>5 DEF ParseAnswer, ParseError, Parsing, Answerable, Hears
  <2>2. writes = <<>> /\ modem = "idle" /\ Unread = {} /\ Prompts = {}
    <3>1. CASE state \in CommandStates
      <4>1. fresh
        BY <2>1 DEF BufferInv, WellFormed, Empty, Line
      <4>2. Final(buffRecv)
        BY <2>1, <3>1 DEF Final, Awaited, CommandStates
      <4>3. UnparsedFinal
        BY <4>1, <4>2 DEF UnparsedFinal
      <4>4. QED
        BY <4>3 DEF SessionInv, NoFinal, NoPrompt, TypeOK
    <3>2. CASE state \notin CommandStates
      BY <3>2, QuietState DEF NoFinal, NoPrompt
    <3>3. QED
      BY <3>1, <3>2
  <2>3. writes' = <<>> /\ modem' = "idle" /\ Unread' = {} /\ Prompts' = {}
    BY <2>1, <2>2 DEF Unread, Prompts
  <2>4. ~UnparsedFinal' /\ ~UnparsedPrompt'
    BY <2>1 DEF UnparsedFinal, UnparsedPrompt
  <2>5. QED
    BY <2>3, <2>4 DEF SessionInv, NoFinal, NoPrompt
<1>6. CASE WriteCommand
  <2>1. /\ pc = "write" /\ ATwrite /\ ~pendingResponse
        /\ writes' = Append(writes, state)
        /\ UNCHANGED <<state, modem, cmd, pendingResponse, out, fresh, buffRecv>>
    BY <1>6 DEF WriteCommand, MayWrite
  <2>2. writes = <<>>
    BY <2>1 DEF WritePipe
  <2>3. NoFinal /\ modem = "idle" /\ NoPrompt
    BY <2>1 DEF SessionInv
  <2>4. writes' # <<>> /\ Head(writes') = state'
    BY <2>1, <2>2
  <2>5. NoFinal' /\ NoPrompt' /\ modem' = "idle"
    BY <2>1, <2>3 DEF NoFinal, NoPrompt, Unread, Prompts, UnparsedFinal, UnparsedPrompt
  <2>6. QED
    BY <2>4, <2>5 DEF SessionInv, NoFinal, NoPrompt
<1>7. CASE ParseDownload
  <2>1. /\ pc = "parse" /\ fresh' = FALSE /\ Hears("DOWNLOAD")
        /\ writes' = writes \/ writes' = Append(writes, "BODY")
        /\ UNCHANGED <<state, modem, cmd, pendingResponse, out>>
    BY <1>7 DEF ParseDownload, HearsDownload, SendBody, DropBody, CountFault, Parsing
  <2>2. ~UnparsedFinal' /\ ~UnparsedPrompt'
    BY <2>1 DEF UnparsedFinal, UnparsedPrompt
  <2>3. CASE writes' = writes
    BY <2>1, <2>2, <2>3, ForgetBuffer
  <2>4. CASE writes' = Append(writes, "BODY")
    <3>1. UnparsedPrompt
      BY <2>1 DEF UnparsedPrompt, BufferInv, Hears, WellFormed, Empty, Line
    <3>2. writes = <<>> /\ modem = "input" /\ Prompts = {}
      BY <3>1 DEF SessionInv, NoPrompt
    <3>3. Unread = {} /\ pendingResponse /\ cmd = state /\ cmd = "HTTP_POST_DATA"
      BY <3>2 DEF SessionInv, NoFinal
    <3>4. writes' = <<"BODY">> /\ modem' = "input" /\ Unread' = {} /\ Prompts' = {}
      BY <2>1, <2>4, <3>2, <3>3 DEF Unread, Prompts
    <3>5. writes' # <<>> /\ Head(writes') = "BODY"
      BY <3>4
    <3>6. QED
      BY <2>1, <2>2, <3>3, <3>4, <3>5 DEF SessionInv, NoFinal, NoPrompt
  <2>5. QED
    BY <2>1, <2>3, <2>4
<1>8. QED
  BY <1>1, <1>2, <1>3, <1>4, <1>5, <1>6, <1>7 DEF Foreground, Parse

\* A read leaves no answer behind where there was none.
LEMMA ReadFinals ==
  ASSUME TypeOK, ReadComplete, NoFinal
  PROVE  NoFinal'
<1>1. /\ out # <<>> /\ out' \in {<<>>, Tail(out)}
  BY DEF ReadComplete, Receive
<1>2. out \in Seq(Lines) /\ 1 \in DOMAIN out
  BY <1>1 DEF TypeOK
<1>3. \A i \in DOMAIN out' : i + 1 \in DOMAIN out /\ out'[i] = out[i + 1]
  BY <1>1, <1>2
<1>4. Unread' = {}
  BY <1>3 DEF NoFinal, Unread
<1>5. ~UnparsedFinal'
  BY <1>2, ReadLine DEF NoFinal, Unread, UnparsedFinal, Final
<1>6. QED
  BY <1>4, <1>5 DEF NoFinal

\* The event handler and the timer keep the one-command invariant.
LEMMA InterruptSession ==
  ASSUME TypeOK, WritePipe, SessionInv, Interrupt
  PROVE  SessionInv'
<1> USE DEF flagVars, usbVars, modemVars, boundVars, histVars
<1>1. CASE TimerTick \/ ReadFailed
  <2>1. UNCHANGED <<state, writes, modem, cmd, pendingResponse, out, fresh, buffRecv>>
    BY <1>1 DEF TimerTick, ReadFailed
  <2>2. QED
    BY <2>1, SameSession
<1>2. CASE ReadComplete
  <2>1. /\ out # <<>> /\ out' \in {<<>>, Tail(out)} /\ fresh' = TRUE
        /\ UNCHANGED <<state, writes, modem, cmd, pendingResponse>>
    BY <1>2 DEF ReadComplete, Receive
  <2>2. out \in Seq(Lines) /\ Head(out) = out[1] /\ 1 \in DOMAIN out
    BY <2>1 DEF TypeOK
  <2>3. buffRecv' = out[1] \/ buffRecv'.kind \in {"OTHER", "GARBLED"}
    BY <1>2, <2>1, <2>2, ReadLine
  <2>4. \A i \in DOMAIN out' : i + 1 \in DOMAIN out /\ i + 1 # 1 /\ out'[i] = out[i + 1]
    BY <2>1, <2>2
  <2>5. \A i \in Unread' : i + 1 \in Unread /\ i + 1 # 1
    BY <2>4 DEF Unread
  <2>6. \A i \in Prompts' : i + 1 \in Prompts /\ i + 1 # 1
    BY <2>4 DEF Prompts
  <2>7. UnparsedFinal' => 1 \in Unread /\ buffRecv' = out[1]
    BY <2>2, <2>3 DEF UnparsedFinal, Unread, Final
  <2>8. UnparsedPrompt' => 1 \in Prompts
    BY <2>2, <2>3 DEF UnparsedPrompt, Prompts
  <2>9. (NoFinal => NoFinal') /\ (NoPrompt => NoPrompt')
    BY <2>5, <2>6, <2>7, <2>8 DEF NoFinal, NoPrompt
  <2>10. \A i \in Unread' : Unread' = {i} /\ out'[i].of = state' /\ ~UnparsedFinal'
    <3> SUFFICES ASSUME NEW i \in Unread'
                    PROVE  Unread' = {i} /\ out'[i].of = state' /\ ~UnparsedFinal'
      OBVIOUS
    <3>1. i + 1 \in Unread /\ i + 1 # 1 /\ i \in DOMAIN out' /\ i \in Nat
      BY <2>1, <2>2, <2>5 DEF Unread
    <3>2. Unread = {i + 1} /\ out[i + 1].of = state
      BY <3>1 DEF SessionInv
    <3>3. \A j \in Unread' : j \in Nat /\ j + 1 \in {i + 1}
      BY <2>1, <2>2, <2>5, <3>2 DEF Unread
    <3>4. Unread' = {i}
      BY <3>1, <3>3
    <3>5. QED
      BY <2>1, <2>4, <2>7, <3>1, <3>2, <3>4
  <2>11. UnparsedFinal' => buffRecv'.of = state'
    BY <2>1, <2>7 DEF SessionInv
  <2>12. \A i \in Prompts' : Prompts' = {i} /\ ~UnparsedPrompt'
    <3> SUFFICES ASSUME NEW i \in Prompts' PROVE Prompts' = {i} /\ ~UnparsedPrompt'
      OBVIOUS
    <3>1. i + 1 \in Prompts /\ i + 1 # 1 /\ i \in Nat
      BY <2>1, <2>2, <2>6 DEF Prompts
    <3>2. Prompts = {i + 1}
      BY <3>1 DEF SessionInv
    <3>3. \A j \in Prompts' : j \in Nat /\ j + 1 \in {i + 1}
      BY <2>1, <2>2, <2>6, <3>2 DEF Prompts
    <3>4. \A j \in Prompts' : j = i
      BY <3>1, <3>3
    <3>5. ~UnparsedPrompt'
      BY <2>8, <3>1, <3>2
    <3>6. QED
      BY <3>4, <3>5
  <2>13. QED
    BY <2>1, <2>9, <2>10, <2>11, <2>12 DEF SessionInv
<1>3. CASE WriteComplete \/ WriteFailed
  <2>1. /\ writes # <<>> /\ writes' = Tail(writes) /\ pendingResponse' = TRUE
        /\ UNCHANGED <<state, out, fresh, buffRecv>>
        /\ (modem' = modem /\ cmd' = cmd) \/ Deliver(Head(writes))
    BY <1>3 DEF WriteComplete, Transmit, WriteFailed
  <2>2. writes' = <<>>
    BY <2>1 DEF WritePipe, TypeOK
  <2>3. /\ Unread' = Unread /\ Prompts' = Prompts
        /\ UnparsedFinal' = UnparsedFinal /\ UnparsedPrompt' = UnparsedPrompt
    BY <2>1 DEF Unread, Prompts, UnparsedFinal, UnparsedPrompt
  <2>4. /\ Unread = {} /\ ~UnparsedFinal /\ Prompts = {} /\ ~UnparsedPrompt
        /\ (Head(writes) = state /\ modem = "idle") \/ (Head(writes) = "BODY" /\ modem = "input")
    BY <2>1 DEF SessionInv, NoFinal, NoPrompt
  <2>5. /\ modem' # "idle" => cmd' = state
        /\ modem' \in {"input", "stored"} => cmd' = "HTTP_POST_DATA"
    BY <2>1, <2>4 DEF SessionInv, Deliver
  <2>6. QED
    BY <2>1, <2>2, <2>3, <2>4, <2>5 DEF SessionInv, NoFinal, NoPrompt
<1>4. QED
  BY <1>1, <1>2, <1>3 DEF Interrupt

\* A modem that says something no state takes for an answer or a prompt.
LEMMA OtherLine ==
  ASSUME TypeOK, SessionInv, NEW k \in Kinds \ {"OK", "ERROR", "HTTPREAD", "DOWNLOAD"},
         NEW c \in Sendable \cup {"none"}, Says(<<Line(k, c)>>),
         UNCHANGED <<state, writes, modem, cmd, pendingResponse, fresh, buffRecv>>
  PROVE  SessionInv'
<1>1. /\ DOMAIN out' = 1 .. Len(out) + 1 /\ DOMAIN out = 1 .. Len(out) /\ Len(out) \in Nat
      /\ \A i \in DOMAIN out : out'[i] = out[i]
      /\ out'[Len(out) + 1].kind = k
  BY SaysOne DEF TypeOK
<1>2. Unread' = Unread
  BY <1>1 DEF Unread, Final
<1>3. Prompts' = Prompts
  BY <1>1 DEF Prompts
<1>4. UnparsedFinal' = UnparsedFinal /\ UnparsedPrompt' = UnparsedPrompt
  BY DEF UnparsedFinal, UnparsedPrompt
<1>5. \A i \in Unread : out'[i] = out[i]
  BY <1>1 DEF Unread
<1>6. QED
  BY <1>2, <1>3, <1>4, <1>5 DEF SessionInv, NoFinal, NoPrompt

\* The modem and the USB driver keep the one-command invariant.
LEMMA EnvironmentSession ==
  ASSUME TypeOK, SessionInv, Environment
  PROVE  SessionInv'
<1> USE DEF flagVars, usbVars, modemVars, boundVars, histVars
<1>1. CASE DriverUp
  <2>1. UNCHANGED <<state, writes, modem, cmd, pendingResponse, out, fresh, buffRecv>>
    BY <1>1 DEF DriverUp
  <2>2. QED
    BY <2>1, SameSession
<1>2. CASE Boot \/ PostDone \/ Unsolicited
  <2>1. UNCHANGED <<state, writes, modem, cmd, pendingResponse, fresh, buffRecv>>
    BY <1>2 DEF Boot, PostDone, Unsolicited
  <2>2. \E k \in Kinds \ {"OK", "ERROR", "HTTPREAD", "DOWNLOAD"}, c \in Sendable \cup {"none"} :
          Says(<<Line(k, c)>>)
    BY <1>2 DEF Boot, PostDone, Unsolicited, Kinds
  <2>3. QED
    BY <2>1, <2>2, OtherLine
<1>3. CASE Answer
  <2>1. /\ modem = "exec" /\ modem' = "idle"
        /\ UNCHANGED <<state, writes, cmd, pendingResponse, fresh, buffRecv>>
    BY <1>3 DEF Answer
  <2>2. /\ cmd = state /\ pendingResponse /\ Unread = {} /\ ~UnparsedFinal
        /\ Prompts = {} /\ ~UnparsedPrompt /\ writes = <<>>
    BY <2>1 DEF SessionInv, NoFinal, NoPrompt
  <2>3. PICK k \in {Awaited(cmd), "ERROR"}, n \in {1, 2} :
          /\ DOMAIN out' = 1 .. Len(out) + n
          /\ \A i \in DOMAIN out : out'[i] = out[i]
          /\ out'[Len(out) + n].kind = k /\ out'[Len(out) + n].of = cmd
          /\ n = 2 => out'[Len(out) + 1].kind = "OTHER"
    BY <1>3, SaysAnswer
  <2>4. DOMAIN out = 1 .. Len(out) /\ Len(out) \in Nat
    BY DEF TypeOK
  <2>5. \A i \in Unread' : i = Len(out) + n
    BY <2>2, <2>3, <2>4 DEF Unread, Final
  <2>6. Prompts' = {}
    <3>1. k # "DOWNLOAD"
      BY DEF Awaited
    <3>2. QED
      BY <2>2, <2>3, <2>4, <3>1 DEF Prompts
  <2>7. ~UnparsedFinal' /\ ~UnparsedPrompt'
    BY <2>1, <2>2 DEF UnparsedFinal, UnparsedPrompt
  <2>8. QED
    BY <2>1, <2>2, <2>3, <2>5, <2>6, <2>7 DEF SessionInv, NoFinal, NoPrompt
<1>4. CASE AskBody
  <2>1. /\ modem = "exec" /\ modem' = "input" /\ cmd = "HTTP_POST_DATA"
        /\ Says(<<Line("DOWNLOAD", cmd)>>)
        /\ UNCHANGED <<state, writes, cmd, pendingResponse, fresh, buffRecv>>
    BY <1>4 DEF AskBody
  <2>2. /\ cmd = state /\ pendingResponse /\ Unread = {} /\ ~UnparsedFinal
        /\ Prompts = {} /\ ~UnparsedPrompt /\ writes = <<>>
    BY <2>1 DEF SessionInv, NoFinal, NoPrompt
  <2>3. /\ DOMAIN out' = 1 .. Len(out) + 1 /\ DOMAIN out = 1 .. Len(out) /\ Len(out) \in Nat
        /\ \A i \in DOMAIN out : out'[i] = out[i]
        /\ out'[Len(out) + 1].kind = "DOWNLOAD"
    BY <2>1, SaysOne DEF TypeOK, Kinds
  <2>4. Unread' = {}
    BY <2>2, <2>3 DEF Unread, Final
  <2>5. Prompts' = {Len(out) + 1}
    BY <2>2, <2>3 DEF Prompts
  <2>6. ~UnparsedFinal' /\ ~UnparsedPrompt'
    BY <2>1, <2>2 DEF UnparsedFinal, UnparsedPrompt
  <2>7. QED
    BY <2>1, <2>2, <2>4, <2>5, <2>6 DEF SessionInv, NoFinal, NoPrompt
<1>5. CASE BodyStored
  <2>1. /\ modem = "stored" /\ modem' = "idle" /\ Says(<<Line("OK", cmd)>>)
        /\ UNCHANGED <<state, writes, cmd, pendingResponse, fresh, buffRecv>>
    BY <1>5 DEF BodyStored
  <2>2. /\ cmd = state /\ pendingResponse /\ Unread = {} /\ ~UnparsedFinal
        /\ Prompts = {} /\ ~UnparsedPrompt /\ writes = <<>>
    BY <2>1 DEF SessionInv, NoFinal, NoPrompt
  <2>3. /\ DOMAIN out' = 1 .. Len(out) + 1 /\ DOMAIN out = 1 .. Len(out) /\ Len(out) \in Nat
        /\ \A i \in DOMAIN out : out'[i] = out[i]
        /\ out'[Len(out) + 1].kind = "OK" /\ out'[Len(out) + 1].of = cmd
    <3>1. "OK" \in Kinds /\ cmd \in Sendable \cup {"none"} /\ out \in Seq(Lines)
      BY DEF TypeOK, Kinds
    <3>2. QED
      BY <2>1, <3>1, SaysOne
  <2>4. Unread' = {Len(out) + 1}
    BY <2>2, <2>3 DEF Unread, Final
  <2>5. Prompts' = {}
    BY <2>2, <2>3 DEF Prompts
  <2>6. ~UnparsedFinal' /\ ~UnparsedPrompt'
    BY <2>1, <2>2 DEF UnparsedFinal, UnparsedPrompt
  <2>7. QED
    BY <2>1, <2>2, <2>3, <2>4, <2>5, <2>6 DEF SessionInv, NoFinal, NoPrompt
<1>6. QED
  BY <1>1, <1>2, <1>3, <1>4, <1>5 DEF Environment, Replies

\* The whole inductive invariant of the sequencer.
IInv == TypeOK /\ PipesInv /\ ListenInv /\ BufferInv /\ SessionInv

\* The inductive invariant is inductive.
LEMMA InvariantStep == IInv /\ [Next]_vars => IInv'
<1> SUFFICES ASSUME IInv, [Next]_vars PROVE IInv'
  OBVIOUS
<1> USE DEF IInv, PipesInv
<1>1. TypeOK'
  BY ForegroundType, InterruptType, EnvironmentType DEF Next
<1>2. PipesInv' /\ ListenInv' /\ BufferInv'
  BY ReadPipeStep, WritePipeStep, ListenStep, BufferStep
<1>3. SessionInv'
  <2>1. CASE UNCHANGED vars
    BY <2>1, SameSession DEF vars
  <2>2. QED
    BY <2>1, ForegroundSession, InterruptSession, EnvironmentSession DEF Next
<1>4. QED
  BY <1>1, <1>2, <1>3

\* The inductive invariant holds in every reachable state.
LEMMA InvariantHolds == Spec => []IInv
<1>1. Init => SessionInv /\ BufferInv /\ ListenInv
  BY DEF Init, SessionInv, BufferInv, ListenInv, NoFinal, NoPrompt, Unread, Prompts, UnparsedFinal,
     UnparsedPrompt, Empty, Line
<1>2. Init => ReadPipe /\ WritePipe
  BY DEF Init, ReadPipe, WritePipe
<1>3. Init => IInv
  BY <1>1, <1>2, InitType DEF IInv, PipesInv
<1>4. IInv /\ [Next]_vars => IInv'
  BY InvariantStep
<1>5. QED
  BY <1>3, <1>4, PTL DEF Spec

\* The modem gets one command at a time, and the body only when it asked.
THEOREM OneCommand == Spec => []OneCommandAtATime
<1>1. IInv => OneCommandAtATime
  <2> SUFFICES ASSUME IInv PROVE OneCommandAtATime
    OBVIOUS
  <2>1. state # "BODY"
    BY DEF IInv, TypeOK, States, CommandStates, ListenStates
  <2>2. writes # <<>> => modem = IF Head(writes) = "BODY" THEN "input" ELSE "idle"
    BY <2>1 DEF IInv, SessionInv
  <2>3. writes # <<>> \/ modem # "idle" => Unread = {} /\ ~UnparsedFinal
    BY DEF IInv, SessionInv, NoFinal
  <2>4. \A i \in Unread : Unread = {i} /\ ~UnparsedFinal
    BY DEF IInv, SessionInv
  <2>5. QED
    BY <2>2, <2>3, <2>4 DEF OneCommandAtATime
<1>2. QED
  BY <1>1, InvariantHolds, PTL

\* An answer is only ever waiting for the state that sent its command.
THEOREM AnswersMatch == Spec => []AnswersMatchState
<1>1. IInv => AnswersMatchState
  BY DEF IInv, SessionInv, NoFinal, AnswersMatchState
<1>2. QED
  BY <1>1, InvariantHolds, PTL

-----------------------------------------------------------------------------
(***************************************************************************)
(* The sequencer is an ask - answer - take session.                        *)
(***************************************************************************)

\* pendingResponse is down in every state that sends nothing.
QuietInv == state \notin CommandStates => ~pendingResponse

\* Every step keeps it so.
LEMMA QuietStep ==
  ASSUME IInv, QuietInv, [Next]_vars
  PROVE  QuietInv'
<1> USE DEF QuietInv, flagVars, usbVars, modemVars, boundVars, histVars
<1>1. CASE Foreground
  <2>1. CASE ParseAnswer \/ ParseError
    BY <2>1 DEF ParseAnswer, ParseError
  <2>2. CASE AttachHandler \/ ParsePosition \/ ListenTimer \/ RestOver
    <3>1. state \in {"WAITING_DRIVER_READY", "NOT_READY", "REQUEST_GPS_INFO", "READY"}
      BY <2>2 DEF AttachHandler, ParsePosition, RestOver, ListenTimer, IInv, ListenInv
    <3>2. pendingResponse' = pendingResponse
      BY <2>2 DEF AttachHandler, ParsePosition, RestOver, ListenTimer
    <3>3. QED
      BY <3>1, <3>2 DEF CommandStates
  <2>3. CASE ~(ParseAnswer \/ ParseError \/ AttachHandler \/ ParsePosition \/ ListenTimer \/ RestOver)
    <3>1. UNCHANGED <<state, pendingResponse>>
      BY <1>1, <2>3 DEF Foreground, Parse, WriteCommand, WriteRefused, WriteNotSent,
         CountFault, NothingToWrite, WriteAccepted, PostRead, ReadRefused, ReadNotPosted,
         NothingToRead, ReadAccepted, NothingToParse, ParseDownload, HearsDownload, SendBody,
         DropBody, ParseAtReady, ParseOther, BodyAccepted, ClearBuffer, ParseDone,
         ComposePosition
    <3>2. QED
      BY <3>1
  <2>4. QED
    BY <2>1, <2>2, <2>3
<1>2. CASE Interrupt
  <2>1. CASE WriteComplete \/ WriteFailed
    <3>1. writes # <<>> /\ state' = state
      BY <2>1 DEF WriteComplete, Transmit, WriteFailed
    <3>2. state \in CommandStates
      BY <3>1, QuietState DEF IInv
    <3>3. QED
      BY <3>1, <3>2
  <2>2. CASE TimerTick \/ ReadComplete \/ ReadFailed
    BY <2>2 DEF TimerTick, ReadComplete, Receive, ReadFailed
  <2>3. QED
    BY <1>2, <2>1, <2>2 DEF Interrupt
<1>3. CASE Environment
  BY <1>3 DEF Environment, Replies, DriverUp, Boot, Answer, AskBody, BodyStored, PostDone, Unsolicited
<1>4. CASE UNCHANGED vars
  BY <1>4 DEF vars
<1>5. QED
  BY <1>1, <1>2, <1>3, <1>4 DEF Next

\* The phase of a session, place by place.
LEMMA PhaseOf ==
  /\ writes # <<>> \/ modem # "idle" => phase = "asked"
  /\ writes = <<>> /\ modem = "idle" /\ ~NoFinal => phase = "answered"
  /\ writes = <<>> /\ modem = "idle" /\ NoFinal /\ pendingResponse => phase = "lost"
  /\ writes = <<>> /\ modem = "idle" /\ NoFinal /\ ~pendingResponse => phase = "free"
BY DEF phase, NoFinal

\* The same for the phase after a step.
LEMMA PhaseNext ==
  /\ writes' # <<>> \/ modem' # "idle" => phase' = "asked"
  /\ writes' = <<>> /\ modem' = "idle" /\ ~NoFinal' => phase' = "answered"
  /\ writes' = <<>> /\ modem' = "idle" /\ NoFinal' /\ pendingResponse' => phase' = "lost"
  /\ writes' = <<>> /\ modem' = "idle" /\ NoFinal' /\ ~pendingResponse' => phase' = "free"
BY DEF phase, NoFinal

\* The two modules speak of the same chain of states.
LEMMA SameChain ==
  /\ Session!CommandStates = CommandStates
  /\ \A s : Session!Sequel(s) = Sequel(s) /\ Session!SequelOfError(s) = SequelOfError(s)
BY DEF Session!CommandStates, CommandStates, Session!Sequel, Sequel, Session!SequelOfError, SequelOfError

\* A step that leaves the command where it is, or loses its answer, is one of
\* the session.
LEMMA SessionStays ==
  ASSUME IInv, UNCHANGED <<state, writes, modem, pendingResponse>>, NoFinal => NoFinal'
  PROVE  [Session!SessionNext]_(Session!sessionVars)
<1>1. CASE phase' = phase
  BY <1>1 DEF Session!sessionVars
<1>2. CASE phase' # phase
  <2>1. writes = <<>> /\ modem = "idle" /\ ~NoFinal /\ NoFinal'
    BY <1>2, PhaseOf, PhaseNext
  <2>2. pendingResponse'
    BY <2>1 DEF IInv, SessionInv
  <2>3. phase = "answered" /\ phase' = "lost"
    BY <2>1, <2>2, PhaseOf, PhaseNext
  <2>4. QED
    BY <2>3 DEF Session!SessionNext, Session!Lose
<1>3. QED
  BY <1>1, <1>2

\* A state that sends nothing follows its successor with no command anywhere.
LEMMA SessionMovesOn ==
  ASSUME IInv, QuietInv, state \notin CommandStates,
         UNCHANGED <<writes, modem, out>>, ~UnparsedFinal', ~pendingResponse',
         state' = state \/ (state \in DOMAIN Session!Follow /\ state' = Session!Follow[state])
  PROVE  [Session!SessionNext]_(Session!sessionVars)
<1>1. writes = <<>> /\ modem = "idle" /\ NoFinal
  BY QuietState DEF IInv
<1>2. NoFinal'
  BY <1>1 DEF NoFinal, Unread
<1>3. phase = "free" /\ phase' = "free"
  BY <1>1, <1>2, PhaseOf, PhaseNext DEF QuietInv
<1>4. QED
  BY <1>3 DEF Session!SessionNext, Session!MoveOn, Session!sessionVars

\* Every statement of simcom_tasks is a step of the session or a stutter.
LEMMA ForegroundStep ==
  ASSUME IInv, QuietInv, Foreground
  PROVE  [Session!SessionNext]_(Session!sessionVars)
<1> USE DEF flagVars, usbVars, modemVars, boundVars, histVars
<1>1. CASE WriteRefused \/ NothingToWrite \/ WriteAccepted \/ PostRead \/ ReadRefused
           \/ NothingToRead \/ ReadAccepted \/ NothingToParse \/ BodyAccepted \/ ParseDone
  <2>1. UNCHANGED <<state, writes, modem, pendingResponse, out, fresh, buffRecv>>
    BY <1>1 DEF WriteRefused, WriteNotSent, CountFault, NothingToWrite, WriteAccepted,
       PostRead, ReadRefused, ReadNotPosted, NothingToRead, ReadAccepted, NothingToParse,
       BodyAccepted, ParseDone
  <2>2. NoFinal' = NoFinal
    BY <2>1 DEF NoFinal, Unread, UnparsedFinal
  <2>3. QED
    BY <2>1, <2>2, SessionStays
<1>2. CASE ParseAtReady \/ ParseOther \/ ClearBuffer \/ ComposePosition
  <2>1. UNCHANGED <<state, writes, modem, pendingResponse, out>>
    BY <1>2 DEF ParseAtReady, ParseOther, ClearBuffer, ComposePosition
  <2>2. fresh' = FALSE \/ buffRecv'.kind = "GPSINFO"
    BY <1>2 DEF ParseAtReady, ParseOther, ClearBuffer, Parsing, ComposePosition, Line
  <2>3. NoFinal => NoFinal'
    BY <2>1, <2>2 DEF NoFinal, Unread, UnparsedFinal, Final
  <2>4. QED
    BY <2>1, <2>3, SessionStays
<1>3. CASE ParseDownload
  <2>1. /\ UNCHANGED <<state, modem, pendingResponse, out>> /\ fresh' = FALSE
        /\ writes' = writes \/ writes' = Append(writes, "BODY")
        /\ pc = "parse" /\ Hears("DOWNLOAD")
    BY <1>3 DEF ParseDownload, HearsDownload, SendBody, DropBody, CountFault, Parsing
  <2>2. NoFinal => NoFinal'
    BY <2>1 DEF NoFinal, Unread, UnparsedFinal
  <2>3. CASE writes' = writes
    BY <2>1, <2>2, <2>3, SessionStays
  <2>4. CASE writes' = Append(writes, "BODY")
    <3>1. UnparsedPrompt
      BY <2>1 DEF UnparsedPrompt, IInv, BufferInv, Hears, WellFormed, Empty, Line
    <3>2. modem = "input"
      BY <3>1 DEF IInv, SessionInv, NoPrompt
    <3>3. phase = "asked" /\ phase' = "asked"
      BY <2>1, <3>2, PhaseOf, PhaseNext
    <3>4. QED
      BY <2>1, <3>3 DEF Session!sessionVars
  <2>5. QED
    BY <2>1, <2>3, <2>4
<1>4. CASE WriteCommand
  <2>1. /\ pc = "write" /\ ATwrite /\ ~pendingResponse /\ state \in CommandStates
        /\ writes' = Append(writes, state) /\ state' = state
    BY <1>4 DEF WriteCommand, MayWrite
  <2>2. writes = <<>> /\ NoFinal /\ modem = "idle"
    BY <2>1 DEF IInv, PipesInv, WritePipe, SessionInv
  <2>3. writes' # <<>>
    BY <2>1, <2>2
  <2>4. phase = "free" /\ phase' = "asked"
    BY <2>1, <2>2, <2>3, PhaseOf, PhaseNext
  <2>5. QED
    BY <2>1, <2>4, SameChain DEF Session!SessionNext, Session!Ask
<1>5. CASE ParseAnswer \/ ParseError
  <2>1. /\ pc = "parse" /\ state \in AnswerableStates /\ fresh' = FALSE
        /\ WellFormed(buffRecv) /\ buffRecv.kind \in {Awaited(state), "ERROR"}
        /\ UNCHANGED <<writes, modem, out>> /\ pendingResponse' = FALSE
    BY <1>5 DEF ParseAnswer, ParseError, Parsing, Answerable, Hears
  <2>2. fresh
    BY <2>1 DEF IInv, BufferInv, WellFormed, Empty, Line
  <2>3. ~UnparsedFinal'
    BY <2>1 DEF UnparsedFinal
  <2>4. CASE state \in CommandStates
    <3>1. UnparsedFinal
      BY <2>1, <2>2, <2>4 DEF UnparsedFinal, Final, Awaited, CommandStates
    <3>2. writes = <<>> /\ modem = "idle" /\ ~NoFinal /\ Unread = {}
      BY <3>1 DEF IInv, SessionInv, NoFinal, TypeOK
    <3>3. NoFinal'
      BY <2>1, <2>3, <3>2 DEF NoFinal, Unread
    <3>4. phase = "answered" /\ phase' = "free"
      BY <2>1, <3>2, <3>3, PhaseOf, PhaseNext
    <3>5. state' \in {Sequel(state), SequelOfError(state)}
      BY <1>5 DEF ParseAnswer, ParseError
    <3>6. QED
      BY <2>4, <3>4, <3>5, SameChain DEF Session!SessionNext, Session!Take
  <2>5. CASE state \notin CommandStates
    <3>1. state = "HTTP_WAIT_POST_RESPONSE"
      BY <2>1, <2>5 DEF AnswerableStates
    <3>2. buffRecv.kind # "ERROR"
      <4>1. NoFinal
        BY <2>5, QuietState DEF IInv
      <4>2. QED
        BY <2>2, <4>1 DEF NoFinal, UnparsedFinal, Final
    <3>3. state' = "HTTP_STOP_SERVICE"
      BY <1>5, <3>1, <3>2 DEF ParseAnswer, ParseError, Hears, Sequel
    <3>4. QED
      BY <2>1, <2>3, <2>5, <3>1, <3>3, SessionMovesOn DEF Session!Follow
  <2>6. QED
    BY <2>4, <2>5
<1>6. CASE AttachHandler \/ ParsePosition \/ ListenTimer \/ RestOver
  <2>1. \/ state = "WAITING_DRIVER_READY" /\ state' = "NOT_READY"
        \/ state = "REQUEST_GPS_INFO" /\ state' = "HTTP_POST_DATA"
        \/ state = "NOT_READY" /\ state' \in {"NOT_READY", "DISABLING_ECO"}
        \/ state = "READY" /\ state' = "HTTPS_INIT"
    BY <1>6 DEF AttachHandler, ParsePosition, RestOver, ListenTimer, IInv, ListenInv
  <2>2. state \notin CommandStates
    BY <2>1 DEF CommandStates
  <2>3. UNCHANGED <<writes, modem, pendingResponse, out>>
    BY <1>6 DEF AttachHandler, ParsePosition, RestOver, ListenTimer
  <2>4. ~UnparsedFinal /\ ~pendingResponse
    BY <2>2, QuietState DEF IInv, NoFinal, QuietInv
  <2>5. ~UnparsedFinal'
    <3>1. (fresh' = fresh /\ buffRecv' = buffRecv) \/ fresh' = FALSE \/ buffRecv' = Empty
      BY <1>6 DEF AttachHandler, ParsePosition, RestOver, ListenTimer, Parsing
    <3>2. QED
      BY <2>4, <3>1 DEF UnparsedFinal, Final, Empty, Line
  <2>6. state' = state \/ (state \in DOMAIN Session!Follow /\ state' = Session!Follow[state])
    BY <2>1 DEF Session!Follow
  <2>7. QED
    BY <2>2, <2>3, <2>4, <2>5, <2>6, SessionMovesOn
<1>7. QED
  BY <1>1, <1>2, <1>3, <1>4, <1>5, <1>6 DEF Foreground, Parse

\* So is everything the interrupts do.
LEMMA InterruptStep ==
  ASSUME IInv, QuietInv, Interrupt
  PROVE  [Session!SessionNext]_(Session!sessionVars)
<1> USE DEF flagVars, usbVars, modemVars, boundVars, histVars
<1>1. CASE TimerTick \/ ReadFailed
  <2>1. UNCHANGED <<state, writes, modem, pendingResponse, out, fresh, buffRecv>>
    BY <1>1 DEF TimerTick, ReadFailed
  <2>2. NoFinal' = NoFinal
    BY <2>1 DEF NoFinal, Unread, UnparsedFinal
  <2>3. QED
    BY <2>1, <2>2, SessionStays
<1>2. CASE ReadComplete
  <2>1. UNCHANGED <<state, writes, modem, pendingResponse>>
    BY <1>2 DEF ReadComplete, Receive
  <2>2. QED
    BY <1>2, <2>1, ReadFinals, SessionStays DEF IInv
<1>3. CASE WriteComplete \/ WriteFailed
  <2>1. /\ writes # <<>> /\ writes' = Tail(writes) /\ pendingResponse' = TRUE
        /\ UNCHANGED <<state, out, fresh, buffRecv>>
    BY <1>3 DEF WriteComplete, Transmit, WriteFailed
  <2>2. writes' = <<>>
    BY <2>1 DEF IInv, TypeOK, PipesInv, WritePipe
  <2>3. NoFinal'
    BY <2>1 DEF IInv, SessionInv, NoFinal, Unread, UnparsedFinal
  <2>4. phase = "asked" /\ phase' \in {"asked", "lost"}
    BY <2>1, <2>2, <2>3, PhaseOf, PhaseNext
  <2>5. QED
    BY <2>1, <2>4 DEF Session!SessionNext, Session!Lose, Session!sessionVars
<1>4. QED
  BY <1>1, <1>2, <1>3 DEF Interrupt

\* And everything the modem and the USB driver do.
LEMMA EnvironmentStep ==
  ASSUME IInv, QuietInv, Environment
  PROVE  [Session!SessionNext]_(Session!sessionVars)
<1> USE DEF flagVars, usbVars, modemVars, boundVars, histVars
<1>1. CASE DriverUp
  <2>1. UNCHANGED <<state, writes, modem, pendingResponse, out, fresh, buffRecv>>
    BY <1>1 DEF DriverUp
  <2>2. NoFinal' = NoFinal
    BY <2>1 DEF NoFinal, Unread, UnparsedFinal
  <2>3. QED
    BY <2>1, <2>2, SessionStays
<1>2. CASE Boot \/ PostDone \/ Unsolicited
  <2>1. UNCHANGED <<state, writes, modem, pendingResponse, fresh, buffRecv>>
    BY <1>2 DEF Boot, PostDone, Unsolicited
  <2>2. PICK k \in Kinds \ {"OK", "ERROR", "HTTPREAD", "DOWNLOAD"}, c \in Sendable \cup {"none"} :
          Says(<<Line(k, c)>>)
    BY <1>2 DEF Boot, PostDone, Unsolicited, Kinds
  <2>3. /\ DOMAIN out' = 1 .. Len(out) + 1 /\ DOMAIN out = 1 .. Len(out) /\ Len(out) \in Nat
        /\ \A i \in DOMAIN out : out'[i] = out[i]
        /\ out'[Len(out) + 1].kind = k
    BY <2>2, SaysOne DEF IInv, TypeOK
  <2>4. Unread = {} => Unread' = {}
    BY <2>3 DEF Unread, Final
  <2>5. NoFinal => NoFinal'
    BY <2>1, <2>4 DEF NoFinal, UnparsedFinal
  <2>6. QED
    BY <2>1, <2>5, SessionStays
<1>3. CASE Answer \/ AskBody \/ BodyStored
  <2>1. modem # "idle" /\ UNCHANGED <<state, writes, pendingResponse>>
    BY <1>3 DEF Answer, AskBody, BodyStored
  <2>2. phase = "asked" /\ pendingResponse
    BY <2>1, PhaseOf DEF IInv, SessionInv
  <2>3. phase' \in {"asked", "answered", "lost"}
    BY <2>1, <2>2, PhaseNext
  <2>4. QED
    BY <2>1, <2>2, <2>3 DEF Session!SessionNext, Session!AnswerArrives, Session!Lose,
       Session!sessionVars
<1>4. QED
  BY <1>1, <1>2, <1>3 DEF Environment, Replies

\* Every step of the sequencer, of its interrupts and of the modem is a step of
\* the plain ask - answer - take session of AtSession, or is invisible there.
THEOREM SequencerIsASession == Spec => ImplementsSession
<1>1. Init => Session!SessionInit /\ QuietInv
  <2> SUFFICES ASSUME Init PROVE Session!SessionInit /\ QuietInv
    OBVIOUS
  <2>1. NoFinal /\ writes = <<>> /\ modem = "idle" /\ ~pendingResponse
    BY DEF Init, NoFinal, Unread, UnparsedFinal
  <2>2. phase = "free"
    BY <2>1, PhaseOf
  <2>3. QED
    BY <2>1, <2>2 DEF Init, Session!SessionInit, QuietInv
<1>2. IInv /\ QuietInv /\ [Next]_vars => QuietInv'
  BY QuietStep
<1>3. IInv /\ QuietInv /\ [Next]_vars => [Session!SessionNext]_(Session!sessionVars)
  <2> SUFFICES ASSUME IInv, QuietInv, [Next]_vars
               PROVE  [Session!SessionNext]_(Session!sessionVars)
    OBVIOUS
  <2>1. CASE UNCHANGED vars
    <3>1. UNCHANGED <<state, writes, modem, pendingResponse, out, fresh, buffRecv>>
      BY <2>1 DEF vars
    <3>2. NoFinal' = NoFinal
      BY <3>1 DEF NoFinal, Unread, UnparsedFinal
    <3>3. QED
      BY <3>1, <3>2, SessionStays
  <2>2. QED
    BY <2>1, ForegroundStep, InterruptStep, EnvironmentStep DEF Next
<1>4. QED
  BY <1>1, <1>2, <1>3, InvariantHolds, PTL DEF Spec, ImplementsSession, Session!Spec
=============================================================================
