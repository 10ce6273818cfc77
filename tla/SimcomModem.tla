----------------------------- MODULE SimcomModem -----------------------------
(***************************************************************************)
(* The AT command sequencer of the tracker, firmware/A7672E.c.             *)
(*                                                                         *)
(* simcom_tasks() is called over and over by the main loop and walks a     *)
(* chain of states; in each it sends one AT command and waits for the      *)
(* answer.  The USB interrupt (simcomEventHandler) and the millisecond     *)
(* timer interrupt (resendATCommandCB) run between ANY two statements of   *)
(* simcom_tasks and share its flags and its receive buffer, so one call    *)
(* of simcom_tasks is split here, at the statements that touch the shared  *)
(* data, into the steps named by pc.  The modem and the USB host layer     *)
(* below USB_HOST_SIMCOM_AT_Read/AT_Write are the environment.             *)
(*                                                                         *)
(* Variables missed, fresh, quiet and gpsFrom are history: no guard of     *)
(* the program reads them.                                                 *)
(***************************************************************************)
EXTENDS Naturals, Sequences, SimcomStates

CONSTANTS
  ListenMs,   \* milliseconds of silence after *ATREADY (15000 in the code)
  RestMs,     \* milliseconds between two reports (10000 in the code)
  MaxFaults,  \* bound: transfers that are refused or end in error
  MaxUrcs,    \* bound: unsolicited lines of the modem
  MaxOut      \* bound: lines waiting in the modem for a read

ASSUME TimesAssumption == ListenMs \in Nat \ {0, 1} /\ RestMs \in Nat \ {0, 1}
ASSUME BoundsAssumption == MaxFaults \in Nat /\ MaxUrcs \in Nat /\ MaxOut \in Nat

(***************************************************************************)
(* A line of the modem: its kind and the command it answers ("none" for an *)
(* unsolicited one).  OTHER is any complete line no state looks for,       *)
(* including several lines delivered by one transfer; GARBLED does not     *)
(* begin and end with CR LF; EMPTY is a cleared buffer; GPSINFO is the     *)
(* line simcom_tasks makes up itself.                                      *)
(***************************************************************************)
Kinds == {"OK", "ERROR", "DOWNLOAD", "HTTPACTION", "HTTPREAD", "ATREADY",
          "OTHER", "GARBLED", "GPSINFO", "EMPTY"}
Line(k, c) == [kind |-> k, of |-> c]
Empty == Line("EMPTY", "none")

\* What AT_Write is given: the command of a state, or the body of the POST.
Sendable == CommandStates \cup {"BODY"}
Lines == [kind : Kinds, of : Sendable \cup {"none"}]

\* ATCommandParse: the line begins and ends with CR LF.
WellFormed(l) == l.kind \notin {"EMPTY", "GARBLED"}

\* A final answer ends the command it belongs to.
Final(l) == l.kind \in {"OK", "ERROR", "HTTPREAD"}

\* A line some state waits for, so that losing it matters.
Significant(l) == l.kind \notin {"OTHER", "GARBLED", "GPSINFO", "EMPTY"}

\* What one transfer that carries all the lines of q leaves in buffRecv: the
\* code compares whole buffers, except +HTTPACTION, which it looks for as a prefix.
Merged(q) ==
  IF Len(q) = 1 \/ Head(q).kind = "HTTPACTION" THEN Head(q) ELSE Line("OTHER", "none")

VARIABLES
  state,                 \* simcomObj.state
  pc,                    \* next statement of simcom_tasks
  ATread, ATwrite,       \* simcomObj.flags
  pendingATCommandParse,
  pendingResponse,
  timer,                 \* decremented by resendATCommandCB down to 1
  buffRecv,              \* the receive buffer, a Line
  postCmd,               \* TRUE while the stack buffer postCmd holds the command
  driverReady,           \* USB_HOST_SIMCOM_IsInReadyState()
  reads,                 \* AT_Read transfers outstanding
  writes,                \* AT_Write transfers outstanding, oldest first
  modem,                 \* idle, executing a command, or in HTTPDATA input
  cmd,                   \* the command the modem executes or last executed
  out,                   \* lines of the modem not yet read
  booted,                \* the modem has announced *ATREADY
  posting,               \* +HTTPACTION still to be announced
  faults, urcs,          \* bounds used up
  fresh,                 \* history: buffRecv has not been examined yet
  missed,                \* history: an answer or a completion was lost
  quiet,                 \* history: timer ticks since *ATREADY was parsed
  gpsFrom                \* history: kind of the line parsed as a position

vars == <<state, pc, ATread, ATwrite, pendingATCommandParse, pendingResponse,
          timer, buffRecv, postCmd, driverReady, reads, writes, modem, cmd, out,
          booted, posting, faults, urcs, fresh, missed, quiet, gpsFrom>>

flagVars  == <<ATread, ATwrite, pendingATCommandParse, pendingResponse>>
usbVars   == <<driverReady, reads, writes>>
modemVars == <<modem, cmd, out, booted, posting>>
boundVars == <<faults, urcs>>
histVars  == <<fresh, missed, quiet, gpsFrom>>

PCs == {"write", "wrote", "read", "posted", "parse", "body", "clear", "unpend", "timer"}

Init ==
  /\ state = "WAITING_DRIVER_READY"
  /\ pc = "write"
  /\ ATread = TRUE /\ ATwrite = TRUE
  /\ pendingATCommandParse = FALSE /\ pendingResponse = FALSE
  /\ timer = 0
  /\ buffRecv = Empty
  /\ postCmd = FALSE
  /\ driverReady = FALSE /\ reads = 0 /\ writes = <<>>
  /\ modem = "idle" /\ cmd = "none" /\ out = <<>>
  /\ booted = FALSE /\ posting = FALSE
  /\ faults = 0 /\ urcs = 0
  /\ fresh = FALSE /\ missed = FALSE /\ quiet = 0 /\ gpsFrom = "none"

-----------------------------------------------------------------------------
(***************************************************************************)
(* simcom_tasks, the foreground.                                           *)
(***************************************************************************)

\* The USB layer below refuses a transfer or ends it in error.
CountFault == faults < MaxFaults /\ faults' = faults + 1

\* A significant line is in the buffer and no statement has looked at it.
Unseen == fresh /\ Significant(buffRecv)

\* The end of one call: NOT_READY still tests the timer; then postCmd dies.
Return ==
  /\ pc' = IF state = "NOT_READY" THEN "timer" ELSE "write"
  /\ postCmd' = FALSE

\* WAITING_DRIVER_READY: install the event handler, start the timer.
AttachHandler ==
  /\ pc = "write" /\ state = "WAITING_DRIVER_READY" /\ driverReady
  /\ state' = "NOT_READY"
  /\ buffRecv' = Empty
  /\ UNCHANGED <<pc, flagVars, timer, postCmd, usbVars, modemVars, boundVars, histVars>>

\* Mutant of MayWrite: the outstanding answer is not waited for.
MayWriteEagerly == state \in CommandStates /\ ATwrite

\* The guard every command state puts before AT_Write; HTTP_POST_DATA has
\* just formatted its command into postCmd.
MayWrite == state \in CommandStates /\ ATwrite /\ ~pendingResponse
FormatCommand == postCmd' = (state = "HTTP_POST_DATA")

WriteCommand ==
  /\ pc = "write" /\ MayWrite
  /\ FormatCommand
  /\ writes' = Append(writes, state)
  /\ pc' = "wrote"
  /\ UNCHANGED <<state, flagVars, timer, buffRecv, driverReady, reads, modemVars,
                 boundVars, histVars>>

\* AT_Write returns BUSY or FAILURE: nothing is sent in this call.
WriteNotSent ==
  /\ pc = "write" /\ MayWrite
  /\ FormatCommand
  /\ pc' = "read"
  /\ UNCHANGED <<state, flagVars, timer, buffRecv, usbVars, modemVars, urcs, histVars>>

WriteRefused == CountFault /\ WriteNotSent

NothingToWrite ==
  /\ pc = "write" /\ state \in CommandStates \cup ListenStates /\ ~MayWrite
  /\ FormatCommand
  /\ pc' = "read"
  /\ UNCHANGED <<state, flagVars, timer, buffRecv, usbVars, modemVars, boundVars, histVars>>

\* flags.ATwrite = false, the statement after a successful AT_Write.
WriteAccepted ==
  /\ pc = "wrote"
  /\ ATwrite' = FALSE
  /\ pc' = "read"
  /\ UNCHANGED <<state, ATread, pendingATCommandParse, pendingResponse, timer, buffRecv,
                 postCmd, usbVars, modemVars, boundVars, histVars>>

\* AT_Read re-arms the buffer whether or not its last content was parsed.
PostRead ==
  /\ pc = "read" /\ ATread
  /\ reads' = reads + 1
  /\ pc' = "posted"
  /\ UNCHANGED <<state, flagVars, timer, buffRecv, postCmd, driverReady, writes,
                 modemVars, boundVars, histVars>>

ReadNotPosted ==
  /\ pc = "read" /\ ATread
  /\ pc' = "parse"
  /\ UNCHANGED <<state, flagVars, timer, buffRecv, postCmd, usbVars, modemVars, urcs, histVars>>

ReadRefused == CountFault /\ ReadNotPosted

NothingToRead ==
  /\ pc = "read" /\ ~ATread
  /\ pc' = "parse"
  /\ UNCHANGED <<state, flagVars, timer, buffRecv, postCmd, usbVars, modemVars,
                 boundVars, histVars>>

\* Mutant of ReadAccepted: the flag is left up.
ReadAcceptedFlagUp ==
  /\ pc = "posted"
  /\ pc' = "parse"
  /\ UNCHANGED <<state, flagVars, timer, buffRecv, postCmd, usbVars, modemVars, boundVars,
                 histVars>>

ReadAccepted ==
  /\ pc = "posted"
  /\ ATread' = FALSE
  /\ pc' = "parse"
  /\ UNCHANGED <<state, ATwrite, pendingATCommandParse, pendingResponse, timer, buffRecv,
                 postCmd, usbVars, modemVars, boundVars, histVars>>

NothingToParse ==
  /\ pc = "parse" /\ ~pendingATCommandParse
  /\ Return
  /\ UNCHANGED <<state, flagVars, timer, buffRecv, usbVars, modemVars, boundVars, histVars>>

\* The comparisons of one state, all made on the same content of buffRecv.
Parsing == pc = "parse" /\ pendingATCommandParse /\ fresh' = FALSE
\* Mutant of Hears: an information line is taken for the answer.
HearsAnyLine(k) == WellFormed(buffRecv) /\ buffRecv.kind \in {k, "OTHER"}

Hears(k) == WellFormed(buffRecv) /\ buffRecv.kind = k
Answerable == state \in AnswerableStates

ParseAnswer ==
  /\ Parsing /\ Answerable /\ Hears(Awaited(state))
  /\ pendingResponse' = FALSE
  /\ state' = Sequel(state)
  /\ timer' = IF state = "HTTP_STOP_SERVICE" THEN RestMs ELSE timer
  /\ pc' = "clear"
  /\ UNCHANGED <<ATread, ATwrite, pendingATCommandParse, buffRecv, postCmd, usbVars,
                 modemVars, boundVars, missed, quiet, gpsFrom>>

\* Mutant of ParseError: pendingResponse is not lowered.
ParseErrorPending ==
  /\ Parsing /\ Answerable /\ Hears("ERROR")
  /\ state' = SequelOfError(state)
  /\ pc' = "clear"
  /\ UNCHANGED <<flagVars, timer, buffRecv, postCmd, usbVars, modemVars, boundVars,
                 missed, quiet, gpsFrom>>

ParseError ==
  /\ Parsing /\ Answerable /\ Hears("ERROR")
  /\ pendingResponse' = FALSE
  /\ state' = SequelOfError(state)
  /\ pc' = "clear"
  /\ UNCHANGED <<ATread, ATwrite, pendingATCommandParse, timer, buffRecv, postCmd, usbVars,
                 modemVars, boundVars, missed, quiet, gpsFrom>>

\* DOWNLOAD: the modem asks for the body.  It is written if the write flag
\* is up and AT_Write accepts it; otherwise it is never sent at all.
HearsDownload ==
  /\ Parsing /\ state = "HTTP_POST_DATA" /\ Hears("DOWNLOAD")
  /\ UNCHANGED <<state, flagVars, timer, buffRecv, postCmd, driverReady, reads,
                 modemVars, urcs, quiet, gpsFrom>>

SendBody ==
  /\ HearsDownload /\ ATwrite
  /\ writes' = Append(writes, "BODY")
  /\ pc' = "body"
  /\ UNCHANGED missed

DropBody ==
  /\ HearsDownload
  /\ missed' = TRUE
  /\ pc' = "clear"
  /\ UNCHANGED writes

ParseDownload ==
  \/ SendBody /\ UNCHANGED faults
  \/ ~ATwrite /\ DropBody /\ UNCHANGED faults
  \/ ATwrite /\ DropBody /\ CountFault

BodyAccepted ==
  /\ pc = "body"
  /\ ATwrite' = FALSE
  /\ pc' = "clear"
  /\ UNCHANGED <<state, ATread, pendingATCommandParse, pendingResponse, timer, buffRecv,
                 postCmd, usbVars, modemVars, boundVars, histVars>>

\* NOT_READY: "*ATREADY: 1" starts, or restarts, the listening period.
ParseAtReady ==
  /\ Parsing /\ state = "NOT_READY" /\ Hears("ATREADY")
  /\ timer' = ListenMs /\ quiet' = 0
  /\ pc' = "clear"
  /\ UNCHANGED <<state, flagVars, buffRecv, postCmd, usbVars, modemVars, boundVars,
                 missed, gpsFrom>>

\* REQUEST_GPS_INFO takes any complete line in the buffer for the position.
\* On another line strtok() returns NULL and what follows is undefined.
ParsePosition ==
  /\ Parsing /\ state = "REQUEST_GPS_INFO" /\ WellFormed(buffRecv)
  /\ state' = "HTTP_POST_DATA"
  /\ gpsFrom' = buffRecv.kind
  /\ missed' = (missed \/ buffRecv.kind # "GPSINFO")
  /\ pc' = "clear"
  /\ UNCHANGED <<flagVars, timer, buffRecv, postCmd, usbVars, modemVars, boundVars, quiet>>

\* Any other content leaves the state alone, and is cleared all the same.
ParseOther ==
  /\ Parsing
  /\ ~(Answerable /\ (Hears(Awaited(state)) \/ Hears("ERROR")))
  /\ ~(state = "HTTP_POST_DATA" /\ Hears("DOWNLOAD"))
  /\ ~(state = "NOT_READY" /\ Hears("ATREADY"))
  /\ ~(state = "REQUEST_GPS_INFO" /\ WellFormed(buffRecv))
  /\ pc' = "clear"
  /\ UNCHANGED <<state, flagVars, timer, buffRecv, postCmd, usbVars, modemVars, boundVars,
                 missed, quiet, gpsFrom>>

\* CLEAR_BUFF(buffRecv): also wipes a line that arrived since the comparison.
ClearBuffer ==
  /\ pc = "clear"
  /\ buffRecv' = Empty
  /\ missed' = (missed \/ Unseen)
  /\ fresh' = FALSE
  /\ pc' = "unpend"
  /\ UNCHANGED <<state, flagVars, timer, postCmd, usbVars, modemVars, boundVars, quiet, gpsFrom>>

\* pendingATCommandParse = false: also forgets a line that arrived since.
ParseDone ==
  /\ pc = "unpend"
  /\ pendingATCommandParse' = FALSE
  /\ missed' = (missed \/ Unseen)
  /\ Return
  /\ UNCHANGED <<state, ATread, ATwrite, pendingResponse, timer, buffRecv, usbVars,
                 modemVars, boundVars, fresh, quiet, gpsFrom>>

\* Mutant of ListenTimer: a timer that was never started counts as complete.
ListenTimerUnstarted ==
  /\ pc = "timer"
  /\ state' = IF timer <= 1 THEN "DISABLING_ECO" ELSE state
  /\ pc' = "write"
  /\ UNCHANGED <<flagVars, timer, buffRecv, postCmd, usbVars, modemVars, boundVars, histVars>>

\* NOT_READY, last statement: TIMER_COMPLETE(timer).
ListenTimer ==
  /\ pc = "timer"
  /\ state' = IF timer = 1 THEN "DISABLING_ECO" ELSE state
  /\ pc' = "write"
  /\ UNCHANGED <<flagVars, timer, buffRecv, postCmd, usbVars, modemVars, boundVars, histVars>>

\* REQUEST_GPS_INFO asks nobody: it prints a made-up line into buffRecv,
\* which the read posted by the previous state still owns.
ComposePosition ==
  /\ pc = "write" /\ state = "REQUEST_GPS_INFO"
  /\ buffRecv' = Line("GPSINFO", "none")
  /\ pendingATCommandParse' = TRUE
  /\ missed' = (missed \/ Unseen)
  /\ fresh' = TRUE
  /\ pc' = "parse"
  /\ UNCHANGED <<state, ATread, ATwrite, pendingResponse, timer, postCmd, usbVars,
                 modemVars, boundVars, quiet, gpsFrom>>

\* Mutants of RestOver: the timer stops at 1, not at 0; the flags are reset.
RestOverAtZero ==
  /\ pc = "write" /\ state = "READY" /\ timer = 0
  /\ state' = "HTTPS_INIT"
  /\ UNCHANGED <<pc, flagVars, timer, buffRecv, postCmd, usbVars, modemVars, boundVars, histVars>>

RestOverResets ==
  /\ pc = "write" /\ state = "READY" /\ timer = 1
  /\ state' = "HTTPS_INIT" /\ ATwrite' = TRUE
  /\ UNCHANGED <<pc, ATread, pendingATCommandParse, pendingResponse, timer, buffRecv, postCmd,
                 usbVars, modemVars, boundVars, histVars>>

\* READY: when the rest is over, the next report begins.
RestOver ==
  /\ pc = "write" /\ state = "READY" /\ timer = 1
  /\ state' = "HTTPS_INIT"
  /\ UNCHANGED <<pc, flagVars, timer, buffRecv, postCmd, usbVars, modemVars, boundVars, histVars>>

Parse == ParseAnswer \/ ParseError \/ ParseDownload \/ ParseAtReady \/ ParsePosition \/ ParseOther

Foreground ==
  \/ AttachHandler
  \/ WriteCommand \/ WriteRefused \/ NothingToWrite \/ WriteAccepted
  \/ PostRead \/ ReadRefused \/ NothingToRead \/ ReadAccepted
  \/ NothingToParse \/ Parse \/ BodyAccepted \/ ClearBuffer \/ ParseDone
  \/ ListenTimer \/ ComposePosition \/ RestOver

-----------------------------------------------------------------------------
(***************************************************************************)
(* Interrupts.  simcomEventHandler never looks at the result of the        *)
(* transfer it is told about.                                              *)
(***************************************************************************)

\* Mutant of TimerTick: the timer does not stop.
TimerTickForever ==
  /\ state # "WAITING_DRIVER_READY"
  /\ timer' = timer - 1
  /\ UNCHANGED <<state, pc, flagVars, buffRecv, postCmd, usbVars, modemVars, boundVars, histVars>>

\* The bytes that arrive do not end the string: over a longer content that has
\* not been cleared they leave its tail, and the comparisons see neither line.
Overlaid(l) ==
  Line(IF WellFormed(l) /\ WellFormed(buffRecv) THEN "OTHER" ELSE "GARBLED", "none")

Contents(q) ==
  {Merged(q)} \cup
    (IF buffRecv = Empty \/ Head(q).kind = "HTTPACTION" THEN {} ELSE {Overlaid(Head(q))})

\* Millisecond timer: resendATCommandCB.
TimerTick ==
  /\ state # "WAITING_DRIVER_READY" /\ timer > 1
  /\ timer' = timer - 1
  /\ quiet' = IF quiet < ListenMs - 1 THEN quiet + 1 ELSE quiet
  /\ UNCHANGED <<state, pc, flagVars, buffRecv, postCmd, usbVars, modemVars, boundVars,
                 fresh, missed, gpsFrom>>

\* A read ends: one line, or everything the modem had ready, is in buffRecv.
Receive ==
  /\ reads > 0 /\ out # <<>>
  /\ reads' = reads - 1
  /\ \E taken \in {<<Head(out)>>, out} :
       /\ buffRecv' \in Contents(taken)
       /\ out' = IF taken = out THEN <<>> ELSE Tail(out)
       /\ missed' = \/ missed \/ Unseen \/ pc = "posted"
                    \/ \E i \in DOMAIN taken : Significant(taken[i]) /\ taken[i] # buffRecv'
  /\ fresh' = TRUE
  /\ UNCHANGED <<state, pc, ATwrite, pendingResponse, timer, postCmd, driverReady, writes,
                 modem, cmd, booted, posting, boundVars, quiet, gpsFrom>>

\* ..._AT_READ_COMPLETE.
ReadComplete == Receive /\ pendingATCommandParse' = TRUE /\ ATread' = TRUE

\* The same event for a read that ended in error: no new data.
ReadFailed ==
  /\ reads > 0 /\ faults < MaxFaults
  /\ faults' = faults + 1
  /\ reads' = reads - 1
  /\ pendingATCommandParse' = TRUE
  /\ ATread' = TRUE
  /\ missed' = (missed \/ pc = "posted")
  /\ UNCHANGED <<state, pc, ATwrite, pendingResponse, timer, buffRecv, postCmd, driverReady,
                 writes, modemVars, urcs, fresh, quiet, gpsFrom>>

\* What the modem makes of the bytes it received.
Deliver(w) ==
  IF modem = "input"
  THEN modem' = "stored" /\ UNCHANGED cmd
  ELSE modem' = "exec" /\ cmd' = w

\* A write ends: the last packet has been acknowledged by the modem.
Transmit ==
  /\ writes # <<>>
  /\ Deliver(Head(writes))
  /\ writes' = Tail(writes)
  /\ missed' = (missed \/ pc \in {"wrote", "body"})
  /\ UNCHANGED <<state, pc, ATread, pendingATCommandParse, timer, buffRecv, postCmd,
                 driverReady, reads, out, booted, posting, boundVars, fresh, quiet, gpsFrom>>

\* ..._AT_WRITE_COMPLETE.
WriteComplete == Transmit /\ pendingResponse' = TRUE /\ ATwrite' = TRUE

\* The same event for a write that ended in error: the modem got nothing.
WriteFailed ==
  /\ writes # <<>> /\ faults < MaxFaults
  /\ faults' = faults + 1
  /\ writes' = Tail(writes)
  /\ pendingResponse' = TRUE
  /\ ATwrite' = TRUE
  /\ missed' = TRUE
  /\ UNCHANGED <<state, pc, ATread, pendingATCommandParse, timer, buffRecv, postCmd,
                 driverReady, reads, modemVars, urcs, fresh, quiet, gpsFrom>>

Interrupt == TimerTick \/ ReadComplete \/ ReadFailed \/ WriteComplete \/ WriteFailed

-----------------------------------------------------------------------------
(***************************************************************************)
(* The environment: the USB driver below and the modem.                    *)
(***************************************************************************)

Room(n) == Len(out) + n <= MaxOut
Says(ls) == Room(Len(ls)) /\ out' = out \o ls

DriverUp ==
  /\ ~driverReady
  /\ driverReady' = TRUE
  /\ UNCHANGED <<state, pc, flagVars, timer, buffRecv, postCmd, reads, writes, modemVars,
                 boundVars, histVars>>

Boot ==
  /\ ~booted /\ Says(<<Line("ATREADY", "none")>>)
  /\ booted' = TRUE
  /\ UNCHANGED <<state, pc, flagVars, timer, buffRecv, postCmd, usbVars, modem, cmd,
                 posting, boundVars, histVars>>

\* The answer of a command, after an information line or an echo or not.
Answer ==
  /\ modem = "exec"
  /\ \E k \in {Awaited(cmd), "ERROR"}, info \in {<<>>, <<Line("OTHER", "none")>>} :
       /\ k # "ERROR" => cmd # "HTTP_POST_DATA"
       /\ Says(Append(info, Line(k, cmd)))
       /\ posting' = (cmd = "HTTP_SEND_POST_REQUEST" /\ k = "OK")
  /\ modem' = "idle"
  /\ UNCHANGED <<state, pc, flagVars, timer, buffRecv, postCmd, usbVars, cmd, booted,
                 boundVars, histVars>>

\* AT+HTTPDATA: DOWNLOAD, then the bytes, then OK.
AskBody ==
  /\ modem = "exec" /\ cmd = "HTTP_POST_DATA"
  /\ Says(<<Line("DOWNLOAD", cmd)>>)
  /\ modem' = "input"
  /\ UNCHANGED <<state, pc, flagVars, timer, buffRecv, postCmd, usbVars, cmd, booted,
                 posting, boundVars, histVars>>

BodyStored ==
  /\ modem = "stored"
  /\ Says(<<Line("OK", cmd)>>)
  /\ modem' = "idle"
  /\ UNCHANGED <<state, pc, flagVars, timer, buffRecv, postCmd, usbVars, cmd, booted,
                 posting, boundVars, histVars>>

\* +HTTPACTION: 1,<status>,<length>, when the server has answered the POST.
PostDone ==
  /\ posting /\ Says(<<Line("HTTPACTION", "none")>>)
  /\ posting' = FALSE
  /\ UNCHANGED <<state, pc, flagVars, timer, buffRecv, postCmd, usbVars, modem, cmd, booted,
                 boundVars, histVars>>

Unsolicited ==
  /\ urcs < MaxUrcs /\ \E k \in {"OTHER", "GARBLED"} : Says(<<Line(k, "none")>>)
  /\ urcs' = urcs + 1
  /\ UNCHANGED <<state, pc, flagVars, timer, buffRecv, postCmd, usbVars, modem, cmd, booted,
                 posting, faults, histVars>>

Replies == Boot \/ Answer \/ AskBody \/ BodyStored \/ PostDone
Environment == DriverUp \/ Replies \/ Unsolicited

Next == Foreground \/ Interrupt \/ Environment

Spec == Init /\ [][Next]_vars

(***************************************************************************)
(* The main loop calls simcom_tasks for ever; interrupts are served; the   *)
(* driver comes up; transfers end and the modem answers what it is asked.  *)
(***************************************************************************)
Fairness ==
  /\ WF_vars(Foreground) /\ WF_vars(TimerTick)
  /\ WF_vars(ReadComplete) /\ WF_vars(WriteComplete)
  /\ WF_vars(DriverUp) /\ WF_vars(Boot) /\ WF_vars(Answer)
  /\ WF_vars(AskBody) /\ WF_vars(BodyStored) /\ WF_vars(PostDone)

FairSpec == Spec /\ Fairness

-----------------------------------------------------------------------------
(***************************************************************************)
(* Properties.                                                             *)
(***************************************************************************)

\* Type correctness of the sequencer, its transfers and the modem.
TypeOK ==
  /\ state \in States /\ pc \in PCs
  /\ ATread \in BOOLEAN /\ ATwrite \in BOOLEAN
  /\ pendingATCommandParse \in BOOLEAN /\ pendingResponse \in BOOLEAN
  /\ timer \in Nat
  /\ buffRecv \in Lines
  /\ postCmd \in BOOLEAN /\ driverReady \in BOOLEAN
  /\ reads \in Nat
  /\ writes \in Seq(Sendable)
  /\ modem \in {"idle", "exec", "input", "stored"}
  /\ cmd \in Sendable \cup {"none"}
  /\ out \in Seq(Lines)
  /\ booted \in BOOLEAN /\ posting \in BOOLEAN
  /\ faults \in Nat /\ urcs \in Nat
  /\ fresh \in BOOLEAN /\ missed \in BOOLEAN
  /\ quiet \in Nat /\ gpsFrom \in Kinds \cup {"none"}

\* A read or a write is never queued on a pipe that already has one, in spite
\* of the flag being lowered after the transfer was started and raised in an
\* interrupt: one buffer is never given to two transfers.
OneTransferPerPipe == reads <= 1 /\ Len(writes) <= 1

\* The final answers on their way to the parser.
Unread == {i \in DOMAIN out : Final(out[i])}
UnparsedFinal == fresh /\ Final(buffRecv)

\* The modem gets one command at a time: while a command is being sent, is
\* executed or has an answer nobody has parsed, no other command is under way;
\* and the body of the POST is only sent to a modem that asked for it.
OneCommandAtATime ==
  /\ writes # <<>> =>
       /\ modem = IF Head(writes) = "BODY" THEN "input" ELSE "idle"
       /\ Unread = {} /\ ~UnparsedFinal
  /\ modem # "idle" => Unread = {} /\ ~UnparsedFinal
  /\ \A i, j \in Unread : i = j
  /\ Unread # {} => ~UnparsedFinal

\* An answer is only ever waiting for the state that sent its command, so
\* that no state can take the answer of an earlier command for its own.
AnswersMatchState ==
  /\ \A i \in Unread : out[i].of = state
  /\ UnparsedFinal => buffRecv.of = state
  /\ modem # "idle" => cmd = state

\* Nothing is sent until *ATREADY has been heard and the modem has been left
\* alone for ListenMs afterwards (A7672E.c:311).
SilentUntilReady ==
  state \notin {"WAITING_DRIVER_READY", "NOT_READY"} => booted /\ quiet = ListenMs - 1

\* With no answer or completion lost, the state that is waiting is left: the
\* loss of one is the only way the sequencer stops short of READY or ERROR.
StalledOnlyByALoss ==
  \A s \in States \ {"ERROR"} : (state = s) ~> (state # s \/ missed)

\* The write flag is down with no write under way to raise it again.
WriteFlagLost == ~ATwrite /\ writes = <<>> /\ pc \notin {"wrote", "body"}

\* Nothing repairs that: no timeout, retry or reset raises the flag, so no
\* command is ever sent again.
LossIsForever == [][WriteFlagLost => WriteFlagLost' /\ writes' = <<>>]_vars

\* The command session the sequencer is meant to be (module AtSession), seen
\* through its flags, its transfers and the modem.
phase ==
  IF writes # <<>> \/ modem # "idle" THEN "asked"
  ELSE IF Unread # {} \/ UnparsedFinal THEN "answered"
  ELSE IF pendingResponse THEN "lost" ELSE "free"

Session == INSTANCE AtSession WITH step <- state, phase <- phase

\* Every step of the sequencer, with its interrupts, is a step of the plain
\* ask - answer - take session or is invisible there.
ImplementsSession == Session!Spec

-----------------------------------------------------------------------------
(***************************************************************************)
(* Claims of the sources that the code does not keep.                      *)
(***************************************************************************)

\* usb_A7672E.h:378-380: the contents of the buffer given to AT_Write should
\* not be changed till the write-complete event has occurred.
WriteBufferHeld ==
  [][writes # <<>> /\ Head(writes) = "HTTP_POST_DATA" => postCmd' = postCmd]_vars

\* A7672E.c:757: in REQUEST_GPS_INFO there is nothing to read either, so the
\* line parsed as the position is the one just printed.
NothingToReadForPosition == gpsFrom \in {"none", "GPSINFO"}
=============================================================================
