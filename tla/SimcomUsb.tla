------------------------------- MODULE SimcomUsb -----------------------------
(***************************************************************************)
(* The AT sequencer (SimcomModem) on top of the real USB driver            *)
(* (UsbSimcom) instead of one that comes up once and stays.  The modem may *)
(* leave the bus and come back at any moment, resetting itself or not.     *)
(*                                                                         *)
(* simcom_tasks and USB_HOST_Tasks take turns in the main loop: one call   *)
(* of the one, one of the other.  A detach and the end of a transfer are   *)
(* interrupts, and come between any two statements of either.              *)
(***************************************************************************)
EXTENDS Naturals, Sequences, SimcomStates

CONSTANTS ListenMs, RestMs, MaxFaults, MaxUrcs, MaxOut, MaxAttaches, MaxUsbFaults, MaxDetaches

ASSUME TimesAssumption == ListenMs \in Nat \ {0, 1} /\ RestMs \in Nat \ {0, 1}
ASSUME BoundsAssumption ==
  /\ MaxFaults \in Nat /\ MaxUrcs \in Nat /\ MaxOut \in Nat
  /\ MaxAttaches \in Nat /\ MaxUsbFaults \in Nat /\ MaxDetaches \in Nat

VARIABLES
  state, pc, ATread, ATwrite, pendingATCommandParse, pendingResponse, timer, buffRecv,
  postCmd, reads, writes, modem, cmd, out, booted, posting, faults, urcs, fresh, missed,
  quiet, gpsFrom,
  bus, host, offered, drv, tasks, hostRequestDone, hostRequestResult, pipes, handler,
  halted, attaches, usbFaults,
  turn,         \* the task the main loop is in, or calls next
  detaches,     \* bound: times the modem has left the bus
  lateWrites,   \* history: writes accepted since the handler was dropped
  lateReads     \* history: reads accepted since the handler was dropped

M == INSTANCE SimcomModem WITH driverReady <- (drv = "READY")
U == INSTANCE UsbSimcom
       WITH writes <- Len(writes), installed <- (state # "WAITING_DRIVER_READY"),
            MaxFaults <- MaxUsbFaults, MaxMoving <- 2

seqVars == <<state, pc, ATread, ATwrite, pendingATCommandParse, pendingResponse, timer,
             buffRecv, postCmd, reads, writes, modem, cmd, out, booted, posting, faults,
             urcs, fresh, missed, quiet, gpsFrom>>
usbVars == <<bus, host, offered, drv, tasks, hostRequestDone, hostRequestResult, pipes,
             handler, halted, attaches, usbFaults>>
lateVars == <<lateWrites, lateReads>>
vars == <<seqVars, usbVars, turn, detaches, lateVars>>

Init ==
  /\ drv = "NOT_READY"
  /\ M!Init /\ U!UsbInit
  /\ turn = "simcom" /\ detaches = 0 /\ lateWrites = 0 /\ lateReads = 0

\* The client had set its handler and the driver has dropped it.
HandlerDropped == state # "WAITING_DRIVER_READY" /\ ~handler

-----------------------------------------------------------------------------
(***************************************************************************)
(* The main loop.                                                          *)
(***************************************************************************)

\* simcom_tasks asks the driver: set the handler, write, read.
CallsDriver ==
  \/ M!AttachHandler /\ U!EventHandlerSet /\ UNCHANGED lateVars
  \/ /\ M!WriteCommand \/ (M!SendBody /\ UNCHANGED faults)
     /\ U!AT_Write
     /\ lateWrites' = IF HandlerDropped THEN lateWrites + 1 ELSE lateWrites
     /\ UNCHANGED lateReads
  \/ /\ M!PostRead /\ U!AT_Read
     /\ lateReads' = IF HandlerDropped THEN lateReads + 1 ELSE lateReads
     /\ UNCHANGED lateWrites

\* The driver is not READY or the handle of the pipe is invalid.
Refused ==
  /\ \/ ~U!Accepts(U!ATout) /\ (M!WriteNotSent \/ (ATwrite /\ M!DropBody))
     \/ ~U!Accepts(U!ATin) /\ M!ReadNotPosted
  /\ UNCHANGED <<faults, usbVars, lateVars>>

\* The statements that do not call the driver.
Local ==
  /\ \/ M!NothingToWrite \/ M!WriteAccepted \/ M!NothingToRead \/ M!ReadAccepted
     \/ M!NothingToParse \/ M!ParseAnswer \/ M!ParseError
     \/ (~ATwrite /\ M!DropBody /\ UNCHANGED faults)
     \/ M!ParseAtReady \/ M!ParsePosition \/ M!ParseOther \/ M!BodyAccepted
     \/ M!ClearBuffer \/ M!ParseDone \/ M!ListenTimer \/ M!ComposePosition \/ M!RestOver
  /\ UNCHANGED <<usbVars, lateVars>>

\* A call in which there is nothing to do.
NothingToDo ==
  /\ pc = "write"
  /\ \/ state = "WAITING_DRIVER_READY" /\ drv # "READY"
     \/ state = "READY" /\ timer # 1
     \/ state = "ERROR"
  /\ UNCHANGED <<seqVars, usbVars, lateVars>>

SequencerCall ==
  /\ turn = "simcom" /\ UNCHANGED drv
  /\ CallsDriver \/ Refused \/ Local \/ NothingToDo
  /\ turn' = IF pc' = "write" THEN "host" ELSE "simcom"
  /\ UNCHANGED detaches

\* One call of usb_simcom_tasks or of USB_HOST_Tasks, which may find nothing
\* to do or wait for the bus.
HostCall ==
  /\ turn = "host"
  /\ UNCHANGED <<seqVars, detaches, lateVars>>
  /\ U!BusTasks \/ U!HostLayer \/ U!DeviceTasks
  /\ turn' = IF U!Between' THEN "simcom" ELSE "host"

HostWaits ==
  /\ turn = "host" /\ U!Between
  /\ turn' = "simcom"
  /\ UNCHANGED <<seqVars, usbVars, detaches, lateVars>>

-----------------------------------------------------------------------------
(***************************************************************************)
(* Interrupts.                                                             *)
(***************************************************************************)

\* The end of a transfer is reported to the handler ...
Reported == handler /\ (M!ReadComplete \/ M!WriteComplete)

\* ... and to nobody without one: the bytes have moved all the same.
Unreported ==
  /\ ~handler
  /\ \/ M!Receive /\ UNCHANGED <<pendingATCommandParse, ATread>>
     \/ M!Transmit /\ UNCHANGED <<pendingResponse, ATwrite>>

TransferDone ==
  /\ UNCHANGED drv
  /\ Reported \/ Unreported
  /\ U!TransferDone
  /\ UNCHANGED <<turn, detaches, lateVars>>

\* Mutant of AbortsReported: a detach ends the wait for the answer.
AbortsForgetAnswer ==
  /\ writes' = <<>> /\ reads' = 0
  /\ ATread' = TRUE /\ ATwrite' = TRUE
  /\ pendingResponse' = FALSE
  /\ UNCHANGED pendingATCommandParse

\* simcomEventHandler is told of the transfers that closing the pipes ended.
AbortsReported ==
  /\ writes' = <<>> /\ reads' = 0
  /\ IF handler /\ reads > 0
     THEN pendingATCommandParse' = TRUE /\ ATread' = TRUE
     ELSE UNCHANGED <<pendingATCommandParse, ATread>>
  /\ IF handler /\ writes # <<>>
     THEN pendingResponse' = TRUE /\ ATwrite' = TRUE
     ELSE UNCHANGED <<pendingResponse, ATwrite>>

\* The modem leaves the bus, because it restarts or only for a moment.
ModemRestarts ==
  /\ modem' = "idle" /\ out' = <<>> /\ booted' = FALSE /\ posting' = FALSE
  /\ UNCHANGED cmd
ModemStays == UNCHANGED <<modem, cmd, out, booted, posting>>

Detach ==
  /\ detaches < MaxDetaches /\ detaches' = detaches + 1
  /\ IF host \in U!Owned THEN AbortsReported
     ELSE UNCHANGED <<reads, writes, pendingATCommandParse, ATread, pendingResponse, ATwrite>>
  /\ ModemRestarts \/ ModemStays
  /\ missed' = TRUE
  /\ UNCHANGED <<state, pc, timer, buffRecv, postCmd, faults, urcs, fresh, quiet, gpsFrom,
                 turn, lateVars>>
  /\ U!Detach

\* The timer and the modem go on by themselves.
Alone == UNCHANGED <<usbVars, turn, detaches, lateVars>>
Elsewhere == Alone /\ (M!TimerTick \/ M!Replies \/ M!Unsolicited)

Next == ~halted /\ (SequencerCall \/ HostCall \/ HostWaits \/ TransferDone \/ Detach \/ Elsewhere)

Spec == Init /\ [][Next]_vars

\* The main loop, the interrupts and the modem, as in the parts; the modem is
\* found on the bus when it is there, and no Detach has to happen.
Fairness ==
  /\ WF_vars(~halted /\ SequencerCall) /\ WF_vars(~halted /\ TransferDone)
  /\ WF_vars(~halted /\ Alone /\ M!TimerTick)
  /\ WF_vars(~halted /\ Alone /\ M!Replies)
  /\ WF_vars(~halted /\ (HostCall \/ HostWaits)) /\ SF_vars(~halted /\ HostCall)

FairSpec == Spec /\ Fairness

-----------------------------------------------------------------------------
(***************************************************************************)
(* Properties.                                                             *)
(***************************************************************************)

\* With a modem that stays on the bus, sequencer and driver together are the
\* sequencer over a driver that comes up once (SimcomModem).
SequencerOverReadyDriver == M!Spec

\* With a modem that stays, they leave every state as SimcomModem does, the
\* wait for the driver included.
StalledOnlyByALoss == M!StalledOnlyByALoss

\* A detach, whether the modem restarts or not, does not put question and
\* answer out of step: the command that is sent after it is never sent to a
\* modem that still owes an answer, and no body to one that did not ask.
OneCommandAtATime == M!OneCommandAtATime

\* The sequencer never sets its handler again, so that a modem that came back
\* is sent one more command at most and read once: the reports are over.
OverAfterDetach == lateWrites <= 1 /\ lateReads <= 1

\* Both, of every behaviour with a detach.
DetachEndsTheSession == OneCommandAtATime /\ OverAfterDetach

\* usb_A7672E.h:289-291: the driver calls the handler in response to the
\* transfers that have been scheduled by the client.
EveryTransferReported ==
  [][(reads' < reads \/ Len(writes') < Len(writes)) => handler]_vars
=============================================================================
