------------------------------ MODULE Mcp7940x ------------------------------
(***************************************************************************)
(* The driver of the external clock chip, firmware/drv/drv_mcp7940x.c, and *)
(* pmz_time_set of firmware/drv/pmz_time.c, which sets the internal clock  *)
(* and asks the driver to set the chip.                                    *)
(*                                                                         *)
(* drv_mcp7940x_tasks is called by the main loop and advances the driver,  *)
(* or its sub-task (a wait, a read or a write of the registers), by one    *)
(* step; the I2C transfer itself goes on in interrupts and may fail.  The  *)
(* times are names: the clocks stand still between two settings.           *)
(***************************************************************************)
EXTENDS Naturals

CONSTANTS
  Times,       \* the times that SNTP and the console set
  Factory,     \* what the two clocks show at power-up, and
  Torn,        \* what an interrupted transfer leaves of two different times
  None,
  MaxFailures  \* bound: transfers that fail and delays that are refused

\* Assumed by the modules that instantiate this one.
FailuresAssumption == MaxFailures \in Nat

States == {"INIT", "IDLE", "REFRESH_DATA", "CHECK_ON", "TURN_ON", "REFRESH_FOR_UPDATE",
           "UPDATING", "ERROR"}
BusStates == {"IDLE", "INIT", "IN_PROGRESS", "COMPLETED", "NAK", "COLLISION", "ERROR"}

VARIABLES
  rtcc,      \* the internal clock
  sm,        \* drvData.sm_currentState
  sub,       \* subtaskData: the sub-task or "none", its step and the two states it leads to
  i2c,       \* i2cData.state
  bus,       \* the I2C peripheral: busy or not, and the error of its last transfer
  sys,       \* drvData.sys, the image of the registers: ST, VBATEN and the time
  chip,      \* those registers
  ts_local,  \* drvData.ts_local
  cb,        \* drvData.cb: "none", "init" or "app"
  owed,      \* history: the callback of mcp7940x_get_ts is yet to come
  missed,    \* history: the last time set has been refused or has failed
  failures

driverVars == <<sm, sub, i2c, sys, ts_local, cb>>
vars == <<rtcc, driverVars, bus, chip, owed, missed, failures>>

Errors == {"NONE", "NACK", "BUS_COLLISION"}

\* sub_task_init; every sub-task ends in ERROR if it does not succeed.
Sub(task, ok) == [task |-> task, step |-> 0, ok |-> ok, err |-> "ERROR"]
Anything == Times \cup {Factory, Torn}
Regs == [st : BOOLEAN, vbaten : BOOLEAN, time : Anything]
Setting == sm \in {"REFRESH_FOR_UPDATE", "UPDATING"}

\* drv_mcp7940x_init, with a chip that may have kept its time on its battery or not.
Init ==
  /\ rtcc = Factory /\ sm = "INIT" /\ sub = Sub("wait", "INIT") /\ i2c = "IDLE"
  /\ bus = [busy |-> FALSE, error |-> "NONE"] /\ cb = "none" /\ ts_local = None
  /\ chip \in [st : BOOLEAN, vbaten : BOOLEAN, time : {Factory}]
  /\ sys = [st |-> FALSE, vbaten |-> FALSE, time |-> Factory]
  /\ owed = FALSE /\ missed = TRUE /\ failures = 0

MayFail == failures < MaxFailures /\ failures' = failures + 1

-----------------------------------------------------------------------------
(***************************************************************************)
(* The sub-tasks.                                                          *)
(***************************************************************************)
\* Mutant of End: the bus is left in its state.
EndKeepsBus(ok) ==
  /\ sub' = [sub EXCEPT !.task = "none"] /\ UNCHANGED i2c
  /\ sm' = IF ok THEN sub.ok ELSE sub.err
  /\ missed' = (missed \/ (Setting /\ ~ok))

\* sub_task_end
End(ok) ==
  /\ sub' = [sub EXCEPT !.task = "none"] /\ i2c' = "IDLE"
  /\ sm' = IF ok THEN sub.ok ELSE sub.err
  /\ missed' = (missed \/ (Setting /\ ~ok))

\* sub_task_wait
WaitStart ==
  /\ sub.task = "wait" /\ sub.step = 0
  /\ \/ sub' = [sub EXCEPT !.step = 1] /\ UNCHANGED <<sm, i2c, missed, failures>>
     \/ MayFail /\ End(FALSE)
  /\ UNCHANGED <<rtcc, sys, ts_local, cb, bus, chip, owed>>

WaitEnd ==
  /\ sub.task = "wait" /\ sub.step = 1 /\ End(TRUE)
  /\ UNCHANGED <<rtcc, sys, ts_local, cb, bus, chip, owed, failures>>

Outcome(error) ==
  CASE error = "NONE" -> "COMPLETED" [] error = "BUS_COLLISION" -> "COLLISION" [] error = "NACK" -> "NAK"

\* i2c_task: what becomes of i2cData.state.
I2cTask ==
  CASE i2c = "INIT" /\ ~bus.busy -> "IN_PROGRESS"
    [] i2c = "IN_PROGRESS" /\ ~bus.busy -> Outcome(bus.error)
    [] OTHER -> i2c

Starts == i2c = "INIT" /\ ~bus.busy
Ends == i2c = "IN_PROGRESS" /\ ~bus.busy

\* Step 1 of sub_task_read_registers and of sub_task_write_registers.
TransferEnds(now) ==
  /\ sub.step = 1
  /\ \/ now = "NAK" /\ sub' = [sub EXCEPT !.step = 0] /\ i2c' = now /\ UNCHANGED <<sm, missed>>
     \/ now = "COMPLETED" /\ End(TRUE)
     \/ now \in {"COLLISION", "ERROR"} /\ End(FALSE)
     \/ now \in {"INIT", "IN_PROGRESS"} /\ i2c' = now /\ UNCHANGED <<sub, sm, missed>>

\* Step 0; i2c_rw refuses unless its own state is IDLE.
TransferStarts(now) ==
  /\ sub.step = 0
  /\ \/ now = "IDLE" /\ i2c' = "INIT" /\ sub' = [sub EXCEPT !.step = 1] /\ UNCHANGED <<sm, missed>>
     \/ now # "IDLE" /\ End(FALSE)

Transfer ==
  /\ sub.task \in {"read", "write"}
  /\ TransferStarts(I2cTask) \/ TransferEnds(I2cTask)
  /\ bus' = [busy |-> bus.busy \/ Starts, error |-> IF Ends THEN "NONE" ELSE bus.error]
  /\ UNCHANGED <<rtcc, sys, chip, ts_local, cb, owed, failures>>

-----------------------------------------------------------------------------
(***************************************************************************)
(* drv_mcp7940x_tasks when no sub-task is pending.                         *)
(***************************************************************************)
Task(state) == sub.task = "none" /\ sm = state

\* Of the tasks only these ones call or set the callback.
InitTask ==
  /\ Task("INIT") /\ sm' = "REFRESH_DATA" /\ cb' = "init"
  /\ UNCHANGED <<rtcc, sub, i2c, sys, ts_local, bus, chip, owed, missed, failures>>

IsOn(regs) == regs.st /\ regs.vbaten

CheckOn ==
  /\ Task("CHECK_ON") /\ ts_local' = sys.time
  /\ sm' = IF IsOn(sys) THEN "IDLE" ELSE "TURN_ON"
  /\ cb' = IF cb = "init" THEN "none" ELSE cb
  /\ owed' = (owed /\ cb # "app")
  /\ UNCHANGED <<rtcc, sub, i2c, sys, bus, chip, missed, failures>>

Begins(state, regs, next) ==
  /\ Task(state) /\ i2c = "IDLE" /\ sys' = regs /\ sub' = next
  /\ UNCHANGED <<rtcc, sm, i2c, ts_local, cb, bus, chip, owed, missed, failures>>

RefreshData == Begins("REFRESH_DATA", sys, Sub("read", "CHECK_ON"))
RefreshForUpdate == Begins("REFRESH_FOR_UPDATE", sys, Sub("read", "UPDATING"))
TurnOn == Begins("TURN_ON", [sys EXCEPT !.st = TRUE, !.vbaten = TRUE], Sub("write", "IDLE"))

\* Mutant of Updating: the registers are written as they were read.
UpdatingTimeKept == Begins("UPDATING", sys, Sub("write", "IDLE"))

Updating == Begins("UPDATING", [sys EXCEPT !.time = ts_local], Sub("write", "IDLE"))

ErrorTask ==
  /\ Task("ERROR") /\ sub' = Sub("wait", "INIT")
  /\ UNCHANGED <<rtcc, sm, i2c, sys, ts_local, cb, bus, chip, owed, missed, failures>>

Tasks == \/ WaitStart \/ Transfer \/ InitTask \/ CheckOn \/ RefreshData \/ RefreshForUpdate
         \/ TurnOn \/ Updating \/ ErrorTask

-----------------------------------------------------------------------------

\* mcp7940x_get_ts
GetTs ==
  /\ sm = "IDLE" /\ sm' = "REFRESH_DATA" /\ cb' = "app" /\ owed' = TRUE
  /\ UNCHANGED <<rtcc, sub, i2c, sys, ts_local, bus, chip, missed, failures>>

\* The test at the head of mcp7940x_set_ts.
TakesTs == sm = "IDLE"

\* pmz_time_set and mcp7940x_set_ts: a driver that is not idle refuses.
SetTime(t) ==
  /\ rtcc' = t
  /\ \/ TakesTs /\ ts_local' = t /\ sm' = "REFRESH_FOR_UPDATE" /\ missed' = FALSE
     \/ ~TakesTs /\ missed' = TRUE /\ UNCHANGED <<ts_local, sm>>
  /\ UNCHANGED <<sub, i2c, sys, cb, bus, chip, owed, failures>>

\* What a transfer that was cut short leaves of new registers in old ones.
Mixed(old, new) ==
  [st : {old.st, new.st}, vbaten : {old.vbaten, new.vbaten},
   time : {old.time, new.time} \cup (IF old.time = new.time THEN {} ELSE {Torn})]

\* The interrupts of the peripheral end the transfer.
BusEnds ==
  /\ bus.busy
  /\ \/ /\ bus' = [busy |-> FALSE, error |-> "NONE"] /\ UNCHANGED failures
        /\ \/ sub.task = "read" /\ sys' = chip /\ UNCHANGED chip
           \/ sub.task # "read" /\ chip' = sys /\ UNCHANGED sys
     \/ /\ MayFail
        /\ \E e \in Errors \ {"NONE"} : bus' = [busy |-> FALSE, error |-> e]
        /\ \/ sub.task = "read" /\ sys' \in Mixed(sys, chip) /\ UNCHANGED chip
           \/ sub.task # "read" /\ chip' \in Mixed(chip, sys) /\ UNCHANGED sys
  /\ UNCHANGED <<rtcc, sm, sub, i2c, ts_local, cb, owed, missed>>

Next == Tasks \/ WaitEnd \/ GetTs \/ BusEnds \/ \E t \in Times : SetTime(t)

Spec == Init /\ [][Next]_vars

\* The main loop goes on, the delay passes and the peripheral ends its transfers
\* (the driver has no timeout of its own).
FairSpec == Spec /\ WF_vars(Tasks) /\ WF_vars(WaitEnd) /\ WF_vars(BusEnds)

-----------------------------------------------------------------------------
(***************************************************************************)
(* Properties.                                                             *)
(***************************************************************************)
\* Types of the variables.
TypeOK ==
  /\ rtcc \in Anything /\ sm \in States /\ i2c \in BusStates /\ sys \in Regs /\ chip \in Regs
  /\ sub \in [task : {"none", "wait", "read", "write"}, step : {0, 1}, ok : States, err : {"ERROR"}]
  /\ bus \in [busy : BOOLEAN, error : Errors] /\ ts_local \in Anything \cup {None}
  /\ cb \in {"none", "init", "app"} /\ {owed, missed} \subseteq BOOLEAN /\ failures \in 0..MaxFailures

\* While a transfer is on its way the image of the registers belongs to it, and the
\* next one is not begun.
ImageHeld == bus.busy => sub.task \in {"read", "write"} /\ sub.step = 1 /\ i2c = "IN_PROGRESS"

\* An idle driver has a chip that runs and keeps its time on the battery.
RunsWhenIdle == sm = "IDLE" => chip.st /\ chip.vbaten

\* The two clocks agree once the driver is idle, unless the chip has missed a time.
ClocksAgree == sm = "IDLE" /\ ~missed => chip.time = rtcc

\* What mcp7940x_set_ts promises.
Promise == INSTANCE ClockPromise WITH
  time <- chip.time,
  set <- IF Setting THEN ts_local ELSE None,
  status <- IF Setting THEN "setting" ELSE IF sm = "IDLE" THEN "idle" ELSE "busy"
KeepsPromise == Promise!Spec

\* The driver comes back to idle after every error.
ComesBack == []<>(sm = "IDLE")

\* A callback that was promised comes, unless a transfer has failed.
Answered == owed ~> (~owed \/ failures > 0)

\* i2c_rw refuses a transaction only while the bus is busy, as its comment says
\* ("Bus busy"): a NAK, after which the sub-task steps back to try again, is over.
RefusedOnlyBusy ==
  [][sub.task \in {"read", "write"} /\ sub.step = 0 /\ sub'.task = "none" => bus.busy]_vars
=============================================================================
