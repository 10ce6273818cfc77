---------------------------- MODULE ClockPromise ----------------------------
(***************************************************************************)
(* What mcp7940x_set_ts promises: a driver that is idle takes a time, and  *)
(* when it is idle again without an error in between the chip has it.      *)
(* Nothing else writes the time of the chip.                               *)
(***************************************************************************)
CONSTANTS
  Times,  \* the times that may be set
  None,   \* no time
  Torn    \* what an interrupted write leaves

VARIABLES
  time,   \* that of the chip
  set,    \* the time that is being set, or None
  status  \* "idle", "setting" or "busy"

promiseVars == <<time, set, status>>

Init == status = "busy" /\ set = None

Accept  == status = "idle" /\ status' = "setting" /\ set' \in Times /\ UNCHANGED time
Write   == status = "setting" /\ time' \in {set, Torn} /\ UNCHANGED <<set, status>>
Done    == status = "setting" /\ time = set /\ status' = "idle" /\ set' = None /\ UNCHANGED time
Fail    == status = "setting" /\ status' = "busy" /\ set' = None /\ UNCHANGED time
Consult == status # "setting" /\ status' \in {"idle", "busy"} /\ UNCHANGED <<time, set>>

Next == Accept \/ Write \/ Done \/ Fail \/ Consult

Spec == Init /\ [][Next]_promiseVars
=============================================================================
