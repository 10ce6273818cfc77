------------------------------- MODULE AtSession -----------------------------
(***************************************************************************)
(* What the sequencer of firmware/A7672E.c is meant to be: a session that  *)
(* asks the modem one thing at a time and moves on only with the answer.   *)
(* No buffer, no flag, no interrupt.  An answer can be lost, and then the  *)
(* session is over: A7672E.c has neither a timeout nor a second try.       *)
(***************************************************************************)
EXTENDS SimcomStates

VARIABLES
  step,   \* the state of the chain
  phase   \* of the command of that state: not yet asked, asked, answered, lost

sessionVars == <<step, phase>>

SessionInit == step = "WAITING_DRIVER_READY" /\ phase = "free"

Ask ==
  /\ phase = "free" /\ step \in CommandStates
  /\ phase' = "asked" /\ UNCHANGED step

AnswerArrives ==
  /\ phase = "asked"
  /\ phase' = "answered" /\ UNCHANGED step

Take ==
  /\ phase = "answered" /\ step \in CommandStates
  /\ phase' = "free"
  /\ step' \in {Sequel(step), SequelOfError(step)}

Lose ==
  /\ phase \in {"asked", "answered"}
  /\ phase' = "lost" /\ UNCHANGED step

\* The states that ask nothing move on by themselves.
Follow ==
  [WAITING_DRIVER_READY    |-> "NOT_READY",
   NOT_READY               |-> "DISABLING_ECO",
   HTTP_WAIT_POST_RESPONSE |-> "HTTP_STOP_SERVICE",
   REQUEST_GPS_INFO        |-> "HTTP_POST_DATA",
   READY                   |-> "HTTPS_INIT"]

MoveOn ==
  /\ phase = "free" /\ step \in DOMAIN Follow
  /\ step' = Follow[step] /\ UNCHANGED phase

SessionNext == Ask \/ AnswerArrives \/ Take \/ Lose \/ MoveOn

Spec == SessionInit /\ [][SessionNext]_sessionVars
=============================================================================
