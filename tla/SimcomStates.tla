----------------------------- MODULE SimcomStates ----------------------------
(***************************************************************************)
(* The chain of states of simcom_tasks(), firmware/A7672E.c: which states  *)
(* send a command, which line each waits for and where it leads.           *)
(***************************************************************************)

\* States that send a command and wait for its answer.
CommandStates ==
  {"DISABLING_ECO", "SETTING_FULL_FUNCTIONALITY", "GETTING_SIM_PIN_STATUS",
   "GETTING_MOBILE_NETWORK_STATUS", "GETTING_GPRS_NETWORK_STATUS",
   "GETTING_EPS_NETWORK_STATUS", "DEFINING_PDP_CONTEXT",
   "ACTIVATING_PDP_CONTEXT", "VERIFY_PDP_ADDRESS", "HTTPS_INIT",
   "HTTPS_SET_URL", "HTTPS_SET_JSON_FORMAT", "HTTP_POST_DATA",
   "HTTP_SEND_POST_REQUEST", "HTTP_READ_HEADER", "HTTP_READ_RESPONSE",
   "HTTP_STOP_SERVICE"}

\* States that read and parse but send nothing.
ListenStates == {"NOT_READY", "HTTP_WAIT_POST_RESPONSE"}

States ==
  CommandStates \cup ListenStates
    \cup {"WAITING_DRIVER_READY", "REQUEST_GPS_INFO", "READY", "ERROR"}

\* Where the awaited answer of a state leads.
Sequel(s) ==
  CASE s = "DISABLING_ECO"                 -> "SETTING_FULL_FUNCTIONALITY"
    [] s = "SETTING_FULL_FUNCTIONALITY"    -> "GETTING_SIM_PIN_STATUS"
    [] s = "GETTING_SIM_PIN_STATUS"        -> "GETTING_MOBILE_NETWORK_STATUS"
    [] s = "GETTING_MOBILE_NETWORK_STATUS" -> "GETTING_GPRS_NETWORK_STATUS"
    [] s = "GETTING_GPRS_NETWORK_STATUS"   -> "GETTING_EPS_NETWORK_STATUS"
    [] s = "GETTING_EPS_NETWORK_STATUS"    -> "DEFINING_PDP_CONTEXT"
    [] s = "DEFINING_PDP_CONTEXT"          -> "ACTIVATING_PDP_CONTEXT"
    [] s = "ACTIVATING_PDP_CONTEXT"        -> "VERIFY_PDP_ADDRESS"
    [] s = "VERIFY_PDP_ADDRESS"            -> "HTTPS_INIT"
    [] s = "HTTPS_INIT"                    -> "HTTPS_SET_URL"
    [] s = "HTTPS_SET_URL"                 -> "HTTPS_SET_JSON_FORMAT"
    [] s = "HTTPS_SET_JSON_FORMAT"         -> "REQUEST_GPS_INFO"
    [] s = "HTTP_POST_DATA"                -> "HTTP_SEND_POST_REQUEST"
    [] s = "HTTP_SEND_POST_REQUEST"        -> "HTTP_WAIT_POST_RESPONSE"
    [] s = "HTTP_WAIT_POST_RESPONSE"       -> "HTTP_STOP_SERVICE"
    [] s = "HTTP_READ_HEADER"              -> "HTTP_READ_RESPONSE"
    [] s = "HTTP_READ_RESPONSE"            -> "HTTP_STOP_SERVICE"
    [] OTHER                               -> "READY"   \* HTTP_STOP_SERVICE

\* Where an ERROR answer leads: the EPS query may fail, nothing else may.
SequelOfError(s) ==
  IF s = "GETTING_EPS_NETWORK_STATUS" THEN "DEFINING_PDP_CONTEXT" ELSE "ERROR"

\* The kind of line that takes a state to its sequel.
Awaited(s) ==
  CASE s = "HTTP_WAIT_POST_RESPONSE" -> "HTTPACTION"
    [] s = "HTTP_READ_RESPONSE"      -> "HTTPREAD"
    [] OTHER                         -> "OK"

\* States that wait for the answer of a command or for +HTTPACTION.
AnswerableStates == CommandStates \cup {"HTTP_WAIT_POST_RESPONSE"}
=============================================================================
