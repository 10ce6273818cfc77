--------------------------- MODULE MessageStream ---------------------------
(***************************************************************************)
(* What the assembly of WebSocket frames promises the application: each    *)
(* message of the server, whole, once, in order, of the kind its first     *)
(* fragment has said, whatever control frames come between the fragments.  *)
(***************************************************************************)
EXTENDS Sequences, Naturals

VARIABLES
  message,  \* the payload that the server has sent of its last message
  whole,    \* its last fragment has been sent to the end
  out       \* the message handed to onMessage by the last step, or Nothing

streamVars == <<message, whole, out>>

Nothing == [opcode |-> "none", payload |-> <<>>]

Init == message = <<>> /\ whole = TRUE /\ out = Nothing

\* One more byte: of a header, or of the payload.
Longer(from) == message' = from \/ message' = Append(from, Len(from) + 1)

Begins == whole /\ ~whole' /\ message' = <<>> /\ out' = Nothing
Goes   == ~whole /\ ~whole' /\ Longer(message) /\ out' = Nothing
Ends   == ~whole /\ whole' /\ Longer(message) /\ out' = [opcode |-> "data", payload |-> message']

\* A byte of a control frame.
Beside == UNCHANGED <<message, whole>> /\ out' = Nothing

\* A new connection; what the old one has not ended is never handed over.
Anew == whole' /\ message' = <<>> /\ out' = Nothing

Next == Begins \/ Goes \/ Ends \/ Beside \/ Anew

Spec == Init /\ [][Next]_streamVars
=============================================================================
