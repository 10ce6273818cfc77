---------------------------- MODULE ClientPromise ----------------------------
(***************************************************************************)
(* What tcp_client.h promises each owner of a connection: an open is       *)
(* answered once, by CONNECTED or by a failure, unless it is withdrawn;    *)
(* what is accepted for sending leaves in order, and only while the        *)
(* connection is up; TX, RX and DISCONNECTED are told of a connection that *)
(* is up and of no other.                                                  *)
(***************************************************************************)
EXTENDS Sequences, SequencesExt

CONSTANT Owners

VARIABLES
  phase,      \* of each owner's connection: "none", "asked" or "up"
  accepted,   \* bytes accepted for sending since it is up
  delivered,  \* bytes handed to the socket since then
  reports     \* what the owner has just been told, in order

promiseVars == <<phase, accepted, delivered, reports>>

Init ==
  /\ phase = [o \in Owners |-> "none"]
  /\ accepted = [o \in Owners |-> <<>>] /\ delivered = [o \in Owners |-> <<>>]
  /\ reports = [o \in Owners |-> <<>>]

Became(o, p, r) == phase'[o] = p /\ reports'[o] = r

\* Of a connection that is not up nothing is accepted and nothing sent.
Bare(o) == accepted'[o] = <<>> /\ delivered'[o] = <<>>

Open(o)      == phase[o] = "none" /\ Became(o, "asked", <<>>) /\ Bare(o)
Connected(o) == phase[o] = "asked" /\ Became(o, "up", <<"CONNECTED">>) /\ Bare(o)
Failed(o)    == phase[o] = "asked" /\ Bare(o)
                /\ (Became(o, "none", <<"TIMEOUT">>) \/ Became(o, "none", <<"ERROR">>))
Lost(o)      == phase[o] = "up" /\ Became(o, "none", <<"DISCONNECTED">>) /\ Bare(o)
Withdrawn(o) == phase[o] # "none" /\ Became(o, "none", <<>>) /\ Bare(o)
Quiet(o)     == Became(o, phase[o], <<>>) /\ accepted'[o] = accepted[o] /\ delivered'[o] = delivered[o]

Accept(o) == /\ phase[o] = "up" /\ Became(o, "up", <<>>)
             /\ IsPrefix(accepted[o], accepted'[o]) /\ delivered'[o] = delivered[o]

\* TX is told when bytes have left, RX when some can be read.
Exchange(o) ==
  /\ phase[o] = "up"
  /\ \E r \in {<<>>, <<"RX">>} :
       \/ Became(o, "up", r)
       \/ Became(o, "up", <<"TX">> \o r) /\ delivered[o] # delivered'[o]
  /\ IsPrefix(delivered[o], delivered'[o]) /\ IsPrefix(delivered'[o], accepted[o])
  /\ accepted'[o] = accepted[o]

Next == \A o \in Owners :
  Open(o) \/ Connected(o) \/ Failed(o) \/ Lost(o) \/ Withdrawn(o) \/ Quiet(o) \/ Accept(o) \/ Exchange(o)

Spec == Init /\ [][Next]_promiseVars
===============================================================================
