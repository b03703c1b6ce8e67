----------------------------- MODULE ReleaseWatch -----------------------------
(***************************************************************************)
(* What ReleasePulse promises of each deployment, with no worker, window   *)
(* or table in sight: once it is reported it gets one verdict, for good;   *)
(* messages are sent only about a deployment that was blamed, only after   *)
(* it was, at most Limit of them for each time an operator grants new      *)
(* attempts, and none after one of them is known to have arrived, unless   *)
(* an operator who does not know it grants new attempts.                   *)
(***************************************************************************)
EXTENDS Naturals

CONSTANTS
  Deployment,
  Limit       \* messages per deployment before an operator steps in

VARIABLES
  verdict,    \* of each deployment
  messages,   \* how many messages about it have arrived
  confirmed,  \* deployments held to have a message that arrived
  grants      \* how often an operator granted new attempts

vars == <<verdict, messages, confirmed, grants>>

Init ==
  /\ verdict = [d \in Deployment |-> "unreported"]
  /\ messages = [d \in Deployment |-> 0]
  /\ confirmed = {}
  /\ grants = [d \in Deployment |-> 0]

Report(d) ==
  /\ verdict[d] = "unreported"
  /\ verdict' = [verdict EXCEPT ![d] = "pending"]
  /\ UNCHANGED <<messages, confirmed, grants>>

Judge(d) ==
  /\ verdict[d] = "pending"
  /\ \E given \in {"blamed", "not blamed"} : verdict' = [verdict EXCEPT ![d] = given]
  /\ UNCHANGED <<messages, confirmed, grants>>

Unsettled(d) == verdict[d] = "blamed" /\ d \notin confirmed

Announce(d) ==
  /\ Unsettled(d)
  /\ messages[d] < Limit * (grants[d] + 1)
  /\ messages' = [messages EXCEPT ![d] = @ + 1]
  /\ UNCHANGED <<verdict, confirmed, grants>>

Confirm(d) ==
  /\ Unsettled(d)
  /\ messages[d] > 0
  /\ confirmed' = confirmed \cup {d}
  /\ UNCHANGED <<verdict, messages, grants>>

Grant(d) ==
  /\ verdict[d] = "blamed"
  /\ grants' = [grants EXCEPT ![d] = @ + 1]
  /\ confirmed' = confirmed \ {d}
  /\ UNCHANGED <<verdict, messages>>

Next ==
  \E d \in Deployment :
    Report(d) \/ Judge(d) \/ Announce(d) \/ Confirm(d) \/ Grant(d)

Spec == Init /\ [][Next]_vars
=============================================================================
