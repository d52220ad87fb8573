---------------------------- MODULE QmiExchange ----------------------------
(***************************************************************************)
(* What the request functions of quectel-CM may assume of one exchange     *)
(* with the modem (QmiThreadSendQMITimeout): requests are issued one at a  *)
(* time, the modem runs each at most once and at a time of its own, even   *)
(* after the caller has given up; a caller that gets an answer gets the    *)
(* answer of ITS request, which the modem has run.  A caller that gets no  *)
(* answer knows nothing.                                                   *)
(***************************************************************************)
EXTENDS Naturals

VARIABLES
  issued,     \* number of requests issued so far; the last one is the current
  active,     \* the caller of the current request has not returned
  executed,   \* requests the modem has run
  answer      \* what the last caller got: a request number, or NoAnswer

vars == <<issued, active, executed, answer>>

NoAnswer == 0

Init ==
  /\ issued = 0
  /\ active = FALSE
  /\ executed = {}
  /\ answer = NoAnswer

Issue ==
  /\ ~active
  /\ issued' = issued + 1
  /\ active' = TRUE
  /\ answer' = NoAnswer
  /\ UNCHANGED executed

\* the device is closed: the request fails before the modem can see it
Refuse ==
  /\ ~active
  /\ issued' = issued + 1
  /\ answer' = NoAnswer
  /\ UNCHANGED <<active, executed>>

Execute(r) ==
  /\ r \in 1..issued \ executed
  /\ executed' = executed \cup {r}
  /\ UNCHANGED <<issued, active, answer>>

Answered ==
  /\ active
  /\ issued \in executed
  /\ active' = FALSE
  /\ answer' = issued
  /\ UNCHANGED <<issued, executed>>

GiveUp ==
  /\ active
  /\ active' = FALSE
  /\ answer' = NoAnswer
  /\ UNCHANGED <<issued, executed>>

Next ==
  \/ Issue
  \/ Refuse
  \/ \E r \in 1..issued : Execute(r)
  \/ Answered
  \/ GiveUp

Spec == Init /\ [][Next]_vars
=============================================================================
