------------------------------- MODULE MCBjnp -------------------------------
(* The three parts of the BJNP backend on small instances.  A run of the     *)
(* backend discovers printers or prints a job, and what it makes of status   *)
(* answers does not depend on the run loop: one part moves in a behaviour.   *)
EXTENDS BjnpJob, BjnpLevels, BjnpDiscover

VARIABLE part

allVars == <<jobVars, levelVars, discoverVars, part>>

\* A start command in the middle of the data.
SmallData == <<"d", "C", "d">>

\* Three types of which two share a name.
T3 == {"K", "BK", "C"}
N3 == [K |-> "Black", BK |-> "Black", C |-> "Cyan"]

Ink(a, x, b, y) == <<[type |-> a, warning |-> x], [type |-> b, warning |-> y]>>
Mark(a, x, b, y) == <<[type |-> a, level |-> x], [type |-> b, level |-> y]>>

\* Answers that are complete, broken off behind the first cartridge, of another
\* second cartridge, or silent about a part.
SmallStatuses ==
  {[cir |-> Mark("K", 50, "C", 50), dws |-> Ink("K", "OK", "C", "OK"), dbs |-> "idle", djs |-> "ok"],
   [cir |-> Mark("K", 10, "C", 50), dws |-> Ink("K", "LOW", "C", "OK"), dbs |-> "busy", djs |-> "out"],
   [cir |-> Mark("K", 10, "C", 0), dws |-> Ink("K", "LOW", "C", "EMPTY"), dbs |-> "error", djs |-> "cancelling"],
   [cir |-> <<>>, dws |-> Ink("K", "EMPTY", "bad", "OK"), dbs |-> "none", djs |-> "out"],
   [cir |-> Mark("K", 50, "bad", 0), dws |-> <<>>, dbs |-> "idle", djs |-> "none"],
   [cir |-> Mark("K", 50, "BK", 50), dws |-> Ink("K", "UNKNOWN", "BK", "LOW"), dbs |-> "idle", djs |-> "ok"]}

\* The second and the fifth interface get a socket; the last comes too late.
Interface(p, l, b) == [p2p |-> p, loopback |-> l, binds |-> b]
SmallInterfaces ==
  <<Interface(FALSE, TRUE, TRUE), Interface(FALSE, FALSE, TRUE), Interface(TRUE, FALSE, TRUE),
    Interface(FALSE, FALSE, FALSE), Interface(FALSE, FALSE, TRUE), Interface(FALSE, FALSE, TRUE)>>

\* One printer is reached by both sockets, by a better address on the second.
SmallAnswers ==
  {[sock |-> 1, owner |-> "q1", rank |-> 0], [sock |-> 2, owner |-> "q1", rank |-> 2],
   [sock |-> 1, owner |-> "q2", rank |-> 1]}
SmallKept == [q1 |-> 1, q2 |-> 2]

MCInit == JobInit /\ LevelsInit /\ DiscoverInit /\ part \in {"print", "report", "discover"}
          /\ (part # "report" => reasons = {})

Prints(A) == part = "print" /\ A /\ UNCHANGED <<levelVars, discoverVars, part>>
Finish == part = "discover" /\ stage = "finished" /\ UNCHANGED allVars

MCNext ==
  \/ Prints(JobNext)
  \/ part = "report" /\ LevelsNext /\ UNCHANGED <<jobVars, discoverVars, part>>
  \/ part = "discover" /\ DiscoverNext /\ UNCHANGED <<jobVars, levelVars, part>>
  \/ Finish

MCSpec ==
  /\ MCInit /\ [][MCNext]_allVars
  /\ WF_allVars(Prints(Main)) /\ WF_allVars(Prints(Iterate))
  /\ WF_allVars(Prints(IterateInput)) /\ WF_allVars(Prints(SelectTimeout))
  /\ WF_allVars(Prints(PrinterAccepts))
  /\ WF_allVars(part # "print" /\ MCNext)

\* Every print job comes to its end (JobEnds).
PrintEnds == part = "print" => JobEnds
=============================================================================
