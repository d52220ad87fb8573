-------------------------- MODULE MCQmiTransaction --------------------------
(* The control channel and the data path of the modem on small instances:   *)
(* quectel-CM's QMI transactions, the driver's uplink, and its data.  They  *)
(* share no state but link_state, which QmapDriver has: one part moves in a *)
(* behaviour.                                                               *)
EXTENDS QmiTransaction, QmapDriver, QmapData

VARIABLE part

allVars == <<vars, qmapVars, dataVars, part>>

\* What the environment of the driver does in one behaviour.
Env(r, a, b, s, l, z) ==
  [nets |-> r, pkts |-> (1 :> a @@ 2 :> b), stops |-> s, leaves |-> l, naps |-> z]
SmallBudgets ==
  {Env({1, 2}, 1, 1, 0, 0, 0), Env({1}, 1, 0, 1, 0, 0), Env({1, 2}, 0, 0, 2, 0, 0),
   Env({1}, 2, 0, 0, 1, 0), Env({1}, 2, 0, 0, 0, 1)}

\* Transfers of three packets: well formed, with a command, with a foreign mux
\* id, with a packet that is too long, not IP or cut off.
Pk(i, m, pay) == [id |-> i, mux |-> m, cd |-> FALSE, ip |-> TRUE, pay |-> pay, cut |-> FALSE]
SmallTransfers ==
  {<<Pk(1, 1, 3), Pk(2, 2, 4), Pk(3, 1, 5)>>,
   <<[Pk(1, 1, 1) EXCEPT !.cd = TRUE], Pk(2, 1, 6), Pk(3, 2, 2)>>,
   <<Pk(1, 1, 2), Pk(2, 7, 2), Pk(3, 2, 1)>>,
   <<Pk(1, 2, 2), Pk(2, 1, 9), Pk(3, 2, 1)>>,
   <<Pk(1, 2, 1), [Pk(2, 1, 2) EXCEPT !.ip = FALSE], Pk(3, 1, 2)>>,
   <<Pk(1, 2, 1), [Pk(2, 1, 2) EXCEPT !.cut = TRUE]>>}

MCInit ==
  /\ Init /\ QmapInit /\ DataInit /\ part \in {"control", "uplink", "data"}
  /\ part # "uplink" => budget = Env({1, 2}, 0, 0, 2, 0, 0)
  /\ part # "data" => mode = "raw"

Control(A) == part = "control" /\ A /\ UNCHANGED <<qmapVars, dataVars, part>>
Uplink(A) == part = "uplink" /\ A /\ UNCHANGED <<vars, dataVars, part>>

\* The modem and the stack may have nothing to send.
Quiet == part # "control" /\ UNCHANGED allVars

MCNext ==
  \/ Control(Next)
  \/ Uplink(QmapNext)
  \/ part = "data" /\ DataNext /\ UNCHANGED <<vars, qmapVars, part>>
  \/ Quiet

MCSpec ==
  /\ MCInit /\ [][MCNext]_allVars
  /\ WF_allVars(Control(MainStep)) /\ WF_allVars(Control(ReaderStep))
  /\ WF_allVars(Uplink(RealSteps)) /\ WF_allVars(Uplink(Tasklet))
  /\ WF_allVars(Uplink(qmi_wwan_resume))
  /\ \A n \in Nets : /\ WF_allVars(Uplink(Xmits(n))) /\ WF_allVars(Uplink(Flushes(n)))
                     /\ WF_allVars(Uplink(Unregisters(n)))
=============================================================================
