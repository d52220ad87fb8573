------------------------------ MODULE MCCfMove ------------------------------
(* Three services of the router on small instances: a deployment of the     *)
(* Cloudflare Tunnel plugin that moves to another account, the reader of    *)
(* the URL log, and several connection managers for one modem.  They share  *)
(* nothing: one of them moves in a behaviour.                               *)
EXTENDS MCCfDeploy, UrlReader, CmBrothers

VARIABLE part

allVars == <<vars, urlVars, brotherVars, part>>

\* Four events of two lengths, all known, or with one that is not; behind it,
\* where reading goes on after a drop, the end of an event looks like a header.
SmallLens == <<2, 3, 2, 3>>
SmallStreams ==
  {[bad |-> {}, fake |-> <<>>], [bad |-> {2}, fake |-> <<>>], [bad |-> {2}, fake |-> (<<3, 2>> :> 3)]}

\* Three managers that take over from each other, two with a modem that fails
\* twice, two and a search for them.
Plan(who, s, b) == [starts |-> who, seeks |-> s, breaks |-> b]
SmallPlans == {Plan({1, 2, 3}, FALSE, 1), Plan({1, 2}, FALSE, 2), Plan({1, 2}, TRUE, 0)}

Cloudflare(A) == part = "cloudflare" /\ A /\ UNCHANGED <<urlVars, brotherVars, part>>
Urllogger(A) == part = "urllogger" /\ A /\ UNCHANGED <<vars, brotherVars, part>>
Managers(A) == part = "managers" /\ A /\ UNCHANGED <<vars, urlVars, part>>

\* The reader has ended; no manager is left.
Over ==
  /\ \/ part = "urllogger" /\ upc = "ended"
     \/ part = "managers" /\ \A p \in plan.starts : at[p] \in {"dead", "run", "stuck"}
  /\ UNCHANGED allVars

MCInit ==
  /\ Init /\ UrlInit /\ BrotherInit /\ part \in {"cloudflare", "urllogger", "managers"}
  /\ part # "urllogger" => bad = {} /\ ~cache
  /\ part # "managers" => plan = Plan({1, 2}, TRUE, 0)

MCNext == Cloudflare(Next) \/ Urllogger(UrlNext) \/ Managers(BrotherNext) \/ Over

MCSpec ==
  /\ MCInit /\ [][MCNext]_allVars
  /\ WF_allVars(Cloudflare(Worker)) /\ WF_allVars(Cloudflare(User))
  /\ WF_allVars(Urllogger(ReaderSteps))
  /\ \A p \in Pids : WF_allVars(Managers(ManagerSteps(p)))
=============================================================================
