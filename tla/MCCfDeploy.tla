---- MODULE MCCfDeploy ----
EXTENDS CfDeploy, TLC
CONSTANTS h1, h2, f1, a1, a2
OneAccount  == [h \in Hosts |-> a1]
TwoAccounts == [h \in Hosts |-> IF h = h1 THEN a1 ELSE a2]
====
