---- MODULE MCCfLock ----
EXTENDS CfLock, TLC
ProcSymmetry == Permutations(Procs)
====
