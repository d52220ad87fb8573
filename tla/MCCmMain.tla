----------------------------- MODULE MCCmMain -----------------------------
EXTENDS CmMain

On(fs, o, r, a, p, c) ==
  [families |-> fs, ops |-> o, raw |-> r, attached |-> a, pin |-> ~a,
   profile |-> p, call |-> c]

\* a modem with a locked SIM and no profile, one that still holds the call
\* of a killed manager, and both families over QMI and over MBIM
MCSetups ==
  { On({"v4"}, "qmi", TRUE, FALSE, "none", "disconnected"),
    On({"v4"}, "qmi", FALSE, TRUE, "other", "connected"),
    On({"v4", "v6"}, "qmi", FALSE, TRUE, "wanted", "disconnected"),
    On({"v4", "v6"}, "mbim", FALSE, TRUE, "other", "disconnected") }
=============================================================================
