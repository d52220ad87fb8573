------------------------------- MODULE MCAtc --------------------------------
(* Modems of both styles, asleep, locked, with a call left from before. *)
EXTENDS Atc

Modem(style, nat, sim, reg, call, awake) ==
  [style |-> style, nat |-> nat, sim |-> sim, registered |-> reg, active |-> call,
   bound |-> call, awake |-> awake]
Profile(set, differs, empty) == [set |-> set, differs |-> differs, empty |-> empty]

MCSetups ==
  {[modem |-> Modem("rg", "1", "READY", TRUE, FALSE, FALSE), profile |-> Profile(FALSE, FALSE, FALSE)],
   [modem |-> Modem("asr", "1", "PIN", FALSE, FALSE, TRUE), profile |-> Profile(TRUE, TRUE, TRUE)],
   [modem |-> Modem("asr", "1", "READY", TRUE, TRUE, TRUE), profile |-> Profile(FALSE, FALSE, FALSE)]}
=============================================================================
