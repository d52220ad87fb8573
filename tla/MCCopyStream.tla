--------------------------- MODULE MCCopyStream ----------------------------
(* Small instances of CopyStream for TLC.  The runs differ only in bounds  *)
(* and in whether the wall clock may be set; see the cfg files.            *)
EXTENDS CopyStream
=============================================================================
