--------------------------- MODULE MCPrintServer ---------------------------
(* A small instance of PrintServer for TLC. *)
EXTENDS PrintServer
=============================================================================
