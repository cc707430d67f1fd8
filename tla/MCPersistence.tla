--------------------------- MODULE MCPersistence ---------------------------
(* A small instance of Persistence for TLC: a tray, and a second process    *)
(* that starts beside it or after it.                                       *)
EXTENDS Persistence, TLC
=============================================================================
