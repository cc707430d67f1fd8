----------------------------- MODULE MCServing -----------------------------
(* A small instance of Serving for TLC: the settings of a reset companion,  *)
(* of an installed one, and of one that no longer listens on plain HTTP.    *)
EXTENDS Serving, TLC

LocalOnly == [http |-> TRUE, discovery |-> FALSE]
Installed == [http |-> TRUE, discovery |-> TRUE]
TlsOnly == [http |-> FALSE, discovery |-> TRUE]
MCSetting == {LocalOnly, Installed, TlsOnly}
=============================================================================
