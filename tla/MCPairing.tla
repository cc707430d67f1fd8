----------------------------- MODULE MCPairing -----------------------------
(* Small instances of Pairing for TLC.                                     *)
EXTENDS PairingRefinement, TLC

Symmetry ==
  Permutations(Handler) \cup Permutations(Prompt) \cup Permutations(Device)
    \cup Permutations(Token)

\* A person enables input commands in the configuration file, or disables all;
\* the latter is as well what a reload read before an approval was saved.
InputOrNothing == {[input |-> TRUE, power |-> FALSE], AllOff}
=============================================================================
