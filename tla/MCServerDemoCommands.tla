------------------------- MODULE MCServerDemoCommands -------------------------
(***************************************************************************)
(* Instances of ServerDemoCommands for TLC                                 *)
(***************************************************************************)
EXTENDS ServerDemoCommands, TLC

Symmetry == Permutations(Machine) \cup Permutations(Password)
=============================================================================
