----------------------------- MODULE MCHttpRelay -----------------------------
(***************************************************************************)
(* Instances of HttpRelay for TLC                                          *)
(***************************************************************************)
EXTENDS HttpRelay, TLC

Symmetry == Permutations(Machine)
=============================================================================
