------------------------------- MODULE MCAuth -------------------------------
(***************************************************************************)
(* Auth for TLC: four requests of any kind, from one address.              *)
(***************************************************************************)
EXTENDS Auth, TLC

Symmetry == Permutations(Request)
=============================================================================
