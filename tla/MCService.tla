------------------------------ MODULE MCService ------------------------------
(***************************************************************************)
(* Service for TLC: each of the services, with two messages of which the   *)
(* first is poison.                                                        *)
(***************************************************************************)
EXTENDS Service

MCPoison == {0}
=============================================================================
