---------------------------- MODULE MCRiskCheck -----------------------------
(***************************************************************************)
(* RiskCheck for TLC.  Threshold is 2 where the service has 3: the breaker *)
(* opens on failures of one call or of several, in flight together.        *)
(***************************************************************************)
EXTENDS RiskCheck
=============================================================================
