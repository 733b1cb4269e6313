-------------------------- MODULE MCProductionRun --------------------------
(* TLC instances of ProductionRun.                                            *)
EXTENDS ProductionRun
=============================================================================
