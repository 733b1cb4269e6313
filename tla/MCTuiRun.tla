------------------------------ MODULE MCTuiRun ------------------------------
(* TLC instance of TuiRun.                                                    *)
EXTENDS TuiRun
=============================================================================
