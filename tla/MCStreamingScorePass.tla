------------------------ MODULE MCStreamingScorePass ------------------------
(* TLC instances of StreamingScorePass.                                       *)
EXTENDS StreamingScorePass
=============================================================================
