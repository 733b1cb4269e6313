----------------------- MODULE MCCompactBodyPipeline -----------------------
(* TLC instances of CompactBodyPipeline.  Symmetry sets are unsound for       *)
(* liveness; instead, since bodies are interchangeable, the first payload     *)
(* encodes to one of them.                                                    *)
EXTENDS CompactBodyPipeline

FirstBodyInit == Init /\ payload[1] = CHOOSE b \in Body : TRUE
FirstBodySpec == FirstBodyInit /\ [][Next]_vars /\ Fairness
=============================================================================
