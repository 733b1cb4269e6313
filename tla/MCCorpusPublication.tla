------------------------ MODULE MCCorpusPublication ------------------------
(* TLC instances of CorpusPublication: runs and configurations are           *)
(* interchangeable, and no property names one of them.                       *)
EXTENDS CorpusPublication, TLC

Symmetry == Permutations(Proc) \cup Permutations(Config)
=============================================================================
