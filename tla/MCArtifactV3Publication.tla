---------------------- MODULE MCArtifactV3Publication ----------------------
(* TLC instances of ArtifactV3Publication: processes and handoffs are         *)
(* interchangeable.                                                           *)
EXTENDS ArtifactV3Publication, TLC

Symmetry == Permutations(Proc) \cup Permutations(Handoff)
=============================================================================
