-------------------------- MODULE MCImmutableBody --------------------------
(* TLC instances of ImmutableBody: bodies of transactions as functions, and   *)
(* the symmetry of processes.                                                 *)
EXTENDS ImmutableBody, TLC

CONSTANTS t1, t2, b1, b2

SharedBody == [t \in Tx |-> b1]
OwnBodies  == [t \in Tx |-> IF t = t1 THEN b1 ELSE b2]

Symmetry == Permutations(Proc)
=============================================================================
