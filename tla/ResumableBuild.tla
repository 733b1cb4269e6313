--------------------------- MODULE ResumableBuild ---------------------------
(***************************************************************************)
(* What a resumable build promises of the pieces it has recorded: a piece  *)
(* is recorded after those before it, what is recorded stays what it was,  *)
(* and the build is complete only with every piece recorded.  The one way  *)
(* back is to discard all of it, which a replacement or a crash does.      *)
(***************************************************************************)
EXTENDS Naturals, Sequences

CONSTANTS
    Piece,      \* what a piece may contain
    Pieces      \* the number of pieces of a complete build

VARIABLES
    kept,       \* contents of the recorded pieces, in order
    sealed,     \* the build is complete
    replacing,  \* the environment is replacing the build
    crashes     \* crashes of the environment so far

Init == kept = <<>> /\ sealed = FALSE

Record ==
    /\ ~sealed /\ Len(kept) < Pieces
    /\ \E c \in Piece : kept' = Append(kept, c)
    /\ UNCHANGED sealed

Seal ==
    /\ Len(kept) = Pieces
    /\ sealed' = TRUE
    /\ UNCHANGED kept

Discard ==
    /\ replacing \/ crashes' # crashes
    /\ kept' = <<>> /\ sealed' = FALSE

Next == Record \/ Seal \/ Discard

Spec == Init /\ [][Next]_<<kept, sealed>>
=============================================================================
