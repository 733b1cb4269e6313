--------------------------- MODULE SelectionInput ---------------------------
(***************************************************************************)
(* What the stages of the exemplar selection share: the data they select   *)
(* from and the stage the selection has reached.                           *)
(*                                                                         *)
(* A coordinate is an example and a position in it.  Coordinates are       *)
(* numbers here, in the order in which the code breaks ties by example     *)
(* name and position.  A score is a number; what it is computed from is    *)
(* left out.                                                               *)
(***************************************************************************)
EXTENDS Integers, FiniteSets, Sequences, SequencesExt

CONSTANTS
    Coord,          \* coordinates, by their order
    Mode,           \* corridor modes, by their identifier
    Input           \* families of inputs of a selection, records of these fields:
                    \*   rows      score pass rows in the order of the shards,
                    \*             [coord, score], a score for each board or NoScore
                    \*   records   candidate features in the order of their file,
                    \*             [coord, mode, score, eligible]
                    \*   wide      coordinates whose candidate is full-width
                    \*   budget    total_selected_exemplar_budget
                    \*   capacity  exemplar_leaderboard_capacity
                    \*   trim      exemplars the selector's own budget allows
                    \*   share     <<n, d>>, the corridor budget fraction n / d
                    \*   modeCap   fingerprint_corridor_mode_cap
                    \*   full      require_full_selected_budget

CandidateRecord == [coord : Coord, mode : Mode, score : Int, eligible : BOOLEAN]

ASSUME SelectionAssumption ==
    /\ Coord \subseteq Nat /\ Mode \subseteq Nat
    /\ \A family \in Input : \A i \in family : i.records \in Seq(CandidateRecord)

VARIABLES
    input,          \* the input of this selection
    stage           \* the stage that runs next, or how the selection ended

\* The list of a set by a strict order: an element comes after those that are less.
Sorted(S, Less(_, _)) ==
    [i \in 1 .. Cardinality(S) |-> CHOOSE e \in S : Cardinality({f \in S : Less(f, e)}) = i - 1]

\* A ranked list of a set of entries: the best score first, then by coordinate.
Before(e, f) == e.score > f.score \/ (e.score = f.score /\ e.coord < f.coord)
Ranked(S) == Sorted(S, Before)

Take(s, n) == SubSeq(s, 1, IF n <= Len(s) THEN n ELSE Len(s))
CoordsOf(s) == {s[i].coord : i \in 1 .. Len(s)}

\* The exact composition ratio of full-width candidates, 1/3 as it is delivered.
WidthAllowance(capacity) == IF capacity \div 3 >= 1 THEN capacity \div 3 ELSE 1
=============================================================================
