-------------------------- MODULE ExemplarSelection --------------------------
(***************************************************************************)
(* One selection of exemplars, prepare_c6_selection                        *)
(* (builder/production_stages/selection.py) after the export of the        *)
(* authorities: the boards of the selector, the candidate reserve, the     *)
(* corridor budget, the claims and the selected records.                   *)
(*                                                                         *)
(* The stages pass on what they made and none is repeated.  What can go    *)
(* wrong is that one makes what the next refuses, that the order and the   *)
(* batches of the records leave a trace, and that a selection ends short   *)
(* with candidates to spare.                                               *)
(***************************************************************************)
EXTENDS CorridorClaims

vars == <<input, stage, selectorVars, reserveVars, claimVars>>

Init ==
    /\ \E family \in Input : input \in family
    /\ stage = "consider"
    /\ SelectorInit /\ ReserveInit /\ ClaimInit

Ended == stage \in {"conflict", "refused", "short", "selected"}

\* A selection that has ended stays as it is.
Terminated == Ended /\ UNCHANGED vars

Selecting(A) == A /\ UNCHANGED <<reserveVars, claimVars>>
Reserving(A) == A /\ UNCHANGED <<selectorVars, claimVars>>
Claiming(A)  == A /\ UNCHANGED <<selectorVars, reserveVars>>

Next ==
    \/ Selecting(Consider)
    \/ Selecting(Seat)
    \/ Selecting(Release)
    \/ Selecting(Backfill)
    \/ Selecting(EndTurn)
    \/ Selecting(EndRound)
    \/ Selecting(Trim)
    \/ Claiming(Export)
    \/ Reserving(Ingest)
    \/ Reserving(EndStream)
    \/ Claiming(Allocate)
    \/ Claiming(AllotSlot)
    \/ Claiming(NextPass)
    \/ Claiming(EndPlan)
    \/ Claiming(ClaimMode)
    \/ Claiming(EndCorridors)
    \/ Claiming(NextBoard)
    \/ Claiming(PassOver)
    \/ Claiming(Collide)
    \/ Claiming(Claim)
    \/ Claiming(Validate)
    \/ Terminated

Spec == Init /\ [][Next]_vars

-----------------------------------------------------------------------------
(***************************************************************************)
(* Properties                                                              *)
(***************************************************************************)

(***************************************************************************)
(* The assignment ends, in its second round at the latest, and it ends     *)
(* well: no coordinate has two seats, no board has a free seat or a worse  *)
(* entry seated while its pool has one that is seated nowhere.  The loop   *)
(* of _assign_rank_aware_board_winners runs "while changed": seats are     *)
(* given up and given out by boards in turn, and what one board gives up   *)
(* another one's round might want.                                         *)
(***************************************************************************)
SeatsAreFair ==
    stage \in {"trim", "export"} =>
        /\ rounds <= 2
        /\ \A a, b \in Board : a # b => CoordsOf(winners[a]) \cap CoordsOf(winners[b]) = {}
        /\ \A b \in Board : Cardinality(CoordsOf(winners[b])) = Len(winners[b])
        /\ \A b \in Board : \A e \in ToSet(pool[b]) : e.coord \notin Seated =>
              /\ Len(winners[b]) = Capacity
              /\ \A f \in ToSet(winners[b]) : Before(f, e)

Read == SubSeq(input.records, 1, came)
EligibleRead == {r \in ToSet(Read) : r.eligible}
NoRepeats == Cardinality(CoordsOf(Read)) = Len(Read)

(***************************************************************************)
(* However the records fall into batches, the store ranks what the         *)
(* reference builder ranks, for the modes with an eligible record, and     *)
(* counts the same if no coordinate is repeated.  It lets no conflict of   *)
(* eligible records pass, of one batch or of two, and what it refuses the  *)
(* reference refuses, which refuses every conflict.                        *)
(***************************************************************************)
ReserveIsReference ==
    LET ref == Reference(Read)
    IN /\ stage = "allocate" =>
            /\ reserve = [m \in {n \in Mode : ref.counts.modeEligible[n] > 0} |-> ref.pools[m]]
            /\ NoRepeats => counts = ref.counts
            /\ ~Conflicts(EligibleRead, EligibleRead)
       /\ stage = "conflict" => ref.conflict

\* The one disagreement of the stages: C3 gave mode m slots that C4, with its cap
\* on full-width candidates, cannot fill.
WidthStarved(m) ==
    LET wide == {c \in CoordsOf(reserve[m]) : Wide(c)}
    IN /\ Cardinality(wide) > WidthAllowance(slots[m])
       /\ Len(reserve[m]) - Cardinality(wide) + WidthAllowance(slots[m]) < slots[m]

\* No mode is two slots behind another that still has candidates to offer.
BreadthFirst ==
    \A m, k \in DOMAIN slots : slots[k] > slots[m] + 1 => slots[m] = ModeCapacity(m)

(***************************************************************************)
(* A selection without a conflict is refused for a cause in its input,     *)
(* never for what one of its own stages made: no boards, or a mode whose   *)
(* slots the cap on full-width candidates leaves empty.  One that is not   *)
(* refused holds its corridor budget, divided breadth first, and is short  *)
(* only if every candidate of the supply is claimed or full-width, none of *)
(* them twice.  The reason it reports blames the ranked supply only if     *)
(* there are candidates left that it did not reach.                        *)
(***************************************************************************)
ShortfallHasCause ==
    /\ stage = "refused" =>
          \/ Boards = {}
          \/ \E m \in Modes : WidthStarved(m)
    /\ stage \in {"short", "selected"} =>
          /\ Len(claims) <= input.budget
          /\ Cardinality(CoordsOf(claims)) = Len(claims)
          /\ ClaimsOf("corridor") = CorridorBudget
          /\ BreadthFirst
          /\ Short => \A i \in 1 .. Len(supply) : \A c \in ToSet(supply[i].list) :
                          c \in CoordsOf(claims) \/ Wide(c)
          /\ Reason = "exhausted" => Eligible \ CoordsOf(claims) # {}
=============================================================================
