--------------------------- MODULE CorridorClaims ---------------------------
(***************************************************************************)
(* From candidates to selected exemplars: the corridor budget of stage C3  *)
(* (fingerprint/corridor_budget.py), the claims of stage C4                *)
(* (fingerprint/corridor_claims.py) and the records of stage C5            *)
(* (fingerprint/multi_role_selection.py).                                  *)
(*                                                                         *)
(* C3 divides the budget of the corridors among their modes.  C4 first     *)
(* claims the representatives of the modes, then goes through the boards   *)
(* of the global supply: each claims from its ranked list until it has its *)
(* seats, and notes an obligation of each coordinate that was claimed      *)
(* before it came.  Each stage validates what it made, and the next what   *)
(* it is given; a stage that refuses ends the selection.                   *)
(***************************************************************************)
EXTENDS CandidateReserve, GlobalSelector

ASSUME BudgetAssumption ==
    \A family \in Input : \A i \in family :
        /\ i.modeCap \in Nat
        /\ i.share \in Nat \X (Nat \ {0}) /\ i.share[1] <= i.share[2]

VARIABLES
    supply,         \* supply[i]: the i-th board, [board, list of coordinates]
    slots,          \* slots[m]: allocated slots of mode m
    unserved,       \* modes to come in this pass of the allotment, or whose
                    \* representatives are still to be claimed
    claims,         \* coordinates in the order of their claims, [coord, by]
    owed,           \* owed[c]: obligations of a claimed coordinate
    turn,           \* the board that claims: its place and the rank it looks at,
                    \* its target, the seats it has, how many of them full-width,
                    \* and the ranks it has skipped, oldest first
    lineage         \* backfill lineage, [board, skipped, by], by = 0 if nothing replaced it

claimVars == <<supply, slots, unserved, claims, owed, turn, lineage>>

NoTurn == [at |-> 0, rank |-> 1, target |-> 0, seats |-> 0, wide |-> 0, skipped |-> <<>>]

ClaimInit ==
    /\ supply = <<>> /\ slots = <<>> /\ unserved = {} /\ claims = <<>> /\ owed = <<>>
    /\ turn = NoTurn /\ lineage = {}

(***************************************************************************)
(* export_production_global_board_supply: the boards by name, their pools  *)
(* as ranked lists.  No board has a priority of its own there.             *)
(***************************************************************************)
Name(b) == CHOOSE i \in 1 .. Len(BoardIds) : BoardIds[i] = b
ByName(a, b) == Name(a) < Name(b)

Export ==
    /\ stage = "export"
    /\ IF Boards = {}
       THEN stage' = "refused" /\ UNCHANGED supply
       ELSE /\ supply' = LET named == Sorted(Boards, ByName)
                         IN [i \in 1 .. Len(named) |->
                               [board |-> i,
                                list |-> [k \in 1 .. Len(pool[named[i]]) |-> pool[named[i]][k].coord]]]
            /\ stage' = "ingest"
    /\ UNCHANGED <<input, slots, unserved, claims, owed, turn, lineage>>

(***************************************************************************)
(* C3: allocate_corridor_coverage and its validation.                      *)
(***************************************************************************)
Modes == DOMAIN reserve
Smaller(m, n) == IF m <= n THEN m ELSE n

\* The slots f gives to the modes, a mode and a number each; how many they are.
Slots(f) == UNION {{m} \X (1 .. f[m]) : m \in Modes}
Total(f) == Cardinality(Slots(f))

\* _mode_info: retained candidates, and those that were eligible.
ModeCapacity(m) == Smaller(input.modeCap, Smaller(Len(reserve[m]), counts.modeEligible[m]))
Capacities == [m \in Modes |-> ModeCapacity(m)]

CorridorCeiling == (input.budget * input.share[1]) \div input.share[2]
CorridorBudget == Smaller(CorridorCeiling, Total(Capacities))
GlobalBudget == input.budget - CorridorBudget

Covered == {m \in Modes : ModeCapacity(m) > 0}

\* The modes that come first when there are fewer slots than modes.
Ahead(m, k) ==
    \/ reserve[m][1].score > reserve[k][1].score
    \/ reserve[m][1].score = reserve[k][1].score /\ m < k

FirstModes(n) == {m \in Covered : Cardinality({k \in Covered : Ahead(k, m)}) < n}

\* _allocate_counts: a slot for each of the first modes, or passes over all modes.
Allocate ==
    /\ stage = "allocate"
    /\ stage' = "allot"
    /\ slots' = LET first == IF CorridorBudget < Cardinality(Covered)
                            THEN FirstModes(CorridorBudget) ELSE {}
                IN [m \in Modes |-> IF m \in first THEN 1 ELSE 0]
    /\ unserved' = Modes
    /\ UNCHANGED <<input, supply, claims, owed, turn, lineage>>

Open == {m \in Modes : slots[m] < ModeCapacity(m)}

NextSlot ==
    /\ \E m \in unserved \cap Open :
          /\ \A k \in unserved \cap Open : m <= k
          /\ slots' = [slots EXCEPT ![m] = @ + 1]
          /\ unserved' = {k \in unserved : k > m}
    /\ UNCHANGED <<input, stage, supply, claims, owed, turn, lineage>>

\* Fault: a pass goes on when the budget is used up.
AllotSlotOn ==
    stage = "allot" /\ (Total(slots) < CorridorBudget \/ unserved # Modes) /\ NextSlot

\* A slot for the next mode of this pass that has room.
AllotSlot == stage = "allot" /\ Total(slots) < CorridorBudget /\ NextSlot

\* CorridorBudgetError, "allocator exhausted before satisfying budget".
NextPass ==
    /\ stage = "allot" /\ Total(slots) < CorridorBudget
    /\ unserved \cap Open = {}
    /\ stage' = IF Open = {} THEN "refused" ELSE "allot"
    /\ unserved' = Modes
    /\ UNCHANGED <<input, supply, slots, claims, owed, turn, lineage>>

\* validate_corridor_coverage_plan_object, in what does not repeat the allocation.
PlanIsSound ==
    /\ Total(slots) = CorridorBudget
    /\ \A m \in Modes :
          /\ slots[m] <= ModeCapacity(m)
          /\ counts.modeSeen[m] = counts.modeEligible[m] + counts.modeRejected[m]
          /\ counts.modeEligible[m] >= Len(reserve[m])

EndPlan ==
    /\ stage = "allot" /\ Total(slots) >= CorridorBudget
    /\ stage' = IF PlanIsSound THEN "corridors" ELSE "refused"
    /\ unserved' = Modes
    /\ UNCHANGED <<input, supply, slots, claims, owed, turn, lineage>>

(***************************************************************************)
(* C4: claim_corridor_then_backfill_global.                                *)
(***************************************************************************)
Wide(c) == c \in input.wide

\* _cap_candidates, of a ranked list: as many full-width candidates as the ratio
\* allows, the rest narrow ones, however they rank against each other.
Capped(list, n) ==
    LET wide   == Ranked({r \in ToSet(list) : Wide(r.coord)})
        narrow == Ranked({r \in ToSet(list) : ~Wide(r.coord)})
        few    == Take(wide, WidthAllowance(n))
    IN IF n = 0 THEN <<>>
       ELSE Take(Ranked(ToSet(few) \cup ToSet(Take(narrow, n - Len(few)))), n)

Role(kind, source, rank) == [role |-> kind, source |-> source, rank |-> rank]

\* The claims of the next mode.
ClaimMode ==
    /\ stage = "corridors"
    /\ \E m \in unserved :
          LET chosen == Capped(reserve[m], slots[m])
              By(i)  == Role("corridor", m, i)
          IN /\ \A k \in unserved : m <= k
             /\ unserved' = unserved \ {m}
             /\ claims' = claims \o [i \in 1 .. Len(chosen) |->
                                       [coord |-> chosen[i].coord, by |-> By(i)]]
             /\ owed' = [c \in DOMAIN owed \cup CoordsOf(chosen) |->
                           IF c \in CoordsOf(chosen)
                           THEN <<By(CHOOSE i \in 1 .. Len(chosen) : chosen[i].coord = c)>>
                           ELSE owed[c]]
    /\ UNCHANGED <<input, stage, supply, slots, turn, lineage>>

\* The claims of all modes must meet the corridor budget.
EndCorridors ==
    /\ stage = "corridors" /\ unserved = {}
    /\ stage' = IF Len(claims) = CorridorBudget THEN "boards" ELSE "refused"
    /\ UNCHANGED <<input, supply, slots, unserved, claims, owed, turn, lineage>>

ClaimsOf(kind) == Cardinality({i \in 1 .. Len(claims) : claims[i].by.role = kind})
BoardAt == supply[turn.at]
Looking == turn.at > 0 /\ turn.seats < turn.target /\ turn.rank <= Len(BoardAt.list)
Candidate == BoardAt.list[turn.rank]

\* The end of a board's turn: what it skipped and nothing replaced is noted, and
\* the next board gets as many seats as it asks for and the budget has left.
NextBoard ==
    /\ stage = "boards" /\ ~Looking
    /\ lineage' = lineage \cup {[board |-> turn.at, skipped |-> k, by |-> 0] :
                                   k \in ToSet(turn.skipped)}
    /\ IF turn.at = Len(supply)
       THEN turn' = NoTurn /\ stage' = "validate"
       ELSE /\ turn' = [NoTurn EXCEPT !.at = turn.at + 1,
                                      !.target = Smaller(Capacity, GlobalBudget - ClaimsOf("board"))]
            /\ UNCHANGED stage
    /\ UNCHANGED <<input, supply, slots, unserved, claims, owed>>

\* A full-width candidate beyond the allowance is passed over, before the look
\* whether it has been claimed.
PassOver ==
    /\ stage = "boards" /\ Looking
    /\ Wide(Candidate) /\ turn.wide >= WidthAllowance(turn.target)
    /\ turn' = [turn EXCEPT !.rank = @ + 1, !.skipped = Append(@, turn.rank)]
    /\ UNCHANGED <<input, stage, supply, slots, unserved, claims, owed, lineage>>

Admitted == ~Wide(Candidate) \/ turn.wide < WidthAllowance(turn.target)

Collide ==
    /\ stage = "boards" /\ Looking /\ Admitted
    /\ Candidate \in DOMAIN owed
    /\ owed' = [owed EXCEPT ![Candidate] = Append(@, Role("board", turn.at, turn.rank))]
    /\ turn' = [turn EXCEPT !.rank = @ + 1, !.skipped = Append(@, turn.rank)]
    /\ UNCHANGED <<input, stage, supply, slots, unserved, claims, lineage>>

\* The claim takes the place of the oldest candidate that was skipped.
Claim ==
    LET by == Role("board", turn.at, turn.rank)
    IN /\ stage = "boards" /\ Looking /\ Admitted
       /\ Candidate \notin DOMAIN owed
       /\ claims' = Append(claims, [coord |-> Candidate, by |-> by])
       /\ owed' = [c \in DOMAIN owed \cup {Candidate} |->
                     IF c = Candidate THEN <<by>> ELSE owed[c]]
       /\ lineage' = IF turn.skipped = <<>> THEN lineage
                     ELSE lineage \cup {[board |-> turn.at, skipped |-> turn.skipped[1],
                                         by |-> turn.rank]}
       /\ turn' = [turn EXCEPT !.rank = @ + 1, !.seats = @ + 1,
                               !.wide = IF Wide(Candidate) THEN @ + 1 ELSE @,
                               !.skipped = IF @ = <<>> THEN @ ELSE Tail(@)]
       /\ UNCHANGED <<input, stage, supply, slots, unserved>>

(***************************************************************************)
(* The checks of validate_corridor_global_claim_result and of C5.          *)
(***************************************************************************)
ClaimOrder ==
    \A i, j \in 1 .. Len(claims) : i < j /\ claims[i].by.role = claims[j].by.role =>
        LET a == claims[i].by  b == claims[j].by
        IN \/ a.source < b.source
           \/ a.source = b.source /\ a.rank < b.rank

\* Every skipped rank is noted once, and a claim replaces one of them at most.
LineageIsSound ==
    /\ \A l, k \in lineage : l.board = k.board /\ l # k =>
          l.skipped # k.skipped /\ (l.by = 0 \/ l.by # k.by)
    /\ \A l \in lineage : l.by > 0 =>
          \E i \in 1 .. Len(claims) : claims[i].by = Role("board", l.board, l.by)

\* _canonical_obligations: what claimed a coordinate is first, and no mode comes later.
Canonical(s) == s # <<>> /\ \A i \in 2 .. Len(s) : s[i].role = "board"

ResultIsSound ==
    /\ Cardinality(CoordsOf(claims)) = Len(claims)
    /\ Len(claims) <= input.budget
    /\ ClaimOrder /\ LineageIsSound
    /\ \A i \in 1 .. Len(claims) : /\ Canonical(owed[claims[i].coord])
                                   /\ owed[claims[i].coord][1] = claims[i].by

Short == Len(claims) < input.budget

\* prepare_c6_selection stops a selection that is short if the whole budget is
\* required.
Validate ==
    /\ stage = "validate"
    /\ stage' = IF ~ResultIsSound THEN "refused"
                ELSE IF Short /\ input.full THEN "short" ELSE "selected"
    /\ UNCHANGED <<input, supply, slots, unserved, claims, owed, turn, lineage>>

\* budget_shortfall_reason of the diagnostics.
Eligible == UNION {CoordsOf(reserve[m]) : m \in Modes}
                \cup UNION {ToSet(supply[i].list) : i \in 1 .. Len(supply)}
Reason ==
    IF ~Short THEN "none"
    ELSE IF Cardinality(Eligible) < input.budget THEN "insufficient" ELSE "exhausted"
=============================================================================
