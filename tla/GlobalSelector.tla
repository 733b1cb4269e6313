--------------------------- MODULE GlobalSelector ---------------------------
(***************************************************************************)
(* select_exemplars (builder/exemplar_selection.py): the boards of the     *)
(* multi-leaderboard selector, and the export of their pools as the global *)
(* supply of the corridor claims (builder/c6_integration.py).              *)
(*                                                                         *)
(* Rows are offered to the boards in the order of the shards.  Each board  *)
(* keeps a pool of its best rows, seats the best of them, gives up those   *)
(* another board has the better claim to, and fills free seats from its    *)
(* pool, until a round of this changes nothing.                            *)
(***************************************************************************)
EXTENDS SelectionInput

CONSTANTS
    BoardIds,       \* board names, in the order of their names
    Priority,       \* Priority[b]: place of the board's family among the families
    NoScore,        \* a row has no score for a board
    PoolMultiplier  \* RUNNER_UP_POOL_MULTIPLIER

Board == ToSet(BoardIds)
RowRecord == [coord : Coord, score : [Board -> Int \cup {NoScore}]]

\* A row is for one board of a family at most.
ASSUME SelectorAssumption ==
    /\ BoardIds \in Seq(Board)
    /\ Priority \in [Board -> Nat]
    /\ PoolMultiplier \in Nat \ {0}
    /\ \A family \in Input : \A i \in family :
          /\ i.rows \in Seq(RowRecord)
          /\ i.budget \in Nat /\ i.capacity \in Nat
          /\ \A k \in 1 .. Len(i.rows) : \A a, b \in Board :
                a # b /\ Priority[a] = Priority[b] =>
                    NoScore \in {i.rows[k].score[a], i.rows[k].score[b]}

VARIABLES
    offered,        \* how many rows the boards have considered
    made,           \* made[b]: the row that made the board, 0 while there is none
    pool,           \* pool[b]: its ranked list of entries
    winners,        \* winners[b]: its ranked list of seated entries
    left,           \* boards that have their turn in this round still to come
    changed,        \* this round has given up or given out a seat
    rounds,         \* rounds the assignment has begun, for its property
    selected        \* coordinates of the manifest, the best first

selectorVars == <<offered, made, pool, winners, left, changed, rounds, selected>>

\* The boards that exist.
Boards == {b \in Board : made[b] > 0}

\* authorities.py:59, the capacity each board is made with.
Capacity == IF input.budget > input.capacity THEN input.budget ELSE input.capacity

Entry(r, b) == [coord |-> r.coord, score |-> r.score[b]]

\* _Board.consider: the entry replaces one of its coordinate, better or not.
Considered(b, r) ==
    Take(Ranked({e \in ToSet(pool[b]) : e.coord # r.coord} \cup {Entry(r, b)}),
         Capacity * PoolMultiplier)

SelectorInit ==
    /\ offered = 0 /\ rounds = 0 /\ selected = <<>>
    /\ left = {} /\ changed = FALSE
    /\ made = [b \in Board |-> 0]
    /\ pool = [b \in Board |-> <<>>] /\ winners = [b \in Board |-> <<>>]

\* A row makes the boards it is the first for.
Consider ==
    LET r == input.rows[offered + 1]
    IN /\ stage = "consider"
       /\ offered < Len(input.rows)
       /\ offered' = offered + 1
       /\ pool' = [b \in Board |-> IF r.score[b] # NoScore THEN Considered(b, r) ELSE pool[b]]
       /\ made' = [b \in Board |-> IF made[b] = 0 /\ r.score[b] # NoScore
                                   THEN offered + 1 ELSE made[b]]
       /\ UNCHANGED <<input, stage, winners, left, changed, rounds, selected>>

Seat ==
    /\ stage = "consider" /\ offered = Len(input.rows)
    /\ stage' = "assign"
    /\ winners' = [b \in Board |-> Take(pool[b], Capacity)]
    /\ UNCHANGED <<input, offered, made, pool, left, changed, rounds, selected>>

(***************************************************************************)
(* _assign_rank_aware_board_winners, a round at a time: boards give up     *)
(* what another one has the better claim to, then each in turn fills its   *)
(* free seats, one by one.                                                 *)
(***************************************************************************)
RankOf(b, c) == CHOOSE i \in 1 .. Len(pool[b]) : pool[b][i].coord = c
Holders(c) == {b \in Board : c \in CoordsOf(winners[b])}

\* By family; of one family the board that was made first, as a dictionary has them.
Earlier(a, b) ==
    Priority[a] < Priority[b] \/ (Priority[a] = Priority[b] /\ made[a] < made[b])

\* The claim of a: the better rank, then the better score, then the earlier board.
Stronger(a, b, c) ==
    LET i == RankOf(a, c)  j == RankOf(b, c)
        x == pool[a][i].score  y == pool[b][j].score
    IN \/ i < j
       \/ i = j /\ x > y
       \/ i = j /\ x = y /\ Earlier(a, b)

KeepsSeat(b, c) == \A a \in Holders(c) \ {b} : Stronger(b, a, c)

Release ==
    /\ stage = "assign"
    /\ stage' = "refill"
    /\ rounds' = rounds + 1
    /\ winners' = [b \in Board |-> Ranked({e \in ToSet(winners[b]) : KeepsSeat(b, e.coord)})]
    /\ changed' = (winners' # winners)
    /\ left' = Boards
    /\ UNCHANGED <<input, offered, made, pool, selected>>

Seated == UNION {CoordsOf(winners[a]) : a \in Board}

\* What a board can fill a seat with.
Free(b) == {e \in ToSet(pool[b]) : e.coord \notin Seated}

First(b) == \A a \in left \ {b} : Earlier(b, a)

\* The board whose turn it is gives a free seat to the best of its pool that is
\* seated nowhere.
Backfill ==
    /\ stage = "refill"
    /\ \E b \in left :
          /\ First(b) /\ Len(winners[b]) < Capacity
          /\ \E e \in Free(b) :
                /\ \A f \in Free(b) \ {e} : Before(e, f)
                /\ winners' = [winners EXCEPT ![b] = Ranked(ToSet(@) \cup {e})]
    /\ changed' = TRUE
    /\ UNCHANGED <<input, stage, offered, made, pool, left, rounds, selected>>

\* Fault: one look at the pool, and not one for each free seat.
EndTurnEarly ==
    /\ stage = "refill"
    /\ \E b \in left : First(b) /\ left' = left \ {b}
    /\ UNCHANGED <<input, stage, offered, made, pool, winners, changed, rounds, selected>>

EndTurn ==
    /\ stage = "refill"
    /\ \E b \in left :
          /\ First(b)
          /\ Len(winners[b]) >= Capacity \/ Free(b) = {}
          /\ left' = left \ {b}
    /\ UNCHANGED <<input, stage, offered, made, pool, winners, changed, rounds, selected>>

EndRound ==
    /\ stage = "refill" /\ left = {}
    /\ stage' = IF changed THEN "assign" ELSE "trim"
    /\ UNCHANGED <<input, offered, made, pool, winners, left, changed, rounds, selected>>

(***************************************************************************)
(* _apply_score_aware_budget, where every example has one coordinate: by   *)
(* rank on the assigned board, its family, its score, the number of boards *)
(* that have it.                                                           *)
(***************************************************************************)
Standing(b, e) ==
    <<RankOf(b, e.coord), Priority[b], -e.score,
      -Cardinality({a \in Board : e.coord \in CoordsOf(pool[a])}), e.coord>>

Less(s, t) ==
    \E i \in 1 .. 5 : s[i] < t[i] /\ \A j \in 1 .. i - 1 : s[j] = t[j]

Trim ==
    LET seated == UNION {{Standing(b, e) : e \in ToSet(winners[b])} : b \in Board}
        order  == Take(Sorted(seated, Less), input.trim)
    IN /\ stage = "trim"
       /\ stage' = "export"
       /\ selected' = [i \in 1 .. Len(order) |-> order[i][5]]
       /\ UNCHANGED <<input, offered, made, pool, winners, left, changed, rounds>>
=============================================================================
