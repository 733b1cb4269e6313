------------------------- MODULE MCExemplarSelection -------------------------
(***************************************************************************)
(* Four families of inputs.                                                *)
(*                                                                         *)
(*   Rows     every way four coordinates can score on two boards of all    *)
(*            rows and on one of two buckets                               *)
(*   Repeats  rows of which one comes twice, with other scores, first or   *)
(*            last, or in the other bucket with the score it had in its own*)
(*   Streams  every stream of up to four of five records: two of a         *)
(*            coordinate that conflict, one that is not eligible           *)
(*   Claims   every set of full-width coordinates among five, with the     *)
(*            budgets, shares and scores that decide between two modes     *)
(***************************************************************************)
EXTENDS ExemplarSelection

MCCoord == 1 .. 5
MCMode == {1, 2}
MCBoards == <<"entropy", "position_a", "position_b", "tail">>
MCPriority == [entropy |-> 1, tail |-> 2, position_a |-> 3, position_b |-> 3]
None == -1

Bucket(c) == IF c <= 2 THEN "position_a" ELSE "position_b"

RowIn(bucket, c, s) ==
    [coord |-> c,
     score |-> [b \in ToSet(MCBoards) |->
                  IF b = "entropy" THEN s[1] ELSE IF b = "tail" THEN s[2]
                  ELSE IF b = bucket THEN s[3] ELSE None]]

Row(c, s) == RowIn(Bucket(c), c, s)

Flat(c, s) == Row(c, <<s, s, s>>)

Base == [rows |-> <<>>, records |-> <<>>, wide |-> {}, budget |-> 2, capacity |-> 1,
         trim |-> 4, share |-> <<1, 2>>, modeCap |-> 3, full |-> FALSE]

Level == {0, 1}

RowInputs ==
    {[Base EXCEPT !.rows = [c \in 1 .. 4 |-> Row(c, f[c])], !.budget = n, !.trim = 3,
                  !.full = (n = 2)] :
        f \in [1 .. 4 -> Level \X Level \X Level], n \in {1, 2}}

RepeatInputs ==
    LET Once(f) == [c \in 1 .. 4 |-> Row(c, <<f[c][1], f[c][2], 0>>)]
        Again(f, q) == RowIn(q, 1, <<1 - f[1][1], 1 - f[1][2], IF q = Bucket(1) THEN 1 ELSE 0>>)
    IN {[Base EXCEPT !.rows = IF last THEN Append(Once(f), Again(f, q))
                              ELSE <<Again(f, q)>> \o Once(f),
                     !.budget = 1] :
          f \in [1 .. 4 -> Level \X Level], last \in BOOLEAN,
          q \in {"position_a", "position_b"}}

Record(c, m, s, e) == [coord |-> c, mode |-> m, score |-> s, eligible |-> e]

Features == {Record(1, 1, 1, TRUE), Record(1, 1, 0, TRUE), Record(2, 1, 1, TRUE),
             Record(3, 2, 0, TRUE), Record(1, 2, 1, FALSE)}

StreamInputs ==
    {[Base EXCEPT !.rows = rows, !.records = s] :
        s \in UNION {[1 .. n -> Features] : n \in 0 .. 4}, rows \in {<<Flat(2, 1), Flat(4, 0)>>}}
    \cup {[Base EXCEPT !.records = <<Record(1, 1, 1, TRUE)>>]}

\* Which mode a coordinate belongs to, and how its record scores.
Modal(c) == IF c <= 3 THEN 1 ELSE 2
Scores == {<<0, 0, 0, 0, 0>>, <<0, 0, 1, 0, 1>>, <<1, 1, 0, 1, 0>>, <<0, 1, 1, 1, 1>>}

Supplies == {<<Flat(1, 1), Flat(3, 0), Flat(5, 1)>>,
             <<Row(1, <<2, 0, 0>>), Row(2, <<1, 1, 0>>), Row(3, <<0, 2, 0>>), Row(5, <<1, 0, 1>>)>>}

ClaimInputs ==
    {[Base EXCEPT !.rows = rows, !.wide = w, !.budget = n, !.share = d, !.modeCap = k,
                  !.full = (n \in {3, 5}),
                  !.records = [c \in 1 .. 5 |-> Record(c, Modal(c), s[c], TRUE)]] :
        rows \in Supplies, w \in SUBSET MCCoord, n \in 1 .. 5, d \in {<<1, 2>>, <<1, 1>>},
        k \in {1, 3}, s \in Scores}

MCInput == {RowInputs, RepeatInputs, StreamInputs, ClaimInputs}
=============================================================================
