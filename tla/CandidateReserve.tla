-------------------------- MODULE CandidateReserve --------------------------
(***************************************************************************)
(* The corridor candidates (stage C2): DuckDBCandidateStore                *)
(* (fingerprint/corridor_duckdb.py), which the production selection        *)
(* builds its leaderboards with, and build_corridor_candidate_leaderboards *)
(* (fingerprint/corridor_leaderboards.py), the reference builder.          *)
(*                                                                         *)
(* The store collects eligible records in a batch and writes a full batch  *)
(* to its table.  A record of a coordinate that came before is looked for  *)
(* in the batch when it arrives, and in the table when its batch is        *)
(* written.  Equal records have equal digests and no others have.          *)
(***************************************************************************)
EXTENDS SelectionInput

CONSTANTS
    BatchSize       \* ingestion_batch_size

ASSUME ReserveAssumption == BatchSize \in Nat \ {0}

VARIABLES
    came,           \* how many records have come
    batch,          \* _batch, whose coordinates are the _pending_keys
    table,          \* the candidates table
    counts,         \* _seen, _eligible, _duplicates; by mode seen, eligible, rejected
    reserve         \* reserve[m]: the ranked list of mode m, for modes that have one

reserveVars == <<came, batch, table, counts, reserve>>

Zero == [m \in Mode |-> 0]

ReserveInit ==
    /\ came = 0 /\ batch = <<>> /\ table = {} /\ reserve = <<>>
    /\ counts = [seen |-> 0, eligible |-> 0, duplicates |-> 0,
                 modeSeen |-> Zero, modeEligible |-> Zero, modeRejected |-> Zero]

Conflicts(rs, ss) == \E r \in rs, s \in ss : r.coord = s.coord /\ r # s

\* A repeat inside the batch is dropped before anything but _seen counts it.
Dropped(c) == [c EXCEPT !.seen = @ + 1, !.duplicates = @ + 1]

Rejected(c, r) ==
    [c EXCEPT !.seen = @ + 1, !.modeSeen[r.mode] = @ + 1, !.modeRejected[r.mode] = @ + 1]

Accepted(c, r) ==
    [c EXCEPT !.seen = @ + 1, !.eligible = @ + 1,
              !.modeSeen[r.mode] = @ + 1, !.modeEligible[r.mode] = @ + 1]

\* Fault: a batch takes the place of the table.
FlushOver(b, c) ==
    /\ batch' = <<>>
    /\ table' = ToSet(b)
    /\ counts' = [c EXCEPT !.duplicates = @ + Cardinality(ToSet(b) \cap table)]

\* _flush: records the table has are counted as duplicates, the others enter it.
Flush(b, c) ==
    /\ batch' = <<>>
    /\ table' = table \cup ToSet(b)
    /\ counts' = [c EXCEPT !.duplicates = @ + Cardinality(ToSet(b) \cap table)]

\* CorridorLeaderboardError, "conflicting duplicate candidate coordinate".
Refuse ==
    /\ stage' = "conflict"
    /\ UNCHANGED <<batch, table, counts, reserve>>

\* One turn of the loop of ingest.
Ingest ==
  LET r == input.records[came + 1]
  IN
    /\ stage = "ingest" /\ came < Len(input.records)
    /\ came' = came + 1
    /\ \/ /\ Conflicts({r}, ToSet(batch))
          /\ Refuse
       \/ /\ r \in ToSet(batch)
          /\ counts' = Dropped(counts)
          /\ UNCHANGED <<stage, batch, table, reserve>>
       \/ /\ \A s \in ToSet(batch) : s.coord # r.coord
          /\ ~r.eligible
          /\ counts' = Rejected(counts, r)
          /\ UNCHANGED <<stage, batch, table, reserve>>
       \/ /\ \A s \in ToSet(batch) : s.coord # r.coord
          /\ r.eligible /\ Len(batch) + 1 < BatchSize
          /\ batch' = Append(batch, r)
          /\ counts' = Accepted(counts, r)
          /\ UNCHANGED <<stage, table, reserve>>
       \/ /\ \A s \in ToSet(batch) : s.coord # r.coord
          /\ r.eligible /\ Len(batch) + 1 = BatchSize
          /\ IF Conflicts(ToSet(Append(batch, r)), table)
             THEN Refuse
             ELSE /\ Flush(Append(batch, r), Accepted(counts, r))
                  /\ UNCHANGED <<stage, reserve>>
    /\ UNCHANGED input

\* The stream ends: the rest is written and the table ranked.  artifact() has the
\* modes with an eligible record only.
EndStream ==
    /\ stage = "ingest" /\ came = Len(input.records)
    /\ IF Conflicts(ToSet(batch), table)
       THEN Refuse
       ELSE /\ Flush(batch, counts)
            /\ reserve' = [m \in {n \in Mode : counts.modeEligible[n] > 0} |-> Ranked({r \in table' : r.mode = m})]
            /\ stage' = "allocate"
    /\ UNCHANGED <<input, came>>

(***************************************************************************)
(* The reference, on a list of records.                                    *)
(***************************************************************************)
Reference(s) ==
    LET kept == ToSet(s)
        of(m, e) == Cardinality({r \in kept : r.mode = m /\ r.eligible = e})
    IN [conflict   |-> Conflicts(kept, kept),
        counts     |-> [seen |-> Len(s), eligible |-> Cardinality({r \in kept : r.eligible}),
                        duplicates |-> Len(s) - Cardinality(kept),
                        modeSeen |-> [m \in Mode |-> Cardinality({r \in kept : r.mode = m})],
                        modeEligible |-> [m \in Mode |-> of(m, TRUE)],
                        modeRejected |-> [m \in Mode |-> of(m, FALSE)]],
        pools      |-> [m \in Mode |-> Ranked({r \in kept : r.mode = m /\ r.eligible})]]
=============================================================================
