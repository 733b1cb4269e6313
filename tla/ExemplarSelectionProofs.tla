----------------------- MODULE ExemplarSelectionProofs -----------------------
(***************************************************************************)
(* Theorems about ExemplarSelection: the candidate reserve, for every      *)
(* stream of records and every size of batch; the seats of the boards, for *)
(* all boards and rows; and the claims, for all budgets, shares, caps and  *)
(* full-width candidates: what a selection can be refused for, and when it *)
(* is short.                                                               *)
(***************************************************************************)
EXTENDS ExemplarSelection, FiniteSetTheorems, TLAPS

Kept == ToSet(Read)
CountsType ==
    [seen : Nat, eligible : Nat, duplicates : Nat,
     modeSeen : [Mode -> Nat], modeEligible : [Mode -> Nat], modeRejected : [Mode -> Nat]]

\* The batch and the table hold the eligible records between them, and neither has
\* a conflict of its own.
Stored ==
    /\ batch \in Seq(CandidateRecord)
    /\ table \cup ToSet(batch) = EligibleRead
    /\ ~Conflicts(table, table) /\ ~Conflicts(ToSet(batch), ToSet(batch))

\* A mode has been counted if it has an eligible record.
ModesCounted ==
    /\ counts \in CountsType
    /\ \A m \in Mode : counts.modeEligible[m] > 0 <=> \E r \in EligibleRead : r.mode = m

\* Without repeats every record is a new one, and is counted as the reference does.
Counted ==
    /\ IsFiniteSet(Kept) /\ IsFiniteSet(CoordsOf(Read)) /\ Cardinality(CoordsOf(Read)) <= came
    /\ NoRepeats => /\ Cardinality(Kept) = came
                    /\ counts = Reference(Read).counts
                    /\ ToSet(batch) \cap table = {}

Filling == {"consider", "assign", "refill", "trim", "export", "ingest"}

Agreed ==
    LET ref == Reference(Read)
    IN /\ reserve = [m \in {n \in Mode : ref.counts.modeEligible[n] > 0} |-> ref.pools[m]]
       /\ NoRepeats => counts = ref.counts
       /\ ~Conflicts(EligibleRead, EligibleRead)

ReserveInv ==
    /\ input.records \in Seq(CandidateRecord)
    /\ came \in 0 .. Len(input.records)
    /\ stage \in Filling => Stored /\ ModesCounted /\ Counted
    /\ stage = "allocate" => Agreed
    /\ stage = "conflict" => Conflicts(Kept, Kept)

-----------------------------------------------------------------------------
(***************************************************************************)
(* One record more.                                                        *)
(***************************************************************************)
LEMMA AddOne ==
  ASSUME NEW S, IsFiniteSet(S), NEW x, x \notin S
  PROVE  /\ IsFiniteSet(S \cup {x}) /\ Cardinality(S) \in Nat
         /\ Cardinality(S \cup {x}) = Cardinality(S) + 1
  BY FS_AddElement, FS_CardinalityType

LEMMA ReadFacts ==
  ASSUME NEW s \in Seq(CandidateRecord), NEW n \in 0 .. Len(s)
  PROVE  /\ Len(SubSeq(s, 1, n)) = n
         /\ ToSet(SubSeq(s, 1, n)) = {s[i] : i \in 1 .. n}
         /\ CoordsOf(SubSeq(s, 1, n)) = {s[i].coord : i \in 1 .. n}
         /\ ToSet(SubSeq(s, 1, n)) \subseteq CandidateRecord
  <1>1. /\ SubSeq(s, 1, n) \in Seq(CandidateRecord) /\ Len(SubSeq(s, 1, n)) = n
        /\ \A i \in 1 .. n : SubSeq(s, 1, n)[i] = s[i]
    OBVIOUS
  <1>2. DOMAIN SubSeq(s, 1, n) = 1 .. n
    BY <1>1
  <1>3. \A i \in 1 .. n : s[i] \in CandidateRecord
    OBVIOUS
  <1>. QED
    BY <1>1, <1>2, <1>3 DEF ToSet, CoordsOf

LEMMA ReadStep ==
  ASSUME NEW s \in Seq(CandidateRecord), NEW n \in Nat, n < Len(s)
  PROVE  LET r == s[n + 1]
             now == SubSeq(s, 1, n)
             then == SubSeq(s, 1, n + 1)
         IN  /\ r \in CandidateRecord
             /\ ToSet(then) = ToSet(now) \cup {r}
             /\ CoordsOf(then) = CoordsOf(now) \cup {r.coord}
             /\ Len(now) = n /\ Len(then) = n + 1
             /\ ToSet(now) \subseteq CandidateRecord
  <1>1. n \in 0 .. Len(s) /\ n + 1 \in 0 .. Len(s) /\ n + 1 \in 1 .. Len(s)
    OBVIOUS
  <1>2. 1 .. n + 1 = 1 .. n \cup {n + 1}
    OBVIOUS
  <1>3. {s[i] : i \in 1 .. n + 1} = {s[i] : i \in 1 .. n} \cup {s[n + 1]}
    BY <1>2
  <1>4. {s[i].coord : i \in 1 .. n + 1} = {s[i].coord : i \in 1 .. n} \cup {s[n + 1].coord}
    BY <1>2
  <1>5. s[n + 1] \in CandidateRecord
    BY <1>1
  <1>. QED
    BY <1>1, <1>3, <1>4, <1>5, ReadFacts

\* What a record that is new does to the counts of the reference.
Tallied(K, n) ==
    [seen         |-> n,
     eligible     |-> Cardinality({r \in K : r.eligible}),
     duplicates   |-> n - Cardinality(K),
     modeSeen     |-> [m \in Mode |-> Cardinality({r \in K : r.mode = m})],
     modeEligible |-> [m \in Mode |-> Cardinality({r \in K : r.mode = m /\ r.eligible})],
     modeRejected |-> [m \in Mode |-> Cardinality({r \in K : r.mode = m /\ ~r.eligible})]]

LEMMA ReferenceCounts ==
  ASSUME NEW s, ToSet(s) \subseteq CandidateRecord
  PROVE  Reference(s).counts = Tallied(ToSet(s), Len(s))
  <1>. DEFINE K == ToSet(s)
  <1>1. \A m \in Mode : /\ {r \in K : r.mode = m /\ r.eligible = TRUE} = {r \in K : r.mode = m /\ r.eligible}
                        /\ {r \in K : r.mode = m /\ r.eligible = FALSE} = {r \in K : r.mode = m /\ ~r.eligible}
    <2>1. \A r \in K : r.eligible \in BOOLEAN
      BY DEF CandidateRecord
    <2>. QED
      BY <2>1
  <1>. QED
    BY <1>1 DEF Reference, Tallied

\* Counts are the same if their fields are.
LEMMA SameCounts ==
  ASSUME NEW c \in CountsType, NEW d \in CountsType,
         c.seen = d.seen, c.eligible = d.eligible, c.duplicates = d.duplicates,
         c.modeSeen = d.modeSeen, c.modeEligible = d.modeEligible, c.modeRejected = d.modeRejected
  PROVE  c = d
  BY DEF CountsType

LEMMA CountingStep ==
  ASSUME NEW c \in CountsType, NEW r \in CandidateRecord
  PROVE  /\ Accepted(c, r) = [seen |-> c.seen + 1, eligible |-> c.eligible + 1, duplicates |-> c.duplicates,
                              modeSeen |-> [c.modeSeen EXCEPT ![r.mode] = @ + 1],
                              modeEligible |-> [c.modeEligible EXCEPT ![r.mode] = @ + 1],
                              modeRejected |-> c.modeRejected]
         /\ Rejected(c, r) = [seen |-> c.seen + 1, eligible |-> c.eligible, duplicates |-> c.duplicates,
                              modeSeen |-> [c.modeSeen EXCEPT ![r.mode] = @ + 1],
                              modeEligible |-> c.modeEligible,
                              modeRejected |-> [c.modeRejected EXCEPT ![r.mode] = @ + 1]]
         /\ Accepted(c, r) \in CountsType
         /\ Accepted(c, r).modeEligible = [c.modeEligible EXCEPT ![r.mode] = @ + 1]
         /\ Rejected(c, r) \in CountsType /\ Rejected(c, r).modeEligible = c.modeEligible
         /\ Dropped(c) \in CountsType /\ Dropped(c).modeEligible = c.modeEligible
  <1>1. /\ Accepted(c, r).seen = c.seen + 1
        /\ Accepted(c, r).eligible = c.eligible + 1
        /\ Accepted(c, r).duplicates = c.duplicates
        /\ Accepted(c, r).modeSeen = [c.modeSeen EXCEPT ![r.mode] = @ + 1]
        /\ Accepted(c, r).modeEligible = [c.modeEligible EXCEPT ![r.mode] = @ + 1]
        /\ Accepted(c, r).modeRejected = c.modeRejected
        /\ Accepted(c, r) = [k \in DOMAIN c |-> Accepted(c, r)[k]]
    BY DEF Accepted, CountsType
  <1>2. /\ Rejected(c, r).seen = c.seen + 1
        /\ Rejected(c, r).eligible = c.eligible
        /\ Rejected(c, r).duplicates = c.duplicates
        /\ Rejected(c, r).modeSeen = [c.modeSeen EXCEPT ![r.mode] = @ + 1]
        /\ Rejected(c, r).modeEligible = c.modeEligible
        /\ Rejected(c, r).modeRejected = [c.modeRejected EXCEPT ![r.mode] = @ + 1]
    BY DEF Rejected, CountsType
  <1>3. ASSUME NEW k \in Mode PROVE /\ [c.modeSeen EXCEPT ![k] = @ + 1] \in [Mode -> Nat]
                                   /\ [c.modeEligible EXCEPT ![k] = @ + 1] \in [Mode -> Nat]
                                   /\ [c.modeRejected EXCEPT ![k] = @ + 1] \in [Mode -> Nat]
    BY DEF CountsType
  <1>4. /\ c.seen + 1 \in Nat /\ c.eligible + 1 \in Nat /\ c.eligible \in Nat
        /\ c.duplicates \in Nat /\ c.duplicates + 1 \in Nat
        /\ c.modeSeen \in [Mode -> Nat] /\ c.modeEligible \in [Mode -> Nat]
        /\ c.modeRejected \in [Mode -> Nat] /\ r.mode \in Mode
    BY DEF CountsType, CandidateRecord
  <1>5. /\ Accepted(c, r) \in CountsType
        /\ Rejected(c, r) \in CountsType
    <2>1. ASSUME NEW x \in CountsType, NEW n \in Nat, NEW f \in [Mode -> Nat]
          PROVE  /\ [x EXCEPT !.seen = n] \in CountsType /\ [x EXCEPT !.eligible = n] \in CountsType
                 /\ [x EXCEPT !.modeSeen = f] \in CountsType
                 /\ [x EXCEPT !.modeEligible = f] \in CountsType
                 /\ [x EXCEPT !.modeRejected = f] \in CountsType
      BY DEF CountsType
    <2>. QED
      BY <1>3, <1>4, <2>1 DEF Accepted, Rejected, CountsType
  <1>6. /\ [seen |-> c.seen + 1, eligible |-> c.eligible + 1, duplicates |-> c.duplicates,
            modeSeen |-> [c.modeSeen EXCEPT ![r.mode] = @ + 1],
            modeEligible |-> [c.modeEligible EXCEPT ![r.mode] = @ + 1],
            modeRejected |-> c.modeRejected] \in CountsType
        /\ [seen |-> c.seen + 1, eligible |-> c.eligible, duplicates |-> c.duplicates,
            modeSeen |-> [c.modeSeen EXCEPT ![r.mode] = @ + 1],
            modeEligible |-> c.modeEligible,
            modeRejected |-> [c.modeRejected EXCEPT ![r.mode] = @ + 1]] \in CountsType
    BY <1>3, <1>4 DEF CountsType
  <1>7. Accepted(c, r) = [seen |-> c.seen + 1, eligible |-> c.eligible + 1, duplicates |-> c.duplicates,
                          modeSeen |-> [c.modeSeen EXCEPT ![r.mode] = @ + 1],
                          modeEligible |-> [c.modeEligible EXCEPT ![r.mode] = @ + 1],
                          modeRejected |-> c.modeRejected]
    BY <1>1, <1>5, <1>6, SameCounts
  <1>8. Rejected(c, r) = [seen |-> c.seen + 1, eligible |-> c.eligible, duplicates |-> c.duplicates,
                          modeSeen |-> [c.modeSeen EXCEPT ![r.mode] = @ + 1],
                          modeEligible |-> c.modeEligible,
                          modeRejected |-> [c.modeRejected EXCEPT ![r.mode] = @ + 1]]
    BY <1>2, <1>5, <1>6, SameCounts
  <1>9. Dropped(c) \in CountsType /\ Dropped(c).modeEligible = c.modeEligible
    BY <1>4 DEF Dropped, CountsType
  <1>. QED
    BY <1>1, <1>2, <1>5, <1>7, <1>8, <1>9

LEMMA TalliedFields ==
  ASSUME NEW k, NEW n \in Nat, Cardinality(k) = n
  PROVE  Tallied(k, n) = [seen |-> n, eligible |-> Cardinality({x \in k : x.eligible}), duplicates |-> 0,
                          modeSeen |-> [m \in Mode |-> Cardinality({x \in k : x.mode = m})],
                          modeEligible |-> [m \in Mode |-> Cardinality({x \in k : x.mode = m /\ x.eligible})],
                          modeRejected |-> [m \in Mode |-> Cardinality({x \in k : x.mode = m /\ ~x.eligible})]]
  BY DEF Tallied

LEMMA TallyStep ==
  ASSUME NEW K, IsFiniteSet(K), K \subseteq CandidateRecord, NEW r \in CandidateRecord, r \notin K,
         NEW n \in Nat, Cardinality(K) = n
  PROVE  /\ IsFiniteSet(K \cup {r}) /\ Cardinality(K \cup {r}) = n + 1
         /\ Tallied(K, n) \in CountsType
         /\ r.eligible => Tallied(K \cup {r}, n + 1) = Accepted(Tallied(K, n), r)
         /\ ~r.eligible => Tallied(K \cup {r}, n + 1) = Rejected(Tallied(K, n), r)
  <1>1. IsFiniteSet(K \cup {r}) /\ Cardinality(K \cup {r}) = n + 1
    BY AddOne
  <1>2. r.mode \in Mode /\ r.eligible \in BOOLEAN
    BY DEF CandidateRecord
  <1>. DEFINE E(k) == {x \in k : x.eligible}
              M(k, m) == {x \in k : x.mode = m}
              A(k, m) == {x \in k : x.mode = m /\ x.eligible}
              B(k, m) == {x \in k : x.mode = m /\ ~x.eligible}
              L == K \cup {r}
  <1>3. \A S \in SUBSET K : /\ Cardinality(S) \in Nat
                            /\ Cardinality(S \cup {r}) = Cardinality(S) + 1
    BY FS_Subset, AddOne
  <1>4. /\ r.eligible => E(L) = E(K) \cup {r}
        /\ ~r.eligible => E(L) = E(K)
    OBVIOUS
  <1>5. \A m \in Mode : /\ r.mode = m => M(L, m) = M(K, m) \cup {r}
                        /\ r.mode # m => M(L, m) = M(K, m)
    OBVIOUS
  <1>6. \A m \in Mode : /\ r.mode = m /\ r.eligible => A(L, m) = A(K, m) \cup {r}
                        /\ ~ (r.mode = m /\ r.eligible) => A(L, m) = A(K, m)
    OBVIOUS
  <1>7. \A m \in Mode : /\ r.mode = m /\ ~r.eligible => B(L, m) = B(K, m) \cup {r}
                        /\ ~ (r.mode = m /\ ~r.eligible) => B(L, m) = B(K, m)
    OBVIOUS
  <1>8. E(K) \in SUBSET K /\ \A m \in Mode : {M(K, m), A(K, m), B(K, m)} \subseteq SUBSET K
    OBVIOUS
  <1>9. /\ Cardinality(E(K)) \in Nat
        /\ \A m \in Mode : /\ Cardinality(M(K, m)) \in Nat
                           /\ Cardinality(A(K, m)) \in Nat
                           /\ Cardinality(B(K, m)) \in Nat
    BY <1>3, <1>8
  <1>10. Cardinality(E(L)) = IF r.eligible THEN Cardinality(E(K)) + 1 ELSE Cardinality(E(K))
    BY <1>3, <1>4, <1>8
  <1>11. \A m \in Mode :
           /\ Cardinality(M(L, m)) = IF r.mode = m THEN Cardinality(M(K, m)) + 1
                                                   ELSE Cardinality(M(K, m))
           /\ Cardinality(A(L, m)) = IF r.mode = m /\ r.eligible THEN Cardinality(A(K, m)) + 1
                                                                 ELSE Cardinality(A(K, m))
           /\ Cardinality(B(L, m)) = IF r.mode = m /\ ~r.eligible THEN Cardinality(B(K, m)) + 1
                                                                  ELSE Cardinality(B(K, m))
    BY <1>3, <1>5, <1>6, <1>7, <1>8
  <1>12. Tallied(K, n) = [seen |-> n, eligible |-> Cardinality(E(K)), duplicates |-> 0,
                          modeSeen |-> [m \in Mode |-> Cardinality(M(K, m))],
                          modeEligible |-> [m \in Mode |-> Cardinality(A(K, m))],
                          modeRejected |-> [m \in Mode |-> Cardinality(B(K, m))]]
    BY TalliedFields
  <1>13. Tallied(L, n + 1) = [seen |-> n + 1, eligible |-> Cardinality(E(L)), duplicates |-> 0,
                              modeSeen |-> [m \in Mode |-> Cardinality(M(L, m))],
                              modeEligible |-> [m \in Mode |-> Cardinality(A(L, m))],
                              modeRejected |-> [m \in Mode |-> Cardinality(B(L, m))]]
    <2>1. n + 1 \in Nat /\ Cardinality(L) = n + 1
      BY <1>1
    <2>. HIDE DEF L
    <2>. QED
      BY <2>1, TalliedFields
  <1>. HIDE DEF E, M, A, B, L
  <1>14. Tallied(K, n) \in CountsType
    BY <1>9, <1>12 DEF CountsType
  <1>. DEFINE T == Tallied(K, n)
  <1>15. /\ T.seen = n /\ T.eligible = Cardinality(E(K)) /\ T.duplicates = 0
         /\ T.modeSeen = [m \in Mode |-> Cardinality(M(K, m))]
         /\ T.modeEligible = [m \in Mode |-> Cardinality(A(K, m))]
         /\ T.modeRejected = [m \in Mode |-> Cardinality(B(K, m))]
    BY <1>12
  <1>. HIDE DEF T
  <1>16. ASSUME r.eligible PROVE Tallied(L, n + 1) = Accepted(Tallied(K, n), r)
    <2>1. /\ [m \in Mode |-> Cardinality(M(L, m))]
               = [[m \in Mode |-> Cardinality(M(K, m))] EXCEPT ![r.mode] = @ + 1]
          /\ [m \in Mode |-> Cardinality(A(L, m))]
               = [[m \in Mode |-> Cardinality(A(K, m))] EXCEPT ![r.mode] = @ + 1]
          /\ [m \in Mode |-> Cardinality(B(L, m))] = [m \in Mode |-> Cardinality(B(K, m))]
      BY <1>2, <1>11, <1>16
    <2>2. Cardinality(E(L)) = Cardinality(E(K)) + 1
      BY <1>10, <1>16
    <2>3. T \in CountsType
      BY <1>14 DEF T
    <2>4. Accepted(T, r) = [seen |-> T.seen + 1, eligible |-> T.eligible + 1, duplicates |-> T.duplicates,
                            modeSeen |-> [T.modeSeen EXCEPT ![r.mode] = @ + 1],
                            modeEligible |-> [T.modeEligible EXCEPT ![r.mode] = @ + 1],
                            modeRejected |-> T.modeRejected]
      BY <2>3, CountingStep
    <2>5. Accepted(T, r) = Tallied(L, n + 1)
      BY <1>13, <1>15, <2>1, <2>2, <2>4
    <2>. QED
      BY <2>5 DEF T
  <1>17. ASSUME ~r.eligible PROVE Tallied(L, n + 1) = Rejected(Tallied(K, n), r)
    <2>1. /\ [m \in Mode |-> Cardinality(M(L, m))]
               = [[m \in Mode |-> Cardinality(M(K, m))] EXCEPT ![r.mode] = @ + 1]
          /\ [m \in Mode |-> Cardinality(A(L, m))] = [m \in Mode |-> Cardinality(A(K, m))]
          /\ [m \in Mode |-> Cardinality(B(L, m))]
               = [[m \in Mode |-> Cardinality(B(K, m))] EXCEPT ![r.mode] = @ + 1]
      BY <1>2, <1>11, <1>17
    <2>2. Cardinality(E(L)) = Cardinality(E(K))
      BY <1>10, <1>17
    <2>3. T \in CountsType
      BY <1>14 DEF T
    <2>4. Rejected(T, r) = [seen |-> T.seen + 1, eligible |-> T.eligible, duplicates |-> T.duplicates,
                            modeSeen |-> [T.modeSeen EXCEPT ![r.mode] = @ + 1],
                            modeEligible |-> T.modeEligible,
                            modeRejected |-> [T.modeRejected EXCEPT ![r.mode] = @ + 1]]
      BY <2>3, CountingStep
    <2>5. Rejected(T, r) = Tallied(L, n + 1)
      BY <1>13, <1>15, <2>1, <2>2, <2>4
    <2>. QED
      BY <2>5 DEF T
  <1>. QED
    BY <1>1, <1>14, <1>16, <1>17 DEF L

-----------------------------------------------------------------------------
(***************************************************************************)
(* The invariant.                                                          *)
(***************************************************************************)
LEMMA ReserveStarts == Init => ReserveInv
  <1>. SUFFICES ASSUME Init PROVE ReserveInv
    OBVIOUS
  <1>1. input.records \in Seq(CandidateRecord)
    BY SelectionAssumption DEF Init
  <1>2. stage = "consider" /\ came = 0 /\ batch = <<>> /\ table = {}
    BY DEF Init, ReserveInit
  <1>3. Len(Read) = 0 /\ Kept = {} /\ CoordsOf(Read) = {} /\ EligibleRead = {}
    BY <1>1, <1>2, ReadFacts DEF Read, Kept, EligibleRead
  <1>4. ToSet(batch) = {} /\ batch \in Seq(CandidateRecord)
    BY <1>2 DEF ToSet
  <1>5. Stored
    BY <1>2, <1>3, <1>4 DEF Stored, Conflicts
  <1>6. Zero \in [Mode -> Nat]
    BY DEF Zero
  <1>7. ModesCounted
    BY <1>3, <1>6 DEF Init, ReserveInit, ModesCounted, CountsType, Zero
  <1>8. IsFiniteSet({}) /\ Cardinality({}) = 0
    BY FS_EmptySet
  <1>9. Reference(Read).counts = Tallied({}, 0)
    BY <1>3, ReferenceCounts DEF Kept
  <1>10. Tallied({}, 0) = counts
    <2>1. /\ {r \in {} : r.eligible} = {}
          /\ \A m \in Mode : /\ {r \in {} : r.mode = m} = {}
                             /\ {r \in {} : r.mode = m /\ r.eligible} = {}
                             /\ {r \in {} : r.mode = m /\ ~r.eligible} = {}
      OBVIOUS
    <2>2. Tallied({}, 0) = [seen |-> 0, eligible |-> 0, duplicates |-> 0,
                            modeSeen |-> Zero, modeEligible |-> Zero, modeRejected |-> Zero]
      BY <1>8, <2>1 DEF Tallied, Zero
    <2>. QED
      BY <2>2 DEF Init, ReserveInit
  <1>11. Counted
    BY <1>2, <1>3, <1>8, <1>9, <1>10 DEF Counted
  <1>. QED
    BY <1>1, <1>2, <1>5, <1>7, <1>11 DEF ReserveInv

\* The stages before and after the reserve leave it alone.
LEMMA ReserveWaits ==
  ASSUME ReserveInv, UNCHANGED <<input, reserveVars>>,
         stage' \in Filling => stage \in Filling,
         stage' \in {"allocate", "conflict"} => stage' = stage
  PROVE  ReserveInv'
  <1>1. UNCHANGED <<input, came, batch, table, counts, reserve>>
    BY DEF reserveVars
  <1>2. UNCHANGED <<Read, Kept, EligibleRead, NoRepeats, Modes>>
    BY <1>1 DEF Read, Kept, EligibleRead, NoRepeats, Modes
  <1>3. (Stored => Stored') /\ (ModesCounted => ModesCounted') /\ (Counted => Counted')
    BY <1>1, <1>2 DEF Stored, ModesCounted, Counted
  <1>4. Agreed => Agreed'
    BY <1>1, <1>2 DEF Agreed
  <1>. QED
    BY <1>1, <1>2, <1>3, <1>4 DEF ReserveInv

\* What the next record adds, and what no repeat up to it means.
LEMMA RecordComes ==
  ASSUME ReserveInv, stage \in Filling, came < Len(input.records),
         came' = came + 1, UNCHANGED input
  PROVE  LET r == input.records[came + 1]
         IN  /\ r \in CandidateRecord
             /\ input.records \in Seq(CandidateRecord) /\ came' \in 0 .. Len(input.records)
             /\ Kept \subseteq CandidateRecord /\ Kept' = Kept \cup {r}
             /\ r.eligible => EligibleRead' = EligibleRead \cup {r}
             /\ ~r.eligible => EligibleRead' = EligibleRead
             /\ IsFiniteSet(Kept') /\ IsFiniteSet(CoordsOf(Read)')
             /\ Cardinality(CoordsOf(Read)') <= came'
             /\ NoRepeats' => /\ r \notin Kept /\ IsFiniteSet(Kept) /\ Cardinality(Kept) = came
                              /\ counts = Tallied(Kept, came) /\ ToSet(batch) \cap table = {}
             /\ Reference(Read)'.counts = Tallied(Kept', came')
  <1>. DEFINE r == input.records[came + 1]
  <1>1. input.records \in Seq(CandidateRecord) /\ came \in 0 .. Len(input.records) /\ came \in Nat
    BY DEF ReserveInv
  <1>2. Counted
    BY DEF ReserveInv
  <1>3. /\ r \in CandidateRecord
        /\ Kept' = Kept \cup {r}
        /\ CoordsOf(Read)' = CoordsOf(Read) \cup {r.coord}
        /\ Len(Read) = came /\ Len(Read)' = came'
        /\ Kept \subseteq CandidateRecord
    BY <1>1, ReadStep DEF Read, Kept
  <1>4. /\ r.eligible => EligibleRead' = EligibleRead \cup {r}
        /\ ~r.eligible => EligibleRead' = EligibleRead
    BY <1>3 DEF EligibleRead, Kept
  <1>5. /\ IsFiniteSet(Kept) /\ IsFiniteSet(CoordsOf(Read))
        /\ Cardinality(CoordsOf(Read)) \in Nat /\ Cardinality(CoordsOf(Read)) <= came
    BY <1>2, FS_CardinalityType DEF Counted
  <1>6. IsFiniteSet(Kept') /\ IsFiniteSet(CoordsOf(Read)')
    <2>1. IsFiniteSet(Kept \cup {r}) /\ IsFiniteSet(CoordsOf(Read) \cup {r.coord})
      BY <1>5, FS_AddElement
    <2>. QED
      BY <1>3, <2>1
  <1>7. r.coord \in CoordsOf(Read) => Cardinality(CoordsOf(Read)') = Cardinality(CoordsOf(Read))
    <2>1. r.coord \in CoordsOf(Read) => CoordsOf(Read)' = CoordsOf(Read)
      BY <1>3
    <2>. QED
      BY <2>1
  <1>8. r.coord \notin CoordsOf(Read) => Cardinality(CoordsOf(Read)') = Cardinality(CoordsOf(Read)) + 1
    <2>1. r.coord \notin CoordsOf(Read) =>
            Cardinality(CoordsOf(Read) \cup {r.coord}) = Cardinality(CoordsOf(Read)) + 1
      BY <1>5, AddOne
    <2>. QED
      BY <1>3, <2>1
  <1>9. /\ Cardinality(CoordsOf(Read)') <= came'
        /\ NoRepeats' => r \notin Kept /\ NoRepeats
    <2>1. CASE r.coord \in CoordsOf(Read)
      BY <1>1, <1>3, <1>5, <1>7, <2>1 DEF NoRepeats
    <2>2. CASE r.coord \notin CoordsOf(Read)
      <3>1. r \notin Kept
        BY <1>1, <2>2, ReadFacts DEF Kept, Read
      <3>. QED
        BY <1>1, <1>3, <1>5, <1>8, <2>2, <3>1 DEF NoRepeats
    <2>. QED
      BY <2>1, <2>2
  <1>10. Reference(Read).counts = Tallied(Kept, came)
    BY <1>3, ReferenceCounts DEF Kept
  <1>11. Kept' \subseteq CandidateRecord
    BY <1>3
  <1>12. Reference(Read)'.counts = Tallied(Kept', came')
    <2>1. ToSet(Read') \subseteq CandidateRecord
      BY <1>11 DEF Kept
    <2>2. Reference(Read').counts = Tallied(ToSet(Read'), Len(Read'))
      BY <2>1, ReferenceCounts
    <2>. QED
      BY <1>3, <2>2 DEF Kept
  <1>13. NoRepeats' => /\ r \notin Kept /\ IsFiniteSet(Kept) /\ Cardinality(Kept) = came
                      /\ counts = Tallied(Kept, came) /\ ToSet(batch) \cap table = {}
    BY <1>2, <1>9, <1>10 DEF Counted
  <1>14. came' \in 0 .. Len(input.records)
    BY <1>1
  <1>. QED
    BY <1>1, <1>3, <1>4, <1>6, <1>9, <1>12, <1>13, <1>14

LEMMA InSequence ==
  ASSUME NEW s \in Seq(CandidateRecord), NEW r \in CandidateRecord
  PROVE  Append(s, r) \in Seq(CandidateRecord) /\ ToSet(Append(s, r)) = ToSet(s) \cup {r}
  <1>1. /\ Append(s, r) \in Seq(CandidateRecord) /\ Len(Append(s, r)) = Len(s) + 1
        /\ \A i \in 1 .. Len(s) : Append(s, r)[i] = s[i]
        /\ Append(s, r)[Len(s) + 1] = r /\ Len(s) \in Nat
    OBVIOUS
  <1>2. DOMAIN Append(s, r) = 1 .. Len(s) \cup {Len(s) + 1} /\ DOMAIN s = 1 .. Len(s)
    BY <1>1
  <1>. QED
    BY <1>1, <1>2 DEF ToSet

\* A record that is new by its coordinate, where it is counted.
LEMMA NewRecord ==
  ASSUME ReserveInv, stage \in Filling, came < Len(input.records),
         came' = came + 1, UNCHANGED input,
         NEW c,
         \/ ~input.records[came + 1].eligible /\ c = Rejected(counts, input.records[came + 1])
         \/ input.records[came + 1].eligible /\ c = Accepted(counts, input.records[came + 1])
  PROVE  /\ c \in CountsType
         /\ \A m \in Mode : c.modeEligible[m] > 0 <=> \E x \in EligibleRead' : x.mode = m
         /\ NoRepeats' => Cardinality(Kept') = came' /\ c = Reference(Read)'.counts
  <1>. DEFINE r == input.records[came + 1]
  <1>1. /\ r \in CandidateRecord
        /\ Kept \subseteq CandidateRecord /\ Kept' = Kept \cup {r}
        /\ r.eligible => EligibleRead' = EligibleRead \cup {r}
        /\ ~r.eligible => EligibleRead' = EligibleRead
        /\ NoRepeats' => /\ r \notin Kept /\ IsFiniteSet(Kept) /\ Cardinality(Kept) = came
                         /\ counts = Tallied(Kept, came)
        /\ Reference(Read)'.counts = Tallied(Kept', came')
    BY RecordComes
  <1>2. ModesCounted /\ counts \in CountsType /\ came \in Nat
    BY DEF ReserveInv, ModesCounted
  <1>3. r.mode \in Mode /\ r.eligible \in BOOLEAN
    BY <1>1 DEF CandidateRecord
  <1>. HIDE DEF r
  <1>4. /\ c \in CountsType
        /\ \A m \in Mode : c.modeEligible[m] > 0 <=> \E x \in EligibleRead' : x.mode = m
    <2>1. CASE ~r.eligible /\ c = Rejected(counts, r)
      <3>1. c \in CountsType /\ c.modeEligible = counts.modeEligible
        BY <1>1, <1>2, <2>1, CountingStep
      <3>. QED
        BY <1>1, <1>2, <2>1, <3>1 DEF ModesCounted
    <2>2. CASE r.eligible /\ c = Accepted(counts, r)
      <3>1. /\ c \in CountsType
            /\ c.modeEligible = [counts.modeEligible EXCEPT ![r.mode] = @ + 1]
            /\ counts.modeEligible \in [Mode -> Nat]
        BY <1>1, <1>2, <2>2, CountingStep DEF CountsType
      <3>2. ASSUME NEW m \in Mode PROVE c.modeEligible[m] > 0 <=> \E x \in EligibleRead' : x.mode = m
        <4>1. CASE m = r.mode
          BY <1>1, <1>3, <2>2, <3>1, <4>1
        <4>2. CASE m # r.mode
          BY <1>1, <1>2, <1>3, <2>2, <3>1, <4>2 DEF ModesCounted
        <4>. QED
          BY <4>1, <4>2
      <3>. QED
        BY <3>1, <3>2 DEF ModesCounted
    <2>. QED
      BY <2>1, <2>2 DEF r
  <1>5. ASSUME NoRepeats' PROVE Cardinality(Kept') = came' /\ c = Reference(Read)'.counts
    <2>1. /\ Cardinality(Kept \cup {r}) = came + 1
          /\ r.eligible => Tallied(Kept \cup {r}, came + 1) = Accepted(counts, r)
          /\ ~r.eligible => Tallied(Kept \cup {r}, came + 1) = Rejected(counts, r)
      BY <1>1, <1>2, <1>5, TallyStep
    <2>2. Tallied(Kept', came') = c
      BY <1>1, <2>1 DEF r
    <2>. QED
      BY <1>1, <2>1, <2>2
  <1>. QED
    BY <1>4, <1>5

\* What a written batch does to the counts: it adds the records the table has.
LEMMA BatchMet ==
  ASSUME NEW S, IsFiniteSet(S), NEW b \in SUBSET S, NEW t
  PROVE  Cardinality(b \cap t) \in Nat /\ (b \cap t = {} => Cardinality(b \cap t) = 0)
  <1>1. Cardinality(b \cap t) \in Nat
    BY FS_Subset, FS_CardinalityType
  <1>2. Cardinality({}) = 0
    BY FS_EmptySet
  <1>. QED
    BY <1>1, <1>2

LEMMA BatchWritten ==
  ASSUME NEW c \in CountsType, NEW n \in Nat, NEW d, d = [c EXCEPT !.duplicates = @ + n]
  PROVE  /\ d \in CountsType /\ d.modeEligible = c.modeEligible
         /\ n = 0 => d = c
  <1>1. c.duplicates \in Nat /\ c.duplicates + n \in Nat /\ (n = 0 => c.duplicates + n = c.duplicates)
    BY DEF CountsType
  <1>2. d \in CountsType /\ d.modeEligible = c.modeEligible
    BY <1>1 DEF CountsType
  <1>3. ASSUME n = 0 PROVE d = c
    BY <1>1, <1>2, <1>3, SameCounts DEF CountsType
  <1>. QED
    BY <1>2, <1>3

LEMMA IngestKeeps ==
  ASSUME ReserveInv, Ingest
  PROVE  ReserveInv'
  <1>. DEFINE r == input.records[came + 1]
  <1>1. stage \in Filling /\ came < Len(input.records) /\ came' = came + 1 /\ UNCHANGED input
    BY DEF Ingest, Filling
  <1>2. /\ r \in CandidateRecord
        /\ input.records \in Seq(CandidateRecord) /\ came' \in 0 .. Len(input.records)
        /\ Kept \subseteq CandidateRecord /\ Kept' = Kept \cup {r}
        /\ r.eligible => EligibleRead' = EligibleRead \cup {r}
        /\ ~r.eligible => EligibleRead' = EligibleRead
        /\ IsFiniteSet(Kept') /\ IsFiniteSet(CoordsOf(Read)')
        /\ Cardinality(CoordsOf(Read)') <= came'
        /\ NoRepeats' => r \notin Kept /\ ToSet(batch) \cap table = {}
    BY <1>1, RecordComes
  <1>3. Stored /\ ModesCounted
    BY <1>1 DEF ReserveInv
  <1>4. /\ batch \in Seq(CandidateRecord) /\ counts \in CountsType
        /\ ToSet(batch) \subseteq EligibleRead /\ table \subseteq EligibleRead
        /\ EligibleRead \subseteq Kept
    BY <1>3 DEF Stored, ModesCounted, EligibleRead, Kept
  <1>5. input'.records \in Seq(CandidateRecord) /\ came' \in 0 .. Len(input'.records)
    BY <1>1, <1>2
  <1>6. stage = "ingest" /\ stage' \in {"ingest", "conflict"}
    BY DEF Ingest, Refuse, Flush
  <1>7. ASSUME stage' = stage, Stored', ModesCounted',
               NoRepeats' => /\ Cardinality(Kept') = came'
                             /\ counts' = Reference(Read)'.counts
                             /\ ToSet(batch') \cap table' = {}
        PROVE  ReserveInv'
    <2>1. Counted'
      BY <1>2, <1>7 DEF Counted
    <2>. QED
      BY <1>5, <1>6, <1>7, <2>1 DEF ReserveInv
  <1>8. ASSUME stage' = "conflict", Conflicts(Kept', Kept')
        PROVE  ReserveInv'
    BY <1>5, <1>8 DEF ReserveInv, Filling
  <1>9. CASE Conflicts({r}, ToSet(batch)) /\ Refuse
    <2>1. Conflicts(Kept', Kept')
      BY <1>2, <1>4, <1>9 DEF Conflicts
    <2>. QED
      BY <1>8, <1>9, <2>1 DEF Refuse
  <1>10. CASE r \in ToSet(batch) /\ counts' = Dropped(counts) /\ UNCHANGED <<stage, batch, table, reserve>>
    <2>1. r.eligible /\ r \in Kept
      BY <1>4, <1>10 DEF EligibleRead
    <2>2. EligibleRead' = EligibleRead
      BY <1>2, <1>4, <1>10, <2>1
    <2>3. counts' \in CountsType /\ counts'.modeEligible = counts.modeEligible
      BY <1>2, <1>4, <1>10, CountingStep
    <2>4. Stored' /\ ModesCounted'
      BY <1>3, <1>10, <2>2, <2>3 DEF Stored, ModesCounted
    <2>. QED
      BY <1>2, <1>7, <1>10, <2>1, <2>4
  <1>11. CASE ~r.eligible /\ counts' = Rejected(counts, r) /\ UNCHANGED <<stage, batch, table, reserve>>
    <2>1. Stored'
      BY <1>2, <1>3, <1>11 DEF Stored
    <2>2. /\ counts' \in CountsType
          /\ \A m \in Mode : counts'.modeEligible[m] > 0 <=> \E x \in EligibleRead' : x.mode = m
          /\ NoRepeats' => Cardinality(Kept') = came' /\ counts' = Reference(Read)'.counts
      BY <1>1, <1>11, NewRecord
    <2>3. ModesCounted'
      BY <2>2 DEF ModesCounted
    <2>. QED
      BY <1>2, <1>7, <1>11, <2>1, <2>2, <2>3
  <1>12. ASSUME \A s \in ToSet(batch) : s.coord # r.coord, r.eligible
         PROVE  /\ Append(batch, r) \in Seq(CandidateRecord)
                /\ ToSet(Append(batch, r)) = ToSet(batch) \cup {r}
                /\ table \cup ToSet(Append(batch, r)) = EligibleRead'
                /\ ~Conflicts(ToSet(Append(batch, r)), ToSet(Append(batch, r)))
                /\ NoRepeats' => ToSet(Append(batch, r)) \cap table = {}
    <2>1. Append(batch, r) \in Seq(CandidateRecord) /\ ToSet(Append(batch, r)) = ToSet(batch) \cup {r}
      BY <1>2, <1>4, InSequence
    <2>2. table \cup ToSet(Append(batch, r)) = EligibleRead'
      BY <1>2, <1>3, <1>12, <2>1 DEF Stored
    <2>3. ~Conflicts(ToSet(Append(batch, r)), ToSet(Append(batch, r)))
      BY <1>3, <1>12, <2>1 DEF Stored, Conflicts
    <2>4. NoRepeats' => ToSet(Append(batch, r)) \cap table = {}
      BY <1>2, <1>4, <2>1
    <2>. QED
      BY <2>1, <2>2, <2>3, <2>4
  <1>13. CASE /\ \A s \in ToSet(batch) : s.coord # r.coord
              /\ r.eligible
              /\ batch' = Append(batch, r)
              /\ counts' = Accepted(counts, r)
              /\ UNCHANGED <<stage, table, reserve>>
    <2>1. Stored'
      BY <1>3, <1>12, <1>13 DEF Stored
    <2>2. /\ counts' \in CountsType
          /\ \A m \in Mode : counts'.modeEligible[m] > 0 <=> \E x \in EligibleRead' : x.mode = m
          /\ NoRepeats' => Cardinality(Kept') = came' /\ counts' = Reference(Read)'.counts
      BY <1>1, <1>13, NewRecord
    <2>3. ModesCounted'
      BY <2>2 DEF ModesCounted
    <2>. QED
      BY <1>7, <1>12, <1>13, <2>1, <2>2, <2>3
  <1>14. CASE /\ \A s \in ToSet(batch) : s.coord # r.coord
              /\ r.eligible
              /\ Conflicts(ToSet(Append(batch, r)), table)
              /\ Refuse
    <2>1. r \in Kept' /\ ToSet(batch) \subseteq Kept' /\ table \subseteq Kept'
      BY <1>2, <1>4
    <2>2. ToSet(Append(batch, r)) \subseteq Kept'
      BY <1>12, <1>14, <2>1
    <2>3. Conflicts(Kept', Kept')
      BY <1>14, <2>1, <2>2 DEF Conflicts
    <2>. QED
      BY <1>8, <1>14, <2>3 DEF Refuse
  <1>15. CASE /\ \A s \in ToSet(batch) : s.coord # r.coord
              /\ r.eligible
              /\ ~Conflicts(ToSet(Append(batch, r)), table)
              /\ Flush(Append(batch, r), Accepted(counts, r))
              /\ UNCHANGED <<stage, reserve>>
    <2>. DEFINE b == Append(batch, r)
                c == Accepted(counts, r)
    <2>1. /\ b \in Seq(CandidateRecord) /\ ToSet(b) \subseteq Kept'
          /\ table \cup ToSet(b) = EligibleRead' /\ ~Conflicts(ToSet(b), ToSet(b))
          /\ NoRepeats' => ToSet(b) \cap table = {}
      BY <1>2, <1>4, <1>12, <1>15
    <2>2. /\ c \in CountsType
          /\ \A m \in Mode : c.modeEligible[m] > 0 <=> \E x \in EligibleRead' : x.mode = m
          /\ NoRepeats' => Cardinality(Kept') = came' /\ c = Reference(Read)'.counts
      BY <1>1, <1>15, NewRecord
    <2>3. /\ batch' = <<>> /\ table' = table \cup ToSet(b)
          /\ counts' = [c EXCEPT !.duplicates = @ + Cardinality(ToSet(b) \cap table)]
          /\ ~Conflicts(ToSet(b), table)
      BY <1>15 DEF Flush
    <2>. HIDE DEF b, c
    <2>4. /\ counts' \in CountsType /\ counts'.modeEligible = c.modeEligible
          /\ NoRepeats' => counts' = c
      <3>. DEFINE n == Cardinality(ToSet(b) \cap table)
                  d == counts'
      <3>1. n \in Nat /\ (ToSet(b) \cap table = {} => n = 0)
        BY <1>2, <2>1, BatchMet
      <3>2. d = [c EXCEPT !.duplicates = @ + n] /\ c \in CountsType
        BY <2>2, <2>3
      <3>. HIDE DEF n, d
      <3>3. d \in CountsType /\ d.modeEligible = c.modeEligible /\ (n = 0 => d = c)
        BY <3>1, <3>2, BatchWritten
      <3>. QED
        BY <2>1, <3>1, <3>3 DEF d
    <2>5. ToSet(batch') = {} /\ batch' \in Seq(CandidateRecord)
      BY <2>3 DEF ToSet
    <2>6. ~Conflicts(table', table')
      BY <1>3, <2>1, <2>3 DEF Stored, Conflicts
    <2>7. ~Conflicts(ToSet(batch'), ToSet(batch'))
      BY <2>5 DEF Conflicts
    <2>8. Stored'
      BY <2>1, <2>3, <2>5, <2>6, <2>7 DEF Stored
    <2>9. ModesCounted'
      BY <2>2, <2>4 DEF ModesCounted
    <2>. QED
      BY <1>7, <1>15, <2>2, <2>4, <2>5, <2>8, <2>9
  <1>. QED
    BY <1>9, <1>10, <1>11, <1>13, <1>14, <1>15 DEF Ingest

LEMMA EndKeeps ==
  ASSUME ReserveInv, EndStream
  PROVE  ReserveInv'
  <1>1. stage = "ingest" /\ UNCHANGED <<input, came>>
    BY DEF EndStream
  <1>2. UNCHANGED <<Read, Kept, EligibleRead, NoRepeats>>
    BY <1>1 DEF Read, Kept, EligibleRead, NoRepeats
  <1>3. Stored /\ ModesCounted /\ Counted
    BY <1>1 DEF ReserveInv, Filling
  <1>4. /\ batch \in Seq(CandidateRecord) /\ counts \in CountsType
        /\ ToSet(batch) \subseteq Kept /\ table \subseteq Kept
        /\ table \cup ToSet(batch) = EligibleRead /\ IsFiniteSet(Kept)
    BY <1>3 DEF Stored, ModesCounted, Counted, EligibleRead, Kept
  <1>5. CASE Conflicts(ToSet(batch), table) /\ Refuse
    <2>1. Conflicts(Kept', Kept') /\ stage' = "conflict"
      BY <1>2, <1>4, <1>5 DEF Conflicts, Refuse
    <2>. QED
      BY <1>1, <2>1 DEF ReserveInv, Filling
  <1>6. CASE /\ ~Conflicts(ToSet(batch), table)
             /\ Flush(batch, counts)
             /\ reserve' = [m \in {n \in Mode : counts.modeEligible[n] > 0} |-> Ranked({r \in table' : r.mode = m})]
             /\ stage' = "allocate"
    <2>1. /\ table' = EligibleRead
          /\ counts' = [counts EXCEPT !.duplicates = @ + Cardinality(ToSet(batch) \cap table)]
      BY <1>4, <1>6 DEF Flush
    <2>2. ToSet(batch) \cap table = {} => counts' = counts
      <3>. DEFINE n == Cardinality(ToSet(batch) \cap table)
      <3>1. n \in Nat /\ (ToSet(batch) \cap table = {} => n = 0)
        BY <1>4, BatchMet
      <3>. HIDE DEF n
      <3>. QED
        BY <1>4, <2>1, <3>1, BatchWritten DEF n
    <2>3. NoRepeats' => counts' = Reference(Read').counts
      BY <1>2, <1>3, <2>2 DEF Counted
    <2>4. ~Conflicts(EligibleRead, EligibleRead)
      BY <1>3, <1>4, <1>6 DEF Stored, Conflicts
    <2>. DEFINE P(m) == {r \in Kept : r.mode = m /\ r.eligible}
    <2>5. \A m \in Mode : {r \in table' : r.mode = m} = P(m)
      BY <2>1 DEF EligibleRead, Kept
    <2>6. \A m \in Mode : counts.modeEligible[m] > 0 <=> P(m) # {}
      BY <1>3 DEF ModesCounted, EligibleRead, Kept
    <2>7. Kept \subseteq CandidateRecord /\ Reference(Read).counts = Tallied(Kept, Len(Read))
      <3>1. Kept \subseteq CandidateRecord
        BY ReadFacts DEF ReserveInv, Kept, Read
      <3>. QED
        BY <3>1, ReferenceCounts DEF Kept
    <2>8. \A m \in Mode : Reference(Read).counts.modeEligible[m] > 0 <=> P(m) # {}
      <3>1. ASSUME NEW m \in Mode
            PROVE  Cardinality(P(m)) > 0 <=> P(m) # {}
        <4>1. IsFiniteSet(P(m))
          BY <1>4, FS_Subset
        <4>2. Cardinality(P(m)) \in Nat /\ (Cardinality(P(m)) = 0 <=> P(m) = {})
          BY <4>1, FS_CardinalityType, FS_EmptySet
        <4>. QED
          BY <4>2
      <3>2. Reference(Read).counts.modeEligible = [m \in Mode |-> Cardinality(P(m))]
        BY <2>7 DEF Tallied
      <3>. QED
        BY <3>1, <3>2
    <2>9. reserve' = [m \in {n \in Mode : Reference(Read).counts.modeEligible[n] > 0} |-> Reference(Read).pools[m]]
      <3>1. {n \in Mode : counts.modeEligible[n] > 0}
              = {n \in Mode : Reference(Read).counts.modeEligible[n] > 0}
        BY <2>6, <2>8
      <3>2. \A m \in Mode : Reference(Read).pools[m] = Ranked(P(m))
        BY DEF Reference, Kept
      <3>. QED
        BY <1>6, <2>5, <3>1, <3>2
    <2>10. Agreed'
      BY <1>2, <2>3, <2>4, <2>9 DEF Agreed
    <2>. QED
      BY <1>1, <1>6, <2>10 DEF ReserveInv, Filling
  <1>. QED
    BY <1>5, <1>6 DEF EndStream

LEMMA ReserveStep == ReserveInv /\ [Next]_vars => ReserveInv'
  <1>. SUFFICES ASSUME ReserveInv, [Next]_vars PROVE ReserveInv'
    OBVIOUS
  <1>1. CASE Reserving(Ingest)
    BY <1>1, IngestKeeps DEF Reserving
  <1>2. CASE Reserving(EndStream)
    BY <1>2, EndKeeps DEF Reserving
  <1>3. CASE \/ Selecting(Consider) \/ Selecting(Seat) \/ Selecting(Release) \/ Selecting(Backfill)
             \/ Selecting(EndTurn) \/ Selecting(EndRound) \/ Selecting(Trim)
    <2>1. UNCHANGED <<input, reserveVars>> /\ stage \in Filling /\ stage' \in Filling
      BY <1>3 DEF Selecting, Consider, Seat, Release, Backfill, EndTurn, EndRound, Trim, Filling
    <2>. QED
      BY <2>1, ReserveWaits DEF Filling
  <1>4. CASE Claiming(Export)
    <2>1. UNCHANGED <<input, reserveVars>> /\ stage \in Filling /\ stage' \in {"ingest", "refused"}
      BY <1>4 DEF Claiming, Export, Filling
    <2>. QED
      BY <2>1, ReserveWaits
  <1>5. CASE \/ Claiming(Allocate) \/ Claiming(AllotSlot) \/ Claiming(NextPass) \/ Claiming(EndPlan)
             \/ Claiming(ClaimMode) \/ Claiming(EndCorridors)
             \/ Claiming(NextBoard) \/ Claiming(PassOver) \/ Claiming(Collide) \/ Claiming(Claim) \/ Claiming(Validate)
    <2>1. UNCHANGED <<input, reserveVars>> /\ stage' \notin Filling \cup {"allocate", "conflict"}
      BY <1>5 DEF Claiming, Allocate, AllotSlot, NextSlot, NextPass, EndPlan, ClaimMode, EndCorridors, NextBoard, PassOver, Collide, Claim, Validate, Filling
    <2>. QED
      BY <2>1, ReserveWaits
  <1>6. CASE UNCHANGED vars
    BY <1>6, ReserveWaits DEF vars
  <1>. QED
    BY <1>1, <1>2, <1>3, <1>4, <1>5, <1>6 DEF Next, Terminated

(***************************************************************************)
(* For every stream of records and every size of batch, what the candidate *)
(* store ranks, counts and refuses is what the reference builder does.     *)
(***************************************************************************)
THEOREM ReserveAgrees == Spec => []ReserveIsReference
  <1>1. Init => ReserveInv
    BY ReserveStarts
  <1>2. ReserveInv /\ [Next]_vars => ReserveInv'
    BY ReserveStep
  <1>3. ReserveInv => ReserveIsReference
    BY DEF ReserveInv, Agreed, ReserveIsReference, Reference, Kept
  <1>. QED
    BY <1>1, <1>2, <1>3, PTL DEF Spec

-----------------------------------------------------------------------------
(***************************************************************************)
(* Ranks.  L[e] is the set of the elements of S that are less than e.      *)
(***************************************************************************)
StrictOrder(S, L) ==
    /\ L \in [S -> SUBSET S]
    /\ \A e \in S : e \notin L[e]
    /\ \A e, f \in S : e # f => e \in L[f] \/ f \in L[e]
    /\ \A e, f \in S : f \in L[e] => L[f] \subseteq L[e]

LEMMA RankOrder ==
  ASSUME NEW S, IsFiniteSet(S), NEW L, StrictOrder(S, L)
  PROVE  /\ Cardinality(S) \in Nat
         /\ \A e \in S : /\ IsFiniteSet(L[e])
                         /\ Cardinality(L[e]) \in Nat /\ Cardinality(L[e]) < Cardinality(S)
         /\ \A e, f \in S : f \in L[e] <=> Cardinality(L[f]) < Cardinality(L[e])
  <1>1. \A e \in S : L[e] \subseteq S /\ L[e] # S
    BY DEF StrictOrder
  <1>2. Cardinality(S) \in Nat
    BY FS_CardinalityType
  <1>3. ASSUME NEW e \in S
        PROVE  /\ IsFiniteSet(L[e])
               /\ Cardinality(L[e]) \in Nat /\ Cardinality(L[e]) < Cardinality(S)
    <2>1. /\ IsFiniteSet(L[e]) /\ Cardinality(L[e]) <= Cardinality(S)
          /\ Cardinality(S) = Cardinality(L[e]) => S = L[e]
      BY <1>1, FS_Subset
    <2>. QED
      BY <1>1, <1>2, <2>1, FS_CardinalityType
  <1>4. ASSUME NEW e \in S, NEW f \in S, f \in L[e]
        PROVE  Cardinality(L[f]) < Cardinality(L[e])
    <2>1. L[f] \subseteq L[e] /\ L[f] # L[e]
      BY <1>4 DEF StrictOrder
    <2>2. /\ Cardinality(L[f]) <= Cardinality(L[e])
          /\ Cardinality(L[e]) = Cardinality(L[f]) => L[e] = L[f]
      BY <1>3, <2>1, FS_Subset
    <2>. QED
      BY <1>3, <2>1, <2>2
  <1>5. ASSUME NEW e \in S, NEW f \in S, f \notin L[e]
        PROVE  ~(Cardinality(L[f]) < Cardinality(L[e]))
    <2>1. e = f \/ e \in L[f]
      BY <1>5 DEF StrictOrder
    <2>. QED
      BY <1>3, <1>4, <2>1
  <1>. QED
    BY <1>2, <1>3, <1>4, <1>5

\* Every rank below the number of elements is taken, by one of them.
LEMMA RankTaken ==
  ASSUME NEW S, IsFiniteSet(S), NEW L, StrictOrder(S, L)
  PROVE  /\ \A k \in 0 .. Cardinality(S) - 1 : \E e \in S : Cardinality(L[e]) = k
         /\ \A e, f \in S : Cardinality(L[e]) = Cardinality(L[f]) => e = f
  <1>. DEFINE n == Cardinality(S)
              r == [e \in S |-> Cardinality(L[e])]
  <1>1. n \in Nat /\ \A e \in S : Cardinality(L[e]) \in 0 .. n - 1
    BY RankOrder
  <1>2. \A e, f \in S : Cardinality(L[e]) = Cardinality(L[f]) => e = f
    <2>1. SUFFICES ASSUME NEW e \in S, NEW f \in S, Cardinality(L[e]) = Cardinality(L[f]), e # f
                   PROVE  FALSE
      OBVIOUS
    <2>2. f \in L[e] \/ e \in L[f]
      BY <2>1 DEF StrictOrder
    <2>. QED
      BY <1>1, <2>1, <2>2, RankOrder
  <1>3. IsFiniteSet(0 .. n - 1) /\ Cardinality(0 .. n - 1) = n
    BY <1>1, FS_Interval
  <1>4. r \in Injection(S, 0 .. n - 1)
    <2>1. r \in [S -> 0 .. n - 1]
      BY <1>1
    <2>2. \A e, f \in S : r[e] = r[f] => e = f
      BY <1>2
    <2>. HIDE DEF r, n
    <2>. QED
      BY <2>1, <2>2 DEF Injection, IsInjective
  <1>5. r \in Surjection(S, 0 .. n - 1)
    BY <1>3, <1>4, FS_Injection
  <1>. QED
    BY <1>2, <1>5 DEF Surjection

\* The sorted list of a set.
IsListOf(s, S, L) ==
    /\ s \in Seq(S) /\ Len(s) = Cardinality(S) /\ Len(s) \in Nat
    /\ ToSet(s) = S
    /\ \A i \in 1 .. Len(s) : s[i] \in S /\ Cardinality(L[s[i]]) = i - 1
    /\ \A i, j \in 1 .. Len(s) : i < j <=> s[i] \in L[s[j]]
    /\ \A i, j \in 1 .. Len(s) : i # j => s[i] # s[j]

LEMMA SortedList ==
  ASSUME NEW S, IsFiniteSet(S), NEW L, StrictOrder(S, L),
         NEW s \in [1 .. Cardinality(S) -> S],
         \A i \in 1 .. Cardinality(S) : Cardinality(L[s[i]]) = i - 1
  PROVE  IsListOf(s, S, L)
  <1>. DEFINE n == Cardinality(S)
  <1>1. n \in Nat
    BY FS_CardinalityType
  <1>2. \A i \in 1 .. n : s[i] \in S /\ Cardinality(L[s[i]]) = i - 1
    OBVIOUS
  <1>3. s \in Seq(S) /\ Len(s) = n /\ DOMAIN s = 1 .. n
    BY <1>1, <1>2
  <1>4. \A e \in S : \E i \in 1 .. n : s[i] = e
    <2>1. SUFFICES ASSUME NEW e \in S PROVE \E i \in 1 .. n : s[i] = e
      OBVIOUS
    <2>2. Cardinality(L[e]) \in Nat /\ Cardinality(L[e]) < n
      BY RankOrder
    <2>. DEFINE i == Cardinality(L[e]) + 1
    <2>3. i \in 1 .. n /\ i - 1 = Cardinality(L[e])
      BY <1>1, <2>2
    <2>. HIDE DEF i
    <2>4. s[i] = e
      BY <1>2, <2>3, RankTaken
    <2>. QED
      BY <2>3, <2>4
  <1>5. ToSet(s) = S
    BY <1>2, <1>3, <1>4 DEF ToSet
  <1>6. ASSUME NEW i \in 1 .. n, NEW j \in 1 .. n
        PROVE  /\ i < j <=> s[i] \in L[s[j]]
               /\ i # j => s[i] # s[j]
    <2>1. s[i] \in L[s[j]] <=> Cardinality(L[s[i]]) < Cardinality(L[s[j]])
      BY <1>2, RankOrder
    <2>. QED
      BY <1>1, <1>2, <2>1
  <1>. QED
    BY <1>1, <1>2, <1>3, <1>5, <1>6 DEF IsListOf

(***************************************************************************)
(* Ranked lists.                                                           *)
(***************************************************************************)
EntryRecord == [coord : Coord, score : Int]

\* Records that can be ranked.
Scored(T) == \A e \in T : e.coord \in Coord /\ e.score \in Int

\* A list that is ranked, of one record for a coordinate.
IsRanked(s, T) ==
    /\ s \in Seq(T)
    /\ \A i, j \in 1 .. Len(s) : i < j <=> Before(s[i], s[j])
    /\ \A i, j \in 1 .. Len(s) : i # j => s[i].coord # s[j].coord

OneEach(S) == \A e, f \in S : e.coord = f.coord => e = f

LEMMA BeforeOrder ==
  ASSUME NEW T, Scored(T), NEW S \in SUBSET T, OneEach(S)
  PROVE  StrictOrder(S, [e \in S |-> {f \in S : Before(f, e)}])
  <1>. DEFINE L == [e \in S |-> {f \in S : Before(f, e)}]
  <1>1. \A e \in S : e.coord \in Nat /\ e.score \in Int
    BY SelectionAssumption DEF Scored
  <1>2. \A e \in S : e \notin L[e]
    BY <1>1 DEF Before
  <1>3. \A e, f \in S : e # f => e \in L[f] \/ f \in L[e]
    BY <1>1 DEF Before, OneEach
  <1>4. \A e, f, g \in S : Before(f, e) /\ Before(g, f) => Before(g, e)
    BY <1>1 DEF Before
  <1>5. \A e, f \in S : f \in L[e] => L[f] \subseteq L[e]
    BY <1>4
  <1>. QED
    BY <1>2, <1>3, <1>5 DEF StrictOrder

LEMMA RankedList ==
  ASSUME NEW T, Scored(T), NEW S \in SUBSET T, IsFiniteSet(S), OneEach(S)
  PROVE  /\ IsRanked(Ranked(S), T)
         /\ ToSet(Ranked(S)) = S
         /\ Len(Ranked(S)) = Cardinality(S) /\ Cardinality(S) \in Nat
         /\ \A i \in 1 .. Len(Ranked(S)) :
               Ranked(S)[i] \in S /\ Cardinality({f \in S : Before(f, Ranked(S)[i])}) = i - 1
         /\ \A e, f \in S : Cardinality({g \in S : Before(g, e)}) = Cardinality({g \in S : Before(g, f)}) => e = f
  <1>. DEFINE L == [e \in S |-> {f \in S : Before(f, e)}]
              s == Ranked(S)
  <1>1. StrictOrder(S, L)
    BY BeforeOrder
  <1>3. \A e \in S : L[e] = {f \in S : Before(f, e)}
    OBVIOUS
  <1>2. /\ s \in [1 .. Cardinality(S) -> S]
        /\ \A i \in 1 .. Cardinality(S) : Cardinality(L[s[i]]) = i - 1
    <2>. DEFINE Nth(i) == CHOOSE e \in S : Cardinality({f \in S : Before(f, e)}) = i - 1
    <2>1. ASSUME NEW i \in 1 .. Cardinality(S)
          PROVE  Nth(i) \in S /\ Cardinality(L[Nth(i)]) = i - 1
      <3>1. Cardinality(S) \in Nat
        BY FS_CardinalityType
      <3>2. i - 1 \in 0 .. Cardinality(S) - 1
        BY <3>1
      <3>. HIDE DEF L
      <3>3. \E e \in S : Cardinality(L[e]) = i - 1
        BY <1>1, <3>2, RankTaken
      <3>4. \E e \in S : Cardinality({f \in S : Before(f, e)}) = i - 1
        BY <1>3, <3>3
      <3>5. Nth(i) \in S /\ Cardinality({f \in S : Before(f, Nth(i))}) = i - 1
        BY <3>4
      <3>. QED
        BY <1>3, <3>5
    <2>2. s = [i \in 1 .. Cardinality(S) |-> Nth(i)]
      BY DEF Ranked, Sorted
    <2>. HIDE DEF Nth, L, s
    <2>. QED
      BY <2>1, <2>2
  <1>. HIDE DEF L, s
  <1>4. IsListOf(s, S, L)
    BY <1>1, <1>2, SortedList
  <1>5. \A e, f \in S : Cardinality(L[e]) = Cardinality(L[f]) => e = f
    BY <1>1, RankTaken
  <1>6. s \in Seq(T)
    BY <1>4 DEF IsListOf
  <1>7. \A i, j \in 1 .. Len(s) : i < j <=> Before(s[i], s[j])
    BY <1>3, <1>4 DEF IsListOf
  <1>8. \A i, j \in 1 .. Len(s) : i # j => s[i].coord # s[j].coord
    BY <1>4 DEF OneEach, IsListOf
  <1>. QED
    BY <1>3, <1>4, <1>5, <1>6, <1>7, <1>8 DEF IsRanked, IsListOf, s

LEMMA EntriesScored == Scored(EntryRecord)
  BY DEF Scored, EntryRecord

\* What is in a ranked list.
LEMMA ListFacts ==
  ASSUME NEW T, Scored(T), NEW s, IsRanked(s, T)
  PROVE  /\ Len(s) \in Nat
         /\ ToSet(s) = {s[i] : i \in 1 .. Len(s)} /\ ToSet(s) \subseteq T
         /\ CoordsOf(s) = {e.coord : e \in ToSet(s)} /\ CoordsOf(s) \subseteq Coord
         /\ OneEach(ToSet(s))
         /\ IsFiniteSet(ToSet(s)) /\ Cardinality(ToSet(s)) = Len(s)
         /\ IsFiniteSet(CoordsOf(s)) /\ Cardinality(CoordsOf(s)) = Len(s)
  <1>1. s \in Seq(T) /\ Len(s) \in Nat /\ DOMAIN s = 1 .. Len(s) /\ \A i \in 1 .. Len(s) : s[i] \in T
    BY DEF IsRanked
  <1>2. ToSet(s) = {s[i] : i \in 1 .. Len(s)}
    BY <1>1 DEF ToSet
  <1>3. CoordsOf(s) = {e.coord : e \in ToSet(s)}
    BY <1>2 DEF CoordsOf
  <1>4. OneEach(ToSet(s))
    BY <1>2 DEF OneEach, IsRanked
  <1>5. /\ \A i, j \in 1 .. Len(s) : s[i] = s[j] => i = j
        /\ \A i, j \in 1 .. Len(s) : s[i].coord = s[j].coord => i = j
    BY DEF IsRanked
  <1>6. IsFiniteSet(1 .. Len(s)) /\ Cardinality(1 .. Len(s)) = Len(s)
    <2>1. 1 \in Int /\ Len(s) \in Int /\ (1 > Len(s) => Len(s) = 0) /\ Len(s) - 1 + 1 = Len(s)
      BY <1>1
    <2>. QED
      BY <2>1, FS_Interval
  <1>7. s \in Bijection(1 .. Len(s), ToSet(s))
    <2>1. s \in [1 .. Len(s) -> ToSet(s)]
      BY <1>1, <1>2
    <2>. QED
      BY <1>2, <1>5, <2>1 DEF Bijection, Injection, IsInjective, Surjection
  <1>8. IsFiniteSet(ToSet(s)) /\ Cardinality(ToSet(s)) = Len(s)
    BY <1>6, <1>7, FS_Bijection DEF ExistsBijection
  <1>. DEFINE c == [i \in 1 .. Len(s) |-> s[i].coord]
  <1>9. c \in Bijection(1 .. Len(s), CoordsOf(s))
    <2>1. /\ c \in [1 .. Len(s) -> CoordsOf(s)]
          /\ \A x \in CoordsOf(s) : \E i \in 1 .. Len(s) : c[i] = x
          /\ \A i, j \in 1 .. Len(s) : c[i] = c[j] => i = j
      BY <1>5 DEF CoordsOf
    <2>. HIDE DEF c
    <2>. QED
      BY <2>1 DEF Bijection, Injection, IsInjective, Surjection
  <1>. HIDE DEF c
  <1>10. IsFiniteSet(CoordsOf(s)) /\ Cardinality(CoordsOf(s)) = Len(s)
    BY <1>6, <1>9, FS_Bijection DEF ExistsBijection
  <1>. QED
    BY <1>1, <1>2, <1>3, <1>4, <1>8, <1>10 DEF Scored

LEMMA TakeList ==
  ASSUME NEW T, Scored(T), NEW s, IsRanked(s, T), NEW n \in Nat
  PROVE  /\ IsRanked(Take(s, n), T)
         /\ Len(Take(s, n)) = IF n <= Len(s) THEN n ELSE Len(s)
         /\ ToSet(Take(s, n)) = {s[i] : i \in 1 .. Len(Take(s, n))}
         /\ \A i \in 1 .. Len(Take(s, n)) : i \in 1 .. Len(s) /\ Take(s, n)[i] = s[i]
         /\ ToSet(Take(s, n)) \subseteq ToSet(s)
  <1>. DEFINE k == IF n <= Len(s) THEN n ELSE Len(s)
              t == SubSeq(s, 1, k)
  <1>1. s \in Seq(T) /\ k \in 0 .. Len(s) /\ Len(s) \in Nat
    BY DEF IsRanked
  <1>2. Take(s, n) = t
    BY DEF Take
  <1>. HIDE DEF k
  <1>3. t \in Seq(T) /\ Len(t) = k /\ \A i \in 1 .. k : t[i] = s[i]
    BY <1>1
  <1>4. \A i \in 1 .. k : i \in 1 .. Len(s)
    BY <1>1
  <1>. HIDE DEF t
  <1>5. IsRanked(t, T)
    BY <1>3, <1>4 DEF IsRanked
  <1>6. ToSet(t) = {t[i] : i \in 1 .. Len(t)}
    BY <1>5, ListFacts
  <1>7. ToSet(t) = {s[i] : i \in 1 .. Len(t)}
    BY <1>3, <1>6
  <1>8. ToSet(s) = {s[i] : i \in 1 .. Len(s)}
    BY ListFacts
  <1>. QED
    BY <1>2, <1>3, <1>4, <1>5, <1>7, <1>8 DEF k

\* There is one ranked list of a set.
LEMMA RankedAgain ==
  ASSUME NEW T, Scored(T), NEW s, IsRanked(s, T)
  PROVE  Ranked(ToSet(s)) = s
  <1>. DEFINE S == ToSet(s)
              t == Ranked(S)
  <1>0. Len(s) \in Nat
    BY ListFacts
  <1>1. /\ S \subseteq T /\ IsFiniteSet(S) /\ OneEach(S) /\ Cardinality(S) = Len(s)
        /\ S = {s[i] : i \in 1 .. Len(s)} /\ Len(s) \in Nat
    BY ListFacts
  <1>2. /\ IsRanked(t, T) /\ Len(t) = Len(s)
        /\ \A i \in 1 .. Len(t) : t[i] \in S /\ Cardinality({f \in S : Before(f, t[i])}) = i - 1
        /\ \A e, f \in S : Cardinality({g \in S : Before(g, e)}) = Cardinality({g \in S : Before(g, f)}) => e = f
    BY <1>1, RankedList
  <1>. HIDE DEF t
  <1>3. ASSUME NEW i \in 1 .. Len(s)
        PROVE  Cardinality({f \in S : Before(f, s[i])}) = i - 1
    <2>1. i - 1 \in Nat /\ i - 1 <= Len(s)
      BY <1>0
    <2>3. \A j \in 1 .. Len(s) : Before(s[j], s[i]) <=> j \in 1 .. i - 1
      BY <1>0 DEF IsRanked
    <2>5. \A j \in 1 .. i - 1 : j \in 1 .. Len(s)
      BY <1>0
    <2>. DEFINE P == {f \in S : Before(f, s[i])}
                r == Take(s, i - 1)
    <2>2. /\ IsRanked(r, T) /\ Len(r) = i - 1
          /\ ToSet(r) = {s[j] : j \in 1 .. i - 1}
      BY <2>1, TakeList
    <2>4. P = {s[j] : j \in 1 .. i - 1}
      BY <1>1, <2>3, <2>5
    <2>. QED
      BY <2>2, <2>4, ListFacts
  <1>4. ASSUME NEW i \in 1 .. Len(s)
        PROVE  t[i] = s[i]
    <2>1. s[i] \in S /\ i \in 1 .. Len(t)
      BY <1>1, <1>2
    <2>2. Cardinality({f \in S : Before(f, s[i])}) = i - 1
      BY <1>3
    <2>. HIDE DEF S
    <2>3. t[i] \in S /\ Cardinality({f \in S : Before(f, t[i])}) = i - 1
      BY <1>2, <2>1
    <2>. QED
      BY <1>2, <2>1, <2>2, <2>3
  <1>5. s \in Seq(T) /\ t \in Seq(T)
    BY <1>2 DEF IsRanked
  <1>6. s = [i \in 1 .. Len(s) |-> s[i]] /\ t = [i \in 1 .. Len(t) |-> t[i]]
    BY <1>5
  <1>. QED
    BY <1>2, <1>4, <1>6 DEF t

(***************************************************************************)
(* The seats of the boards.                                                *)
(***************************************************************************)
Provided == \E family \in Input : input \in family

\* No coordinate has two seats.
Apart == \A a, b \in Board : a # b => CoordsOf(winners[a]) \cap CoordsOf(winners[b]) = {}

\* What is seated on a board is before what is seated nowhere.
BestSeated == \A b \in Board : \A e \in Free(b) : \A f \in ToSet(winners[b]) : Before(f, e)

\* A board has no free seat, or no entry to fill it with.
Settled(b) == Free(b) # {} => Len(winners[b]) = Capacity

Fair == Apart /\ BestSeated /\ \A b \in Board : Settled(b)

PoolsOK ==
    /\ Provided
    /\ offered \in 0 .. Len(input.rows)
    /\ made \in [Board -> 0 .. offered]
    /\ \A b \in Board : IsRanked(pool[b], EntryRecord) /\ (made[b] = 0 => pool[b] = <<>>)
    /\ \A a, b \in Boards : a # b /\ Priority[a] = Priority[b] => made[a] # made[b]

SeatsOK ==
    /\ winners = [b \in Board |-> winners[b]]
    /\ left \subseteq Boards /\ changed \in BOOLEAN
    /\ \A b \in Board : /\ IsRanked(winners[b], EntryRecord)
                        /\ ToSet(winners[b]) \subseteq ToSet(pool[b])
                        /\ Len(winners[b]) <= Capacity

\* One round may release seats and fill them; the next finds nothing to do.
StagesOK ==
    /\ stage = "consider" => rounds = 0 /\ \A b \in Board : winners[b] = <<>>
    /\ stage = "assign" =>
          \/ rounds = 0 /\ \A b \in Board : winners[b] = Take(pool[b], Capacity)
          \/ rounds = 1 /\ Fair
    /\ stage = "refill" =>
          \/ rounds = 1 /\ Apart /\ BestSeated /\ \A b \in Board \ left : Settled(b)
          \/ rounds = 2 /\ Fair /\ ~changed
    /\ stage \in {"trim", "export"} => rounds \in {1, 2} /\ Fair

SeatInv == PoolsOK /\ SeatsOK /\ StagesOK

LEMMA InputFacts ==
  ASSUME Provided
  PROVE  /\ input.rows \in Seq(RowRecord) /\ Len(input.rows) \in Nat
         /\ input.budget \in Nat /\ input.capacity \in Nat
         /\ Capacity \in Nat /\ input.budget <= Capacity
         /\ Capacity * PoolMultiplier \in Nat
         /\ \A k \in 1 .. Len(input.rows) : \A a, b \in Board :
               a # b /\ Priority[a] = Priority[b] =>
                   NoScore \in {input.rows[k].score[a], input.rows[k].score[b]}
  <1>1. /\ input.rows \in Seq(RowRecord)
        /\ input.budget \in Nat /\ input.capacity \in Nat
        /\ \A k \in 1 .. Len(input.rows) : \A a, b \in Board :
               a # b /\ Priority[a] = Priority[b] =>
                   NoScore \in {input.rows[k].score[a], input.rows[k].score[b]}
    BY SelectorAssumption DEF Provided
  <1>2. Capacity \in Nat /\ input.budget <= Capacity
    BY <1>1 DEF Capacity
  <1>3. Capacity * PoolMultiplier \in Nat
    BY <1>2, SelectorAssumption
  <1>4. Len(input.rows) \in Nat
    BY <1>1
  <1>. QED
    BY <1>1, <1>2, <1>3, <1>4

LEMMA BoardFinite == IsFiniteSet(Board)
  <1>1. BoardIds \in Seq(Board) /\ Len(BoardIds) \in Nat /\ DOMAIN BoardIds = 1 .. Len(BoardIds)
    BY SelectorAssumption
  <1>2. IsFiniteSet(1 .. Len(BoardIds))
    BY <1>1, FS_Interval
  <1>3. Board = {BoardIds[i] : i \in 1 .. Len(BoardIds)}
    BY <1>1 DEF Board, ToSet
  <1>4. BoardIds \in Surjection(1 .. Len(BoardIds), Board)
    <2>1. BoardIds \in [1 .. Len(BoardIds) -> Board]
      BY <1>1
    <2>. QED
      BY <1>3, <2>1 DEF Surjection
  <1>. QED
    BY <1>2, <1>4, FS_Surjection

LEMMA NoEntries ==
  /\ IsRanked(<<>>, EntryRecord)
  /\ ToSet(<<>>) = {} /\ CoordsOf(<<>>) = {} /\ Len(<<>>) = 0
  BY DEF IsRanked, ToSet, CoordsOf

\* A board considers a row.
LEMMA RowConsidered ==
  ASSUME Provided, NEW b \in Board, IsRanked(pool[b], EntryRecord),
         NEW r \in RowRecord, r.score[b] # NoScore
  PROVE  IsRanked(Considered(b, r), EntryRecord)
  <1>. DEFINE K == {e \in ToSet(pool[b]) : e.coord # r.coord}
              S == K \cup {Entry(r, b)}
  <1>1. Entry(r, b) \in EntryRecord /\ Entry(r, b).coord = r.coord
    BY DEF Entry, RowRecord, EntryRecord
  <1>2. /\ ToSet(pool[b]) \subseteq EntryRecord /\ IsFiniteSet(ToSet(pool[b]))
        /\ OneEach(ToSet(pool[b]))
    BY EntriesScored, ListFacts
  <1>3. IsFiniteSet(K)
    BY <1>2, FS_Subset
  <1>4. IsFiniteSet(S)
    BY <1>3, FS_AddElement
  <1>5. S \in SUBSET EntryRecord /\ OneEach(S)
    BY <1>1, <1>2 DEF OneEach
  <1>. HIDE DEF S
  <1>6. IsRanked(Ranked(S), EntryRecord)
    BY <1>4, <1>5, EntriesScored, RankedList
  <1>7. Capacity * PoolMultiplier \in Nat
    BY InputFacts
  <1>8. IsRanked(Take(Ranked(S), Capacity * PoolMultiplier), EntryRecord)
    BY <1>6, <1>7, EntriesScored, TakeList
  <1>. QED
    BY <1>8 DEF Considered, S

LEMMA ConsiderKeeps ==
  ASSUME SeatInv, Consider
  PROVE  SeatInv'
  <1>. DEFINE r == input.rows[offered + 1]
  <1>1. /\ stage = "consider" /\ stage' = "consider"
        /\ offered < Len(input.rows) /\ offered' = offered + 1
        /\ pool' = [b \in Board |-> IF r.score[b] # NoScore THEN Considered(b, r) ELSE pool[b]]
        /\ made' = [b \in Board |-> IF made[b] = 0 /\ r.score[b] # NoScore
                                    THEN offered + 1 ELSE made[b]]
        /\ UNCHANGED <<input, winners, left, changed, rounds>>
    BY DEF Consider
  <1>2. PoolsOK /\ SeatsOK /\ rounds = 0 /\ \A b \in Board : winners[b] = <<>>
    BY <1>1 DEF SeatInv, StagesOK
  <1>3. /\ Provided /\ offered \in Nat /\ Len(input.rows) \in Nat
        /\ offered + 1 \in 1 .. Len(input.rows) /\ r \in RowRecord
    <2>1. Provided /\ offered \in 0 .. Len(input.rows)
      BY <1>2 DEF PoolsOK
    <2>2. input.rows \in Seq(RowRecord) /\ Len(input.rows) \in Nat
      BY <2>1, InputFacts
    <2>3. offered + 1 \in 1 .. Len(input.rows)
      BY <1>1, <2>1, <2>2
    <2>. QED
      BY <2>1, <2>2, <2>3
  <1>4. \A a, b \in Board : a # b /\ Priority[a] = Priority[b] =>
            NoScore \in {r.score[a], r.score[b]}
    BY <1>3, InputFacts
  <1>. HIDE DEF r
  <1>5. \A b \in Board : IsRanked(pool'[b], EntryRecord)
    <2>1. ASSUME NEW b \in Board, r.score[b] # NoScore
          PROVE  IsRanked(Considered(b, r), EntryRecord)
      BY <1>2, <1>3, <2>1, RowConsidered DEF PoolsOK
    <2>. QED
      BY <1>1, <1>2, <2>1 DEF PoolsOK
  <1>6. \A b \in Board : /\ made[b] \in Nat /\ made[b] <= offered
                         /\ made'[b] = IF made[b] = 0 /\ r.score[b] # NoScore
                                       THEN offered + 1 ELSE made[b]
    BY <1>1, <1>2, <1>3 DEF PoolsOK
  <1>7. made' \in [Board -> 0 .. offered']
    BY <1>1, <1>3, <1>6
  <1>8. \A b \in Board : made'[b] = 0 => pool'[b] = <<>>
    BY <1>1, <1>2, <1>3, <1>6 DEF PoolsOK
  <1>9. \A a, b \in Boards' : a # b /\ Priority[a] = Priority[b] => made'[a] # made'[b]
    BY <1>2, <1>3, <1>4, <1>6 DEF PoolsOK, Boards
  <1>10. PoolsOK'
    <2>1. offered' \in 0 .. Len(input'.rows) /\ Provided'
      BY <1>1, <1>3 DEF Provided
    <2>. QED
      BY <1>5, <1>7, <1>8, <1>9, <2>1 DEF PoolsOK
  <1>11. SeatsOK'
    <2>1. Boards \subseteq Boards'
      BY <1>3, <1>6 DEF Boards
    <2>2. Capacity' \in Nat
      BY <1>1, <1>3, InputFacts DEF Capacity
    <2>3. \A b \in Board : /\ IsRanked(winners'[b], EntryRecord)
                           /\ ToSet(winners'[b]) \subseteq ToSet(pool'[b])
                           /\ Len(winners'[b]) <= Capacity'
      BY <1>1, <1>2, <2>2, NoEntries
    <2>. QED
      BY <1>1, <1>2, <2>1, <2>3 DEF SeatsOK
  <1>12. StagesOK'
    BY <1>1, <1>2 DEF StagesOK
  <1>. QED
    BY <1>10, <1>11, <1>12 DEF SeatInv

LEMMA SeatKeeps ==
  ASSUME SeatInv, Seat
  PROVE  SeatInv'
  <1>1. /\ stage = "consider" /\ stage' = "assign"
        /\ winners' = [b \in Board |-> Take(pool[b], Capacity)]
        /\ UNCHANGED <<input, offered, made, pool, left, changed, rounds>>
    BY DEF Seat
  <1>2. PoolsOK /\ SeatsOK /\ rounds = 0
    BY <1>1 DEF SeatInv, StagesOK
  <1>3. PoolsOK'
    BY <1>1, <1>2 DEF PoolsOK, Provided, Boards
  <1>4. Capacity \in Nat /\ Capacity' = Capacity
    BY <1>1, <1>2, InputFacts DEF PoolsOK, Capacity
  <1>5. ASSUME NEW b \in Board
        PROVE  /\ IsRanked(winners'[b], EntryRecord)
               /\ ToSet(winners'[b]) \subseteq ToSet(pool'[b])
               /\ Len(winners'[b]) <= Capacity'
               /\ winners'[b] = Take(pool[b], Capacity)
    <2>1. IsRanked(pool[b], EntryRecord) /\ Len(pool[b]) \in Nat
      BY <1>2, EntriesScored, ListFacts DEF PoolsOK
    <2>2. winners'[b] = Take(pool[b], Capacity)
      BY <1>1
    <2>. QED
      BY <1>1, <1>4, <2>1, <2>2, EntriesScored, TakeList
  <1>6. SeatsOK'
    BY <1>1, <1>2, <1>5 DEF SeatsOK, Boards
  <1>7. StagesOK'
    BY <1>1, <1>2, <1>4, <1>5 DEF StagesOK
  <1>. QED
    BY <1>3, <1>6, <1>7 DEF SeatInv

\* The entry of a coordinate a board has in its pool.
LEMMA RankIn ==
  ASSUME NEW b \in Board, IsRanked(pool[b], EntryRecord), NEW c \in CoordsOf(pool[b])
  PROVE  /\ RankOf(b, c) \in 1 .. Len(pool[b]) /\ RankOf(b, c) \in Nat
         /\ pool[b][RankOf(b, c)] \in EntryRecord /\ pool[b][RankOf(b, c)].coord = c
  <1>1. \E i \in 1 .. Len(pool[b]) : pool[b][i].coord = c
    BY DEF CoordsOf
  <1>2. RankOf(b, c) \in 1 .. Len(pool[b]) /\ pool[b][RankOf(b, c)].coord = c
    BY <1>1 DEF RankOf
  <1>3. Len(pool[b]) \in Nat /\ pool[b] \in Seq(EntryRecord)
    BY DEF IsRanked
  <1>. QED
    BY <1>2, <1>3

LEMMA HoldersHave ==
  ASSUME PoolsOK, SeatsOK, NEW c, NEW b \in Holders(c)
  PROVE  b \in Boards /\ c \in CoordsOf(pool[b]) /\ c \in Coord
  <1>1. b \in Board /\ c \in CoordsOf(winners[b])
    BY DEF Holders
  <1>2. IsRanked(winners[b], EntryRecord) /\ ToSet(winners[b]) \subseteq ToSet(pool[b])
        /\ IsRanked(pool[b], EntryRecord)
    BY <1>1 DEF SeatsOK, PoolsOK
  <1>3. c \in CoordsOf(pool[b]) /\ c \in Coord
    BY <1>1, <1>2, EntriesScored, ListFacts
  <1>4. pool[b] # <<>>
    BY <1>3, NoEntries
  <1>5. made[b] # 0 /\ made[b] \in 0 .. offered
    BY <1>1, <1>4 DEF PoolsOK
  <1>6. offered \in Nat
    BY InputFacts DEF PoolsOK
  <1>. QED
    BY <1>1, <1>3, <1>5, <1>6 DEF Boards

\* Of the boards that hold a coordinate each two have one with the stronger claim.
LEMMA ClaimOrdered ==
  ASSUME PoolsOK, SeatsOK, NEW c
  PROVE  StrictOrder(Holders(c), [b \in Holders(c) |-> {a \in Holders(c) : Stronger(a, b, c)}])
  <1>. DEFINE H == Holders(c)
              R(b) == RankOf(b, c)
              X(b) == pool[b][RankOf(b, c)].score
              L == [b \in H |-> {a \in H : Stronger(a, b, c)}]
  <1>1. \A b \in H : R(b) \in Nat /\ X(b) \in Int
    <2>1. ASSUME NEW b \in H PROVE R(b) \in Nat /\ X(b) \in Int
      <3>1. b \in Board /\ c \in CoordsOf(pool[b])
        BY HoldersHave DEF Boards
      <3>2. IsRanked(pool[b], EntryRecord)
        BY <3>1 DEF PoolsOK
      <3>3. RankOf(b, c) \in Nat /\ pool[b][RankOf(b, c)] \in EntryRecord
        BY <3>1, <3>2, RankIn
      <3>. QED
        BY <3>3 DEF EntryRecord
    <2>. QED
      BY <2>1
  <1>2. \A b \in H : Priority[b] \in Nat /\ made[b] \in Int
    <2>1. ASSUME NEW b \in H PROVE Priority[b] \in Nat /\ made[b] \in Int
      <3>1. b \in Board
        BY HoldersHave DEF Boards
      <3>. QED
        BY <3>1, SelectorAssumption DEF PoolsOK
    <2>. QED
      BY <2>1
  <1>3. \A a, b \in H : a # b /\ Priority[a] = Priority[b] => made[a] # made[b]
    BY HoldersHave DEF PoolsOK
  <1>4. \A a, b \in H : Stronger(a, b, c) <=>
            \/ R(a) < R(b)
            \/ R(a) = R(b) /\ X(a) > X(b)
            \/ R(a) = R(b) /\ X(a) = X(b) /\ Priority[a] < Priority[b]
            \/ R(a) = R(b) /\ X(a) = X(b) /\ Priority[a] = Priority[b] /\ made[a] < made[b]
    BY DEF Stronger, Earlier
  <1>. HIDE DEF R, X, H
  <1>5. \A a \in H : ~Stronger(a, a, c)
    BY <1>1, <1>2, <1>4
  <1>6. \A a, b \in H : a # b => Stronger(a, b, c) \/ Stronger(b, a, c)
    BY <1>1, <1>2, <1>3, <1>4
  <1>7. \A a, b, d \in H : Stronger(a, b, c) /\ Stronger(b, d, c) => Stronger(a, d, c)
    BY <1>1, <1>2, <1>4
  <1>8. L \in [H -> SUBSET H]
    OBVIOUS
  <1>9. \A e \in H : L[e] = {a \in H : Stronger(a, e, c)}
    OBVIOUS
  <1>. HIDE DEF L
  <1>10. StrictOrder(H, L)
    BY <1>5, <1>6, <1>7, <1>8, <1>9 DEF StrictOrder
  <1>. QED
    BY <1>10 DEF L, H

\* One board keeps the seat, and one only.
LEMMA OneKeeps ==
  ASSUME PoolsOK, SeatsOK, NEW c
  PROVE  /\ Holders(c) # {} => \E a \in Holders(c) : KeepsSeat(a, c)
         /\ \A a, b \in Holders(c) : KeepsSeat(a, c) /\ KeepsSeat(b, c) => a = b
  <1>. DEFINE H == Holders(c)
              L == [b \in H |-> {a \in H : Stronger(a, b, c)}]
  <1>1. StrictOrder(H, L)
    BY ClaimOrdered
  <1>2. IsFiniteSet(H)
    BY BoardFinite, FS_Subset DEF Holders
  <1>3. \A e \in H : L[e] = {a \in H : Stronger(a, e, c)}
    OBVIOUS
  <1>. HIDE DEF L
  <1>4. ASSUME H # {}
        PROVE  \E a \in H : KeepsSeat(a, c)
    <2>1. Cardinality(H) \in Nat /\ Cardinality(H) # 0
      BY <1>2, <1>4, FS_CardinalityType, FS_EmptySet
    <2>2. 0 \in 0 .. Cardinality(H) - 1
      BY <2>1
    <2>3. PICK a \in H : Cardinality(L[a]) = 0
      BY <1>1, <1>2, <2>2, RankTaken
    <2>4. L[a] = {}
      BY <1>1, <1>2, <2>3, RankOrder, FS_EmptySet
    <2>5. \A b \in H \ {a} : a \in L[b]
      BY <1>1, <2>4 DEF StrictOrder
    <2>. QED
      BY <1>3, <2>5 DEF KeepsSeat
  <1>5. ASSUME NEW a \in H, NEW b \in H, KeepsSeat(a, c), KeepsSeat(b, c)
        PROVE  a = b
    <2>1. SUFFICES ASSUME a # b PROVE FALSE
      OBVIOUS
    <2>2. a \in L[b] /\ b \in L[a]
      BY <1>3, <1>5, <2>1 DEF KeepsSeat
    <2>. QED
      BY <1>1, <2>2 DEF StrictOrder
  <1>. QED
    BY <1>4, <1>5

\* What is left of a board's seats.
LEMMA ReleasedList ==
  ASSUME PoolsOK, SeatsOK, Release, NEW b \in Board
  PROVE  /\ IsRanked(winners'[b], EntryRecord)
         /\ ToSet(winners'[b]) = {e \in ToSet(winners[b]) : KeepsSeat(b, e.coord)}
         /\ Len(winners'[b]) <= Len(winners[b])
  <1>. DEFINE W == ToSet(winners[b])
              S == {e \in W : KeepsSeat(b, e.coord)}
  <1>1. winners'[b] = Ranked(S)
    BY DEF Release
  <1>2. /\ W \subseteq EntryRecord /\ IsFiniteSet(W) /\ OneEach(W)
        /\ Cardinality(W) = Len(winners[b])
    BY EntriesScored, ListFacts DEF SeatsOK
  <1>3. S \in SUBSET EntryRecord /\ OneEach(S)
    BY <1>2 DEF OneEach
  <1>4. IsFiniteSet(S) /\ Cardinality(S) <= Cardinality(W)
    BY <1>2, FS_Subset
  <1>. HIDE DEF S, W
  <1>5. /\ IsRanked(Ranked(S), EntryRecord) /\ ToSet(Ranked(S)) = S
        /\ Len(Ranked(S)) = Cardinality(S)
    BY <1>3, <1>4, EntriesScored, RankedList
  <1>6. ToSet(winners'[b]) = {e \in ToSet(winners[b]) : KeepsSeat(b, e.coord)}
    BY <1>1, <1>5 DEF S, W
  <1>. QED
    BY <1>1, <1>2, <1>4, <1>5, <1>6

\* A coordinate that had a seat still has one, and no second one.
LEMMA ReleasedSeats ==
  ASSUME PoolsOK, SeatsOK, Release
  PROVE  Seated' = Seated /\ Apart'
  <1>1. \A b \in Board : /\ CoordsOf(winners[b]) = {e.coord : e \in ToSet(winners[b])}
                         /\ CoordsOf(winners'[b]) = {e.coord : e \in ToSet(winners'[b])}
                         /\ ToSet(winners'[b]) = {e \in ToSet(winners[b]) : KeepsSeat(b, e.coord)}
    BY EntriesScored, ListFacts, ReleasedList DEF SeatsOK
  <1>2. \A b \in Board : CoordsOf(winners'[b]) = {c \in CoordsOf(winners[b]) : KeepsSeat(b, c)}
    BY <1>1
  <1>3. \A c : \A b \in Board : c \in CoordsOf(winners'[b]) <=> b \in Holders(c) /\ KeepsSeat(b, c)
    BY <1>2 DEF Holders
  <1>4. \A c : c \in Seated <=> Holders(c) # {}
    BY DEF Seated, Holders
  <1>5. \A c : c \in Seated' <=> \E b \in Board : c \in CoordsOf(winners'[b])
    BY DEF Seated
  <1>6. \A c : Holders(c) \subseteq Board
    BY DEF Holders
  <1>7. \A c : c \in Seated' <=> c \in Seated
    BY <1>3, <1>4, <1>5, <1>6, OneKeeps
  <1>8. Apart'
    BY <1>3, OneKeeps DEF Apart
  <1>. QED
    BY <1>7, <1>8

LEMMA ReleaseKeeps ==
  ASSUME SeatInv, Release
  PROVE  SeatInv'
  <1>1. /\ stage = "assign" /\ stage' = "refill" /\ rounds' = rounds + 1
        /\ changed' = (winners' # winners) /\ left' = Boards
        /\ winners' = [b \in Board |-> winners'[b]]
        /\ UNCHANGED <<input, offered, made, pool>>
    BY DEF Release
  <1>2. PoolsOK /\ SeatsOK
    BY DEF SeatInv
  <1>3. PoolsOK' /\ Capacity' = Capacity /\ Boards' = Boards /\ Capacity \in Nat
    BY <1>1, <1>2, InputFacts DEF PoolsOK, Provided, Boards, Capacity
  <1>4. \A b \in Board : /\ IsRanked(winners'[b], EntryRecord)
                         /\ ToSet(winners'[b]) \subseteq ToSet(winners[b])
                         /\ ToSet(winners'[b]) = {e \in ToSet(winners[b]) : KeepsSeat(b, e.coord)}
                         /\ Len(winners'[b]) <= Len(winners[b])
    BY <1>2, ReleasedList
  <1>5. \A b \in Board : Len(winners'[b]) \in Nat /\ Len(winners[b]) \in Nat
    BY <1>2, <1>4, EntriesScored, ListFacts DEF SeatsOK
  <1>6. SeatsOK'
    <2>1. ASSUME NEW b \in Board
          PROVE  ToSet(winners'[b]) \subseteq ToSet(pool'[b]) /\ Len(winners'[b]) <= Capacity'
      <3>1. Len(winners'[b]) <= Len(winners[b]) /\ Len(winners[b]) <= Capacity
        BY <1>2, <1>4 DEF SeatsOK
      <3>. QED
        BY <1>1, <1>2, <1>3, <1>4, <1>5, <3>1 DEF SeatsOK
    <2>2. changed' \in BOOLEAN
      BY <1>1
    <2>. QED
      BY <1>1, <1>3, <1>4, <2>1, <2>2 DEF SeatsOK
  <1>7. Seated' = Seated /\ Apart'
    BY <1>2, ReleasedSeats
  <1>8. \A b \in Board : Free(b)' = Free(b)
    BY <1>1, <1>7 DEF Free
  <1>9. CASE rounds = 0 /\ \A b \in Board : winners[b] = Take(pool[b], Capacity)
    <2>1. ASSUME NEW b \in Board, NEW e \in Free(b), NEW f \in ToSet(winners[b])
          PROVE  Before(f, e)
      <3>. DEFINE p == pool[b]
                  w == winners[b]
      <3>1. /\ IsRanked(p, EntryRecord) /\ w = Take(p, Capacity)
            /\ e \in ToSet(p) /\ e.coord \notin Seated
        BY <1>2, <1>9, <2>1 DEF PoolsOK, Free
      <3>2. ToSet(p) = {p[i] : i \in 1 .. Len(p)} /\ Len(p) \in Nat
        BY <3>1, EntriesScored, ListFacts
      <3>3. /\ Len(w) = IF Capacity <= Len(p) THEN Capacity ELSE Len(p)
            /\ ToSet(w) = {p[i] : i \in 1 .. Len(w)}
            /\ \A i \in 1 .. Len(w) : i \in 1 .. Len(p)
        BY <1>3, <3>1, EntriesScored, TakeList
      <3>4. e \notin ToSet(w)
        <4>1. CoordsOf(w) = {x.coord : x \in ToSet(w)}
          BY <1>2, EntriesScored, ListFacts DEF SeatsOK
        <4>. QED
          BY <3>1, <4>1 DEF Seated
      <3>. HIDE DEF p, w
      <3>5. PICK j \in 1 .. Len(p) : e = p[j]
        BY <3>1, <3>2
      <3>6. PICK i \in 1 .. Len(w) : f = p[i]
        BY <2>1, <3>3 DEF w
      <3>7. j \notin 1 .. Len(w)
        BY <3>3, <3>4, <3>5
      <3>8. Len(w) \in Nat /\ i \in 1 .. Len(p)
        BY <1>3, <3>2, <3>3, <3>6
      <3>9. i < j
        BY <3>2, <3>6, <3>7, <3>8
      <3>. QED
        BY <3>1, <3>5, <3>6, <3>8, <3>9 DEF IsRanked
    <2>2. BestSeated'
      <3>1. \A b \in Board : \A e \in Free(b)' : \A f \in ToSet(winners'[b]) : Before(f, e)
        BY <1>4, <1>8, <2>1
      <3>. QED
        BY <3>1 DEF BestSeated
    <2>3. \A b \in Board \ left' : Settled(b)'
      <3>1. ASSUME NEW b \in Board \ left'
            PROVE  Settled(b)'
        <4>1. made[b] = 0
          <5>1. made[b] \in 0 .. offered /\ offered \in Nat
            BY <1>2, InputFacts DEF PoolsOK
          <5>. QED
            BY <1>1, <5>1 DEF Boards
        <4>2. pool[b] = <<>>
          BY <1>2, <4>1 DEF PoolsOK
        <4>3. Free(b)' = {}
          BY <1>8, <4>2, NoEntries DEF Free
        <4>. QED
          BY <4>3 DEF Settled
      <3>. QED
        BY <3>1
    <2>4. rounds' = 1
      BY <1>1, <1>9
    <2>5. StagesOK'
      BY <1>1, <1>7, <2>2, <2>3, <2>4 DEF StagesOK
    <2>. QED
      BY <1>3, <1>6, <2>5 DEF SeatInv
  <1>10. CASE rounds = 1 /\ Fair
    <2>1. ASSUME NEW b \in Board PROVE winners'[b] = winners[b]
      <3>1. IsRanked(winners[b], EntryRecord)
        BY <1>2 DEF SeatsOK
      <3>2. CoordsOf(winners[b]) = {e.coord : e \in ToSet(winners[b])}
        BY <3>1, EntriesScored, ListFacts
      <3>3. \A e \in ToSet(winners[b]) : KeepsSeat(b, e.coord)
        BY <1>10, <3>2 DEF Fair, Apart, KeepsSeat, Holders
      <3>4. ToSet(winners'[b]) = ToSet(winners[b])
        BY <1>4, <3>3
      <3>5. /\ Ranked(ToSet(winners[b])) = winners[b]
            /\ Ranked(ToSet(winners'[b])) = winners'[b]
        BY <1>4, <3>1, EntriesScored, RankedAgain
      <3>. QED
        BY <3>4, <3>5
    <2>2. winners' = winners
      <3>1. winners' = [b \in Board |-> Ranked({e \in ToSet(winners[b]) : KeepsSeat(b, e.coord)})]
        BY DEF Release
      <3>2. winners' = [b \in Board |-> winners'[b]]
        BY <3>1
      <3>3. winners = [b \in Board |-> winners[b]]
        BY <1>2 DEF SeatsOK
      <3>. QED
        BY <2>1, <3>2, <3>3
    <2>3. changed' = FALSE
      BY <1>1, <2>2
    <2>4. Fair'
      BY <1>1, <1>3, <1>8, <1>10, <2>2 DEF Fair, Apart, BestSeated, Settled
    <2>5. rounds' = 2
      BY <1>1, <1>10
    <2>6. StagesOK'
      BY <1>1, <2>3, <2>4, <2>5 DEF StagesOK
    <2>. QED
      BY <1>3, <1>6, <2>6 DEF SeatInv
  <1>. QED
    BY <1>1, <1>9, <1>10 DEF SeatInv, StagesOK

LEMMA BackfillKeeps ==
  ASSUME SeatInv, Backfill
  PROVE  SeatInv'
  <1>1. PICK b \in left :
            /\ First(b) /\ Len(winners[b]) < Capacity
            /\ \E e \in Free(b) :
                  /\ \A f \in Free(b) \ {e} : Before(e, f)
                  /\ winners' = [winners EXCEPT ![b] = Ranked(ToSet(@) \cup {e})]
    BY DEF Backfill
  <1>2. PICK e \in Free(b) :
            /\ \A f \in Free(b) \ {e} : Before(e, f)
            /\ winners' = [winners EXCEPT ![b] = Ranked(ToSet(@) \cup {e})]
    BY <1>1
  <1>3. /\ stage = "refill" /\ stage' = "refill" /\ changed' = TRUE
        /\ UNCHANGED <<input, offered, made, pool, left, rounds>>
    BY DEF Backfill
  <1>4. PoolsOK /\ SeatsOK
    BY DEF SeatInv
  <1>5. b \in Board
    BY <1>1, <1>4 DEF SeatsOK, Boards
  <1>6. PoolsOK' /\ Capacity' = Capacity /\ Boards' = Boards /\ Capacity \in Nat
    BY <1>3, <1>4, InputFacts DEF PoolsOK, Provided, Boards, Capacity
  <1>. DEFINE W == ToSet(winners[b])
              S == W \cup {e}
  <1>7. /\ e \in ToSet(pool[b]) /\ e \in EntryRecord /\ e.coord \notin Seated
    BY <1>4, <1>5, EntriesScored, ListFacts DEF Free, PoolsOK
  <1>8. /\ W \subseteq EntryRecord /\ IsFiniteSet(W) /\ OneEach(W)
        /\ Cardinality(W) = Len(winners[b]) /\ Len(winners[b]) \in Nat
        /\ CoordsOf(winners[b]) = {x.coord : x \in W}
    BY <1>4, <1>5, EntriesScored, ListFacts DEF SeatsOK
  <1>9. \A x \in W : x.coord # e.coord
    BY <1>5, <1>7, <1>8 DEF Seated
  <1>10. S \in SUBSET EntryRecord /\ OneEach(S) /\ e \notin W
    BY <1>7, <1>8, <1>9 DEF OneEach
  <1>11. IsFiniteSet(S) /\ Cardinality(S) = Len(winners[b]) + 1
    BY <1>8, <1>10, FS_AddElement
  <1>12. winners'[b] = Ranked(S) /\ \A a \in Board \ {b} : winners'[a] = winners[a]
    BY <1>2, <1>4, <1>5 DEF SeatsOK
  <1>13. winners' = [a \in Board |-> winners'[a]]
    <2>. DEFINE r == Ranked(S)
    <2>1. winners' = [winners EXCEPT ![b] = r] /\ winners = [a \in Board |-> winners[a]]
      BY <1>2, <1>4 DEF SeatsOK
    <2>. HIDE DEF r
    <2>. QED
      BY <2>1
  <1>. HIDE DEF S, W
  <1>14. /\ IsRanked(winners'[b], EntryRecord) /\ ToSet(winners'[b]) = W \cup {e}
         /\ Len(winners'[b]) = Len(winners[b]) + 1
    <2>1. /\ IsRanked(Ranked(S), EntryRecord) /\ ToSet(Ranked(S)) = S
          /\ Len(Ranked(S)) = Cardinality(S)
      BY <1>10, <1>11, EntriesScored, RankedList
    <2>2. S = W \cup {e}
      BY DEF S
    <2>. QED
      BY <1>11, <1>12, <2>1, <2>2
  <1>15. CoordsOf(winners'[b]) = CoordsOf(winners[b]) \cup {e.coord}
    <2>1. CoordsOf(winners'[b]) = {x.coord : x \in W \cup {e}}
      BY <1>14, EntriesScored, ListFacts
    <2>. QED
      BY <1>8, <2>1
  <1>16. Seated' = Seated \cup {e.coord}
    BY <1>5, <1>12, <1>15 DEF Seated
  <1>17. \A a \in Board : Free(a)' \subseteq Free(a)
    BY <1>3, <1>16 DEF Free
  <1>18. SeatsOK'
    <2>1. ASSUME NEW a \in Board
          PROVE  /\ IsRanked(winners'[a], EntryRecord)
                 /\ ToSet(winners'[a]) \subseteq ToSet(pool'[a])
                 /\ Len(winners'[a]) <= Capacity'
      <3>1. CASE a = b
        <4>1. ToSet(winners'[b]) \subseteq ToSet(pool[b])
          BY <1>4, <1>5, <1>7, <1>14 DEF SeatsOK, W
        <4>2. Len(winners[b]) + 1 <= Capacity
          BY <1>1, <1>6, <1>8
        <4>3. pool'[b] = pool[b] /\ Capacity' = Capacity
          BY <1>3, <1>6
        <4>. QED
          BY <1>14, <3>1, <4>1, <4>2, <4>3
      <3>2. CASE a # b
        BY <1>3, <1>4, <1>6, <1>12, <3>2 DEF SeatsOK
      <3>. QED
        BY <3>1, <3>2
    <2>. QED
      BY <1>3, <1>4, <1>6, <1>13, <2>1 DEF SeatsOK
  <1>19. CASE rounds = 1 /\ Apart /\ BestSeated /\ \A a \in Board \ left : Settled(a)
    <2>1. Apart'
      <3>1. \A a \in Board : e.coord \notin CoordsOf(winners[a])
        BY <1>7 DEF Seated
      <3>. QED
        BY <1>5, <1>12, <1>15, <1>19, <3>1 DEF Apart
    <2>2. ASSUME NEW a \in Board, NEW x \in Free(a)', NEW f \in ToSet(winners'[a])
          PROVE  Before(f, x)
      <3>1. x \in Free(a)
        BY <1>17, <2>2
      <3>2. CASE f \in ToSet(winners[a])
        BY <1>19, <2>2, <3>1, <3>2 DEF BestSeated
      <3>3. CASE f \notin ToSet(winners[a])
        <4>1. a = b /\ f = e
          BY <1>12, <1>14, <2>2, <3>3 DEF W
        <4>2. x # e
          BY <1>16, <2>2 DEF Free
        <4>. QED
          BY <1>2, <3>1, <4>1, <4>2
      <3>. QED
        BY <3>2, <3>3
    <2>3. BestSeated'
      BY <2>2 DEF BestSeated
    <2>4. \A a \in Board \ left' : Settled(a)'
      BY <1>1, <1>3, <1>6, <1>12, <1>17, <1>19 DEF Settled
    <2>5. StagesOK'
      BY <1>3, <1>19, <2>1, <2>3, <2>4 DEF StagesOK
    <2>. QED
      BY <1>6, <1>18, <2>5 DEF SeatInv
  <1>20. CASE rounds = 2 /\ Fair /\ ~changed
    <2>1. Len(winners[b]) = Capacity
      BY <1>2, <1>5, <1>20 DEF Fair, Settled
    <2>. QED
      BY <1>1, <1>6, <2>1
  <1>. QED
    BY <1>3, <1>19, <1>20 DEF SeatInv, StagesOK

LEMMA EndTurnKeeps ==
  ASSUME SeatInv, EndTurn
  PROVE  SeatInv'
  <1>1. PICK b \in left :
            /\ Len(winners[b]) >= Capacity \/ Free(b) = {}
            /\ left' = left \ {b}
    BY DEF EndTurn
  <1>2. /\ stage = "refill" /\ stage' = "refill"
        /\ UNCHANGED <<input, offered, made, pool, winners, changed, rounds>>
    BY DEF EndTurn
  <1>3. PoolsOK /\ SeatsOK
    BY DEF SeatInv
  <1>4. PoolsOK' /\ Capacity' = Capacity /\ Boards' = Boards /\ Capacity \in Nat
    BY <1>2, <1>3, InputFacts DEF PoolsOK, Provided, Boards, Capacity
  <1>5. SeatsOK'
    BY <1>1, <1>2, <1>3, <1>4 DEF SeatsOK
  <1>6. /\ Apart' <=> Apart
        /\ BestSeated' <=> BestSeated
        /\ \A a \in Board : Settled(a)' <=> Settled(a)
    BY <1>2, <1>4 DEF Apart, BestSeated, Settled, Free, Seated
  <1>7. Settled(b)
    <2>1. b \in Board
      BY <1>1, <1>3 DEF SeatsOK, Boards
    <2>2. Len(winners[b]) <= Capacity /\ Len(winners[b]) \in Nat
      BY <1>3, <2>1, EntriesScored, ListFacts DEF SeatsOK
    <2>. QED
      BY <1>1, <1>4, <2>2 DEF Settled
  <1>8. StagesOK'
    BY <1>1, <1>2, <1>6, <1>7 DEF SeatInv, StagesOK, Fair
  <1>. QED
    BY <1>4, <1>5, <1>8 DEF SeatInv

LEMMA EndRoundKeeps ==
  ASSUME SeatInv, EndRound
  PROVE  SeatInv'
  <1>1. /\ stage = "refill" /\ left = {}
        /\ stage' = IF changed THEN "assign" ELSE "trim"
        /\ UNCHANGED <<input, offered, made, pool, winners, left, changed, rounds>>
    BY DEF EndRound
  <1>2. PoolsOK' /\ SeatsOK' /\ Capacity' = Capacity
    BY <1>1 DEF SeatInv, PoolsOK, SeatsOK, Provided, Boards, Capacity
  <1>3. Fair /\ rounds \in {1, 2} /\ (changed => rounds = 1)
    BY <1>1 DEF SeatInv, StagesOK, Fair
  <1>4. Fair'
    BY <1>1, <1>2, <1>3 DEF Fair, Apart, BestSeated, Settled, Free, Seated
  <1>5. StagesOK'
    BY <1>1, <1>3, <1>4 DEF StagesOK
  <1>. QED
    BY <1>2, <1>5 DEF SeatInv

\* What leaves the boards alone, and does not begin the assignment again.
LEMMA SeatsWait ==
  ASSUME SeatInv, UNCHANGED <<input, offered, made, pool, winners, left, changed, rounds>>,
         \/ stage' = stage
         \/ stage' = "export" /\ stage = "trim"
         \/ stage' \notin {"consider", "assign", "refill", "trim", "export"}
  PROVE  SeatInv'
  <1>1. PoolsOK' /\ SeatsOK' /\ Capacity' = Capacity
    BY DEF SeatInv, PoolsOK, SeatsOK, Provided, Boards, Capacity
  <1>2. Fair' <=> Fair
    BY <1>1 DEF Fair, Apart, BestSeated, Settled, Free, Seated
  <1>3. /\ Apart' <=> Apart
        /\ BestSeated' <=> BestSeated
        /\ \A a \in Board : Settled(a)' <=> Settled(a)
    BY <1>1 DEF Apart, BestSeated, Settled, Free, Seated
  <1>4. StagesOK'
    BY <1>1, <1>2, <1>3 DEF SeatInv, StagesOK
  <1>. QED
    BY <1>1, <1>4 DEF SeatInv

LEMMA SeatsStart == Init => SeatInv
  <1>. SUFFICES ASSUME Init PROVE SeatInv
    OBVIOUS
  <1>1. /\ Provided /\ stage = "consider" /\ rounds = 0 /\ left = {} /\ changed = FALSE
        /\ offered = 0 /\ made = [b \in Board |-> 0]
        /\ pool = [b \in Board |-> <<>>] /\ winners = [b \in Board |-> <<>>]
    BY DEF Init, SelectorInit, Provided
  <1>2. Len(input.rows) \in Nat /\ Capacity \in Nat
    BY <1>1, InputFacts
  <1>3. PoolsOK
    BY <1>1, <1>2, NoEntries DEF PoolsOK, Boards
  <1>4. SeatsOK
    <2>1. \A b \in Board : winners[b] = <<>>
      BY <1>1
    <2>2. winners = [b \in Board |-> winners[b]]
      BY <1>1, <2>1
    <2>3. \A b \in Board : ToSet(winners[b]) = {} /\ Len(winners[b]) = 0
      BY <2>1, NoEntries
    <2>4. ASSUME NEW b \in Board
          PROVE  /\ IsRanked(winners[b], EntryRecord)
                 /\ ToSet(winners[b]) \subseteq ToSet(pool[b])
                 /\ Len(winners[b]) <= Capacity
      BY <1>2, <2>1, <2>3, NoEntries
    <2>5. left \subseteq Boards /\ changed \in BOOLEAN
      BY <1>1
    <2>. QED
      BY <2>2, <2>4, <2>5 DEF SeatsOK
  <1>. QED
    BY <1>1, <1>3, <1>4 DEF SeatInv, StagesOK

LEMMA SeatsStep == SeatInv /\ [Next]_vars => SeatInv'
  <1>. SUFFICES ASSUME SeatInv, [Next]_vars PROVE SeatInv'
    OBVIOUS
  <1>1. CASE Selecting(Consider) \/ Selecting(Seat) \/ Selecting(Release) \/ Selecting(Backfill)
             \/ Selecting(EndTurn) \/ Selecting(EndRound)
    BY <1>1, ConsiderKeeps, SeatKeeps, ReleaseKeeps, BackfillKeeps, EndTurnKeeps, EndRoundKeeps
       DEF Selecting
  <1>2. CASE Selecting(Trim)
    BY <1>2, SeatsWait DEF Selecting, Trim
  <1>3. CASE Claiming(Export)
    BY <1>3, SeatsWait DEF Claiming, Export, selectorVars
  <1>4. CASE Reserving(Ingest) \/ Reserving(EndStream)
    BY <1>4, SeatsWait DEF Reserving, Ingest, EndStream, Refuse, selectorVars
  <1>5. CASE \/ Claiming(Allocate) \/ Claiming(AllotSlot) \/ Claiming(NextPass) \/ Claiming(EndPlan)
             \/ Claiming(ClaimMode) \/ Claiming(EndCorridors)
             \/ Claiming(NextBoard) \/ Claiming(PassOver) \/ Claiming(Collide)
             \/ Claiming(Claim) \/ Claiming(Validate)
    BY <1>5, SeatsWait DEF Claiming, Allocate, AllotSlot, NextSlot, NextPass, EndPlan, ClaimMode, EndCorridors, NextBoard, PassOver, Collide,
         Claim, Validate, selectorVars
  <1>6. CASE UNCHANGED vars
    BY <1>6, SeatsWait DEF vars, selectorVars
  <1>. QED
    BY <1>1, <1>2, <1>3, <1>4, <1>5, <1>6 DEF Next, Terminated

(***************************************************************************)
(* However rows score, the assignment of _assign_rank_aware_board_winners  *)
(* ends in its second round at the latest, and gives every coordinate one  *)
(* seat at most and no board less, or worse, than its pool has free.       *)
(***************************************************************************)
THEOREM SeatsFair == Spec => []SeatsAreFair
  <1>1. SeatInv => SeatsAreFair
    <2>. SUFFICES ASSUME SeatInv, stage \in {"trim", "export"}
                  PROVE  /\ rounds <= 2
                         /\ \A a, b \in Board : a # b => CoordsOf(winners[a]) \cap CoordsOf(winners[b]) = {}
                         /\ \A b \in Board : Cardinality(CoordsOf(winners[b])) = Len(winners[b])
                         /\ \A b \in Board : \A e \in ToSet(pool[b]) : e.coord \notin Seated =>
                               /\ Len(winners[b]) = Capacity
                               /\ \A f \in ToSet(winners[b]) : Before(f, e)
      BY DEF SeatsAreFair
    <2>1. Fair /\ rounds <= 2
      BY DEF SeatInv, StagesOK
    <2>2. \A b \in Board : Cardinality(CoordsOf(winners[b])) = Len(winners[b])
      BY EntriesScored, ListFacts DEF SeatInv, SeatsOK
    <2>. QED
      BY <2>1, <2>2 DEF Fair, Apart, BestSeated, Settled, Free
  <1>. QED
    BY <1>1, SeatsStart, SeatsStep, PTL DEF Spec

-----------------------------------------------------------------------------
(***************************************************************************)
(* Numbers, slots and lists that are cut, for the claims.                  *)
(***************************************************************************)
LEMMA PartOfWhole ==
  ASSUME NEW b \in Nat, NEW n \in Nat, NEW d \in Nat \ {0}, n <= d
  PROVE  (b * n) \div d \in Nat /\ (b * n) \div d <= b
  <1>. DEFINE q == (b * n) \div d
  <1>1. b * n \in Nat /\ b * d \in Nat /\ b * n <= b * d
    BY SMT
  <1>2. q \in Int /\ q >= 0 /\ q * d <= b * n
    BY <1>1, SMT
  <1>3. q * d <= b * d
    BY <1>1, <1>2, SMT
  <1>. HIDE DEF q
  <1>4. q <= b
    BY <1>2, <1>3, SMT
  <1>. QED
    BY <1>2, <1>4 DEF q

LEMMA AllowanceFits ==
  ASSUME NEW n \in Nat
  PROVE  /\ WidthAllowance(n) \in Nat /\ WidthAllowance(n) > 0
         /\ n > 0 => WidthAllowance(n) <= n
  <1>1. n \div 3 \in Nat /\ n \div 3 <= n
    BY SMT
  <1>. QED
    BY <1>1 DEF WidthAllowance

LEMMA SmallerOf ==
  ASSUME NEW m \in Nat, NEW n \in Nat
  PROVE  /\ Smaller(m, n) \in Nat /\ Smaller(m, n) <= m /\ Smaller(m, n) <= n
         /\ Smaller(m, n) \in {m, n}
  BY DEF Smaller

\* So many have a rank below n.
LEMMA FirstOnes ==
  ASSUME NEW S, IsFiniteSet(S), NEW L, StrictOrder(S, L), NEW n \in 0 .. Cardinality(S)
  PROVE  LET F == {e \in S : Cardinality(L[e]) < n}
         IN  IsFiniteSet(F) /\ Cardinality(F) = n
  <1>. DEFINE F == {e \in S : Cardinality(L[e]) < n}
              r == [e \in F |-> Cardinality(L[e])]
  <1>1. Cardinality(S) \in Nat /\ n \in Nat /\ n <= Cardinality(S)
    BY FS_CardinalityType
  <1>2. \A e \in F : e \in S /\ Cardinality(L[e]) \in 0 .. n - 1
    BY <1>1, RankOrder
  <1>3. \A k \in 0 .. n - 1 : \E e \in F : Cardinality(L[e]) = k
    <2>1. \A k \in 0 .. n - 1 : k \in 0 .. Cardinality(S) - 1 /\ k < n
      BY <1>1
    <2>. QED
      BY <2>1, RankTaken
  <1>4. \A e, f \in F : Cardinality(L[e]) = Cardinality(L[f]) => e = f
    BY RankTaken
  <1>5. r \in Bijection(F, 0 .. n - 1)
    <2>1. /\ r \in [F -> 0 .. n - 1]
          /\ \A e, f \in F : r[e] = r[f] => e = f
          /\ \A k \in 0 .. n - 1 : \E e \in F : r[e] = k
      BY <1>2, <1>3, <1>4
    <2>. HIDE DEF r, F
    <2>. QED
      BY <2>1 DEF Bijection, Injection, IsInjective, Surjection
  <1>6. IsFiniteSet(0 .. n - 1) /\ Cardinality(0 .. n - 1) = n
    <2>1. 0 \in Int /\ n - 1 \in Int /\ (0 > n - 1 => n = 0) /\ n - 1 - 0 + 1 = n
      BY <1>1
    <2>. QED
      BY <2>1, FS_Interval
  <1>7. IsFiniteSet(F) /\ Cardinality(F) = n
    <2>. HIDE DEF F, r
    <2>1. r \in Injection(F, 0 .. n - 1)
      BY <1>5 DEF Bijection
    <2>2. IsFiniteSet(F)
      BY <1>6, <2>1, FS_Injection
    <2>. QED
      BY <1>5, <1>6, <2>2, FS_Bijection DEF ExistsBijection
  <1>. QED
    BY <1>7

LEMMA SlotsFinite ==
  ASSUME IsFiniteSet(Modes), NEW f, NEW n \in Nat, \A m \in Modes : f[m] \in Nat /\ f[m] <= n
  PROVE  IsFiniteSet(Slots(f)) /\ Total(f) \in Nat
  <1>1. IsFiniteSet(1 .. n)
    BY FS_Interval
  <1>2. IsFiniteSet(Modes \X (1 .. n))
    BY <1>1, FS_Product
  <1>3. Slots(f) \subseteq Modes \X (1 .. n)
    BY DEF Slots
  <1>4. IsFiniteSet(Slots(f))
    BY <1>2, <1>3, FS_Subset
  <1>. QED
    BY <1>4, FS_CardinalityType DEF Total

LEMMA SlotIn ==
  ASSUME NEW f, NEW m, NEW k
  PROVE  <<m, k>> \in Slots(f) <=> m \in Modes /\ k \in 1 .. f[m]
  BY DEF Slots

LEMMA OneSlotMore ==
  ASSUME IsFiniteSet(Modes), NEW f \in [Modes -> Nat], NEW n \in Nat,
         \A m \in Modes : f[m] <= n, NEW m \in Modes
  PROVE  Total([f EXCEPT ![m] = @ + 1]) = Total(f) + 1
  <1>. DEFINE g == [f EXCEPT ![m] = @ + 1]
  <1>1. \A k \in Modes : g[k] = IF k = m THEN f[m] + 1 ELSE f[k]
    OBVIOUS
  <1>. HIDE DEF g
  <1>2. Slots(g) = Slots(f) \cup {<<m, f[m] + 1>>}
    <2>1. \A k \in Modes : {k} \X (1 .. g[k]) \subseteq Slots(f) \cup {<<m, f[m] + 1>>}
      <3>1. ASSUME NEW k \in Modes, NEW j \in 1 .. g[k], k # m \/ j # f[m] + 1
            PROVE  j \in 1 .. f[k]
        BY <1>1, <3>1
      <3>. QED
        BY <3>1 DEF Slots
    <2>2. \A k \in Modes : {k} \X (1 .. f[k]) \subseteq Slots(g)
      <3>1. \A k \in Modes : \A j \in 1 .. f[k] : j \in 1 .. g[k]
        BY <1>1
      <3>. QED
        BY <3>1 DEF Slots
    <2>3. <<m, f[m] + 1>> \in Slots(g)
      <3>1. f[m] + 1 \in 1 .. g[m]
        BY <1>1
      <3>. QED
        BY <3>1, SlotIn
    <2>. QED
      BY <2>1, <2>2, <2>3 DEF Slots
  <1>3. <<m, f[m] + 1>> \notin Slots(f)
    <2>1. f[m] + 1 \notin 1 .. f[m]
      OBVIOUS
    <2>. QED
      BY <2>1, SlotIn
  <1>4. IsFiniteSet(Slots(f))
    BY SlotsFinite
  <1>5. Cardinality(Slots(f) \cup {<<m, f[m] + 1>>}) = Cardinality(Slots(f)) + 1
    BY <1>3, <1>4, AddOne
  <1>. QED
    BY <1>2, <1>5 DEF Total, g

\* One slot each for some modes.
LEMMA OneSlotEach ==
  ASSUME NEW F \in SUBSET Modes, IsFiniteSet(F)
  PROVE  Total([m \in Modes |-> IF m \in F THEN 1 ELSE 0]) = Cardinality(F)
  <1>. DEFINE f == [m \in Modes |-> IF m \in F THEN 1 ELSE 0]
  <1>1. \A m \in Modes : f[m] = IF m \in F THEN 1 ELSE 0
    OBVIOUS
  <1>. HIDE DEF f
  <1>2. Slots(f) = F \X {1}
    <2>1. \A m, k : <<m, k>> \in Slots(f) <=> m \in F /\ k = 1
      <3>1. 1 .. 1 = {1} /\ 1 .. 0 = {}
        OBVIOUS
      <3>2. \A m \in Modes : 1 .. f[m] = IF m \in F THEN {1} ELSE {}
        BY <1>1, <3>1
      <3>. QED
        BY <3>2, SlotIn
    <2>2. \A s \in Slots(f) : s = <<s[1], s[2]>>
      BY DEF Slots
    <2>3. Slots(f) \subseteq F \X {1}
      BY <2>1, <2>2
    <2>. QED
      BY <2>1, <2>3
  <1>3. IsFiniteSet({1}) /\ Cardinality({1}) = 1
    BY FS_Singleton
  <1>4. Cardinality(F \X {1}) = Cardinality(F) * 1 /\ Cardinality(F) \in Nat
    BY <1>3, FS_Product, FS_CardinalityType
  <1>5. Total(f) = Cardinality(F)
    BY <1>2, <1>4 DEF Total
  <1>. QED
    BY <1>5 DEF f

LEMMA CandidatesScored == Scored(CandidateRecord)
  <1>. QED
    BY DEF Scored, CandidateRecord

LEMMA TwoParts ==
  ASSUME NEW S, IsFiniteSet(S), NEW T, IsFiniteSet(T), S \cap T = {}
  PROVE  /\ IsFiniteSet(S \cup T)
         /\ Cardinality(S) \in Nat /\ Cardinality(T) \in Nat
         /\ Cardinality(S \cup T) = Cardinality(S) + Cardinality(T)
  <1>1. Cardinality(S \cap T) = 0
    BY FS_EmptySet
  <1>2. Cardinality(S) \in Nat /\ Cardinality(T) \in Nat
    BY FS_CardinalityType
  <1>3. /\ IsFiniteSet(S \cup T)
        /\ Cardinality(S \cup T) = Cardinality(S) + Cardinality(T) - Cardinality(S \cap T)
    BY FS_Union
  <1>. QED
    BY <1>1, <1>2, <1>3

\* The cap leaves a slot empty only where the full-width candidates are too many and the
\* others too few.
LEMMA CappedList ==
  ASSUME NEW list, IsRanked(list, CandidateRecord), NEW n \in Nat, n <= Len(list)
  PROVE  LET wide == {c \in CoordsOf(list) : Wide(c)}
             a    == WidthAllowance(n)
         IN  /\ IsRanked(Capped(list, n), CandidateRecord)
             /\ ToSet(Capped(list, n)) \subseteq ToSet(list)
             /\ Len(Capped(list, n)) <= n
             /\ ~(Cardinality(wide) > a /\ Len(list) - Cardinality(wide) + a < n) => Len(Capped(list, n)) = n
  <1>. DEFINE T == ToSet(list)
              W == {r \in T : Wide(r.coord)}
              N == {r \in T : ~Wide(r.coord)}
              a == WidthAllowance(n)
              few == Take(Ranked(W), a)
              rest == Take(Ranked(N), n - Len(few))
              U == ToSet(few) \cup ToSet(rest)
              wide == {c \in CoordsOf(list) : Wide(c)}
  <1>1. /\ Len(list) \in Nat /\ T \subseteq CandidateRecord /\ OneEach(T)
        /\ IsFiniteSet(T) /\ Cardinality(T) = Len(list)
        /\ CoordsOf(list) = {r.coord : r \in T}
    BY CandidatesScored, ListFacts
  <1>. HIDE DEF T
  <1>2. /\ IsFiniteSet(W) /\ IsFiniteSet(N) /\ W \subseteq T /\ N \subseteq T
        /\ T = W \cup N /\ W \cap N = {} /\ OneEach(W) /\ OneEach(N)
    BY <1>1, FS_Subset DEF OneEach
  <1>3. /\ Cardinality(W) \in Nat /\ Cardinality(N) \in Nat
        /\ Len(list) = Cardinality(W) + Cardinality(N)
    BY <1>1, <1>2, TwoParts
  <1>4. wide = {r.coord : r \in W}
    BY <1>1
  <1>. HIDE DEF W, N
  <1>5. /\ IsRanked(Ranked(W), CandidateRecord) /\ ToSet(Ranked(W)) = W /\ Len(Ranked(W)) = Cardinality(W)
        /\ IsRanked(Ranked(N), CandidateRecord) /\ ToSet(Ranked(N)) = N /\ Len(Ranked(N)) = Cardinality(N)
    BY <1>1, <1>2, CandidatesScored, RankedList
  <1>6. Cardinality(wide) = Cardinality(W)
    BY <1>4, <1>5, CandidatesScored, ListFacts
  <1>. HIDE DEF wide
  <1>7. a \in Nat /\ (n > 0 => a <= n)
    BY AllowanceFits
  <1>. HIDE DEF a
  <1>8. CASE n = 0
    <2>1. Capped(list, n) = <<>>
      BY <1>8 DEF Capped
    <2>2. IsRanked(<<>>, CandidateRecord) /\ ToSet(<<>>) = {} /\ Len(<<>>) = 0
      BY DEF IsRanked, ToSet
    <2>. QED
      BY <1>8, <2>1, <2>2
  <1>9. CASE n > 0
    <2>1. /\ IsRanked(few, CandidateRecord) /\ ToSet(few) \subseteq W
          /\ Len(few) = IF a <= Cardinality(W) THEN a ELSE Cardinality(W)
      <3>. DEFINE s == Ranked(W)
      <3>1. IsRanked(s, CandidateRecord) /\ ToSet(s) = W /\ Len(s) = Cardinality(W)
        BY <1>5
      <3>. HIDE DEF s
      <3>2. /\ IsRanked(Take(s, a), CandidateRecord) /\ ToSet(Take(s, a)) \subseteq ToSet(s)
            /\ Len(Take(s, a)) = IF a <= Len(s) THEN a ELSE Len(s)
        BY <1>7, <3>1, CandidatesScored, TakeList
      <3>. QED
        BY <3>1, <3>2 DEF s
    <2>2. Len(few) \in Nat /\ Len(few) <= n
      BY <1>3, <1>7, <1>9, <2>1
    <2>. HIDE DEF few
    <2>3. n - Len(few) \in Nat
      BY <2>2
    <2>4. /\ IsRanked(rest, CandidateRecord) /\ ToSet(rest) \subseteq N
          /\ Len(rest) = IF n - Len(few) <= Cardinality(N) THEN n - Len(few) ELSE Cardinality(N)
      BY <1>5, <2>3, CandidatesScored, TakeList
    <2>5. Len(rest) \in Nat /\ Len(few) + Len(rest) <= n
      BY <1>3, <2>2, <2>3, <2>4
    <2>. HIDE DEF rest
    <2>6. /\ IsFiniteSet(ToSet(few)) /\ Cardinality(ToSet(few)) = Len(few)
          /\ IsFiniteSet(ToSet(rest)) /\ Cardinality(ToSet(rest)) = Len(rest)
      BY <2>1, <2>4, CandidatesScored, ListFacts
    <2>7. ToSet(few) \cap ToSet(rest) = {} /\ U \subseteq T /\ OneEach(U)
      BY <1>1, <1>2, <2>1, <2>4 DEF OneEach
    <2>8. IsFiniteSet(U) /\ Cardinality(U) = Len(few) + Len(rest)
      <3>1. \A A, B : A = ToSet(few) /\ B = ToSet(rest) =>
                IsFiniteSet(A \cup B) /\ Cardinality(A \cup B) = Cardinality(A) + Cardinality(B)
        BY <2>6, <2>7, TwoParts
      <3>. QED
        BY <2>6, <3>1
    <2>. HIDE DEF U
    <2>9. /\ IsRanked(Ranked(U), CandidateRecord) /\ ToSet(Ranked(U)) = U
          /\ Len(Ranked(U)) = Cardinality(U) /\ U \in SUBSET CandidateRecord
      BY <1>1, <2>7, <2>8, CandidatesScored, RankedList
    <2>10. /\ IsRanked(Take(Ranked(U), n), CandidateRecord)
           /\ ToSet(Take(Ranked(U), n)) \subseteq U
           /\ Len(Take(Ranked(U), n)) = IF n <= Cardinality(U) THEN n ELSE Cardinality(U)
      BY <2>9, CandidatesScored, TakeList
    <2>11. Capped(list, n) = Take(Ranked(U), n)
      BY <1>9 DEF Capped, U, rest, few, a, W, N, T
    <2>12. Len(Capped(list, n)) = Len(few) + Len(rest)
      BY <2>2, <2>5, <2>8, <2>10, <2>11
    <2>13. ~(Cardinality(wide) > a /\ Len(list) - Cardinality(wide) + a < n) => Len(few) + Len(rest) = n
      BY <1>3, <1>6, <1>7, <2>1, <2>2, <2>4
    <2>. QED
      BY <2>5, <2>7, <2>10, <2>11, <2>12, <2>13 DEF wide, a, T
  <1>. QED
    BY <1>8, <1>9

(***************************************************************************)
(* What the counts say of the lists.                                       *)
(***************************************************************************)
ModeRead(m) == {r \in EligibleRead : r.mode = m}

\* Every eligible record has been counted, some more than once.
ModesCovered ==
    /\ counts \in CountsType
    /\ \A m \in Mode : /\ counts.modeSeen[m] = counts.modeEligible[m] + counts.modeRejected[m]
                       /\ counts.modeEligible[m] >= Cardinality(ModeRead(m))

CountInv == stage \in Filling \cup {"allocate"} => ModesCovered

LEMMA ReadFinite ==
  ASSUME ReserveInv
  PROVE  /\ IsFiniteSet(Kept) /\ IsFiniteSet(EligibleRead)
         /\ EligibleRead \subseteq Kept /\ Kept \subseteq CandidateRecord
         /\ \A m : IsFiniteSet(ModeRead(m)) /\ Cardinality(ModeRead(m)) \in Nat
  <1>1. input.records \in Seq(CandidateRecord) /\ came \in 0 .. Len(input.records) /\ came \in Nat
    BY DEF ReserveInv
  <1>. DEFINE s == input.records
  <1>2. Kept = {s[i] : i \in 1 .. came} /\ Kept \subseteq CandidateRecord
    <2>1. \A i \in 1 .. came : i \in 1 .. Len(s)
      BY <1>1
    <2>2. \A i \in 1 .. came : s[i] \in CandidateRecord
      BY <1>1, <2>1
    <2>3. Kept = {s[i] : i \in 1 .. came}
      BY <1>1, ReadFacts DEF Read, Kept
    <2>. QED
      BY <2>2, <2>3
  <1>. DEFINE f == [i \in 1 .. came |-> s[i]]
  <1>3. f \in Surjection(1 .. came, Kept)
    <2>1. f \in [1 .. came -> Kept] /\ \A x \in Kept : \E i \in 1 .. came : f[i] = x
      BY <1>2
    <2>. HIDE DEF f
    <2>. QED
      BY <2>1 DEF Surjection
  <1>4. IsFiniteSet(1 .. came)
    BY <1>1, FS_Interval
  <1>. HIDE DEF f, s
  <1>5. IsFiniteSet(Kept)
    BY <1>3, <1>4, FS_Surjection
  <1>6. EligibleRead \subseteq Kept
    BY DEF EligibleRead, Kept
  <1>7. IsFiniteSet(EligibleRead)
    BY <1>5, <1>6, FS_Subset
  <1>8. ASSUME NEW m PROVE IsFiniteSet(ModeRead(m)) /\ Cardinality(ModeRead(m)) \in Nat
    <2>1. ModeRead(m) \subseteq EligibleRead
      BY DEF ModeRead
    <2>. QED
      BY <1>7, <2>1, FS_Subset, FS_CardinalityType
  <1>. QED
    BY <1>2, <1>5, <1>6, <1>7, <1>8

\* The counts of the modes stay, or of one mode one more has been seen.
LEMMA CountsFollow ==
  ASSUME ModesCovered, NEW r \in CandidateRecord, NEW c,
         \/ c = Dropped(counts)
         \/ c = Rejected(counts, r)
         \/ c = Accepted(counts, r)
  PROVE  /\ c \in CountsType
         /\ \A m \in Mode :
               /\ c.modeSeen[m] = c.modeEligible[m] + c.modeRejected[m]
               /\ c.modeEligible[m] = IF c = Accepted(counts, r) /\ m = r.mode
                                      THEN counts.modeEligible[m] + 1 ELSE counts.modeEligible[m]
  <1>1. counts \in CountsType /\ r.mode \in Mode
    BY DEF ModesCovered, CandidateRecord
  <1>2. /\ counts.modeSeen \in [Mode -> Nat] /\ counts.modeEligible \in [Mode -> Nat]
        /\ counts.modeRejected \in [Mode -> Nat] /\ counts.eligible \in Nat
        /\ \A m \in Mode : counts.modeSeen[m] = counts.modeEligible[m] + counts.modeRejected[m]
    BY DEF ModesCovered, CountsType
  <1>3. CASE c = Dropped(counts) /\ c # Accepted(counts, r)
    <2>1. /\ c.modeSeen = counts.modeSeen /\ c.modeEligible = counts.modeEligible
          /\ c.modeRejected = counts.modeRejected
      BY <1>1, <1>3 DEF Dropped, CountsType
    <2>2. c \in CountsType
      BY <1>1, <1>3, CountingStep
    <2>. QED
      BY <1>2, <1>3, <2>1, <2>2
  <1>4. CASE c = Rejected(counts, r) /\ c # Accepted(counts, r)
    <2>1. /\ c.modeSeen = [counts.modeSeen EXCEPT ![r.mode] = @ + 1] /\ c.modeEligible = counts.modeEligible
          /\ c.modeRejected = [counts.modeRejected EXCEPT ![r.mode] = @ + 1] /\ c \in CountsType
      <3>1. /\ c = [seen |-> counts.seen + 1, eligible |-> counts.eligible, duplicates |-> counts.duplicates,
                     modeSeen |-> [counts.modeSeen EXCEPT ![r.mode] = @ + 1],
                     modeEligible |-> counts.modeEligible,
                     modeRejected |-> [counts.modeRejected EXCEPT ![r.mode] = @ + 1]]
            /\ c \in CountsType
        BY <1>1, <1>4, CountingStep
      <3>. QED
        BY <3>1
    <2>. QED
      BY <1>1, <1>2, <1>4, <2>1
  <1>5. CASE c = Accepted(counts, r)
    <2>1. /\ c.modeSeen = [counts.modeSeen EXCEPT ![r.mode] = @ + 1]
          /\ c.modeEligible = [counts.modeEligible EXCEPT ![r.mode] = @ + 1]
          /\ c.modeRejected = counts.modeRejected /\ c \in CountsType
      BY <1>1, <1>5, CountingStep
    <2>. QED
      BY <1>1, <1>2, <1>5, <2>1
  <1>. QED
    BY <1>3, <1>4, <1>5

LEMMA BatchCounts ==
  ASSUME NEW c \in CountsType, NEW n \in Nat, NEW d, d = [c EXCEPT !.duplicates = @ + n]
  PROVE  /\ d \in CountsType /\ d.modeEligible = c.modeEligible
         /\ d.modeSeen = c.modeSeen /\ d.modeRejected = c.modeRejected
  BY BatchWritten DEF CountsType

LEMMA CountsIngest ==
  ASSUME ReserveInv, CountInv, Ingest
  PROVE  CountInv'
  <1>. DEFINE r == input.records[came + 1]
  <1>1. stage \in Filling /\ came < Len(input.records) /\ came' = came + 1 /\ UNCHANGED input
    BY DEF Ingest, Filling
  <1>2. /\ r \in CandidateRecord
        /\ r.eligible => EligibleRead' = EligibleRead \cup {r}
        /\ ~r.eligible => EligibleRead' = EligibleRead
    BY <1>1, RecordComes
  <1>3. /\ ToSet(batch) \subseteq EligibleRead /\ table \subseteq EligibleRead
        /\ batch \in Seq(CandidateRecord)
    BY <1>1 DEF ReserveInv, Stored
  <1>4. ModesCovered /\ counts \in CountsType
    BY <1>1 DEF CountInv, ModesCovered
  <1>5. IsFiniteSet(EligibleRead) /\ \A m : IsFiniteSet(ModeRead(m)) /\ Cardinality(ModeRead(m)) \in Nat
    BY ReadFinite
  <1>6. SUFFICES ASSUME stage' # "conflict" PROVE ModesCovered'
    <2>1. stage' \in {"ingest", "conflict"}
      BY DEF Ingest, Refuse, Flush
    <2>. QED
      BY <1>6, <2>1 DEF CountInv, Filling
  <1>. HIDE DEF r
  <1>7. ASSUME NEW c, \/ c = Dropped(counts) /\ EligibleRead' = EligibleRead
                      \/ c = Rejected(counts, r) /\ EligibleRead' = EligibleRead
                      \/ c = Accepted(counts, r) /\ EligibleRead' = EligibleRead \cup {r},
               counts' \in CountsType, counts'.modeEligible = c.modeEligible,
               counts'.modeSeen = c.modeSeen, counts'.modeRejected = c.modeRejected
        PROVE  ModesCovered'
    <2>1. \A m \in Mode :
               /\ c.modeSeen[m] = c.modeEligible[m] + c.modeRejected[m]
               /\ c.modeEligible[m] = IF c = Accepted(counts, r) /\ m = r.mode
                                      THEN counts.modeEligible[m] + 1 ELSE counts.modeEligible[m]
      BY <1>2, <1>4, <1>7, CountsFollow
    <2>2. ASSUME NEW m \in Mode
          PROVE  counts'.modeEligible[m] >= Cardinality(ModeRead(m)')
      <3>1. counts.modeEligible[m] \in Nat /\ counts.modeEligible[m] >= Cardinality(ModeRead(m))
        BY <1>4 DEF ModesCovered, CountsType
      <3>2. CASE ModeRead(m)' = ModeRead(m)
        BY <1>5, <1>7, <2>1, <3>1, <3>2
      <3>3. CASE ModeRead(m)' # ModeRead(m)
        <4>1. /\ c = Accepted(counts, r) /\ m = r.mode
              /\ ModeRead(m)' = ModeRead(m) \cup {r} /\ r \notin ModeRead(m)
          BY <1>7, <3>3 DEF ModeRead
        <4>2. Cardinality(ModeRead(m) \cup {r}) = Cardinality(ModeRead(m)) + 1
          BY <1>5, <4>1, AddOne
        <4>. QED
          BY <1>5, <1>7, <2>1, <3>1, <4>1, <4>2
      <3>. QED
        BY <3>2, <3>3
    <2>. QED
      BY <1>7, <2>1, <2>2 DEF ModesCovered
  <1>8. CASE r \in ToSet(batch) /\ counts' = Dropped(counts)
    <2>1. r \in EligibleRead /\ r.eligible
      BY <1>3, <1>8 DEF EligibleRead
    <2>2. EligibleRead' = EligibleRead
      BY <1>2, <2>1
    <2>3. counts' \in CountsType
      BY <1>2, <1>4, <1>8, CountsFollow
    <2>. QED
      BY <1>7, <1>8, <2>2, <2>3
  <1>9. CASE ~r.eligible /\ counts' = Rejected(counts, r)
    <2>1. counts' \in CountsType
      BY <1>2, <1>4, <1>9, CountsFollow
    <2>. QED
      BY <1>2, <1>7, <1>9, <2>1
  <1>10. CASE r.eligible /\ counts' = Accepted(counts, r)
    <2>1. counts' \in CountsType
      BY <1>2, <1>4, <1>10, CountsFollow
    <2>. QED
      BY <1>2, <1>7, <1>10, <2>1
  <1>11. CASE r.eligible /\ Flush(Append(batch, r), Accepted(counts, r))
    <2>. DEFINE n == Cardinality(ToSet(Append(batch, r)) \cap table)
                c == Accepted(counts, r)
    <2>1. c \in CountsType
      BY <1>2, <1>4, CountsFollow
    <2>2. n \in Nat
      <3>1. IsFiniteSet(table)
        BY <1>3, <1>5, FS_Subset
      <3>2. IsFiniteSet(ToSet(Append(batch, r)) \cap table)
        BY <3>1, FS_Subset
      <3>. QED
        BY <3>2, FS_CardinalityType
    <2>3. counts' = [c EXCEPT !.duplicates = @ + n]
      BY <1>11 DEF Flush
    <2>. HIDE DEF n, c
    <2>4. /\ counts' \in CountsType /\ counts'.modeEligible = c.modeEligible
          /\ counts'.modeSeen = c.modeSeen /\ counts'.modeRejected = c.modeRejected
      BY <2>1, <2>2, <2>3, BatchCounts
    <2>5. c = Accepted(counts, r)
      BY DEF c
    <2>. QED
      BY <1>2, <1>7, <1>11, <2>4, <2>5
  <1>. QED
    BY <1>6, <1>8, <1>9, <1>10, <1>11 DEF Ingest, Refuse, r

LEMMA CountsEnd ==
  ASSUME ReserveInv, CountInv, EndStream
  PROVE  CountInv'
  <1>1. stage = "ingest" /\ stage' \in {"conflict", "allocate"} /\ UNCHANGED <<input, came>>
    BY DEF EndStream, Refuse
  <1>2. SUFFICES ASSUME stage' = "allocate" PROVE ModesCovered'
    BY <1>1 DEF CountInv, Filling
  <1>3. /\ table \subseteq EligibleRead
        /\ counts' = [counts EXCEPT !.duplicates = @ + Cardinality(ToSet(batch) \cap table)]
    BY <1>1, <1>2 DEF EndStream, Flush, Refuse, ReserveInv, Stored, Filling
  <1>4. ModesCovered /\ counts \in CountsType
    BY <1>1 DEF CountInv, Filling, ModesCovered
  <1>. DEFINE n == Cardinality(ToSet(batch) \cap table)
  <1>5. n \in Nat
    <2>1. IsFiniteSet(table)
      BY <1>3, ReadFinite, FS_Subset
    <2>2. IsFiniteSet(ToSet(batch) \cap table)
      BY <2>1, FS_Subset
    <2>. QED
      BY <2>2, FS_CardinalityType
  <1>. HIDE DEF n
  <1>6. counts' = [counts EXCEPT !.duplicates = @ + n]
    BY <1>3 DEF n
  <1>7. /\ counts' \in CountsType /\ counts'.modeEligible = counts.modeEligible
        /\ counts'.modeSeen = counts.modeSeen /\ counts'.modeRejected = counts.modeRejected
    BY <1>4, <1>5, <1>6, BatchCounts
  <1>8. \A m \in Mode : ModeRead(m)' = ModeRead(m)
    BY <1>1 DEF ModeRead, EligibleRead, Read
  <1>. QED
    BY <1>4, <1>7, <1>8 DEF ModesCovered

LEMMA CountsStart == Init => CountInv
  <1>. SUFFICES ASSUME Init PROVE ModesCovered
    BY DEF CountInv
  <1>1. input.records \in Seq(CandidateRecord)
    BY SelectionAssumption DEF Init
  <1>2. /\ came = 0
        /\ counts = [seen |-> 0, eligible |-> 0, duplicates |-> 0,
                     modeSeen |-> Zero, modeEligible |-> Zero, modeRejected |-> Zero]
    BY DEF Init, ReserveInit
  <1>3. EligibleRead = {}
    BY <1>1, <1>2, ReadFacts DEF Read, EligibleRead
  <1>4. Zero \in [Mode -> Nat]
    BY DEF Zero
  <1>5. \A m \in Mode : Cardinality(ModeRead(m)) = 0
    <2>1. \A m \in Mode : ModeRead(m) = {}
      BY <1>3 DEF ModeRead
    <2>. QED
      BY <2>1, FS_EmptySet
  <1>6. counts \in CountsType
    BY <1>2, <1>4 DEF CountsType
  <1>. QED
    BY <1>2, <1>5, <1>6 DEF ModesCovered, Zero

LEMMA CountsStep == ReserveInv /\ CountInv /\ [Next]_vars => CountInv'
  <1>. SUFFICES ASSUME ReserveInv, CountInv, [Next]_vars PROVE CountInv'
    OBVIOUS
  <1>1. CASE Reserving(Ingest) \/ Reserving(EndStream)
    BY <1>1, CountsIngest, CountsEnd DEF Reserving
  <1>2. CASE \/ Selecting(Consider) \/ Selecting(Seat) \/ Selecting(Release) \/ Selecting(Backfill)
             \/ Selecting(EndTurn) \/ Selecting(EndRound) \/ Selecting(Trim)
             \/ Claiming(Export)
             \/ Claiming(Allocate) \/ Claiming(AllotSlot) \/ Claiming(NextPass) \/ Claiming(EndPlan)
             \/ Claiming(ClaimMode) \/ Claiming(EndCorridors) \/ Claiming(NextBoard)
             \/ Claiming(PassOver) \/ Claiming(Collide) \/ Claiming(Claim) \/ Claiming(Validate)
             \/ UNCHANGED vars
    <2>1. UNCHANGED <<input, came, batch, table, counts, reserve>>
      BY <1>2 DEF Selecting, Claiming, reserveVars, vars, Consider, Seat, Release, Backfill, EndTurn,
           EndRound, Trim, Export, Allocate, AllotSlot, NextSlot, NextPass, EndPlan, ClaimMode,
           EndCorridors, NextBoard, PassOver, Collide, Claim, Validate
    <2>2. ModesCovered' <=> ModesCovered
      BY <2>1 DEF ModesCovered, ModeRead, EligibleRead, Read
    <2>3. stage' \in Filling \cup {"allocate"} => stage \in Filling \cup {"allocate"}
      <3>1. CASE Selecting(Consider) \/ Selecting(Seat) \/ Selecting(Release) \/ Selecting(Backfill)
              \/ Selecting(EndTurn) \/ Selecting(EndRound) \/ Selecting(Trim) \/ Claiming(Export)
        BY <3>1 DEF Selecting, Claiming, Consider, Seat, Release, Backfill, EndTurn, EndRound, Trim,
             Export, Filling
      <3>2. CASE Claiming(Allocate) \/ Claiming(AllotSlot) \/ Claiming(NextPass) \/ Claiming(EndPlan)
             \/ Claiming(ClaimMode) \/ Claiming(EndCorridors) \/ Claiming(NextBoard)
             \/ Claiming(PassOver) \/ Claiming(Collide) \/ Claiming(Claim) \/ Claiming(Validate)
        BY <3>2 DEF Claiming, Allocate, AllotSlot, NextSlot, NextPass, EndPlan, ClaimMode,
             EndCorridors, NextBoard, PassOver, Collide, Claim, Validate, Filling
      <3>3. CASE UNCHANGED vars
        BY <3>3 DEF vars
      <3>. QED
        BY <1>2, <3>1, <3>2, <3>3
    <2>. QED
      BY <2>2, <2>3 DEF CountInv
  <1>. QED
    BY <1>1, <1>2 DEF Next, Terminated

(***************************************************************************)
(* The input of the claims: the lists of the modes.                        *)
(***************************************************************************)
\* A mode's list is ranked, no coordinate is in two of them.
ReserveOK ==
    /\ IsFiniteSet(Modes) /\ Modes \subseteq Mode
    /\ \A m \in Modes : /\ IsRanked(reserve[m], CandidateRecord)
                        /\ Len(reserve[m]) \in Nat /\ Len(reserve[m]) > 0
                        /\ counts.modeEligible[m] \in Nat
                        /\ counts.modeEligible[m] >= Len(reserve[m])
                        /\ counts.modeSeen[m] = counts.modeEligible[m] + counts.modeRejected[m]
    /\ \A m, k \in Modes : m # k => CoordsOf(reserve[m]) \cap CoordsOf(reserve[k]) = {}

LEMMA ReserveIsOK ==
  ASSUME ReserveInv, CountInv, stage = "allocate"
  PROVE  ReserveOK
  <1>1. ModesCovered /\ Agreed /\ counts \in CountsType
    BY DEF CountInv, ReserveInv, ModesCovered
  <1>2. /\ EligibleRead \subseteq Kept /\ Kept \subseteq CandidateRecord /\ IsFiniteSet(EligibleRead)
        /\ \A m : IsFiniteSet(ModeRead(m)) /\ Cardinality(ModeRead(m)) \in Nat
    BY ReadFinite
  <1>3. ~Conflicts(EligibleRead, EligibleRead)
    BY <1>1 DEF Agreed
  <1>4. \A m \in Mode : /\ Reference(Read).counts.modeEligible[m] = Cardinality(ModeRead(m))
                        /\ Reference(Read).pools[m] = Ranked(ModeRead(m))
    <2>1. \A m \in Mode : /\ {r \in Kept : r.mode = m /\ r.eligible = TRUE} = ModeRead(m)
                          /\ {r \in Kept : r.mode = m /\ r.eligible} = ModeRead(m)
      <3>1. \A r \in Kept : r.eligible \in BOOLEAN
        BY <1>2 DEF CandidateRecord
      <3>. QED
        BY <3>1 DEF ModeRead, EligibleRead, Kept
    <2>. QED
      BY <2>1 DEF Reference, Kept
  <1>5. /\ Modes = {n \in Mode : Cardinality(ModeRead(n)) > 0}
        /\ \A m \in Modes : reserve[m] = Ranked(ModeRead(m))
    BY <1>1, <1>4 DEF Agreed, Modes
  <1>6. ASSUME NEW m \in Modes
        PROVE  /\ IsRanked(reserve[m], CandidateRecord) /\ ToSet(reserve[m]) = ModeRead(m)
               /\ Len(reserve[m]) = Cardinality(ModeRead(m))
               /\ CoordsOf(reserve[m]) = {r.coord : r \in ModeRead(m)}
    <2>1. OneEach(ModeRead(m)) /\ ModeRead(m) \in SUBSET CandidateRecord
      BY <1>2, <1>3 DEF OneEach, Conflicts, ModeRead
    <2>2. IsFiniteSet(ModeRead(m))
      BY <1>2
    <2>3. /\ IsRanked(Ranked(ModeRead(m)), CandidateRecord) /\ ToSet(Ranked(ModeRead(m))) = ModeRead(m)
          /\ Len(Ranked(ModeRead(m))) = Cardinality(ModeRead(m))
      BY <2>1, <2>2, CandidatesScored, RankedList
    <2>4. reserve[m] = Ranked(ModeRead(m))
      BY <1>5
    <2>5. CoordsOf(reserve[m]) = {r.coord : r \in ToSet(reserve[m])}
      BY <2>3, <2>4, CandidatesScored, ListFacts
    <2>. QED
      BY <2>3, <2>4, <2>5
  <1>7. IsFiniteSet(Modes)
    <2>. DEFINE D == {r \in EligibleRead : r.mode \in Modes}
                f == [r \in D |-> r.mode]
    <2>1. \A m \in Modes : \E r \in D : r.mode = m
      <3>1. \A m \in Modes : ModeRead(m) # {}
        BY <1>5, FS_EmptySet
      <3>. QED
        BY <3>1 DEF ModeRead
    <2>2. f \in Surjection(D, Modes)
      <3>1. f \in [D -> Modes] /\ \A m \in Modes : \E r \in D : f[r] = m
        BY <2>1
      <3>. HIDE DEF f
      <3>. QED
        BY <3>1 DEF Surjection
    <2>3. IsFiniteSet(D)
      BY <1>2, FS_Subset
    <2>. HIDE DEF f, D
    <2>. QED
      BY <2>2, <2>3, FS_Surjection
  <1>8. ASSUME NEW m \in Modes, NEW k \in Modes, m # k
        PROVE  CoordsOf(reserve[m]) \cap CoordsOf(reserve[k]) = {}
    <2>1. CoordsOf(reserve[m]) = {r.coord : r \in ModeRead(m)} /\ CoordsOf(reserve[k]) = {r.coord : r \in ModeRead(k)}
      BY <1>6
    <2>2. ASSUME NEW r \in ModeRead(m), NEW s \in ModeRead(k), r.coord = s.coord
          PROVE  FALSE
      BY <1>3, <1>8, <2>2 DEF ModeRead, Conflicts
    <2>. QED
      BY <2>1, <2>2
  <1>9. ASSUME NEW m \in Modes
        PROVE  /\ Len(reserve[m]) \in Nat /\ Len(reserve[m]) > 0
               /\ counts.modeEligible[m] \in Nat
               /\ counts.modeEligible[m] >= Len(reserve[m])
               /\ counts.modeSeen[m] = counts.modeEligible[m] + counts.modeRejected[m]
    BY <1>1, <1>2, <1>5, <1>6 DEF ModesCovered, CountsType
  <1>. QED
    BY <1>5, <1>6, <1>7, <1>8, <1>9 DEF ReserveOK

(***************************************************************************)
(* The allotment.                                                          *)
(***************************************************************************)
LEMMA BudgetFacts ==
  ASSUME Provided, ReserveOK
  PROVE  /\ input.budget \in Nat /\ CorridorBudget \in Nat
         /\ CorridorBudget <= input.budget /\ CorridorBudget <= Total(Capacities)
         /\ Total(Capacities) \in Nat /\ input.modeCap \in Nat
         /\ \A m \in Modes : /\ ModeCapacity(m) \in Nat /\ ModeCapacity(m) <= input.modeCap
                             /\ ModeCapacity(m) <= Len(reserve[m]) /\ m \in Nat
  <1>1. /\ input.budget \in Nat /\ input.modeCap \in Nat
        /\ input.share \in Nat \X (Nat \ {0}) /\ input.share[1] <= input.share[2]
    BY SelectorAssumption, BudgetAssumption DEF Provided
  <1>2. CorridorCeiling \in Nat /\ CorridorCeiling <= input.budget
    BY <1>1, PartOfWhole DEF CorridorCeiling
  <1>3. ASSUME NEW m \in Modes
        PROVE  /\ ModeCapacity(m) \in Nat /\ ModeCapacity(m) <= input.modeCap
               /\ ModeCapacity(m) <= Len(reserve[m]) /\ m \in Nat
    <2>1. Len(reserve[m]) \in Nat /\ counts.modeEligible[m] \in Nat /\ m \in Nat
      BY SelectionAssumption DEF ReserveOK
    <2>. QED
      BY <1>1, <2>1 DEF ModeCapacity, Smaller
  <1>4. Total(Capacities) \in Nat
    <2>1. \A m \in Modes : Capacities[m] \in Nat /\ Capacities[m] <= input.modeCap
      BY <1>3 DEF Capacities
    <2>. QED
      BY <1>1, <2>1, SlotsFinite DEF ReserveOK
  <1>5. /\ CorridorBudget \in Nat /\ CorridorBudget <= CorridorCeiling
        /\ CorridorBudget <= Total(Capacities)
    BY <1>2, <1>4, SmallerOf DEF CorridorBudget
  <1>. QED
    BY <1>1, <1>2, <1>3, <1>4, <1>5

\* A pass over the modes u still has to lift to the next level, as far as they have room.
AtLevel(f, u, n) ==
    \A m \in Modes : f[m] = Smaller(ModeCapacity(m), IF m \in u THEN n ELSE n + 1)

Allotted(f, u) ==
    /\ f \in [Modes -> Nat] /\ u \subseteq Modes
    /\ \A m \in Modes : f[m] <= ModeCapacity(m)
    /\ Total(f) <= CorridorBudget
    /\ \/ Total(f) = CorridorBudget /\ \A m \in Modes : f[m] <= 1
       \/ \E n \in Nat : AtLevel(f, u, n)

LEMMA FirstModesFit ==
  ASSUME Provided, ReserveOK, CorridorBudget < Cardinality(Covered)
  PROVE  /\ IsFiniteSet(FirstModes(CorridorBudget)) /\ FirstModes(CorridorBudget) \subseteq Covered
         /\ Cardinality(FirstModes(CorridorBudget)) = CorridorBudget
  <1>. DEFINE L == [m \in Covered |-> {k \in Covered : Ahead(k, m)}]
  <1>1. CorridorBudget \in Nat /\ \A m \in Modes : m \in Nat
    BY BudgetFacts
  <1>2. Covered \subseteq Modes /\ IsFiniteSet(Covered) /\ Cardinality(Covered) \in Nat
    <2>1. Covered \subseteq Modes
      BY DEF Covered
    <2>. QED
      BY <2>1, FS_Subset, FS_CardinalityType DEF ReserveOK
  <1>3. \A m \in Covered : reserve[m][1].score \in Int
    <2>1. \A m \in Covered : reserve[m] \in Seq(CandidateRecord) /\ Len(reserve[m]) \in Nat /\ Len(reserve[m]) > 0
      BY <1>2 DEF ReserveOK, IsRanked
    <2>2. \A m \in Covered : reserve[m][1] \in CandidateRecord
      BY <2>1
    <2>. QED
      BY <2>2 DEF CandidateRecord
  <1>4. \A m \in Covered : ~Ahead(m, m)
    BY <1>1, <1>2, <1>3 DEF Ahead
  <1>5. \A m, k \in Covered : m # k => Ahead(m, k) \/ Ahead(k, m)
    BY <1>1, <1>2, <1>3 DEF Ahead
  <1>6. \A m, k, j \in Covered : Ahead(m, k) /\ Ahead(k, j) => Ahead(m, j)
    BY <1>1, <1>2, <1>3 DEF Ahead
  <1>7. \A m \in Covered : L[m] = {k \in Covered : Ahead(k, m)}
    OBVIOUS
  <1>8. L \in [Covered -> SUBSET Covered]
    OBVIOUS
  <1>. HIDE DEF L
  <1>9. StrictOrder(Covered, L)
    BY <1>4, <1>5, <1>6, <1>7, <1>8 DEF StrictOrder
  <1>10. CorridorBudget \in 0 .. Cardinality(Covered)
    BY <1>1, <1>2
  <1>11. FirstModes(CorridorBudget) = {m \in Covered : Cardinality(L[m]) < CorridorBudget}
    BY <1>7 DEF FirstModes
  <1>. QED
    BY <1>2, <1>9, <1>10, <1>11, FirstOnes

LEMMA AllotmentStarts ==
  ASSUME Provided, ReserveOK,
         NEW F, F = IF CorridorBudget < Cardinality(Covered) THEN FirstModes(CorridorBudget) ELSE {}
  PROVE  Allotted([m \in Modes |-> IF m \in F THEN 1 ELSE 0], Modes)
  <1>. DEFINE f == [m \in Modes |-> IF m \in F THEN 1 ELSE 0]
  <1>1. /\ CorridorBudget \in Nat
        /\ \A m \in Modes : ModeCapacity(m) \in Nat
    BY BudgetFacts
  <1>2. F \subseteq Covered /\ Covered \subseteq Modes /\ IsFiniteSet(F)
    BY FirstModesFit, FS_EmptySet DEF Covered
  <1>3. Total(f) = Cardinality(F)
    BY <1>2, OneSlotEach
  <1>4. f \in [Modes -> Nat] /\ \A m \in Modes : f[m] = IF m \in F THEN 1 ELSE 0
    OBVIOUS
  <1>. HIDE DEF f
  <1>5. \A m \in Modes : f[m] <= ModeCapacity(m) /\ f[m] <= 1
    BY <1>1, <1>2, <1>4 DEF Covered
  <1>6. CASE CorridorBudget < Cardinality(Covered)
    <2>1. Total(f) = CorridorBudget
      BY <1>3, <1>6, FirstModesFit
    <2>. QED
      BY <1>1, <1>4, <1>5, <2>1 DEF Allotted, f
  <1>7. CASE ~(CorridorBudget < Cardinality(Covered))
    <2>1. F = {} /\ Cardinality(F) = 0
      BY <1>7, FS_EmptySet
    <2>2. AtLevel(f, Modes, 0)
      BY <1>1, <1>4, <2>1 DEF AtLevel, Smaller
    <2>. QED
      BY <1>1, <1>3, <1>4, <1>5, <2>1, <2>2 DEF Allotted, f
  <1>. QED
    BY <1>6, <1>7

LEMMA AllotmentGoesOn ==
  ASSUME Provided, ReserveOK, NEW f, NEW u, Allotted(f, u), Total(f) < CorridorBudget,
         NEW m \in u, f[m] < ModeCapacity(m), \A k \in u : f[k] < ModeCapacity(k) => m <= k
  PROVE  Allotted([f EXCEPT ![m] = @ + 1], {k \in u : k > m})
  <1>. DEFINE g == [f EXCEPT ![m] = @ + 1]
              v == {k \in u : k > m}
  <1>1. /\ CorridorBudget \in Nat /\ input.modeCap \in Nat
        /\ \A k \in Modes : ModeCapacity(k) \in Nat /\ ModeCapacity(k) <= input.modeCap /\ k \in Nat
    BY BudgetFacts
  <1>2. f \in [Modes -> Nat] /\ u \subseteq Modes /\ \A k \in Modes : f[k] <= ModeCapacity(k)
    BY DEF Allotted
  <1>3. PICK n \in Nat : AtLevel(f, u, n)
    <2>1. Total(f) # CorridorBudget
      <3>1. \A k \in Modes : f[k] \in Nat /\ f[k] <= input.modeCap
        BY <1>1, <1>2
      <3>2. Total(f) \in Nat
        BY <1>1, <3>1, SlotsFinite DEF ReserveOK
      <3>. QED
        BY <1>1, <3>2
    <2>. QED
      BY <2>1 DEF Allotted
  <1>4. g \in [Modes -> Nat] /\ \A k \in Modes : g[k] = IF k = m THEN f[m] + 1 ELSE f[k]
    BY <1>2
  <1>5. Total(g) = Total(f) + 1 /\ Total(f) \in Nat
    <2>1. \A k \in Modes : f[k] \in Nat /\ f[k] <= input.modeCap
      BY <1>1, <1>2
    <2>. QED
      BY <1>1, <1>2, <2>1, OneSlotMore, SlotsFinite DEF ReserveOK
  <1>. HIDE DEF g
  <1>6. AtLevel(g, v, n)
    <2>1. ASSUME NEW k \in Modes
          PROVE  g[k] = Smaller(ModeCapacity(k), IF k \in v THEN n ELSE n + 1)
      <3>1. /\ f[k] = Smaller(ModeCapacity(k), IF k \in u THEN n ELSE n + 1)
            /\ f[m] = Smaller(ModeCapacity(m), n)
        BY <1>2, <1>3 DEF AtLevel
      <3>2. ModeCapacity(k) \in Nat /\ ModeCapacity(m) \in Nat /\ k \in Nat /\ m \in Nat
        BY <1>1, <1>2
      <3>3. CASE k = m
        BY <1>4, <3>1, <3>2, <3>3 DEF Smaller
      <3>4. CASE k # m /\ k \in u /\ ~(k > m)
        <4>1. ~(f[k] < ModeCapacity(k))
          BY <3>2, <3>4
        <4>. QED
          BY <1>4, <3>1, <3>2, <3>4, <4>1 DEF Smaller
      <3>5. CASE k # m /\ (k \notin u \/ k > m)
        BY <1>4, <3>1, <3>5
      <3>. QED
        BY <3>3, <3>4, <3>5
    <2>. QED
      BY <2>1 DEF AtLevel
  <1>7. \A k \in Modes : g[k] <= ModeCapacity(k)
    BY <1>1, <1>2, <1>4
  <1>8. v \subseteq Modes /\ Total(g) <= CorridorBudget
    BY <1>1, <1>2, <1>5
  <1>. HIDE DEF v
  <1>9. Allotted(g, v)
    BY <1>4, <1>6, <1>7, <1>8 DEF Allotted
  <1>. QED
    BY <1>9 DEF g, v

LEMMA PassBegins ==
  ASSUME Provided, ReserveOK, NEW f, NEW u, Allotted(f, u), Total(f) < CorridorBudget,
         \A m \in u : ~(f[m] < ModeCapacity(m))
  PROVE  /\ Allotted(f, Modes)
         /\ \E m \in Modes : f[m] < ModeCapacity(m)
  <1>1. /\ CorridorBudget \in Nat /\ input.modeCap \in Nat
        /\ CorridorBudget <= Total(Capacities) /\ Total(Capacities) \in Nat
        /\ \A k \in Modes : ModeCapacity(k) \in Nat /\ ModeCapacity(k) <= input.modeCap
    BY BudgetFacts
  <1>2. f \in [Modes -> Nat] /\ u \subseteq Modes /\ \A k \in Modes : f[k] <= ModeCapacity(k)
    BY DEF Allotted
  <1>3. Total(f) \in Nat
    <2>1. \A k \in Modes : f[k] \in Nat /\ f[k] <= input.modeCap
      BY <1>1, <1>2
    <2>. QED
      BY <1>1, <2>1, SlotsFinite DEF ReserveOK
  <1>4. PICK n \in Nat : AtLevel(f, u, n)
    BY <1>1, <1>3 DEF Allotted
  <1>5. AtLevel(f, Modes, n + 1)
    <2>1. ASSUME NEW k \in Modes
          PROVE  f[k] = Smaller(ModeCapacity(k), n + 1)
      BY <1>1, <1>2, <1>4, <2>1 DEF AtLevel, Smaller
    <2>. QED
      BY <2>1 DEF AtLevel
  <1>6. Allotted(f, Modes)
    <2>1. n + 1 \in Nat
      OBVIOUS
    <2>. QED
      BY <1>2, <1>5, <2>1 DEF Allotted
  <1>7. ASSUME \A m \in Modes : ~(f[m] < ModeCapacity(m)) PROVE FALSE
    <2>1. \A m \in Modes : f[m] = Capacities[m]
      BY <1>1, <1>2, <1>7 DEF Capacities
    <2>2. Slots(f) = Slots(Capacities)
      BY <2>1 DEF Slots
    <2>. QED
      BY <1>1, <1>3, <2>2 DEF Total
  <1>. QED
    BY <1>6, <1>7

LEMMA AllotmentEnds ==
  ASSUME Provided, ReserveOK, NEW f, NEW u, Allotted(f, u), Total(f) >= CorridorBudget
  PROVE  /\ Total(f) = CorridorBudget
         /\ \A m, k \in Modes : f[k] > f[m] + 1 => f[m] = ModeCapacity(m)
  <1>1. /\ CorridorBudget \in Nat /\ input.modeCap \in Nat
        /\ \A k \in Modes : ModeCapacity(k) \in Nat /\ ModeCapacity(k) <= input.modeCap
    BY BudgetFacts
  <1>2. f \in [Modes -> Nat] /\ \A k \in Modes : f[k] <= ModeCapacity(k)
    BY DEF Allotted
  <1>3. Total(f) \in Nat
    <2>1. \A k \in Modes : f[k] \in Nat /\ f[k] <= input.modeCap
      BY <1>1, <1>2
    <2>. QED
      BY <1>1, <2>1, SlotsFinite DEF ReserveOK
  <1>4. Total(f) = CorridorBudget
    BY <1>1, <1>3 DEF Allotted
  <1>5. ASSUME NEW m \in Modes, NEW k \in Modes, f[k] > f[m] + 1
        PROVE  f[m] = ModeCapacity(m)
    <2>1. CASE \A j \in Modes : f[j] <= 1
      <3>1. f[m] \in Nat /\ f[k] \in Nat /\ f[k] <= 1
        BY <1>2, <2>1
      <3>. QED
        BY <1>5, <3>1
    <2>2. CASE \E n \in Nat : AtLevel(f, u, n)
      <3>1. PICK n \in Nat : AtLevel(f, u, n)
        BY <2>2
      <3>2. f[m] \in Nat /\ f[k] \in Nat /\ ModeCapacity(m) \in Nat /\ ModeCapacity(k) \in Nat
        BY <1>1, <1>2
      <3>3. /\ f[k] = Smaller(ModeCapacity(k), IF k \in u THEN n ELSE n + 1)
            /\ f[m] = Smaller(ModeCapacity(m), IF m \in u THEN n ELSE n + 1)
        BY <3>1 DEF AtLevel
      <3>. QED
        BY <1>5, <3>2, <3>3 DEF Smaller
    <2>. QED
      BY <2>1, <2>2 DEF Allotted
  <1>. QED
    BY <1>4, <1>5

(***************************************************************************)
(* The claims of the modes.                                                *)
(***************************************************************************)
Planned ==
    /\ slots \in [Modes -> Nat]
    /\ \A m \in Modes : slots[m] <= Len(reserve[m])
    /\ Total(slots) = CorridorBudget
    /\ BreadthFirst

ByRecord == [role : {"corridor", "board"}, source : Nat, rank : Nat]
ClaimRecord == [coord : Coord, by : ByRecord]

\* No coordinate is claimed twice, and each has what claimed it for its first obligation.
Apiece(cs) == cs \in Seq(ClaimRecord) /\ \A i, j \in 1 .. Len(cs) : i # j => cs[i].coord # cs[j].coord

Owing ==
    /\ owed = [c \in CoordsOf(claims) |-> owed[c]]
    /\ \A i \in 1 .. Len(claims) : /\ owed[claims[i].coord] \in Seq(ByRecord)
                                   /\ Canonical(owed[claims[i].coord])
                                   /\ owed[claims[i].coord][1] = claims[i].by

ClaimsOK == Apiece(claims) /\ ClaimOrder /\ Owing

\* The modes that have been served come first, and have their slots unless one starves.
ModesClaimed ==
    /\ unserved \subseteq Modes
    /\ \A m \in Modes \ unserved, k \in unserved : m < k
    /\ \A i \in 1 .. Len(claims) :
          /\ claims[i].by.role = "corridor"
          /\ claims[i].by.source \in Modes \ unserved
          /\ claims[i].by.rank \in 1 .. slots[claims[i].by.source]
          /\ claims[i].coord \in CoordsOf(reserve[claims[i].by.source])
    /\ (\A m \in Modes : ~WidthStarved(m)) =>
          \A m \in Modes \ unserved : \A k \in 1 .. slots[m] :
              \E i \in 1 .. Len(claims) : claims[i].by = Role("corridor", m, k)

NotBegun == claims = <<>> /\ owed = <<>> /\ turn = NoTurn /\ lineage = {}

\* es is cs and then ds.
Joins(cs, ds, es) ==
    /\ Apiece(es)
    /\ Len(cs) \in Nat /\ Len(ds) \in Nat /\ Len(es) = Len(cs) + Len(ds)
    /\ \A i \in 1 .. Len(cs) : i \in 1 .. Len(es) /\ es[i] = cs[i]
    /\ \A i \in 1 .. Len(ds) : Len(cs) + i \in 1 .. Len(es) /\ es[Len(cs) + i] = ds[i]
    /\ \A j \in 1 .. Len(es) : j \notin 1 .. Len(cs) =>
          \E i \in 1 .. Len(ds) : j = Len(cs) + i /\ es[j] = ds[i]
    /\ CoordsOf(es) = CoordsOf(cs) \cup CoordsOf(ds)

LEMMA Joined ==
  ASSUME NEW cs, Apiece(cs), NEW ds, Apiece(ds), CoordsOf(cs) \cap CoordsOf(ds) = {}
  PROVE  Joins(cs, ds, cs \o ds)
  <1>. DEFINE es == cs \o ds
              p == Len(cs)
              q == Len(ds)
  <1>1. cs \in Seq(ClaimRecord) /\ ds \in Seq(ClaimRecord) /\ p \in Nat /\ q \in Nat
    BY DEF Apiece
  <1>2. es \in Seq(ClaimRecord) /\ Len(es) = p + q
    BY <1>1
  <1>3. \A i \in 1 .. p : i \in 1 .. Len(es) /\ es[i] = cs[i]
    BY <1>1, <1>2
  <1>4. \A i \in 1 .. q : p + i \in 1 .. Len(es) /\ es[p + i] = ds[i]
    BY <1>1, <1>2
  <1>. HIDE DEF es
  <1>5. ASSUME NEW j \in 1 .. Len(es), j \notin 1 .. p
        PROVE  \E i \in 1 .. q : j = p + i /\ es[j] = ds[i]
    <2>1. j - p \in 1 .. q /\ j = p + (j - p)
      BY <1>1, <1>2, <1>5
    <2>. QED
      BY <1>4, <2>1
  <1>. HIDE DEF p, q
  <1>6. CoordsOf(es) = CoordsOf(cs) \cup CoordsOf(ds)
    <2>1. CoordsOf(cs) = {cs[i].coord : i \in 1 .. p} /\ CoordsOf(ds) = {ds[i].coord : i \in 1 .. q}
      BY DEF CoordsOf, p, q
    <2>2. CoordsOf(es) = {es[i].coord : i \in 1 .. Len(es)}
      BY DEF CoordsOf
    <2>3. CoordsOf(es) \subseteq CoordsOf(cs) \cup CoordsOf(ds)
      BY <1>3, <1>5, <2>1, <2>2
    <2>4. CoordsOf(cs) \subseteq CoordsOf(es)
      BY <1>3, <2>1, <2>2
    <2>5. CoordsOf(ds) \subseteq CoordsOf(es)
      BY <1>4, <2>1, <2>2
    <2>. QED
      BY <2>3, <2>4, <2>5
  <1>7. \A i \in 1 .. p, j \in 1 .. q : cs[i].coord # ds[j].coord
    BY DEF CoordsOf, p, q
  <1>8. ASSUME NEW i \in 1 .. Len(es), NEW j \in 1 .. Len(es), i # j
        PROVE  es[i].coord # es[j].coord
    <2>1. CASE i \in 1 .. p /\ j \in 1 .. p
      BY <1>3, <1>8, <2>1 DEF Apiece, p
    <2>2. CASE i \in 1 .. p /\ j \notin 1 .. p
      BY <1>3, <1>5, <1>7, <2>2
    <2>3. CASE i \notin 1 .. p /\ j \in 1 .. p
      BY <1>3, <1>5, <1>7, <2>3
    <2>4. CASE i \notin 1 .. p /\ j \notin 1 .. p
      <3>1. PICK a \in 1 .. q : i = p + a /\ es[i] = ds[a]
        BY <1>5, <2>4
      <3>2. PICK b \in 1 .. q : j = p + b /\ es[j] = ds[b]
        BY <1>5, <2>4
      <3>. QED
        BY <1>8, <3>1, <3>2 DEF Apiece, q
    <2>. QED
      BY <2>1, <2>2, <2>3, <2>4
  <1>9. Apiece(es)
    BY <1>2, <1>8 DEF Apiece
  <1>. QED
    BY <1>1, <1>2, <1>3, <1>4, <1>5, <1>6, <1>9 DEF Joins, es, p, q

LEMMA AsList ==
  ASSUME NEW T, NEW n \in Nat, NEW f, f = [i \in 1 .. n |-> f[i]], \A i \in 1 .. n : f[i] \in T
  PROVE  f \in Seq(T) /\ Len(f) = n
  <1>1. f \in [1 .. n -> T]
    BY Zenon
  <1>. QED
    BY <1>1

\* new are the claims of the mode m, in the order of chosen.
ListClaimed(m, chosen, new) ==
    /\ Apiece(new) /\ Len(new) = Len(chosen) /\ CoordsOf(new) = CoordsOf(chosen)
    /\ Len(chosen) \in Nat
    /\ \A i \in 1 .. Len(chosen) :
          /\ new[i].coord = chosen[i].coord /\ new[i].by = Role("corridor", m, i)
          /\ new[i].by.role = "corridor" /\ new[i].by.source = m /\ new[i].by.rank = i
          /\ new[i].by \in ByRecord
          /\ i \in 1 .. slots[m] /\ chosen[i].coord \in CoordsOf(reserve[m])
    /\ \A i, j \in 1 .. Len(chosen) : chosen[i].coord = chosen[j].coord => i = j
    /\ ~WidthStarved(m) => Len(chosen) = slots[m]

LEMMA ModeList ==
  ASSUME Provided, ReserveOK, Planned, NEW m \in Modes, NEW chosen, chosen = Capped(reserve[m], slots[m]),
         NEW new, new = [i \in 1 .. Len(chosen) |-> [coord |-> chosen[i].coord, by |-> Role("corridor", m, i)]]
  PROVE  ListClaimed(m, chosen, new)
  <1>1. /\ IsRanked(reserve[m], CandidateRecord) /\ slots[m] \in Nat /\ slots[m] <= Len(reserve[m])
        /\ m \in Nat
    BY SelectionAssumption DEF ReserveOK, Planned
  <1>2. /\ IsRanked(chosen, CandidateRecord) /\ ToSet(chosen) \subseteq ToSet(reserve[m])
        /\ Len(chosen) <= slots[m]
        /\ ~WidthStarved(m) => Len(chosen) = slots[m]
    BY <1>1, CappedList DEF WidthStarved
  <1>3. /\ Len(chosen) \in Nat /\ ToSet(chosen) = {chosen[i] : i \in 1 .. Len(chosen)}
        /\ CoordsOf(chosen) = {e.coord : e \in ToSet(chosen)} /\ CoordsOf(chosen) \subseteq Coord
        /\ CoordsOf(reserve[m]) = {e.coord : e \in ToSet(reserve[m])}
    BY <1>1, <1>2, CandidatesScored, ListFacts
  <1>4. ASSUME NEW i \in 1 .. Len(chosen)
        PROVE  /\ chosen[i].coord \in Coord /\ chosen[i].coord \in CoordsOf(reserve[m])
               /\ i \in Nat /\ i \in 1 .. slots[m]
               /\ Role("corridor", m, i) \in ByRecord
    <2>1. i \in Nat /\ i \in 1 .. slots[m]
      BY <1>1, <1>2, <1>3
    <2>2. chosen[i] \in ToSet(chosen)
      BY <1>3
    <2>. DEFINE e == chosen[i]
    <2>3. e \in ToSet(chosen) /\ e \in ToSet(reserve[m])
      BY <1>2, <2>2
    <2>. HIDE DEF e
    <2>4. e.coord \in CoordsOf(chosen) /\ e.coord \in CoordsOf(reserve[m])
      BY <1>3, <2>3
    <2>5. e.coord \in Coord
      BY <1>3, <2>4
    <2>. QED
      BY <1>1, <2>1, <2>4, <2>5 DEF Role, ByRecord, e
  <1>5. \A i \in 1 .. Len(chosen) : /\ new[i] = [coord |-> chosen[i].coord, by |-> Role("corridor", m, i)]
                                    /\ new[i].coord = chosen[i].coord /\ new[i].by = Role("corridor", m, i)
                                    /\ new[i].by.role = "corridor" /\ new[i].by.source = m
                                    /\ new[i].by.rank = i
    BY DEF Role
  <1>6. new \in Seq(ClaimRecord) /\ Len(new) = Len(chosen)
    <2>1. \A i \in 1 .. Len(chosen) : new[i] \in ClaimRecord
      BY <1>4, <1>5 DEF ClaimRecord
    <2>2. new = [i \in 1 .. Len(chosen) |-> new[i]]
      OBVIOUS
    <2>3. Len(chosen) \in Nat
      BY <1>3
    <2>. QED
      BY <2>1, <2>2, <2>3, AsList
  <1>7. \A i, j \in 1 .. Len(chosen) : chosen[i].coord = chosen[j].coord => i = j
    BY <1>2 DEF IsRanked
  <1>8. Apiece(new)
    BY <1>5, <1>6, <1>7 DEF Apiece
  <1>9. CoordsOf(new) = CoordsOf(chosen)
    BY <1>5, <1>6 DEF CoordsOf
  <1>. QED
    BY <1>2, <1>3, <1>4, <1>5, <1>6, <1>7, <1>8, <1>9 DEF ListClaimed

LEMMA ModeClaimed ==
  ASSUME Provided, ReserveOK, Planned, ClaimsOK, ModesClaimed, ClaimMode, UNCHANGED <<reserve, counts>>
  PROVE  ClaimsOK' /\ ModesClaimed'
  <1>. DEFINE ListOf(m) == Capped(reserve[m], slots[m])
  <1>1. PICK m \in unserved :
            /\ \A k \in unserved : m <= k
            /\ unserved' = unserved \ {m}
            /\ claims' = claims \o [i \in 1 .. Len(ListOf(m)) |->
                                      [coord |-> ListOf(m)[i].coord, by |-> Role("corridor", m, i)]]
            /\ owed' = [c \in DOMAIN owed \cup CoordsOf(ListOf(m)) |->
                          IF c \in CoordsOf(ListOf(m))
                          THEN <<Role("corridor", m, CHOOSE i \in 1 .. Len(ListOf(m)) : ListOf(m)[i].coord = c)>>
                          ELSE owed[c]]
    BY DEF ClaimMode
  <1>2. UNCHANGED <<input, slots, reserve>> /\ Modes' = Modes
    BY DEF ClaimMode, Modes
  <1>3. m \in Modes /\ \A k \in Modes : k \in Nat
    BY <1>1, SelectionAssumption DEF ModesClaimed, ReserveOK
  <1>. DEFINE chosen == ListOf(m)
              new == [i \in 1 .. Len(chosen) |-> [coord |-> chosen[i].coord, by |-> Role("corridor", m, i)]]
              p == Len(claims)
              q == Len(chosen)
  <1>4. /\ Apiece(new) /\ Len(new) = q /\ CoordsOf(new) = CoordsOf(chosen) /\ q \in Nat
        /\ \A i \in 1 .. q : /\ new[i].coord = chosen[i].coord
                             /\ new[i].by = Role("corridor", m, i) /\ new[i].by \in ByRecord
                             /\ new[i].by.role = "corridor" /\ new[i].by.source = m /\ new[i].by.rank = i
                             /\ i \in 1 .. slots[m]
                             /\ chosen[i].coord \in CoordsOf(reserve[m])
        /\ \A i, j \in 1 .. q : chosen[i].coord = chosen[j].coord => i = j
        /\ ~WidthStarved(m) => q = slots[m]
    <2>1. chosen = Capped(reserve[m], slots[m])
      OBVIOUS
    <2>. HIDE DEF chosen
    <2>2. new = [i \in 1 .. Len(chosen) |-> [coord |-> chosen[i].coord, by |-> Role("corridor", m, i)]]
      OBVIOUS
    <2>. HIDE DEF new
    <2>3. ListClaimed(m, chosen, new)
      BY <1>3, <2>1, <2>2, ModeList
    <2>. QED
      BY <2>3 DEF ListClaimed
  <1>5. claims' = claims \o new
    BY <1>1
  <1>6. owed' = [c \in DOMAIN owed \cup CoordsOf(chosen) |->
                   IF c \in CoordsOf(chosen)
                   THEN <<Role("corridor", m, CHOOSE i \in 1 .. q : chosen[i].coord = c)>>
                   ELSE owed[c]]
    BY <1>1
  <1>. HIDE DEF new, chosen
  <1>7. Apiece(claims) /\ ClaimOrder /\ Owing
    BY DEF ClaimsOK
  <1>8. CoordsOf(claims) \cap CoordsOf(chosen) = {}
    <2>1. CoordsOf(claims) = {claims[i].coord : i \in 1 .. p} /\ CoordsOf(chosen) = {chosen[i].coord : i \in 1 .. q}
      BY DEF CoordsOf
    <2>2. ASSUME NEW i \in 1 .. p, NEW j \in 1 .. q, claims[i].coord = chosen[j].coord
          PROVE  FALSE
      <3>1. /\ claims[i].by.source \in Modes \ unserved
            /\ claims[i].coord \in CoordsOf(reserve[claims[i].by.source])
        BY DEF ModesClaimed
      <3>2. claims[i].by.source # m
        BY <1>1, <3>1
      <3>3. chosen[j].coord \in CoordsOf(reserve[m])
        BY <1>4
      <3>. QED
        BY <1>3, <2>2, <3>1, <3>2, <3>3 DEF ReserveOK
    <2>. QED
      BY <2>1, <2>2
  <1>9. /\ Apiece(claims') /\ p \in Nat /\ Len(claims') = p + q
        /\ \A i \in 1 .. p : i \in 1 .. Len(claims') /\ claims'[i] = claims[i]
        /\ \A i \in 1 .. q : p + i \in 1 .. Len(claims') /\ claims'[p + i] = new[i]
        /\ \A j \in 1 .. Len(claims') : j \notin 1 .. p => \E i \in 1 .. q : j = p + i /\ claims'[j] = new[i]
        /\ CoordsOf(claims') = CoordsOf(claims) \cup CoordsOf(chosen)
    <2>1. Joins(claims, new, claims')
      BY <1>4, <1>5, <1>7, <1>8, Joined
    <2>2. Len(new) = q /\ CoordsOf(new) = CoordsOf(chosen)
      BY <1>4
    <2>3. p = Len(claims)
      OBVIOUS
    <2>. HIDE DEF p, q
    <2>4. Apiece(claims') /\ p \in Nat /\ Len(claims') = p + q
      BY <2>1, <2>2, <2>3 DEF Joins
    <2>5. \A i \in 1 .. p : i \in 1 .. Len(claims') /\ claims'[i] = claims[i]
      BY <2>1, <2>3 DEF Joins
    <2>6. \A i \in 1 .. q : p + i \in 1 .. Len(claims') /\ claims'[p + i] = new[i]
      BY <2>1, <2>2, <2>3 DEF Joins
    <2>7. \A j \in 1 .. Len(claims') : j \notin 1 .. p => \E i \in 1 .. q : j = p + i /\ claims'[j] = new[i]
      BY <2>1, <2>2, <2>3 DEF Joins
    <2>8. CoordsOf(claims') = CoordsOf(claims) \cup CoordsOf(chosen)
      BY <2>1, <2>2 DEF Joins
    <2>. QED
      BY <2>4, <2>5, <2>6, <2>7, <2>8
  <1>. HIDE DEF p, q
  <1>10. ASSUME NEW i \in 1 .. Len(claims'), NEW j \in 1 .. Len(claims'), i < j,
                claims'[i].by.role = claims'[j].by.role
         PROVE  \/ claims'[i].by.source < claims'[j].by.source
                \/ claims'[i].by.source = claims'[j].by.source /\ claims'[i].by.rank < claims'[j].by.rank
    <2>1. CASE i \in 1 .. p /\ j \in 1 .. p
      BY <1>7, <1>9, <1>10, <2>1 DEF ClaimOrder, p
    <2>2. CASE i \in 1 .. p /\ j \notin 1 .. p
      <3>1. PICK b \in 1 .. q : j = p + b /\ claims'[j] = new[b]
        BY <1>9, <2>2
      <3>2. claims'[j].by.source = m
        BY <1>4, <3>1
      <3>3. claims'[i].by.source \in Modes \ unserved
        BY <1>9, <2>2 DEF ModesClaimed, p
      <3>. QED
        BY <1>1, <3>2, <3>3 DEF ModesClaimed
    <2>3. CASE i \notin 1 .. p
      <3>1. PICK a \in 1 .. q : i = p + a /\ claims'[i] = new[a]
        BY <1>9, <2>3
      <3>2. j \notin 1 .. p
        BY <1>9, <1>10, <3>1
      <3>3. PICK b \in 1 .. q : j = p + b /\ claims'[j] = new[b]
        BY <1>9, <3>2
      <3>4. a < b
        BY <1>4, <1>9, <1>10, <3>1, <3>3
      <3>5. /\ claims'[i].by.source = m /\ claims'[i].by.rank = a
            /\ claims'[j].by.source = m /\ claims'[j].by.rank = b
        BY <1>4, <3>1, <3>3
      <3>. QED
        BY <3>4, <3>5
    <2>. QED
      BY <2>1, <2>2, <2>3
  <1>11. ClaimOrder'
    BY <1>10 DEF ClaimOrder
  <1>12. Owing'
    <2>1. DOMAIN owed = CoordsOf(claims) /\ \A i \in 1 .. p : claims[i].coord \in DOMAIN owed
      <3>1. DOMAIN owed = CoordsOf(claims)
        BY <1>7 DEF Owing
      <3>. QED
        BY <3>1 DEF CoordsOf, p
    <2>2. owed' = [c \in CoordsOf(claims') |-> owed'[c]]
      BY <1>6, <1>9, <2>1
    <2>3. ASSUME NEW j \in 1 .. Len(claims')
          PROVE  /\ owed'[claims'[j].coord] \in Seq(ByRecord)
                 /\ Canonical(owed'[claims'[j].coord])
                 /\ owed'[claims'[j].coord][1] = claims'[j].by
      <3>1. CASE j \in 1 .. p
        <4>1. claims'[j] = claims[j] /\ claims[j].coord \in CoordsOf(claims)
          BY <1>9, <2>1, <3>1
        <4>2. owed'[claims[j].coord] = owed[claims[j].coord]
          BY <1>6, <1>8, <2>1, <4>1
        <4>. QED
          BY <1>7, <3>1, <4>1, <4>2 DEF Owing, p
      <3>2. CASE j \notin 1 .. p
        <4>1. PICK i \in 1 .. q : claims'[j] = new[i]
          BY <1>9, <3>2
        <4>. DEFINE c == chosen[i].coord
        <4>2. claims'[j].coord = c /\ claims'[j].by = Role("corridor", m, i) /\ Role("corridor", m, i) \in ByRecord
          BY <1>4, <4>1
        <4>3. c \in CoordsOf(chosen)
          BY DEF CoordsOf, q
        <4>4. (CHOOSE k \in 1 .. q : chosen[k].coord = c) = i
          BY <1>4
        <4>. HIDE DEF c
        <4>5. owed'[c] = <<Role("corridor", m, i)>>
          BY <1>6, <4>3, <4>4
        <4>6. owed'[c] \in Seq(ByRecord) /\ owed'[c][1] = Role("corridor", m, i) /\ Len(owed'[c]) = 1
          BY <4>2, <4>5
        <4>7. owed'[c] # <<>> /\ \A k \in 2 .. Len(owed'[c]) : FALSE
          BY <4>5, <4>6
        <4>. QED
          BY <4>2, <4>6, <4>7 DEF Canonical
      <3>. QED
        BY <3>1, <3>2
    <2>. QED
      BY <2>2, <2>3 DEF Owing
  <1>13. ModesClaimed'
    <2>1. unserved' \subseteq Modes' /\ \A k \in Modes' \ unserved', j \in unserved' : k < j
      <3>1. \A j \in unserved \ {m} : m < j
        BY <1>1, <1>3 DEF ModesClaimed
      <3>. QED
        BY <1>1, <1>2, <3>1 DEF ModesClaimed
    <2>2. ASSUME NEW j \in 1 .. Len(claims')
          PROVE  /\ claims'[j].by.role = "corridor"
                 /\ claims'[j].by.source \in Modes \ unserved'
                 /\ claims'[j].by.rank \in 1 .. slots[claims'[j].by.source]
                 /\ claims'[j].coord \in CoordsOf(reserve[claims'[j].by.source])
      <3>1. CASE j \in 1 .. p
        BY <1>1, <1>9, <3>1 DEF ModesClaimed, p
      <3>2. CASE j \notin 1 .. p
        <4>1. PICK i \in 1 .. q : claims'[j] = new[i]
          BY <1>9, <3>2
        <4>2. /\ claims'[j].by.role = "corridor" /\ claims'[j].by.source = m /\ claims'[j].by.rank = i
              /\ claims'[j].coord = chosen[i].coord
          BY <1>4, <4>1
        <4>. QED
          BY <1>1, <1>3, <1>4, <4>2
      <3>. QED
        BY <3>1, <3>2
    <2>3. \A k \in Modes : WidthStarved(k)' <=> WidthStarved(k)
      BY <1>2 DEF WidthStarved, Wide
    <2>4. ASSUME \A k \in Modes : ~WidthStarved(k),
                 NEW k \in Modes \ unserved', NEW i \in 1 .. slots[k]
          PROVE  \E j \in 1 .. Len(claims') : claims'[j].by = Role("corridor", k, i)
      <3>1. CASE k = m
        <4>1. i \in 1 .. q
          BY <1>3, <1>4, <2>4, <3>1
        <4>2. p + i \in 1 .. Len(claims') /\ claims'[p + i] = new[i]
          BY <1>9, <4>1
        <4>3. new[i].by = Role("corridor", k, i)
          BY <1>4, <3>1, <4>1
        <4>. QED
          BY <4>2, <4>3
      <3>2. CASE k # m
        <4>1. PICK j \in 1 .. p : claims[j].by = Role("corridor", k, i)
          BY <1>1, <2>4, <3>2 DEF ModesClaimed, p
        <4>. QED
          BY <1>9, <4>1
      <3>. QED
        BY <3>1, <3>2
    <2>. QED
      BY <1>2, <2>1, <2>2, <2>3, <2>4 DEF ModesClaimed
  <1>. QED
    BY <1>9, <1>11, <1>12, <1>13 DEF ClaimsOK

\* A list of claims is a bijection between its places and what is claimed.
LEMMA ClaimedOnce ==
  ASSUME NEW cs, Apiece(cs)
  PROVE  /\ Len(cs) \in Nat /\ IsFiniteSet(1 .. Len(cs)) /\ Cardinality(1 .. Len(cs)) = Len(cs)
         /\ IsFiniteSet(CoordsOf(cs)) /\ Cardinality(CoordsOf(cs)) = Len(cs)
  <1>1. cs \in Seq(ClaimRecord) /\ Len(cs) \in Nat
    BY DEF Apiece
  <1>2. IsFiniteSet(1 .. Len(cs)) /\ Cardinality(1 .. Len(cs)) = Len(cs)
    <2>1. 1 \in Int /\ Len(cs) \in Int /\ (1 > Len(cs) => Len(cs) = 0) /\ Len(cs) - 1 + 1 = Len(cs)
      BY <1>1
    <2>. QED
      BY <2>1, FS_Interval
  <1>. DEFINE c == [i \in 1 .. Len(cs) |-> cs[i].coord]
  <1>3. c \in Bijection(1 .. Len(cs), CoordsOf(cs))
    <2>1. /\ c \in [1 .. Len(cs) -> CoordsOf(cs)]
          /\ \A x \in CoordsOf(cs) : \E i \in 1 .. Len(cs) : c[i] = x
      BY DEF CoordsOf
    <2>2. \A i, j \in 1 .. Len(cs) : c[i] = c[j] => i = j
      BY DEF Apiece
    <2>. HIDE DEF c
    <2>. QED
      BY <2>1, <2>2 DEF Bijection, Injection, IsInjective, Surjection
  <1>. HIDE DEF c
  <1>. QED
    BY <1>1, <1>2, <1>3, FS_Bijection DEF ExistsBijection

\* If no mode starves, the modes that have been served have all their slots: as many
\* claims as the plan has slots.
LEMMA SlotsClaimed ==
  ASSUME Provided, ReserveOK, Planned, ClaimsOK, ModesClaimed, unserved = {},
         \A m \in Modes : ~WidthStarved(m)
  PROVE  Len(claims) = CorridorBudget
  <1>. DEFINE n == Len(claims)
              f == [i \in 1 .. n |-> <<claims[i].by.source, claims[i].by.rank>>]
  <1>1. Apiece(claims) /\ ClaimOrder
    BY DEF ClaimsOK
  <1>2. n \in Nat /\ IsFiniteSet(1 .. n) /\ Cardinality(1 .. n) = n
    BY <1>1, ClaimedOnce
  <1>3. \A i \in 1 .. n : /\ claims[i].by.role = "corridor"
                          /\ claims[i].by.source \in Modes
                          /\ claims[i].by.rank \in 1 .. slots[claims[i].by.source]
    BY DEF ModesClaimed
  <1>4. \A i \in 1 .. n : f[i] = <<claims[i].by.source, claims[i].by.rank>>
    OBVIOUS
  <1>5. f \in [1 .. n -> Slots(slots)]
    <2>1. \A i \in 1 .. n : <<claims[i].by.source, claims[i].by.rank>> \in Slots(slots)
      BY <1>3, SlotIn
    <2>. QED
      BY <2>1
  <1>6. ASSUME NEW s \in Slots(slots)
        PROVE  \E i \in 1 .. n : f[i] = s
    <2>1. PICK m \in Modes : \E k \in 1 .. slots[m] : s = <<m, k>>
      BY DEF Slots
    <2>2. PICK k \in 1 .. slots[m] : s = <<m, k>>
      BY <2>1
    <2>3. PICK i \in 1 .. n : claims[i].by = Role("corridor", m, k)
      BY DEF ModesClaimed
    <2>4. claims[i].by.source = m /\ claims[i].by.rank = k
      BY <2>3 DEF Role
    <2>. QED
      BY <1>4, <2>2, <2>4
  <1>7. ASSUME NEW i \in 1 .. n, NEW j \in 1 .. n, f[i] = f[j], i # j
        PROVE  FALSE
    <2>1. claims[i].by.source = claims[j].by.source /\ claims[i].by.rank = claims[j].by.rank
      BY <1>4, <1>7
    <2>2. /\ claims[i].by.source \in Nat /\ claims[i].by.rank \in Nat
          /\ claims[j].by.source \in Nat /\ claims[j].by.rank \in Nat
      <3>1. claims \in Seq(ClaimRecord)
        BY <1>1 DEF Apiece
      <3>2. claims[i] \in ClaimRecord /\ claims[j] \in ClaimRecord
        BY <3>1
      <3>. QED
        BY <3>2 DEF ClaimRecord, ByRecord
    <2>3. i < j \/ j < i
      BY <1>2, <1>7
    <2>. QED
      BY <1>1, <1>3, <2>1, <2>2, <2>3 DEF ClaimOrder
  <1>8. f \in Bijection(1 .. n, Slots(slots))
    <2>. HIDE DEF f, n
    <2>. QED
      BY <1>5, <1>6, <1>7 DEF Bijection, Injection, IsInjective, Surjection
  <1>9. Cardinality(Slots(slots)) = n
    <2>. HIDE DEF f, n
    <2>. QED
      BY <1>2, <1>8, FS_Bijection DEF ExistsBijection
  <1>. QED
    BY <1>9 DEF Planned, Total

(***************************************************************************)
(* The claims of the boards.                                               *)
(***************************************************************************)
SupplyOK ==
    /\ Len(supply) \in Nat
    /\ \A i \in 1 .. Len(supply) : supply[i].list \in Seq(Coord) /\ Len(supply[i].list) \in Nat

\* The claims of the modes come before those of the boards.
RolesInOrder ==
    /\ CorridorBudget <= Len(claims) /\ Len(claims) <= input.budget
    /\ \A i \in 1 .. Len(claims) :
          claims[i].by.role = IF i <= CorridorBudget THEN "corridor" ELSE "board"

\* What is on the list of a board up to a rank is claimed, or too wide.
Reached(i, n) == \A k \in 1 .. n : supply[i].list[k] \in CoordsOf(claims) \/ Wide(supply[i].list[k])

Exhausted(i) == Short => Reached(i, Len(supply[i].list))

TurnRecord == [at : Nat, rank : Nat \ {0}, target : Nat, seats : Nat, wide : Nat, skipped : Seq(Nat)]

\* A board has as many seats to fill as the budget has left, and has come to its rank.
TurnOK ==
    /\ turn \in TurnRecord /\ turn.at <= Len(supply)
    /\ turn.at = 0 => turn = NoTurn
    /\ turn.at > 0 => /\ turn.target - turn.seats = input.budget - Len(claims)
                      /\ turn.rank <= Len(BoardAt.list) + 1
                      /\ Reached(turn.at, turn.rank - 1)
    /\ \A i \in 1 .. Len(supply) : i < turn.at => Exhausted(i)

LineageRecord == [board : Nat, skipped : Nat, by : Nat]

\* Nothing is noted of what the board has not come to, nor of what it may yet replace.
LineageOK ==
    /\ lineage \subseteq LineageRecord
    /\ LineageIsSound
    /\ \A l \in lineage :
          /\ l.board <= turn.at
          /\ l.board = turn.at => /\ l.skipped < turn.rank /\ l.by < turn.rank
                                  /\ l.skipped \notin ToSet(turn.skipped)
    /\ \A k \in ToSet(turn.skipped) : k < turn.rank
    /\ \A i, j \in 1 .. Len(turn.skipped) : i # j => turn.skipped[i] # turn.skipped[j]
    /\ \A i \in 1 .. Len(claims) : claims[i].by.role = "board" =>
          /\ claims[i].by.source <= turn.at
          /\ claims[i].by.source = turn.at => claims[i].by.rank < turn.rank

\* What the claims of the modes leave behind.
LEMMA BoardsBegin ==
  ASSUME Provided, ReserveOK, SupplyOK, Planned, ClaimsOK, ModesClaimed, turn = NoTurn, lineage = {},
         Len(claims) = CorridorBudget
  PROVE  RolesInOrder /\ TurnOK /\ LineageOK
  <1>1. /\ CorridorBudget \in Nat /\ input.budget \in Nat /\ CorridorBudget <= input.budget
    BY BudgetFacts
  <1>2. \A i \in 1 .. Len(claims) : claims[i].by.role = "corridor"
    BY DEF ModesClaimed
  <1>3. RolesInOrder
    BY <1>1, <1>2 DEF RolesInOrder
  <1>4. /\ turn.at = 0 /\ turn.rank = 1 /\ turn.skipped = <<>> /\ turn \in TurnRecord
    BY DEF NoTurn, TurnRecord
  <1>5. TurnOK
    BY <1>4 DEF TurnOK, SupplyOK
  <1>6. LineageOK
    <2>1. ToSet(turn.skipped) = {} /\ Len(turn.skipped) = 0
      BY <1>4 DEF ToSet
    <2>2. LineageIsSound
      BY DEF LineageIsSound
    <2>3. "corridor" # "board"
      OBVIOUS
    <2>. QED
      BY <1>2, <2>1, <2>2, <2>3 DEF LineageOK
  <1>. QED
    BY <1>3, <1>5, <1>6

\* How many claims the modes and the boards have.
LEMMA RolesCounted ==
  ASSUME Provided, ReserveOK, ClaimsOK, RolesInOrder
  PROVE  ClaimsOf("corridor") = CorridorBudget /\ ClaimsOf("board") = Len(claims) - CorridorBudget
  <1>. DEFINE n == Len(claims)
              b == CorridorBudget
  <1>1. n \in Nat /\ b \in Nat /\ b <= n
    BY BudgetFacts DEF ClaimsOK, Apiece, RolesInOrder
  <1>2. \A i \in 1 .. n : claims[i].by.role = IF i <= b THEN "corridor" ELSE "board"
    BY DEF RolesInOrder
  <1>3. ClaimsOf("corridor") = Cardinality({i \in 1 .. n : claims[i].by.role = "corridor"})
    BY DEF ClaimsOf
  <1>4. ClaimsOf("board") = Cardinality({i \in 1 .. n : claims[i].by.role = "board"})
    BY DEF ClaimsOf
  <1>. HIDE DEF n, b
  <1>5. {i \in 1 .. n : claims[i].by.role = "corridor"} = 1 .. b
    BY <1>1, <1>2
  <1>6. {i \in 1 .. n : claims[i].by.role = "board"} = (b + 1) .. n
    BY <1>1, <1>2
  <1>7. Cardinality(1 .. b) = b
    <2>1. 1 \in Int /\ b \in Int /\ (1 > b => b = 0) /\ b - 1 + 1 = b
      BY <1>1
    <2>. QED
      BY <2>1, FS_Interval
  <1>8. Cardinality((b + 1) .. n) = n - b
    <2>1. b + 1 \in Int /\ n \in Int /\ (b + 1 > n => n - b = 0) /\ n - (b + 1) + 1 = n - b
      BY <1>1
    <2>. QED
      BY <2>1, FS_Interval
  <1>. QED
    BY <1>3, <1>4, <1>5, <1>6, <1>7, <1>8 DEF n, b

(***************************************************************************)
(* One turn of a board.                                                    *)
(***************************************************************************)
\* What the budget of the corridors and the plan are made of.
LEMMA SameBudget ==
  ASSUME UNCHANGED <<input, reserve, counts>>
  PROVE  /\ Modes' = Modes /\ (ReserveOK' <=> ReserveOK)
         /\ CorridorBudget' = CorridorBudget /\ GlobalBudget' = GlobalBudget
         /\ \A m : ModeCapacity(m)' = ModeCapacity(m)
         /\ (Covered' = Covered) /\ (Total(Capacities)' = Total(Capacities))
         /\ \A n : FirstModes(n)' = FirstModes(n)
  <1>1. Modes' = Modes /\ \A m : ModeCapacity(m)' = ModeCapacity(m)
    BY DEF Modes, ModeCapacity
  <1>2. ReserveOK' <=> ReserveOK
    BY <1>1 DEF ReserveOK
  <1>3. Capacities' = Capacities
    BY <1>1 DEF Capacities
  <1>4. Total(Capacities)' = Total(Capacities)
    BY <1>1, <1>3 DEF Total, Slots
  <1>5. CorridorBudget' = CorridorBudget /\ GlobalBudget' = GlobalBudget
    BY <1>4 DEF CorridorBudget, CorridorCeiling, GlobalBudget
  <1>6. Covered' = Covered
    BY <1>1 DEF Covered
  <1>7. \A m, k : Ahead(m, k)' <=> Ahead(m, k)
    BY DEF Ahead
  <1>8. \A n : FirstModes(n)' = FirstModes(n)
    BY <1>6, <1>7 DEF FirstModes
  <1>. QED
    BY <1>1, <1>2, <1>4, <1>5, <1>6, <1>8

LEMMA SamePlan ==
  ASSUME UNCHANGED <<input, reserve, counts, slots>>
  PROVE  /\ (Planned' <=> Planned) /\ (BreadthFirst' <=> BreadthFirst)
         /\ \A m : WidthStarved(m)' <=> WidthStarved(m)
         /\ Total(slots)' = Total(slots)
  <1>1. /\ Modes' = Modes /\ CorridorBudget' = CorridorBudget
        /\ \A m : ModeCapacity(m)' = ModeCapacity(m)
    BY SameBudget
  <1>2. Total(slots)' = Total(slots)
    BY <1>1 DEF Total, Slots
  <1>3. BreadthFirst' <=> BreadthFirst
    BY <1>1 DEF BreadthFirst
  <1>4. Planned' <=> Planned
    BY <1>1, <1>2, <1>3 DEF Planned
  <1>5. \A m : WidthStarved(m)' <=> WidthStarved(m)
    BY DEF WidthStarved, Wide
  <1>. QED
    BY <1>2, <1>3, <1>4, <1>5

LEMMA SameSupply ==
  ASSUME UNCHANGED supply
  PROVE  SupplyOK' <=> SupplyOK
  BY DEF SupplyOK

\* One claim more.
Added(cs, x, ds) ==
    /\ Apiece(ds) /\ Len(cs) \in Nat /\ Len(ds) = Len(cs) + 1
    /\ \A i \in 1 .. Len(cs) : i \in 1 .. Len(ds) /\ ds[i] = cs[i]
    /\ ds[Len(ds)] = x /\ Len(ds) \in 1 .. Len(ds)
    /\ \A i \in 1 .. Len(ds) : i \in 1 .. Len(cs) \/ i = Len(ds)
    /\ CoordsOf(ds) = CoordsOf(cs) \cup {x.coord}

LEMMA ClaimAdded ==
  ASSUME NEW cs, Apiece(cs), NEW x \in ClaimRecord, x.coord \notin CoordsOf(cs)
  PROVE  Added(cs, x, Append(cs, x))
  <1>. DEFINE ds == Append(cs, x)
              n == Len(cs)
  <1>1. cs \in Seq(ClaimRecord) /\ n \in Nat
    BY DEF Apiece
  <1>2. ds \in Seq(ClaimRecord) /\ Len(ds) = n + 1 /\ ds[n + 1] = x /\ \A i \in 1 .. n : ds[i] = cs[i]
    BY <1>1
  <1>. HIDE DEF ds
  <1>3. \A i \in 1 .. n : cs[i].coord # x.coord
    BY DEF CoordsOf
  <1>4. CoordsOf(cs) = {cs[i].coord : i \in 1 .. n} /\ CoordsOf(ds) = {ds[i].coord : i \in 1 .. Len(ds)}
    BY DEF CoordsOf
  <1>5. \A i, j \in 1 .. n : i # j => cs[i].coord # cs[j].coord
    BY DEF Apiece
  <1>. HIDE DEF n
  <1>6. /\ \A i \in 1 .. Len(ds) : i \in 1 .. n \/ i = n + 1
        /\ n + 1 \in 1 .. Len(ds)
        /\ \A i \in 1 .. n : i \in 1 .. Len(ds)
    BY <1>1, <1>2
  <1>7. CoordsOf(ds) = CoordsOf(cs) \cup {x.coord}
    BY <1>2, <1>4, <1>6
  <1>8. Apiece(ds)
    BY <1>2, <1>3, <1>5, <1>6 DEF Apiece
  <1>. QED
    BY <1>1, <1>2, <1>6, <1>7, <1>8 DEF Added, ds, n

\* The turn of a board and what it looks at.
LEMMA TurnFacts ==
  ASSUME Provided, ReserveOK, SupplyOK, ClaimsOK, RolesInOrder, TurnOK, Looking
  PROVE  /\ turn.at \in 1 .. Len(supply) /\ turn.rank \in 1 .. Len(BoardAt.list)
         /\ turn.rank \in Nat /\ turn.at \in Nat /\ turn.at > 0
         /\ BoardAt.list \in Seq(Coord) /\ Candidate \in Coord /\ Candidate = supply[turn.at].list[turn.rank]
         /\ Len(claims) \in Nat /\ input.budget \in Nat /\ Len(claims) < input.budget
  <1>1. turn \in TurnRecord /\ turn.at <= Len(supply) /\ turn.at > 0 /\ Len(supply) \in Nat
    BY DEF TurnOK, Looking, SupplyOK
  <1>2. turn.at \in 1 .. Len(supply) /\ turn.at \in Nat /\ turn.rank \in Nat \ {0}
    BY <1>1 DEF TurnRecord
  <1>3. BoardAt = supply[turn.at] /\ BoardAt.list \in Seq(Coord) /\ Len(BoardAt.list) \in Nat
    BY <1>2 DEF SupplyOK, BoardAt
  <1>4. turn.rank \in 1 .. Len(BoardAt.list)
    BY <1>2, <1>3 DEF Looking
  <1>5. Candidate \in Coord /\ Candidate = supply[turn.at].list[turn.rank]
    BY <1>3, <1>4 DEF Candidate
  <1>6. Len(claims) \in Nat /\ input.budget \in Nat
    BY BudgetFacts DEF ClaimsOK, Apiece
  <1>7. Len(claims) < input.budget
    BY <1>1, <1>6 DEF Looking, TurnOK, TurnRecord
  <1>. QED
    BY <1>1, <1>2, <1>3, <1>4, <1>5, <1>6, <1>7

\* The next rank has been looked at.
LEMMA OneRankMore ==
  ASSUME Provided, ReserveOK, SupplyOK, ClaimsOK, RolesInOrder, TurnOK, Looking,
         UNCHANGED <<input, supply>>, CoordsOf(claims) \subseteq CoordsOf(claims'),
         Candidate \in CoordsOf(claims') \/ Wide(Candidate),
         turn'.at = turn.at, turn'.rank = turn.rank + 1,
         Len(claims') \in Nat, Len(claims') >= Len(claims)
  PROVE  /\ turn'.rank <= Len(BoardAt'.list) + 1
         /\ Reached(turn.at, turn.rank - 1)'
         /\ \A i \in 1 .. Len(supply) : i < turn.at => Exhausted(i)'
  <1>1. /\ turn.at \in 1 .. Len(supply) /\ turn.rank \in 1 .. Len(BoardAt.list) /\ turn.rank \in Nat
        /\ Candidate = supply[turn.at].list[turn.rank] /\ Len(BoardAt.list) \in Nat
        /\ Len(claims) \in Nat /\ input.budget \in Nat
    BY TurnFacts
  <1>2. BoardAt' = BoardAt
    BY DEF BoardAt
  <1>3. Reached(turn.at, turn.rank - 1)
    BY <1>1 DEF TurnOK
  <1>4. ASSUME NEW k \in 1 .. turn.rank
        PROVE  supply[turn.at].list[k] \in CoordsOf(claims') \/ Wide(supply[turn.at].list[k])
    <2>1. CASE k = turn.rank
      BY <1>1, <2>1
    <2>2. CASE k # turn.rank
      <3>1. k \in 1 .. turn.rank - 1
        BY <1>1, <2>2
      <3>. QED
        BY <1>3, <3>1 DEF Reached
    <2>. QED
      BY <2>1, <2>2
  <1>5. Reached(turn.at, turn.rank - 1)'
    <2>1. turn'.rank - 1 = turn.rank
      BY <1>1
    <2>. QED
      BY <1>4, <2>1 DEF Reached, Wide
  <1>6. ASSUME NEW i \in 1 .. Len(supply), i < turn.at
        PROVE  Exhausted(i)'
    <2>1. Exhausted(i)
      BY <1>6 DEF TurnOK
    <2>2. Short' => Short
      BY <1>1 DEF Short
    <2>3. Reached(i, Len(supply[i].list)) => Reached(i, Len(supply[i].list))'
      BY DEF Reached, Wide
    <2>. QED
      BY <2>1, <2>2, <2>3 DEF Exhausted
  <1>. QED
    BY <1>1, <1>2, <1>5, <1>6

BoardsOK ==
    /\ ReserveOK /\ SupplyOK /\ Planned /\ ClaimsOK
    /\ RolesInOrder /\ TurnOK /\ LineageOK

LEMMA LineageSame ==
  ASSUME UNCHANGED <<claims, lineage>>
  PROVE  LineageIsSound' <=> LineageIsSound
  BY DEF LineageIsSound

LEMMA ClaimsSame ==
  ASSUME UNCHANGED claims
  PROVE  (ClaimOrder' <=> ClaimOrder) /\ CoordsOf(claims') = CoordsOf(claims) /\ Len(claims') = Len(claims)
  BY DEF ClaimOrder, CoordsOf

\* A rank is skipped: the lineage will have it, or a claim that takes its place.
LEMMA RankSkipped ==
  ASSUME Provided, BoardsOK, Looking, UNCHANGED <<claims, lineage>>,
         turn' = [turn EXCEPT !.rank = @ + 1, !.skipped = Append(@, turn.rank)]
  PROVE  /\ LineageOK' /\ turn' \in TurnRecord
         /\ turn'.at = turn.at /\ turn'.rank = turn.rank + 1
         /\ turn'.target = turn.target /\ turn'.seats = turn.seats
  <1>1. turn \in TurnRecord /\ LineageOK
    BY DEF BoardsOK, TurnOK
  <1>. DEFINE s == turn.skipped
              r == turn.rank
              t == Append(s, r)
  <1>2. s \in Seq(Nat) /\ r \in Nat /\ r > 0 /\ Len(s) \in Nat
    BY <1>1 DEF TurnRecord
  <1>3. t \in Seq(Nat) /\ Len(t) = Len(s) + 1 /\ t[Len(s) + 1] = r /\ \A i \in 1 .. Len(s) : t[i] = s[i]
    BY <1>2
  <1>4. /\ turn'.at = turn.at /\ turn'.rank = r + 1 /\ turn'.skipped = t
        /\ turn'.target = turn.target /\ turn'.seats = turn.seats
        /\ turn' \in TurnRecord
    <2>1. turn' = [at |-> turn.at, rank |-> turn.rank + 1, target |-> turn.target, seats |-> turn.seats,
                   wide |-> turn.wide, skipped |-> Append(turn.skipped, turn.rank)]
      BY <1>1 DEF TurnRecord
    <2>2. /\ turn'.at = turn.at /\ turn'.rank = turn.rank + 1
          /\ turn'.target = turn.target /\ turn'.seats = turn.seats
          /\ turn'.skipped = Append(turn.skipped, turn.rank)
      BY <2>1, Zenon
    <2>3. /\ turn.at \in Nat /\ turn.target \in Nat /\ turn.seats \in Nat /\ turn.wide \in Nat
          /\ turn.rank + 1 \in Nat \ {0} /\ Append(turn.skipped, turn.rank) \in Seq(Nat)
      BY <1>1, <1>2, <1>3 DEF TurnRecord
    <2>4. turn' \in TurnRecord
      BY <2>1, <2>3, Zenon DEF TurnRecord
    <2>. QED
      BY <2>2, <2>4
  <1>. HIDE DEF t
  <1>5. ToSet(s) = {s[i] : i \in 1 .. Len(s)} /\ ToSet(t) = {t[i] : i \in 1 .. Len(t)}
    <2>1. DOMAIN s = 1 .. Len(s) /\ DOMAIN t = 1 .. Len(t)
      BY <1>2, <1>3
    <2>. HIDE DEF s
    <2>. QED
      BY <2>1 DEF ToSet
  <1>6. \A k \in ToSet(s) : k < r /\ k \in Nat
    <2>1. \A k \in ToSet(s) : k < r
      BY <1>1 DEF LineageOK
    <2>2. \A k \in ToSet(s) : k \in Nat
      BY <1>2, <1>5
    <2>. QED
      BY <2>1, <2>2
  <1>. HIDE DEF s, r
  <1>7. ToSet(t) = ToSet(s) \cup {r}
    <2>1. \A i \in 1 .. Len(t) : i \in 1 .. Len(s) \/ i = Len(s) + 1
      BY <1>2, <1>3
    <2>2. Len(s) + 1 \in 1 .. Len(t) /\ \A i \in 1 .. Len(s) : i \in 1 .. Len(t)
      BY <1>2, <1>3
    <2>. QED
      BY <1>3, <1>5, <2>1, <2>2
  <1>8. \A i, j \in 1 .. Len(t) : i # j => t[i] # t[j]
    <2>1. \A i, j \in 1 .. Len(s) : i # j => s[i] # s[j]
      BY <1>1 DEF LineageOK, s
    <2>2. \A i \in 1 .. Len(s) : s[i] # r
      BY <1>2, <1>5, <1>6
    <2>3. \A i \in 1 .. Len(t) : i \in 1 .. Len(s) \/ i = Len(s) + 1
      BY <1>2, <1>3
    <2>. QED
      BY <1>2, <1>3, <2>1, <2>2, <2>3
  <1>9. \A l \in lineage : /\ l.board <= turn.at
                           /\ l.board = turn.at => /\ l.skipped < r + 1 /\ l.by < r + 1
                                                   /\ l.skipped \notin ToSet(t)
    <2>1. \A l \in lineage : /\ l \in LineageRecord /\ l.board <= turn.at
                             /\ l.board = turn.at => /\ l.skipped < r /\ l.by < r
                                                     /\ l.skipped \notin ToSet(s)
      BY <1>1 DEF LineageOK, r, s
    <2>. QED
      BY <1>2, <1>7, <2>1 DEF LineageRecord
  <1>10. \A i \in 1 .. Len(claims) : claims[i].by.role = "board" =>
             /\ claims[i].by.source <= turn.at
             /\ claims[i].by.source = turn.at => claims[i].by.rank < r + 1
    <2>1. \A i \in 1 .. Len(claims) : claims[i].by.role = "board" =>
             /\ claims[i].by.source <= turn.at
             /\ claims[i].by.source = turn.at => claims[i].by.rank < r
      BY <1>1 DEF LineageOK, r
    <2>2. \A i \in 1 .. Len(claims) : claims[i].by.rank \in Nat
      <3>1. claims \in Seq(ClaimRecord)
        BY DEF BoardsOK, ClaimsOK, Apiece
      <3>2. \A i \in 1 .. Len(claims) : claims[i] \in ClaimRecord
        BY <3>1
      <3>. QED
        BY <3>2 DEF ClaimRecord, ByRecord
    <2>. QED
      BY <1>2, <2>1, <2>2
  <1>11. \A k \in ToSet(t) : k < r + 1
    BY <1>2, <1>6, <1>7
  <1>12. LineageIsSound' /\ lineage' \subseteq LineageRecord
    BY <1>1, LineageSame DEF LineageOK
  <1>. QED
    BY <1>4, <1>8, <1>9, <1>10, <1>11, <1>12 DEF LineageOK, r, s, t

LEMMA PassOverKeeps ==
  ASSUME Provided, BoardsOK, PassOver, UNCHANGED <<reserve, counts>>
  PROVE  BoardsOK'
  <1>1. /\ Looking /\ Wide(Candidate)
        /\ turn' = [turn EXCEPT !.rank = @ + 1, !.skipped = Append(@, turn.rank)]
        /\ UNCHANGED <<input, supply, slots, claims, owed, lineage, reserve, counts>>
    BY DEF PassOver
  <1>2. /\ LineageOK' /\ turn' \in TurnRecord
        /\ turn'.at = turn.at /\ turn'.rank = turn.rank + 1
        /\ turn'.target = turn.target /\ turn'.seats = turn.seats
    BY <1>1, RankSkipped
  <1>3. (ClaimOrder' <=> ClaimOrder) /\ CoordsOf(claims') = CoordsOf(claims) /\ Len(claims') = Len(claims)
    BY <1>1, ClaimsSame
  <1>4. Owing' <=> Owing
    BY <1>1, <1>3 DEF Owing, Canonical
  <1>5. ClaimsOK'
    BY <1>1, <1>3, <1>4 DEF BoardsOK, ClaimsOK, Apiece
  <1>6. ReserveOK' /\ Planned' /\ SupplyOK' /\ CorridorBudget' = CorridorBudget
    BY <1>1, SameBudget, SamePlan, SameSupply DEF BoardsOK
  <1>7. RolesInOrder'
    BY <1>1, <1>6 DEF RolesInOrder, BoardsOK
  <1>8. /\ turn.at \in 1 .. Len(supply) /\ turn.at \in Nat /\ turn.at > 0 /\ Len(claims) \in Nat
    BY <1>1, TurnFacts DEF BoardsOK
  <1>9. /\ turn'.rank <= Len(BoardAt'.list) + 1
        /\ Reached(turn.at, turn.rank - 1)'
        /\ \A i \in 1 .. Len(supply) : i < turn.at => Exhausted(i)'
    <2>1. CoordsOf(claims) \subseteq CoordsOf(claims') /\ Len(claims') \in Nat /\ Len(claims') >= Len(claims)
      BY <1>3, <1>8
    <2>. QED
      BY <1>1, <1>2, <2>1, OneRankMore DEF BoardsOK
  <1>10. TurnOK'
    BY <1>1, <1>2, <1>8, <1>9 DEF TurnOK, BoardsOK
  <1>. QED
    BY <1>2, <1>5, <1>6, <1>7, <1>10 DEF BoardsOK

LEMMA CollideKeeps ==
  ASSUME Provided, BoardsOK, Collide, UNCHANGED <<reserve, counts>>
  PROVE  BoardsOK'
  <1>. DEFINE c == Candidate
              by == Role("board", turn.at, turn.rank)
  <1>1. /\ Looking /\ c \in DOMAIN owed
        /\ owed' = [owed EXCEPT ![c] = Append(@, by)]
        /\ turn' = [turn EXCEPT !.rank = @ + 1, !.skipped = Append(@, turn.rank)]
        /\ UNCHANGED <<input, supply, slots, claims, lineage, reserve, counts>>
    BY DEF Collide
  <1>2. /\ LineageOK' /\ turn' \in TurnRecord
        /\ turn'.at = turn.at /\ turn'.rank = turn.rank + 1
        /\ turn'.target = turn.target /\ turn'.seats = turn.seats
    BY <1>1, RankSkipped
  <1>3. (ClaimOrder' <=> ClaimOrder) /\ CoordsOf(claims') = CoordsOf(claims) /\ Len(claims') = Len(claims)
    BY <1>1, ClaimsSame
  <1>8. /\ turn.at \in 1 .. Len(supply) /\ turn.at \in Nat /\ turn.at > 0 /\ Len(claims) \in Nat
        /\ turn.rank \in Nat
    BY <1>1, TurnFacts DEF BoardsOK
  <1>11. DOMAIN owed = CoordsOf(claims) /\ owed = [x \in CoordsOf(claims) |-> owed[x]]
    BY DEF BoardsOK, ClaimsOK, Owing
  <1>12. by \in ByRecord /\ by.role = "board"
    BY <1>8 DEF Role, ByRecord
  <1>. HIDE DEF by, c
  <1>4. Owing'
    <2>1. owed' = [x \in CoordsOf(claims') |-> owed'[x]]
      BY <1>1, <1>3, <1>11
    <2>2. ASSUME NEW i \in 1 .. Len(claims)
          PROVE  LET o == owed'[claims[i].coord]
                 IN  o \in Seq(ByRecord) /\ Canonical(o) /\ o[1] = claims[i].by
      <3>. DEFINE x == claims[i].coord
                  o == owed[x]
      <3>1. o \in Seq(ByRecord) /\ Canonical(o) /\ o[1] = claims[i].by
        BY DEF BoardsOK, ClaimsOK, Owing
      <3>2. x \in DOMAIN owed
        BY <1>11 DEF CoordsOf
      <3>3. owed'[x] = IF x = c THEN Append(o, by) ELSE o
        BY <1>1, <3>2
      <3>. HIDE DEF x, o
      <3>4. Append(o, by) \in Seq(ByRecord) /\ Canonical(Append(o, by)) /\ Append(o, by)[1] = claims[i].by
        <4>1. Len(o) \in Nat /\ Len(o) > 0 /\ \A k \in 2 .. Len(o) : o[k].role = "board"
          BY <3>1 DEF Canonical
        <4>. DEFINE p == Append(o, by)
        <4>2. p \in Seq(ByRecord) /\ Len(p) = Len(o) + 1 /\ p[Len(o) + 1] = by /\ \A k \in 1 .. Len(o) : p[k] = o[k]
          BY <1>12, <3>1
        <4>. HIDE DEF p
        <4>3. p # <<>> /\ p[1] = o[1]
          BY <4>1, <4>2
        <4>4. \A k \in 2 .. Len(p) : k \in 2 .. Len(o) \/ k = Len(o) + 1
          BY <4>1, <4>2
        <4>5. \A k \in 2 .. Len(o) : k \in 1 .. Len(o)
          BY <4>1
        <4>6. \A k \in 2 .. Len(p) : p[k].role = "board"
          BY <1>12, <4>1, <4>2, <4>4, <4>5
        <4>. QED
          BY <3>1, <4>2, <4>3, <4>6 DEF Canonical, p
      <3>. QED
        BY <3>1, <3>3, <3>4 DEF x
    <2>. QED
      BY <1>1, <2>1, <2>2 DEF Owing
  <1>5. ClaimsOK'
    BY <1>1, <1>3, <1>4 DEF BoardsOK, ClaimsOK, Apiece
  <1>6. ReserveOK' /\ Planned' /\ SupplyOK' /\ CorridorBudget' = CorridorBudget
    BY <1>1, SameBudget, SamePlan, SameSupply DEF BoardsOK
  <1>7. RolesInOrder'
    BY <1>1, <1>6 DEF RolesInOrder, BoardsOK
  <1>9. /\ turn'.rank <= Len(BoardAt'.list) + 1
        /\ Reached(turn.at, turn.rank - 1)'
        /\ \A i \in 1 .. Len(supply) : i < turn.at => Exhausted(i)'
    <2>1. /\ CoordsOf(claims) \subseteq CoordsOf(claims') /\ Len(claims') \in Nat /\ Len(claims') >= Len(claims)
          /\ Candidate \in CoordsOf(claims')
      BY <1>1, <1>3, <1>8, <1>11 DEF c
    <2>. QED
      BY <1>1, <1>2, <2>1, OneRankMore DEF BoardsOK
  <1>10. TurnOK'
    BY <1>1, <1>2, <1>8, <1>9 DEF TurnOK, BoardsOK
  <1>. QED
    BY <1>2, <1>5, <1>6, <1>7, <1>10 DEF BoardsOK

\* What a board has skipped, without the oldest.
Younger(s) == IF s = <<>> THEN s ELSE Tail(s)

LEMMA OldestGone ==
  ASSUME NEW s \in Seq(Nat), \A i, j \in 1 .. Len(s) : i # j => s[i] # s[j]
  PROVE  /\ Younger(s) \in Seq(Nat)
         /\ ToSet(Younger(s)) \subseteq ToSet(s) /\ ToSet(s) \subseteq Nat
         /\ \A i, j \in 1 .. Len(Younger(s)) : i # j => Younger(s)[i] # Younger(s)[j]
         /\ s # <<>> => s[1] \in ToSet(s) /\ s[1] \notin ToSet(Younger(s))
  <1>. DEFINE t == Younger(s)
  <1>1. ToSet(s) = {s[i] : i \in 1 .. Len(s)} /\ Len(s) \in Nat /\ \A i \in 1 .. Len(s) : s[i] \in Nat
    BY DEF ToSet
  <1>2. CASE s = <<>>
    BY <1>1, <1>2 DEF Younger
  <1>3. CASE s # <<>>
    <2>1. Len(s) > 0
      BY <1>1, <1>3
    <2>2. t \in Seq(Nat) /\ Len(t) = Len(s) - 1 /\ \A i \in 1 .. Len(t) : t[i] = s[i + 1]
      BY <1>1, <1>3, <2>1 DEF Younger
    <2>. HIDE DEF t
    <2>3. ToSet(t) = {t[i] : i \in 1 .. Len(t)}
      <3>1. DOMAIN t = 1 .. Len(t)
        BY <2>2
      <3>. QED
        BY <3>1 DEF ToSet
    <2>4. /\ \A i \in 1 .. Len(t) : i + 1 \in 1 .. Len(s) /\ i + 1 # 1
          /\ \A i, j \in 1 .. Len(t) : i # j => i + 1 # j + 1
          /\ 1 \in 1 .. Len(s)
      BY <1>1, <2>1, <2>2
    <2>5. ToSet(t) \subseteq ToSet(s) /\ ToSet(s) \subseteq Nat
      BY <1>1, <2>2, <2>3, <2>4
    <2>6. \A i, j \in 1 .. Len(t) : i # j => t[i] # t[j]
      BY <2>2, <2>4
    <2>7. s[1] \in ToSet(s) /\ s[1] \notin ToSet(t)
      BY <1>1, <2>2, <2>3, <2>4
    <2>. QED
      BY <2>2, <2>5, <2>6, <2>7 DEF t
  <1>. QED
    BY <1>2, <1>3

\* A claim takes the place of the oldest rank that was skipped.
LEMMA ClaimLineage ==
  ASSUME Provided, BoardsOK, Looking,
         NEW x, x = [coord |-> Candidate, by |-> Role("board", turn.at, turn.rank)],
         Added(claims, x, claims'),
         lineage' = IF turn.skipped = <<>> THEN lineage
                    ELSE lineage \cup {[board |-> turn.at, skipped |-> turn.skipped[1], by |-> turn.rank]},
         turn'.at = turn.at, turn'.rank = turn.rank + 1, turn'.skipped = Younger(turn.skipped)
  PROVE  LineageOK'
  <1>1. turn \in TurnRecord /\ LineageOK
    BY DEF BoardsOK, TurnOK
  <1>. DEFINE s == turn.skipped
              t == turn'.skipped
              r == turn.rank
              b == turn.at
              new == [board |-> b, skipped |-> s[1], by |-> r]
              n == Len(claims)
              p == Len(claims')
  <1>2. s \in Seq(Nat) /\ r \in Nat /\ r > 0 /\ Len(s) \in Nat /\ b \in Nat
    BY <1>1 DEF TurnRecord
  <1>3. \A i, j \in 1 .. Len(s) : i # j => s[i] # s[j]
    BY <1>1 DEF LineageOK
  <1>4. /\ ToSet(t) \subseteq ToSet(s) /\ ToSet(s) \subseteq Nat
        /\ \A i, j \in 1 .. Len(t) : i # j => t[i] # t[j]
        /\ s # <<>> => s[1] \in ToSet(s) /\ s[1] \notin ToSet(t)
    <2>. HIDE DEF s
    <2>1. t = Younger(s)
      BY DEF s
    <2>. QED
      BY <1>2, <1>3, <2>1, OldestGone
  <1>5. \A k \in ToSet(s) : k < r
    BY <1>1 DEF LineageOK
  <1>6. \A l \in lineage : /\ l.board \in Nat /\ l.skipped \in Nat /\ l.by \in Nat /\ l \in LineageRecord
                           /\ l.board <= b
                           /\ l.board = b => l.skipped < r /\ l.by < r /\ l.skipped \notin ToSet(s)
    BY <1>1 DEF LineageOK, LineageRecord
  <1>7. LineageIsSound
    BY <1>1 DEF LineageOK
  <1>8. /\ n \in Nat /\ p = n + 1 /\ p \in 1 .. p
        /\ \A i \in 1 .. n : i \in 1 .. p /\ claims'[i] = claims[i]
        /\ claims'[p] = x /\ \A i \in 1 .. p : i \in 1 .. n \/ i = p
    BY DEF Added
  <1>9. x.by = Role("board", b, r) /\ x.by.role = "board" /\ x.by.source = b /\ x.by.rank = r
    BY DEF Role
  <1>10. lineage' = IF s = <<>> THEN lineage ELSE lineage \cup {new}
    OBVIOUS
  <1>11. new.board = b /\ new.skipped = s[1] /\ new.by = r
    OBVIOUS
  <1>12. s # <<>> => new \in LineageRecord
    BY <1>2, <1>4, <1>11 DEF LineageRecord
  <1>13. \A i \in 1 .. n : claims[i].by.rank \in Nat
    <2>1. claims \in Seq(ClaimRecord)
      BY DEF BoardsOK, ClaimsOK, Apiece
    <2>2. \A i \in 1 .. Len(claims) : claims[i] \in ClaimRecord
      BY <2>1
    <2>. QED
      BY <2>2 DEF ClaimRecord, ByRecord
  <1>14. \A i \in 1 .. n : claims[i].by.role = "board" =>
             claims[i].by.source <= b /\ (claims[i].by.source = b => claims[i].by.rank < r)
    BY <1>1 DEF LineageOK
  <1>15. turn'.at = b /\ turn'.rank = r + 1
    OBVIOUS
  <1>. HIDE DEF s, t, r, b, new, n, p
  <1>16. LineageIsSound'
    <2>1. ASSUME NEW l \in lineage', NEW k \in lineage', l.board = k.board, l # k
          PROVE  l.skipped # k.skipped /\ (l.by = 0 \/ l.by # k.by)
      <3>1. CASE l \in lineage /\ k \in lineage
        BY <1>7, <2>1, <3>1 DEF LineageIsSound
      <3>2. CASE l = new /\ k \in lineage /\ s # <<>>
        BY <1>2, <1>4, <1>6, <1>11, <2>1, <3>2
      <3>3. CASE l \in lineage /\ k = new /\ s # <<>>
        BY <1>2, <1>4, <1>6, <1>11, <2>1, <3>3
      <3>. QED
        BY <1>10, <2>1, <3>1, <3>2, <3>3
    <2>2. ASSUME NEW l \in lineage', l.by > 0
          PROVE  \E i \in 1 .. p : claims'[i].by = Role("board", l.board, l.by)
      <3>1. CASE l \in lineage
        <4>1. PICK i \in 1 .. n : claims[i].by = Role("board", l.board, l.by)
          BY <1>7, <2>2, <3>1 DEF LineageIsSound, n
        <4>. QED
          BY <1>8, <4>1
      <3>2. CASE l = new
        BY <1>8, <1>9, <1>11, <3>2
      <3>. QED
        BY <1>10, <2>2, <3>1, <3>2
    <2>. QED
      BY <2>1, <2>2 DEF LineageIsSound, p
  <1>17. ASSUME NEW l \in lineage'
         PROVE  /\ l \in LineageRecord /\ l.board <= b
                /\ l.board = b => l.skipped < r + 1 /\ l.by < r + 1 /\ l.skipped \notin ToSet(t)
    <2>1. CASE l \in lineage
      BY <1>2, <1>4, <1>6, <2>1
    <2>2. CASE l = new /\ s # <<>>
      <3>1. s[1] < r /\ s[1] \in Nat /\ s[1] \notin ToSet(t)
        BY <1>4, <1>5, <2>2
      <3>. QED
        BY <1>2, <1>11, <1>12, <2>2, <3>1
    <2>. QED
      BY <1>10, <1>17, <2>1, <2>2
  <1>18. \A k \in ToSet(t) : k < r + 1
    <2>1. \A k \in ToSet(t) : k < r /\ k \in Nat
      BY <1>4, <1>5
    <2>. QED
      BY <1>2, <2>1
  <1>19. \A i \in 1 .. p : claims'[i].by.role = "board" =>
             claims'[i].by.source <= b /\ (claims'[i].by.source = b => claims'[i].by.rank < r + 1)
    <2>1. ASSUME NEW i \in 1 .. p, claims'[i].by.role = "board"
          PROVE  claims'[i].by.source <= b /\ (claims'[i].by.source = b => claims'[i].by.rank < r + 1)
      <3>1. CASE i \in 1 .. n
        <4>1. claims'[i] = claims[i] /\ claims[i].by.rank \in Nat
          BY <1>8, <1>13, <3>1
        <4>. QED
          BY <1>2, <1>14, <2>1, <3>1, <4>1
      <3>2. CASE i = p
        BY <1>2, <1>8, <1>9, <3>2
      <3>. QED
        BY <1>8, <3>1, <3>2
    <2>. QED
      BY <2>1
  <1>20. lineage' \subseteq LineageRecord
    BY <1>17
  <1>21. \A l \in lineage' :
             /\ l.board <= turn'.at
             /\ l.board = turn'.at => /\ l.skipped < turn'.rank /\ l.by < turn'.rank
                                      /\ l.skipped \notin ToSet(t)
    BY <1>15, <1>17
  <1>22. \A i \in 1 .. p : claims'[i].by.role = "board" =>
             claims'[i].by.source <= turn'.at /\ (claims'[i].by.source = turn'.at => claims'[i].by.rank < turn'.rank)
    BY <1>15, <1>19
  <1>23. \A k \in ToSet(t) : k < turn'.rank
    BY <1>15, <1>18
  <1>. QED
    BY <1>4, <1>16, <1>20, <1>21, <1>22, <1>23 DEF LineageOK, t, p

LEMMA ClaimKeeps ==
  ASSUME Provided, BoardsOK, Claim, UNCHANGED <<reserve, counts>>
  PROVE  BoardsOK'
  <1>. DEFINE c == Candidate
              by == Role("board", turn.at, turn.rank)
              x == [coord |-> c, by |-> by]
              n == Len(claims)
              p == Len(claims')
  <1>1. /\ Looking /\ c \notin DOMAIN owed
        /\ claims' = Append(claims, x)
        /\ owed' = [d \in DOMAIN owed \cup {c} |-> IF d = c THEN <<by>> ELSE owed[d]]
        /\ lineage' = IF turn.skipped = <<>> THEN lineage
                      ELSE lineage \cup {[board |-> turn.at, skipped |-> turn.skipped[1], by |-> turn.rank]}
        /\ turn' = [turn EXCEPT !.rank = @ + 1, !.seats = @ + 1,
                                !.wide = IF Wide(c) THEN @ + 1 ELSE @,
                                !.skipped = IF @ = <<>> THEN @ ELSE Tail(@)]
        /\ UNCHANGED <<input, supply, slots, reserve, counts>>
    BY DEF Claim
  <1>2. /\ turn.at \in 1 .. Len(supply) /\ turn.at \in Nat /\ turn.at > 0 /\ turn.rank \in Nat
        /\ c \in Coord /\ n \in Nat /\ input.budget \in Nat /\ n < input.budget
    BY <1>1, TurnFacts DEF BoardsOK
  <1>3. turn \in TurnRecord /\ LineageOK
    BY DEF BoardsOK, TurnOK
  <1>4. /\ DOMAIN owed = CoordsOf(claims) /\ owed = [d \in CoordsOf(claims) |-> owed[d]]
        /\ Apiece(claims) /\ ClaimOrder
    BY DEF BoardsOK, ClaimsOK, Owing
  <1>5. by \in ByRecord /\ by.role = "board" /\ by.source = turn.at /\ by.rank = turn.rank
    BY <1>2 DEF Role, ByRecord
  <1>6. x \in ClaimRecord /\ x.coord = c /\ x.by = by
    BY <1>2, <1>5 DEF ClaimRecord
  <1>7. Added(claims, x, claims')
    <2>. HIDE DEF x, c
    <2>. QED
      BY <1>1, <1>4, <1>6, ClaimAdded
  <1>8. /\ Apiece(claims') /\ p = n + 1 /\ claims'[p] = x /\ p \in 1 .. p /\ p \in Nat
        /\ \A i \in 1 .. n : i \in 1 .. p /\ claims'[i] = claims[i]
        /\ \A i \in 1 .. p : i \in 1 .. n \/ i = p
        /\ CoordsOf(claims') = CoordsOf(claims) \cup {c}
    BY <1>2, <1>6, <1>7 DEF Added
  <1>9. /\ turn' \in TurnRecord
        /\ turn'.at = turn.at /\ turn'.rank = turn.rank + 1
        /\ turn'.target = turn.target /\ turn'.seats = turn.seats + 1
        /\ turn'.skipped = Younger(turn.skipped)
    <2>. DEFINE w == IF Wide(c) THEN turn.wide + 1 ELSE turn.wide
    <2>1. turn.wide \in Nat /\ turn.skipped \in Seq(Nat) /\ turn.target \in Nat /\ turn.seats + 1 \in Nat
          /\ turn.rank + 1 \in Nat \ {0} /\ turn.at \in Nat /\ w \in Nat
      BY <1>3 DEF TurnRecord
    <2>2. Younger(turn.skipped) \in Seq(Nat)
      <3>1. \A i, j \in 1 .. Len(turn.skipped) : i # j => turn.skipped[i] # turn.skipped[j]
        BY <1>3 DEF LineageOK
      <3>. QED
        BY <2>1, <3>1, OldestGone
    <2>3. turn' = [turn EXCEPT !.rank = @ + 1, !.seats = @ + 1, !.wide = w, !.skipped = Younger(turn.skipped)]
      BY <1>1 DEF Younger
    <2>. HIDE DEF w
    <2>4. turn' = [at |-> turn.at, rank |-> turn.rank + 1, target |-> turn.target, seats |-> turn.seats + 1,
                   wide |-> w, skipped |-> Younger(turn.skipped)]
      BY <1>3, <2>3 DEF TurnRecord
    <2>5. /\ turn'.at = turn.at /\ turn'.rank = turn.rank + 1
          /\ turn'.target = turn.target /\ turn'.seats = turn.seats + 1
          /\ turn'.skipped = Younger(turn.skipped)
      BY <2>4, Zenon
    <2>6. turn' \in TurnRecord
      BY <2>1, <2>2, <2>4, Zenon DEF TurnRecord
    <2>. QED
      BY <2>5, <2>6
  <1>10. LineageOK'
    BY <1>1, <1>7, <1>9, ClaimLineage
  <1>11. ReserveOK' /\ Planned' /\ SupplyOK' /\ CorridorBudget' = CorridorBudget
    BY <1>1, SameBudget, SamePlan, SameSupply DEF BoardsOK
  <1>12. CorridorBudget \in Nat /\ CorridorBudget <= n
    BY BudgetFacts DEF BoardsOK, RolesInOrder
  <1>. HIDE DEF n, p, x, by, c
  <1>13. RolesInOrder'
    <2>1. \A i \in 1 .. n : claims[i].by.role = IF i <= CorridorBudget THEN "corridor" ELSE "board"
      BY DEF BoardsOK, RolesInOrder, n
    <2>2. ASSUME NEW i \in 1 .. p
          PROVE  claims'[i].by.role = IF i <= CorridorBudget THEN "corridor" ELSE "board"
      <3>1. CASE i \in 1 .. n
        BY <1>8, <2>1, <3>1
      <3>2. CASE i = p
        <4>1. ~(p <= CorridorBudget)
          BY <1>2, <1>8, <1>12
        <4>. QED
          BY <1>5, <1>6, <1>8, <3>2, <4>1
      <3>. QED
        BY <1>8, <3>1, <3>2
    <2>3. CorridorBudget <= p /\ p <= input.budget
      BY <1>2, <1>8, <1>12
    <2>. QED
      BY <1>1, <1>11, <2>2, <2>3 DEF RolesInOrder, p
  <1>14. ClaimOrder'
    <2>1. ASSUME NEW i \in 1 .. p, NEW j \in 1 .. p, i < j, claims'[i].by.role = claims'[j].by.role
          PROVE  \/ claims'[i].by.source < claims'[j].by.source
                 \/ claims'[i].by.source = claims'[j].by.source /\ claims'[i].by.rank < claims'[j].by.rank
      <3>1. i \in 1 .. n
        BY <1>2, <1>8, <2>1
      <3>2. CASE j \in 1 .. n
        BY <1>4, <1>8, <2>1, <3>1, <3>2 DEF ClaimOrder, n
      <3>3. CASE j = p
        <4>1. claims'[j].by = by /\ claims'[i] = claims[i] /\ claims[i].by.role = "board"
          BY <1>5, <1>6, <1>8, <2>1, <3>1, <3>3
        <4>2. /\ claims[i].by.source <= turn.at
              /\ claims[i].by.source = turn.at => claims[i].by.rank < turn.rank
          BY <1>3, <3>1, <4>1 DEF LineageOK, n
        <4>3. claims[i].by.source \in Nat
          <5>1. claims \in Seq(ClaimRecord)
            BY <1>4 DEF Apiece
          <5>2. claims[i] \in ClaimRecord
            BY <3>1, <5>1 DEF n
          <5>. QED
            BY <5>2 DEF ClaimRecord, ByRecord
        <4>. QED
          BY <1>2, <1>5, <4>1, <4>2, <4>3
      <3>. QED
        BY <1>8, <3>2, <3>3
    <2>. QED
      BY <2>1 DEF ClaimOrder, p
  <1>15. Owing'
    <2>1. DOMAIN owed \cup {c} = CoordsOf(claims')
      BY <1>4, <1>8
    <2>2. owed' = [d \in CoordsOf(claims') |-> owed'[d]]
      BY <1>1, <2>1
    <2>3. ASSUME NEW i \in 1 .. p
          PROVE  LET o == owed'[claims'[i].coord]
                 IN  o \in Seq(ByRecord) /\ Canonical(o) /\ o[1] = claims'[i].by
      <3>1. CASE i \in 1 .. n
        <4>1. claims'[i] = claims[i] /\ claims[i].coord \in CoordsOf(claims)
          BY <1>8, <3>1 DEF CoordsOf, n
        <4>2. owed'[claims[i].coord] = owed[claims[i].coord]
          BY <1>1, <1>4, <4>1
        <4>3. /\ owed[claims[i].coord] \in Seq(ByRecord) /\ Canonical(owed[claims[i].coord])
              /\ owed[claims[i].coord][1] = claims[i].by
          BY <3>1 DEF BoardsOK, ClaimsOK, Owing, n
        <4>. QED
          BY <4>1, <4>2, <4>3
      <3>2. CASE i = p
        <4>1. claims'[i].coord = c /\ claims'[i].by = by
          BY <1>6, <1>8, <3>2
        <4>2. owed'[c] = <<by>>
          BY <1>1
        <4>. DEFINE o == owed'[c]
        <4>3. o \in Seq(ByRecord) /\ o[1] = by /\ Len(o) = 1
          BY <1>5, <4>2
        <4>. HIDE DEF o
        <4>4. o # <<>> /\ \A k \in 2 .. Len(o) : FALSE
          BY <4>3
        <4>5. Canonical(o)
          BY <4>4 DEF Canonical
        <4>. QED
          BY <4>1, <4>3, <4>5 DEF o
      <3>. QED
        BY <1>8, <3>1, <3>2
    <2>. QED
      BY <2>2, <2>3 DEF Owing, p
  <1>16. ClaimsOK'
    BY <1>8, <1>14, <1>15 DEF ClaimsOK
  <1>17. /\ turn'.rank <= Len(BoardAt'.list) + 1
         /\ Reached(turn.at, turn.rank - 1)'
         /\ \A i \in 1 .. Len(supply) : i < turn.at => Exhausted(i)'
    <2>1. /\ CoordsOf(claims) \subseteq CoordsOf(claims') /\ Len(claims') \in Nat /\ Len(claims') >= Len(claims)
          /\ Candidate \in CoordsOf(claims')
      BY <1>2, <1>8 DEF c, n, p
    <2>. QED
      BY <1>1, <1>9, <2>1, OneRankMore DEF BoardsOK
  <1>18. turn'.target - turn'.seats = input.budget - p
    <2>1. turn.target - turn.seats = input.budget - n /\ turn.target \in Nat /\ turn.seats \in Nat
      BY <1>2, <1>3 DEF BoardsOK, TurnOK, TurnRecord, n
    <2>2. n \in Nat /\ input.budget \in Nat
      BY <1>2
    <2>3. p = n + 1 /\ turn'.target = turn.target /\ turn'.seats = turn.seats + 1
      BY <1>8, <1>9
    <2>. QED
      BY <2>1, <2>2, <2>3
  <1>19. TurnOK'
    BY <1>1, <1>2, <1>9, <1>17, <1>18 DEF TurnOK, BoardsOK, p
  <1>. QED
    BY <1>10, <1>11, <1>13, <1>16, <1>19 DEF BoardsOK

\* What the boards leave behind.
BoardsEnded ==
    /\ ReserveOK /\ SupplyOK /\ Planned /\ ClaimsOK
    /\ RolesInOrder /\ LineageIsSound
    /\ \A i \in 1 .. Len(supply) : Exhausted(i)

LEMMA NextBoardKeeps ==
  ASSUME Provided, BoardsOK, NextBoard, UNCHANGED <<reserve, counts>>
  PROVE  \/ stage' = "boards" /\ BoardsOK'
         \/ stage' = "validate" /\ BoardsEnded'
  <1>1. /\ stage = "boards" /\ ~Looking
        /\ lineage' = lineage \cup {[board |-> turn.at, skipped |-> k, by |-> 0] : k \in ToSet(turn.skipped)}
        /\ UNCHANGED <<input, supply, slots, claims, owed, reserve, counts>>
    BY DEF NextBoard
  <1>2. turn \in TurnRecord /\ LineageOK /\ turn.at <= Len(supply) /\ Len(supply) \in Nat
    BY DEF BoardsOK, TurnOK, SupplyOK
  <1>. DEFINE b == turn.at
              s == turn.skipped
  <1>3. b \in Nat /\ s \in Seq(Nat) /\ turn.rank \in Nat /\ turn.target \in Nat /\ turn.seats \in Nat
    BY <1>2 DEF TurnRecord
  <1>4. ToSet(s) \subseteq Nat
    <2>. HIDE DEF s
    <2>. QED
      BY <1>3 DEF ToSet
  <1>5. \A l \in lineage : /\ l.board \in Nat /\ l.skipped \in Nat /\ l.by \in Nat /\ l \in LineageRecord
                           /\ l.board <= b
                           /\ l.board = b => l.skipped \notin ToSet(s)
    BY <1>2 DEF LineageOK, LineageRecord
  <1>6. LineageIsSound
    BY <1>2 DEF LineageOK
  <1>. HIDE DEF b, s
  <1>7. \A l \in lineage' : l \in lineage \/ (l.board = b /\ l.skipped \in ToSet(s) /\ l.by = 0 /\ l \in LineageRecord)
    BY <1>1, <1>3, <1>4 DEF LineageRecord, b, s
  <1>8. LineageIsSound'
    <2>1. ASSUME NEW l \in lineage', NEW k \in lineage', l.board = k.board, l # k
          PROVE  l.skipped # k.skipped /\ (l.by = 0 \/ l.by # k.by)
      <3>1. CASE l \in lineage /\ k \in lineage
        BY <1>6, <2>1, <3>1 DEF LineageIsSound
      <3>2. CASE l \notin lineage /\ k \in lineage
        BY <1>5, <1>7, <2>1, <3>2
      <3>3. CASE l \in lineage /\ k \notin lineage
        BY <1>5, <1>7, <2>1, <3>3
      <3>4. CASE l \notin lineage /\ k \notin lineage
        <4>1. PICK i \in ToSet(s) : l = [board |-> b, skipped |-> i, by |-> 0]
          BY <1>1, <3>4 DEF b, s
        <4>2. PICK j \in ToSet(s) : k = [board |-> b, skipped |-> j, by |-> 0]
          BY <1>1, <3>4 DEF b, s
        <4>. QED
          BY <2>1, <4>1, <4>2
      <3>. QED
        BY <3>1, <3>2, <3>3, <3>4
    <2>2. ASSUME NEW l \in lineage', l.by > 0
          PROVE  \E i \in 1 .. Len(claims) : claims[i].by = Role("board", l.board, l.by)
      <3>1. l \in lineage
        BY <1>7, <2>2
      <3>. QED
        BY <1>6, <2>2, <3>1 DEF LineageIsSound
    <2>. QED
      BY <1>1, <2>1, <2>2 DEF LineageIsSound
  <1>9. (ClaimOrder' <=> ClaimOrder) /\ CoordsOf(claims') = CoordsOf(claims) /\ Len(claims') = Len(claims)
    BY <1>1, ClaimsSame
  <1>10. Owing' <=> Owing
    BY <1>1, <1>9 DEF Owing, Canonical
  <1>11. ClaimsOK'
    BY <1>1, <1>9, <1>10 DEF BoardsOK, ClaimsOK, Apiece
  <1>12. ReserveOK' /\ Planned' /\ SupplyOK' /\ CorridorBudget' = CorridorBudget /\ GlobalBudget' = GlobalBudget
    BY <1>1, SameBudget, SamePlan, SameSupply DEF BoardsOK
  <1>13. RolesInOrder'
    BY <1>1, <1>12 DEF RolesInOrder, BoardsOK
  <1>14. \A i \in 1 .. Len(supply) : Exhausted(i)' <=> Exhausted(i)
    BY <1>1, <1>9 DEF Exhausted, Reached, Short, Wide
  <1>15. Len(claims) \in Nat /\ input.budget \in Nat /\ Len(claims) <= input.budget
    BY BudgetFacts DEF BoardsOK, ClaimsOK, Apiece, RolesInOrder
  <1>16. ASSUME b > 0
         PROVE  Exhausted(b)
    <2>1. b \in 1 .. Len(supply) /\ BoardAt = supply[b] /\ Len(BoardAt.list) \in Nat
      BY <1>2, <1>3, <1>16 DEF BoardAt, BoardsOK, SupplyOK, b
    <2>2. /\ turn.target - turn.seats = input.budget - Len(claims)
          /\ turn.rank <= Len(BoardAt.list) + 1
          /\ Reached(b, turn.rank - 1)
      BY <1>16 DEF BoardsOK, TurnOK, b
    <2>3. turn.seats >= turn.target \/ turn.rank > Len(BoardAt.list)
      BY <1>1, <1>3, <1>16, <2>1 DEF Looking, b
    <2>4. CASE turn.seats >= turn.target
      <3>1. ~Short
        BY <1>3, <1>15, <2>2, <2>4 DEF Short
      <3>. QED
        BY <3>1 DEF Exhausted
    <2>5. CASE turn.rank > Len(BoardAt.list)
      <3>1. turn.rank - 1 = Len(supply[b].list)
        BY <1>3, <2>1, <2>2, <2>5
      <3>. QED
        BY <2>2, <3>1 DEF Exhausted
    <2>. QED
      BY <2>3, <2>4, <2>5
  <1>17. \A i \in 1 .. Len(supply) : i < b + 1 => Exhausted(i)
    <2>1. \A i \in 1 .. Len(supply) : i < b => Exhausted(i)
      BY DEF BoardsOK, TurnOK, b
    <2>2. \A i \in 1 .. Len(supply) : i < b + 1 => i < b \/ (i = b /\ b > 0)
      BY <1>2, <1>3
    <2>. QED
      BY <1>16, <2>1, <2>2
  <1>18. CASE b = Len(supply)
    <2>1. stage' = "validate"
      BY <1>18 DEF NextBoard, b
    <2>2. \A i \in 1 .. Len(supply) : Exhausted(i)'
      BY <1>2, <1>3, <1>14, <1>17, <1>18
    <2>. QED
      BY <1>1, <1>8, <1>11, <1>12, <1>13, <2>1, <2>2 DEF BoardsEnded
  <1>19. CASE b # Len(supply)
    <2>1. /\ turn' = [NoTurn EXCEPT !.at = b + 1,
                                    !.target = Smaller(Capacity, GlobalBudget - ClaimsOf("board"))]
          /\ stage' = "boards"
      BY <1>1, <1>19 DEF NextBoard, b
    <2>2. ClaimsOf("board") = Len(claims) - CorridorBudget /\ GlobalBudget = input.budget - CorridorBudget
          /\ CorridorBudget \in Nat
      BY RolesCounted, BudgetFacts DEF BoardsOK, GlobalBudget
    <2>3. Capacity >= input.budget /\ Capacity \in Nat
      <3>1. input.capacity \in Nat
        BY SelectorAssumption DEF Provided
      <3>. QED
        BY <1>15, <3>1 DEF Capacity
    <2>4. Smaller(Capacity, GlobalBudget - ClaimsOf("board")) = input.budget - Len(claims)
      BY <1>15, <2>2, <2>3 DEF Smaller
    <2>5. turn' = [at |-> b + 1, rank |-> 1, target |-> input.budget - Len(claims), seats |-> 0,
                   wide |-> 0, skipped |-> <<>>]
      BY <2>1, <2>4 DEF NoTurn
    <2>6. /\ turn'.at = b + 1 /\ turn'.rank = 1 /\ turn'.target = input.budget - Len(claims)
          /\ turn'.seats = 0 /\ turn'.skipped = <<>>
      BY <2>5, Zenon
    <2>7. turn' \in TurnRecord
      <3>1. b + 1 \in Nat /\ 1 \in Nat \ {0} /\ input.budget - Len(claims) \in Nat /\ 0 \in Nat
            /\ <<>> \in Seq(Nat)
        BY <1>3, <1>15
      <3>. QED
        BY <2>5, <3>1, Zenon DEF TurnRecord
    <2>8. b + 1 \in 1 .. Len(supply) /\ b + 1 <= Len(supply) /\ b + 1 # 0
      BY <1>2, <1>3, <1>19 DEF b
    <2>9. Reached(turn.at, turn.rank - 1)'
      BY <2>6 DEF Reached
    <2>10. turn'.rank <= Len(BoardAt'.list) + 1
      <3>1. BoardAt' = supply[b + 1] /\ Len(supply[b + 1].list) \in Nat
        BY <1>1, <2>6, <2>8 DEF BoardAt, BoardsOK, SupplyOK
      <3>. QED
        BY <2>6, <3>1
    <2>11. TurnOK'
      <3>1. \A i \in 1 .. Len(supply) : i < turn'.at => Exhausted(i)'
        BY <1>14, <1>17, <2>6
      <3>2. turn'.target - turn'.seats = input'.budget - Len(claims')
        BY <1>1, <1>15, <2>6
      <3>3. turn'.at # 0 /\ turn'.at <= Len(supply')
        BY <1>1, <2>6, <2>8
      <3>. QED
        BY <1>1, <2>7, <2>9, <2>10, <3>1, <3>2, <3>3 DEF TurnOK
    <2>12. LineageOK'
      <3>1. ToSet(turn'.skipped) = {} /\ Len(turn'.skipped) = 0
        BY <2>6 DEF ToSet
      <3>2. \A l \in lineage' : l \in LineageRecord /\ l.board <= b /\ l.board \in Nat
        BY <1>3, <1>5, <1>7
      <3>3. \A l \in lineage' : l.board <= turn'.at /\ l.board # turn'.at
        BY <1>3, <2>6, <3>2
      <3>4. ASSUME NEW i \in 1 .. Len(claims), claims[i].by.role = "board"
            PROVE  claims[i].by.source <= turn'.at /\ claims[i].by.source # turn'.at
        <4>1. claims \in Seq(ClaimRecord)
          BY DEF BoardsOK, ClaimsOK, Apiece
        <4>2. claims[i] \in ClaimRecord
          BY <4>1
        <4>3. claims[i].by.source \in Nat
          BY <4>2 DEF ClaimRecord, ByRecord
        <4>4. claims[i].by.source <= b
          BY <1>2, <3>4 DEF LineageOK, b
        <4>. QED
          BY <1>3, <2>6, <4>3, <4>4
      <3>. QED
        BY <1>1, <1>8, <3>1, <3>2, <3>3, <3>4 DEF LineageOK
    <2>13. BoardsOK'
      BY <1>11, <1>12, <1>13, <2>11, <2>12 DEF BoardsOK
    <2>. QED
      BY <2>1, <2>13
  <1>. QED
    BY <1>18, <1>19

(***************************************************************************)
(* The stages from the reserve to the end.                                 *)
(***************************************************************************)
Allotting ==
    /\ NotBegun /\ ReserveOK /\ SupplyOK
    /\ Allotted(slots, unserved)

Serving ==
    /\ ReserveOK /\ SupplyOK /\ Planned /\ ClaimsOK /\ ModesClaimed
    /\ turn = NoTurn /\ lineage = {}

Starved == \E m \in Modes : WidthStarved(m)

LEMMA AllottedSame ==
  ASSUME UNCHANGED <<input, reserve, counts>>
  PROVE  Allotted(slots, unserved)' <=> Allotted(slots', unserved')
  <1>1. /\ Modes' = Modes /\ CorridorBudget' = CorridorBudget
        /\ \A m : ModeCapacity(m)' = ModeCapacity(m)
    BY SameBudget
  <1>2. Total(slots)' = Total(slots')
    BY <1>1 DEF Total, Slots
  <1>3. \A n : AtLevel(slots, unserved, n)' <=> AtLevel(slots', unserved', n)
    BY <1>1 DEF AtLevel
  <1>. QED
    BY <1>1, <1>2, <1>3 DEF Allotted

LEMMA AllocateStarts ==
  ASSUME Provided, NotBegun, ReserveOK, SupplyOK, Allocate, UNCHANGED <<reserve, counts>>
  PROVE  stage' = "allot" /\ Allotting'
  <1>. DEFINE F == IF CorridorBudget < Cardinality(Covered) THEN FirstModes(CorridorBudget) ELSE {}
  <1>1. /\ stage' = "allot" /\ unserved' = Modes
        /\ slots' = [m \in Modes |-> IF m \in F THEN 1 ELSE 0]
        /\ UNCHANGED <<input, supply, claims, owed, turn, lineage, reserve, counts>>
    BY DEF Allocate
  <1>. HIDE DEF F
  <1>2. Allotted([m \in Modes |-> IF m \in F THEN 1 ELSE 0], Modes)
    <2>1. F = IF CorridorBudget < Cardinality(Covered) THEN FirstModes(CorridorBudget) ELSE {}
      BY DEF F
    <2>. QED
      BY <2>1, AllotmentStarts
  <1>3. Allotted(slots', unserved')
    BY <1>1, <1>2
  <1>4. ReserveOK' /\ SupplyOK'
    BY <1>1, SameBudget, SameSupply
  <1>5. NotBegun'
    BY <1>1 DEF NotBegun
  <1>. QED
    BY <1>1, <1>3, <1>4, <1>5, AllottedSame DEF Allotting

LEMMA AllotSlotKeeps ==
  ASSUME Provided, Allotting, AllotSlot, UNCHANGED <<reserve, counts>>
  PROVE  stage' = "allot" /\ Allotting'
  <1>1. PICK m \in unserved \cap Open :
            /\ \A k \in unserved \cap Open : m <= k
            /\ slots' = [slots EXCEPT ![m] = @ + 1]
            /\ unserved' = {k \in unserved : k > m}
    BY DEF AllotSlot, NextSlot
  <1>2. /\ stage = "allot" /\ Total(slots) < CorridorBudget
        /\ UNCHANGED <<input, stage, supply, claims, owed, turn, lineage, reserve, counts>>
    BY DEF AllotSlot, NextSlot
  <1>3. Allotted(slots, unserved) /\ ReserveOK /\ SupplyOK /\ NotBegun
    BY DEF Allotting
  <1>4. unserved \subseteq Modes
    BY <1>3 DEF Allotted
  <1>5. /\ m \in unserved /\ slots[m] < ModeCapacity(m)
        /\ \A k \in unserved : slots[k] < ModeCapacity(k) => m <= k
    BY <1>1, <1>4 DEF Open
  <1>6. Allotted([slots EXCEPT ![m] = @ + 1], {k \in unserved : k > m})
    BY <1>2, <1>3, <1>5, AllotmentGoesOn
  <1>7. Allotted(slots', unserved')
    BY <1>1, <1>6
  <1>8. ReserveOK' /\ SupplyOK' /\ NotBegun'
    BY <1>2, <1>3, SameBudget, SameSupply DEF NotBegun
  <1>. QED
    BY <1>2, <1>7, <1>8, AllottedSame DEF Allotting

LEMMA NextPassKeeps ==
  ASSUME Provided, Allotting, NextPass, UNCHANGED <<reserve, counts>>
  PROVE  stage' = "allot" /\ Allotting'
  <1>1. /\ Total(slots) < CorridorBudget /\ unserved \cap Open = {} /\ unserved' = Modes
        /\ stage' = IF Open = {} THEN "refused" ELSE "allot"
        /\ UNCHANGED <<input, supply, slots, claims, owed, turn, lineage, reserve, counts>>
    BY DEF NextPass
  <1>2. Allotted(slots, unserved) /\ ReserveOK /\ SupplyOK /\ NotBegun
    BY DEF Allotting
  <1>3. \A m \in unserved : ~(slots[m] < ModeCapacity(m))
    BY <1>1, <1>2 DEF Allotted, Open
  <1>4. /\ Allotted(slots, Modes)
        /\ \E m \in Modes : slots[m] < ModeCapacity(m)
    BY <1>1, <1>2, <1>3, PassBegins
  <1>5. Open # {}
    BY <1>4 DEF Open
  <1>6. Allotted(slots', unserved')
    BY <1>1, <1>4
  <1>7. ReserveOK' /\ SupplyOK' /\ NotBegun'
    BY <1>1, <1>2, SameBudget, SameSupply DEF NotBegun
  <1>. QED
    BY <1>1, <1>5, <1>6, <1>7, AllottedSame DEF Allotting

\* The plan is sound whatever the passes have come to.
LEMMA EndPlanServes ==
  ASSUME Provided, Allotting, EndPlan, UNCHANGED <<reserve, counts>>
  PROVE  stage' = "corridors" /\ Serving'
  <1>1. /\ Total(slots) >= CorridorBudget
        /\ stage' = (IF PlanIsSound THEN "corridors" ELSE "refused") /\ unserved' = Modes
        /\ UNCHANGED <<input, supply, slots, claims, owed, turn, lineage, reserve, counts>>
    BY DEF EndPlan
  <1>2. Allotted(slots, unserved) /\ ReserveOK /\ SupplyOK /\ NotBegun
    BY DEF Allotting
  <1>3. /\ Total(slots) = CorridorBudget
        /\ \A m, k \in Modes : slots[k] > slots[m] + 1 => slots[m] = ModeCapacity(m)
    BY <1>1, <1>2, AllotmentEnds
  <1>4. slots \in [Modes -> Nat] /\ \A m \in Modes : slots[m] <= ModeCapacity(m)
    BY <1>2 DEF Allotted
  <1>5. PlanIsSound
    BY <1>2, <1>3, <1>4 DEF PlanIsSound, ReserveOK
  <1>6. Planned
    <2>1. \A m \in Modes : slots[m] <= Len(reserve[m])
      <3>1. \A m \in Modes : /\ slots[m] \in Nat /\ ModeCapacity(m) \in Nat /\ Len(reserve[m]) \in Nat
                             /\ ModeCapacity(m) <= Len(reserve[m])
        BY <1>2, <1>4, BudgetFacts DEF ReserveOK
      <3>. QED
        BY <1>4, <3>1
    <2>2. BreadthFirst
      BY <1>3, <1>4 DEF BreadthFirst
    <2>. QED
      BY <1>3, <1>4, <2>1, <2>2 DEF Planned
  <1>7. Modes' = Modes /\ ReserveOK' /\ SupplyOK' /\ Planned'
    BY <1>1, <1>2, <1>6, SameBudget, SamePlan, SameSupply
  <1>8. claims' = <<>> /\ owed' = <<>> /\ turn' = NoTurn /\ lineage' = {}
    BY <1>1, <1>2 DEF NotBegun
  <1>9. ClaimsOK' /\ ModesClaimed'
    <2>1. claims' = <<>> /\ Len(claims') = 0 /\ claims' \in Seq(ClaimRecord) /\ 1 .. Len(claims') = {}
      BY <1>8
    <2>2. CoordsOf(claims') = {}
      BY <2>1 DEF CoordsOf
    <2>3. owed' = [c \in {} |-> owed'[c]]
      BY <1>8
    <2>4. Owing'
      BY <2>1, <2>2, <2>3 DEF Owing
    <2>5. ClaimsOK'
      BY <2>1, <2>4 DEF ClaimsOK, Apiece, ClaimOrder
    <2>6. unserved' = Modes' /\ Modes' \ unserved' = {}
      BY <1>1, <1>7
    <2>7. ModesClaimed'
      BY <2>1, <2>6 DEF ModesClaimed
    <2>. QED
      BY <2>5, <2>7
  <1>. QED
    BY <1>1, <1>5, <1>7, <1>8, <1>9 DEF Serving

LEMMA ClaimModeKeeps ==
  ASSUME Provided, Serving, ClaimMode, UNCHANGED <<reserve, counts>>
  PROVE  stage' = "corridors" /\ Serving'
  <1>1. stage' = "corridors" /\ UNCHANGED <<input, supply, slots, turn, lineage, reserve, counts>>
    BY DEF ClaimMode
  <1>2. ClaimsOK' /\ ModesClaimed'
    BY ModeClaimed DEF Serving
  <1>3. ReserveOK' /\ SupplyOK' /\ Planned'
    BY <1>1, SameBudget, SamePlan, SameSupply DEF Serving
  <1>. QED
    BY <1>1, <1>2, <1>3 DEF Serving

LEMMA EndCorridorsKeeps ==
  ASSUME Provided, Serving, EndCorridors, UNCHANGED <<reserve, counts>>
  PROVE  \/ stage' = "boards" /\ BoardsOK'
         \/ stage' = "refused" /\ Starved'
  <1>1. /\ unserved = {}
        /\ stage' = IF Len(claims) = CorridorBudget THEN "boards" ELSE "refused"
        /\ UNCHANGED <<input, supply, slots, unserved, claims, owed, turn, lineage, reserve, counts>>
    BY DEF EndCorridors
  <1>2. CASE Len(claims) = CorridorBudget
    <2>1. RolesInOrder /\ TurnOK /\ LineageOK
      BY <1>2, BoardsBegin DEF Serving
    <2>2. BoardsOK
      BY <2>1 DEF BoardsOK, Serving
    <2>3. ReserveOK' /\ Planned' /\ SupplyOK' /\ CorridorBudget' = CorridorBudget
      BY <1>1, SameBudget, SamePlan, SameSupply DEF Serving
    <2>4. (ClaimOrder' <=> ClaimOrder) /\ CoordsOf(claims') = CoordsOf(claims) /\ Len(claims') = Len(claims)
          /\ (LineageIsSound' <=> LineageIsSound)
      BY <1>1, ClaimsSame, LineageSame
    <2>5. ClaimsOK'
      BY <1>1, <2>4 DEF Serving, ClaimsOK, Apiece, Owing, Canonical
    <2>6. RolesInOrder'
      BY <1>1, <2>1, <2>3 DEF RolesInOrder
    <2>7. TurnOK'
      <3>1. turn' = NoTurn /\ turn'.at = 0
        BY <1>1 DEF Serving, NoTurn
      <3>. QED
        BY <1>1, <2>1, <3>1 DEF TurnOK, SupplyOK, Serving
    <2>8. LineageOK'
      BY <1>1, <2>1, <2>4 DEF LineageOK
    <2>9. BoardsOK'
      BY <2>3, <2>5, <2>6, <2>7, <2>8 DEF BoardsOK
    <2>. QED
      BY <1>1, <1>2, <2>9
  <1>3. CASE Len(claims) # CorridorBudget
    <2>1. Starved
      BY <1>1, <1>3, SlotsClaimed DEF Serving, Starved
    <2>2. Starved'
      BY <1>1, <2>1, SameBudget, SamePlan DEF Starved
    <2>. QED
      BY <1>1, <1>3, <2>2
  <1>. QED
    BY <1>2, <1>3

\* C5 finds nothing to refuse.
LEMMA ValidateEnds ==
  ASSUME Provided, BoardsEnded, Validate, UNCHANGED <<reserve, counts>>
  PROVE  stage' \in {"short", "selected"} /\ BoardsEnded'
  <1>1. /\ stage' = IF ~ResultIsSound THEN "refused"
                    ELSE IF Short /\ input.full THEN "short" ELSE "selected"
        /\ UNCHANGED <<input, supply, slots, unserved, claims, owed, turn, lineage, reserve, counts>>
    BY DEF Validate
  <1>2. ResultIsSound
    <2>1. Cardinality(CoordsOf(claims)) = Len(claims)
      BY ClaimedOnce DEF BoardsEnded, ClaimsOK
    <2>2. Len(claims) <= input.budget
      BY DEF BoardsEnded, RolesInOrder
    <2>. QED
      BY <2>1, <2>2 DEF ResultIsSound, BoardsEnded, ClaimsOK, Owing
  <1>3. ReserveOK' /\ Planned' /\ SupplyOK' /\ CorridorBudget' = CorridorBudget
    BY <1>1, SameBudget, SamePlan, SameSupply DEF BoardsEnded
  <1>4. (ClaimOrder' <=> ClaimOrder) /\ CoordsOf(claims') = CoordsOf(claims) /\ Len(claims') = Len(claims)
        /\ (LineageIsSound' <=> LineageIsSound)
    BY <1>1, ClaimsSame, LineageSame
  <1>5. Owing' <=> Owing
    BY <1>1, <1>4 DEF Owing, Canonical
  <1>6. ClaimsOK'
    BY <1>1, <1>4, <1>5 DEF BoardsEnded, ClaimsOK, Apiece
  <1>7. RolesInOrder'
    BY <1>1, <1>3 DEF RolesInOrder, BoardsEnded
  <1>8. \A i \in 1 .. Len(supply) : Exhausted(i)' <=> Exhausted(i)
    BY <1>1, <1>4 DEF Exhausted, Reached, Short, Wide
  <1>9. BoardsEnded'
    BY <1>1, <1>3, <1>4, <1>6, <1>7, <1>8 DEF BoardsEnded
  <1>. QED
    BY <1>1, <1>2, <1>9

LEMMA NamesApart ==
  /\ \A b \in Board : Name(b) \in 1 .. Len(BoardIds) /\ BoardIds[Name(b)] = b /\ Name(b) \in Nat
  /\ \A a, b \in Board : Name(a) = Name(b) => a = b
  <1>1. BoardIds \in Seq(Board) /\ Len(BoardIds) \in Nat /\ DOMAIN BoardIds = 1 .. Len(BoardIds)
    BY SelectorAssumption
  <1>2. ASSUME NEW b \in Board
        PROVE  Name(b) \in 1 .. Len(BoardIds) /\ BoardIds[Name(b)] = b /\ Name(b) \in Nat
    <2>1. \E i \in 1 .. Len(BoardIds) : BoardIds[i] = b
      BY <1>1 DEF Board, ToSet
    <2>2. Name(b) \in 1 .. Len(BoardIds) /\ BoardIds[Name(b)] = b
      BY <2>1 DEF Name
    <2>. QED
      BY <1>1, <2>2
  <1>. QED
    BY <1>2

\* The boards in the order of their names.
LEMMA BoardsNamed ==
  LET named == Sorted(Boards, ByName)
  IN  Len(named) \in Nat /\ \A i \in 1 .. Len(named) : named[i] \in Boards
  <1>. DEFINE S == Boards
              L == [e \in S |-> {f \in S : Name(f) < Name(e)}]
              Nth(i) == CHOOSE e \in S : Cardinality({f \in S : Name(f) < Name(e)}) = i - 1
              named == Sorted(S, ByName)
  <1>1. S \subseteq Board /\ IsFiniteSet(S)
    <2>1. S \subseteq Board
      BY DEF Boards
    <2>. QED
      BY <2>1, BoardFinite, FS_Subset
  <1>2. \A e \in S : L[e] = {f \in S : Name(f) < Name(e)}
    OBVIOUS
  <1>3. named = [i \in 1 .. Cardinality(S) |-> Nth(i)]
    BY DEF Sorted, ByName
  <1>4. StrictOrder(S, L)
    <2>1. \A e \in S : Name(e) \in Nat
      BY <1>1, NamesApart
    <2>2. \A e, f \in S : Name(e) = Name(f) => e = f
      BY <1>1, NamesApart
    <2>. HIDE DEF S
    <2>3. L \in [S -> SUBSET S]
      OBVIOUS
    <2>4. \A e \in S : e \notin L[e]
      BY <1>2, <2>1
    <2>5. \A e, f \in S : e # f => e \in L[f] \/ f \in L[e]
      BY <1>2, <2>1, <2>2
    <2>6. \A e, f \in S : f \in L[e] => L[f] \subseteq L[e]
      BY <1>2, <2>1
    <2>. HIDE DEF L
    <2>. QED
      BY <2>3, <2>4, <2>5, <2>6 DEF StrictOrder
  <1>5. Cardinality(S) \in Nat
    BY <1>1, FS_CardinalityType
  <1>6. ASSUME NEW i \in 1 .. Cardinality(S)
        PROVE  Nth(i) \in S
    <2>1. i - 1 \in 0 .. Cardinality(S) - 1
      BY <1>5
    <2>. HIDE DEF L, S
    <2>2. \E e \in S : Cardinality(L[e]) = i - 1
      BY <1>1, <1>4, <2>1, RankTaken
    <2>3. \E e \in S : Cardinality({f \in S : Name(f) < Name(e)}) = i - 1
      BY <1>2, <2>2
    <2>. QED
      BY <2>3
  <1>. HIDE DEF Nth, S
  <1>7. Len(named) = Cardinality(S) /\ \A i \in 1 .. Cardinality(S) : named[i] = Nth(i)
    <2>. HIDE DEF named
    <2>. QED
      BY <1>3, <1>5
  <1>. QED
    BY <1>5, <1>6, <1>7 DEF S

LEMMA ExportSupplies ==
  ASSUME SeatInv, NotBegun, Export
  PROVE  \/ stage' = "refused" /\ Boards = {}
         \/ stage' = "ingest" /\ SupplyOK' /\ NotBegun'
  <1>1. CASE Boards = {}
    BY <1>1 DEF Export
  <1>2. CASE Boards # {}
    <2>. DEFINE named == Sorted(Boards, ByName)
                ListOf(i) == [k \in 1 .. Len(pool[named[i]]) |-> pool[named[i]][k].coord]
    <2>1. /\ supply' = [i \in 1 .. Len(named) |-> [board |-> i, list |-> ListOf(i)]]
          /\ stage' = "ingest" /\ UNCHANGED <<claims, owed, turn, lineage>>
      BY <1>2 DEF Export
    <2>2. Len(named) \in Nat /\ \A i \in 1 .. Len(named) : named[i] \in Boards
      BY BoardsNamed
    <2>. HIDE DEF named
    <2>3. ASSUME NEW i \in 1 .. Len(named)
          PROVE  ListOf(i) \in Seq(Coord) /\ Len(ListOf(i)) \in Nat
      <3>. DEFINE p == pool[named[i]]
      <3>1. IsRanked(p, EntryRecord)
        BY <2>2 DEF SeatInv, PoolsOK, Boards
      <3>. HIDE DEF p
      <3>2. p \in Seq(EntryRecord) /\ Len(p) \in Nat /\ \A k \in 1 .. Len(p) : p[k] \in EntryRecord
        BY <3>1 DEF IsRanked
      <3>3. \A k \in 1 .. Len(p) : p[k].coord \in Coord
        BY <3>2 DEF EntryRecord
      <3>4. [k \in 1 .. Len(p) |-> p[k].coord] \in Seq(Coord)
        BY <3>2, <3>3
      <3>. QED
        BY <3>4 DEF p
    <2>4. /\ Len(supply') = Len(named)
          /\ \A i \in 1 .. Len(named) : supply'[i] = [board |-> i, list |-> ListOf(i)]
      BY <2>1, <2>2
    <2>5. ASSUME NEW i \in 1 .. Len(named)
          PROVE  supply'[i].list = ListOf(i)
      <3>1. supply'[i] = [board |-> i, list |-> ListOf(i)]
        BY <2>4
      <3>. QED
        BY <3>1
    <2>6. SupplyOK'
      BY <2>2, <2>3, <2>4, <2>5 DEF SupplyOK
    <2>. QED
      BY <2>1, <2>6 DEF NotBegun
  <1>. QED
    BY <1>1, <1>2

(***************************************************************************)
(* The inductive invariant, stage by stage.                                *)
(***************************************************************************)
Choosing == {"consider", "assign", "refill", "trim", "export"}

ClaimInv ==
    /\ stage \in Choosing => NotBegun
    /\ stage \in {"ingest", "allocate"} => NotBegun /\ SupplyOK
    /\ stage = "allot" => Allotting
    /\ stage = "corridors" => Serving
    /\ stage = "boards" => BoardsOK
    /\ stage \in {"validate", "short", "selected"} => BoardsEnded
    /\ stage = "refused" => Boards = {} \/ Starved

LEMMA ClaimsStart == Init => ClaimInv
  BY DEF Init, ClaimInit, ClaimInv, NotBegun, Choosing

\* Nothing of this changes but the stage, which stays where it is or goes no further.
LEMMA ClaimsWait ==
  ASSUME ClaimInv, UNCHANGED vars
  PROVE  ClaimInv'
  <1>1. UNCHANGED <<input, stage, made, reserve, counts, supply, slots, unserved, claims, owed, turn, lineage>>
    BY DEF vars, selectorVars, reserveVars, claimVars
  <1>2. NotBegun' <=> NotBegun
    BY <1>1 DEF NotBegun
  <1>3. /\ SupplyOK' <=> SupplyOK
        /\ ReserveOK' <=> ReserveOK
        /\ Planned' <=> Planned
        /\ Modes' = Modes /\ CorridorBudget' = CorridorBudget
        /\ \A m : WidthStarved(m)' <=> WidthStarved(m)
    BY <1>1, SameSupply, SameBudget, SamePlan
  <1>4. Allotting' <=> Allotting
    <2>1. Allotted(slots, unserved)' <=> Allotted(slots', unserved')
      BY <1>1, AllottedSame
    <2>2. Allotted(slots', unserved') <=> Allotted(slots, unserved)
      BY <1>1
    <2>. QED
      BY <1>2, <1>3, <2>1, <2>2 DEF Allotting
  <1>5. /\ (ClaimOrder' <=> ClaimOrder) /\ CoordsOf(claims') = CoordsOf(claims) /\ Len(claims') = Len(claims)
        /\ (LineageIsSound' <=> LineageIsSound)
    BY <1>1, ClaimsSame, LineageSame
  <1>6. Owing' <=> Owing
    BY <1>1, <1>5 DEF Owing, Canonical
  <1>7. ClaimsOK' <=> ClaimsOK
    BY <1>1, <1>5, <1>6 DEF ClaimsOK, Apiece
  <1>8. ModesClaimed' <=> ModesClaimed
    BY <1>1, <1>3 DEF ModesClaimed
  <1>9. Serving' <=> Serving
    BY <1>1, <1>3, <1>7, <1>8 DEF Serving
  <1>10. RolesInOrder' <=> RolesInOrder
    BY <1>1, <1>3 DEF RolesInOrder
  <1>11. \A i : Exhausted(i)' <=> Exhausted(i)
    BY <1>1, <1>5 DEF Exhausted, Reached, Short, Wide
  <1>12. Reached(turn.at, turn.rank - 1)' <=> Reached(turn.at, turn.rank - 1)
    BY <1>1, <1>5 DEF Reached, Wide
  <1>13. TurnOK' <=> TurnOK
    BY <1>1, <1>11, <1>12 DEF TurnOK, BoardAt
  <1>14. LineageOK' <=> LineageOK
    BY <1>1, <1>5 DEF LineageOK
  <1>15. BoardsOK' <=> BoardsOK
    BY <1>3, <1>7, <1>10, <1>13, <1>14 DEF BoardsOK
  <1>16. BoardsEnded' <=> BoardsEnded
    BY <1>1, <1>3, <1>5, <1>7, <1>10, <1>11 DEF BoardsEnded
  <1>17. Boards' = Boards /\ (Starved' <=> Starved)
    BY <1>1, <1>3 DEF Boards, Starved
  <1>. QED
    BY <1>1, <1>2, <1>3, <1>4, <1>9, <1>15, <1>16, <1>17 DEF ClaimInv

LEMMA ClaimsStep ==
  ASSUME SeatInv, ReserveInv, CountInv, ClaimInv, [Next]_vars
  PROVE  ClaimInv'
  <1>0. Provided
    BY DEF SeatInv, PoolsOK
  <1>1. CASE \/ Selecting(Consider) \/ Selecting(Seat) \/ Selecting(Release) \/ Selecting(Backfill)
             \/ Selecting(EndTurn) \/ Selecting(EndRound) \/ Selecting(Trim)
    <2>1. /\ stage \in Choosing /\ stage' \in Choosing
          /\ UNCHANGED <<claims, owed, turn, lineage>>
      BY <1>1 DEF Selecting, Consider, Seat, Release, Backfill, EndTurn, EndRound, Trim, Choosing, claimVars
    <2>2. NotBegun'
      BY <2>1 DEF ClaimInv, NotBegun
    <2>. QED
      BY <2>1, <2>2 DEF ClaimInv, Choosing
  <1>2. CASE Claiming(Export)
    <2>1. stage = "export" /\ NotBegun /\ Export /\ UNCHANGED made
      BY <1>2 DEF Claiming, Export, ClaimInv, Choosing, selectorVars
    <2>2. CASE stage' = "refused" /\ Boards = {}
      <3>1. Boards' = {}
        BY <2>1, <2>2 DEF Boards
      <3>. QED
        BY <2>2, <3>1 DEF ClaimInv, Choosing
    <2>3. CASE stage' = "ingest" /\ SupplyOK' /\ NotBegun'
      BY <2>3 DEF ClaimInv, Choosing
    <2>. QED
      BY <2>1, <2>2, <2>3, ExportSupplies
  <1>3. CASE Reserving(Ingest) \/ Reserving(EndStream)
    <2>1. /\ stage = "ingest" /\ stage' \in {"ingest", "conflict", "allocate"}
          /\ UNCHANGED <<supply, claims, owed, turn, lineage>>
      BY <1>3 DEF Reserving, Ingest, EndStream, Refuse, claimVars
    <2>2. NotBegun' /\ SupplyOK'
      BY <2>1, SameSupply DEF ClaimInv, NotBegun
    <2>. QED
      BY <2>1, <2>2 DEF ClaimInv, Choosing
  <1>4. CASE Claiming(Allocate)
    <2>1. stage = "allocate" /\ Allocate /\ UNCHANGED <<reserve, counts>>
      BY <1>4 DEF Claiming, Allocate, reserveVars
    <2>2. NotBegun /\ SupplyOK /\ ReserveOK
      BY <2>1, ReserveIsOK DEF ClaimInv
    <2>3. stage' = "allot" /\ Allotting'
      BY <1>0, <2>1, <2>2, AllocateStarts
    <2>. QED
      BY <2>3 DEF ClaimInv, Choosing
  <1>5. CASE Claiming(AllotSlot) \/ Claiming(NextPass)
    <2>1. stage = "allot" /\ (AllotSlot \/ NextPass) /\ UNCHANGED <<reserve, counts>>
      BY <1>5 DEF Claiming, AllotSlot, NextPass, reserveVars
    <2>2. Allotting
      BY <2>1 DEF ClaimInv
    <2>3. stage' = "allot" /\ Allotting'
      BY <1>0, <2>1, <2>2, AllotSlotKeeps, NextPassKeeps
    <2>. QED
      BY <2>3 DEF ClaimInv, Choosing
  <1>6. CASE Claiming(EndPlan)
    <2>1. stage = "allot" /\ EndPlan /\ UNCHANGED <<reserve, counts>>
      BY <1>6 DEF Claiming, EndPlan, reserveVars
    <2>2. Allotting
      BY <2>1 DEF ClaimInv
    <2>3. stage' = "corridors" /\ Serving'
      BY <1>0, <2>1, <2>2, EndPlanServes
    <2>. QED
      BY <2>3 DEF ClaimInv, Choosing
  <1>7. CASE Claiming(ClaimMode)
    <2>1. stage = "corridors" /\ ClaimMode /\ UNCHANGED <<reserve, counts>>
      BY <1>7 DEF Claiming, ClaimMode, reserveVars
    <2>2. Serving
      BY <2>1 DEF ClaimInv
    <2>3. stage' = "corridors" /\ Serving'
      BY <1>0, <2>1, <2>2, ClaimModeKeeps
    <2>. QED
      BY <2>3 DEF ClaimInv, Choosing
  <1>8. CASE Claiming(EndCorridors)
    <2>1. stage = "corridors" /\ EndCorridors /\ UNCHANGED <<reserve, counts>>
      BY <1>8 DEF Claiming, EndCorridors, reserveVars
    <2>2. Serving
      BY <2>1 DEF ClaimInv
    <2>3. \/ stage' = "boards" /\ BoardsOK'
          \/ stage' = "refused" /\ Starved'
      BY <1>0, <2>1, <2>2, EndCorridorsKeeps
    <2>. QED
      BY <2>3 DEF ClaimInv, Choosing
  <1>9. CASE Claiming(NextBoard)
    <2>1. stage = "boards" /\ NextBoard /\ UNCHANGED <<reserve, counts>>
      BY <1>9 DEF Claiming, NextBoard, reserveVars
    <2>2. BoardsOK
      BY <2>1 DEF ClaimInv
    <2>3. \/ stage' = "boards" /\ BoardsOK'
          \/ stage' = "validate" /\ BoardsEnded'
      BY <1>0, <2>1, <2>2, NextBoardKeeps
    <2>. QED
      BY <2>3 DEF ClaimInv, Choosing
  <1>10. CASE Claiming(PassOver) \/ Claiming(Collide) \/ Claiming(Claim)
    <2>1. /\ stage = "boards" /\ stage' = "boards"
          /\ PassOver \/ Collide \/ Claim
          /\ UNCHANGED <<reserve, counts>>
      BY <1>10 DEF Claiming, PassOver, Collide, Claim, reserveVars
    <2>2. BoardsOK
      BY <2>1 DEF ClaimInv
    <2>3. BoardsOK'
      BY <1>0, <2>1, <2>2, PassOverKeeps, CollideKeeps, ClaimKeeps
    <2>. QED
      BY <2>1, <2>3 DEF ClaimInv, Choosing
  <1>11. CASE Claiming(Validate)
    <2>1. stage = "validate" /\ Validate /\ UNCHANGED <<reserve, counts>>
      BY <1>11 DEF Claiming, Validate, reserveVars
    <2>2. BoardsEnded
      BY <2>1 DEF ClaimInv
    <2>3. stage' \in {"short", "selected"} /\ BoardsEnded'
      BY <1>0, <2>1, <2>2, ValidateEnds
    <2>. QED
      BY <2>3 DEF ClaimInv, Choosing
  <1>12. CASE UNCHANGED vars
    BY <1>12, ClaimsWait
  <1>. QED
    BY <1>1, <1>2, <1>3, <1>4, <1>5, <1>6, <1>7, <1>8, <1>9, <1>10, <1>11, <1>12 DEF Next, Terminated

\* What the end of the selection says.
LEMMA CauseFound ==
  ASSUME SeatInv, ClaimInv
  PROVE  ShortfallHasCause
  <1>0. Provided
    BY DEF SeatInv, PoolsOK
  <1>1. stage = "refused" => Boards = {} \/ \E m \in Modes : WidthStarved(m)
    BY DEF ClaimInv, Starved
  <1>2. ASSUME stage \in {"short", "selected"}
        PROVE  /\ Len(claims) <= input.budget
               /\ Cardinality(CoordsOf(claims)) = Len(claims)
               /\ ClaimsOf("corridor") = CorridorBudget
               /\ BreadthFirst
               /\ Short => \A i \in 1 .. Len(supply) : \A c \in ToSet(supply[i].list) :
                               c \in CoordsOf(claims) \/ Wide(c)
               /\ Reason = "exhausted" => Eligible \ CoordsOf(claims) # {}
    <2>1. BoardsEnded
      BY <1>2 DEF ClaimInv
    <2>2. /\ Cardinality(CoordsOf(claims)) = Len(claims) /\ IsFiniteSet(CoordsOf(claims))
          /\ Len(claims) \in Nat
      BY <2>1, ClaimedOnce DEF BoardsEnded, ClaimsOK
    <2>3. Len(claims) <= input.budget /\ BreadthFirst /\ input.budget \in Nat
      BY <1>0, <2>1, InputFacts DEF BoardsEnded, RolesInOrder, Planned
    <2>4. ClaimsOf("corridor") = CorridorBudget
      BY <1>0, <2>1, RolesCounted DEF BoardsEnded
    <2>5. ASSUME Short, NEW i \in 1 .. Len(supply), NEW c \in ToSet(supply[i].list)
          PROVE  c \in CoordsOf(claims) \/ Wide(c)
      <3>1. Reached(i, Len(supply[i].list)) /\ supply[i].list \in Seq(Coord)
        BY <2>1, <2>5 DEF BoardsEnded, Exhausted, SupplyOK
      <3>2. PICK k \in 1 .. Len(supply[i].list) : c = supply[i].list[k]
        BY <2>5, <3>1 DEF ToSet
      <3>. QED
        BY <3>1, <3>2 DEF Reached
    <2>6. ASSUME Reason = "exhausted", Eligible \subseteq CoordsOf(claims)
          PROVE  FALSE
      <3>1. Short /\ ~(Cardinality(Eligible) < input.budget)
        BY <2>6 DEF Reason
      <3>2. IsFiniteSet(Eligible) /\ Cardinality(Eligible) <= Len(claims)
        BY <2>2, <2>6, FS_Subset
      <3>3. Cardinality(Eligible) \in Nat
        BY <3>2, FS_CardinalityType
      <3>. QED
        BY <2>2, <2>3, <3>1, <3>2, <3>3 DEF Short
    <2>. QED
      BY <2>2, <2>3, <2>4, <2>5, <2>6
  <1>. QED
    BY <1>1, <1>2 DEF ShortfallHasCause

(***************************************************************************)
(* Whatever the rows, the records and the budgets are, no stage refuses    *)
(* what another one made but C4 a plan whose slots the cap on full-width   *)
(* candidates leaves empty: the plan of C3 is always sound and breadth     *)
(* first, the result of C4 passes every check of C5, and a selection is    *)
(* short only when every board of the supply has been gone through.        *)
(***************************************************************************)
THEOREM ShortfallCaused == Spec => []ShortfallHasCause
  <1>. DEFINE Inv == SeatInv /\ ReserveInv /\ CountInv /\ ClaimInv
  <1>1. Init => Inv
    BY SeatsStart, ReserveStarts, CountsStart, ClaimsStart
  <1>2. Inv /\ [Next]_vars => Inv'
    BY SeatsStep, ReserveStep, CountsStep, ClaimsStep
  <1>3. Inv => ShortfallHasCause
    BY CauseFound
  <1>. QED
    BY <1>1, <1>2, <1>3, PTL DEF Spec
=============================================================================
