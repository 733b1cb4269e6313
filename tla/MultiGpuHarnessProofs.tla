----------------------- MODULE MultiGpuHarnessProofs -----------------------
(***************************************************************************)
(* Proofs about MultiGpuHarness: the shards of a dataset partition its     *)
(* examples, and a passing run of a directory that has seen one setting    *)
(* has merged each example once, for any dataset, shard size and number of *)
(* devices and whatever was killed, failed, blocked or dry before it.      *)
(***************************************************************************)
EXTENDS MultiGpuHarness, TLAPS

(***************************************************************************)
(* The shards partition the examples.                                      *)
(***************************************************************************)
LEMMA Multiples ==
    ASSUME NEW a \in Nat, NEW b \in Nat, NEW k \in Nat \ {0}
    PROVE  /\ a * k \in Nat /\ (a + 1) * k = a * k + k
           /\ a <= b => a * k <= b * k
           /\ a < b => (a + 1) * k <= b * k
  <1>1. a * k \in Nat /\ (a + 1) * k = a * k + k
    BY SMT
  <1>2. a <= b => a * k <= b * k
    BY SMT
  <1>3. a < b => (a + 1) * k <= b * k
    BY SMT
  <1>. QED
    BY <1>1, <1>2, <1>3

LEMMA Quotient ==
    ASSUME NEW e \in Nat, NEW k \in Nat \ {0}
    PROVE  /\ e \div k \in Nat
           /\ (e \div k) * k <= e /\ e < (e \div k) * k + k
           /\ \A q \in Nat : q * k <= e => q <= e \div k
  <1>1. e \div k \in Nat /\ (e \div k) * k <= e /\ e < (e \div k) * k + k
    BY SMT
  <1>2. ASSUME NEW q \in Nat, q * k <= e PROVE q <= e \div k
    BY <1>2, SMT
  <1>. QED
    BY <1>1, <1>2

LEMMA SettingFields ==
    ASSUME NEW s \in Setting
    PROVE  s.examples \in Nat \ {0} /\ s.size \in Nat \ {0} /\ s.devices \in Nat \ {0}
  BY SettingAssumption

LEMMA CountType == ASSUME NEW s \in Setting PROVE Count(s) \in Nat
  <1>1. s.examples + s.size - 1 \in Nat /\ s.size \in Nat \ {0}
    BY SettingFields
  <1>. QED
    BY <1>1, Quotient DEF Count

\* Every shard lies among the examples.
LEMMA ShardType ==
    ASSUME NEW s \in Setting, NEW a \in Nat
    PROVE  Shard(s, a) \subseteq 0 .. s.examples - 1
  BY SettingFields, Multiples DEF Shard, Smaller

\* No example is in two shards.
LEMMA ShardsDisjoint ==
    ASSUME NEW s \in Setting, NEW a \in Nat, NEW b \in Nat, NEW e \in Int,
           e \in Shard(s, a), e \in Shard(s, b)
    PROVE  a = b
  <1>1. e >= a * s.size /\ e < (a + 1) * s.size /\ e >= b * s.size /\ e < (b + 1) * s.size
    BY SettingFields, Multiples DEF Shard, Smaller
  <1>2. ~(a < b)
    BY <1>1, SettingFields, Multiples
  <1>3. ~(b < a)
    BY <1>1, SettingFields, Multiples
  <1>. QED
    BY <1>2, <1>3

\* Every example is in the shard of an assignment.
LEMMA ShardsCover ==
    ASSUME NEW s \in Setting, NEW e \in 0 .. s.examples - 1
    PROVE  \E a \in Assignments(s) : e \in Shard(s, a)
  <1>. DEFINE k == s.size
              a == e \div k
              m == s.examples + k - 1
  <1>1. k \in Nat \ {0} /\ e \in Nat /\ m \in Nat /\ e + k <= m
    BY SettingFields
  <1>2. a \in Nat /\ a * k <= e /\ e < a * k + k
    BY <1>1, Quotient
  <1>3. (a + 1) * k = a * k + k
    BY <1>1, <1>2, Multiples
  <1>4. (a + 1) * k <= m
    BY <1>1, <1>2, <1>3, Multiples
  <1>5. a + 1 <= m \div k
    BY <1>1, <1>2, <1>4, Quotient
  <1>6. a \in Assignments(s)
    BY <1>2, <1>5, CountType DEF Assignments, Count
  <1>7. e \in Shard(s, a)
    BY <1>1, <1>2, <1>3, Multiples, SettingFields DEF Shard, Smaller
  <1>. QED
    BY <1>6, <1>7

\* Merging what the assignments of a setting produce gives each example once.
THEOREM AssignmentsPartition ==
    ASSUME NEW s \in Setting
    PROVE  OnceEach(Candidates(s), s)
  <1>1. \A r \in Candidates(s) :
            \E a \in Assignments(s) : \E e \in Shard(s, a) :
               r = [source |-> s.source, example |-> e, id |-> a]
    BY DEF Candidates, Records
  <1>2. \A a \in Assignments(s) : a \in Nat
    BY CountType DEF Assignments
  <1>3. \A r \in Candidates(s) : r.example \in 0 .. s.examples - 1
    BY <1>1, <1>2, ShardType
  <1>4. ASSUME NEW e \in 0 .. s.examples - 1
        PROVE  \E r \in Candidates(s) : r.example = e
    <2>1. PICK a \in Assignments(s) : e \in Shard(s, a)
      BY ShardsCover
    <2>. DEFINE r == [source |-> s.source, example |-> e, id |-> a]
    <2>2. r \in Candidates(s) /\ r.example = e
      BY <2>1 DEF Candidates, Records
    <2>. QED
      BY <2>2
  <1>5. ASSUME NEW r \in Candidates(s), NEW q \in Candidates(s), r.example = q.example
        PROVE  r = q
    <2>1. PICK a \in Assignments(s) :
             /\ r.example \in Shard(s, a)
             /\ r = [source |-> s.source, example |-> r.example, id |-> a]
      BY <1>1
    <2>2. PICK b \in Assignments(s) :
             /\ q.example \in Shard(s, b)
             /\ q = [source |-> s.source, example |-> q.example, id |-> b]
      BY <1>1
    <2>3. r.example \in Int
      BY <1>3
    <2>4. a = b
      BY <2>1, <2>2, <2>3, <1>2, <1>5, ShardsDisjoint
    <2>. QED
      BY <2>1, <2>2, <2>4, <1>5
  <1>. QED
    BY <1>3, <1>4, <1>5 DEF OnceEach

-----------------------------------------------------------------------------
(***************************************************************************)
(* Facts the steps use.                                                    *)
(***************************************************************************)
LEMMA PathFacts ==
    ASSUME NEW s \in Setting, NEW a \in Assignments(s)
    PROVE  /\ a \in Nat
           /\ <<Worker(s, a), a>> \in Path
           /\ Records(s, a) \subseteq Record
  BY CountType DEF Path, Assignments, Record, Candidates

LEMMA RequestType == NoRequest \in Request
  BY SettingAssumption DEF NoRequest, Request, Mode

LEMMA UnionStep ==
    ASSUME NEW s \in Setting, NEW n \in Nat
    PROVE  UNION {Records(s, a) : a \in 0 .. (n + 1) - 1}
              = (UNION {Records(s, a) : a \in 0 .. n - 1}) \cup Records(s, n)
  <1>1. 0 .. (n + 1) - 1 = (0 .. n - 1) \cup {n}
    OBVIOUS
  <1>. QED
    BY <1>1

Inv == TypeOK /\ Sound /\ Progressing /\ Through /\ Merged /\ PassIsWhole

-----------------------------------------------------------------------------
(***************************************************************************)
(* Steps that end a run.                                                   *)
(***************************************************************************)
\* After the end of a run its locals say nothing.
LEMMA EndFacts ==
    ASSUME NEW r \in {"none", "fail", "warn", "pass"}, End(r)
    PROVE  /\ pc' = "idle" /\ result' = r
           /\ req' \in Request /\ next' = 0 /\ seen' = {} /\ done' = {}
           /\ found' = {} /\ failed' = FALSE
  BY RequestType DEF End

LEMMA EndType ==
    ASSUME NEW r \in {"none", "fail", "warn", "pass"}, End(r), Inv,
           exists' = exists, files' \in [Path -> SUBSET SUBSET Record],
           manifest' \subseteq manifest, merged' \subseteq Record,
           report' \in {"none", "fail", "warn", "pass"}, used' = used,
           kills' \in 0 .. MaxKills, faults' = faults
    PROVE  TypeOK'
  <1>1. exists' \in BOOLEAN /\ failed' \in BOOLEAN
    BY EndFacts DEF Inv, TypeOK
  <1>2. /\ pc' \in Step /\ result' \in {"none", "fail", "warn", "pass"}
        /\ req' \in Request /\ next' \in Nat
    <2>1. pc' = "idle" /\ result' = r /\ req' \in Request /\ next' = 0
      BY EndFacts
    <2>. QED
      BY <2>1 DEF Step
  <1>3. /\ seen' \subseteq Entry /\ done' \subseteq Entry /\ found' \subseteq Record
    BY EndFacts
  <1>4. used' \subseteq Setting /\ faults' \in 0 .. MaxFaults /\ manifest' \subseteq Entry
    BY DEF Inv, TypeOK
  <1>. QED
    BY <1>1, <1>2, <1>3, <1>4 DEF TypeOK

\* A kill leaves every file a file of its type and, in the manifest, nothing new.
Dies == Kill \/ KillInWipe \/ KillInOutput \/ KillInMerge \/ KillInManifest

LEMMA DiesFrame ==
    ASSUME Inv, Dies
    PROVE  /\ End("none")
           /\ files' \in [Path -> SUBSET SUBSET Record]
           /\ manifest' \subseteq manifest
           /\ merged' \subseteq Record
           /\ report' \in {"none", "fail", "warn", "pass"}
           /\ UNCHANGED <<exists, used, faults>> /\ kills' \in 0 .. MaxKills
  <1>. USE DEF Inv, TypeOK, Killed
  <1>1. kills' \in 0 .. MaxKills
    BY HarnessBounds DEF Dies, Kill, KillInWipe, KillInOutput, KillInMerge, KillInManifest
  <1>2. CASE Kill
    BY <1>1, <1>2 DEF Kill
  <1>3. CASE KillInWipe
    BY <1>1, <1>3 DEF KillInWipe
  <1>4. CASE KillInOutput
    <2>1. PICK part \in SUBSET Records(req.of, next) :
             files' = [files EXCEPT ![Target] = {part}]
      BY <1>4 DEF KillInOutput, Torn
    <2>2. Records(req.of, next) \subseteq Record
      BY <1>4, PathFacts DEF KillInOutput, Producing, Working, Request
    <2>3. files' \in [Path -> SUBSET SUBSET Record]
      BY <2>1, <2>2
    <2>. QED
      BY <1>1, <1>4, <2>3 DEF KillInOutput
  <1>5. CASE KillInMerge
    BY <1>1, <1>5 DEF KillInMerge
  <1>6. CASE KillInManifest
    BY <1>1, <1>6 DEF KillInManifest
  <1>. QED
    BY <1>2, <1>3, <1>4, <1>5, <1>6 DEF Dies

LEMMA DiesStep == ASSUME Inv, Dies PROVE Inv'
  <1>1. TypeOK'
    BY DiesFrame, EndType
  <1>. USE DiesFrame, EndFacts
  <1>2. Sound'
    BY DEF Inv, Sound, EntriesOf, BeforeWork
  <1>3. Progressing' /\ Through' /\ Merged' /\ PassIsWhole'
    BY DEF Progressing, Through, Merged, PassIsWhole
  <1>. QED
    BY <1>1, <1>2, <1>3 DEF Inv

-----------------------------------------------------------------------------
(***************************************************************************)
(* Steps before the assignments.                                           *)
(***************************************************************************)
LEMMA StartStep ==
    ASSUME Inv, NEW mode \in Mode, NEW s \in Setting, NEW dry \in BOOLEAN, NEW bad \in BOOLEAN,
           Start(mode, s, dry, bad)
    PROVE  Inv'
  <1>1. /\ pc = "idle" /\ pc' \in {"wipe", "open"} /\ result' = "none"
        /\ UNCHANGED <<exists, files, manifest, merged, report, next, seen, done, found, failed,
                       used, kills, faults>>
    BY DEF Start, Goto, output
  <1>2. req' \in Request
    <2>1. (bad \/ Refused(mode)) \in BOOLEAN
      BY DEF Refused
    <2>. QED
      BY <2>1 DEF Start, Request
  <1>3. TypeOK'
    BY <1>1, <1>2 DEF Inv, TypeOK, Step
  <1>4. Sound'
    BY <1>1 DEF Inv, Sound, EntriesOf, BeforeWork
  <1>5. Progressing' /\ Through' /\ Merged' /\ PassIsWhole'
    BY <1>1 DEF Progressing, Through, Merged, PassIsWhole
  <1>. QED
    BY <1>3, <1>4, <1>5 DEF Inv

LEMMA WipeStep == ASSUME Inv, Wipe PROVE Inv'
  <1>1. /\ pc = "wipe" /\ pc' = "open" /\ exists' = FALSE
        /\ files' = [p \in Path |-> {}]
        /\ manifest' = {} /\ merged' = {} /\ report' = "none" /\ used' = {}
        /\ UNCHANGED <<req, next, seen, done, found, failed, result, kills, faults>>
    BY DEF Wipe, Goto, locals
  <1>2. TypeOK'
    BY <1>1 DEF Inv, TypeOK, Step
  <1>3. Sound'
    BY <1>1 DEF Inv, Sound, EntriesOf, BeforeWork
  <1>4. Progressing' /\ Through' /\ Merged' /\ PassIsWhole'
    BY <1>1 DEF Progressing, Through, Merged, PassIsWhole
  <1>. QED
    BY <1>2, <1>3, <1>4 DEF Inv

LEMMA OpenStep == ASSUME Inv, Open PROVE Inv'
  <1>1. /\ pc = "open" /\ exists' = TRUE
        /\ seen' \subseteq manifest
        /\ UNCHANGED <<files, manifest, merged, report, req, next, done, found, failed, result,
                       kills, faults>>
    BY DEF Open
  <1>2. \/ req.blocked /\ pc' = "block" /\ used' = used
        \/ ~req.blocked /\ pc' = "work" /\ used' = used \cup {req.of}
    BY DEF Open, Goto
  <1>3. req.of \in Setting
    BY DEF Inv, TypeOK, Request
  <1>4. TypeOK'
    BY <1>1, <1>2, <1>3 DEF Inv, TypeOK, Step
  <1>5. Sound'
    BY <1>1, <1>2 DEF Inv, Sound, EntriesOf, BeforeWork
  <1>6. Progressing'
    <2>1. next = 0 /\ found = {}
      BY <1>1 DEF Inv, Sound, BeforeWork
    <2>2. \A s \in Setting : UNION {Records(s, a) : a \in 0 .. 0 - 1} = {}
      OBVIOUS
    <2>. QED
      BY <1>1, <2>1, <2>2 DEF Progressing
  <1>7. Through'
    BY <1>1, <1>2, <1>3, CountType DEF Inv, Sound, BeforeWork, Through
  <1>8. Merged' /\ PassIsWhole'
    BY <1>1, <1>2 DEF Inv, Sound, Merged, PassIsWhole
  <1>. QED
    BY <1>4, <1>5, <1>6, <1>7, <1>8 DEF Inv

LEMMA BlockStep == ASSUME Inv, Block PROVE Inv'
  <1>1. /\ pc = "block" /\ pc' = "refuse" /\ manifest' = {}
        /\ UNCHANGED <<exists, files, merged, report, req, next, seen, done, found, failed,
                       result, used, kills, faults>>
    BY DEF Block, Goto, locals
  <1>2. TypeOK'
    BY <1>1 DEF Inv, TypeOK, Step
  <1>3. Sound'
    BY <1>1 DEF Inv, Sound, EntriesOf, BeforeWork
  <1>4. Progressing' /\ Through' /\ Merged' /\ PassIsWhole'
    BY <1>1 DEF Inv, Sound, Progressing, Through, Merged, PassIsWhole
  <1>. QED
    BY <1>2, <1>3, <1>4 DEF Inv

LEMMA RefuseStep == ASSUME Inv, Refuse PROVE Inv'
  <1>1. /\ End("fail") /\ report' = "fail"
        /\ UNCHANGED <<exists, files, manifest, merged, used, kills, faults>>
    BY DEF Refuse
  <1>. USE <1>1, EndFacts
  <1>2. TypeOK'
    BY DEF Inv, TypeOK, Step
  <1>3. Sound'
    BY DEF Inv, Sound, EntriesOf, BeforeWork
  <1>4. Progressing' /\ Through' /\ Merged' /\ PassIsWhole'
    BY DEF Progressing, Through, Merged, PassIsWhole
  <1>. QED
    BY <1>2, <1>3, <1>4 DEF Inv

-----------------------------------------------------------------------------
(***************************************************************************)
(* The assignments.                                                        *)
(***************************************************************************)
\* What goes on to the next assignment: done and found grow by what it yields.
Advances ==
    /\ Working /\ pc' = "work" /\ next' = next + 1
    /\ UNCHANGED <<exists, manifest, merged, report, req, seen, result, used, kills>>

LEMMA WorkingFacts ==
    ASSUME Inv, Working
    PROVE  /\ req.of \in Setting /\ next \in Nat /\ next \in Assignments(req.of)
           /\ next + 1 <= Count(req.of) /\ Count(req.of) \in Nat
           /\ Target \in Path /\ Records(req.of, next) \subseteq Record
           /\ req.of \in used
  <1>1. req.of \in Setting /\ next \in Assignments(req.of)
    BY DEF Inv, TypeOK, Request, Working
  <1>2. req.of \in used
    BY DEF Inv, Sound, BeforeWork, Working
  <1>. QED
    BY <1>1, <1>2, PathFacts, CountType DEF Assignments, Target

LEMMA AdvanceStep ==
    ASSUME Inv, Advances,
           files' \in [Path -> SUBSET SUBSET Record],
           done' \subseteq Entry, found' \subseteq Record, failed' \in BOOLEAN,
           faults' \in 0 .. MaxFaults,
           \A s \in Setting : used \subseteq {s} => EntriesOf(done', s),
           req.dry \/ failed' \/
              (~failed /\ (\A s \in Setting : used = {s} => found' = found \cup Records(s, next)))
    PROVE  Inv'
  <1>1. TypeOK'
    BY WorkingFacts DEF Inv, TypeOK, Advances, Step
  <1>2. Sound'
    BY DEF Inv, Sound, EntriesOf, BeforeWork, Advances, Working
  <1>3. Progressing'
    <2>. SUFFICES ASSUME NEW s \in Setting, used = {s}, ~req.dry, ~failed'
                  PROVE  found' = UNION {Records(s, a) : a \in 0 .. (next + 1) - 1}
      BY DEF Progressing, Advances
    <2>1. found = UNION {Records(s, a) : a \in 0 .. next - 1}
      BY DEF Inv, Progressing, Advances, Working
    <2>2. found' = found \cup Records(s, next)
      OBVIOUS
    <2>. QED
      BY <2>1, <2>2, UnionStep, WorkingFacts DEF Advances
  <1>4. Through'
    BY WorkingFacts DEF Through, Advances
  <1>5. Merged' /\ PassIsWhole'
    BY DEF Inv, Sound, Merged, PassIsWhole, Advances, Working
  <1>. QED
    BY <1>1, <1>2, <1>3, <1>4, <1>5 DEF Inv

LEMMA ReuseStep == ASSUME Inv, Reuse PROVE Inv'
  <1>1. PICK e \in Existing : /\ Valid(e) /\ done' = done \cup {e}
                              /\ found' = found \cup UNION files[e.path]
    BY DEF Reuse
  <1>2. e \in seen /\ e.id = next /\ e \in Entry
    BY <1>1 DEF Existing, Inv, TypeOK
  <1>3. UNION files[e.path] = e.hash /\ e.hash \subseteq Record
    BY <1>1, <1>2 DEF Valid, Entry
  <1>4. \A s \in Setting : used \subseteq {s} => IsOf(e, s)
    BY <1>2 DEF Inv, Sound, EntriesOf
  <1>5. Advances
    BY DEF Reuse, Advances, output, Working
  <1>6. /\ files' \in [Path -> SUBSET SUBSET Record]
        /\ done' \subseteq Entry /\ found' \subseteq Record /\ failed' = failed
        /\ faults' \in 0 .. MaxFaults /\ failed \in BOOLEAN
    BY <1>1, <1>2, <1>3 DEF Reuse, Inv, TypeOK, output
  <1>7. \A s \in Setting : used \subseteq {s} => EntriesOf(done', s)
    BY <1>1, <1>4 DEF Inv, Sound, EntriesOf
  <1>8. \A s \in Setting : used = {s} => found' = found \cup Records(s, next)
    BY <1>1, <1>2, <1>3, <1>4 DEF IsOf
  <1>. QED
    BY <1>5, <1>6, <1>7, <1>8, AdvanceStep

LEMMA DryPlanStep == ASSUME Inv, DryPlan PROVE Inv'
  <1>1. Advances /\ req.dry
    BY DEF DryPlan, Advances, output, Working
  <1>2. /\ files' \in [Path -> SUBSET SUBSET Record]
        /\ done' \subseteq Entry /\ found' \subseteq Record /\ failed' \in BOOLEAN
        /\ faults' \in 0 .. MaxFaults
    BY DEF DryPlan, Inv, TypeOK, output
  <1>3. \A s \in Setting : used \subseteq {s} => EntriesOf(done', s)
    BY DEF DryPlan, Inv, Sound, EntriesOf
  <1>. QED
    BY <1>1, <1>2, <1>3, AdvanceStep

LEMMA ProduceStep == ASSUME Inv, Produce PROVE Inv'
  <1>. DEFINE records == Records(req.of, next)
              e == [id |-> next, path |-> Target, hash |-> records]
  <1>1. /\ Working
        /\ files' = [files EXCEPT ![Target] = {records}]
        /\ done' = done \cup {e} /\ found' = found \cup records
        /\ failed' = failed /\ faults' = faults
    BY DEF Produce, Producing
  <1>2. Advances
    BY DEF Produce, Advances, Producing, Working
  <1>3. e \in Entry
    BY <1>1, WorkingFacts DEF Entry
  <1>4. /\ files' \in [Path -> SUBSET SUBSET Record]
        /\ done' \subseteq Entry /\ found' \subseteq Record /\ failed' \in BOOLEAN
        /\ faults' \in 0 .. MaxFaults
    BY <1>1, <1>3, WorkingFacts DEF Inv, TypeOK
  <1>5. \A s \in Setting : used \subseteq {s} => s = req.of
    BY <1>1, WorkingFacts
  <1>6. IsOf(e, req.of)
    BY <1>1, WorkingFacts DEF IsOf
  <1>7. \A s \in Setting : used \subseteq {s} => EntriesOf(done', s)
    BY <1>1, <1>5, <1>6 DEF Inv, Sound, EntriesOf
  <1>8. \A s \in Setting : used = {s} => found' = found \cup Records(s, next)
    BY <1>1, <1>5
  <1>9. failed \in BOOLEAN
    BY DEF Inv, TypeOK
  <1>. QED
    BY <1>1, <1>2, <1>4, <1>7, <1>8, <1>9, AdvanceStep

LEMMA FailsStep == ASSUME Inv, Fails PROVE Inv'
  <1>1. PICK part \in SUBSET Records(req.of, next) :
           files' = [files EXCEPT ![Target] = {part}]
    BY DEF Fails, Torn
  <1>2. Advances /\ Working
    BY DEF Fails, Advances, Producing, Working
  <1>3. files' \in [Path -> SUBSET SUBSET Record]
    BY <1>1, <1>2, WorkingFacts DEF Inv, TypeOK
  <1>4. done' \subseteq Entry /\ found' \subseteq Record /\ failed' = TRUE
    BY DEF Fails, Inv, TypeOK
  <1>5. faults' \in 0 .. MaxFaults
    BY HarnessBounds DEF Fails, Inv, TypeOK
  <1>6. \A s \in Setting : used \subseteq {s} => EntriesOf(done', s)
    BY DEF Fails, Inv, Sound, EntriesOf
  <1>. QED
    BY <1>2, <1>3, <1>4, <1>5, <1>6, AdvanceStep

LEMMA WorkedStep == ASSUME Inv, Worked PROVE Inv'
  <1>1. /\ pc = "work" /\ pc' = "merge" /\ next \notin Assignments(req.of)
        /\ UNCHANGED <<exists, files, manifest, merged, report, req, next, seen, done, found,
                       failed, result, used, kills, faults>>
    BY DEF Worked, Goto, output, locals
  <1>2. req.of \in Setting /\ next \in Nat
    BY DEF Inv, TypeOK, Request
  <1>3. next = Count(req.of)
    BY <1>1, <1>2, CountType DEF Inv, Through, Assignments
  <1>4. TypeOK'
    BY <1>1 DEF Inv, TypeOK, Step
  <1>5. Sound'
    BY <1>1 DEF Inv, Sound, EntriesOf, BeforeWork
  <1>6. Progressing'
    BY <1>1 DEF Inv, Progressing
  <1>7. Through' /\ Merged'
    BY <1>1, <1>3 DEF Through, Merged
  <1>8. PassIsWhole'
    BY <1>1 DEF Inv, PassIsWhole
  <1>. QED
    BY <1>4, <1>5, <1>6, <1>7, <1>8 DEF Inv

-----------------------------------------------------------------------------
(***************************************************************************)
(* Merge, manifest, report.                                                *)
(***************************************************************************)
LEMMA MergeStep == ASSUME Inv, Merge PROVE Inv'
  <1>1. /\ pc = "merge" /\ pc' = "manifest" /\ merged' = found
        /\ UNCHANGED <<exists, files, manifest, report, req, next, seen, done, found, failed,
                       result, used, kills, faults>>
    BY DEF Merge, Goto, locals
  <1>2. TypeOK'
    BY <1>1 DEF Inv, TypeOK, Step
  <1>3. Sound'
    BY <1>1 DEF Inv, Sound, EntriesOf, BeforeWork
  <1>4. Progressing'
    BY <1>1 DEF Inv, Progressing
  <1>5. Through' /\ Merged'
    BY <1>1 DEF Inv, Through, Merged
  <1>6. PassIsWhole'
    BY <1>1 DEF Inv, Sound, PassIsWhole
  <1>. QED
    BY <1>2, <1>3, <1>4, <1>5, <1>6 DEF Inv

LEMMA ManifestStep == ASSUME Inv, WriteManifest PROVE Inv'
  <1>1. /\ pc = "manifest" /\ pc' = "report" /\ manifest' = done
        /\ UNCHANGED <<exists, files, merged, report, req, next, seen, done, found, failed,
                       result, used, kills, faults>>
    BY DEF WriteManifest, Goto, locals
  <1>2. TypeOK'
    BY <1>1 DEF Inv, TypeOK, Step
  <1>3. Sound'
    BY <1>1 DEF Inv, Sound, EntriesOf, BeforeWork
  <1>4. Progressing'
    BY <1>1 DEF Inv, Progressing
  <1>5. Through' /\ Merged'
    BY <1>1 DEF Inv, Through, Merged
  <1>6. PassIsWhole'
    BY <1>1 DEF Inv, PassIsWhole
  <1>. QED
    BY <1>2, <1>3, <1>4, <1>5, <1>6 DEF Inv

LEMMA ReportStep == ASSUME Inv, Report PROVE Inv'
  <1>1. /\ pc = "report" /\ End(Status) /\ report' = Status
        /\ UNCHANGED <<exists, files, manifest, merged, used, kills, faults>>
    BY DEF Report
  <1>2. Status \in {"none", "fail", "warn", "pass"}
    BY DEF Status
  <1>3. TypeOK'
    <2>1. /\ files \in [Path -> SUBSET SUBSET Record] /\ merged \subseteq Record
          /\ kills \in 0 .. MaxKills
      BY DEF Inv, TypeOK
    <2>. QED
      BY <1>1, <1>2, <2>1, EndType
  <1>. USE <1>1, <1>2, EndFacts
  <1>4. Sound'
    BY DEF Inv, Sound, EntriesOf, BeforeWork
  <1>5. Progressing' /\ Through' /\ Merged'
    BY DEF Progressing, Through, Merged
  <1>6. PassIsWhole'
    <2>. SUFFICES ASSUME NEW s \in used, Status = "pass", used = {s}
                  PROVE  OnceEach(merged, s)
      BY DEF PassIsWhole
    <2>1. s \in Setting /\ req.of = s
      BY DEF Inv, TypeOK, Sound, BeforeWork
    <2>2. ~req.dry /\ ~failed
      BY DEF Status
    <2>3. merged = found /\ next = Count(s)
      BY <2>1 DEF Inv, Merged, Through
    <2>4. found = UNION {Records(s, a) : a \in 0 .. next - 1}
      BY <2>1, <2>2 DEF Inv, Progressing
    <2>5. merged = Candidates(s)
      BY <2>3, <2>4 DEF Candidates, Assignments
    <2>. QED
      BY <2>1, <2>5, AssignmentsPartition
  <1>. QED
    BY <1>3, <1>4, <1>5, <1>6 DEF Inv

-----------------------------------------------------------------------------
LEMMA InitInv == Init => Inv
  <1>. SUFFICES ASSUME Init PROVE Inv
    OBVIOUS
  <1>1. TypeOK
    <2>1. exists \in BOOLEAN /\ failed \in BOOLEAN
      BY DEF Init, NoLocals
    <2>2. files \in [Path -> SUBSET SUBSET Record]
      BY DEF Init
    <2>3. kills \in 0 .. MaxKills /\ faults \in 0 .. MaxFaults
      BY HarnessBounds DEF Init
    <2>. QED
      BY <2>1, <2>2, <2>3, RequestType DEF Init, NoLocals, TypeOK, Step
  <1>2. Sound
    BY DEF Init, NoLocals, Sound, EntriesOf, BeforeWork
  <1>3. Progressing /\ Through /\ Merged /\ PassIsWhole
    BY DEF Init, Progressing, Through, Merged, PassIsWhole
  <1>. QED
    BY <1>1, <1>2, <1>3 DEF Inv

LEMMA StutterStep == ASSUME Inv, UNCHANGED vars PROVE Inv'
  <1>. USE DEF vars, output, locals
  <1>1. TypeOK'
    BY DEF Inv, TypeOK
  <1>2. Sound'
    BY DEF Inv, Sound, EntriesOf, BeforeWork
  <1>3. Progressing' /\ Through'
    BY DEF Inv, Progressing, Through
  <1>4. Merged' /\ PassIsWhole'
    BY DEF Inv, Merged, PassIsWhole
  <1>. QED
    BY <1>1, <1>2, <1>3, <1>4 DEF Inv

LEMMA InvStep == Inv /\ [Next]_vars => Inv'
  <1>. SUFFICES ASSUME Inv, [Next]_vars PROVE Inv'
    OBVIOUS
  <1>1. CASE \E mode \in Mode, s \in Setting, dry, bad \in BOOLEAN : Start(mode, s, dry, bad)
    BY <1>1, StartStep
  <1>2. CASE Wipe \/ Open \/ Block \/ Refuse
    BY <1>2, WipeStep, OpenStep, BlockStep, RefuseStep
  <1>3. CASE Reuse \/ DryPlan \/ Produce \/ Worked \/ Fails
    BY <1>3, ReuseStep, DryPlanStep, ProduceStep, WorkedStep, FailsStep
  <1>4. CASE Merge \/ WriteManifest \/ Report
    BY <1>4, MergeStep, ManifestStep, ReportStep
  <1>5. CASE Kill \/ KillInWipe \/ KillInOutput \/ KillInMerge \/ KillInManifest
    BY <1>5, DiesStep DEF Dies
  <1>6. CASE UNCHANGED vars
    BY <1>6, StutterStep
  <1>. QED
    BY <1>1, <1>2, <1>3, <1>4, <1>5, <1>6 DEF Next, Proceed

\* Every variable has its type in every reachable state.
THEOREM Typed == Spec => []TypeOK
  <1>1. Inv => TypeOK
    BY DEF Inv
  <1>. QED
    BY <1>1, InitInv, InvStep, PTL DEF Spec

\* A passing run of a directory that has seen one setting has merged each example of
\* its dataset once.
THEOREM PassesWhole == Spec => []PassIsWhole
  <1>1. Inv => PassIsWhole
    BY DEF Inv
  <1>. QED
    BY <1>1, InitInv, InvStep, PTL DEF Spec

-----------------------------------------------------------------------------
(***************************************************************************)
(* What a resumption keeps.  With one setting in use there is one entry to *)
(* an assignment; a resumed run has the manifest it found in hand until it *)
(* writes its own, and every entry of it that it has passed and whose file *)
(* is as recorded is among its own completed assignments.                  *)
(***************************************************************************)
EntryOf(s, a) == [id |-> a, path |-> <<Worker(s, a), a>>, hash |-> Records(s, a)]
Entries(s)    == {EntryOf(s, a) : a \in Assignments(s)}

Exact == \A s \in Setting : used \subseteq {s} => manifest \cup seen \cup done \subseteq Entries(s)

Modes ==
    /\ pc = "idle" => req.mode # "resume"
    /\ pc = "wipe" => req.mode = "overwrite"
    /\ pc \in {"block", "refuse"} => req.blocked

TakenOver ==
    req.mode = "resume" /\ pc \in {"work", "merge", "manifest"} =>
        /\ seen = manifest
        /\ used \subseteq {req.of} => \A e \in seen : e.id < next /\ Valid(e) => e \in done

KeepInv == Inv /\ Exact /\ Modes /\ TakenOver

Starts == \E mode \in Mode, s \in Setting, dry, bad \in BOOLEAN : Start(mode, s, dry, bad)

\* Two entries of a setting that name the same assignment are one, and their file
\* is that assignment's own.
LEMMA EntryFacts ==
    ASSUME NEW s \in Setting, NEW e \in Entries(s)
    PROVE  e.id \in Assignments(s) /\ e = EntryOf(s, e.id) /\ e.path = <<Worker(s, e.id), e.id>>
  BY DEF Entries, EntryOf

LEMMA ExactStep == ASSUME Inv, Exact, [Next]_vars PROVE Exact'
  <1>. SUFFICES ASSUME NEW s \in Setting, used' \subseteq {s}
                PROVE  manifest' \cup seen' \cup done' \subseteq Entries(s)
    BY DEF Exact
  <1>1. CASE Wipe
    BY <1>1 DEF Wipe, locals, Inv, Sound, BeforeWork
  <1>2. CASE Open
    BY <1>2 DEF Open, Exact
  <1>3. CASE Reuse
    BY <1>3 DEF Reuse, output, Existing, Exact
  <1>4. CASE Produce
    <2>1. used \subseteq {s} /\ s = req.of /\ next \in Assignments(s)
      BY <1>4, WorkingFacts DEF Produce, Producing
    <2>2. /\ done' = done \cup {EntryOf(s, next)} /\ UNCHANGED <<manifest, seen>>
      BY <1>4, <2>1 DEF Produce, EntryOf, Target
    <2>3. EntryOf(s, next) \in Entries(s)
      BY <2>1 DEF Entries
    <2>. QED
      BY <2>1, <2>2, <2>3 DEF Exact
  <1>5. CASE WriteManifest
    BY <1>5 DEF WriteManifest, locals, Exact
  <1>6. CASE Starts \/ DryPlan \/ Fails \/ Worked \/ Merge
    BY <1>6 DEF Starts, Start, DryPlan, Fails, Worked, Merge, output, locals, Exact
  <1>7. CASE Block \/ Refuse \/ Report
    BY <1>7 DEF Block, Refuse, Report, End, locals, Exact
  <1>8. CASE Dies
    BY <1>8, DiesFrame DEF End, Exact
  <1>9. CASE UNCHANGED vars
    BY <1>9 DEF vars, output, locals, Exact
  <1>. QED
    BY <1>1, <1>2, <1>3, <1>4, <1>5, <1>6, <1>7, <1>8, <1>9 DEF Next, Proceed, Starts, Dies

LEMMA ModesStep == ASSUME Inv, Modes, [Next]_vars PROVE Modes'
  <1>1. CASE Starts
    BY <1>1 DEF Starts, Start, Goto, Modes
  <1>2. CASE Wipe \/ Open \/ Block \/ Worked \/ Merge \/ WriteManifest
    BY <1>2 DEF Wipe, Open, Block, Worked, Merge, WriteManifest, Goto, locals, Modes
  <1>3. CASE Refuse \/ Report
    BY <1>3 DEF Refuse, Report, End, NoRequest, Modes
  <1>4. CASE Reuse \/ DryPlan \/ Produce \/ Fails
    BY <1>4 DEF Reuse, DryPlan, Produce, Fails, Producing, Working, Modes
  <1>5. CASE Dies
    BY <1>5, DiesFrame DEF End, NoRequest, Modes
  <1>6. CASE UNCHANGED vars
    BY <1>6 DEF vars, locals, Modes
  <1>. QED
    BY <1>1, <1>2, <1>3, <1>4, <1>5, <1>6 DEF Next, Proceed, Starts, Dies

\* One assignment on: an entry behind it is as it was, and the entry of the
\* assignment itself is completed or its file is not as recorded.
LEMMA TakenOverAdvance ==
    ASSUME KeepInv, Advances, done \subseteq done',
           \A p \in Path : p # Target => files'[p] = files[p],
           ASSUME used \subseteq {req.of}, NEW e \in seen, e = EntryOf(req.of, next), Valid(e)'
           PROVE  e \in done'
    PROVE  TakenOver'
  <1>. SUFFICES ASSUME req.mode = "resume"
                PROVE  /\ seen' = manifest'
                       /\ used \subseteq {req.of} =>
                             \A e \in seen : e.id < next + 1 /\ Valid(e)' => e \in done'
    BY DEF TakenOver, Advances
  <1>1. seen' = manifest'
    BY DEF KeepInv, TakenOver, Advances, Working
  <1>2. ASSUME used \subseteq {req.of}, NEW e \in seen, e.id < next + 1, Valid(e)'
        PROVE  e \in done'
    <2>1. req.of \in Setting /\ next \in Nat
      BY WorkingFacts DEF KeepInv, Advances
    <2>2. /\ e.id \in Nat /\ e.path \in Path
          /\ e = EntryOf(req.of, e.id) /\ e.path = <<Worker(req.of, e.id), e.id>>
      BY <1>2, <2>1, EntryFacts DEF KeepInv, Exact, Inv, TypeOK, Entry
    <2>3. CASE e.id = next
      BY <1>2, <2>2, <2>3
    <2>4. CASE e.id # next
      <3>1. e.id < next
        BY <1>2, <2>1, <2>2, <2>4
      <3>2. e.path # Target
        BY <2>2, <2>4 DEF Target
      <3>3. Valid(e)
        BY <1>2, <2>2, <3>2 DEF Valid
      <3>. QED
        BY <1>2, <3>1, <3>3 DEF KeepInv, TakenOver, Advances, Working
    <2>. QED
      BY <2>3, <2>4
  <1>. QED
    BY <1>1, <1>2

LEMMA TakenOverStep == ASSUME KeepInv, [Next]_vars PROVE TakenOver'
  <1>t. /\ Inv /\ files \in [Path -> SUBSET SUBSET Record]
    BY DEF KeepInv, Inv, TypeOK
  <1>1. CASE Open
    <2>1. next' = 0 /\ (req.mode = "resume" => seen' = manifest') /\ req' = req
      BY <1>t, <1>1 DEF Open, Inv, Sound, BeforeWork
    <2>2. manifest' \subseteq Entry
      BY <1>t, <1>1 DEF Open, Inv, TypeOK
    <2>3. \A e \in Entry : ~ (e.id < 0)
      BY DEF Entry
    <2>. QED
      BY <2>1, <2>2, <2>3 DEF TakenOver
  <1>2. CASE Reuse
    <2>1. PICK f \in Existing : Valid(f) /\ done' = done \cup {f}
      BY <1>2 DEF Reuse
    <2>2. Advances /\ files' = files
      BY <1>2 DEF Reuse, Advances, output, Working
    <2>3. ASSUME used \subseteq {req.of}, NEW e \in seen, e = EntryOf(req.of, next)
          PROVE  e \in done'
      <3>1. f = EntryOf(req.of, next)
        BY <1>t, <2>1, <2>2, <2>3, EntryFacts, WorkingFacts DEF KeepInv, Exact, Existing, Advances
      <3>. QED
        BY <2>1, <2>3, <3>1
    <2>. QED
      BY <2>1, <2>2, <2>3, TakenOverAdvance
  <1>3. CASE DryPlan
    <2>1. Advances /\ UNCHANGED <<files, done>> /\ ~Reusable
      BY <1>3 DEF DryPlan, Advances, output, Working
    <2>2. ASSUME NEW e \in seen, e = EntryOf(req.of, next), Valid(e)'
          PROVE  FALSE
      BY <2>1, <2>2 DEF Valid, Reusable, Existing, EntryOf
    <2>. QED
      BY <2>1, <2>2, TakenOverAdvance
  <1>4. CASE Produce
    <2>1. /\ Advances /\ done' = done \cup {EntryOf(req.of, next)}
          /\ files' = [files EXCEPT ![Target] = {Records(req.of, next)}]
      BY <1>4 DEF Produce, Producing, Advances, Working, EntryOf, Target
    <2>2. \A p \in Path : p # Target => files'[p] = files[p]
      BY <1>t, <2>1
    <2>. QED
      BY <2>1, <2>2, TakenOverAdvance
  <1>5. CASE Fails
    <2>1. /\ Advances /\ done' = done
      BY <1>5 DEF Fails, Producing, Advances, Working
    <2>2. PICK part \in SUBSET Records(req.of, next) :
             part # Records(req.of, next) /\ files' = [files EXCEPT ![Target] = {part}]
      BY <1>5 DEF Fails, Torn
    <2>3. \A p \in Path : p # Target => files'[p] = files[p]
      BY <1>t, <2>2
    <2>4. Target \in Path
      BY <1>t, <2>1, WorkingFacts DEF Advances
    <2>5. ASSUME NEW e \in seen, e = EntryOf(req.of, next), Valid(e)'
          PROVE  FALSE
      BY <1>t, <2>2, <2>4, <2>5 DEF Valid, EntryOf, Target
    <2>. QED
      BY <2>1, <2>3, <2>5, TakenOverAdvance
  <1>6. CASE Worked \/ Merge
    BY <1>6 DEF Worked, Merge, output, locals, Goto, KeepInv, TakenOver, Valid
  <1>7. CASE Starts \/ Wipe \/ Block \/ Refuse \/ WriteManifest \/ Report
    BY <1>7 DEF Starts, Start, Wipe, Block, Refuse, WriteManifest, Report, End, Goto, TakenOver
  <1>8. CASE Dies
    BY <1>t, <1>8, DiesFrame DEF End, TakenOver
  <1>9. CASE UNCHANGED vars
    BY <1>9 DEF vars, output, locals, KeepInv, TakenOver, Valid
  <1>. QED
    BY <1>1, <1>2, <1>3, <1>4, <1>5, <1>6, <1>7, <1>8, <1>9 DEF Next, Proceed, Starts, Dies

\* The entries a resumed run found complete are complete when it writes its manifest.
LEMMA ResumeKeeps ==
    ASSUME KeepInv, [Next]_vars, req.mode = "resume", ~req.blocked, used \subseteq {req.of},
           kills' = kills, NEW e \in manifest, Valid(e)
    PROVE  e \in manifest' /\ files'[e.path] = files[e.path]
  <1>t. /\ Inv /\ files \in [Path -> SUBSET SUBSET Record] /\ e.path \in Path
        /\ req.of \in Setting
    BY DEF KeepInv, Inv, TypeOK, Entry, Request
  <1>f. e = EntryOf(req.of, e.id) /\ e.id \in Assignments(req.of)
    BY <1>t, EntryFacts DEF KeepInv, Exact
  <1>1. CASE WriteManifest
    <2>1. next = Count(req.of) /\ e.id < next
      BY <1>t, <1>1, <1>f, CountType DEF WriteManifest, Inv, Through, Assignments
    <2>2. e \in done
      BY <1>1, <2>1 DEF WriteManifest, KeepInv, TakenOver
    <2>. QED
      BY <1>1, <2>2 DEF WriteManifest
  <1>2. CASE Produce \/ Fails
    <2>1. /\ Producing /\ manifest' = manifest
          /\ \A p \in Path : p # Target => files'[p] = files[p]
      BY <1>t, <1>2 DEF Produce, Fails, Torn
    <2>2. e.path # Target
      <3>1. seen = manifest
        BY <2>1 DEF Producing, Working, KeepInv, TakenOver
      <3>2. e.path = <<Worker(req.of, e.id), e.id>>
        BY <1>f DEF EntryOf
      <3>3. e.id # next
        BY <2>1, <3>1 DEF Producing, Reusable, Existing
      <3>. QED
        BY <3>2, <3>3 DEF Target
    <2>. QED
      BY <1>t, <2>1, <2>2
  <1>3. CASE Starts \/ Wipe \/ Block \/ Refuse
    BY <1>3 DEF Starts, Start, Wipe, Block, Refuse, KeepInv, Modes
  <1>4. CASE Open \/ Reuse \/ DryPlan \/ Worked \/ Merge \/ Report
    BY <1>4 DEF Open, Reuse, DryPlan, Worked, Merge, Report, output
  <1>5. CASE Dies
    <2>1. kills' = kills + 1 /\ kills \in Nat
      BY <1>t, <1>5, HarnessBounds DEF Dies, Kill, KillInWipe, KillInOutput, KillInMerge,
         KillInManifest, Killed, Inv, TypeOK
    <2>. QED
      BY <2>1
  <1>6. CASE UNCHANGED vars
    BY <1>6 DEF vars, output
  <1>. QED
    BY <1>1, <1>2, <1>3, <1>4, <1>5, <1>6 DEF Next, Proceed, Starts, Dies

\* A resumption never loses a completed assignment whose file is as recorded: neither
\* the files it writes nor the manifest it leaves takes it back.
THEOREM ProgressIsKept == Spec => ProgressStays
  <1>1. Init => KeepInv
    <2>. SUFFICES ASSUME Init PROVE KeepInv
      OBVIOUS
    <2>1. Inv
      BY InitInv
    <2>2. Exact /\ Modes /\ TakenOver
      BY DEF Init, NoLocals, NoRequest, Exact, Modes, TakenOver
    <2>. QED
      BY <2>1, <2>2 DEF KeepInv
  <1>2. KeepInv /\ [Next]_vars => KeepInv'
    <2>. SUFFICES ASSUME KeepInv, [Next]_vars PROVE KeepInv'
      OBVIOUS
    <2>. QED
      BY InvStep, ExactStep, ModesStep, TakenOverStep DEF KeepInv
  <1>3. KeepInv /\ [Next]_vars
          => [req.mode = "resume" /\ ~req.blocked /\ used \subseteq {req.of} /\ kills' = kills
                => \A e \in manifest :
                      Valid(e) => e \in manifest' /\ files'[e.path] = files[e.path]]_vars
    BY ResumeKeeps
  <1>. QED
    BY <1>1, <1>2, <1>3, PTL DEF Spec, ProgressStays
=============================================================================
