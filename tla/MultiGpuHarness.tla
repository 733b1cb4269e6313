-------------------------- MODULE MultiGpuHarness --------------------------
(***************************************************************************)
(* run_multi_gpu_path_b_candidate_harness (builder/multi_gpu_path_b.py):   *)
(* the coordinator splits the examples into assignments, gives them to the *)
(* devices in turn, has the candidates of each written to a file of its    *)
(* worker, merges them and writes the worker manifest and the report.  A   *)
(* resumed run takes over an assignment when the manifest it finds names   *)
(* it complete and the file still has the recorded hash.                   *)
(*                                                                         *)
(* Files are written in place: one being written when the coordinator is   *)
(* killed holds a part of its content.  A hash stands for the content it   *)
(* was taken of.  A manifest that is missing, torn or empty is read as one *)
(* that names nothing, so all three are the empty set here.                *)
(***************************************************************************)
EXTENDS Integers, FiniteSets

CONSTANTS
    Setting,        \* settings of a run: [source, examples, size, devices]
    MaxKills,       \* bound: coordinators killed
    MaxFaults       \* bound: assignments that fail

ASSUME SettingAssumption ==
    /\ Setting # {}
    /\ \A s \in Setting : {s.examples, s.size, s.devices} \subseteq Nat \ {0}
ASSUME HarnessBounds == {MaxKills, MaxFaults} \subseteq Nat

(***************************************************************************)
(* build_path_b_assignments and _fake_candidate_records.                   *)
(***************************************************************************)
Smaller(m, n) == IF m <= n THEN m ELSE n

Count(s) == (s.examples + s.size - 1) \div s.size
Assignments(s) == 0 .. Count(s) - 1
Worker(s, a) == a % s.devices

\* Fault: the last example of a shard is taken by the next one too.
ShardInclusive(s, a) == a * s.size .. Smaller((a + 1) * s.size, s.examples - 1)

Shard(s, a) == a * s.size .. Smaller((a + 1) * s.size, s.examples) - 1

\* A candidate record names its source, its example and its assignment.
Records(s, a) == {[source |-> s.source, example |-> e, id |-> a] : e \in Shard(s, a)}

\* What a run of these settings is to merge.
Candidates(s) == UNION {Records(s, a) : a \in Assignments(s)}

Path   == UNION {{<<Worker(s, a), a>> : a \in Assignments(s)} : s \in Setting}
Record == UNION {Candidates(s) : s \in Setting}
Entry  == [id : Nat, path : Path, hash : SUBSET Record]

VARIABLES
    exists,         \* the output directory exists
    files,          \* files[<<w, a>>]: {} or the set of its one content
    manifest,       \* completed assignments multi_gpu_worker_manifest.json names
    merged,         \* records of merged_candidates.jsonl
    report,         \* status in multi_gpu_path_b_report.json
    pc,             \* what the coordinator does next
    req,            \* the run: its mode and settings, dry run, blocked
    next,           \* the next assignment
    seen,           \* completed assignments of the manifest read
    done,           \* completed assignments of this run
    found,          \* its candidate records
    failed,         \* an assignment has failed
    result,         \* status the last run returned
    used,           \* history: settings of the runs that worked in this directory
    kills, faults

output == <<exists, files, manifest, merged, report>>
locals == <<req, next, seen, done, found, failed>>
vars   == <<output, pc, locals, result, used, kills, faults>>

Mode == {"fresh", "resume", "overwrite"}
Step == {"idle", "wipe", "open", "block", "refuse", "work", "merge", "manifest", "report"}
Request == [mode : Mode, of : Setting, dry : BOOLEAN, blocked : BOOLEAN]

NoRequest == [mode |-> "fresh", of |-> CHOOSE s \in Setting : TRUE,
              dry |-> FALSE, blocked |-> FALSE]

NoLocals == /\ req = NoRequest /\ next = 0 /\ seen = {}
            /\ done = {} /\ found = {} /\ failed = FALSE

Init ==
    /\ exists = FALSE
    /\ files = [p \in Path |-> {}]
    /\ manifest = {} /\ merged = {} /\ report = "none"
    /\ pc = "idle" /\ NoLocals /\ result = "none"
    /\ used = {}
    /\ kills = 0 /\ faults = 0

Goto(s) == pc' = s

\* The run ends and forgets its locals.
End(r) ==
    /\ pc' = "idle" /\ result' = r
    /\ req' = NoRequest /\ next' = 0 /\ seen' = {}
    /\ done' = {} /\ found' = {} /\ failed' = FALSE

-----------------------------------------------------------------------------
(***************************************************************************)
(* Blockers, removal, and the manifest found.                              *)
(***************************************************************************)
\* Fault: a resumed run is refused a directory that exists.
RefusedOnResume(mode) == exists /\ mode # "overwrite"

\* "output exists; use --resume or --overwrite"
Refused(mode) == exists /\ mode = "fresh"

\* bad: a blocker of the inputs, the devices or the execution mode.
Start(mode, s, dry, bad) ==
    /\ pc = "idle"
    /\ req' = [mode |-> mode, of |-> s, dry |-> dry, blocked |-> bad \/ Refused(mode)]
    /\ Goto(IF exists /\ mode = "overwrite" THEN "wipe" ELSE "open")
    /\ result' = "none"
    /\ UNCHANGED <<output, next, seen, done, found, failed, used, kills, faults>>

\* The directory is removed whether or not there are blockers.
Wipe ==
    /\ pc = "wipe"
    /\ exists' = FALSE
    /\ files' = [p \in Path |-> {}]
    /\ manifest' = {} /\ merged' = {} /\ report' = "none"
    /\ used' = {}
    /\ Goto("open")
    /\ UNCHANGED <<locals, result, kills, faults>>

Open ==
    /\ pc = "open"
    /\ exists' = TRUE
    /\ seen' = IF req.mode = "resume" THEN manifest ELSE {}
    /\ used' = IF req.blocked THEN used ELSE used \cup {req.of}
    /\ Goto(IF req.blocked THEN "block" ELSE "work")
    /\ UNCHANGED <<files, manifest, merged, report, req, next, done, found, failed, result,
                   kills, faults>>

\* A blocked run writes a manifest that names nothing complete, then its report.
Block ==
    /\ pc = "block"
    /\ manifest' = {}
    /\ Goto("refuse")
    /\ UNCHANGED <<exists, files, merged, report, locals, result, used, kills, faults>>

Refuse ==
    /\ pc = "refuse"
    /\ report' = "fail"
    /\ End("fail")
    /\ UNCHANGED <<exists, files, manifest, merged, used, kills, faults>>

-----------------------------------------------------------------------------
(***************************************************************************)
(* The assignments, in order.                                              *)
(***************************************************************************)
Working == pc = "work" /\ next \in Assignments(req.of)

\* Fault: the file is there, whatever it holds.
ValidPresent(e) == files[e.path] # {}

\* _completed_output_is_valid
Valid(e) == files[e.path] = {e.hash}

Existing == {e \in seen : e.id = next}
Reusable == \E e \in Existing : Valid(e)

Reuse ==
    /\ Working /\ Reusable
    /\ \E e \in Existing :
          /\ Valid(e)
          /\ done' = done \cup {e}
          /\ found' = found \cup UNION files[e.path]
    /\ next' = next + 1
    /\ UNCHANGED <<output, pc, req, seen, failed, result, used, kills, faults>>

\* Fault: a dry run plans every assignment anew.
DryPlanAll ==
    /\ Working /\ req.dry
    /\ next' = next + 1
    /\ UNCHANGED <<output, pc, req, seen, done, found, failed, result, used, kills, faults>>

\* A planned assignment has no output: no later run takes it for complete.
DryPlan ==
    /\ Working /\ ~Reusable /\ req.dry
    /\ next' = next + 1
    /\ UNCHANGED <<output, pc, req, seen, done, found, failed, result, used, kills, faults>>

Producing == Working /\ ~Reusable /\ ~req.dry
Target == <<Worker(req.of, next), next>>

Produce ==
    /\ Producing
    /\ LET records == Records(req.of, next) IN
          /\ files' = [files EXCEPT ![Target] = {records}]
          /\ done' = done \cup {[id |-> next, path |-> Target, hash |-> records]}
          /\ found' = found \cup records
    /\ next' = next + 1
    /\ UNCHANGED <<exists, manifest, merged, report, pc, req, seen, failed, result, used,
                   kills, faults>>

\* A part of the file is written.
Torn(p, records) ==
    \E part \in SUBSET records : part # records /\ files' = [files EXCEPT ![p] = {part}]

Fails ==
    /\ Producing /\ faults < MaxFaults
    /\ faults' = faults + 1
    /\ Torn(Target, Records(req.of, next))
    /\ failed' = TRUE
    /\ next' = next + 1
    /\ UNCHANGED <<exists, manifest, merged, report, pc, req, seen, done, found, result, used,
                   kills>>

Worked ==
    /\ pc = "work" /\ next \notin Assignments(req.of)
    /\ Goto("merge")
    /\ UNCHANGED <<output, locals, result, used, kills, faults>>

-----------------------------------------------------------------------------
(***************************************************************************)
(* Merge, manifest, report.                                                *)
(***************************************************************************)
\* The order of the merge depends on the records only: a set stands for it.
Merge ==
    /\ pc = "merge"
    /\ merged' = found
    /\ Goto("manifest")
    /\ UNCHANGED <<exists, files, manifest, report, locals, result, used, kills, faults>>

WriteManifest ==
    /\ pc = "manifest"
    /\ manifest' = done
    /\ Goto("report")
    /\ UNCHANGED <<exists, files, merged, report, locals, result, used, kills, faults>>

Status == IF failed THEN "fail" ELSE IF req.dry THEN "warn" ELSE "pass"

Report ==
    /\ pc = "report"
    /\ report' = Status
    /\ End(Status)
    /\ UNCHANGED <<exists, files, manifest, merged, used, kills, faults>>

-----------------------------------------------------------------------------
(***************************************************************************)
(* Kills.                                                                  *)
(***************************************************************************)
Killed ==
    /\ pc # "idle" /\ kills < MaxKills
    /\ kills' = kills + 1
    /\ End("none")
    /\ UNCHANGED <<exists, used, faults>>

Kill == Killed /\ UNCHANGED <<files, manifest, merged, report>>

\* rmtree takes the files in any order.
KillInWipe ==
    /\ Killed /\ pc = "wipe"
    /\ \E gone \in SUBSET Path :
          files' = [p \in Path |-> IF p \in gone THEN {} ELSE files[p]]
    /\ manifest' \in {manifest, {}}
    /\ merged' \in {merged, {}}
    /\ report' \in {report, "none"}

KillInOutput ==
    /\ Killed /\ Producing
    /\ Torn(Target, Records(req.of, next))
    /\ UNCHANGED <<manifest, merged, report>>

KillInMerge ==
    /\ Killed /\ pc = "merge"
    /\ \E part \in SUBSET found : merged' = part
    /\ UNCHANGED <<files, manifest, report>>

KillInManifest ==
    /\ Killed /\ pc \in {"manifest", "block"}
    /\ manifest' = {}
    /\ UNCHANGED <<files, merged, report>>

Proceed ==
    \/ Wipe \/ Open \/ Block \/ Refuse
    \/ Reuse \/ DryPlan \/ Produce \/ Worked
    \/ Merge \/ WriteManifest \/ Report

Next ==
    \/ \E mode \in Mode, s \in Setting, dry, bad \in BOOLEAN : Start(mode, s, dry, bad)
    \/ Proceed
    \/ Fails
    \/ Kill \/ KillInWipe \/ KillInOutput \/ KillInMerge \/ KillInManifest

Spec == Init /\ [][Next]_vars

\* A run that is not killed goes on; somebody keeps resuming with sound inputs.
Resume == \E s \in Setting : Start("resume", s, FALSE, FALSE)
LiveSpec == Spec /\ WF_vars(Proceed) /\ SF_vars(Resume)

-----------------------------------------------------------------------------
(***************************************************************************)
(* Properties.                                                             *)
(***************************************************************************)
TypeOK ==
    /\ exists \in BOOLEAN
    /\ files \in [Path -> SUBSET SUBSET Record]
    /\ manifest \subseteq Entry /\ merged \subseteq Record
    /\ report \in {"none", "fail", "warn", "pass"}
    /\ pc \in Step /\ req \in Request /\ next \in Nat
    /\ seen \subseteq Entry /\ done \subseteq Entry
    /\ found \subseteq Record /\ failed \in BOOLEAN
    /\ result \in {"none", "fail", "warn", "pass"}
    /\ used \subseteq Setting
    /\ kills \in 0 .. MaxKills /\ faults \in 0 .. MaxFaults

\* One record of each example.
OnceEach(records, s) ==
    /\ {r.example : r \in records} = 0 .. s.examples - 1
    /\ \A r, q \in records : r.example = q.example => r = q

\* A passing run has merged each example of its dataset once, however many runs
\* were killed, failed, blocked or dry before it, as long as they all had these
\* settings.  (The manifest records the settings and a resumption does not compare
\* them: after a change of shard size it passes with examples lost or doubled.)
PassIsWhole ==
    \A s \in used : result = "pass" /\ used = {s} => OnceEach(merged, s)

\* A completed assignment whose file is as recorded stays completed for the next
\* resumption: only an overwriting or a blocked run, a kill in the write of the
\* manifest, or other settings take it back.
ProgressStays ==
    [][req.mode = "resume" /\ ~req.blocked /\ used \subseteq {req.of} /\ kills' = kills
         => \A e \in manifest :
               Valid(e) => e \in manifest' /\ files'[e.path] = files[e.path]]_vars

\* Whatever is left by kills, failures, blocked and dry runs, resuming it passes.
ResumePasses == []<>(result = "pass")

(***************************************************************************)
(* The inductive invariant: with one setting in use, every completed       *)
(* assignment known to anybody is of that setting.                         *)
(***************************************************************************)
IsOf(e, s) == e.id \in Nat /\ e.hash = Records(s, e.id)
EntriesOf(E, s) == \A e \in E : IsOf(e, s)

BeforeWork == pc \in {"idle", "wipe", "open", "block", "refuse"}
Sound ==
    /\ \A s \in Setting : used \subseteq {s} =>
          EntriesOf(manifest, s) /\ EntriesOf(seen, s) /\ EntriesOf(done, s)
    /\ ~BeforeWork => req.of \in used /\ ~req.blocked
    /\ BeforeWork => next = 0 /\ done = {} /\ found = {} /\ ~failed
    /\ pc \in {"idle", "wipe", "open"} => seen = {}
    /\ pc # "idle" => result = "none"

\* The records found are those of the assignments gone through.
Progressing ==
    \A s \in Setting :
        used = {s} /\ pc \in {"work", "merge", "manifest", "report"} /\ ~req.dry /\ ~failed
        => found = UNION {Records(s, a) : a \in 0 .. next - 1}

Through ==
    /\ pc = "work" => next <= Count(req.of)
    /\ pc \in {"merge", "manifest", "report"} => next = Count(req.of)

Merged == pc \in {"manifest", "report"} => merged = found
=============================================================================
