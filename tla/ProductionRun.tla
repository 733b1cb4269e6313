--------------------------- MODULE ProductionRun ---------------------------
(***************************************************************************)
(* build_production_gpu_tome (builder/production.py) on the native Path-B  *)
(* route: one run takes the output directory through the stages preflight, *)
(* score pass, authorities and selection, selected rerun, assembly,        *)
(* validation and cover, publication and report.  A run that is killed or  *)
(* fails leaves the directory as it is; the next one resumes, overwrites   *)
(* or is rejected.  The publication is V4Publication's, on shared state.   *)
(*                                                                         *)
(* A source stands for what decides the selected records (dataset and      *)
(* selection settings).  The score pass is kept to what StreamingScorePass *)
(* shows of it: a pass that has created its store cannot be completed by a *)
(* resumed run, because the native route stores the score-pass target type *)
(* (the two-pass configurations of that module).                           *)
(***************************************************************************)
EXTENDS V4Publication

CONSTANTS
    MaxKills,       \* bound: processes killed
    MaxFaults,      \* bound: stages that fail
    MaxDrifts       \* bound: resumptions that name another source than the run before

ASSUME ProductionBounds == {MaxKills, MaxFaults, MaxDrifts} \subseteq Nat
ASSUME StartedAssumption == "started" \notin Source \cup {None}

VARIABLES
    files,          \* the directory holds files (the progress file is the first)
    score,          \* run_manifest.json and the target store
    selected,       \* selected_exemplars/: None, "started", or the source of its payloads
    delivery,       \* delivery_report.json: the source it reports on
    cover,          \* cover page
    report,         \* status in production_build_report.json
    pc,             \* what the run in progress does next
    req,            \* its mode and source
    result,         \* how the last run ended
    last,           \* source of the last run that was not rejected
    kills, faults, drifts

output == <<files, score, selected, delivery, cover, report>>
counts == <<kills, faults, drifts>>
vars   == <<v4vars, output, pc, req, result, last, counts>>

Mode  == {"fresh", "resume", "overwrite"}
Score == {"none", "begun", "stored", "complete"}
Stage == {"idle", "assess", "preflight", "wipe", "plan", "score", "emit", "finish",
          "select", "rerun", "assemble", "deliver", "validate", "publish", "report",
          "finalize", "fail"}

NoRequest == [mode |-> "fresh", src |-> CHOOSE s \in Source : TRUE]

Init ==
    /\ V4Init
    /\ files = FALSE /\ score = "none" /\ selected = None /\ delivery = None
    /\ cover = FALSE /\ report = "none"
    /\ pc = "idle" /\ req = NoRequest /\ result = "none"
    /\ last = None
    /\ kills = 0 /\ faults = 0 /\ drifts = 0

Goto(s) == pc' = s
End(r)  == pc' = "idle" /\ req' = NoRequest /\ result' = r
Goes(s) == Goto(s) /\ UNCHANGED <<req, result, last, counts>>

-----------------------------------------------------------------------------
(***************************************************************************)
(* Preflight.                                                              *)
(***************************************************************************)
Start(mode, src) ==
    /\ pc = "idle"
    /\ LET drifting == mode = "resume" /\ last \notin {None, src} IN
          /\ drifting => drifts < MaxDrifts
          /\ drifts' = IF drifting THEN drifts + 1 ELSE drifts
    /\ Goto("assess")
    /\ req' = [mode |-> mode, src |-> src]
    /\ result' = "none"
    /\ UNCHANGED <<v4vars, output, last, kills, faults>>

\* An ownership marker: run_manifest.json, metadata.json or the production report.
Marked == score # "none" \/ report # "none"

\* assess_production_preflight
Rejected ==
    \/ ~files /\ req.mode = "resume"
    \/ files /\ ~Marked
    \/ Marked /\ req.mode = "fresh"

Reject ==
    /\ pc = "assess" /\ Rejected
    /\ End("rejected")
    /\ UNCHANGED <<v4vars, output, last, counts>>

\* The progress file is the first one written.
Accept ==
    /\ pc = "assess" /\ ~Rejected
    /\ files' = TRUE
    /\ last' = req.src
    /\ Goto("preflight")
    /\ UNCHANGED <<v4vars, score, selected, delivery, cover, report, req, result, counts>>


\* validate_selected_exemplar_delivery: none begun, or one delivered whole
Consistent == selected = None \/ (selected = delivery /\ delivery # None)

\* probe_c6_finalization_only_resume: delivered whole with the run's settings
Eligible ==
    /\ req.mode = "resume" /\ score = "complete"
    /\ delivery = req.src /\ selected = req.src

Preflight ==
    /\ pc = "preflight"
    /\ Goes(IF Eligible THEN "finalize"
            ELSE IF req.mode = "overwrite" /\ score # "none" THEN "wipe" ELSE "plan")
    /\ UNCHANGED <<v4vars, output>>

\* rmtree(output_dir): the staging directory and the pair are beside it.
Wipe ==
    /\ pc = "wipe"
    /\ files' = FALSE /\ score' = "none" /\ selected' = None /\ delivery' = None
    /\ cover' = FALSE /\ report' = "none"
    /\ Goes("plan")
    /\ UNCHANGED v4vars

\* run_plan.json
Plan ==
    /\ pc = "plan"
    /\ files' = TRUE
    /\ Goes("score")
    /\ UNCHANGED <<v4vars, score, selected, delivery, cover, report>>

-----------------------------------------------------------------------------
(***************************************************************************)
(* The score pass.                                                         *)
(***************************************************************************)
ScoreBegins ==
    /\ pc = "score"
    /\ \/ score = "none" /\ req.mode # "resume"
       \/ score = "begun" /\ req.mode = "resume"
    /\ score' = "begun"
    /\ Goes("emit")
    /\ UNCHANGED <<v4vars, files, selected, delivery, cover, report>>

\* No manifest to resume; a store found by the resumption; a complete pass whose
\* validation finds a delivery begun and not finished.
ScoreFails ==
    /\ pc = "score" /\ req.mode = "resume"
    /\ score \in {"none", "stored"} \/ (score = "complete" /\ ~Consistent)
    /\ Goes("fail")
    /\ UNCHANGED <<v4vars, output>>

ScoreSkips ==
    /\ pc = "score" /\ req.mode = "resume" /\ score = "complete" /\ Consistent
    /\ Goes("select")
    /\ UNCHANGED <<v4vars, output>>

Emit ==
    /\ pc = "emit"
    /\ score' = "stored"
    /\ Goes("finish")
    /\ UNCHANGED <<v4vars, files, selected, delivery, cover, report>>

FinishScore ==
    /\ pc = "finish"
    /\ score' = "complete"
    /\ Goes("select")
    /\ UNCHANGED <<v4vars, files, selected, delivery, cover, report>>

-----------------------------------------------------------------------------
(***************************************************************************)
(* Corridors, authorities and selection; selected rerun; assembly.         *)
(***************************************************************************)
Select ==
    /\ pc = "select"
    /\ Goes("rerun")
    /\ UNCHANGED <<v4vars, output>>

\* selected_exemplars/ is created; public payloads and their index are removed.
BeginRerun ==
    /\ pc = "rerun"
    /\ selected' = "started"
    /\ Goes("assemble")
    /\ UNCHANGED <<v4vars, files, score, delivery, cover, report>>

\* Staged payloads are promoted and indexed; the delivery report comes last.
Assemble ==
    /\ pc = "assemble"
    /\ selected' = req.src
    /\ Goes("deliver")
    /\ UNCHANGED <<v4vars, files, score, delivery, cover, report>>

Deliver ==
    /\ pc = "deliver"
    /\ delivery' = req.src
    /\ Goes("validate")
    /\ UNCHANGED <<v4vars, files, score, selected, cover, report>>

\* Validation, linkage audit, reconciliation, cover page.
Validate ==
    /\ pc = "validate"
    /\ cover' = TRUE
    /\ step' = "choose"
    /\ Goes("publish")
    /\ UNCHANGED <<public, staging, candidates, files, score, selected, delivery, report>>

-----------------------------------------------------------------------------
(***************************************************************************)
(* Publication and report.                                                 *)
(***************************************************************************)
Publishing ==
    /\ pc = "publish"
    /\ Publish(req.mode, delivery)
    /\ UNCHANGED <<output, pc, req, result, last, counts>>

PublicationEnds ==
    /\ pc = "publish" /\ step \in {"published", "raised"}
    /\ Goes(IF step = "published" THEN "report" ELSE "fail")
    /\ step' = "idle"
    /\ UNCHANGED <<public, staging, candidates, output>>

Report ==
    /\ pc = "report"
    /\ report' = "pass"
    /\ End("published")
    /\ UNCHANGED <<v4vars, files, score, selected, delivery, cover, last, counts>>

\* _resume_c6_finalization: validation, cover and a passing report; no publication.
Finalize ==
    /\ pc = "finalize"
    /\ cover' = TRUE /\ report' = "pass"
    /\ End("finalized")
    /\ UNCHANGED <<v4vars, files, score, selected, delivery, last, counts>>

\* A stage raises, or finds blockers.
StageFails ==
    /\ pc \in {"plan", "emit", "finish", "select", "assemble", "deliver", "validate", "publish"}
    /\ faults < MaxFaults
    /\ faults' = faults + 1
    /\ Goto("fail")
    /\ Stop
    /\ UNCHANGED <<output, req, result, last, kills, drifts>>

Fail ==
    /\ pc = "fail"
    /\ report' = "fail"
    /\ End("failed")
    /\ UNCHANGED <<v4vars, files, score, selected, delivery, cover, last, counts>>

-----------------------------------------------------------------------------
(***************************************************************************)
(* Kills.                                                                  *)
(***************************************************************************)
Killed ==
    /\ pc # "idle" /\ kills < MaxKills
    /\ kills' = kills + 1
    /\ End("none")
    /\ UNCHANGED <<last, faults, drifts>>

Kill == Killed /\ Stop /\ UNCHANGED output

KillInPublication == Killed /\ StopInRemoval /\ UNCHANGED output

\* rmtree takes the files in any order.
KillInWipe ==
    /\ Killed /\ pc = "wipe"
    /\ score' \in {score, "none"}
    /\ selected' \in {selected, None} \cup (IF selected = None THEN {} ELSE {"started"})
    /\ delivery' \in {delivery, None}
    /\ cover' \in {cover, FALSE}
    /\ report' \in {report, "none"}
    /\ UNCHANGED <<v4vars, files>>

Proceed ==
    \/ Reject \/ Accept \/ Preflight \/ Wipe \/ Plan
    \/ ScoreBegins \/ ScoreFails \/ ScoreSkips \/ Emit \/ FinishScore
    \/ Select \/ BeginRerun \/ Assemble \/ Deliver \/ Validate
    \/ Publishing \/ PublicationEnds \/ Report \/ Finalize \/ Fail

Resume == \E src \in Source : Start("resume", src)

Next ==
    \/ \E mode \in Mode, src \in Source : Start(mode, src)
    \/ Proceed
    \/ StageFails
    \/ Kill \/ KillInPublication \/ KillInWipe

Spec == Init /\ [][Next]_vars

\* A run that is not killed goes on; the user keeps resuming.
LiveSpec == Spec /\ WF_vars(Proceed) /\ SF_vars(Resume)

-----------------------------------------------------------------------------
TypeOK ==
    /\ V4TypeOK
    /\ files \in BOOLEAN /\ score \in Score
    /\ selected \in Source \cup {None, "started"}
    /\ delivery \in Source \cup {None}
    /\ cover \in BOOLEAN /\ report \in {"none", "fail", "pass"}
    /\ pc \in Stage /\ req \in [mode : Mode, src : Source]
    /\ result \in {"none", "rejected", "failed", "published", "finalized"}
    /\ last \in Source \cup {None}
    /\ kills \in 0 .. MaxKills /\ faults \in 0 .. MaxFaults /\ drifts \in 0 .. MaxDrifts

\* A run that was not a resumption and reports a publication leaves the pair of the
\* records it has delivered.  (A resumption returns a pair it finds without asking
\* which build it is of.)
PublishedIsDelivered ==
    [][result' = "published" /\ result # "published" /\ req.mode # "resume"
         => package' = delivery' /\ archive' = delivery' /\ selected' = delivery' /\ cover']_vars

\* A complete pair, once public, is replaced by an overwriting run only: a fresh run
\* is refused and a resumption returns it.
PairStays ==
    [][req.mode # "overwrite" /\ package \in Source /\ archive # None
         => UNCHANGED public]_vars

\* A run has reported the build: its records are delivered as selected, behind a
\* cover.  The pass that finalizes a delivered build reports as well.
Completed ==
    /\ result \in {"published", "finalized"}
    /\ delivery \in Source /\ selected = delivery /\ cover

\* A run has stopped between the start of its selected rerun and the delivery
\* report: resumptions are refused from then on.
Stranded == pc = "idle" /\ selected \notin {None, delivery}

\* A build whose score pass is complete and whose selected rerun has not begun is
\* completed by resuming it, whatever is killed or fails before and after that
\* rerun, unless a run is stopped inside it or the build is overwritten.
ResumeCompletes ==
    (score = "complete" /\ selected = None) ~> (Completed \/ Stranded \/ score # "complete")
=============================================================================
