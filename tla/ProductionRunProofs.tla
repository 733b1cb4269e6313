------------------------ MODULE ProductionRunProofs ------------------------
(***************************************************************************)
(* Theorems about ProductionRun and the publication it is composed with,   *)
(* for every set of sources, number of shards and every bound; and about   *)
(* TuiRun, the wizard that starts such runs, for any number of workers and *)
(* screens.                                                                *)
(***************************************************************************)
EXTENDS ProductionRun, TuiRun, TLAPS

Staging    == {"seal", "receipt"}
Sealed     == {"markComplete", "materialize", "pack", "promoteDirectory", "promoteArchive"}
NoArchive  == {"prepare"} \cup Staging \cup Sealed
NoPackage  == (NoArchive \cup {"removeArchive"}) \ {"promoteArchive"}

\* A publication runs inside the stage of its name, on records delivered whole.
StagesInOrder ==
    /\ step # "idle" => pc = "publish"
    /\ pc \in {"deliver", "validate", "publish"} => selected = req.src
    /\ pc \in {"validate", "publish"} => delivery = req.src
    /\ pc = "publish" => cover

\* The staging a publication works on is of the records it publishes.
StagingIsOfRun ==
    /\ step \in Staging \cup Sealed => receipt.of = delivery
    /\ step = "receipt" => receipt.count < Shards /\ sealed[receipt.count + 1] = delivery
    /\ step \in Sealed => receipt.count = Shards

\* So are its candidates, and what it has made public.
CandidatesAreOfRun ==
    /\ step \in {"pack", "promoteDirectory"} => packageTmp = delivery
    /\ step \in {"promoteDirectory", "promoteArchive"} => archiveTmp = delivery
    /\ step = "promoteArchive" => package = delivery
    /\ step = "published" /\ req.mode # "resume" => package = delivery /\ archive = delivery
    /\ pc = "report" /\ req.mode # "resume" =>
          package = delivery /\ archive = delivery /\ selected = delivery /\ cover

\* What has been removed stays away until the promotion.
PublicIsClear ==
    /\ step \in NoPackage => package = None
    /\ step \in NoArchive => archive = None
    /\ step \in {"removeDirectory", "removeArchive"} /\ req.mode # "overwrite"
          => package \notin Source \/ archive = None

Inv ==
    /\ TypeOK /\ StagesInOrder /\ SealedIsBacked /\ StagingIsOfRun
    /\ CandidatesAreOfRun /\ PublicIsClear /\ OnePair

-----------------------------------------------------------------------------
(***************************************************************************)
(* The steps of a publication.                                             *)
(***************************************************************************)
LEMMA RequestType == NoRequest \in [mode : Mode, src : Source]
  <1>1. (CHOOSE s \in Source : TRUE) \in Source
    BY SourceAssumption
  <1>. QED
    BY <1>1 DEF NoRequest, Mode

\* A publication leaves the rest of the run alone.
LEMMA PublishFrame ==
    ASSUME Inv, Publishing
    PROVE  /\ pc = "publish" /\ UNCHANGED <<output, pc, req, result, last, counts>>
           /\ req.src \in Source /\ delivery = req.src
  BY DEF Publishing, Inv, TypeOK, StagesInOrder

LEMMA PublishType == ASSUME Inv, Publishing PROVE V4TypeOK'
  <1>. USE PublishFrame DEF Inv, TypeOK, V4TypeOK, public, staging, candidates, PublicationStep
  <1>1. CASE Found(req.mode) \/ ChooseRaises(req.mode) \/ Choose(req.mode) \/ RemoveDirectory \/ RemoveArchive
    BY <1>1 DEF Found, ChooseRaises, Choose, RemoveDirectory, RemoveArchive, Raise
  <1>2. CASE PrepareNew(delivery) \/ Prepare(delivery) \/ PrepareRaises(delivery)
    BY <1>2, ShardsAssumption DEF PrepareNew, Prepare, PrepareRaises, Raise
  <1>3. CASE Seal(delivery) \/ SealRaises \/ AllSealed \/ MarkComplete
    BY <1>3 DEF Seal, SealRaises, AllSealed, MarkComplete, Raise
  <1>4. CASE WriteReceipt
    <2>1. receipt.count + 1 \in 0 .. Shards
      BY <1>4, ShardsAssumption DEF WriteReceipt, StagingIsOfRun
    <2>. QED
      BY <1>4, <2>1 DEF WriteReceipt
  <1>5. CASE Materialize \/ Pack \/ PromoteDirectory \/ PromoteArchive
    BY <1>5, ShardsAssumption DEF Materialize, Pack, PromoteDirectory, PromoteArchive
  <1>. QED
    BY <1>1, <1>2, <1>3, <1>4, <1>5 DEF Publishing, Publish

LEMMA PublishStaging == ASSUME Inv, Publishing PROVE SealedIsBacked' /\ StagingIsOfRun'
  <1>. USE PublishFrame DEF Inv, SealedIsBacked, StagingIsOfRun, Staging, Sealed, public, staging,
                            candidates, output
  <1>1. CASE Found(req.mode) \/ ChooseRaises(req.mode) \/ Choose(req.mode) \/ RemoveDirectory \/ RemoveArchive
    BY <1>1 DEF Found, ChooseRaises, Choose, RemoveDirectory, RemoveArchive, Raise
  <1>2. CASE PrepareNew(delivery)
    <2>1. receipt' = [of |-> delivery, count |-> 0] /\ step' = "seal"
      BY <1>2 DEF PrepareNew
    <2>2. \A i : i \notin 1 .. 0
      OBVIOUS
    <2>. QED
      BY <2>1, <2>2
  <1>3. CASE Prepare(delivery) \/ PrepareRaises(delivery)
    BY <1>3 DEF Prepare, PrepareRaises, Reusable, Raise
  <1>4. CASE Seal(delivery)
    <2>1. receipt.count \in Nat /\ receipt.count + 1 \in 1 .. Shards
      BY <1>4, ShardsAssumption DEF Seal, TypeOK, V4TypeOK
    <2>2. /\ \A i \in 1 .. receipt.count : sealed'[i] = sealed[i]
          /\ sealed'[receipt.count + 1] = delivery
      BY <1>4, <2>1 DEF Seal, TypeOK, V4TypeOK
    <2>. QED
      BY <1>4, <2>1, <2>2 DEF Seal
  <1>5. CASE SealRaises \/ AllSealed \/ MarkComplete
    BY <1>5 DEF SealRaises, AllSealed, MarkComplete, Raise
  <1>6. CASE WriteReceipt
    <2>1. /\ receipt'.of = receipt.of /\ receipt'.count = receipt.count + 1
          /\ sealed' = sealed /\ step' = "seal"
          /\ receipt.count \in Nat
      BY <1>6 DEF WriteReceipt, TypeOK, V4TypeOK
    <2>2. sealed[receipt.count + 1] = receipt.of /\ receipt.of # None
      BY <1>6, SourceAssumption DEF WriteReceipt, TypeOK
    <2>. QED
      BY <1>6, <2>1, <2>2 DEF WriteReceipt
  <1>7. CASE Materialize \/ Pack \/ PromoteDirectory \/ PromoteArchive
    BY <1>7 DEF Materialize, Pack, PromoteDirectory, PromoteArchive
  <1>. QED
    BY <1>1, <1>2, <1>3, <1>4, <1>5, <1>6, <1>7 DEF Publishing, Publish

LEMMA PublishPublic ==
    ASSUME Inv, Publishing
    PROVE  CandidatesAreOfRun' /\ PublicIsClear' /\ OnePair'
  <1>. USE PublishFrame DEF Inv, CandidatesAreOfRun, PublicIsClear, OnePair, Staging, Sealed, NoArchive,
                            NoPackage, public, staging, candidates, output
  <1>1. CASE Found(req.mode) \/ ChooseRaises(req.mode)
    BY <1>1 DEF Found, ChooseRaises, Raise
  <1>2. CASE Choose(req.mode)
    <2>1. req.mode # "overwrite" => package = None \/ archive = None
      BY <1>2 DEF Choose, Both, TypeOK, Mode
    <2>. QED
      BY <1>2, <2>1, SourceAssumption DEF Choose
  <1>3. CASE RemoveDirectory \/ RemoveArchive
    BY <1>3, SourceAssumption DEF RemoveDirectory, RemoveArchive
  <1>4. CASE PrepareNew(delivery) \/ Prepare(delivery) \/ PrepareRaises(delivery)
    BY <1>4 DEF PrepareNew, Prepare, PrepareRaises, Raise
  <1>5. CASE Seal(delivery) \/ SealRaises \/ WriteReceipt \/ AllSealed \/ MarkComplete
    BY <1>5 DEF Seal, SealRaises, WriteReceipt, AllSealed, MarkComplete, Raise
  <1>6. CASE Materialize
    <2>1. sealed[1] = delivery
      BY <1>6, ShardsAssumption DEF Materialize, SealedIsBacked, StagingIsOfRun
    <2>. QED
      BY <1>6, <2>1 DEF Materialize
  <1>7. CASE Pack \/ PromoteDirectory \/ PromoteArchive
    BY <1>7 DEF Pack, PromoteDirectory, PromoteArchive
  <1>. QED
    BY <1>1, <1>2, <1>3, <1>4, <1>5, <1>6, <1>7 DEF Publishing, Publish

-----------------------------------------------------------------------------
(***************************************************************************)
(* The other steps of a run.                                               *)
(***************************************************************************)
\* Stages before the publication, and after it, with no publication in progress.
Quiet ==
    \/ \E mode \in Mode, src \in Source : Start(mode, src)
    \/ Reject \/ Accept \/ Preflight \/ Wipe \/ Plan
    \/ ScoreBegins \/ ScoreFails \/ ScoreSkips \/ Emit \/ FinishScore
    \/ Select \/ BeginRerun \/ Assemble \/ Deliver \/ Validate
    \/ Report \/ Finalize \/ Fail

LEMMA QuietFrame ==
    ASSUME Inv, Quiet
    PROVE  /\ pc # "publish" /\ step = "idle" /\ step' \in {"idle", "choose"}
           /\ UNCHANGED <<public, staging, candidates>>
  <1>1. pc # "publish" /\ UNCHANGED <<public, staging, candidates>> /\ step' \in {step, "choose"}
    BY DEF Quiet, Start, Reject, Accept, Preflight, Wipe, Plan, ScoreBegins, ScoreFails, ScoreSkips,
           Emit, FinishScore, Select, BeginRerun, Assemble, Deliver, Validate, Report, Finalize, Fail,
           v4vars
  <1>. QED
    BY <1>1 DEF Inv, StagesInOrder

LEMMA QuietType == ASSUME Inv, Quiet PROVE TypeOK'
  <1>1. V4TypeOK'
    BY QuietFrame DEF Inv, TypeOK, V4TypeOK, public, staging, candidates, PublicationStep
  <1>. USE <1>1, ProductionBounds, RequestType
       DEF Inv, TypeOK, Goto, Goes, End, output, counts, Stage, Score
  <1>2. CASE \E mode \in Mode, src \in Source : Start(mode, src)
    <2>1. PICK mode \in Mode, src \in Source : Start(mode, src)
      BY <1>2
    <2>2. drifts' \in 0 .. MaxDrifts
      BY <2>1 DEF Start
    <2>3. pc' = "assess" /\ req' = [mode |-> mode, src |-> src] /\ result' = "none"
          /\ UNCHANGED <<output, last, kills, faults>>
      BY <2>1 DEF Start
    <2>. QED
      BY <2>2, <2>3
  <1>3. CASE Reject
    BY <1>3 DEF Reject
  <1>8. CASE Accept \/ Plan
    BY <1>8 DEF Accept, Plan
  <1>9. CASE Wipe
    BY <1>9 DEF Wipe
  <1>4. CASE Preflight
    <2>1. pc' \in {"finalize", "wipe", "plan"}
      BY <1>4 DEF Preflight
    <2>. QED
      BY <1>4, <2>1 DEF Preflight
  <1>5. CASE ScoreBegins \/ ScoreFails \/ ScoreSkips \/ Emit \/ FinishScore \/ Select
    BY <1>5 DEF ScoreBegins, ScoreFails, ScoreSkips, Emit, FinishScore, Select
  <1>6. CASE BeginRerun
    BY <1>6 DEF BeginRerun
  <1>10. CASE Assemble
    BY <1>10 DEF Assemble
  <1>11. CASE Deliver
    BY <1>11 DEF Deliver
  <1>12. CASE Validate
    BY <1>12 DEF Validate
  <1>7. CASE Report \/ Finalize \/ Fail
    BY <1>7 DEF Report, Finalize, Fail
  <1>. QED
    BY <1>2, <1>3, <1>4, <1>5, <1>6, <1>7, <1>8, <1>9, <1>10, <1>11, <1>12 DEF Quiet

LEMMA QuietStages == ASSUME Inv, Quiet PROVE StagesInOrder'
  <1>. USE QuietFrame DEF Inv, TypeOK, StagesInOrder, Goto, Goes, End, output
  <1>1. CASE \E mode \in Mode, src \in Source : Start(mode, src)
    BY <1>1 DEF Start, v4vars
  <1>2. CASE Reject \/ Accept \/ Preflight \/ Wipe \/ Plan
    BY <1>2 DEF Reject, Accept, Preflight, Wipe, Plan, v4vars
  <1>3. CASE ScoreBegins \/ ScoreFails \/ ScoreSkips \/ Emit \/ FinishScore \/ Select
    BY <1>3 DEF ScoreBegins, ScoreFails, ScoreSkips, Emit, FinishScore, Select, v4vars
  <1>4. CASE BeginRerun \/ Assemble \/ Deliver
    BY <1>4 DEF BeginRerun, Assemble, Deliver, v4vars
  <1>5. CASE Validate
    BY <1>5 DEF Validate
  <1>6. CASE Report \/ Finalize \/ Fail
    BY <1>6 DEF Report, Finalize, Fail, v4vars
  <1>. QED
    BY <1>1, <1>2, <1>3, <1>4, <1>5, <1>6 DEF Quiet

\* With no publication in progress nothing is said of its staging and candidates.
LEMMA QuietRest ==
    ASSUME Inv, Quiet
    PROVE  SealedIsBacked' /\ StagingIsOfRun' /\ CandidatesAreOfRun' /\ PublicIsClear' /\ OnePair'
  <1>1. SealedIsBacked' /\ OnePair'
    BY QuietFrame DEF Inv, SealedIsBacked, OnePair, public, staging
  <1>2. StagingIsOfRun' /\ PublicIsClear'
    BY QuietFrame DEF StagingIsOfRun, PublicIsClear, Staging, Sealed, NoArchive, NoPackage
  <1>3. pc' # "report"
    BY DEF Quiet, Start, Reject, Accept, Preflight, Wipe, Plan, ScoreBegins, ScoreFails, ScoreSkips,
           Emit, FinishScore, Select, BeginRerun, Assemble, Deliver, Validate, Report, Finalize, Fail,
           Goto, Goes, End
  <1>4. CandidatesAreOfRun'
    BY <1>3, QuietFrame DEF CandidatesAreOfRun
  <1>. QED
    BY <1>1, <1>2, <1>4

\* The process stops, in whatever stage.
Stops == StageFails \/ Kill \/ KillInPublication \/ KillInWipe

LEMMA StopsFrame ==
    ASSUME Inv, Stops
    PROVE  /\ step' = "idle" /\ pc' \in {"idle", "fail"}
           /\ UNCHANGED <<archive, staging, candidates>>
           /\ package' \in {package, "broken"}
  <1>1. CASE KillInWipe
    <2>1. pc = "wipe" /\ pc' = "idle" /\ UNCHANGED <<public, staging, candidates, step>>
      BY <1>1 DEF KillInWipe, Killed, End, v4vars
    <2>. QED
      BY <2>1 DEF Inv, StagesInOrder, public
  <1>2. CASE StageFails \/ Kill
    BY <1>2 DEF StageFails, Kill, Killed, End, Goto, Stop, public
  <1>3. CASE KillInPublication
    BY <1>3 DEF KillInPublication, Killed, End, StopInRemoval
  <1>. QED
    BY <1>1, <1>2, <1>3 DEF Stops

LEMMA StopsType == ASSUME Inv, Stops PROVE TypeOK'
  <1>1. V4TypeOK'
    BY StopsFrame DEF Inv, TypeOK, V4TypeOK, staging, candidates, PublicationStep
  <1>2. req' \in [mode : Mode, src : Source] /\ last' \in Source \cup {None}
    BY RequestType DEF Stops, StageFails, Kill, KillInPublication, KillInWipe, Killed, End, Inv, TypeOK
  <1>3. kills' \in 0 .. MaxKills /\ faults' \in 0 .. MaxFaults /\ drifts' \in 0 .. MaxDrifts
    <2>. USE ProductionBounds DEF Inv, TypeOK
    <2>1. CASE StageFails
      BY <2>1 DEF StageFails
    <2>2. CASE Killed
      BY <2>2 DEF Killed
    <2>. QED
      BY <2>1, <2>2 DEF Stops, Kill, KillInPublication, KillInWipe
  <1>4. pc' \in Stage /\ result' \in {"none", "rejected", "failed", "published", "finalized"}
    BY DEF Stops, StageFails, Kill, KillInPublication, KillInWipe, Killed, End, Goto, Inv, TypeOK, Stage
  <1>5. /\ files' \in BOOLEAN /\ score' \in Score
        /\ selected' \in Source \cup {None, "started"}
        /\ delivery' \in Source \cup {None}
        /\ cover' \in BOOLEAN /\ report' \in {"none", "fail", "pass"}
    <2>1. CASE StageFails \/ Kill \/ KillInPublication
      BY <2>1 DEF StageFails, Kill, KillInPublication, output, Inv, TypeOK
    <2>2. CASE KillInWipe
      BY <2>2 DEF KillInWipe, Inv, TypeOK, Score
    <2>. QED
      BY <2>1, <2>2 DEF Stops
  <1>. QED
    BY <1>1, <1>2, <1>3, <1>4, <1>5 DEF TypeOK

LEMMA StopsRest ==
    ASSUME Inv, Stops
    PROVE  /\ StagesInOrder' /\ SealedIsBacked' /\ StagingIsOfRun'
           /\ CandidatesAreOfRun' /\ PublicIsClear' /\ OnePair'
  BY StopsFrame, SourceAssumption
  DEF Inv, StagesInOrder, SealedIsBacked, StagingIsOfRun, CandidatesAreOfRun, PublicIsClear, OnePair,
      Staging, Sealed, NoArchive, NoPackage, staging

LEMMA EndsStep == ASSUME Inv, PublicationEnds PROVE Inv'
  <1>1. /\ pc = "publish" /\ step' = "idle" /\ pc' \in {"report", "fail"}
        /\ pc' = "report" => step = "published"
        /\ UNCHANGED <<public, staging, candidates, output, req, result, last, counts>>
    BY DEF PublicationEnds, Goes, Goto
  <1>2. TypeOK'
    BY <1>1 DEF Inv, TypeOK, V4TypeOK, public, staging, candidates, output, counts, Stage, PublicationStep
  <1>3. StagesInOrder' /\ SealedIsBacked' /\ StagingIsOfRun' /\ PublicIsClear' /\ OnePair'
    BY <1>1 DEF Inv, StagesInOrder, SealedIsBacked, StagingIsOfRun, PublicIsClear, OnePair,
                Staging, Sealed, NoArchive, NoPackage, public, staging, output
  <1>4. CandidatesAreOfRun'
    BY <1>1 DEF Inv, StagesInOrder, CandidatesAreOfRun, public, output
  <1>. QED
    BY <1>2, <1>3, <1>4 DEF Inv

LEMMA InvStep == Inv /\ [Next]_vars => Inv'
  <1>. SUFFICES ASSUME Inv, [Next]_vars PROVE Inv'
    OBVIOUS
  <1>1. CASE UNCHANGED vars
    <2>. USE <1>1 DEF vars, v4vars, public, staging, candidates, output, counts
    <2>1. TypeOK'
      BY DEF Inv, TypeOK, V4TypeOK
    <2>2. StagesInOrder' /\ SealedIsBacked' /\ StagingIsOfRun'
      BY DEF Inv, StagesInOrder, SealedIsBacked, StagingIsOfRun
    <2>3. CandidatesAreOfRun' /\ PublicIsClear' /\ OnePair'
      BY DEF Inv, CandidatesAreOfRun, PublicIsClear, OnePair
    <2>. QED
      BY <2>1, <2>2, <2>3 DEF Inv
  <1>2. CASE Publishing
    <2>1. TypeOK'
      BY <1>2, PublishFrame, PublishType DEF Inv, TypeOK, output, counts
    <2>2. StagesInOrder'
      BY <1>2, PublishFrame DEF Inv, StagesInOrder, output
    <2>. QED
      BY <1>2, <2>1, <2>2, PublishStaging, PublishPublic DEF Inv
  <1>3. CASE PublicationEnds
    BY <1>3, EndsStep
  <1>4. CASE Quiet
    BY <1>4, QuietType, QuietStages, QuietRest DEF Inv
  <1>5. CASE Stops
    BY <1>5, StopsType, StopsRest DEF Inv
  <1>. QED
    BY <1>1, <1>2, <1>3, <1>4, <1>5 DEF Next, Proceed, Quiet, Stops

LEMMA InitInv == Init => Inv
  <1>. SUFFICES ASSUME Init PROVE Inv
    OBVIOUS
  <1>1. TypeOK
    <2>1. receipt \in [of : Source \cup {None}, count : 0 .. Shards]
      BY ShardsAssumption DEF Init, V4Init, NoReceipt
    <2>2. V4TypeOK
      BY <2>1 DEF Init, V4Init, V4TypeOK, PublicationStep
    <2>3. req \in [mode : Mode, src : Source]
      BY RequestType DEF Init
    <2>4. kills \in 0 .. MaxKills /\ faults \in 0 .. MaxFaults /\ drifts \in 0 .. MaxDrifts
      BY ProductionBounds DEF Init
    <2>. QED
      BY <2>2, <2>3, <2>4 DEF Init, TypeOK, Stage, Score
  <1>2. SealedIsBacked
    <2>1. \A i : i \notin 1 .. 0
      OBVIOUS
    <2>. QED
      BY <2>1 DEF Init, V4Init, SealedIsBacked, NoReceipt
  <1>3. /\ StagesInOrder /\ StagingIsOfRun /\ CandidatesAreOfRun /\ PublicIsClear /\ OnePair
    BY SourceAssumption
    DEF Init, V4Init, StagesInOrder, StagingIsOfRun, CandidatesAreOfRun, PublicIsClear, OnePair,
        Staging, Sealed, NoArchive, NoPackage
  <1>. QED
    BY <1>1, <1>2, <1>3 DEF Inv

LEMMA Inductive == Spec => []Inv
  BY InitInv, InvStep, PTL DEF Spec

-----------------------------------------------------------------------------
\* Every variable of a production run and of its publication keeps its type.
THEOREM Typed == Spec => []TypeOK
  BY Inductive, PTL DEF Inv

\* A public directory and a public archive are of one build, between the two renames
\* of a publication and after any kill.
THEOREM PairIsOne == Spec => []OnePair
  BY Inductive, PTL DEF Inv

\* The shards the staging receipt names are in place and of the receipt's build.
THEOREM ReceiptIsBacked == Spec => []SealedIsBacked
  BY Inductive, PTL DEF Inv

\* A run that was not a resumption and reports a publication leaves the pair of the
\* records it has delivered, with their payloads and the cover.
THEOREM PublishesDelivered == Spec => PublishedIsDelivered
  <1>. DEFINE P == result' = "published" /\ result # "published" /\ req.mode # "resume"
                     => package' = delivery' /\ archive' = delivery' /\ selected' = delivery' /\ cover'
  <1>1. Inv /\ [Next]_vars => [P]_vars
    <2>. SUFFICES ASSUME Inv, Next, result' = "published", result # "published", req.mode # "resume"
                  PROVE  package' = delivery' /\ archive' = delivery' /\ selected' = delivery' /\ cover'
      BY DEF vars
    <2>1. CASE Report
      BY <2>1 DEF Report, Inv, CandidatesAreOfRun, v4vars, public
    <2>2. CASE Publishing \/ PublicationEnds
      BY <2>2 DEF Publishing, PublicationEnds, Goes
    <2>3. CASE Stops
      BY <2>3 DEF Stops, StageFails, Kill, KillInPublication, KillInWipe, Killed, End
    <2>4. CASE Quiet
      BY <2>1, <2>4 DEF Quiet, Start, Reject, Accept, Preflight, Wipe, Plan, ScoreBegins, ScoreFails,
             ScoreSkips, Emit, FinishScore, Select, BeginRerun, Assemble, Deliver, Validate, Finalize,
             Fail, Goes, End
    <2>. QED
      BY <2>1, <2>2, <2>3, <2>4 DEF Next, Proceed, Quiet, Stops
  <1>. QED
    BY <1>1, Inductive, PTL DEF Spec, PublishedIsDelivered

\* A complete public pair is replaced by an overwriting run only.
THEOREM PairKept == Spec => PairStays
  <1>. DEFINE P == req.mode # "overwrite" /\ package \in Source /\ archive # None => UNCHANGED public
  <1>1. Inv /\ [Next]_vars => [P]_vars
    <2>. SUFFICES ASSUME Inv, Next, req.mode # "overwrite", package \in Source, archive # None
                  PROVE  UNCHANGED public
      BY DEF vars
    <2>1. CASE Publishing
      <3>. USE PublishFrame DEF Inv, PublicIsClear, NoPackage, NoArchive, Staging, Sealed, public
      <3>1. step \notin {"removeDirectory", "removeArchive"} \cup NoPackage \cup NoArchive
        BY SourceAssumption
      <3>. QED
        BY <2>1, <3>1
        DEF Publishing, Publish, Found, ChooseRaises, Choose, RemoveDirectory, RemoveArchive, PrepareNew,
            Prepare, PrepareRaises, Seal, SealRaises, WriteReceipt, AllSealed, MarkComplete, Materialize,
            Pack, PromoteDirectory, PromoteArchive, Raise
    <2>2. CASE PublicationEnds
      BY <2>2 DEF PublicationEnds
    <2>3. CASE Quiet
      BY <2>3, QuietFrame
    <2>4. CASE Stops
      <3>1. step # "removeDirectory"
        BY DEF Inv, PublicIsClear
      <3>. QED
        BY <2>4, <3>1 DEF Stops, StageFails, Kill, KillInPublication, KillInWipe, Stop, StopInRemoval,
                          v4vars
    <2>. QED
      BY <2>1, <2>2, <2>3, <2>4 DEF Next, Proceed, Quiet, Stops
  <1>. QED
    BY <1>1, Inductive, PTL DEF Spec, PairStays

-----------------------------------------------------------------------------
(***************************************************************************)
(* The wizard.                                                             *)
(***************************************************************************)
Active == {"start", "wait", "stop", "kill", "finally"}
Past   == {"none", "reaped", "known"}

\* A confirmation of a run or of leaving is on its own, and no run is in progress.
Asking ==
    \A i \in 1 .. Len(screens) :
        screens[i] \in {"run", "quit"} => Len(screens) = 1 /\ ~running

\* What a worker's await says of its events and of its child.
Awaiting ==
    \A w \in Worker :
        /\ w > started => task[w] = "none"
        /\ w <= started => task[w] # "none"
        /\ task[w] \in {"none", "start"} => child[w] = "none"
        /\ task[w] \in {"stop", "kill"} => cancelSet[w]
        /\ task[w] = "kill" => forceSet[w]

\* As long as nothing has been packaged, only the last worker is not over, and the
\* wizard is running exactly while that one is not.
LastOne ==
    /\ \A w \in Worker : kind[w] = "run" /\ (w < started => task[w] = "over")
    /\ \A w \in Worker : task[w] \in {"finally", "over"} => child[w] \in Past
    /\ running <=> (started > 0 /\ task[started] \in Active)
    /\ exited => ~running

\* What the status line says was true when it was said, and stays so.
Saying ==
    status # "none" =>
        /\ started > 0 /\ task[started] \in {"finally", "over"}
        /\ status = "completed" => code[started] = "ok"
        /\ status = "forced" => forceSet[started] /\ cancelSet[started]

TuiInv == TuiTypeOK /\ Asking /\ Awaiting /\ (~packaged => LastOne /\ Saying)
-----------------------------------------------------------------------------
(***************************************************************************)
(* Types.                                                                  *)
(***************************************************************************)
LEMMA PushType == ASSUME TuiTypeOK, NEW s \in Screen, Push(s) PROVE TuiTypeOK'
  BY DEF TuiTypeOK, Push, workers, process

LEMMA PopType ==
  ASSUME TuiTypeOK, screens # <<>>, Pop
  PROVE  /\ screens' \in Seq(Screen) /\ Len(screens') = Len(screens) - 1
         /\ \A i \in 1 .. Len(screens') : screens'[i] = screens[i]
  <1>1. screens \in Seq(Screen) /\ Len(screens) \in Nat \ {0}
    BY DEF TuiTypeOK
  <1>. DEFINE n == Len(screens) - 1
  <1>2. screens' = [i \in 1 .. n |-> screens[i]]
    BY <1>1 DEF Pop
  <1>. HIDE DEF Pop
  <1>. QED
    BY <1>1, <1>2

LEMMA StartedType ==
  ASSUME TuiTypeOK, NEW k \in {"run", "package"}, StartWorker(k)
  PROVE  /\ started' \in 0 .. MaxWorkers /\ started + 1 \in Worker
         /\ kind' \in [Worker -> {"run", "package"}] /\ task' \in [Worker -> Await]
  <1>1. started + 1 \in Worker /\ started' \in 0 .. MaxWorkers
    BY TuiBounds DEF TuiTypeOK, StartWorker, Worker
  <1>. QED
    BY <1>1 DEF TuiTypeOK, StartWorker, GoesTo, Await

LEMMA UserType == ASSUME TuiTypeOK, User PROVE TuiTypeOK'
  <1>1. CASE RequestRun \/ RequestPackage \/ RequestCancel \/ RequestQuit
    BY <1>1, PushType DEF RequestRun, RequestPackage, RequestCancel, RequestQuit, Screen
  <1>2. CASE Decline
    BY <1>2, PopType DEF TuiTypeOK, Decline, workers, process
  <1>3. CASE ConfirmRun
    <2>1. holder' \in 0 .. MaxWorkers
      BY <1>3, StartedType DEF ConfirmRun, Worker
    <2>. QED
      BY <1>3, <2>1, PopType, StartedType DEF TuiTypeOK, ConfirmRun, StartWorker, Top, process
  <1>4. CASE ConfirmPackage
    BY <1>4, PopType, StartedType DEF TuiTypeOK, ConfirmPackage, StartWorker, Top, process
  <1>5. CASE ConfirmCancel
    BY <1>5, PopType DEF TuiTypeOK, ConfirmCancel, Top, process
  <1>6. CASE ConfirmForce
    BY <1>6, PopType DEF TuiTypeOK, ConfirmForce, Top, process
  <1>7. CASE ConfirmQuit
    BY <1>7, PopType DEF TuiTypeOK, ConfirmQuit, Top, workers, process
  <1>. QED
    BY <1>1, <1>2, <1>3, <1>4, <1>5, <1>6, <1>7 DEF User

LEMMA ChildType ==
  ASSUME TuiTypeOK, NEW w \in Worker, ChildEnds(w) \/ ChildReaped(w) \/ ChildKnown(w)
  PROVE  TuiTypeOK'
  BY DEF TuiTypeOK, ChildEnds, ChildReaped, ChildKnown, Child, app, workers

LEMMA FinishesType ==
  ASSUME TuiTypeOK, NEW w \in Worker, NEW s \in {"completed", "failed", "interrupted", "forced"},
         Finishes(w, s), UNCHANGED process
  PROVE  TuiTypeOK'
  BY DEF TuiTypeOK, Finishes, GoesTo, Says, Await, process

LEMMA LoopType == ASSUME TuiTypeOK, NEW w \in Worker, Loop(w) PROVE TuiTypeOK'
  <1>1. CASE SpawnFails(w) \/ WaitReturns(w) \/ InterruptRaises(w) \/ StopReturns(w) \/ KillReturns(w)
    BY <1>1, FinishesType DEF SpawnFails, WaitReturns, InterruptRaises, StopReturns, KillReturns
  <1>2. CASE Spawn(w) \/ Interrupt(w) \/ ForceKill(w)
    BY <1>2 DEF TuiTypeOK, Spawn, Interrupt, ForceKill, GoesTo, Await, Child, Alive, app
  <1>3. CASE Finally(w) \/ CancelWorker(w)
    <2>1. running' \in BOOLEAN /\ holder' \in 0 .. MaxWorkers
      <3>1. CASE kind[w] = "run"
        <4>1. running' = FALSE /\ holder' = 0
          BY <1>3, <3>1 DEF Finally, CancelWorker
        <4>2. 0 \in 0 .. MaxWorkers
          BY TuiBounds
        <4>. QED
          BY <4>1, <4>2
      <3>2. CASE kind[w] # "run"
        BY <1>3, <3>2 DEF TuiTypeOK, Finally, CancelWorker
      <3>. QED
        BY <3>1, <3>2
    <2>2. task' \in [Worker -> Await]
      BY <1>3 DEF TuiTypeOK, Finally, CancelWorker, GoesTo, Await
    <2>. QED
      BY <1>3, <2>1, <2>2 DEF TuiTypeOK, Finally, CancelWorker, process
  <1>4. CASE CancelFinally(w)
    BY <1>4 DEF TuiTypeOK, CancelFinally, GoesTo, Await, app, process
  <1>. QED
    BY <1>1, <1>2, <1>3, <1>4 DEF Loop

-----------------------------------------------------------------------------
(***************************************************************************)
(* Confirmations.                                                          *)
(***************************************************************************)
LEMMA UserAsking == ASSUME TuiInv, User PROVE Asking'
  <1>. USE DEF TuiInv, Asking
  <1>1. ASSUME NEW s \in {"package", "cancel", "force"}, Push(s), screens = <<>> \/ running
        PROVE  Asking'
    BY <1>1 DEF TuiTypeOK, Push
  <1>2. ASSUME NEW s \in {"run", "quit"}, Push(s), screens = <<>>, ~running
        PROVE  Asking'
    BY <1>2 DEF TuiTypeOK, Push
  <1>3. ASSUME screens # <<>>, Pop, UNCHANGED running \/ (running' /\ Top("run"))
        PROVE  Asking'
    BY <1>3, PopType DEF TuiTypeOK, Top
  <1>4. CASE RequestRun \/ RequestPackage \/ RequestCancel \/ RequestQuit
    BY <1>1, <1>2, <1>4 DEF RequestRun, RequestPackage, RequestCancel, RequestQuit
  <1>5. CASE Decline \/ ConfirmRun \/ ConfirmPackage \/ ConfirmCancel \/ ConfirmForce \/ ConfirmQuit
    BY <1>3, <1>5 DEF Decline, ConfirmRun, ConfirmPackage, ConfirmCancel, ConfirmForce, ConfirmQuit, Top
  <1>. QED
    BY <1>4, <1>5 DEF User

LEMMA UserAwaiting == ASSUME TuiInv, User PROVE Awaiting'
  <1>. USE DEF TuiInv, Awaiting
  <1>1. CASE RequestRun \/ RequestPackage \/ RequestCancel \/ RequestQuit \/ Decline \/ ConfirmQuit
    BY <1>1 DEF RequestRun, RequestPackage, RequestCancel, RequestQuit, Push, Decline, ConfirmQuit,
       workers, process
  <1>2. ASSUME NEW k \in {"run", "package"}, StartWorker(k), UNCHANGED process
        PROVE  Awaiting'
    BY <1>2, StartedType DEF TuiTypeOK, StartWorker, GoesTo, Worker, process
  <1>3. CASE ConfirmRun \/ ConfirmPackage
    BY <1>2, <1>3 DEF ConfirmRun, ConfirmPackage
  <1>4. CASE ConfirmCancel \/ ConfirmForce
    BY <1>4 DEF TuiTypeOK, ConfirmCancel, ConfirmForce, process
  <1>. QED
    BY <1>1, <1>3, <1>4 DEF User

LEMMA UserLast == ASSUME TuiInv, User, ~packaged' PROVE LastOne' /\ Saying'
  <1>0. ~packaged /\ LastOne /\ Saying
    BY DEF TuiInv, User, RequestRun, RequestPackage, RequestCancel, RequestQuit, Push, Decline,
       ConfirmRun, ConfirmPackage, ConfirmCancel, ConfirmForce, ConfirmQuit
  <1>1. CASE RequestRun \/ RequestPackage \/ RequestCancel \/ RequestQuit \/ Decline
    BY <1>0, <1>1 DEF RequestRun, RequestPackage, RequestCancel, RequestQuit, Push, Decline,
       workers, process, LastOne, Saying
  <1>2. CASE ConfirmQuit
    <2>1. ~running
      BY <1>2 DEF TuiInv, Asking, TuiTypeOK, ConfirmQuit, Top
    <2>. QED
      BY <1>0, <1>2, <2>1 DEF ConfirmQuit, workers, process, LastOne, Saying
  <1>3. CASE ConfirmRun
    <2>1. ~running /\ ~exited
      BY <1>3 DEF TuiInv, Asking, TuiTypeOK, ConfirmRun, Top
    <2>2. /\ started + 1 \in Worker /\ started' = started + 1 /\ started \in Nat
          /\ task' = [task EXCEPT ![started + 1] = "start"]
          /\ kind' = [kind EXCEPT ![started + 1] = "run"]
          /\ running' /\ status' = "none" /\ exited' = exited /\ child' = child
      BY <1>3, StartedType DEF ConfirmRun, StartWorker, GoesTo, process, TuiInv, TuiTypeOK
    <2>3. \A v \in Worker : v <= started => task[v] = "over"
      BY <1>0, <2>1 DEF TuiInv, Awaiting, LastOne, TuiTypeOK, Await, Active, Worker
    <2>. QED
      BY <1>0, <2>1, <2>2, <2>3 DEF TuiInv, TuiTypeOK, LastOne, Saying, Active, Worker
  <1>4. CASE ConfirmPackage
    BY <1>4 DEF ConfirmPackage
  <1>5. CASE ConfirmCancel \/ ConfirmForce
    <2>1. \A w \in Worker : (cancelSet[w] => cancelSet'[w]) /\ (forceSet[w] => forceSet'[w])
      BY <1>5 DEF ConfirmCancel, ConfirmForce, TuiInv, TuiTypeOK
    <2>2. /\ UNCHANGED <<running, status, exited, started, kind, task, child, code>>
          /\ started > 0 => started \in Worker
      BY <1>5 DEF ConfirmCancel, ConfirmForce, process, TuiInv, TuiTypeOK, Worker
    <2>3. LastOne'
      BY <1>0, <2>2 DEF LastOne
    <2>4. Saying'
      BY <1>0, <2>1, <2>2 DEF Saying
    <2>. QED
      BY <2>3, <2>4
  <1>. QED
    BY <1>1, <1>2, <1>3, <1>4, <1>5 DEF User
-----------------------------------------------------------------------------
(***************************************************************************)
(* Children and workers.                                                   *)
(***************************************************************************)
LEMMA ChildSteps ==
  ASSUME TuiInv, NEW w \in Worker, ChildEnds(w) \/ ChildReaped(w) \/ ChildKnown(w)
  PROVE  TuiInv'
  <1>0. /\ UNCHANGED <<running, asked, screens, status, exited, started, kind, task, cancelSet,
                       forceSet, packaged>>
        /\ \A v \in Worker \ {w} : child'[v] = child[v] /\ code'[v] = code[v]
    BY DEF ChildEnds, ChildReaped, ChildKnown, app, workers, TuiInv, TuiTypeOK
  <1>1. child[w] # "none" /\ (child[w] \in Past => child'[w] \in Past /\ code'[w] = code[w])
    BY DEF ChildEnds, ChildReaped, ChildKnown, Past, Alive, TuiInv, TuiTypeOK
  <1>2. Asking'
    BY <1>0 DEF TuiInv, Asking
  <1>3. Awaiting'
    BY <1>0, <1>1 DEF TuiInv, Awaiting
  <1>4. ~packaged => LastOne'
    BY <1>0, <1>1 DEF TuiInv, LastOne
  <1>5. ~packaged => Saying'
    <2>1. ASSUME ~packaged, status # "none"
          PROVE  child[started] \in Past /\ started \in Worker
      BY <2>1 DEF TuiInv, LastOne, Saying, TuiTypeOK, Worker
    <2>2. ~packaged /\ status # "none" => code'[started] = code[started]
      BY <2>1, <1>0, <1>1
    <2>. QED
      BY <1>0, <2>2 DEF TuiInv, Saying
  <1>. QED
    BY <1>0, <1>2, <1>3, <1>4, <1>5, ChildType DEF TuiInv

\* A worker at an await is the last one, and the wizard is running.
LEMMA AtIsLast ==
  ASSUME TuiInv, NEW w \in Worker, task[w] # "none", ~Cancelled(w)
  PROVE  w = started /\ started \in Nat
  BY DEF TuiInv, TuiTypeOK, Awaiting, Cancelled, Worker

\* The worker has a result; its child has ended, or was never started.
LEMMA FinishesStep ==
  ASSUME TuiInv, NEW w \in Worker, NEW s \in {"completed", "failed", "interrupted", "forced"},
         Finishes(w, s), UNCHANGED process,
         task[w] \in Active, ~Cancelled(w), child[w] \in Past,
         s = "completed" => code[w] = "ok",
         s = "forced" => task[w] = "kill"
  PROVE  TuiInv'
  <1>0. w = started /\ started \in Nat /\ started > 0
    BY AtIsLast DEF Active, Worker
  <1>1. /\ task' = [task EXCEPT ![w] = "finally"]
        /\ UNCHANGED <<running, screens, exited, started, kind, cancelSet, forceSet, packaged, child, code>>
        /\ kind[w] = "run" => status' = s
    BY DEF Finishes, GoesTo, Says, process
  <1>2. Asking'
    BY <1>1 DEF TuiInv, Asking
  <1>3. Awaiting'
    BY <1>0, <1>1 DEF TuiInv, TuiTypeOK, Awaiting, Active
  <1>4. ~packaged => LastOne'
    BY <1>0, <1>1 DEF TuiInv, TuiTypeOK, LastOne, Active
  <1>5. ~packaged => Saying'
    <2>1. task[w] = "kill" => forceSet[w] /\ cancelSet[w]
      BY DEF TuiInv, Awaiting
    <2>. QED
      BY <1>0, <1>1, <2>1 DEF TuiInv, TuiTypeOK, LastOne, Saying
  <1>. QED
    BY <1>1, <1>2, <1>3, <1>4, <1>5, FinishesType DEF TuiInv

LEMMA LoopStep == ASSUME TuiInv, NEW w \in Worker, Loop(w) PROVE TuiInv'
  <1>0. TuiTypeOK'
    BY LoopType DEF TuiInv
  <1>1. CASE SpawnFails(w)
    <2>1. child[w] \in Past
      BY <1>1 DEF SpawnFails, At, TuiInv, Awaiting, Past
    <2>. QED
      BY <1>1, <2>1, FinishesStep DEF SpawnFails, At, Active
  <1>2. CASE WaitReturns(w)
    BY <1>2, FinishesStep DEF WaitReturns, At, Active, Past
  <1>3. CASE InterruptRaises(w) \/ StopReturns(w) \/ KillReturns(w)
    BY <1>3, FinishesStep DEF InterruptRaises, StopReturns, KillReturns, At, Active, Past
  <1>4. CASE Spawn(w) \/ Interrupt(w) \/ ForceKill(w)
    <2>1. /\ task[w] \in {"start", "wait", "stop"} /\ ~Cancelled(w)
          /\ \/ /\ task[w] \in {"start", "wait"}
                /\ task' = [task EXCEPT ![w] = "wait"] /\ child'[w] = "alive"
             \/ cancelSet[w] /\ task' = [task EXCEPT ![w] = "stop"]
             \/ cancelSet[w] /\ forceSet[w] /\ task' = [task EXCEPT ![w] = "kill"]
          /\ \A v \in Worker \ {w} : child'[v] = child[v]
          /\ UNCHANGED <<running, screens, status, exited, started, kind, cancelSet, forceSet, packaged, code>>
      <3>1. child \in [Worker -> Child] /\ (task[w] = "stop" => cancelSet[w])
        BY DEF TuiInv, TuiTypeOK, Awaiting
      <3>2. CASE Spawn(w)
        <4>1. /\ task[w] = "start" /\ ~Cancelled(w) /\ task' = [task EXCEPT ![w] = "wait"]
              /\ child' = [child EXCEPT ![w] = "alive"]
              /\ UNCHANGED <<running, screens, status, exited, started, kind, cancelSet, forceSet, packaged, code>>
          BY <3>2 DEF Spawn, At, GoesTo, app
        <4>. QED
          BY <3>1, <4>1
      <3>3. CASE Interrupt(w)
        <4>1. /\ task[w] = "wait" /\ ~Cancelled(w) /\ task' = [task EXCEPT ![w] = "stop"]
              /\ child' = [child EXCEPT ![w] = IF @ = "alive" THEN "signalled" ELSE @]
              /\ UNCHANGED <<running, screens, status, exited, started, kind, cancelSet, forceSet, packaged, code>>
          BY <3>3 DEF Interrupt, At, GoesTo, app
        <4>2. cancelSet[w]
          BY <3>3 DEF Interrupt
        <4>. QED
          BY <3>1, <4>1, <4>2
      <3>4. CASE ForceKill(w)
        BY <3>1, <3>4 DEF ForceKill, At, GoesTo, app
      <3>. QED
        BY <1>4, <3>2, <3>3, <3>4
    <2>2. w = started /\ started \in Nat
      BY <2>1, AtIsLast
    <2>3. Asking'
      BY <2>1 DEF TuiInv, Asking
    <2>4. Awaiting'
      BY <2>1, <2>2 DEF TuiInv, TuiTypeOK, Awaiting
    <2>5. ~packaged => LastOne' /\ Saying'
      BY <2>1, <2>2 DEF TuiInv, TuiTypeOK, LastOne, Saying, Active
    <2>. QED
      BY <1>0, <2>1, <2>3, <2>4, <2>5 DEF TuiInv
  <1>5. CASE Finally(w)
    <2>1. /\ task[w] = "finally" /\ ~Cancelled(w)
          /\ task' = [task EXCEPT ![w] = "over"]
          /\ running' = (IF kind[w] = "run" THEN FALSE ELSE running)
          /\ UNCHANGED <<screens, status, exited, started, kind, cancelSet, forceSet, packaged, child, code>>
      BY <1>5 DEF Finally, At, GoesTo, process
    <2>2. w = started /\ started \in Nat
      BY <2>1, AtIsLast
    <2>3. Asking'
      BY <2>1 DEF TuiInv, Asking
    <2>4. Awaiting'
      BY <2>1, <2>2 DEF TuiInv, TuiTypeOK, Awaiting
    <2>5. ~packaged => LastOne' /\ Saying'
      BY <2>1, <2>2 DEF TuiInv, TuiTypeOK, LastOne, Saying, Active
    <2>. QED
      BY <1>0, <2>1, <2>3, <2>4, <2>5 DEF TuiInv
  <1>6. CASE CancelWorker(w) \/ CancelFinally(w)
    <2>1. /\ task[w] \in Active /\ w < started
          /\ task' = [task EXCEPT ![w] = "over"]
          /\ running' = running \/ ~running'
          /\ UNCHANGED <<screens, started, cancelSet, forceSet, packaged, child>>
      BY <1>6 DEF CancelWorker, CancelFinally, Cancelled, GoesTo, Active, app, process
    <2>2. Asking'
      BY <2>1 DEF TuiInv, Asking
    <2>3. Awaiting'
      BY <2>1 DEF TuiInv, TuiTypeOK, Awaiting, Active, Worker
    <2>4. packaged
      BY <2>1 DEF TuiInv, LastOne, Active
    <2>. QED
      BY <1>0, <2>1, <2>2, <2>3, <2>4 DEF TuiInv
  <1>. QED
    BY <1>1, <1>2, <1>3, <1>4, <1>5, <1>6 DEF Loop

-----------------------------------------------------------------------------
LEMMA TuiStarts == TuiInit => TuiInv
  <1>. SUFFICES ASSUME TuiInit PROVE TuiInv
    OBVIOUS
  <1>1. 0 \in 0 .. MaxWorkers /\ MaxWorkers \in Nat
    BY TuiBounds
  <1>2. TuiTypeOK
    <2>1. screens \in Seq(Screen)
      BY DEF TuiInit
    <2>2. /\ kind \in [Worker -> {"run", "package"}] /\ task \in [Worker -> Await]
          /\ cancelSet \in [Worker -> BOOLEAN] /\ forceSet \in [Worker -> BOOLEAN]
          /\ child \in [Worker -> Child] /\ code \in [Worker -> {"none", "ok", "error", "killed"}]
      BY DEF TuiInit, Await, Child
    <2>. QED
      BY <1>1, <2>1, <2>2 DEF TuiInit, TuiTypeOK
  <1>3. Asking
    BY DEF TuiInit, Asking
  <1>4. Awaiting
    BY <1>1 DEF TuiInit, Awaiting, Worker
  <1>5. LastOne /\ Saying
    BY <1>1 DEF TuiInit, LastOne, Saying, Worker, Active
  <1>. QED
    BY <1>2, <1>3, <1>4, <1>5 DEF TuiInv

LEMMA TuiStep == TuiInv /\ [TuiNext]_tuiVars => TuiInv'
  <1>. SUFFICES ASSUME TuiInv, [TuiNext]_tuiVars PROVE TuiInv'
    OBVIOUS
  <1>1. CASE User
    BY <1>1, UserType, UserAsking, UserAwaiting, UserLast DEF TuiInv
  <1>2. CASE \E w \in Worker : ChildEnds(w) \/ ChildReaped(w) \/ ChildKnown(w) \/ Loop(w)
    BY <1>2, ChildSteps, LoopStep
  <1>3. CASE UNCHANGED tuiVars
    BY <1>3 DEF tuiVars, app, workers, process, TuiInv, TuiTypeOK, Asking, Awaiting, LastOne, Saying
  <1>. QED
    BY <1>1, <1>2, <1>3 DEF TuiNext

LEMMA TuiInductive == TuiSpec => []TuiInv
  BY TuiStarts, TuiStep, PTL DEF TuiSpec

\* Every variable of the wizard and of the transport keeps its type.
THEOREM TuiTyped == TuiSpec => []TuiTypeOK
  BY TuiInductive, PTL DEF TuiInv

\* As long as nothing has been packaged, at most one canonical CLI is alive, the wizard
\* knows of it and cannot be left, whatever confirmations are open and whenever
\* the process ends.
THEOREM CliKnown == TuiSpec => []CliIsKnown
  <1>1. TuiInv => CliIsKnown
    <2>1. ASSUME TuiInv, ~packaged, NEW w \in Worker, child[w] \in Alive
          PROVE  w = started /\ running /\ ~exited
      <3>1. task[w] \in Await /\ task[w] \notin {"none", "start", "finally", "over"}
        BY <2>1 DEF TuiInv, TuiTypeOK, Awaiting, LastOne, Past, Alive
      <3>2. w = started /\ started > 0
        BY <2>1, <3>1 DEF TuiInv, TuiTypeOK, Awaiting, LastOne, Worker
      <3>. QED
        BY <2>1, <3>1, <3>2 DEF TuiInv, LastOne, Await, Active
    <2>. QED
      BY <2>1 DEF CliIsKnown
  <1>. QED
    BY <1>1, TuiInductive, PTL

\* What the status line says of a run is true of its process, under the same condition.
THEOREM StatusTrue == TuiSpec => []StatusIsTrue
  <1>1. TuiInv => StatusIsTrue
    BY DEF TuiInv, LastOne, Saying, StatusIsTrue, Alive, Past
  <1>. QED
    BY <1>1, TuiInductive, PTL
=============================================================================
