------------------------- MODULE StreamingScorePass -------------------------
(***************************************************************************)
(* build_streaming_backend_teacher_textbook                                *)
(* (builder/backend_textbook.py): one run emits the shards of a textbook   *)
(* in order, each through a temporary file, and records the hash of every  *)
(* shard in run_manifest.json; a later run with resume=True goes on after  *)
(* the last recorded shard.                                                *)
(*                                                                         *)
(* The JSON files are written in place: a process killed while it writes   *)
(* one leaves it torn.  Metadata and sidecars are represented by the       *)
(* target type they state.  Runs are sequential; a user starts one in any  *)
(* mode and with any configuration whenever none is in progress.           *)
(***************************************************************************)
EXTENDS Naturals, Sequences

CONSTANTS
    NShards,        \* shards the dataset is cut into
    Content,        \* what the teacher may emit for a shard (a payload's hash)
    Config,         \* values of resume_config_hash
    TwoPass,        \* configurations whose teacher reports the score-pass stage
    MaxKills,       \* bound: processes killed
    MaxFaults,      \* bound: exceptions while shards are emitted
    None            \* no file

ASSUME NShardsAssumption == NShards \in Nat \ {0}
ASSUME ContentAssumption == Content # {} /\ None \notin Content
ASSUME ConfigAssumption  == Config # {} /\ TwoPass \subseteq Config
ASSUME BoundsAssumption  == MaxKills \in Nat /\ MaxFaults \in Nat

Shard == 1 .. NShards
Mode  == {"fresh", "resume", "overwrite"}
Step  == {"idle", "gate", "remove", "open", "begin", "emit", "create", "write", "replace",
          "record", "fail", "finish", "sidecars", "check", "reject", "complete", "cover"}

TargetType == {"policy", "score_pass"}
TypeFile   == TargetType \cup {"missing", "torn"}

VARIABLES
    exists,         \* the output directory exists
    manifest,       \* run_manifest.json: state, configuration, hashes of completed_shards
    metadata,       \* metadata.json: its target type
    side,           \* teacher_manifest.json and the other sidecars: their target type
    shard,          \* shard[s]: content of the shard file
    tmp,            \* a temporary shard is left under shards/
    cover,          \* the cover page is written
    cut,            \* the removal of the directory has been interrupted
    pc,             \* what the run in progress does next
    req,            \* the run's request: mode and configuration
    done,           \* its completed_shards: hashes of the shards 1 .. Len(done)
    store,          \* target type of the store it has opened or created, or "missing"
    target,         \* its target_type
    result,         \* how the last run ended
    kills, faults

disk  == <<exists, manifest, metadata, side, shard, tmp, cover, cut>>
local == <<req, done, store, target>>
vars  == <<disk, pc, local, result, kills, faults>>

AnyConfig  == CHOOSE c \in Config : TRUE
Unread(at) == [at |-> at, config |-> AnyConfig, done |-> <<>>]
NoManifest == Unread("missing")
Manifest(at) == [at |-> at, config |-> req.config, done |-> done]
NoRequest  == [mode |-> "fresh", config |-> AnyConfig]
NoShards   == [s \in Shard |-> None]

\* _artifact_target_type
Type(c) == IF c \in TwoPass THEN "score_pass" ELSE "policy"

Init ==
    /\ exists = FALSE
    /\ manifest = NoManifest
    /\ metadata = "missing" /\ side = "missing"
    /\ shard = NoShards
    /\ tmp = FALSE /\ cover = FALSE /\ cut = FALSE
    /\ pc = "idle" /\ req = NoRequest /\ done = <<>>
    /\ store = "missing" /\ target = "policy"
    /\ result = "none"
    /\ kills = 0 /\ faults = 0

Goto(s) == pc' = s
Forget  == req' = NoRequest /\ done' = <<>> /\ store' = "missing" /\ target' = "policy"
End(r)  == pc' = "idle" /\ result' = r /\ Forget

\* _has_existing_streaming_artifact
Marked ==
    \/ manifest.at # "missing" \/ metadata # "missing" \/ side # "missing"
    \/ tmp \/ \E s \in Shard : shard[s] # None

\* Fault: the shards are not looked for.
ValidWithoutShards == metadata \in TargetType /\ side = metadata

\* validate_teacher_textbook: one target type, no file missing
Valid ==
    /\ metadata \in TargetType /\ side = metadata
    /\ \A s \in Shard : shard[s] # None

-----------------------------------------------------------------------------
(***************************************************************************)
(* The directory a run finds.                                              *)
(***************************************************************************)
Start(mode, c) ==
    /\ pc = "idle"
    /\ Goto("gate")
    /\ req' = [mode |-> mode, config |-> c]
    /\ result' = "none"
    /\ UNCHANGED <<disk, done, store, target, kills, faults>>

Refused ==
    \/ req.mode = "fresh" /\ Marked
    \/ req.mode = "resume" /\ exists /\ manifest.at = "missing"

GateRefuses ==
    /\ pc = "gate" /\ Refused
    /\ End("refused")
    /\ UNCHANGED <<disk, kills, faults>>

\* Temporary shards are removed.  A resumption of no directory is a fresh run.
Gate ==
    /\ pc = "gate" /\ req.mode # "overwrite" /\ ~Refused
    /\ exists' = TRUE
    /\ tmp' = FALSE
    /\ Goto(IF manifest.at = "missing" THEN "begin" ELSE "open")
    /\ UNCHANGED <<manifest, metadata, side, shard, cover, cut, local, result, kills, faults>>

GateOverwrites ==
    /\ pc = "gate" /\ req.mode = "overwrite"
    /\ Goto("remove")
    /\ UNCHANGED <<disk, local, result, kills, faults>>

Remove ==
    /\ pc = "remove"
    /\ exists' = TRUE
    /\ manifest' = NoManifest
    /\ metadata' = "missing" /\ side' = "missing"
    /\ shard' = NoShards
    /\ tmp' = FALSE /\ cover' = FALSE /\ cut' = FALSE
    /\ Goto("begin")
    /\ UNCHANGED <<local, result, kills, faults>>

-----------------------------------------------------------------------------
(***************************************************************************)
(* resume=True: the manifest of the run before.                            *)
(***************************************************************************)
\* A complete build is validated and returned, whatever configuration is asked for.
OpenComplete ==
    /\ pc = "open" /\ manifest.at = "complete" /\ Valid
    /\ Goto("cover")
    /\ UNCHANGED <<disk, local, result, kills, faults>>

\* _verified_completed_shards
Verified == \A i \in 1 .. Len(manifest.done) : shard[i] = manifest.done[i]

Resumed == manifest.at \in {"running", "failed"} /\ manifest.config = req.config /\ Verified

\* Fault: the resumed run starts from the first shard again.
OpenRestarts ==
    /\ pc = "open" /\ Resumed
    /\ done' = <<>>
    /\ Goto("begin")
    /\ UNCHANGED <<disk, req, store, target, result, kills, faults>>

Open ==
    /\ pc = "open" /\ Resumed
    /\ done' = manifest.done
    /\ Goto("begin")
    /\ UNCHANGED <<disk, req, store, target, result, kills, faults>>

\* An unreadable manifest, an invalid build, another configuration, a recorded
\* shard that is missing or other than recorded.
OpenRefuses ==
    /\ pc = "open" /\ ~Resumed
    /\ ~(manifest.at = "complete" /\ Valid)
    /\ End("refused")
    /\ UNCHANGED <<disk, kills, faults>>

\* Fault: the store of an earlier run is not opened.
BeginWithoutStore ==
    /\ pc = "begin" /\ metadata # "torn"
    /\ store' = "missing"
    /\ target' = "policy"
    /\ manifest' = Manifest("running")
    /\ Goto("emit")
    /\ UNCHANGED <<exists, metadata, side, shard, tmp, cover, cut, req, done, result, kills, faults>>

\* The store of an earlier run is opened when its metadata is there; target_type
\* is the configured policy until a store is created.
Begin ==
    /\ pc = "begin" /\ metadata # "torn"
    /\ store' = metadata
    /\ target' = "policy"
    /\ manifest' = Manifest("running")
    /\ Goto("emit")
    /\ UNCHANGED <<exists, metadata, side, shard, tmp, cover, cut, req, done, result, kills, faults>>

\* TeacherTargetStore.open raises before the manifest is written.
BeginFails ==
    /\ pc = "begin" /\ metadata = "torn"
    /\ End("failed")
    /\ UNCHANGED <<disk, kills, faults>>

-----------------------------------------------------------------------------
(***************************************************************************)
(* The loop over the shards.                                               *)
(***************************************************************************)
Emit ==
    /\ pc = "emit" /\ Len(done) < NShards
    /\ Goto(IF store = "missing" THEN "create" ELSE "write")
    /\ UNCHANGED <<disk, local, result, kills, faults>>

CreateStore ==
    /\ pc = "create"
    /\ target' = Type(req.config)
    /\ store' = Type(req.config)
    /\ metadata' = Type(req.config)
    /\ Goto("write")
    /\ UNCHANGED <<exists, manifest, side, shard, tmp, cover, cut, req, done, result, kills, faults>>

Write ==
    /\ pc = "write"
    /\ tmp' = TRUE
    /\ Goto("replace")
    /\ UNCHANGED <<exists, manifest, metadata, side, shard, cover, cut, local, result, kills, faults>>

\* Fault: the next shard takes the number of the last one.
ReplaceLast ==
    /\ pc = "replace"
    /\ \E c \in Content :
          /\ shard' = [shard EXCEPT ![IF done = <<>> THEN 1 ELSE Len(done)] = c]
          /\ done' = Append(done, c)
    /\ tmp' = FALSE
    /\ Goto("record")
    /\ UNCHANGED <<exists, manifest, metadata, side, cover, cut,
                    req, store, target, result, kills, faults>>

\* os.replace, and the hash of the shard in place
Replace ==
    /\ pc = "replace"
    /\ \E c \in Content :
          /\ shard' = [shard EXCEPT ![Len(done) + 1] = c]
          /\ done' = Append(done, c)
    /\ tmp' = FALSE
    /\ Goto("record")
    /\ UNCHANGED <<exists, manifest, metadata, side, cover, cut,
                    req, store, target, result, kills, faults>>

Record ==
    /\ pc = "record"
    /\ manifest' = Manifest("running")
    /\ Goto("emit")
    /\ UNCHANGED <<exists, metadata, side, shard, tmp, cover, cut, local, result, kills, faults>>

\* An exception in the loop: the teacher's, or of a file operation.
Raise ==
    /\ pc \in {"emit", "create", "write", "replace", "record"}
    /\ pc = "emit" => Len(done) < NShards
    /\ faults < MaxFaults
    /\ faults' = faults + 1
    /\ Goto("fail")
    /\ UNCHANGED <<disk, local, result, kills>>

Fail ==
    /\ pc = "fail"
    /\ manifest' = Manifest("failed")
    /\ End("failed")
    /\ UNCHANGED <<exists, metadata, side, shard, tmp, cover, cut, kills, faults>>

-----------------------------------------------------------------------------
(***************************************************************************)
(* After the last shard.                                                   *)
(***************************************************************************)
LoopEnds ==
    /\ pc = "emit" /\ Len(done) = NShards /\ store # "missing"
    /\ Goto("finish")
    /\ UNCHANGED <<disk, local, result, kills, faults>>

\* Nothing left to emit and no store: the run raises, the manifest stays "running".
NoExamples ==
    /\ pc = "emit" /\ Len(done) = NShards /\ store = "missing"
    /\ End("failed")
    /\ UNCHANGED <<disk, kills, faults>>

\* _rewrite_metadata_with_streaming_completion
Finish ==
    /\ pc = "finish"
    /\ metadata' = store
    /\ Goto("sidecars")
    /\ UNCHANGED <<exists, manifest, side, shard, tmp, cover, cut, local, result, kills, faults>>

Sidecars ==
    /\ pc = "sidecars"
    /\ side' = target
    /\ Goto("check")
    /\ UNCHANGED <<exists, manifest, metadata, shard, tmp, cover, cut, local, result, kills, faults>>

Check ==
    /\ pc = "check"
    /\ Goto(IF Valid THEN "complete" ELSE "reject")
    /\ UNCHANGED <<disk, local, result, kills, faults>>

Reject ==
    /\ pc = "reject"
    /\ manifest' = [manifest EXCEPT !.at = "failed"]
    /\ End("failed")
    /\ UNCHANGED <<exists, metadata, side, shard, tmp, cover, cut, kills, faults>>

Complete ==
    /\ pc = "complete"
    /\ manifest' = Manifest("complete")
    /\ Goto("cover")
    /\ UNCHANGED <<exists, metadata, side, shard, tmp, cover, cut, local, result, kills, faults>>

\* write_cover_page, and the report the caller receives
Cover ==
    /\ pc = "cover"
    /\ cover' = TRUE
    /\ End(IF Valid THEN "pass" ELSE "failed")
    /\ UNCHANGED <<exists, manifest, metadata, side, shard, tmp, cut, kills, faults>>

-----------------------------------------------------------------------------
(***************************************************************************)
(* A kill.  What was being written in place may be torn; a removal may     *)
(* have taken any of the files.                                            *)
(***************************************************************************)
Killed ==
    /\ pc # "idle" /\ kills < MaxKills
    /\ kills' = kills + 1
    /\ pc' = "idle" /\ result' = "none" /\ Forget
    /\ UNCHANGED faults

Kill == Killed /\ UNCHANGED disk

KillTearsManifest ==
    /\ Killed
    /\ pc \in {"begin", "record", "fail", "reject", "complete"}
    /\ pc = "begin" => metadata # "torn"
    /\ manifest' = Unread("torn")
    /\ UNCHANGED <<exists, metadata, side, shard, tmp, cover, cut>>

KillTearsMetadata ==
    /\ Killed
    /\ pc \in {"create", "finish"}
    /\ metadata' = "torn"
    /\ UNCHANGED <<exists, manifest, side, shard, tmp, cover, cut>>

KillTearsSidecars ==
    /\ Killed
    /\ pc = "sidecars"
    /\ side' = "torn"
    /\ UNCHANGED <<exists, manifest, metadata, shard, tmp, cover, cut>>

KillInRemoval ==
    /\ Killed
    /\ pc = "remove" /\ exists
    /\ UNCHANGED exists
    /\ cut' = TRUE
    /\ manifest' \in {manifest, NoManifest}
    /\ metadata' \in {metadata, "missing"}
    /\ side' \in {side, "missing"}
    /\ \E gone \in SUBSET Shard :
          shard' = [s \in Shard |-> IF s \in gone THEN None ELSE shard[s]]
    /\ tmp' \in {tmp, FALSE}
    /\ cover' \in {cover, FALSE}

-----------------------------------------------------------------------------
Resume == \E c \in Config : c = manifest.config /\ Start("resume", c)

Proceed ==
    \/ GateRefuses \/ Gate \/ GateOverwrites \/ Remove
    \/ OpenComplete \/ Open \/ OpenRefuses \/ Begin \/ BeginFails
    \/ Emit \/ CreateStore \/ Write \/ Replace \/ Record \/ Fail
    \/ LoopEnds \/ NoExamples \/ Finish \/ Sidecars
    \/ Check \/ Reject \/ Complete \/ Cover

Next ==
    \/ \E mode \in Mode, c \in Config : Start(mode, c)
    \/ Proceed
    \/ Raise
    \/ Kill \/ KillTearsManifest \/ KillTearsMetadata \/ KillTearsSidecars \/ KillInRemoval

Spec == Init /\ [][Next]_vars

\* A run that is not killed goes on; a user keeps resuming the build on disk.
LiveSpec == Spec /\ WF_vars(Proceed) /\ SF_vars(Resume)

-----------------------------------------------------------------------------
TypeOK ==
    /\ exists \in BOOLEAN
    /\ manifest \in [at : {"missing", "torn", "running", "failed", "complete"},
                     config : Config, done : Seq(Content)]
    /\ Len(manifest.done) <= NShards
    /\ metadata \in TypeFile /\ side \in TypeFile
    /\ shard \in [Shard -> Content \cup {None}]
    /\ tmp \in BOOLEAN /\ cover \in BOOLEAN /\ cut \in BOOLEAN
    /\ pc \in Step
    /\ req \in [mode : Mode, config : Config]
    /\ done \in Seq(Content) /\ Len(done) <= NShards
    /\ store \in TargetType \cup {"missing"} /\ target \in TargetType
    /\ result \in {"none", "pass", "refused", "failed"}
    /\ kills \in 0 .. MaxKills /\ faults \in 0 .. MaxFaults

\* A shard named in run_manifest.json is in place with the recorded content, at
\* every moment and after every kill, unless an overwriting run was stopped
\* while it removed the directory.  (STREAMING_RESUME.md: a shard is marked
\* complete only after the final file exists and its hash is recorded.)
RecordedIsSealed ==
    cut \/ \A i \in 1 .. Len(manifest.done) : shard[i] = manifest.done[i]

\* A run that returns a passing report leaves the whole textbook: the manifest is
\* complete and records every shard with the content it has, the sidecars agree
\* with the metadata, no temporary is left and the cover is written.  It holds
\* of resumed runs and after an interrupted removal as well.
ReturnMeansWhole ==
    result = "pass" =>
        /\ manifest.at = "complete"
        /\ Len(manifest.done) = NShards
        /\ \A s \in Shard : shard[s] = manifest.done[s]
        /\ metadata \in TargetType /\ side = metadata
        /\ ~tmp /\ cover

\* The shards on disk are those of a resumable build: a resumption keeps every
\* recorded shard and never emits it again, a complete build stays complete, and
\* only an overwriting run or a kill discards what was recorded.
Kept   == IF cut THEN <<>> ELSE [i \in 1 .. Len(manifest.done) |-> shard[i]]
Sealed == ~cut /\ manifest.at = "complete"
Build  == INSTANCE ResumableBuild
              WITH Piece <- Content, Pieces <- NShards, kept <- Kept, sealed <- Sealed,
                   replacing <- (pc = "remove"), crashes <- kills
BuildSpec == Build!Spec

\* What stops every later resumption: a file torn by a kill, an interrupted removal.
Damaged == cut \/ manifest.at \in {"missing", "torn"} \/ metadata = "torn"

Resumable(c) == manifest.at \in {"running", "failed"} /\ manifest.config = c

\* A build that a kill or a failed shard has stopped is completed by resuming it,
\* unless a kill tore its manifest or metadata or cut a removal short, when the
\* configuration stores the configured policy as target type.
ResumeCompletes ==
    \A c \in Config \ TwoPass : Resumable(c) ~> (manifest.at = "complete" \/ Damaged)

\* The same for every configuration.  (backend_textbook.py:460 "Fix the failure and
\* rerun with --resume.")
EveryResumeCompletes ==
    \A c \in Config : Resumable(c) ~> (manifest.at = "complete" \/ Damaged)
=============================================================================
