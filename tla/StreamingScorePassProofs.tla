---------------------- MODULE StreamingScorePassProofs ----------------------
(***************************************************************************)
(* Theorems about StreamingScorePass, for every number of shards, every    *)
(* set of contents and of configurations, and every bound.                 *)
(***************************************************************************)
EXTENDS StreamingScorePass, TLAPS

Starting == {"idle", "gate", "remove", "open"}
Looping  == {"emit", "create", "write", "replace", "record"}
Ending   == {"finish", "sidecars", "check", "reject", "complete"}

\* Outside a run nothing is remembered of it; a run in progress has not ended.
Remembers ==
    /\ pc \in Starting => done = <<>>
    /\ pc # "idle" => result = "none"
    /\ pc = "finish" => store # "missing"

\* The shards a run takes for recorded are in place.
RunIsSealed == \A i \in 1 .. Len(done) : shard[i] = done[i]

\* The manifest records what the run does, but for the last shard when it is
\* about to be recorded.
ManifestFollows ==
    /\ manifest.at \in {"missing", "torn"} => manifest.done = <<>>
    /\ manifest.at = "complete" => Len(manifest.done) = NShards
    /\ pc = "begin" => manifest.at # "complete" /\ manifest.done = done
    /\ pc \in Looping \cup {"fail"} \cup Ending => manifest.at = "running"
    /\ pc \in {"emit", "create", "write", "replace"} \cup Ending => manifest.done = done
    /\ pc = "record" => \E c \in Content : done = Append(manifest.done, c)
    /\ pc = "fail" => \/ done = manifest.done
                      \/ \E c \in Content : done = Append(manifest.done, c)
    /\ pc \in {"create", "write", "replace"} => Len(done) < NShards
    /\ pc \in Ending => Len(done) = NShards

\* After an interrupted removal a recorded shard is in place or missing.
NothingElse == \A i \in 1 .. Len(manifest.done) : shard[i] \in {manifest.done[i], None}

CoverIsEarned ==
    /\ pc \in {"open", "begin", "emit", "create", "write", "record", "cover"} \cup Ending => ~tmp
    /\ pc = "cover" => manifest.at = "complete" /\ Valid
    /\ pc = "complete" => Valid

Inv ==
    /\ TypeOK /\ Remembers /\ RunIsSealed /\ ManifestFollows
    /\ RecordedIsSealed /\ NothingElse /\ CoverIsEarned /\ ReturnMeansWhole

\* The actions that leave the directory as it is, and end, start or advance a run.
Quiet ==
    \/ \E mode \in Mode, c \in Config : Start(mode, c)
    \/ GateRefuses \/ GateOverwrites \/ OpenComplete \/ Open \/ OpenRefuses \/ BeginFails
    \/ Emit \/ LoopEnds \/ NoExamples \/ Check \/ Raise \/ Kill

-----------------------------------------------------------------------------
LEMMA NoManifestType ==
    /\ \A at \in {"missing", "torn"} :
          /\ Unread(at) \in [at : {"missing", "torn", "running", "failed", "complete"},
                             config : Config, done : Seq(Content)]
          /\ Unread(at).at = at /\ Unread(at).done = <<>> /\ Len(Unread(at).done) <= NShards
    /\ NoManifest = Unread("missing")
    /\ NoRequest \in [mode : Mode, config : Config]
    /\ <<>> \in Seq(Content) /\ Len(<<>>) <= NShards
  <1>1. AnyConfig \in Config
    BY ConfigAssumption DEF AnyConfig
  <1>. QED
    BY <1>1, NShardsAssumption DEF NoManifest, Unread, NoRequest, Mode

LEMMA ManifestType ==
    ASSUME TypeOK, NEW at \in {"running", "failed", "complete"}
    PROVE  /\ Manifest(at) \in [at : {"missing", "torn", "running", "failed", "complete"},
                                config : Config, done : Seq(Content)]
           /\ Manifest(at).at = at /\ Manifest(at).done = done
  BY DEF Manifest, TypeOK

LEMMA TypeOfStart ==
    ASSUME TypeOK, NEW mode \in Mode, NEW c \in Config, Start(mode, c)
    PROVE  TypeOK'
  BY DEF TypeOK, Start, Goto, disk, Step

LEMMA TypeOfRecords == ASSUME TypeOK, Begin \/ Record \/ Fail \/ Reject \/ Complete PROVE TypeOK'
  <1>1. CASE Begin
    BY <1>1, ManifestType DEF TypeOK, Begin, Goto, Step, TypeFile, TargetType
  <1>2. CASE Record
    BY <1>2, ManifestType DEF TypeOK, Record, Goto, Step, local
  <1>3. CASE Fail
    BY <1>3, ManifestType, NoManifestType DEF TypeOK, Fail, End, Forget, Step, TargetType
  <1>4. CASE Reject
    BY <1>4, NoManifestType DEF TypeOK, Reject, End, Forget, Step, TargetType
  <1>5. CASE Complete
    BY <1>5, ManifestType DEF TypeOK, Complete, Goto, Step, local
  <1>. QED
    BY <1>1, <1>2, <1>3, <1>4, <1>5

LEMMA TypeOfFiles ==
    ASSUME TypeOK, Gate \/ Remove \/ CreateStore \/ Write \/ Replace \/ Finish \/ Sidecars \/ Cover,
           pc = "finish" => store # "missing",
           pc = "replace" => Len(done) < NShards
    PROVE  TypeOK'
  <1>1. CASE Gate
    BY <1>1 DEF TypeOK, Gate, Goto, Step, local
  <1>2. CASE Remove
    BY <1>2, NoManifestType DEF TypeOK, Remove, Goto, Step, local, NoShards, TypeFile
  <1>3. CASE CreateStore
    BY <1>3 DEF TypeOK, CreateStore, Goto, Step, TypeFile, TargetType, Type
  <1>4. CASE Write
    BY <1>4 DEF TypeOK, Write, Goto, Step, local
  <1>5. CASE Replace
    <2>1. PICK c \in Content : /\ shard' = [shard EXCEPT ![Len(done) + 1] = c]
                               /\ done' = Append(done, c)
      BY <1>5 DEF Replace
    <2>2. Len(done) < NShards /\ Len(done) + 1 \in Shard
      BY <1>5, NShardsAssumption DEF TypeOK, Shard, Replace
    <2>3. done' \in Seq(Content) /\ Len(done') <= NShards
      BY <2>1, <2>2, NShardsAssumption DEF TypeOK
    <2>4. shard' \in [Shard -> Content \cup {None}]
      BY <2>1, <2>2 DEF TypeOK
    <2>5. /\ pc' = "record" /\ tmp' = FALSE
          /\ UNCHANGED <<exists, manifest, metadata, side, cover, cut,
                         req, store, target, result, kills, faults>>
      BY <1>5 DEF Replace, Goto
    <2>. QED
      BY <2>3, <2>4, <2>5 DEF TypeOK, Step
  <1>6. CASE Finish
    BY <1>6 DEF TypeOK, Finish, Goto, Step, local, TypeFile
  <1>7. CASE Sidecars
    BY <1>7 DEF TypeOK, Sidecars, Goto, Step, local, TypeFile
  <1>8. CASE Cover
    <2>1. result' \in {"pass", "failed"}
      BY <1>8 DEF Cover, End
    <2>. QED
      BY <1>8, <2>1, NoManifestType DEF TypeOK, Cover, End, Forget, Step, TargetType
  <1>. QED
    BY <1>1, <1>2, <1>3, <1>4, <1>5, <1>6, <1>7, <1>8

LEMMA TypeOfQuiet == ASSUME TypeOK, Quiet PROVE TypeOK'
  <1>1. CASE \E mode \in Mode, c \in Config : Start(mode, c)
    BY <1>1, TypeOfStart
  <1>2. CASE GateRefuses \/ OpenRefuses \/ BeginFails \/ NoExamples
    BY <1>2, NoManifestType
    DEF TypeOK, GateRefuses, OpenRefuses, BeginFails, NoExamples, End, Forget, disk, Step, TargetType
  <1>3. CASE GateOverwrites \/ OpenComplete \/ LoopEnds
    BY <1>3 DEF TypeOK, GateOverwrites, OpenComplete, LoopEnds, Goto, disk, local, Step
  <1>4. CASE Open
    BY <1>4 DEF TypeOK, Open, Goto, disk, Step
  <1>5. CASE Emit
    BY <1>5 DEF TypeOK, Emit, Goto, disk, local, Step
  <1>6. CASE Check
    <2>1. pc' \in {"complete", "reject"}
      BY <1>6 DEF Check, Goto
    <2>. QED
      BY <1>6, <2>1 DEF TypeOK, Check, disk, local, Step
  <1>7. CASE Raise
    BY <1>7, BoundsAssumption DEF TypeOK, Raise, Goto, disk, local, Step
  <1>8. CASE Kill
    BY <1>8, NoManifestType, BoundsAssumption DEF TypeOK, Kill, Killed, Forget, disk, Step, TargetType
  <1>. QED
    BY <1>1, <1>2, <1>3, <1>4, <1>5, <1>6, <1>7, <1>8 DEF Quiet

LEMMA TypeOfKills ==
    ASSUME TypeOK, KillTearsManifest \/ KillTearsMetadata \/ KillTearsSidecars \/ KillInRemoval
    PROVE  TypeOK'
  <1>. USE BoundsAssumption, NoManifestType DEF Killed, Forget, Step, TargetType
  <1>1. CASE KillTearsManifest
    BY <1>1 DEF TypeOK, KillTearsManifest
  <1>2. CASE KillTearsMetadata
    BY <1>2 DEF TypeOK, KillTearsMetadata, TypeFile
  <1>3. CASE KillTearsSidecars
    BY <1>3 DEF TypeOK, KillTearsSidecars, TypeFile
  <1>4. CASE KillInRemoval
    <2>1. PICK gone \in SUBSET Shard :
              shard' = [s \in Shard |-> IF s \in gone THEN None ELSE shard[s]]
      BY <1>4 DEF KillInRemoval
    <2>2. manifest' \in {manifest, NoManifest} /\ Len(manifest'.done) <= NShards
      BY <1>4, NShardsAssumption DEF TypeOK, KillInRemoval
    <2>3. /\ metadata' \in TypeFile /\ side' \in TypeFile
          /\ tmp' \in BOOLEAN /\ cover' \in BOOLEAN /\ cut' \in BOOLEAN
      BY <1>4 DEF TypeOK, KillInRemoval, TypeFile
    <2>4. shard' \in [Shard -> Content \cup {None}]
      BY <2>1 DEF TypeOK
    <2>5. /\ exists' \in BOOLEAN /\ pc' \in Step /\ req' \in [mode : Mode, config : Config]
          /\ done' \in Seq(Content) /\ Len(done') <= NShards
          /\ store' \in TargetType \cup {"missing"} /\ target' \in TargetType
          /\ result' = "none" /\ kills' \in 0 .. MaxKills /\ faults' \in 0 .. MaxFaults
      BY <1>4, NShardsAssumption DEF TypeOK, KillInRemoval
    <2>. QED
      BY <2>2, <2>3, <2>4, <2>5 DEF TypeOK
  <1>. QED
    BY <1>1, <1>2, <1>3, <1>4

LEMMA TypeStep == ASSUME Inv, [Next]_vars PROVE TypeOK'
  <1>1. CASE UNCHANGED vars
    BY <1>1 DEF Inv, TypeOK, vars, disk, local
  <1>2. CASE Quiet
    BY <1>2, TypeOfQuiet DEF Inv
  <1>3. CASE Begin \/ Record \/ Fail \/ Reject \/ Complete
    BY <1>3, TypeOfRecords DEF Inv
  <1>4. CASE Gate \/ Remove \/ CreateStore \/ Write \/ Replace \/ Finish \/ Sidecars \/ Cover
    BY <1>4, TypeOfFiles DEF Inv, Remembers, ManifestFollows
  <1>5. CASE KillTearsManifest \/ KillTearsMetadata \/ KillTearsSidecars \/ KillInRemoval
    BY <1>5, TypeOfKills DEF Inv
  <1>. QED
    BY <1>1, <1>2, <1>3, <1>4, <1>5 DEF Next, Proceed, Quiet

-----------------------------------------------------------------------------
(***************************************************************************)
(* What a run remembers.                                                   *)
(***************************************************************************)
LEMMA RemembersStep == ASSUME Inv, [Next]_vars PROVE Remembers'
  <1>. USE DEF Inv, Remembers, Starting
  <1>1. CASE UNCHANGED vars
    BY <1>1 DEF vars, disk, local
  <1>2. CASE Quiet
    <2>1. CASE \E mode \in Mode, c \in Config : Start(mode, c)
      BY <2>1 DEF Start, Goto
    <2>2. CASE GateRefuses \/ OpenRefuses \/ BeginFails \/ NoExamples \/ Kill
      BY <2>2 DEF GateRefuses, OpenRefuses, BeginFails, NoExamples, Kill, Killed, End, Forget
    <2>3. CASE GateOverwrites \/ OpenComplete \/ Open \/ Emit \/ LoopEnds \/ Check \/ Raise
      BY <2>3 DEF GateOverwrites, OpenComplete, Open, Emit, LoopEnds, Check, Raise, Goto, local
    <2>. QED
      BY <1>2, <2>1, <2>2, <2>3 DEF Quiet
  <1>3. CASE Begin \/ Record \/ Fail \/ Reject \/ Complete
    BY <1>3 DEF Begin, Record, Fail, Reject, Complete, Goto, End, Forget, local
  <1>4. CASE Gate \/ Remove \/ CreateStore \/ Write \/ Replace \/ Finish \/ Sidecars \/ Cover
    BY <1>4 DEF Gate, Remove, CreateStore, Write, Replace, Finish, Sidecars, Cover,
                Goto, End, Forget, local
  <1>5. CASE KillTearsManifest \/ KillTearsMetadata \/ KillTearsSidecars \/ KillInRemoval
    BY <1>5 DEF KillTearsManifest, KillTearsMetadata, KillTearsSidecars, KillInRemoval, Killed, Forget
  <1>. QED
    BY <1>1, <1>2, <1>3, <1>4, <1>5 DEF Next, Proceed, Quiet

\* A run that ends or is killed, and one that has not opened a manifest, has nothing recorded.
LEMMA EmptyRun == ASSUME done' = <<>> PROVE RunIsSealed'
  BY DEF RunIsSealed

LEMMA RunIsSealedStep == ASSUME Inv, [Next]_vars PROVE RunIsSealed'
  <1>. USE DEF Inv
  <1>1. CASE UNCHANGED <<shard, done>>
    BY <1>1 DEF RunIsSealed
  <1>2. CASE done' = <<>>
    BY <1>2, EmptyRun
  <1>3. CASE Open
    <2>1. done' = manifest.done /\ shard' = shard /\ Verified
      BY <1>3 DEF Open, Resumed, disk
    <2>. QED
      BY <2>1 DEF RunIsSealed, Verified
  <1>4. CASE Replace
    <2>1. PICK c \in Content : /\ shard' = [shard EXCEPT ![Len(done) + 1] = c]
                               /\ done' = Append(done, c)
      BY <1>4 DEF Replace
    <2>2. Len(done) + 1 \in Shard /\ done \in Seq(Content) /\ shard \in [Shard -> Content \cup {None}]
      BY <1>4, NShardsAssumption DEF Replace, ManifestFollows, TypeOK, Shard
    <2>3. /\ Len(done') = Len(done) + 1 /\ done'[Len(done) + 1] = c
          /\ \A i \in 1 .. Len(done) : done'[i] = done[i] /\ shard'[i] = shard[i]
          /\ shard'[Len(done) + 1] = c
      BY <2>1, <2>2, NShardsAssumption DEF Shard
    <2>. QED
      BY <2>2, <2>3 DEF RunIsSealed
  <1>5. Gate \/ Remove \/ Quiet => UNCHANGED <<shard, done>> \/ done' = <<>> \/ Open
    <2>1. Gate \/ GateOverwrites \/ OpenComplete \/ Emit \/ LoopEnds \/ Check \/ Raise
             => UNCHANGED <<shard, done>>
      BY DEF Gate, GateOverwrites, OpenComplete, Emit, LoopEnds, Check, Raise, disk, local
    <2>2. Remove => done' = <<>>
      BY DEF Remove, Remembers, Starting, local
    <2>3. (\E mode \in Mode, c \in Config : Start(mode, c)) => UNCHANGED <<shard, done>>
      BY DEF Start, disk
    <2>4. GateRefuses \/ OpenRefuses \/ BeginFails \/ NoExamples \/ Kill => done' = <<>>
      BY DEF GateRefuses, OpenRefuses, BeginFails, NoExamples, Kill, Killed, End, Forget
    <2>. QED
      BY <2>1, <2>2, <2>3, <2>4 DEF Quiet
  <1>6. Begin \/ Record \/ Complete \/ CreateStore \/ Write \/ Finish \/ Sidecars
           => UNCHANGED <<shard, done>>
    BY DEF Begin, Record, Complete, CreateStore, Write, Finish, Sidecars, local
  <1>7. Fail \/ Reject \/ Cover \/ KillTearsManifest \/ KillTearsMetadata \/ KillTearsSidecars
           \/ KillInRemoval => done' = <<>>
    BY DEF Fail, Reject, Cover, KillTearsManifest, KillTearsMetadata, KillTearsSidecars,
           KillInRemoval, Killed, End, Forget
  <1>. QED
    BY <1>1, <1>2, <1>3, <1>4, <1>5, <1>6, <1>7 DEF Next, Proceed, Quiet, vars, disk, local

-----------------------------------------------------------------------------
(***************************************************************************)
(* What the manifest records.                                              *)
(***************************************************************************)
LEMMA Appended ==
    ASSUME NEW S, NEW s \in Seq(S), NEW c \in S
    PROVE  /\ Append(s, c) \in Seq(S)
           /\ Len(Append(s, c)) = Len(s) + 1
           /\ Append(s, c)[Len(s) + 1] = c
           /\ \A i \in 1 .. Len(s) : Append(s, c)[i] = s[i]
  OBVIOUS

\* An action that leaves the manifest and the list of the run, and goes to an
\* unconstrained step or to one whose constraint holds.
LEMMA FollowsQuiet == ASSUME Inv, Quiet PROVE ManifestFollows'
  <1>. USE DEF Inv, ManifestFollows, Looping, Ending, disk, local, Goto, End, Forget
  <1>1. CASE \E mode \in Mode, c \in Config : Start(mode, c)
    BY <1>1 DEF Start
  <1>2. CASE GateRefuses \/ OpenRefuses \/ BeginFails \/ NoExamples \/ Kill
    BY <1>2 DEF GateRefuses, OpenRefuses, BeginFails, NoExamples, Kill, Killed
  <1>3. CASE GateOverwrites \/ OpenComplete \/ Emit \/ LoopEnds
    <2>1. CASE Emit
      BY <2>1, NShardsAssumption DEF Emit, TypeOK
    <2>2. CASE LoopEnds
      BY <2>2 DEF LoopEnds
    <2>. QED
      BY <1>3, <2>1, <2>2 DEF GateOverwrites, OpenComplete
  <1>4. CASE Open
    BY <1>4 DEF Open, Resumed
  <1>5. CASE Check
    BY <1>5 DEF Check
  <1>6. CASE Raise
    BY <1>6 DEF Raise
  <1>. QED
    BY <1>1, <1>2, <1>3, <1>4, <1>5, <1>6 DEF Quiet

LEMMA FollowsRecords == ASSUME Inv, Begin \/ Record \/ Fail \/ Reject \/ Complete PROVE ManifestFollows'
  <1>. USE ManifestType DEF Inv, ManifestFollows, Looping, Ending, Goto, End, Forget
  <1>1. CASE Begin
    BY <1>1 DEF Begin
  <1>2. CASE Record
    BY <1>2 DEF Record, local
  <1>3. CASE Fail
    BY <1>3 DEF Fail
  <1>4. CASE Reject
    BY <1>4 DEF Reject, TypeOK
  <1>5. CASE Complete
    BY <1>5 DEF Complete, local
  <1>. QED
    BY <1>1, <1>2, <1>3, <1>4, <1>5

LEMMA FollowsFiles ==
    ASSUME Inv, Gate \/ Remove \/ CreateStore \/ Write \/ Replace \/ Finish \/ Sidecars \/ Cover
    PROVE  ManifestFollows'
  <1>. USE DEF Inv, ManifestFollows, Looping, Ending, Goto, End, Forget, local
  <1>1. CASE Gate
    BY <1>1 DEF Gate, Remembers, Starting
  <1>2. CASE Remove
    BY <1>2, NoManifestType DEF Remove, Remembers, Starting
  <1>3. CASE CreateStore \/ Write \/ Finish \/ Sidecars \/ Cover
    BY <1>3 DEF CreateStore, Write, Finish, Sidecars, Cover
  <1>4. CASE Replace
    <2>1. PICK c \in Content : done' = Append(done, c)
      BY <1>4 DEF Replace
    <2>2. manifest' = manifest /\ pc' = "record" /\ manifest.done = done /\ manifest.at = "running"
      BY <1>4 DEF Replace
    <2>3. \E k \in Content : done' = Append(manifest'.done, k)
      BY <2>1, <2>2
    <2>. QED
      BY <2>2, <2>3
  <1>. QED
    BY <1>1, <1>2, <1>3, <1>4

LEMMA FollowsKills ==
    ASSUME Inv, KillTearsManifest \/ KillTearsMetadata \/ KillTearsSidecars \/ KillInRemoval
    PROVE  ManifestFollows'
  BY NoManifestType
  DEF Inv, ManifestFollows, Looping, Ending, Killed, Forget, KillTearsManifest, KillTearsMetadata,
      KillTearsSidecars, KillInRemoval

LEMMA FollowsStep == ASSUME Inv, [Next]_vars PROVE ManifestFollows'
  <1>1. CASE UNCHANGED vars
    BY <1>1 DEF Inv, ManifestFollows, vars, disk, local
  <1>. QED
    BY <1>1, FollowsQuiet, FollowsRecords, FollowsFiles, FollowsKills DEF Next, Proceed, Quiet

-----------------------------------------------------------------------------
(***************************************************************************)
(* The recorded shards.                                                    *)
(***************************************************************************)
\* The actions that change neither the manifest nor a shard nor cut.
Aside ==
    \/ Quiet \/ Gate \/ CreateStore \/ Write \/ Finish \/ Sidecars \/ Cover
    \/ KillTearsMetadata \/ KillTearsSidecars

LEMMA AsideKeeps == ASSUME Aside PROVE UNCHANGED <<manifest, shard, cut>>
  <1>1. CASE Quiet
    BY <1>1 DEF Quiet, Start, GateRefuses, GateOverwrites, OpenComplete, Open, OpenRefuses,
                BeginFails, Emit, LoopEnds, NoExamples, Check, Raise, Kill, disk
  <1>. QED
    BY <1>1 DEF Aside, Gate, CreateStore, Write, Finish, Sidecars, Cover, KillTearsMetadata,
                KillTearsSidecars

\* The manifest a run writes records shards that are in place.
LEMMA WritesSealed ==
    ASSUME Inv, Begin \/ Record \/ Fail \/ Reject \/ Complete
    PROVE  /\ shard' = shard /\ cut' = cut
           /\ \/ manifest'.done = done
              \/ manifest'.done = manifest.done
  <1>1. CASE Reject
    BY <1>1 DEF Reject, Inv, TypeOK
  <1>. QED
    BY <1>1, ManifestType DEF Inv, Begin, Record, Fail, Complete

LEMMA ReplaceKeepsRecorded ==
    ASSUME Inv, Replace
    PROVE  /\ manifest' = manifest /\ cut' = cut
           /\ \A i \in 1 .. Len(manifest.done) : shard'[i] = shard[i]
  <1>1. PICK c \in Content : shard' = [shard EXCEPT ![Len(done) + 1] = c]
    BY DEF Replace
  <1>2. manifest.done = done /\ Len(done) \in Nat /\ Len(done) < NShards
    BY DEF Inv, ManifestFollows, TypeOK, Replace
  <1>3. \A i \in 1 .. Len(done) : i \in Shard /\ i # Len(done) + 1
    BY <1>2, NShardsAssumption DEF Shard
  <1>. QED
    BY <1>1, <1>2, <1>3 DEF Inv, TypeOK, Replace

LEMMA SealedStep == ASSUME Inv, [Next]_vars PROVE RecordedIsSealed' /\ NothingElse'
  <1>. USE DEF Inv
  <1>1. CASE UNCHANGED <<manifest, shard, cut>>
    BY <1>1 DEF RecordedIsSealed, NothingElse
  <1>2. CASE Begin \/ Record \/ Fail \/ Reject \/ Complete
    <2>1. CASE manifest'.done = done
      BY <1>2, <2>1, WritesSealed DEF RecordedIsSealed, NothingElse, RunIsSealed
    <2>2. CASE manifest'.done = manifest.done
      BY <1>2, <2>2, WritesSealed DEF RecordedIsSealed, NothingElse
    <2>. QED
      BY <1>2, <2>1, <2>2, WritesSealed
  <1>3. CASE Replace
    BY <1>3, ReplaceKeepsRecorded DEF RecordedIsSealed, NothingElse
  <1>4. CASE Remove \/ KillTearsManifest
    <2>1. manifest'.done = <<>>
      BY <1>4, NoManifestType DEF Remove, KillTearsManifest
    <2>. QED
      BY <2>1 DEF RecordedIsSealed, NothingElse
  <1>5. CASE KillInRemoval
    <2>1. PICK gone \in SUBSET Shard :
              shard' = [s \in Shard |-> IF s \in gone THEN None ELSE shard[s]]
      BY <1>5 DEF KillInRemoval
    <2>2. manifest' \in {manifest, NoManifest} /\ cut'
      BY <1>5 DEF KillInRemoval
    <2>3. \A i \in 1 .. Len(manifest.done) : i \in Shard
      BY NShardsAssumption DEF TypeOK, Shard
    <2>4. NothingElse'
      BY <2>1, <2>2, <2>3, NoManifestType DEF NothingElse
    <2>. QED
      BY <2>2, <2>4 DEF RecordedIsSealed
  <1>. QED
    BY <1>1, <1>2, <1>3, <1>4, <1>5, AsideKeeps DEF Next, Proceed, Quiet, Aside, vars, disk

-----------------------------------------------------------------------------
(***************************************************************************)
(* What a passing run returns.                                             *)
(***************************************************************************)
LEMMA CoverStep == ASSUME Inv, [Next]_vars PROVE CoverIsEarned'
  <1>. USE DEF Inv, CoverIsEarned, Ending, Goto, End, Forget, local
  <1>1. CASE UNCHANGED vars
    BY <1>1 DEF vars, disk, Valid
  <1>2. CASE Quiet
    <2>1. CASE \E mode \in Mode, c \in Config : Start(mode, c)
      BY <2>1 DEF Start
    <2>2. CASE GateRefuses \/ OpenRefuses \/ BeginFails \/ NoExamples \/ Kill
      BY <2>2 DEF GateRefuses, OpenRefuses, BeginFails, NoExamples, Kill, Killed
    <2>3. CASE GateOverwrites \/ Open \/ Emit \/ LoopEnds \/ Raise
      BY <2>3 DEF GateOverwrites, Open, Emit, LoopEnds, Raise, disk
    <2>4. CASE OpenComplete \/ Check
      BY <2>4 DEF OpenComplete, Check, disk, Valid
    <2>. QED
      BY <1>2, <2>1, <2>2, <2>3, <2>4 DEF Quiet
  <1>3. CASE Begin \/ Record \/ Fail \/ Reject
    BY <1>3 DEF Begin, Record, Fail, Reject
  <1>4. CASE Complete
    <2>1. manifest'.at = "complete"
      BY <1>4, ManifestType DEF Complete
    <2>. QED
      BY <1>4, <2>1 DEF Complete, Valid
  <1>5. CASE Gate \/ Remove \/ CreateStore \/ Write \/ Replace \/ Finish \/ Sidecars \/ Cover
    BY <1>5 DEF Gate, Remove, CreateStore, Write, Replace, Finish, Sidecars, Cover
  <1>6. CASE KillTearsManifest \/ KillTearsMetadata \/ KillTearsSidecars \/ KillInRemoval
    BY <1>6 DEF KillTearsManifest, KillTearsMetadata, KillTearsSidecars, KillInRemoval, Killed
  <1>. QED
    BY <1>1, <1>2, <1>3, <1>4, <1>5, <1>6 DEF Next, Proceed, Quiet

LEMMA ReturnStep == ASSUME Inv, [Next]_vars PROVE ReturnMeansWhole'
  <1>. USE DEF Inv
  <1>1. CASE UNCHANGED vars
    BY <1>1 DEF ReturnMeansWhole, vars, disk
  <1>2. CASE Cover
    <2>1. SUFFICES ASSUME Valid
                   PROVE  /\ manifest.at = "complete" /\ Len(manifest.done) = NShards
                          /\ \A s \in Shard : shard[s] = manifest.done[s]
                          /\ metadata \in TargetType /\ side = metadata /\ ~tmp
      BY <1>2 DEF Cover, End, ReturnMeansWhole
    <2>2. manifest.at = "complete" /\ Len(manifest.done) = NShards /\ ~tmp
      BY <1>2 DEF Cover, CoverIsEarned, ManifestFollows
    <2>3. \A s \in Shard : shard[s] = manifest.done[s]
      BY <2>1, <2>2 DEF NothingElse, Valid, Shard
    <2>. QED
      BY <2>1, <2>2, <2>3 DEF Valid
  <1>3. CASE result' # "pass"
    BY <1>3 DEF ReturnMeansWhole
  <1>4. Next => Cover \/ result' # "pass"
    <2>1. (\E mode \in Mode, c \in Config : Start(mode, c)) => result' # "pass"
      BY DEF Start
    <2>2. GateRefuses \/ OpenRefuses \/ BeginFails \/ NoExamples \/ Fail \/ Reject => result' # "pass"
      BY DEF GateRefuses, OpenRefuses, BeginFails, NoExamples, Fail, Reject, End
    <2>3. Kill \/ KillTearsManifest \/ KillTearsMetadata \/ KillTearsSidecars \/ KillInRemoval
             => result' # "pass"
      BY DEF Kill, KillTearsManifest, KillTearsMetadata, KillTearsSidecars, KillInRemoval, Killed
    <2>4. \/ Gate \/ GateOverwrites \/ Remove \/ OpenComplete \/ Open \/ Begin \/ Emit \/ CreateStore
             => pc # "idle" /\ result' = result
      BY DEF Gate, GateOverwrites, Remove, OpenComplete, Open, Begin, Emit, CreateStore
    <2>5. Write \/ Replace \/ Record \/ LoopEnds \/ Finish \/ Sidecars \/ Check \/ Complete \/ Raise
             => pc # "idle" /\ result' = result
      BY DEF Write, Replace, Record, LoopEnds, Finish, Sidecars, Check, Complete, Raise
    <2>. QED
      BY <2>1, <2>2, <2>3, <2>4, <2>5 DEF Next, Proceed, Remembers
  <1>. QED
    BY <1>1, <1>2, <1>3, <1>4

-----------------------------------------------------------------------------
LEMMA InitInv == Init => Inv
  <1>. SUFFICES ASSUME Init PROVE Inv
    OBVIOUS
  <1>1. manifest.done = <<>> /\ manifest.at = "missing" /\ done = <<>> /\ result = "none"
    BY NoManifestType DEF Init
  <1>2. TypeOK
    <2>1. /\ manifest \in [at : {"missing", "torn", "running", "failed", "complete"},
                           config : Config, done : Seq(Content)]
          /\ Len(manifest.done) <= NShards /\ done \in Seq(Content) /\ Len(done) <= NShards
          /\ req \in [mode : Mode, config : Config]
      BY <1>1, NoManifestType DEF Init
    <2>2. shard \in [Shard -> Content \cup {None}]
      BY DEF Init, NoShards
    <2>3. kills \in 0 .. MaxKills /\ faults \in 0 .. MaxFaults
      BY BoundsAssumption DEF Init
    <2>. QED
      BY <2>1, <2>2, <2>3 DEF Init, TypeOK, Step, TypeFile, TargetType
  <1>3. Remembers /\ RunIsSealed /\ RecordedIsSealed /\ NothingElse /\ ReturnMeansWhole
    BY <1>1 DEF Init, Remembers, RunIsSealed, RecordedIsSealed, NothingElse, ReturnMeansWhole
  <1>4. ManifestFollows /\ CoverIsEarned
    BY <1>1 DEF Init, ManifestFollows, CoverIsEarned, Looping, Ending
  <1>. QED
    BY <1>2, <1>3, <1>4 DEF Inv

LEMMA InvStep == Inv /\ [Next]_vars => Inv'
  BY TypeStep, RemembersStep, RunIsSealedStep, FollowsStep, SealedStep, CoverStep, ReturnStep DEF Inv

LEMMA Inductive == Spec => []Inv
  BY InitInv, InvStep, PTL DEF Spec

\* Every variable of the score pass keeps its type.
THEOREM Typed == Spec => []TypeOK
  BY Inductive, PTL DEF Inv

\* A shard that run_manifest.json names is in place with the recorded content, after
\* every kill, failure and resumption, while no removal has been cut short.
THEOREM RecordedSealed == Spec => []RecordedIsSealed
  BY Inductive, PTL DEF Inv

\* A passing run leaves every shard recorded and in place, sidecars that agree with
\* the metadata, no temporary and a cover.
THEOREM ReturnsWhole == Spec => []ReturnMeansWhole
  BY Inductive, PTL DEF Inv

-----------------------------------------------------------------------------
(***************************************************************************)
(* The refinement: what the manifest records is a resumable build.         *)
(***************************************************************************)
LEMMA KeptIsRecorded == Inv => Kept = (IF cut THEN <<>> ELSE manifest.done)
  <1>. SUFFICES ASSUME Inv PROVE Kept = (IF cut THEN <<>> ELSE manifest.done)
    OBVIOUS
  <1>1. CASE cut
    BY <1>1 DEF Kept
  <1>2. CASE ~cut
    <2>1. /\ \A i \in 1 .. Len(manifest.done) : shard[i] = manifest.done[i]
          /\ manifest.done \in Seq(Content)
      BY <1>2 DEF Inv, RecordedIsSealed, TypeOK
    <2>2. [i \in 1 .. Len(manifest.done) |-> shard[i]] = manifest.done
      BY <2>1
    <2>. QED
      BY <1>2, <2>2 DEF Kept
  <1>. QED
    BY <1>1, <1>2 DEF Inv, TypeOK

LEMMA KeptNext == Inv' => Kept' = (IF cut' THEN <<>> ELSE manifest'.done)
  <1>. SUFFICES ASSUME Inv' PROVE Kept' = (IF cut' THEN <<>> ELSE manifest'.done)
    OBVIOUS
  <1>1. CASE cut'
    BY <1>1 DEF Kept
  <1>2. CASE ~cut'
    <2>1. /\ \A i \in 1 .. Len(manifest'.done) : shard'[i] = manifest'.done[i]
          /\ manifest'.done \in Seq(Content)
      BY <1>2 DEF Inv, RecordedIsSealed, TypeOK
    <2>2. [i \in 1 .. Len(manifest'.done) |-> shard'[i]] = manifest'.done
      BY <2>1
    <2>. QED
      BY <1>2, <2>2 DEF Kept
  <1>. QED
    BY <1>1, <1>2 DEF Inv, TypeOK

LEMMA BuildStep ==
    ASSUME Inv, Inv', [Next]_vars
    PROVE  [Build!Next]_<<Kept, Sealed>>
  <1>1. /\ Kept = (IF cut THEN <<>> ELSE manifest.done)
        /\ Kept' = (IF cut' THEN <<>> ELSE manifest'.done)
    BY KeptIsRecorded, KeptNext
  <1>2. Sealed = (~cut /\ manifest.at = "complete") /\ Sealed' = (~cut' /\ manifest'.at = "complete")
    BY DEF Sealed
  <1>3. CASE UNCHANGED <<manifest, cut>>
    BY <1>1, <1>2, <1>3
  <1>4. CASE manifest'.done = <<>> /\ manifest'.at # "complete" /\ (pc = "remove" \/ kills' # kills)
    <2>1. Build!Discard
      BY <1>1, <1>2, <1>4 DEF Build!Discard
    <2>. QED
      BY <2>1 DEF Build!Next
  <1>5. CASE cut' /\ kills' # kills
    <2>1. Build!Discard
      BY <1>1, <1>2, <1>5 DEF Build!Discard
    <2>. QED
      BY <2>1 DEF Build!Next
  <1>6. ASSUME cut' = cut, manifest'.done = manifest.done,
               manifest.at # "complete", manifest'.at # "complete"
        PROVE  UNCHANGED <<Kept, Sealed>>
    BY <1>1, <1>2, <1>6
  <1>7. ASSUME cut' = cut, NEW c \in Content, manifest'.done = Append(manifest.done, c),
               manifest.at # "complete", manifest'.at # "complete"
        PROVE  [Build!Next]_<<Kept, Sealed>>
    <2>1. CASE cut
      BY <1>1, <1>2, <1>7, <2>1
    <2>2. CASE ~cut
      <3>1. Len(manifest.done) < NShards /\ ~Sealed /\ Sealed' = Sealed
        BY <1>2, <1>7, <2>2, NShardsAssumption, Appended DEF Inv, TypeOK
      <3>2. Kept = manifest.done /\ Kept' = Append(Kept, c)
        BY <1>1, <1>7, <2>2
      <3>3. Build!Record
        BY <3>1, <3>2 DEF Build!Record
      <3>. QED
        BY <3>3 DEF Build!Next
    <2>. QED
      BY <2>1, <2>2 DEF Inv, TypeOK
  <1>8. CASE Begin
    <2>1. cut' = cut /\ manifest'.at = "running" /\ manifest'.done = manifest.done /\ manifest.at # "complete"
      BY <1>8, ManifestType DEF Begin, Inv, ManifestFollows
    <2>. QED
      BY <1>6, <2>1
  <1>9. CASE Record \/ Fail
    <2>1. /\ cut' = cut /\ manifest'.at # "complete" /\ manifest'.done = done
          /\ manifest.at # "complete"
          /\ done = manifest.done \/ \E c \in Content : done = Append(manifest.done, c)
      BY <1>9, ManifestType DEF Record, Fail, Inv, ManifestFollows, Looping
    <2>. QED
      BY <1>6, <1>7, <2>1
  <1>10. CASE Reject
    <2>1. /\ cut' = cut /\ manifest'.at # "complete" /\ manifest'.done = manifest.done
          /\ manifest.at # "complete"
      BY <1>10 DEF Reject, Inv, ManifestFollows, Ending, TypeOK
    <2>. QED
      BY <1>6, <2>1
  <1>11. CASE Complete
    <2>1. /\ cut' = cut /\ manifest'.at = "complete" /\ manifest'.done = manifest.done
          /\ Len(manifest.done) = NShards
      BY <1>11, ManifestType DEF Complete, Inv, ManifestFollows, Ending
    <2>2. CASE cut
      BY <1>1, <1>2, <2>1, <2>2
    <2>3. CASE ~cut
      <3>1. Build!Seal
        BY <1>1, <1>2, <2>1, <2>3 DEF Build!Seal
      <3>. QED
        BY <3>1 DEF Build!Next
    <2>. QED
      BY <2>2, <2>3 DEF Inv, TypeOK
  <1>12. CASE Remove
    BY <1>4, <1>12, NoManifestType DEF Remove
  <1>13. CASE KillTearsManifest
    BY <1>4, <1>13, NoManifestType, BoundsAssumption DEF KillTearsManifest, Killed, Inv, TypeOK
  <1>14. CASE KillInRemoval
    BY <1>5, <1>14, BoundsAssumption DEF KillInRemoval, Killed, Inv, TypeOK
  <1>15. CASE Replace
    BY <1>3, <1>15 DEF Replace
  <1>16. CASE Aside
    BY <1>3, <1>16, AsideKeeps
  <1>17. CASE UNCHANGED vars
    BY <1>3, <1>17 DEF vars, disk
  <1>. QED
    BY <1>8, <1>9, <1>10, <1>11, <1>12, <1>13, <1>14, <1>15, <1>16, <1>17 DEF Next, Proceed, Quiet, Aside

\* The score pass implements ResumableBuild: a resumption keeps every recorded shard,
\* a complete build stays complete, and only an overwriting run or a kill
\* discards what was recorded.
THEOREM BuildIsResumable == Spec => BuildSpec
  <1>1. Init => Build!Init
    BY NoManifestType DEF Init, Build!Init, Kept, Sealed
  <1>2. Inv /\ Inv' /\ [Next]_vars => [Build!Next]_<<Kept, Sealed>>
    BY BuildStep
  <1>. QED
    BY <1>1, <1>2, Inductive, PTL DEF Spec, BuildSpec, Build!Spec
=============================================================================
