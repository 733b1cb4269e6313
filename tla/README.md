# RADJAX Tome: a verification project in TLA+

RADJAX Tome turns text into *corpora* (deduplicated, tokenised, sharded text)
and corpora into *Tomes* (artifacts with a teacher's labels in several target
formats).  It is a batch program, but each of its builders writes long-lived
artifacts to a directory other processes read, may be killed at any moment, may be
started twice, resumes what an earlier run left, and in one place runs a
pipeline of threads.  These specifications are about those parts: who may
touch which file when, and what is left on disk wherever a run stops.

The source is under `src/src/radjax_tome/`, its tests under `src/tests/`, its
design documents under `src/docs/`.  Paths below are relative to
`src/src/radjax_tome/` unless they begin with `docs/` or `tests/`.

## 1. Inventory

| Component | State it keeps | Operations | What is hard |
|---|---|---|---|
| corpus publication: `corpora/builder.py` (`build_corpus_artifact_v2`), `corpora/lifecycle.py`, `corpora/validation.py` | the destination directory, private staging and quarantine directories, a hash-chained journal inside the tree that moves with it | preflight, build in staging, `publish_staging` (create, overwrite with quarantine and rollback), `--resume`, `recover_publication` | a kill between any two renames, in a journal append, in a recursive removal; concurrent runs of one destination; the journal travels with the renamed tree |
| compact body store: `builder/delivery/simple_compact_body.py` | a queue bounded in bytes, results, a list of errors, staged body files, the published store | one producer, several encoding threads, digest lock, error path, promotion | wake-ups, the oversized exception to the byte bound, errors of several threads, all-or-nothing publication |
| immutable body transactions: `builder/delivery/immutable_body.py` | bodies, manifests, one shared inventory, packages; per transaction a reservation, a journal of receipts, staged copies, a quarantine | `commit`, `recover` and its two resumptions, `inspect`, `plan` | crashes between any two file operations, concurrent writers and recoveries, an inventory that is read, changed and replaced |
| artifact v3 publication: `tome/artifact_v3.py` | a Tome directory and its archive, two private staging trees, two journals | `publish_v3_from_handoff`, `resume_v3_archive_from_directory` | crash topologies of two journals, cleanup that is itself interrupted |
| native v4 publication: `builder/production_stages/v4_publication.py`, `builder/delivery/staging.py` | sealed shards and a receipt, candidate and public directory and archive | stage, seal, complete, publish, resume | shard renamed before the receipt names it, two renames for one publication |
| native Path B stages: `builder/native_path_b/` | evidence files of each stage | the stage machine, the read-only resume resolver | deciding from files alone how far an earlier run came |
| production pipeline: `builder/production.py`, `builder/production_stages/` | output files and sidecars of each stage | a sequential driver of the parts above and below, started afresh, resumed or overwriting | what a stopped run leaves decides which shortcut the next one takes |
| multi-GPU harness: `builder/multi_gpu_path_b.py` | a run manifest, per-assignment outputs | assignment, execution, resumption by output hash, merge | stale manifests, partial assignments |
| terminal UI: `tui/` | a running flag, a child process | start, cancel, forced stop, output streaming | cancellation racing the end of the child |
| delivery assembly, replay, reruns: `builder/delivery/` (the rest) | selected records, accounting rows, staged payloads | called by the pipeline | memory and device work; the hand-over to the body store |
| exemplar selection: `builder/exemplar_selection.py`, `fingerprint/corridor_*.py`, `fingerprint/multi_role_selection.py` | pools and seats of the leaderboards, a DuckDB table fed in batches, a plan, claims | consider, assign, trim; ingest, export; budget, claim, validate | seats given up and given out by turns "while changed", batch boundaries, stages whose limits differ |
| teacher textbooks: `builder/backend_textbook.py`, `builder/teacher_textbook.py` | a run manifest, shards, a target store, sidecars | the streaming score pass: start, emit, record, fail, resume, complete | files written in place, a resumption that must repeat nothing and contradict nothing |
| corpus sources, tokenizers, deduplication | none | pure algorithms | boundaries of shards and duplicate groups |
| Tome packaging, contracts, artifact validation, audit, parity | none | formats and read-only checks | none that is a state machine |
| backends, capabilities, targets, emission, fingerprint computation, reports, provenance, command line, I/O helpers | none | computation and rendering | outside a model checker's reach or interest |

Components meet in the file system only: the corpus builder publishes a
directory the production pipeline reads; the pipeline calls the body store and
the transactions with the records it selected, and v3 or v4 publication with
the finished package; the terminal UI runs any of them as a child process.

What makes each component correct:

* *Corpus publication.*  A published corpus is never lost, whichever run stops
  where; readers see a whole corpus, or damage that has a whole backup;
  recovery never restores a damaged one; directories nobody built are left
  alone; among concurrent creators one wins, and it wins with its own tree.
* *Compact body store.*  A call publishes all rows in order or nothing; memory
  in flight is bounded; a body is written once; the cause of a failure reaches
  the caller; every call ends.
* *Immutable body.*  What the inventory or a receipt promises is on disk; what a
  consumer could read stays readable; packages never change; one writer per
  transaction; recovery gives up a transaction only for a cause that can be named.
* *v3, v4.*  Whatever a crash leaves is resumed or cleanly refused, never
  half visible without a journal; directory and archive are of one build.
* *Score pass, production run, multi-GPU harness.*  What is reused was really
  finished; what is recorded is there; a passing run leaves the whole result; a
  build that was stopped can be completed by resuming it.
* *Terminal UI.*  At most one canonical CLI is running and the wizard knows of it;
  what the status line says of it is true; a forced stop ends the run.
* *Selection.*  The order and the batches of the records leave no trace; no stage
  makes what the next refuses; a selection is short only for a cause in its input.

`PROJECT.json` lists each hazard at its line with the properties aimed at it.

## 2. Plan

Modules, most important behaviour first; those with a check mark exist.

1. ✓ `CorpusPublication`, with `CorpusPublicationProofs`.
2. ✓ `CompactBodyStore` (the abstract promise), `CompactBodyPipeline` (the threads,
   which implement it), `CompactBodyPipelineProofs`.
3. ✓ `ImmutableBody`, with `ImmutableBodyProofs`.
4. ✓ `ArtifactV3Publication`: the directory and archive transactions with their
   journals, and the archive resumption; with `ArtifactV3PublicationProofs`.
5. ✓ `ResumableBuild` (the abstract promise), `StreamingScorePass` (which implements
   it), `StreamingScorePassProofs`.
6. ✓ `V4Publication`: sealed shards with receipts, then the pair of renames; and
   `ProductionRun`, which runs it as its last stage but one, with
   `ProductionRunProofs`.
7. ✓ `TuiRun`: the wizard, its workers and the child process; its theorems are in
   `ProductionRunProofs`.
8. ✓ `MultiGpuHarness`: manifest, assignments, resumption and merge; with
   `MultiGpuHarnessProofs`.
9. ✓ `SelectionInput`, `GlobalSelector`, `CandidateReserve`, `CorridorClaims`, and
   `ExemplarSelection`, which composes them; with `ExemplarSelectionProofs`.
10. `NativePathBEvidence`: what each stage writes down, and the read-only resolver
    that decides from it how far an earlier run came; to be composed with
    `ProductionRun`.
11. `SelectedRerun`: the staging of selected payloads in `delivery/staging.py`, its
    own resumption, and the assembly over it.
12. Shard layout and duplicate groups of the corpus builder, as operators checked
    against reference definitions.

The theorems of section 5 state every safety property the passing runs of these modules
check: each invariant, each action property and each refinement.

## 3. The modules and the code

In every module one action is what happens between two points at which the
process can be killed or another thread or process can run.  A group of actions
carries the name of the function it comes from in its heading.  Definitions
preceded by the comment *Fault:* are not part of a specification: each is the body
of a neighbouring definition with a plausible bug, used to show that a property
notices it.

### CorpusPublication

`dest`, `staging[x]`, `quarantine[x]` are the trees at the destination and at the
private names of run `x`; a tree is a value with an owner, a flag that says
whether validation accepts it, its staging marker, its configuration identity
and the journal inside it, so a rename moves all of these together, as it does
on disk.  `jpath` is `CorpusJournal.path`, which the code re-points after each
rename; an append goes to the tree found there *by name*, and makes the
directories when there is none (`WithEvent`).

| Code | Actions |
|---|---|
| `build_corpus_artifact_v2` | `StartBuild`, `Seal`, `AppendValidated`, `ResumePublished`, `ResumeStaged` |
| `publish_staging`, create | `ValidateStaging`, `AppendIntent`, `CheckDestination`, `CreateDestination`, `AppendPromoted` |
| `publish_staging`, overwrite | `CheckOwnership`, `StatDestination`, `QuarantineOld`, `AppendQuarantined`, `CheckInode`, `SwapIn`, `AppendNewPromoted`, `VerifyDestination`, `DiscardOld`, `DiscardedOld`, `AppendCommitted` |
| its `except` block | `TryBlockRaises`, `RollbackRemove`, `RollbackRemoved`, `RollbackRestore`, `AppendRestored` |
| `recover_publication` | `Recover`; `CorpusJournal.reopen` is `ReopenAccepts` |
| the environment | `Stop`, `StopInAppend` (a torn journal line), `PlaceForeign` |

Abstracted: the content of a corpus is one flag; journal hashes are the tear-free
prefix they guarantee; events between PREFLIGHTED and VALIDATED, which no step
reads, are left out; modification times are not kept, so a resumption may take
any fitting staged tree where the code takes the newest.

### CompactBodyStore and CompactBodyPipeline

`CompactBodyStore` is the caller's view: a call publishes exactly the rows of its
payloads or leaves the store as it was.  `CompactBodyPipeline` has the calling
thread (`step`), the encoding threads (`wstep`), the bounded queue
(`queue`, `bytes`, `oversized`, `failure` are `_items`, `_bytes`, `_oversized`,
`_failure`), the digest lock and the files.  What the code does while it holds the
condition or the lock is one action, apart from file operations inside the lock;
waiting on the condition is a step of its own (`waiting`) that only
`notify_all` leaves.  `Store` in the module instantiates the abstract module
with the rows on disk and the outcome of the call.

| Code | Actions |
|---|---|
| `_ByteBoundedQueue.put`, `get`, `release`, `fail` | `Admit`, `Wait`, `PutRaises`; `Get`; `Release`; `Fail` |
| worker loop | `LockDigest`, `BodyExists`, `WriteTemporary`, `PlaceBody`, `StoreResult`, `WorkRaises`, `AppendError` |
| calling thread | `Call`, `Refuse`, `NextPayload`, `PayloadRaises`, `Interrupt`, `StopWorkers`, `Join`, `RemoveStaging`, `RemovalFails`, `WriteMetadata`, `Promote`, `FinishRaises` |
| the process | `Crash` |

Abstracted: metrics, except the count of bodies written; a `KeyboardInterrupt`
arrives in `put` only, not while the caller joins the threads.  The removal of the
staging directory ignores its errors, so it may leave the directory (`RemovalFails`), and
the error the call ends with does not tell.

### ImmutableBody

A process (`proc[p]`) is at a step of `commit()`, of `recover()` or of one of
the two resumptions, with the locals of its call: the transaction, the next receipt it
will write, the inventory it last read and the journals still to visit.  The
files are sets and functions over transactions: `bodies`, `manifests`,
`inventory`, `package`, `lock`, `journals`, `receipts`, `staged`, `quarantined`.

| Code | Actions |
|---|---|
| `commit`, `_reserve`, `_release` | `Commit`, `Reserve`, `WriteOwner`, `OwnerFails`, `MakeJournal`, `Release` |
| receipts and staging | `Receipt` (the next step is `Then`), `StageManifest`, `StageBody`, `ValidateBody`, `Unstage` |
| publication | `LinkBody`, `LinkManifest`, `ReadInventory`, `ReplaceInventory`, `CheckInventory`, `OpenPackage`, `BuildPackage` |
| failures | `Conflict` (a check of the code refuses), `OperationFails` (an I/O error), `Crash` |
| `recover`, `_resume_manifest`, `_resume_inventory` | `Recover`, `Visit`, `Resume`, `UnlinkBody`, `UnlinkTmp`, `Unlock`, `Quarantine`, `RecoverEnds` |

The resumption of a staged manifest does not write the receipts the writer would have written.  It goes through the states and has a branch for MANIFEST_PROMOTED and the
three behind it only, so its first receipt is MANIFEST_PROMOTED whichever of the
states 5 to 7 it started from (`ResumeFrom`); `Visit` refuses a journal whose
receipts are not 1 to n, as the code does.

Abstracted: a file of a name has one content, because names are digests and
files are linked complete (packages, which are not named by content, keep
theirs); JSON receipts are regenerated from the binary ones by every reader and are
not kept; what a quarantined journal holds is not kept, nothing reads it.

### ArtifactV3Publication

`directory` and `archive` are the two public outputs, by the identity of the
handoff they were made from.  `staging` holds private staging directories by handoff
and role, `journal[<<h, k>>]` the journal root of a transaction (`canonical` for the
publisher's, `only` for the one a resumption makes when it finds a bare
directory) with the states of its two journals, `tmp` the publisher's temporary
archive, `locks` the lock files of the two renames.  `proc[p]` is a call: its
step, what it raised (`failing`) and whether it reached the archive's `finally`
block (`built`).

| Code | Actions |
|---|---|
| `publish_v3_from_handoff` | `Publish`, `RejectStale`, `RejectTarget`, `CreateStaging`, `CreateRoot`, `WriteJournal` (the table `Writes` has one entry for each journal write), `BuildArchive`, `UnlinkTmp` |
| `_rename_noreplace` | `Lock`, `RenameDirectory`, `LinkArchive`, `Unlock` |
| `_prepare_private_staging` | `PrepareStaging` |
| `_cleanup_private_state` | `RemoveStaging`, `RemoveEntries`, `RemoveRoot` |
| `resume_v3_archive_from_directory` | `Resume`, `Inspect`, `NoArchive`, `Decide`, `Finally` |
| failures | `Fails` (an operation raises, or the user interrupts; `FailTo` is the nest of `except` and `finally` blocks), `Kill`, `KillInWrite` (a journal is overwritten in place and left torn) |

Abstracted: a package is the identity of its handoff; distinct handoffs have
distinct transaction names, as these are digests.  Publishers may overlap; a
resumption is alone (`Resume` asks `Live = {}`, `Publish` waits for it), because
the code requires its caller to own the output base.  The temporary archive of a
resumption has a random name that no later step looks for.  Which restarts a
journal state allows is decided by `journal_restart_disposition_v3` of the
contract package, outside the repository: `ArchiveAcceptable` and `Decide` hold its
answers as the code and its tests use them.

### ResumableBuild and StreamingScorePass

`ResumableBuild` is what a resumption may rely on: pieces are recorded in order
(`Record`), a build with all of them is sealed (`Seal`), and the only way back
is to discard everything (`Discard`), which a replacement or a crash does.
`StreamingScorePass` has the files of the output directory (`manifest`,
`metadata`, `side` for the sidecars, `shard`, `tmp`, `cover`), the point the run has
reached (`pc`) and its locals (`req`, `done`, `store`, `target`).  JSON files are
written in place, so a kill may leave one torn; shards go through a temporary
file and `os.replace`.  `cut` says that a removal of the directory was
interrupted.  `Build` instantiates the abstract module with the recorded shards.

| Code | Actions |
|---|---|
| `build_streaming_backend_teacher_textbook`, what it finds | `Start`; `GateRefuses`, `Gate`, `GateOverwrites`, `Remove`; `OpenComplete`, `Open`, `OpenRefuses`; `Begin`, `BeginFails` |
| its loop | `Emit`, `CreateStore`, `Write`, `Replace`, `Record`; `Raise`, `Fail` |
| its end | `LoopEnds`, `NoExamples`, `Finish`, `Sidecars`, `Check`, `Reject`, `Complete`, `Cover` |
| the process | `Kill`, `KillTearsManifest`, `KillTearsMetadata`, `KillTearsSidecars`, `KillInRemoval` |

Abstracted: a shard is a hash of what the teacher emitted; metadata and sidecars are
the target type they state, which is what the validation compares.

### V4Publication and ProductionRun

`V4Publication` has the public pair (`package`, `archive`), the durable
staging beside it (`receipt`, `sealed`, `complete`), the two candidates and the
next `step`.  A tree is the identity of the build it was made from; `"broken"` is a
directory whose removal was interrupted.  `ProductionRun` EXTENDS it with the
output directory of the native Path-B route (`files`, `score`, `selected`,
`delivery`, `cover`, `report`) and one sequential run (`pc`, `req`); `Publishing`
is the publication's step inside the stage `publish`.

| Code | Actions |
|---|---|
| `publish_native_path_b_v4` | `Found`, `ChooseRaises`, `Choose`, `RemoveDirectory`, `RemoveArchive`, `Materialize`, `Pack`, `PromoteDirectory`, `PromoteArchive` |
| shard staging of `delivery/staging.py` | `PrepareNew`, `Prepare`, `PrepareRaises`, `Seal`, `SealRaises`, `WriteReceipt`, `AllSealed`, `MarkComplete` |
| preflight of `build_production_gpu_tome` | `Start`, `Reject`, `Accept`, `Preflight`, `Wipe`, `Plan` |
| score pass | `ScoreBegins`, `ScoreFails`, `ScoreSkips`, `Emit`, `FinishScore` |
| selection, rerun, assembly, validation | `Select`, `BeginRerun`, `Assemble`, `Deliver`, `Validate` |
| publication, report | `Publishing`, `PublicationEnds`, `Report`, `Finalize` (`_resume_c6_finalization`) |
| failures | `StageFails`, `Fail`, `Kill`, `KillInPublication`, `KillInWipe` |

Abstracted: a *source* stands for everything that decides the selected records;
the score pass is kept to what `StreamingScorePass` shows of it, namely that a
two-pass build that has created its store cannot be completed by a resumption; the
evidence files of the stages are left out.

### MultiGpuHarness

`files` holds the output of each assignment, `manifest` the completed assignments
with their hashes, `merged` and `report` the final files; the coordinator has its
request, the next assignment and what it has found.  Assignments, shards and
candidate records are operators (`Count`, `Shard`, `Records`).  A hash is the
content it was taken of, so a torn file never has the recorded one.

| Code | Actions |
|---|---|
| `run_multi_gpu_path_b_candidate_harness`, what it finds | `Start`, `Wipe`, `Open`, `Block`, `Refuse` |
| assignments | `Reuse`, `DryPlan`, `Produce`, `Fails`, `Worked` |
| the end | `Merge`, `WriteManifest`, `Report` |
| the process | `Kill`, `KillInWipe`, `KillInOutput`, `KillInMerge`, `KillInManifest` |

### TuiRun

All of the wizard runs on one event loop, so one action is what happens between
two awaits.  `running`, `asked` and `holder` are `_running`, `_cancel_requested` and
the owner of the two events; `screens` is the stack of confirmations; `task[w]` is the
await a worker is at; `child[w]` its process as the operating system
(`alive`, `signalled`, `killed`, `ended`), asyncio (`reaped`) and the transport
(`known`) see it.

| Code | Actions |
|---|---|
| `tui/app.py`, requests and answers | `RequestRun`, `RequestPackage`, `RequestCancel`, `RequestQuit`, `Decline`, `ConfirmRun`, `ConfirmPackage`, `ConfirmCancel`, `ConfirmForce`, `ConfirmQuit` |
| `_run`, `_package` and `tui/process.py` | `Spawn`, `SpawnFails`, `WaitReturns`, `Interrupt`, `InterruptRaises`, `StopReturns`, `ForceKill`, `KillReturns`, `Finally` |
| a worker cancelled by a later one | `CancelWorker`, `CancelFinally` |
| the child | `ChildEnds`, `ChildReaped`, `ChildKnown` |

Abstracted: output streaming, the forms, and any process the CLI itself starts.

### The selection

`SelectionInput` holds the input of one selection: rows and records in the order of
the shards, which coordinates are full-width, budgets and caps.  Three modules are
the three places where candidates are ranked, `ExemplarSelection` runs them in the
order of `prepare_c6_selection`.

| Code | Module and actions |
|---|---|
| `builder/exemplar_selection.py`: `consider`, `_assign_rank_aware_board_winners`, the budget | `GlobalSelector`: `Consider`; `Seat`, `Release`, `Backfill`, `EndTurn`, `EndRound`; `Trim` |
| `fingerprint/corridor_duckdb.py`, in batches; `corridor_leaderboards.py` as its reference | `CandidateReserve`: `Ingest`, `EndStream`; operator `Reference` |
| export of the supply (`builder/c6_integration.py`); `corridor_budget.py`, `corridor_claims.py`, `multi_role_selection.py` | `CorridorClaims`: `Export`; `Allocate`, `AllotSlot`, `NextPass`, `EndPlan`; `ClaimMode`, `EndCorridors`, `NextBoard`, `PassOver`, `Collide`, `Claim`; `Validate` |

The loops of the code are steps: a row, the turn of a board, the filling of a
seat, a slot of the corridor budget, the claims of a mode, a look at a rank of the supply.
`left` holds the boards, and `unserved` the modes, such a loop has not come to yet.

Abstracted: scores are numbers given with the input and a record's payload is its
score; the bounded heap of a pool is the best entries it keeps; digests and
lineage are kept only where a validator compares them; artifact files are passed on in memory.

## 4. What is checked

Every run is on instances small enough to exhaust.

| Run | Question | Bounds |
|---|---|---|
| `corpus` | `OldOrNewSurvives`, `DamageHasBackup`, `RecoveryIsSound`, `OneWinner`, `UnrelatedIsKept`, `PublishedStays` | three runs of any mode, creators and resumptions beside each other, nothing beside an overwriting run; each stops anywhere; recoveries; a foreign directory appears |
| `body_pipeline` | `BytesBounded`, `CauseIsReported`, `BodiesWrittenOnce`, `EndsClean`, the refinement `PublishesAllOrNothing`, and `CallEnds` under fairness | two threads, three payloads over two bodies, sizes below and above the limit, two calls, a kill |
| `immutable_serial` | `ReceiptsAreBacked`, `BoundStays`, `QuarantineHasCause` | two exemplars with one body, one process at a time, five calls, two kills, one I/O error |
| `immutable_writers` | `InventoryIsBacked`, `OneWriter`, `PackageIsImmutable` while calls overlap | two processes, two exemplars with one body, three calls, one kill, one I/O error |
| `artifact_v3` | `ArchiveIsOfDirectory`, `MarkersAreBacked`, `ArchiveStagingHasRoot`, `ReturnMeansPublished`, `PublicStays` | two publishers that may overlap, two handoffs, four calls, two kills (in journal writes too), one error or interrupt |
| `score_pass` | `RecordedIsSealed`, `ReturnMeansWhole`, the refinement `BuildSpec`, and `ResumeCompletes` under fairness | two shards, two contents, a one-pass and a two-pass configuration, two kills, one exception, any number of runs |
| `production` | `SealedIsBacked`, `PublishedIsDelivered`, `PairStays`, and `ResumeCompletes` under fairness | two sources, two shards, one kill, one failing stage, one resumption with another source, any number of runs |
| `multi_gpu` | `PassIsWhole`, `ProgressStays`, and `ResumePasses` under fairness | three examples, two settings that differ in shard size and devices, two kills, one failing assignment, any number of runs |
| `tui` | `CliIsKnown`, `StatusIsTrue`, and `ForceEnds` under fairness | two workers, two screens on top of each other |
| `selection` | `SeatsAreFair`, `ReserveIsReference`, `ShortfallHasCause` | every input of four families, see below |

The bounds are where the interesting cases begin.  Three corpus runs are
a corpus, an overwrite that stops, and a run that builds on, or recovers from, what it
left; a fourth run meets nothing new, since an idle name holds a tree, damage or
nothing whoever left it.  Two threads contend for the lock and the queue, and a
third payload makes the producer wait while both are busy; a size above the
limit exercises the oversized path, and a repeated body the digest lock.  Two
exemplars sharing a body are what makes the removal of a body by recovery
dangerous; five calls with two kills allow a recovery that is itself killed and run again.  Two
publishers of one handoff share every private name and two of different handoffs the
locks and the targets only; four calls with two kills are a publication that is cut,
a resumption that is cut, one that finishes, and a call that meets the result.
Two shards are one that is recorded and one that is not when a run stops, and two
contents tell a shard that was kept from one that was emitted again.  Three examples
in shards of two leave a short last shard, and the two settings make it possible to
resume with another one.  Two workers are a run and what displaces it, two
screens a confirmation asked for on top of another.

The inputs of `selection` are complete families: every way four coordinates can
score on two boards of all rows and a bucket of each, with budgets that do and do not
suffice; rows of which one comes twice, first or last, in its own bucket or in the
other; every stream of up to four of five
records (two that conflict, one not eligible), read in batches of two, so that a repeat
falls inside a batch, across two, or both; and every set of full-width
coordinates among five with the budgets, shares, caps and scores that decide
between two modes.  Among them are selections that end in a conflict, ones refused for
the full-width cap, short ones, and assignments that need a second round.

Some properties have a condition that is part of what the code promises.
`InventoryIsBacked` and `OneWriter` hold as long as no `recover()` has worked beside
another call (the history variable `beside`); such recoveries are in the run,
and `PackageIsImmutable` holds through them.  `PassIsWhole` and `ProgressStays` speak of a directory
that has seen one setting, because the harness records the settings and does not
compare them.  `PublishedIsDelivered` excludes resumptions, which return a pair they find
without asking whose it is, and counts the source of the last run that was not rejected.
`EndsClean` excludes a staging directory whose removal failed.  `QuarantineHasCause` has
three causes: the package of an older inventory, an I/O error, and a gap that an
earlier resumption left in the receipts (`Skipped`).  `ResumeCompletes` of `ProductionRun` says that
a build whose score pass is complete ends delivered, covered and reported
(`Completed`), unless a run is stopped inside its selected rerun (`Stranded`) or
the build is overwritten; the report may be that of a finalization-only pass.  `ProgressStays` and
`ResumePasses` exclude blocked runs of the harness, which write an empty manifest.  A
directory that somebody else places at a corpus destination appears while the
destination is free, not between the ownership test of an overwrite and its rename.

A finished corpus history and a wizard that has been left are normal ends, so
`CHECK_DEADLOCK` is off for `CorpusPublication` and `TuiRun`; the other modules have
an explicit `Terminated` step, or a new run can always start, and are
checked for deadlock.

*Fairness.*  Kills, exceptions and failed operations are bounded and never fair.

* `CompactBodyPipeline`: weak fairness of the calling thread and of each encoding
  thread.  The operating system schedules every runnable thread,
  `notify_all` wakes every waiter, and the digest lock is held by a thread that
  is itself scheduled.  `FirstBodySpec` fixes the body of the
  first payload: symmetry sets are unsound for liveness, and bodies are interchangeable.
* `StreamingScorePass`, `ProductionRun`, `MultiGpuHarness`: weak fairness of
  `Proceed`, since a sequential process that is not killed goes on; and strong fairness of
  `Resume`: somebody keeps resuming an unfinished build, whatever other runs are started in
  between, which is what the failure reports ask for ("rerun with --resume").
* `TuiRun`: weak fairness of each worker's next await (the event loop), and of
  the end and the reaping of a killed child, which the operating system does.  A
  child that is only interrupted may ignore it for ever.

### Where documents and code disagree

Each of these runs checks one statement of a document or comment and ends in a
counterexample; `PROJECT.json` quotes the statement and the line.

| Run | Statement | What happens |
|---|---|---|
| `immutable_lost_binding` | "race-resistant writer" (`immutable_body.py:63`) | two writers replace the inventory from the same reading; one COMMITTED transaction is not in it |
| `score_pass_resume` | "Fix the failure and rerun with --resume" (`backend_textbook.py:460`) | a resumed two-pass build writes sidecars of the configured target type beside metadata of the artifact's type; its own validation rejects it, and that of every later resumption |

### Behaviours the models contain and no run singles out

Each is what the code does, is in the models at the lines given, and a
reader of the properties should know of it.

* *Corpus.*  The old corpus is renamed to a random name before the journal records
  that name; stopped in between, no journal leads back to it
  (`lifecycle.py:177`).  Of two overlapping overwrites, which the run excludes, the
  rollback of one can remove the tree the other has just published.
* *Compact body store.*  `rmtree(..., ignore_errors=True)` can leave the staging directory
  without a word (`simple_compact_body.py:356`).
* *Immutable body.*  A resumption from BODY_PROMOTED, MANIFEST_PROVISIONAL or
  LINKAGE_FINALIZED writes no receipt before MANIFEST_PROMOTED
  (`immutable_body.py:798`), where `docs/M8G_CONTRACT_AMENDMENT_DESIGN.md:257` allows a receipt
  to repeat but not to skip.  `recover()` reports the transaction as resumed with the
  states 1 to 12 (527); the next `recover()` finds the gap (447) and quarantines the
  finished transaction, which stays in the inventory.  A resumption from a staged manifest writes PACKAGE_VALIDATED and
  builds no package (`immutable_body.py:821`); `recover()` beside a live writer can
  remove a body the inventory goes on to name (495); a reservation without
  a journal is visited by no recovery; a commit repeated after others have
  grown the inventory builds a different package and conflicts with the first.
* *v3.*  A publisher killed between COMPLETE_INTENT and the creation of the archive's
  staging leaves a partial publication every resumption refuses (`artifact_v3.py:1309`).
* *Score pass.*  Resuming a complete build returns it whatever configuration is
  asked for (`backend_textbook.py:295`).
* *Production.*  A run stopped in the selected rerun cannot be resumed
  (`artifact_validation/delivery.py:146`); a finalization-only resumption reports
  a pass without publishing (`production.py:3089`); the durable shard staging is never removed, so
  overwriting with another source removes the old pair and then fails; a kill between
  the rename of a shard (`staging.py:1066`) and its receipt makes every later
  publication refuse.
* *Multi-GPU.*  A blocked resumption overwrites the manifest with an empty list
  (`multi_gpu_path_b.py:113`), and a blocked overwriting run has already removed
  the directory (70).
* *Terminal UI.*  Packaging during a run cancels its worker and leaves its CLI to itself
  (`tui/app.py:493`), so `CliIsKnown` and `StatusIsTrue` speak of wizards that have not packaged;
  a child that ended before the interrupt reached it is still called interrupted
  (`tui/process.py:87`).
* *Selection.*  A repeat that falls across a batch boundary is counted as
  eligible again and as a duplicate, where the reference counts it once; a record
  that conflicts with one not eligible is refused by the reference builder and not by the
  store; C3 gives a mode slots its full-width cap does not let C4 fill, and C4 refuses
  (`WidthStarved`).

## 5. What is proved

TLAPS checks these for every value of the constants that satisfies the `ASSUME`s of the module
(finite sets of processes and threads, natural bounds, names that do not
collide).

| Theorem | Statement | Extra assumption |
|---|---|---|
| `CorpusPublicationProofs!TypeCorrect` | `Spec => []TypeOK` | |
| `CorpusPublicationProofs!CorpusSurvives`, `DamageIsBacked` | `[]OldOrNewSurvives`, `[]DamageHasBackup` | `OverwriteAlone \/ MaxLive = 1` |
| `CorpusPublicationProofs!RecoversWhole` | `[]RecoveryIsSound` | `OverwriteAlone \/ MaxLive = 1` |
| `CorpusPublicationProofs!UnrelatedStays` | `UnrelatedIsKept` | `OverwriteAlone \/ MaxLive = 1` |
| `CorpusPublicationProofs!CreatorsPublishedStays`, `OneRunWins` | `PublishedStays`, `[]OneWinner`, any number of runs at once | |
| `CompactBodyPipelineProofs!TypeCorrect` | `[]TypeOK` | |
| `CompactBodyPipelineProofs!CauseReported`, `Clean` | `[]CauseIsReported`, `[]EndsClean` | |
| `CompactBodyPipelineProofs!WrittenOnce`, `Bounded` | `[]BodiesWrittenOnce`, `[]BytesBounded` | |
| `CompactBodyPipelineProofs!ImplementsStore` | `Spec => PublishesAllOrNothing`, the refinement | |
| `ImmutableBodyProofs!TypeCorrect` | `[]TypeOK` | |
| `ImmutableBodyProofs!PackagesStay` | `PackageIsImmutable`, any number of processes and recoveries | |
| `ImmutableBodyProofs!SerialReceipts`, `SerialBoundStays`, `SerialQuarantine` | `[]ReceiptsAreBacked`, `BoundStays`, `QuarantineHasCause` | `MaxLive = 1` |
| `ImmutableBodyProofs!WritersInventory`, `WritersExclude` | `[]InventoryIsBacked`, `[]OneWriter`, any number of writers | none beyond `beside` in the properties |
| `ArtifactV3PublicationProofs!TypeCorrect` | `[]TypeOK` | |
| `ArtifactV3PublicationProofs!MarkersBacked`, `ArchiveOfDirectory` | `[]MarkersAreBacked`, `[]ArchiveIsOfDirectory` | |
| `ArtifactV3PublicationProofs!StagingHasRoot`, `ReturnsPublished` | `[]ArchiveStagingHasRoot`, `[]ReturnMeansPublished` | |
| `ArtifactV3PublicationProofs!PublicKept` | `PublicStays` | |
| `StreamingScorePassProofs!Typed` | `[]TypeOK` | |
| `StreamingScorePassProofs!RecordedSealed`, `ReturnsWhole` | `[]RecordedIsSealed`, `[]ReturnMeansWhole` | |
| `StreamingScorePassProofs!BuildIsResumable` | `Spec => BuildSpec`, the refinement | |
| `ProductionRunProofs!Typed`, `PairIsOne` | `[]TypeOK`, `[]OnePair` | |
| `ProductionRunProofs!ReceiptIsBacked` | `[]SealedIsBacked` | |
| `ProductionRunProofs!PublishesDelivered`, `PairKept` | `PublishedIsDelivered`, `PairStays` | |
| `MultiGpuHarnessProofs!AssignmentsPartition` | the records of the assignments name each example once, for all settings | |
| `MultiGpuHarnessProofs!Typed`, `PassesWhole`, `ProgressIsKept` | `[]TypeOK`, `[]PassIsWhole`, `ProgressStays` | |
| `ProductionRunProofs!TuiTyped`, `CliKnown`, `StatusTrue` | of `TuiRun`: `[]TuiTypeOK`, `[]CliIsKnown`, `[]StatusIsTrue` | |
| `ExemplarSelectionProofs!ReserveAgrees` | `[]ReserveIsReference`, every stream of records and batch size | |
| `ExemplarSelectionProofs!SeatsFair` | `[]SeatsAreFair`, every set of boards, rows and scores | |
| `ExemplarSelectionProofs!ShortfallCaused` | `[]ShortfallHasCause`, every budget, share, cap and set of full-width candidates | |

The arguments:

* *Corpus publication.*  `OldOrNewSurvives` alone is not inductive: in the middle of an
  overwrite it does not say *where* the surviving tree is, so the next step
  could remove it.  `SurvivalInv` adds, for each phase of a run (`Backed`), which
  of destination, quarantine and staging is whole and where the journal lies
  (an append through a path that has moved would create a stray directory), and
  that an unrelated directory is never one that validation or the marker test
  accepts.  It needs that nothing is alive beside an overwriting run (`Alone`), because
  of two overlapping overwrites one may roll back over the other's tree; the constant
  `OverwriteAlone` asks for that, and so does one run at a time.  Runs that do not overwrite may overlap at will: `Gentle` is what none of their
  steps does, and what keeps the `Backed` of every other run.  `NamingInv` says where the one journal
  that still names a quarantine may lie at each point of an overwrite, and that no
  journal names it once its removal has begun.  For `OneWinner` no run has to be alone:
  a staged tree stays of its configuration and goes only when the destination is
  taken (`Staged`), and whoever finds the destination taken does not promote (`Won`).
* *Pipeline.*  `Linked` says that a row is the body of its own payload, that the
  queue learns of a failure only after the error is noted, and that the producer
  reaches the promotion only with every row in place.  With it each step is a step of
  `CompactBodyStore` or leaves its variables alone.  `Writing` says that only the holder of
  the digest lock looks for a body and writes it, `Leaving` that no thread and no
  temporary file is left behind the join but with an error.  For the bytes, `Once` says that a descriptor is in the
  queue or with one worker, once, and `Counted` that `_bytes` is the sum of their sizes.  A
  sum over a finite set is a fold, out of the reach of induction here; the proof takes it
  for the cardinality of the set of *units* (`Units`: `f[i]` pairs for each `i`), and finds that the two
  agree because a smallest set on which they differ, which a well-founded order would
  have, cannot exist.
* *Immutable body, one process.*  `ReadyAt` relates the point a process has reached to the
  files it has made, so that the next receipt promises nothing that is missing;
  `Restartable` says that a transaction past BODY_PROMOTED still has its
  staged manifest, and so recovery never removes the body of
  one whose receipts, or another's inventory entry, need it.  For the quarantine, `Chains` says
  that each receipt is behind its predecessor, but for MANIFEST_PROMOTED, which is behind
  BODY_PROMOTED only (`Behind`), since a resumption may have left out those in between;
  `ChainAt` says how far each step has got in them.  Receipts without that one gap are a
  prefix of the states (`Prefix`), and recovery reads from them what was done.  So it
  gives up for that gap, the package of an older inventory or a failed operation only.
* *Immutable body, several writers.*  `ReadyAt` fails there: another writer may have
  replaced the inventory a process is about to check.  `PromisesAt` drops that promise and adds
  instead that whatever a writer read and will write back names only published exemplars;
  `LockPart` says that a `commit()` past its reservation holds it and nobody else does, and that
  a recovery has no company.  All of it is claimed only while `beside` is
  false; once it is true nothing more is.
* *v3 publication.*  `MInv` adds `Visible`: which of its outputs a call has made public
  by the step it has reached, which the next journal marker claims.  `HInv`
  says who owns private names: a call at a step that uses a journal root finds it there and
  shares it with no other call (`Holding`, `RootIsHeld`), by the time the root
  goes the archive's staging has gone (`StagingIsRemoved`), a resumption knows
  every private name of the output base (`KnowsItsState`), and once one has
  returned nobody gets beyond reading (`Settled`).  The theorems hold for any number of
  overlapping publishers; that a resumption runs alone is part of the model.
* *Score pass.*  `RecordedIsSealed` needs to know what the run in progress believes
  (`RunIsSealed`: the shards in `done` are in place) and how the manifest follows it
  (`ManifestFollows`: equal to `done`, but for the one shard just renamed).
  `NothingElse` covers the interrupted removal, after which a recorded shard
  is in place or gone but never another; that is why a run that
  verifies them and passes leaves the whole textbook even then.  With the
  invariant every step records one piece, seals, discards in a removal or a kill, or
  stutters in `ResumableBuild`.
* *Production.*  The publication's own state does not say whose build it
  publishes.  `StagesInOrder` ties the stage to what has been
  delivered, `StagingIsOfRun` the receipt to the delivery while shards are sealed,
  `CandidatesAreOfRun` the candidates and the first of the two renames, and
  `PublicIsClear` says that a removed member stays away until its replacement is
  promoted; together they make `OnePair` inductive through a kill between the two
  renames, and give the two action properties.
* *Multi-GPU.*  `AssignmentsPartition` is arithmetic: the shards of all
  assignments cover the examples and are disjoint.  `Sound` says that in a directory of one
  setting every completed assignment anybody knows of has the hash of that
  setting's records, `Progressing` that the records found are those of the
  assignments gone through, `Through` and `Merged` that the merge comes after
  the last; so what a passing run has merged is the partition.  `ProgressStays` needs the
  converse too: every entry of the manifest is that of its assignment (`Exact`), and a
  resumed run has every valid entry it has passed among its own before it writes
  the manifest anew (`TakenOver`).
* *Terminal UI.*  `LastOne` says that as long as nothing has been packaged every worker
  but the last is over, and the wizard is running exactly while the last one is not; it
  rests on `Asking`, by which a confirmation of a run stands alone on the
  screen while none is in progress, and on `Awaiting`, which relates the await a worker is at to its
  events and its child.  `Saying` keeps what the status line was told.  The two modules are extended by one
  module of proofs, since the wizard starts such runs; no theorem is about both.
* *Candidate reserve.*  `Stored` says that table and batch hold the eligible records read
  so far, without a conflict inside either; `ModesCounted` that a mode has been counted exactly if
  it has one; `Counted` that without repeats the counters are the reference's, for which
  `TallyStep` proves what one new record does to cardinalities of the
  records read.  The proof takes a ranked list as an unknown function of the set it ranks, so it holds for
  every order of ranking.
* *Ranked lists.*  The place of an entry in a ranked list is the number of those before it, so
  what a list looks like is a fact about finite sets: in a strict order (`StrictOrder`)
  the elements have as many different numbers of predecessors as there are
  elements, and every place is taken (`RankTaken`).  From this follow, without an induction, that a list
  has each entry once, in order, and what the best few of it are.
* *Seats.*  `SeatInv` says that pools and winners are ranked lists (`PoolsOK`, `SeatsOK`) and, in
  `StagesOK`, why two rounds are enough.  When the first one has released, no coordinate
  has two seats, and what a board still holds is before all of its pool that is seated nowhere (`Apart`,
  `BestSeated`), because one of the holders of a coordinate has the strongest claim and keeps it; a board whose turn is over has no
  free seat or nothing to fill it with, and no later turn changes that (`Settled`).  So the first round ends in `Fair`,
  and the second finds no coordinate to release and no seat to fill.
* *Claims.*  `ClaimInv` is an invariant by stages.  `Allotting`: a pass over the
  modes lifts them from one level of slots to the next, so no mode falls two
  behind, and slots run out only with the capacities; the plan is sound.  `Serving`: each mode gone through has
  a claim for every one of its slots, unless one is starved by the cap; when all are, claims and slots
  correspond one to one, so the budget is met.  `BoardsOK`: the seats a board still asks for are what is
  left of the budget (`TurnOK`), everything it has gone past is claimed or full-width
  (`Reached`), the lineage names nothing of what is yet to come (`LineageOK`), and mode claims precede
  board claims (`RolesInOrder`).  At the end (`BoardsEnded`) every check of `Validate` holds.  It rests on the counts of the
  reserve (`ReserveInv`, `CountInv`): a mode has no more candidates than were counted eligible,
  and no coordinate is in two modes.

Only model-checked is liveness: `CallEnds`, the two `ResumeCompletes`, `ResumePasses` and `ForceEnds`.
Weak and strong fairness speak of ENABLED, which the prover cannot treat.
That the loops of the selection end is not stated as liveness; `SeatsAreFair`
counts the rounds of the one whose end is not plain to see.

## 6. What is not modelled, and why

* *Native Path B evidence and its resolver* (`builder/native_path_b/`): module 10 of the
  plan.  The order of the stages is in `ProductionRun`; which digests the evidence
  of each must match is not.
* *The selected rerun* (`delivery/rerun.py`, `assembly.py`, the staging of selected payloads in
  `delivery/staging.py`): module 11.  `ProductionRun` has its beginning, its result
  and the fact that a run stopped inside it is refused.
* *Other production routes and configuration parsing.*  The model is of the native
  Path-B route; the others share its driver.
* *Numerical work, and how scores, modes, corridors and fingerprints are computed*: teachers, targets,
  quantisation, backends.  Nothing there is a state that interleavings or
  crashes could disturb.
* *Formats*: Tome packaging and contracts, validators, audit, parity, reports,
  provenance, command line.  They read finished files or render them.  This and the item
  before it are most of the source's lines.
* *Corpus text processing and deduplication*: module 12; sources and tokenizers are
  string processing.
* In the components that are modelled: `fsync` and the loss of writes the operating
  system had not yet flushed (a kill stops a process, not the machine); the
  legacy corpus builder, the in-memory textbook builders and the single-threaded body writer, which have no
  protocol; a `KeyboardInterrupt` of the body store outside `put`; I/O errors of the operations `recover()` performs outside
  its resumptions; the content checks and the standalone packer of v3 artifacts; the wizard's wait for the end
  of a pipe that a grandchild holds open (`tui/process.py:100`); the refusal of a coordinate
  without a source passport (`fingerprint/multi_role_selection.py:561`).
