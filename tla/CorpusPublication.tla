------------------------- MODULE CorpusPublication -------------------------
(***************************************************************************)
(* Construction and publication of a corpus v2 artifact                    *)
(* (corpora/builder.py build_corpus_artifact_v2, corpora/lifecycle.py).    *)
(*                                                                         *)
(* Builder processes share one destination name.  Each run stages a tree   *)
(* under a private name, validates it and promotes it by rename; an        *)
(* overwrite first renames the old tree to a private quarantine name.      *)
(* A process may stop between any two file operations, in the middle of a  *)
(* journal append or of a recursive removal; a later run resumes a staged  *)
(* tree, and an operator may call recover_publication on a journal.        *)
(*                                                                         *)
(* A tree is a value: the run that built it, whether validation accepts    *)
(* it, whether it carries the staging marker, the configuration identity   *)
(* in its report, and the journal it holds.  Renames move the value.       *)
(***************************************************************************)
EXTENDS Integers, Sequences, FiniteSets

CONSTANTS
    Proc,           \* builder runs; the staging and quarantine names of a run are private to it
    Config,         \* normalised build intents, the execution flags left out
    Modes,          \* the execution modes in use, a subset of AllModes
    MaxLive,        \* bound: builder or recovery processes alive at one time
    OverwriteAlone, \* TRUE: no other builder or recovery is alive beside an overwriting run
    MayPlaceForeign \* TRUE: somebody may create an unrelated directory at the free destination

AllModes == {"create", "overwrite", "resume"}

ASSUME ProcAssumption == IsFiniteSet(Proc)
ASSUME NamesAssumption == {"prior", "foreign", "stray"} \cap Proc = {}
ASSUME ModesAssumption == Modes \subseteq AllModes
ASSUME MaxLiveAssumption == MaxLive \in Nat \ {0}
ASSUME AloneAssumption == OverwriteAlone \in BOOLEAN
ASSUME PlaceAssumption == MayPlaceForeign \in BOOLEAN

(***************************************************************************)
(* Trees, journals and names.                                              *)
(***************************************************************************)
Prior   == "prior"      \* the id of the corpus published before these runs
Foreign == "foreign"    \* the id of a directory no builder made
Stray   == "stray"      \* the id of a directory that only a journal append created
Id      == Proc \cup {Prior, Foreign, Stray}

\* _transaction_intent clears execution.resume but keeps execution.overwrite.
Identity == Config \X BOOLEAN

EventType == {"PREFLIGHTED", "VALIDATED", "PROMOTION_INTENT", "PROMOTED", "OLD_QUARANTINED",
              "NEW_PROMOTED", "RESTORED", "COMMITTED", "TORN"}
\* An event names its transaction (for OLD_QUARANTINED that is also the
\* quarantine name) and its position in the chain.
Event == [type : EventType, tx : Proc, seq : Nat]

Tree == [id : Id, whole : BOOLEAN, marker : BOOLEAN,
         identity : Identity, journal : Seq(Event)]
NoTree == [id |-> "none"]
Place  == Tree \cup {NoTree}

NextStep == {"idle", "build", "sealed", "validate", "intent", "exists", "create",
             "promoted", "owner", "stat", "quarantine", "quarantined", "inode",
             "swap", "newpromoted", "verify", "remove", "removing", "restore",
             "restored", "discard", "discarding", "committed", "done", "stopped"}

VARIABLES
    dest,       \* the tree at the destination name
    staging,    \* staging[x]: the tree at the staging name of run x
    quarantine, \* quarantine[x]: the tree at the quarantine name of run x
    pc,         \* pc[r]: the file operation run r does next
    mode,       \* mode[r]: the execution mode of r
    cfg,        \* cfg[r]: the configuration of r
    tx,         \* tx[r]: the run whose staging name r publishes (CorpusJournal.transaction_id)
    jpath,      \* jpath[r]: CorpusJournal.path, under the staging or the destination name
    seq,        \* seq[r]: CorpusJournal.sequence
    before,     \* before[r]: the inode r saw at the destination
    (***********************************************************************)
    (* History, read by properties only.                                   *)
    (***********************************************************************)
    published,  \* ids of the whole trees that have been at the destination
    removed     \* <<run, id>>: the trees each run has begun to delete

files == <<dest, staging, quarantine>>
local == <<mode, cfg, tx, jpath, seq, before>>
vars  == <<files, pc, local, published, removed>>

Whole(t) == t # NoTree /\ t.whole

Live(r) == pc[r] \notin {"idle", "done", "stopped"}
Overwriting(r) == Live(r) /\ mode[r] = "overwrite"
FreeSlot ==
    /\ Cardinality({r \in Proc : Live(r)}) < MaxLive
    /\ OverwriteAlone => \A r \in Proc : ~Overwriting(r)
MayBuild(m) ==
    /\ m \in Modes \cap {"create", "overwrite"}
    /\ OverwriteAlone /\ m = "overwrite" => \A r \in Proc : ~Live(r)

IdentityOf(r) == <<cfg[r], mode[r] = "overwrite">>

OldTree(id, ok, c) == [id |-> id, whole |-> ok, marker |-> ok,
                       identity |-> <<c, FALSE>>, journal |-> <<>>]

Init ==
    /\ \E c \in Config : dest \in {NoTree, OldTree(Prior, TRUE, c), OldTree(Foreign, FALSE, c)}
    /\ staging = [x \in Proc |-> NoTree]
    /\ quarantine = [x \in Proc |-> NoTree]
    /\ pc = [r \in Proc |-> "idle"]
    /\ mode \in [Proc -> {"create"}]
    /\ cfg \in [Proc -> Config]
    /\ tx = [r \in Proc |-> r]
    /\ jpath = [r \in Proc |-> "staging"]
    /\ seq = [r \in Proc |-> 0]
    /\ before = [r \in Proc |-> Stray]
    /\ published = IF Whole(dest) THEN {dest.id} ELSE {}
    /\ removed = {}

-----------------------------------------------------------------------------
(***************************************************************************)
(* File operations.                                                        *)
(***************************************************************************)
Goto(r, step) == pc' = [pc EXCEPT ![r] = step]

\* Arriving at the destination is what makes a tree published.
SetDest(t) == /\ dest' = t
              /\ published' = published \cup (IF Whole(t) THEN {t.id} ELSE {})

EventOf(r, type) == [type |-> type, tx |-> tx[r], seq |-> seq[r]]

\* CorpusJournal.append makes the missing parent directories, so appending
\* under a name that is gone leaves a directory holding only a journal.
WithEvent(t, e, identity) ==
    IF t = NoTree
    THEN [id |-> Stray, whole |-> FALSE, marker |-> FALSE,
          identity |-> identity, journal |-> <<e>>]
    ELSE [t EXCEPT !.journal = Append(@, e)]

Sealed(t) == [t EXCEPT !.whole = TRUE]

\* In the middle of shutil.rmtree; the staging marker may be gone already.
Damaged(t, kept) == [t EXCEPT !.whole = FALSE, !.marker = kept]

WriteEvent(r, e) ==
    \/ /\ jpath[r] = "dest"
       /\ SetDest(WithEvent(dest, e, IdentityOf(r)))
       /\ UNCHANGED <<staging, quarantine>>
    \/ /\ jpath[r] = "staging"
       /\ staging' = [staging EXCEPT ![tx[r]] = WithEvent(@, e, IdentityOf(r))]
       /\ UNCHANGED <<dest, quarantine, published>>

JournalAppend(r, type) ==
    /\ WriteEvent(r, EventOf(r, type))
    /\ seq' = [seq EXCEPT ![r] = @ + 1]
    /\ UNCHANGED <<mode, cfg, tx, jpath, before, removed>>

\* CorpusJournal.reopen: sequence, identity and hash chain of every line.
ReopenAccepts(j) == /\ j # <<>>
                    /\ \A i \in DOMAIN j : /\ j[i].type # "TORN"
                                           /\ j[i].seq = i - 1
                                           /\ j[i].tx = j[1].tx

-----------------------------------------------------------------------------
(***************************************************************************)
(* The command: preflight, build, or the choice of a staged tree to resume.*)
(***************************************************************************)
PreflightAccepts(m) ==
    \/ m = "create" /\ dest = NoTree
    \/ m = "overwrite" /\ (dest = NoTree \/ Whole(dest))
    \/ m = "resume" /\ (dest # NoTree \/ \E x \in Proc : staging[x] # NoTree)

\* mkdtemp, the staging marker and the first journal event.  The events between
\* it and VALIDATED are not modelled: no step reads them.
NewTree(r, m, c) == [id |-> r, whole |-> FALSE, marker |-> TRUE,
                     identity |-> <<c, m = "overwrite">>,
                     journal |-> <<[type |-> "PREFLIGHTED", tx |-> r, seq |-> 0]>>]

StartBuild(r, m, c) ==
    /\ pc[r] = "idle" /\ FreeSlot
    /\ MayBuild(m) /\ PreflightAccepts(m)
    /\ staging' = [staging EXCEPT ![r] = NewTree(r, m, c)]
    /\ mode' = [mode EXCEPT ![r] = m]
    /\ cfg' = [cfg EXCEPT ![r] = c]
    /\ seq' = [seq EXCEPT ![r] = 1]
    /\ Goto(r, "build")
    /\ UNCHANGED <<dest, quarantine, tx, jpath, before, published, removed>>

\* Shards, reports and cover page: from here validation accepts the tree.
Seal(r) ==
    /\ pc[r] = "build"
    /\ staging[r] # NoTree
    /\ staging' = [staging EXCEPT ![r] = Sealed(@)]
    /\ Goto(r, "sealed")
    /\ UNCHANGED <<dest, quarantine, local, published, removed>>

AppendValidated(r) ==
    /\ pc[r] = "sealed"
    /\ JournalAppend(r, "VALIDATED")
    /\ Goto(r, "validate")

\* --resume with a destination: report it, or refuse it.
ResumePublished(r, c) ==
    /\ pc[r] = "idle" /\ FreeSlot
    /\ "resume" \in Modes /\ dest # NoTree
    /\ Goto(r, IF Whole(dest) /\ dest.identity = <<c, FALSE>> THEN "done" ELSE "stopped")
    /\ mode' = [mode EXCEPT ![r] = "resume"]
    /\ cfg' = [cfg EXCEPT ![r] = c]
    /\ UNCHANGED <<files, tx, jpath, seq, before, published, removed>>

\* Fault: the configuration of the staged tree is not compared.
ResumableByAnyone(c) == {x \in Proc : Whole(staging[x])}

\* --resume without one: a valid staged tree of this configuration.  The code
\* takes the newest; modification times are not modelled, so any may be it.
Resumable(c) == {x \in Proc : Whole(staging[x]) /\ staging[x].identity = <<c, FALSE>>}

ResumeStaged(r, c, x) ==
    /\ pc[r] = "idle" /\ FreeSlot
    /\ "resume" \in Modes /\ dest = NoTree
    /\ x \in Resumable(c)
    /\ mode' = [mode EXCEPT ![r] = "resume"]
    /\ cfg' = [cfg EXCEPT ![r] = c]
    /\ tx' = [tx EXCEPT ![r] = x]
    /\ seq' = [seq EXCEPT ![r] = Len(staging[x].journal)]
    /\ Goto(r, IF ReopenAccepts(staging[x].journal) THEN "validate" ELSE "stopped")
    /\ UNCHANGED <<files, jpath, before, published, removed>>

-----------------------------------------------------------------------------
(***************************************************************************)
(* publish_staging.                                                        *)
(***************************************************************************)
ValidateStaging(r) ==
    /\ pc[r] = "validate"
    /\ Goto(r, IF Whole(staging[tx[r]]) THEN "intent" ELSE "stopped")
    /\ UNCHANGED <<files, local, published, removed>>

AppendIntent(r) ==
    /\ pc[r] = "intent"
    /\ JournalAppend(r, "PROMOTION_INTENT")
    /\ Goto(r, "exists")

\* Fault: an existing destination is replaced without --overwrite.
CheckDestinationOnly(r) ==
    /\ pc[r] = "exists"
    /\ Goto(r, IF dest = NoTree THEN "create" ELSE "owner")
    /\ UNCHANGED <<files, local, published, removed>>

CheckDestination(r) ==
    /\ pc[r] = "exists"
    /\ Goto(r, IF dest = NoTree THEN "create"
               ELSE IF mode[r] = "overwrite" THEN "owner" ELSE "stopped")
    /\ UNCHANGED <<files, local, published, removed>>

\* os.rename(staging, destination) refuses a missing source and a destination
\* directory that is not empty; no tree of this model is empty.
CanPromote(r) == dest = NoTree /\ staging[tx[r]] # NoTree

Promote(r) ==
    /\ SetDest(staging[tx[r]])
    /\ staging' = [staging EXCEPT ![tx[r]] = NoTree]
    /\ jpath' = [jpath EXCEPT ![r] = "dest"]
    /\ UNCHANGED <<quarantine, mode, cfg, tx, seq, before, removed>>

CreateDestination(r) ==
    /\ pc[r] = "create"
    /\ CanPromote(r)
    /\ Promote(r)
    /\ Goto(r, "promoted")

AppendPromoted(r) ==
    /\ pc[r] = "promoted"
    /\ JournalAppend(r, "PROMOTED")
    /\ Goto(r, "done")

\* ownership_check = _is_owned_v2_artifact.
CheckOwnership(r) ==
    /\ pc[r] = "owner"
    /\ Goto(r, IF Whole(dest) THEN "stat" ELSE "stopped")
    /\ UNCHANGED <<files, local, published, removed>>

StatDestination(r) ==
    /\ pc[r] = "stat"
    /\ dest # NoTree
    /\ before' = [before EXCEPT ![r] = dest.id]
    /\ Goto(r, "quarantine")
    /\ UNCHANGED <<files, mode, cfg, tx, jpath, seq, published, removed>>

QuarantineOld(r) ==
    /\ pc[r] = "quarantine"
    /\ dest # NoTree
    /\ quarantine' = [quarantine EXCEPT ![r] = dest]
    /\ dest' = NoTree
    /\ Goto(r, "quarantined")
    /\ UNCHANGED <<staging, local, published, removed>>

AppendQuarantined(r) ==
    /\ pc[r] = "quarantined"
    /\ JournalAppend(r, "OLD_QUARANTINED")
    /\ Goto(r, "inode")

CheckInode(r) ==
    /\ pc[r] = "inode"
    /\ Goto(r, IF quarantine[r] # NoTree /\ quarantine[r].id = before[r]
               THEN "swap" ELSE "remove")
    /\ UNCHANGED <<files, local, published, removed>>

\* Fault: a failed second rename does not lead to the rollback.
SwapFailureIgnored(r) ==
    /\ pc[r] = "swap"
    /\ IF CanPromote(r)
       THEN Promote(r) /\ Goto(r, "newpromoted")
       ELSE Goto(r, "discard") /\ UNCHANGED <<files, local, published, removed>>

SwapIn(r) ==
    /\ pc[r] = "swap"
    /\ IF CanPromote(r)
       THEN Promote(r) /\ Goto(r, "newpromoted")
       ELSE Goto(r, "remove") /\ UNCHANGED <<files, local, published, removed>>

AppendNewPromoted(r) ==
    /\ pc[r] = "newpromoted"
    /\ JournalAppend(r, "NEW_PROMOTED")
    /\ Goto(r, "verify")

VerifyDestination(r) ==
    /\ pc[r] = "verify"
    /\ Goto(r, IF Whole(dest) THEN "discard" ELSE "remove")
    /\ UNCHANGED <<files, local, published, removed>>

\* A step of the try block raises: an append or the validation meets an I/O error.
TryBlockRaises(r) ==
    /\ pc[r] \in {"inode", "swap", "newpromoted", "verify"}
    /\ Goto(r, "remove")
    /\ UNCHANGED <<files, local, published, removed>>

\* Fault: the rollback removes whatever it finds at the destination.
RollbackRemovesAnything == dest # NoTree

\* The except block removes whatever carries a staging marker at the
\* destination.  shutil.rmtree is two steps: the tree is damaged, then gone.
\* The test of the marker and the first unlink are one step.
RollbackNeedsRemoval == dest # NoTree /\ dest.marker

RollbackRemove(r) ==
    /\ pc[r] = "remove"
    /\ IF RollbackNeedsRemoval
       THEN /\ \E kept \in BOOLEAN : dest' = Damaged(dest, kept)
            /\ removed' = removed \cup {<<r, dest.id>>}
            /\ Goto(r, "removing")
       ELSE Goto(r, "restore") /\ UNCHANGED <<dest, removed>>
    /\ UNCHANGED <<staging, quarantine, local, published>>

\* The last rmdir is by name: it fails if another tree is there by now.
RollbackRemoved(r) ==
    /\ pc[r] = "removing"
    /\ dest # NoTree /\ ~dest.whole /\ <<r, dest.id>> \in removed
    /\ dest' = NoTree
    /\ Goto(r, "restore")
    /\ UNCHANGED <<staging, quarantine, local, published, removed>>

RollbackRestore(r) ==
    /\ pc[r] = "restore"
    /\ IF quarantine[r] = NoTree
       THEN Goto(r, "restored") /\ UNCHANGED <<dest, quarantine, published>>
       ELSE IF dest = NoTree
       THEN /\ SetDest(quarantine[r])
            /\ quarantine' = [quarantine EXCEPT ![r] = NoTree]
            /\ Goto(r, "restored")
       ELSE Goto(r, "stopped") /\ UNCHANGED <<dest, quarantine, published>>
    /\ UNCHANGED <<staging, local, removed>>

\* journal.path may by now lie in the restored tree.
AppendRestored(r) ==
    /\ pc[r] = "restored"
    /\ JournalAppend(r, "RESTORED")
    /\ Goto(r, "stopped")

DiscardOld(r) ==
    /\ pc[r] = "discard"
    /\ quarantine[r] # NoTree
    /\ \E kept \in BOOLEAN : quarantine' = [quarantine EXCEPT ![r] = Damaged(@, kept)]
    /\ removed' = removed \cup {<<r, quarantine[r].id>>}
    /\ Goto(r, "discarding")
    /\ UNCHANGED <<dest, staging, local, published>>

\* Fault: the destination is verified, in the try block, after the old tree is gone.
DiscardedBeforeVerify(r) ==
    /\ pc[r] = "discarding"
    /\ quarantine[r] # NoTree
    /\ quarantine' = [quarantine EXCEPT ![r] = NoTree]
    /\ Goto(r, "verify")
    /\ UNCHANGED <<dest, staging, local, published, removed>>

DiscardedOld(r) ==
    /\ pc[r] = "discarding"
    /\ quarantine[r] # NoTree
    /\ quarantine' = [quarantine EXCEPT ![r] = NoTree]
    /\ Goto(r, "committed")
    /\ UNCHANGED <<dest, staging, local, published, removed>>

AppendCommitted(r) ==
    /\ pc[r] = "committed"
    /\ JournalAppend(r, "COMMITTED")
    /\ Goto(r, "done")

-----------------------------------------------------------------------------
(***************************************************************************)
(* Stopping, recovery and the environment.                                 *)
(***************************************************************************)
Appending == {"sealed", "intent", "promoted", "quarantined", "newpromoted",
              "restored", "committed"}

\* The process is killed, or a step outside the try block raises: a rename or
\* stat whose precondition fails ends here too.
Stop(r) ==
    /\ Live(r)
    /\ Goto(r, "stopped")
    /\ UNCHANGED <<files, local, published, removed>>

\* Killed while the line is being written.
StopInAppend(r) ==
    /\ pc[r] \in Appending
    /\ WriteEvent(r, EventOf(r, "TORN"))
    /\ Goto(r, "stopped")
    /\ UNCHANGED <<local, removed>>

JournalsOnDisk ==
    {t.journal : t \in ({dest} \cup {staging[x] : x \in Proc}
                               \cup {quarantine[x] : x \in Proc}) \ {NoTree}}

\* Fault: any OLD_QUARANTINED event counts, not only the last one.
NamedAnywhere(j, x) == /\ \A i \in DOMAIN j : j[i].type # "TORN"
                       /\ \E i \in DOMAIN j : j[i].type = "OLD_QUARANTINED" /\ j[i].tx = x

\* recover_publication renames back only the pair that the last event names,
\* and a journal with a torn line does not parse.
Names(j, x) == /\ j # <<>>
               /\ \A i \in DOMAIN j : j[i].type # "TORN"
               /\ j[Len(j)].type = "OLD_QUARANTINED"
               /\ j[Len(j)].tx = x

CanRecover(x) == /\ dest = NoTree
                 /\ quarantine[x] # NoTree
                 /\ \E j \in JournalsOnDisk : Names(j, x)

Recover(x) ==
    /\ FreeSlot
    /\ CanRecover(x)
    /\ SetDest(quarantine[x])
    /\ quarantine' = [quarantine EXCEPT ![x] = NoTree]
    /\ UNCHANGED <<staging, pc, local, removed>>

PlaceForeign ==
    /\ MayPlaceForeign /\ dest = NoTree
    /\ \E c \in Config : dest' = OldTree(Foreign, FALSE, c)
    /\ UNCHANGED <<staging, quarantine, pc, local, published, removed>>

Build(r) == \/ \E m \in {"create", "overwrite"}, c \in Config : StartBuild(r, m, c)
            \/ Seal(r) \/ AppendValidated(r)
Resume(r) == \E c \in Config : \/ ResumePublished(r, c)
                               \/ \E x \in Proc : ResumeStaged(r, c, x)
Publish(r) == \/ ValidateStaging(r) \/ AppendIntent(r) \/ CheckDestination(r)
              \/ CreateDestination(r) \/ AppendPromoted(r)
Overwrite(r) == \/ CheckOwnership(r) \/ StatDestination(r) \/ QuarantineOld(r)
                \/ AppendQuarantined(r) \/ CheckInode(r) \/ SwapIn(r)
                \/ AppendNewPromoted(r) \/ VerifyDestination(r)
                \/ DiscardOld(r) \/ DiscardedOld(r) \/ AppendCommitted(r)
Rollback(r) == \/ TryBlockRaises(r) \/ RollbackRemove(r) \/ RollbackRemoved(r)
               \/ RollbackRestore(r) \/ AppendRestored(r)

Next == \/ \E r \in Proc : \/ Build(r) \/ Resume(r) \/ Publish(r) \/ Overwrite(r)
                           \/ Rollback(r) \/ Stop(r) \/ StopInAppend(r)
        \/ \E x \in Proc : Recover(x)
        \/ PlaceForeign

Spec == Init /\ [][Next]_vars

-----------------------------------------------------------------------------
(***************************************************************************)
(* Properties.                                                             *)
(***************************************************************************)
\* The variables have their types: every name holds a tree or nothing.
TypeOK ==
    /\ dest \in Place
    /\ staging \in [Proc -> Place]
    /\ quarantine \in [Proc -> Place]
    /\ pc \in [Proc -> NextStep]
    /\ mode \in [Proc -> AllModes]
    /\ cfg \in [Proc -> Config]
    /\ tx \in [Proc -> Proc]
    /\ jpath \in [Proc -> {"staging", "dest"}]
    /\ seq \in [Proc -> Nat]
    /\ before \in [Proc -> Id]
    /\ published \subseteq Id
    /\ removed \subseteq Proc \X Id

\* Once a corpus has been published, a whole corpus is on disk, at the
\* destination or in a quarantine, wherever a run stops: publish_staging
\* removes the old tree only after the new one has been verified, and the new
\* one only while the old one is in quarantine.
OldOrNewSurvives ==
    published # {} => \E t \in {dest} \cup {quarantine[x] : x \in Proc} : Whole(t)

\* Readers of the destination see a whole corpus, an unrelated directory, or
\* the remains of a rolled back promotion whose predecessor is in quarantine.
DamageHasBackup ==
    dest = NoTree \/ dest.whole \/ dest.id = Foreign \/ \E x \in Proc : Whole(quarantine[x])

\* Whatever recover_publication is willing to rename back is a whole corpus:
\* no journal still names a quarantine whose removal has begun.
RecoveryIsSound == \A x \in Proc : CanRecover(x) => Whole(quarantine[x])

\* A directory no builder made is never moved, removed or written to
\* (docs/CORPUS_BUILDER.md: --overwrite cannot replace an unrelated destination).
UnrelatedIsKept == [][dest # NoTree /\ dest.id = Foreign => dest' = dest]_vars

\* While no run overwrites, a published corpus stays, whoever creates, resumes or
\* recovers.
PublishedStays ==
    [][Whole(dest) /\ (\A r \in Proc : ~Overwriting(r))
         => Whole(dest') /\ dest'.id = dest.id]_vars

\* Among runs none of which overwrites one at most promotes a tree, even when two
\* resume the same staged tree or one resumes the tree a live run is about to publish;
\* the run that promoted finds a whole corpus of its own configuration.
Promoted(r) == jpath[r] = "dest"
OneWinner ==
    (\A r \in Proc : mode[r] # "overwrite") =>
        \A r \in Proc : Promoted(r) =>
            /\ \A q \in Proc : Promoted(q) => q = r
            /\ Whole(dest) /\ dest.id = tx[r] /\ dest.identity = IdentityOf(r)
=============================================================================
