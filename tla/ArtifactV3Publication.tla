----------------------- MODULE ArtifactV3Publication -----------------------
(***************************************************************************)
(* Publication of a v3 Tome (tome/artifact_v3.py): a directory and then its *)
(* archive, each a transaction with a private journal, and the resumption   *)
(* of the archive from a visible directory.                                 *)
(*                                                                         *)
(* All calls share one output base.  A handoff has names of its own for its *)
(* staging directories and its journal root, since they are derived from    *)
(* its identity.  A journal is overwritten in place, so a process killed in *)
(* the write leaves it torn.  Publishers may overlap; the caller owns the   *)
(* output base exclusively while it resumes an archive.                     *)
(***************************************************************************)
EXTENDS Integers, FiniteSets

CONSTANTS
    Proc,           \* processes
    Handoff,        \* finalized handoffs, named by their semantic identity
    MaxCalls,       \* bound: calls of the publisher and of the resumption
    MaxKills,       \* bound: processes killed
    MaxErrors,      \* bound: operations that raise
    MaxLive,        \* bound: publishers at work at the same time
    MayTear         \* TRUE: a process may be killed while it writes a journal

ASSUME ProcAssumption == IsFiniteSet(Proc)
ASSUME HandoffAssumption == IsFiniteSet(Handoff) /\ Handoff # {}
ASSUME BoundsAssumption == {MaxCalls, MaxKills, MaxErrors, MaxLive} \subseteq Nat
ASSUME MayTearAssumption == MayTear \in BOOLEAN

None == "none"
ASSUME NoneAssumption == None \notin Handoff

\* A canonical transaction is the publisher's; the other kind repacks a directory
\* that has no private state (topology "archive_only").
Kind == {"canonical", "only"}
Role == {"directory", "archive", "only"}    \* whose staging a directory is
State == {"OPEN", "SEALING", "COMPLETE_INTENT", "PROMOTING", "PROMOTED"}
Journal == [exists : BOOLEAN, dir : State \cup {None, "torn"}, arch : State \cup {None, "torn"}]
NoRoot == [exists |-> FALSE, dir |-> None, arch |-> None]
EmptyRoot == [NoRoot EXCEPT !.exists = TRUE]

Ended == {"idle", "returned", "refused", "failed", "killed"}
DirectorySteps == {"dirOpen", "dirSealing", "dirSealed", "dirIntent", "dirPromoting",
                   "lockDir", "renameDir", "unlockDir", "dirPromoted"}
ArchiveSteps == {"archOpen", "archIntent", "archStage", "archPromoting", "build", "lockArch",
                 "linkArch", "unlockArch", "unlinkTmp", "archPromoted"}
ResumeSteps == {"inspect", "markDir", "noArchive", "newArch", "decide", "newRoot", "newOnly",
                "prepare", "intent", "again", "markArch", "finally"}
CleanupSteps == {"rmDirStaging", "rmArchStaging", "rmEntries", "rmRoot"}
Step == Ended \cup {"stale", "target", "stage", "root"}
              \cup DirectorySteps \cup ArchiveSteps \cup ResumeSteps \cup CleanupSteps

VARIABLES
    directory,      \* the handoff whose package is the public directory, or None
    archive,        \* the handoff in the public archive, or None
    staging,        \* private staging directories, <<handoff, role>>
    journal,        \* journal[<<h, k>>]: the journal root of a transaction
    tmp,            \* a publisher's temporary archive exists
    locks,          \* lock files: "dir", "arch"
    proc,           \* proc[p]: the call p is in, or was in last
    calls, kills, errors

public  == <<directory, archive>>
private == <<staging, journal, tmp, locks>>
counts  == <<calls, kills, errors>>
vars    == <<public, private, proc, counts>>

Idle(h) == [op |-> "publish", step |-> "idle", h |-> h, kind |-> "canonical", failing |-> "no",
            built |-> FALSE]

Init ==
    /\ directory = None /\ archive = None
    /\ staging = {} /\ tmp = FALSE /\ locks = {}
    /\ journal = [t \in Handoff \X Kind |-> NoRoot]
    /\ \E h \in Handoff : proc = [p \in Proc |-> Idle(h)]
    /\ calls = 0 /\ kills = 0 /\ errors = 0

Live == {p \in Proc : proc[p].step \notin Ended}
At(p, s) == proc[p].step = s
Goto(p, s) == proc' = [proc EXCEPT ![p].step = s]
Tx(p) == <<proc[p].h, proc[p].kind>>

DirStaging(p) == <<proc[p].h, "directory">>
ArchStaging(p) == <<proc[p].h, IF proc[p].kind = "only" THEN "only" ELSE "archive">>

-----------------------------------------------------------------------------
(***************************************************************************)
(* Failures: where an exception at a step leads.                           *)
(***************************************************************************)
\* The except and finally blocks of the publisher: an archive transaction that
\* fails keeps its private state, everything else is cleaned up.
Abort(failing, s) ==
    IF failing = "error" /\ s \in ArchiveSteps /\ directory # None /\ archive = None
    THEN "failed" ELSE "rmDirStaging"

\* What catches an exception once the lock file and the temporary archive are gone;
\* the finally block of the resumption covers the build and all that follows it.
Caught(c, failing) ==
    IF c.op = "resume"
    THEN IF c.built \/ c.step = "build" THEN "finally" ELSE "failed"
    ELSE IF c.step \in CleanupSteps
    THEN IF c.failing = "no" THEN "rmDirStaging" ELSE "failed"
    ELSE IF c.step \in DirectorySteps \cup ArchiveSteps THEN Abort(failing, c.step)
    ELSE "failed"

FailTo(c, failing) ==
    CASE c.step = "renameDir" -> "unlockDir"
      [] c.step = "linkArch"  -> "unlockArch"
      [] c.op = "publish" /\ c.step \in {"build", "lockArch"} -> "unlinkTmp"
      [] OTHER -> Caught(c, failing)

Raise(p, failing) ==
    proc' = [proc EXCEPT ![p].step = FailTo(proc[p], failing), ![p].failing = failing]

\* An operation raises, or the user interrupts a publisher.
Fallible == {"stage", "root"} \cup DirectorySteps \cup ArchiveSteps \cup CleanupSteps \cup
            (ResumeSteps \ {"finally"})
Fails(p) ==
    /\ proc[p].step \in Fallible \ {"unlockDir", "unlockArch", "unlinkTmp"}
    /\ errors < MaxErrors
    /\ errors' = errors + 1
    /\ \E failing \in {"error", "interrupt"} : Raise(p, failing)
    /\ UNCHANGED <<public, private, calls, kills>>

Kill(p) ==
    /\ p \in Live /\ kills < MaxKills
    /\ kills' = kills + 1
    /\ Goto(p, "killed")
    /\ UNCHANGED <<public, private, calls, errors>>

-----------------------------------------------------------------------------
(***************************************************************************)
(* Journal writes.                                                         *)
(***************************************************************************)
W(file, state, then) == [file |-> file, state |-> state, then |-> then]
Writes ==
    [dirOpen       |-> W("dir", "OPEN", "dirSealing"),
     dirSealing    |-> W("dir", "SEALING", "dirSealed"),
     dirSealed     |-> W("dir", "OPEN", "dirIntent"),
     dirIntent     |-> W("dir", "COMPLETE_INTENT", "dirPromoting"),
     dirPromoting  |-> W("dir", "PROMOTING", "lockDir"),
     dirPromoted   |-> W("dir", "PROMOTED", "archOpen"),
     archOpen      |-> W("arch", "OPEN", "archIntent"),
     archIntent    |-> W("arch", "COMPLETE_INTENT", "archStage"),
     archPromoting |-> W("arch", "PROMOTING", "build"),
     archPromoted  |-> W("arch", "PROMOTED", "rmDirStaging"),
     markDir       |-> W("dir", "PROMOTED", "noArchive"),
     newArch       |-> W("arch", "OPEN", "decide"),
     newOnly       |-> W("arch", "OPEN", "prepare"),
     intent        |-> W("arch", "COMPLETE_INTENT", "archPromoting"),
     markArch      |-> W("arch", "PROMOTED", "rmDirStaging")]

WriteJournal(p) ==
    LET w == Writes[proc[p].step] IN
    /\ proc[p].step \in DOMAIN Writes
    /\ journal' = [journal EXCEPT ![Tx(p)] = [@ EXCEPT ![w.file] = w.state]]
    /\ Goto(p, w.then)
    /\ UNCHANGED <<public, staging, tmp, locks, counts>>

\* The file is truncated before it is written.
KillInWrite(p) ==
    LET w == Writes[proc[p].step] IN
    /\ MayTear /\ proc[p].step \in DOMAIN Writes /\ kills < MaxKills
    /\ kills' = kills + 1
    /\ journal' = [journal EXCEPT ![Tx(p)] = [@ EXCEPT ![w.file] = "torn"]]
    /\ Goto(p, "killed")
    /\ UNCHANGED <<public, staging, tmp, locks, calls, errors>>

-----------------------------------------------------------------------------
(***************************************************************************)
(* publish_v3_from_handoff.                                                *)
(***************************************************************************)
Publish(p, h) ==
    /\ proc[p].step \in Ended /\ calls < MaxCalls
    /\ Cardinality(Live) < MaxLive
    /\ \A q \in Live : proc[q].op = "publish"
    /\ calls' = calls + 1
    /\ proc' = [proc EXCEPT ![p] = [Idle(h) EXCEPT !.step = "stale"]]
    /\ UNCHANGED <<public, private, kills, errors>>

\* Whatever private name of this output base is there refuses a new run.
PrivateState == staging # {} \/ tmp \/ locks # {} \/ \E t \in DOMAIN journal : journal[t].exists

RejectStale(p) ==
    /\ At(p, "stale")
    /\ Goto(p, IF PrivateState THEN "refused" ELSE "target")
    /\ UNCHANGED <<public, private, counts>>

RejectTarget(p) ==
    /\ At(p, "target")
    /\ Goto(p, IF directory # None \/ archive # None THEN "refused" ELSE "stage")
    /\ UNCHANGED <<public, private, counts>>

\* mkdir refuses a directory that exists.
CreateStaging(p) ==
    /\ At(p, "stage")
    /\ IF DirStaging(p) \in staging
       THEN Goto(p, "refused") /\ UNCHANGED staging
       ELSE Goto(p, "root") /\ staging' = staging \cup {DirStaging(p)}
    /\ UNCHANGED <<public, journal, tmp, locks, counts>>

CreateRoot(p) ==
    /\ proc[p].step \in {"root", "newRoot"}
    /\ IF journal[Tx(p)].exists
       THEN Goto(p, "refused") /\ UNCHANGED journal
       ELSE /\ journal' = [journal EXCEPT ![Tx(p)] = EmptyRoot]
            /\ Goto(p, IF At(p, "root") THEN "dirOpen" ELSE "newOnly")
    /\ UNCHANGED <<public, staging, tmp, locks, counts>>

\* _rename_noreplace: a lock file, a look at the target, the rename, the unlock.
Target(p) == IF proc[p].step \in {"lockDir", "renameDir", "unlockDir"} THEN "dir" ELSE "arch"

\* Fault: somebody else's lock is taken for a publication that is done.
LockIgnored(p) ==
    /\ proc[p].step \in {"lockDir", "lockArch"}
    /\ locks' = locks \cup {Target(p)}
    /\ Goto(p, IF At(p, "lockDir") THEN IF Target(p) \in locks THEN "unlockDir" ELSE "renameDir"
               ELSE IF Target(p) \in locks THEN "unlockArch" ELSE "linkArch")
    /\ UNCHANGED <<public, staging, journal, tmp, counts>>

Lock(p) ==
    /\ proc[p].step \in {"lockDir", "lockArch"}
    /\ IF Target(p) \in locks
       THEN Raise(p, "error") /\ UNCHANGED locks
       ELSE /\ locks' = locks \cup {Target(p)}
            /\ Goto(p, IF At(p, "lockDir") THEN "renameDir" ELSE "linkArch")
    /\ UNCHANGED <<public, staging, journal, tmp, counts>>

\* Fault: the rename replaces what is there.
RenameReplaces(p) ==
    /\ At(p, "renameDir")
    /\ Goto(p, "unlockDir")
    /\ directory' = proc[p].h
    /\ UNCHANGED <<archive, private, counts>>

RenameDirectory(p) ==
    /\ At(p, "renameDir")
    /\ IF directory # None
       THEN Raise(p, "error") /\ UNCHANGED directory
       ELSE Goto(p, "unlockDir") /\ directory' = proc[p].h
    /\ UNCHANGED <<archive, private, counts>>

\* The archive holds what was copied from the directory.
LinkArchive(p) ==
    /\ At(p, "linkArch")
    /\ IF archive # None
       THEN Raise(p, "error") /\ UNCHANGED archive
       ELSE Goto(p, "unlockArch") /\ archive' = directory
    /\ UNCHANGED <<directory, private, counts>>

Unlock(p) ==
    LET c == proc[p] IN
    /\ c.step \in {"unlockDir", "unlockArch"}
    /\ locks' = locks \ {Target(p)}
    /\ Goto(p, IF c.step = "unlockArch" /\ c.op = "publish" THEN "unlinkTmp"
               ELSE IF c.failing # "no" THEN FailTo(c, c.failing)
               ELSE IF c.step = "unlockDir" THEN "dirPromoted" ELSE "archPromoted")
    /\ UNCHANGED <<public, staging, journal, tmp, counts>>

\* _prepare_private_staging removes what is there and makes it anew.
PrepareStaging(p) ==
    /\ proc[p].step \in {"archStage", "prepare", "again"}
    /\ staging' = staging \cup {ArchStaging(p)}
    /\ Goto(p, IF At(p, "prepare") THEN "intent" ELSE "archPromoting")
    /\ UNCHANGED <<public, journal, tmp, locks, counts>>

\* Copy, pack and validate.  The temporary archive of a resumption has a name no
\* check of private names covers, and is not modelled.
BuildArchive(p) ==
    /\ At(p, "build")
    /\ tmp' = (tmp \/ proc[p].op = "publish")
    /\ proc' = [proc EXCEPT ![p].step = "lockArch", ![p].built = TRUE]
    /\ UNCHANGED <<public, staging, journal, locks, counts>>

UnlinkTmp(p) ==
    LET c == proc[p] IN
    /\ At(p, "unlinkTmp")
    /\ tmp' = FALSE
    /\ Goto(p, IF c.failing = "no" THEN "archPromoted" ELSE Abort(c.failing, c.step))
    /\ UNCHANGED <<public, staging, journal, locks, counts>>

(***************************************************************************)
(* _cleanup_private_state: the staging directories, then the journal root. *)
(***************************************************************************)
\* Fault: only the staging of the directory is removed.
RemoveStagingOfDirectory(p) ==
    /\ At(p, "rmDirStaging")
    /\ staging' = staging \ {DirStaging(p)}
    /\ Goto(p, "rmEntries")
    /\ UNCHANGED <<public, journal, tmp, locks, counts>>

RemoveStaging(p) ==
    /\ proc[p].step \in {"rmDirStaging", "rmArchStaging"}
    /\ staging' = staging \ {IF At(p, "rmDirStaging") THEN DirStaging(p) ELSE ArchStaging(p)}
    /\ Goto(p, IF At(p, "rmDirStaging") THEN "rmArchStaging" ELSE "rmEntries")
    /\ UNCHANGED <<public, journal, tmp, locks, counts>>

\* shutil.rmtree removes the entries in any order, then the directory.
RemoveEntries(p) ==
    /\ At(p, "rmEntries")
    /\ IF {journal[Tx(p)].dir, journal[Tx(p)].arch} = {None}
       THEN Goto(p, "rmRoot") /\ UNCHANGED journal
       ELSE /\ \E file \in {"dir", "arch"} :
                  /\ journal[Tx(p)][file] # None
                  /\ journal' = [journal EXCEPT ![Tx(p)] = [@ EXCEPT ![file] = None]]
            /\ UNCHANGED proc
    /\ UNCHANGED <<public, staging, tmp, locks, counts>>

\* Fault: a cleanup after a failure returns like one after success.
RemoveRootAndReturn(p) ==
    /\ At(p, "rmRoot")
    /\ journal' = [journal EXCEPT ![Tx(p)] = NoRoot]
    /\ Goto(p, "returned")
    /\ UNCHANGED <<public, staging, tmp, locks, counts>>

RemoveRoot(p) ==
    /\ At(p, "rmRoot")
    /\ journal' = [journal EXCEPT ![Tx(p)] = NoRoot]
    /\ Goto(p, IF proc[p].failing = "no" THEN "returned" ELSE "failed")
    /\ UNCHANGED <<public, staging, tmp, locks, counts>>

-----------------------------------------------------------------------------
(***************************************************************************)
(* resume_v3_archive_from_directory.                                       *)
(***************************************************************************)
Resume(p) ==
    /\ proc[p].step \in Ended /\ calls < MaxCalls /\ Live = {}
    /\ directory # None
    /\ calls' = calls + 1
    /\ proc' = [proc EXCEPT ![p] =
                  [Idle(directory) EXCEPT !.op = "resume", !.step = "inspect"]]
    /\ UNCHANGED <<public, private, kills, errors>>

Roots == {t \in DOMAIN journal : journal[t].exists}

\* The discovery of private names and the checks of the directory journal.
Inspectable ==
    /\ Cardinality(Roots) <= 1
    /\ Roots \subseteq {directory} \X Kind
    /\ ~tmp
    /\ staging \subseteq {directory} \X Role
    /\ Roots = {} => staging = {}
    /\ \A t \in Roots : LET j == journal[t] IN
         \/ /\ t[2] = "canonical" /\ j.dir \in {"PROMOTING", "PROMOTED"}
            /\ j.arch = None => <<directory, "directory">> \in staging
         \/ t[2] = "only" /\ j.dir = None /\ j.arch # None

Inspect(p) ==
    LET j == journal[<<directory, "canonical">>] IN
    /\ At(p, "inspect")
    /\ proc' = [proc EXCEPT
                  ![p].step = IF ~Inspectable THEN "refused"
                              ELSE IF j.dir = "PROMOTING" THEN "markDir" ELSE "noArchive",
                  ![p].kind = IF j.exists THEN "canonical" ELSE "only"]
    /\ UNCHANGED <<public, private, counts>>

\* A canonical root without an archive journal gets one, unless an archive is there.
NoArchive(p) ==
    /\ At(p, "noArchive")
    /\ Goto(p, IF proc[p].kind = "only" \/ journal[Tx(p)].arch # None THEN "decide"
               ELSE IF archive # None THEN "refused" ELSE "newArch")
    /\ UNCHANGED <<public, private, counts>>

\* The checks of the archive journal against what is visible; which restart a state
\* permits is the contract's journal_restart_disposition_v3.
ArchiveAcceptable(t, stagingName) ==
    /\ archive \in {None, directory}
    /\ journal[t].exists =>
         /\ archive = None => journal[t].arch \in {"OPEN", "COMPLETE_INTENT", "PROMOTING"}
         /\ archive # None => journal[t].arch \in {"PROMOTING", "PROMOTED"}
         /\ archive = None /\ journal[t].arch # "OPEN" => stagingName \in staging

Decide(p) ==
    LET j == journal[Tx(p)] IN
    /\ At(p, "decide")
    /\ Goto(p, CASE ~ArchiveAcceptable(Tx(p), ArchStaging(p))            -> "refused"
                 [] ArchiveAcceptable(Tx(p), ArchStaging(p)) /\ archive # None ->
                       IF j.exists THEN "markArch" ELSE "returned"
                 [] ArchiveAcceptable(Tx(p), ArchStaging(p)) /\ archive = None ->
                       IF ~j.exists THEN "newRoot"
                       ELSE IF j.arch = "OPEN" THEN "prepare" ELSE "again")
    /\ UNCHANGED <<public, private, counts>>

\* The finally block removes the staging directory after a failure.
Finally(p) ==
    /\ At(p, "finally")
    /\ staging' = staging \ {ArchStaging(p)}
    /\ Goto(p, "failed")
    /\ UNCHANGED <<public, journal, tmp, locks, counts>>

-----------------------------------------------------------------------------
Terminated == Live = {} /\ calls = MaxCalls /\ UNCHANGED vars

Publishing(p) ==
    \/ RejectStale(p) \/ RejectTarget(p) \/ CreateStaging(p) \/ CreateRoot(p)
    \/ WriteJournal(p) \/ Lock(p) \/ RenameDirectory(p) \/ LinkArchive(p) \/ Unlock(p)
    \/ PrepareStaging(p) \/ BuildArchive(p) \/ UnlinkTmp(p)
    \/ RemoveStaging(p) \/ RemoveEntries(p) \/ RemoveRoot(p)
Resuming(p) == Inspect(p) \/ NoArchive(p) \/ Decide(p) \/ Finally(p)
Environment(p) == Fails(p) \/ Kill(p) \/ KillInWrite(p)

Next ==
    \/ \E p \in Proc :
         \/ \E h \in Handoff : Publish(p, h)
         \/ Resume(p) \/ Publishing(p) \/ Resuming(p) \/ Environment(p)
    \/ Terminated

Spec == Init /\ [][Next]_vars

-----------------------------------------------------------------------------
(***************************************************************************)
(* Properties.                                                             *)
(***************************************************************************)
Call == [op : {"publish", "resume"}, step : Step, h : Handoff, kind : Kind,
         failing : {"no", "error", "interrupt"}, built : BOOLEAN]

\* Every variable has its type: journals hold contract states or are torn.
TypeOK ==
    /\ directory \in Handoff \cup {None} /\ archive \in Handoff \cup {None}
    /\ staging \subseteq Handoff \X Role
    /\ journal \in [Handoff \X Kind -> Journal]
    /\ tmp \in BOOLEAN /\ locks \subseteq {"dir", "arch"}
    /\ proc \in [Proc -> Call]
    /\ calls \in 0 .. MaxCalls /\ kills \in 0 .. MaxKills /\ errors \in 0 .. MaxErrors

\* Readers find an archive only beside the directory it was packed from, and neither
\* is ever replaced or withdrawn, whoever else publishes or is cleaned up.
ArchiveIsOfDirectory == archive # None => archive = directory
PublicStays == [][/\ directory # None => directory' = directory
                  /\ archive # None => archive' = archive]_vars

\* A durable PROMOTED marker, on which every resumption relies, is never ahead of
\* what is visible, for any interleaving of publishers and whatever was torn.
MarkersAreBacked ==
    \A h \in Handoff, k \in Kind :
        /\ journal[<<h, k>>].dir = "PROMOTED" => directory = h
        /\ journal[<<h, k>>].arch = "PROMOTED" => archive = h

\* Cleanup removes the staging directory of an archive before its journal root, so
\* what an interruption leaves is found by its journal; overlapping publishers of
\* one handoff share these names and must not pull them from under each other.
ArchiveStagingHasRoot ==
    \A h \in Handoff : /\ <<h, "archive">> \in staging => journal[<<h, "canonical">>].exists
                       /\ <<h, "only">> \in staging => journal[<<h, "only">>].exists

\* A call that returns, however often its predecessors failed or were killed, has made
\* both outputs of its handoff visible; a resumption leaves nothing that would
\* refuse the next one.
ReturnMeansPublished ==
    \A p \in Proc : At(p, "returned") =>
        /\ directory = proc[p].h /\ archive = proc[p].h
        /\ proc[p].op = "resume" => staging = {} /\ ~tmp /\ Roots = {}
=============================================================================
