-------------------- MODULE ArtifactV3PublicationProofs --------------------
(***************************************************************************)
(* Theorems about ArtifactV3Publication, for every set of processes and    *)
(* handoffs and every bound.                                               *)
(***************************************************************************)
EXTENDS ArtifactV3Publication, FiniteSetTheorems, TLAPS

-----------------------------------------------------------------------------
(***************************************************************************)
(* What a process has made visible when it reaches a step.                 *)
(***************************************************************************)
\* The directory of its handoff is public.
DirectoryIsPublic(s, failing) ==
    \/ s = "unlockDir" /\ failing = "no"
    \/ s \in {"dirPromoted"} \cup ArchiveSteps \cup (ResumeSteps \ {"finally"})

\* Its archive is public too.
ArchiveIsPublic(s, failing) ==
    \/ s \in {"unlockArch", "unlinkTmp"} \cup CleanupSteps /\ failing = "no"
    \/ s \in {"archPromoted", "markArch", "returned"}

Visible ==
    \A p \in Proc :
        /\ DirectoryIsPublic(proc[p].step, proc[p].failing) => directory = proc[p].h
        /\ ArchiveIsPublic(proc[p].step, proc[p].failing) => archive = proc[p].h

MInv == TypeOK /\ ArchiveIsOfDirectory /\ MarkersAreBacked /\ Visible

-----------------------------------------------------------------------------
(***************************************************************************)
(* Who holds a journal root, and what is private to it.                    *)
(***************************************************************************)
Holding(c) ==
    \/ c.step \in DirectorySteps \cup ArchiveSteps \cup CleanupSteps \cup
                  {"markDir", "newArch", "newOnly", "prepare", "intent", "again", "markArch"}
    \/ c.step = "noArchive" /\ c.kind = "canonical"

\* What the names of a call refer to.
TxOf(c) == <<c.h, c.kind>>
DirOf(c) == <<c.h, "directory">>
ArchOf(c) == <<c.h, IF c.kind = "only" THEN "only" ELSE "archive">>

RootIsHeld ==
    \A p \in Proc : Holding(proc[p]) =>
        /\ journal[TxOf(proc[p])].exists
        /\ \A q \in Proc : Holding(proc[q]) /\ q # p => TxOf(proc[q]) # TxOf(proc[p])

\* The call the process is in has not ended.
Running(c) == c.step \notin Ended

ResumesAlone ==
    \A p \in Proc : Running(proc[p]) /\ proc[p].op = "resume"
                       => \A q \in Proc : Running(proc[q]) => q = p

StepsOfOperations == \A p \in Proc : proc[p].step \in ResumeSteps => proc[p].op = "resume"

JournalHasRoot == \A t \in Handoff \X Kind : ~journal[t].exists => journal[t] = NoRoot

\* Before the journal root goes, the staging of its archive has gone.
StagingIsRemoved ==
    \A p \in Proc : proc[p].step \in {"rmEntries", "rmRoot"} => ArchOf(proc[p]) \notin staging

\* A resumption knows every private name of the output base.
Knows(c, private_staging, private_tmp, roots) ==
    /\ ~private_tmp
    /\ private_staging \subseteq {DirOf(c), ArchOf(c)}
    /\ roots \subseteq {TxOf(c)}
    /\ c.step \in {"noArchive", "decide"} /\ roots = {} => private_staging = {}
    /\ c.step \in {"rmArchStaging", "rmEntries", "rmRoot"} => DirOf(c) \notin private_staging
KnowsItsState ==
    \A p \in Proc : Running(proc[p]) /\ proc[p].op = "resume"
                 /\ proc[p].step \notin {"inspect", "finally"} => Knows(proc[p], staging, tmp, Roots)

\* After a resumption has returned nobody gets further than reading.
NothingPrivate == staging = {} /\ ~tmp /\ Roots = {}
Reads(c) ==
    /\ c.step \in {"stale", "target", "inspect", "noArchive", "decide", "finally"}
    /\ c.step \in {"noArchive", "decide"} => c.kind = "only"
Settled ==
    \A r \in Proc : proc[r].step = "returned" /\ proc[r].op = "resume" =>
        /\ directory # None /\ archive # None /\ NothingPrivate
        /\ \A q \in Proc : Running(proc[q]) => Reads(proc[q])

HInv == /\ RootIsHeld /\ ResumesAlone /\ StepsOfOperations /\ JournalHasRoot
        /\ StagingIsRemoved /\ ArchiveStagingHasRoot /\ KnowsItsState /\ Settled

-----------------------------------------------------------------------------
(***************************************************************************)
(* Types.                                                                  *)
(***************************************************************************)
LEMMA TxType ==
  ASSUME NEW c \in Call
  PROVE  <<c.h, c.kind>> \in Handoff \X Kind
  BY DEF Call

\* A journal write by its step.
LEMMA WritesOfStep ==
  ASSUME NEW s \in DOMAIN Writes
  PROVE  /\ Writes[s].file \in {"dir", "arch"} /\ Writes[s].state \in State
         /\ s \in DirectorySteps \cup ArchiveSteps \cup ResumeSteps
         /\ Writes[s].then \in DirectorySteps \cup ArchiveSteps \cup ResumeSteps \cup {"rmDirStaging"}
  BY DEF Writes, W, State, DirectorySteps, ArchiveSteps, ResumeSteps

\* Where a failure leads.
LEMMA FailToType ==
  ASSUME NEW c \in Call, NEW failing \in {"error", "interrupt"}
  PROVE  FailTo(c, failing) \in {"unlockDir", "unlockArch", "unlinkTmp", "finally", "failed", "rmDirStaging"}
  BY DEF FailTo, Caught, Abort

LEMMA StepsTyped ==
  /\ Ended \subseteq Step /\ DirectorySteps \subseteq Step /\ ArchiveSteps \subseteq Step
  /\ ResumeSteps \subseteq Step /\ CleanupSteps \subseteq Step
  /\ {"stale", "target", "stage", "root", "unlockDir", "unlockArch", "unlinkTmp"} \subseteq Step
  /\ {"finally", "failed", "rmDirStaging", "idle", "refused", "returned"} \subseteq Step
  BY DEF Step, Ended, DirectorySteps, ArchiveSteps, ResumeSteps, CleanupSteps

LEMMA GotoType ==
  ASSUME TypeOK, NEW p \in Proc, NEW s \in Step, Goto(p, s)
  PROVE  proc' \in [Proc -> Call]
  BY DEF TypeOK, Goto, Call

LEMMA RaiseType ==
  ASSUME TypeOK, NEW p \in Proc, NEW failing \in {"error", "interrupt"}, Raise(p, failing)
  PROVE  proc' \in [Proc -> Call]
  <1>1. FailTo(proc[p], failing) \in Step
    BY FailToType, StepsTyped DEF TypeOK
  <1>. DEFINE c == [proc[p] EXCEPT !.step = FailTo(proc[p], failing), !.failing = failing]
  <1>2. c \in Call
    BY <1>1 DEF TypeOK, Call
  <1>3. proc' = [proc EXCEPT ![p] = c]
    BY DEF Raise, TypeOK, Call
  <1>. HIDE DEF c
  <1>. QED
    BY <1>2, <1>3 DEF TypeOK

LEMMA IdleType ==
  ASSUME NEW h \in Handoff
  PROVE  Idle(h) \in Call
  BY StepsTyped DEF Idle, Call, Kind

LEMMA TypeInit == Init => TypeOK
  <1>1. NoRoot \in Journal
    BY DEF NoRoot, Journal
  <1>2. Init => journal \in [Handoff \X Kind -> Journal]
    BY <1>1 DEF Init
  <1>3. Init => proc \in [Proc -> Call]
    BY IdleType DEF Init
  <1>4. 0 \in 0 .. MaxCalls /\ 0 \in 0 .. MaxKills /\ 0 \in 0 .. MaxErrors
    BY BoundsAssumption
  <1>. QED
    BY <1>2, <1>3, <1>4 DEF Init, TypeOK

LEMMA PublishingType ==
  ASSUME TypeOK, NEW p \in Proc, Publishing(p)
  PROVE  TypeOK'
  <1>. USE DEF public, private, counts
  <1>0. proc[p] \in Call /\ Tx(p) \in Handoff \X Kind
    BY TxType DEF TypeOK, Tx
  <1>1. CASE RejectStale(p) \/ RejectTarget(p)
    <2>1. proc' \in [Proc -> Call]
      BY <1>1, GotoType, StepsTyped DEF RejectStale, RejectTarget
    <2>. QED
      BY <1>1, <2>1 DEF TypeOK, RejectStale, RejectTarget
  <1>2. CASE CreateStaging(p)
    <2>1. proc' \in [Proc -> Call]
      BY <1>2, GotoType, StepsTyped DEF CreateStaging
    <2>2. DirStaging(p) \in Handoff \X Role
      BY <1>0 DEF DirStaging, Role, Call
    <2>. QED
      BY <1>2, <2>1, <2>2 DEF TypeOK, CreateStaging
  <1>3. CASE CreateRoot(p)
    <2>1. {"dirOpen", "newOnly"} \subseteq Step
      BY DEF Step, DirectorySteps, ResumeSteps
    <2>2. proc' \in [Proc -> Call]
      BY <1>3, <2>1, GotoType, StepsTyped DEF CreateRoot
    <2>3. EmptyRoot \in Journal
      BY DEF EmptyRoot, NoRoot, Journal
    <2>. QED
      BY <1>0, <1>3, <2>2, <2>3 DEF TypeOK, CreateRoot
  <1>4. CASE WriteJournal(p)
    <2>. DEFINE w == Writes[proc[p].step]
    <2>1. w.file \in {"dir", "arch"} /\ w.state \in State /\ w.then \in Step
      BY <1>4, WritesOfStep, StepsTyped DEF WriteJournal
    <2>2. proc' \in [Proc -> Call]
      BY <1>4, <2>1, GotoType DEF WriteJournal
    <2>3. [journal[Tx(p)] EXCEPT ![w.file] = w.state] \in Journal
      BY <1>0, <2>1 DEF TypeOK, Journal
    <2>. HIDE DEF w
    <2>4. journal' = [journal EXCEPT ![Tx(p)] = [@ EXCEPT ![w.file] = w.state]]
      BY <1>4 DEF WriteJournal, w
    <2>. QED
      BY <1>0, <1>4, <2>2, <2>3, <2>4 DEF TypeOK, WriteJournal
  <1>5. CASE Lock(p)
    <2>1. {"renameDir", "linkArch"} \subseteq Step
      BY DEF Step, DirectorySteps, ArchiveSteps
    <2>2. proc' \in [Proc -> Call]
      BY <1>5, <2>1, GotoType, RaiseType DEF Lock
    <2>. QED
      BY <1>5, <2>2 DEF TypeOK, Lock, Target
  <1>6. CASE RenameDirectory(p)
    <2>1. proc' \in [Proc -> Call]
      BY <1>6, GotoType, RaiseType, StepsTyped DEF RenameDirectory
    <2>. QED
      BY <1>0, <1>6, <2>1 DEF TypeOK, RenameDirectory, Call
  <1>7. CASE LinkArchive(p)
    <2>1. proc' \in [Proc -> Call]
      BY <1>7, GotoType, RaiseType, StepsTyped DEF LinkArchive
    <2>. QED
      BY <1>7, <2>1 DEF TypeOK, LinkArchive
  <1>8. CASE Unlock(p)
    <2>1. {"dirPromoted", "archPromoted"} \subseteq Step
      BY DEF Step, DirectorySteps, ArchiveSteps
    <2>2. CASE proc[p].failing = "no"
      BY <1>8, <2>1, <2>2, GotoType, StepsTyped DEF Unlock, TypeOK
    <2>3. CASE proc[p].failing # "no"
      <3>1. FailTo(proc[p], proc[p].failing) \in Step
        BY <1>0, <2>3, FailToType, StepsTyped DEF Call
      <3>2. proc' \in [Proc -> Call]
        BY <1>8, <2>3, <3>1, GotoType, StepsTyped DEF Unlock
      <3>. QED
        BY <1>8, <3>2 DEF Unlock, TypeOK
    <2>. QED
      BY <2>2, <2>3
  <1>9. CASE PrepareStaging(p)
    <2>1. {"intent", "archPromoting"} \subseteq Step
      BY DEF Step, ResumeSteps, ArchiveSteps
    <2>2. proc' \in [Proc -> Call]
      BY <1>9, <2>1, GotoType DEF PrepareStaging
    <2>3. ArchStaging(p) \in Handoff \X Role
      BY <1>0 DEF ArchStaging, Role, Call
    <2>. QED
      BY <1>9, <2>2, <2>3 DEF TypeOK, PrepareStaging
  <1>10. CASE BuildArchive(p)
    <2>1. "lockArch" \in Step
      BY DEF Step, ArchiveSteps
    <2>. QED
      BY <1>0, <1>10, <2>1 DEF TypeOK, BuildArchive, Call
  <1>11. CASE UnlinkTmp(p)
    <2>1. {"archPromoted", "failed", "rmDirStaging"} \subseteq Step
      BY DEF Step, ArchiveSteps, CleanupSteps, Ended
    <2>2. proc' \in [Proc -> Call]
      BY <1>11, <2>1, GotoType DEF UnlinkTmp, Abort
    <2>. QED
      BY <1>11, <2>2 DEF TypeOK, UnlinkTmp
  <1>12. CASE RemoveStaging(p)
    <2>1. {"rmArchStaging", "rmEntries"} \subseteq Step
      BY DEF Step, CleanupSteps
    <2>2. proc' \in [Proc -> Call]
      BY <1>12, <2>1, GotoType DEF RemoveStaging
    <2>. QED
      BY <1>12, <2>2 DEF TypeOK, RemoveStaging
  <1>13. CASE RemoveEntries(p)
    <2>1. "rmRoot" \in Step
      BY DEF Step, CleanupSteps
    <2>2. proc' \in [Proc -> Call]
      BY <1>13, <2>1, GotoType DEF RemoveEntries, TypeOK
    <2>3. \A file \in {"dir", "arch"} : [journal[Tx(p)] EXCEPT ![file] = None] \in Journal
      BY <1>0 DEF TypeOK, Journal
    <2>4. journal' \in [Handoff \X Kind -> Journal]
      BY <1>0, <1>13, <2>3 DEF TypeOK, RemoveEntries
    <2>. QED
      BY <1>13, <2>2, <2>4 DEF TypeOK, RemoveEntries
  <1>14. CASE RemoveRoot(p)
    <2>1. proc' \in [Proc -> Call]
      BY <1>14, GotoType, StepsTyped DEF RemoveRoot
    <2>2. NoRoot \in Journal
      BY DEF NoRoot, Journal
    <2>. QED
      BY <1>0, <1>14, <2>1, <2>2 DEF TypeOK, RemoveRoot
  <1>. QED
    BY <1>1, <1>2, <1>3, <1>4, <1>5, <1>6, <1>7, <1>8, <1>9, <1>10, <1>11, <1>12, <1>13, <1>14
    DEF Publishing

LEMMA TypeNext ==
  ASSUME TypeOK, [Next]_vars
  PROVE  TypeOK'
  <1>. USE DEF public, private, counts
  <1>1. CASE UNCHANGED vars
    BY <1>1 DEF vars, TypeOK
  <1>2. ASSUME NEW p \in Proc, NEW h \in Handoff, Publish(p, h)
        PROVE  TypeOK'
    <2>1. [Idle(h) EXCEPT !.step = "stale"] \in Call
      BY StepsTyped DEF Idle, Call, Kind
    <2>2. calls' \in 0 .. MaxCalls
      BY <1>2, BoundsAssumption DEF Publish, TypeOK
    <2>. QED
      BY <1>2, <2>1, <2>2 DEF Publish, TypeOK
  <1>3. ASSUME NEW p \in Proc, Resume(p)
        PROVE  TypeOK'
    <2>1. directory \in Handoff /\ "inspect" \in Step
      BY <1>3 DEF Resume, TypeOK, Step, ResumeSteps
    <2>2. [Idle(directory) EXCEPT !.op = "resume", !.step = "inspect"] \in Call
      BY <2>1 DEF Idle, Call, Kind
    <2>3. calls' \in 0 .. MaxCalls
      BY <1>3, BoundsAssumption DEF Resume, TypeOK
    <2>. QED
      BY <1>3, <2>2, <2>3 DEF Resume, TypeOK
  <1>4. ASSUME NEW p \in Proc, Resuming(p)
        PROVE  TypeOK'
    <2>0. ResumeSteps \subseteq Step /\ "refused" \in Step /\ "returned" \in Step /\ "failed" \in Step
      BY StepsTyped
    <2>1. CASE Inspect(p)
      <3>. DEFINE c == [proc[p] EXCEPT
                          !.step = IF ~Inspectable THEN "refused"
                                   ELSE IF journal[<<directory, "canonical">>].dir = "PROMOTING"
                                   THEN "markDir" ELSE "noArchive",
                          !.kind = IF journal[<<directory, "canonical">>].exists
                                   THEN "canonical" ELSE "only"]
      <3>1. c \in Call
        BY <2>0 DEF TypeOK, Call, ResumeSteps, Kind
      <3>2. proc' = [proc EXCEPT ![p] = c]
        BY <2>1 DEF Inspect, TypeOK, Call
      <3>3. UNCHANGED <<public, private, counts>>
        BY <2>1 DEF Inspect
      <3>. HIDE DEF c
      <3>4. proc' \in [Proc -> Call]
        BY <3>1, <3>2 DEF TypeOK
      <3>. QED
        BY <3>3, <3>4 DEF TypeOK
    <2>2. CASE NoArchive(p)
      <3>1. {"decide", "newArch"} \subseteq Step
        BY DEF Step, ResumeSteps
      <3>2. proc' \in [Proc -> Call]
        BY <2>0, <2>2, <3>1, GotoType DEF NoArchive
      <3>. QED
        BY <2>2, <3>2 DEF NoArchive, TypeOK
    <2>3. CASE Decide(p)
      <3>1. {"markArch", "newRoot", "prepare", "again"} \subseteq Step
        BY DEF Step, ResumeSteps
      <3>2. proc' \in [Proc -> Call]
        <4>. DEFINE ok == ArchiveAcceptable(Tx(p), ArchStaging(p))
        <4>. HIDE DEF ok
        <4>1. CASE ~ok
          <5>1. Goto(p, "refused")
            BY <2>3, <4>1 DEF Decide, ok
          <5>. QED
            BY <2>0, <5>1, GotoType
        <4>2. CASE ok /\ archive # None
          <5>1. Goto(p, IF journal[Tx(p)].exists THEN "markArch" ELSE "returned")
            BY <2>3, <4>2 DEF Decide, ok
          <5>. QED
            BY <2>0, <3>1, <5>1, GotoType
        <4>3. CASE ok /\ archive = None
          <5>1. Goto(p, IF ~journal[Tx(p)].exists THEN "newRoot"
                        ELSE IF journal[Tx(p)].arch = "OPEN" THEN "prepare" ELSE "again")
            BY <2>3, <4>3 DEF Decide, ok
          <5>. QED
            BY <3>1, <5>1, GotoType
        <4>. QED
          BY <4>1, <4>2, <4>3
      <3>. QED
        BY <2>3, <3>2 DEF Decide, TypeOK
    <2>4. CASE Finally(p)
      <3>1. proc' \in [Proc -> Call]
        BY <2>0, <2>4, GotoType DEF Finally
      <3>. QED
        BY <2>4, <3>1 DEF Finally, TypeOK
    <2>. QED
      BY <1>4, <2>1, <2>2, <2>3, <2>4 DEF Resuming
  <1>5. ASSUME NEW p \in Proc, Environment(p)
        PROVE  TypeOK'
    <2>0. "killed" \in Step
      BY DEF Step, Ended
    <2>1. CASE Fails(p)
      <3>1. proc' \in [Proc -> Call]
        BY <2>1, RaiseType DEF Fails
      <3>2. errors' \in 0 .. MaxErrors
        BY <2>1, BoundsAssumption DEF Fails, TypeOK
      <3>. QED
        BY <2>1, <3>1, <3>2 DEF Fails, TypeOK
    <2>2. CASE Kill(p)
      <3>1. proc' \in [Proc -> Call]
        BY <2>0, <2>2, GotoType DEF Kill
      <3>2. kills' \in 0 .. MaxKills
        BY <2>2, BoundsAssumption DEF Kill, TypeOK
      <3>. QED
        BY <2>2, <3>1, <3>2 DEF Kill, TypeOK
    <2>3. CASE KillInWrite(p)
      <3>. DEFINE w == Writes[proc[p].step]
      <3>1. proc' \in [Proc -> Call]
        BY <2>0, <2>3, GotoType DEF KillInWrite
      <3>2. kills' \in 0 .. MaxKills
        BY <2>3, BoundsAssumption DEF KillInWrite, TypeOK
      <3>3. w.file \in {"dir", "arch"}
        BY <2>3, WritesOfStep DEF KillInWrite
      <3>4. Tx(p) \in Handoff \X Kind
        BY TxType DEF Tx, TypeOK
      <3>5. [journal[Tx(p)] EXCEPT ![w.file] = "torn"] \in Journal
        BY <3>3, <3>4 DEF TypeOK, Journal
      <3>. HIDE DEF w
      <3>6. journal' = [journal EXCEPT ![Tx(p)] = [@ EXCEPT ![w.file] = "torn"]]
        BY <2>3 DEF KillInWrite, w
      <3>. QED
        BY <2>3, <3>1, <3>2, <3>4, <3>5, <3>6 DEF KillInWrite, TypeOK
    <2>. QED
      BY <1>5, <2>1, <2>2, <2>3 DEF Environment
  <1>. QED
    BY <1>1, <1>2, <1>3, <1>4, <1>5, PublishingType DEF Next, Terminated

\* Every variable keeps its type, whatever publishers, resumptions, kills and errors do.
THEOREM TypeCorrect == Spec => []TypeOK
  <1>. QED
    BY TypeInit, TypeNext, PTL DEF Spec

-----------------------------------------------------------------------------
(***************************************************************************)
(* What is public, and what the markers say of it.                         *)
(***************************************************************************)
\* What is public stays, and a process goes where it may.
LEMMA VisibleKept ==
  ASSUME TypeOK, Visible, NEW p \in Proc, NEW c \in Call, proc' = [proc EXCEPT ![p] = c],
         directory # None => directory' = directory,
         archive # None => archive' = archive,
         DirectoryIsPublic(c.step, c.failing) => directory' = c.h,
         ArchiveIsPublic(c.step, c.failing) => archive' = c.h
  PROVE  Visible'
  <1>. SUFFICES ASSUME NEW q \in Proc
                PROVE  /\ DirectoryIsPublic(proc'[q].step, proc'[q].failing) => directory' = proc'[q].h
                       /\ ArchiveIsPublic(proc'[q].step, proc'[q].failing) => archive' = proc'[q].h
    BY DEF Visible, DirectoryIsPublic, ArchiveIsPublic
  <1>1. CASE q = p
    BY <1>1 DEF TypeOK
  <1>2. CASE q # p
    <2>1. proc'[q] = proc[q] /\ proc[q].h # None
      BY <1>2, NoneAssumption DEF TypeOK, Call
    <2>. QED
      BY <2>1 DEF Visible
  <1>. QED
    BY <1>1, <1>2

LEMMA GotoVisible ==
  ASSUME TypeOK, Visible, NEW p \in Proc, NEW s \in Step, Goto(p, s),
         directory # None => directory' = directory,
         archive # None => archive' = archive,
         DirectoryIsPublic(s, proc[p].failing) => directory' = proc[p].h,
         ArchiveIsPublic(s, proc[p].failing) => archive' = proc[p].h
  PROVE  Visible'
  <1>. DEFINE c == [proc[p] EXCEPT !.step = s]
  <1>1. c \in Call /\ c.step = s /\ c.failing = proc[p].failing /\ c.h = proc[p].h
    BY DEF TypeOK, Call
  <1>2. proc' = [proc EXCEPT ![p] = c]
    BY DEF Goto, TypeOK, Call
  <1>. HIDE DEF c
  <1>. QED
    BY <1>1, <1>2, VisibleKept

LEMMA RaiseVisible ==
  ASSUME TypeOK, Visible, NEW p \in Proc, NEW failing \in {"error", "interrupt"}, Raise(p, failing),
         UNCHANGED public
  PROVE  Visible'
  <1>. DEFINE s == FailTo(proc[p], failing)
  <1>. DEFINE c == [proc[p] EXCEPT !.step = s, !.failing = failing]
  <1>0. s \in Step
    BY FailToType, StepsTyped DEF TypeOK
  <1>1. c \in Call /\ c.step = s /\ c.failing = failing /\ c.h = proc[p].h
    BY <1>0 DEF TypeOK, Call
  <1>2. proc' = [proc EXCEPT ![p] = c]
    BY DEF Raise, TypeOK, Call
  <1>3. s \in {"unlockDir", "finally", "failed", "rmDirStaging"} \/ proc[p].step \in ArchiveSteps
    BY DEF FailTo, Caught, Abort, ArchiveSteps
  <1>4. s \in {"unlockDir", "unlockArch", "unlinkTmp", "finally", "failed", "rmDirStaging"}
    BY FailToType DEF TypeOK
  <1>. HIDE DEF s
  <1>5. DirectoryIsPublic(s, failing) => DirectoryIsPublic(proc[p].step, proc[p].failing)
    BY <1>3, <1>4 DEF DirectoryIsPublic, ArchiveSteps, ResumeSteps
  <1>6. ~ArchiveIsPublic(s, failing)
    BY <1>4 DEF ArchiveIsPublic
  <1>. HIDE DEF c
  <1>. QED
    BY <1>1, <1>2, <1>5, <1>6, VisibleKept DEF Visible, public

\* The marker of a journal is written when what it says is public.
LEMMA WritesVisible ==
  ASSUME NEW s \in DOMAIN Writes, NEW failing
  PROVE  /\ Writes[s].file = "dir" /\ Writes[s].state = "PROMOTED" => DirectoryIsPublic(s, failing)
         /\ Writes[s].file = "arch" /\ Writes[s].state = "PROMOTED" => ArchiveIsPublic(s, failing)
         /\ DirectoryIsPublic(Writes[s].then, failing) => DirectoryIsPublic(s, failing)
         /\ ArchiveIsPublic(Writes[s].then, failing) => ArchiveIsPublic(s, failing)
  BY DEF Writes, W, DirectoryIsPublic, ArchiveIsPublic, ArchiveSteps, ResumeSteps, CleanupSteps

\* A transaction that gets no new marker, nor loses what is public.
LEMMA MarkersKept ==
  ASSUME TypeOK, MarkersAreBacked, NEW t \in Handoff \X Kind,
         \A u \in Handoff \X Kind : u # t => journal'[u] = journal[u],
         \A file \in {"dir", "arch"} :
            journal'[t][file] = "PROMOTED" => journal[t][file] = "PROMOTED",
         directory # None => directory' = directory,
         archive # None => archive' = archive
  PROVE  MarkersAreBacked'
  <1>. SUFFICES ASSUME NEW h \in Handoff, NEW k \in Kind
                PROVE  /\ journal'[<<h, k>>].dir = "PROMOTED" => directory' = h
                       /\ journal'[<<h, k>>].arch = "PROMOTED" => archive' = h
    BY DEF MarkersAreBacked
  <1>1. /\ journal'[<<h, k>>].dir = "PROMOTED" => journal[<<h, k>>].dir = "PROMOTED"
        /\ journal'[<<h, k>>].arch = "PROMOTED" => journal[<<h, k>>].arch = "PROMOTED"
    <2>1. CASE <<h, k>> = t
      BY <2>1
    <2>2. CASE <<h, k>> # t
      BY <2>2
    <2>. QED
      BY <2>1, <2>2
  <1>2. h # None
    BY NoneAssumption
  <1>. QED
    BY <1>1, <1>2 DEF MarkersAreBacked

\* A step that changes neither what is public nor a journal.
LEMMA MarkersUnchanged ==
  ASSUME MInv, UNCHANGED <<public, journal>>
  PROVE  ArchiveIsOfDirectory' /\ MarkersAreBacked'
  BY DEF MInv, ArchiveIsOfDirectory, MarkersAreBacked, public

LEMMA PublishingMarkers ==
  ASSUME MInv, NEW p \in Proc, Publishing(p)
  PROVE  ArchiveIsOfDirectory' /\ MarkersAreBacked' /\ Visible'
  <1>. USE DEF public, private, counts
  <1>0. /\ TypeOK /\ Visible /\ proc[p] \in Call /\ Tx(p) \in Handoff \X Kind
        /\ DirectoryIsPublic(proc[p].step, proc[p].failing) => directory = proc[p].h
        /\ ArchiveIsPublic(proc[p].step, proc[p].failing) => archive = proc[p].h
    BY TxType DEF MInv, TypeOK, Tx, Visible
  <1>1. CASE RejectStale(p) \/ RejectTarget(p) \/ CreateStaging(p)
    <2>1. UNCHANGED <<public, journal>>
      BY <1>1 DEF RejectStale, RejectTarget, CreateStaging
    <2>2. PICK s \in {"refused", "target", "stage", "root"} : Goto(p, s)
      BY <1>1 DEF RejectStale, RejectTarget, CreateStaging
    <2>3. s \in Step /\ ~DirectoryIsPublic(s, proc[p].failing) /\ ~ArchiveIsPublic(s, proc[p].failing)
      BY StepsTyped DEF DirectoryIsPublic, ArchiveIsPublic, ArchiveSteps, ResumeSteps, CleanupSteps
    <2>. QED
      BY <1>0, <2>1, <2>2, <2>3, GotoVisible, MarkersUnchanged
  <1>2. CASE CreateRoot(p)
    <2>1. UNCHANGED public
      BY <1>2 DEF CreateRoot
    <2>2. PICK s \in {"refused", "dirOpen", "newOnly"} :
             Goto(p, s) /\ (s = "newOnly" => At(p, "newRoot"))
      BY <1>2 DEF CreateRoot, At
    <2>3. s \in Step /\ ~ArchiveIsPublic(s, proc[p].failing)
      BY DEF ArchiveIsPublic, CleanupSteps, Step, DirectorySteps, Ended, ResumeSteps
    <2>4. Visible'
      <3>1. CASE s = "newOnly"
        <4>1. directory = proc[p].h
          BY <1>0, <2>2, <3>1 DEF At, DirectoryIsPublic, ResumeSteps
        <4>. QED
          BY <1>0, <2>1, <2>2, <2>3, <4>1, GotoVisible
      <3>2. CASE s # "newOnly"
        <4>1. ~DirectoryIsPublic(s, proc[p].failing)
          BY <3>2 DEF DirectoryIsPublic, ArchiveSteps, ResumeSteps
        <4>. QED
          BY <1>0, <2>1, <2>2, <2>3, <4>1, GotoVisible
      <3>. QED
        BY <3>1, <3>2
    <2>5. MarkersAreBacked'
      <3>1. CASE UNCHANGED journal
        BY <2>1, <3>1, MarkersUnchanged
      <3>2. CASE journal' = [journal EXCEPT ![Tx(p)] = EmptyRoot]
        <4>1. journal'[Tx(p)].dir = None /\ journal'[Tx(p)].arch = None
          BY <1>0, <3>2 DEF TypeOK, EmptyRoot, NoRoot
        <4>2. \A u \in Handoff \X Kind : u # Tx(p) => journal'[u] = journal[u]
          BY <1>0, <3>2 DEF TypeOK
        <4>. QED
          BY <1>0, <2>1, <4>1, <4>2, MarkersKept DEF MInv, None
      <3>. QED
        BY <1>2, <3>1, <3>2 DEF CreateRoot
    <2>. QED
      BY <2>1, <2>4, <2>5 DEF MInv, ArchiveIsOfDirectory
  <1>3. CASE WriteJournal(p)
    <2>. DEFINE w == Writes[proc[p].step]
    <2>1. UNCHANGED public /\ proc[p].step \in DOMAIN Writes /\ Goto(p, w.then)
      BY <1>3 DEF WriteJournal
    <2>2. w.file \in {"dir", "arch"} /\ w.then \in Step
      BY <2>1, WritesOfStep, StepsTyped
    <2>3. /\ w.file = "dir" /\ w.state = "PROMOTED" => directory = proc[p].h
          /\ w.file = "arch" /\ w.state = "PROMOTED" => archive = proc[p].h
          /\ DirectoryIsPublic(w.then, proc[p].failing) => directory = proc[p].h
          /\ ArchiveIsPublic(w.then, proc[p].failing) => archive = proc[p].h
      BY <1>0, <2>1, WritesVisible
    <2>4. journal' = [journal EXCEPT ![Tx(p)] = [@ EXCEPT ![w.file] = w.state]]
      BY <1>3 DEF WriteJournal
    <2>. HIDE DEF w
    <2>5. Visible'
      BY <1>0, <2>1, <2>2, <2>3, GotoVisible
    <2>6. MarkersAreBacked'
      <3>. SUFFICES ASSUME NEW h \in Handoff, NEW k \in Kind
                    PROVE  /\ journal'[<<h, k>>].dir = "PROMOTED" => directory = h
                           /\ journal'[<<h, k>>].arch = "PROMOTED" => archive = h
        BY <2>1 DEF MarkersAreBacked
      <3>0. /\ journal[<<h, k>>].dir = "PROMOTED" => directory = h
            /\ journal[<<h, k>>].arch = "PROMOTED" => archive = h
        BY DEF MInv, MarkersAreBacked
      <3>1. CASE <<h, k>> # Tx(p)
        BY <1>0, <2>4, <3>0, <3>1 DEF TypeOK
      <3>2. CASE <<h, k>> = Tx(p)
        <4>1. proc[p].h = h
          BY <3>2 DEF Tx
        <4>2. journal'[Tx(p)] = [journal[Tx(p)] EXCEPT ![w.file] = w.state]
          BY <1>0, <2>4 DEF TypeOK
        <4>3. /\ journal'[Tx(p)].dir = IF w.file = "dir" THEN w.state ELSE journal[Tx(p)].dir
              /\ journal'[Tx(p)].arch = IF w.file = "arch" THEN w.state ELSE journal[Tx(p)].arch
          BY <1>0, <2>2, <4>2 DEF TypeOK, Journal
        <4>. QED
          BY <2>3, <3>0, <3>2, <4>1, <4>3
      <3>. QED
        BY <3>1, <3>2
    <2>. QED
      BY <2>1, <2>5, <2>6 DEF MInv, ArchiveIsOfDirectory
  <1>4. CASE Lock(p)
    <2>1. UNCHANGED <<public, journal>>
      BY <1>4 DEF Lock
    <2>2. Visible'
      <3>1. CASE Raise(p, "error")
        BY <1>0, <2>1, <3>1, RaiseVisible
      <3>2. ASSUME NEW s \in {"renameDir", "linkArch"}, Goto(p, s), s = "linkArch" => At(p, "lockArch")
            PROVE  Visible'
        <4>1. /\ s \in Step
              /\ DirectoryIsPublic(s, proc[p].failing) => DirectoryIsPublic(proc[p].step, proc[p].failing)
              /\ ~ArchiveIsPublic(s, proc[p].failing)
          BY <3>2 DEF DirectoryIsPublic, ArchiveIsPublic, ArchiveSteps, ResumeSteps, CleanupSteps, At,
                      Step, DirectorySteps
        <4>. QED
          BY <1>0, <2>1, <3>2, <4>1, GotoVisible
      <3>. QED
        BY <1>4, <3>1, <3>2 DEF Lock, At
    <2>. QED
      BY <2>1, <2>2, MarkersUnchanged
  <1>5. CASE RenameDirectory(p)
    <2>1. CASE directory # None
      BY <1>0, <1>5, <2>1, RaiseVisible, MarkersUnchanged DEF RenameDirectory
    <2>2. CASE directory = None
      <3>1. Goto(p, "unlockDir") /\ directory' = proc[p].h /\ UNCHANGED <<archive, journal>>
        BY <1>5, <2>2 DEF RenameDirectory
      <3>2. archive = None
        BY <2>2 DEF MInv, ArchiveIsOfDirectory
      <3>3. "unlockDir" \in Step /\ ~ArchiveIsPublic("unlockDir", proc[p].failing)
        BY StepsTyped DEF ArchiveIsPublic, CleanupSteps
      <3>4. Visible'
        BY <1>0, <2>2, <3>1, <3>3, GotoVisible
      <3>5. MarkersAreBacked'
        BY <2>2, <3>1, NoneAssumption DEF MInv, MarkersAreBacked
      <3>. QED
        BY <3>1, <3>2, <3>4, <3>5 DEF ArchiveIsOfDirectory
    <2>. QED
      BY <2>1, <2>2
  <1>6. CASE LinkArchive(p)
    <2>1. CASE archive # None
      BY <1>0, <1>6, <2>1, RaiseVisible, MarkersUnchanged DEF LinkArchive
    <2>2. CASE archive = None
      <3>1. Goto(p, "unlockArch") /\ archive' = directory /\ UNCHANGED <<directory, journal>>
        BY <1>6, <2>2 DEF LinkArchive
      <3>2. directory = proc[p].h
        BY <1>0, <1>6 DEF LinkArchive, At, DirectoryIsPublic, ArchiveSteps
      <3>3. "unlockArch" \in Step
        BY StepsTyped
      <3>4. Visible'
        BY <1>0, <2>2, <3>1, <3>2, <3>3, GotoVisible
      <3>5. MarkersAreBacked'
        BY <2>2, <3>1, NoneAssumption DEF MInv, MarkersAreBacked
      <3>. QED
        BY <3>1, <3>4, <3>5 DEF ArchiveIsOfDirectory
    <2>. QED
      BY <2>1, <2>2
  <1>7. CASE Unlock(p)
    <2>1. UNCHANGED <<public, journal>>
      BY <1>7 DEF Unlock
    <2>2. Visible'
      <3>1. CASE At(p, "unlockArch") /\ proc[p].op = "publish"
        <4>1. Goto(p, "unlinkTmp")
          BY <1>7, <3>1 DEF Unlock, At
        <4>2. /\ DirectoryIsPublic("unlinkTmp", proc[p].failing) => DirectoryIsPublic(proc[p].step, proc[p].failing)
              /\ ArchiveIsPublic("unlinkTmp", proc[p].failing) => ArchiveIsPublic(proc[p].step, proc[p].failing)
          BY <3>1 DEF DirectoryIsPublic, ArchiveIsPublic, ArchiveSteps, ResumeSteps, CleanupSteps, At
        <4>. QED
          BY <1>0, <2>1, <4>1, <4>2, GotoVisible, StepsTyped
      <3>2. CASE ~(At(p, "unlockArch") /\ proc[p].op = "publish") /\ proc[p].failing = "no"
        <4>. DEFINE s == IF proc[p].step = "unlockDir" THEN "dirPromoted" ELSE "archPromoted"
        <4>1. Goto(p, s)
          BY <1>7, <3>2 DEF Unlock, At
        <4>2. /\ s \in Step
              /\ DirectoryIsPublic(s, proc[p].failing) => DirectoryIsPublic(proc[p].step, proc[p].failing)
              /\ ArchiveIsPublic(s, proc[p].failing) => ArchiveIsPublic(proc[p].step, proc[p].failing)
          BY <1>7, <3>2 DEF Unlock, DirectoryIsPublic, ArchiveIsPublic, ArchiveSteps, ResumeSteps,
                            CleanupSteps, Step, DirectorySteps
        <4>. HIDE DEF s
        <4>. QED
          BY <1>0, <2>1, <4>1, <4>2, GotoVisible
      <3>3. CASE ~(At(p, "unlockArch") /\ proc[p].op = "publish") /\ proc[p].failing # "no"
        <4>. DEFINE s == FailTo(proc[p], proc[p].failing)
        <4>1. Goto(p, s) /\ proc[p].step \in {"unlockDir", "unlockArch"}
          BY <1>7, <3>3 DEF Unlock, At
        <4>2. s \in {"finally", "failed", "rmDirStaging"}
          BY <4>1 DEF FailTo, Caught, Abort
        <4>. HIDE DEF s
        <4>3. s \in Step /\ ~DirectoryIsPublic(s, proc[p].failing) /\ ~ArchiveIsPublic(s, proc[p].failing)
          BY <3>3, <4>2, StepsTyped DEF DirectoryIsPublic, ArchiveIsPublic, ArchiveSteps, ResumeSteps
        <4>. QED
          BY <1>0, <2>1, <4>1, <4>3, GotoVisible
      <3>. QED
        BY <3>1, <3>2, <3>3
    <2>. QED
      BY <2>1, <2>2, MarkersUnchanged
  <1>8. CASE PrepareStaging(p)
    <2>1. UNCHANGED <<public, journal>>
      BY <1>8 DEF PrepareStaging
    <2>2. PICK s \in {"intent", "archPromoting"} : Goto(p, s)
      BY <1>8 DEF PrepareStaging
    <2>3. /\ s \in Step /\ DirectoryIsPublic(proc[p].step, proc[p].failing)
          /\ ~ArchiveIsPublic(s, proc[p].failing)
      BY <1>8 DEF PrepareStaging, DirectoryIsPublic, ArchiveIsPublic, ArchiveSteps, ResumeSteps,
                  CleanupSteps, Step
    <2>. QED
      BY <1>0, <2>1, <2>2, <2>3, GotoVisible, MarkersUnchanged
  <1>9. CASE BuildArchive(p)
    <2>1. UNCHANGED <<public, journal>>
      BY <1>9 DEF BuildArchive
    <2>. DEFINE c == [proc[p] EXCEPT !.step = "lockArch", !.built = TRUE]
    <2>2. c \in Call /\ c.step = "lockArch" /\ c.h = proc[p].h
      BY <1>0 DEF Call, Step, ArchiveSteps
    <2>3. proc' = [proc EXCEPT ![p] = c]
      BY <1>9 DEF BuildArchive, TypeOK, Call
    <2>. HIDE DEF c
    <2>4. DirectoryIsPublic(proc[p].step, proc[p].failing) /\ ~ArchiveIsPublic(c.step, c.failing)
      BY <1>9, <2>2 DEF BuildArchive, At, DirectoryIsPublic, ArchiveIsPublic, ArchiveSteps, CleanupSteps
    <2>. QED
      BY <1>0, <2>1, <2>2, <2>3, <2>4, VisibleKept, MarkersUnchanged
  <1>10. CASE UnlinkTmp(p)
    <2>1. UNCHANGED <<public, journal>>
      BY <1>10 DEF UnlinkTmp
    <2>2. PICK s \in {"archPromoted", "failed", "rmDirStaging"} :
             Goto(p, s) /\ (s = "archPromoted" <=> proc[p].failing = "no")
      BY <1>10 DEF UnlinkTmp, Abort
    <2>3. /\ s \in Step /\ DirectoryIsPublic(proc[p].step, proc[p].failing)
          /\ ArchiveIsPublic(s, proc[p].failing) => ArchiveIsPublic(proc[p].step, proc[p].failing)
      BY <1>10, <2>2 DEF UnlinkTmp, At, DirectoryIsPublic, ArchiveIsPublic, ArchiveSteps, ResumeSteps,
                         CleanupSteps, Step, Ended
    <2>. QED
      BY <1>0, <2>1, <2>2, <2>3, GotoVisible, MarkersUnchanged
  <1>11. CASE RemoveStaging(p)
    <2>1. UNCHANGED <<public, journal>>
      BY <1>11 DEF RemoveStaging
    <2>2. PICK s \in {"rmArchStaging", "rmEntries"} : Goto(p, s)
      BY <1>11 DEF RemoveStaging
    <2>3. /\ s \in Step /\ ~DirectoryIsPublic(s, proc[p].failing)
          /\ ArchiveIsPublic(s, proc[p].failing) => ArchiveIsPublic(proc[p].step, proc[p].failing)
      BY <1>11 DEF RemoveStaging, DirectoryIsPublic, ArchiveIsPublic, ArchiveSteps, ResumeSteps,
                   CleanupSteps, Step
    <2>. QED
      BY <1>0, <2>1, <2>2, <2>3, GotoVisible, MarkersUnchanged
  <1>12. CASE RemoveEntries(p)
    <2>1. UNCHANGED public
      BY <1>12 DEF RemoveEntries
    <2>2. CASE Goto(p, "rmRoot") /\ UNCHANGED journal
      <3>1. /\ "rmRoot" \in Step /\ ~DirectoryIsPublic("rmRoot", proc[p].failing)
            /\ ArchiveIsPublic("rmRoot", proc[p].failing) => ArchiveIsPublic(proc[p].step, proc[p].failing)
        BY <1>12 DEF RemoveEntries, At, DirectoryIsPublic, ArchiveIsPublic, ArchiveSteps, ResumeSteps,
                     CleanupSteps, Step
      <3>. QED
        BY <1>0, <2>1, <2>2, <3>1, GotoVisible, MarkersUnchanged
    <2>3. CASE UNCHANGED proc /\ \E file \in {"dir", "arch"} :
                  journal' = [journal EXCEPT ![Tx(p)] = [@ EXCEPT ![file] = None]]
      <3>1. Visible'
        BY <1>0, <2>1, <2>3 DEF Visible
      <3>2. PICK file \in {"dir", "arch"} :
               journal' = [journal EXCEPT ![Tx(p)] = [@ EXCEPT ![file] = None]]
        BY <2>3
      <3>3. journal[Tx(p)] \in Journal
        BY <1>0 DEF TypeOK
      <3>4. journal'[Tx(p)] = [journal[Tx(p)] EXCEPT ![file] = None]
        BY <1>0, <3>2 DEF TypeOK
      <3>5. \A f \in {"dir", "arch"} : journal'[Tx(p)][f] = IF f = file THEN None ELSE journal[Tx(p)][f]
        BY <3>2, <3>3, <3>4 DEF Journal
      <3>6. \A f \in {"dir", "arch"} :
               journal'[Tx(p)][f] = "PROMOTED" => journal[Tx(p)][f] = "PROMOTED"
        BY <3>5 DEF None
      <3>7. \A u \in Handoff \X Kind : u # Tx(p) => journal'[u] = journal[u]
        BY <1>0, <3>2 DEF TypeOK
      <3>8. MarkersAreBacked'
        BY <1>0, <2>1, <3>6, <3>7, MarkersKept DEF MInv
      <3>. QED
        BY <2>1, <3>1, <3>8 DEF MInv, ArchiveIsOfDirectory
    <2>. QED
      BY <1>12, <2>2, <2>3 DEF RemoveEntries
  <1>13. CASE RemoveRoot(p)
    <2>1. UNCHANGED public /\ journal' = [journal EXCEPT ![Tx(p)] = NoRoot]
      BY <1>13 DEF RemoveRoot
    <2>2. PICK s \in {"returned", "failed"} : Goto(p, s) /\ (s = "returned" <=> proc[p].failing = "no")
      BY <1>13 DEF RemoveRoot
    <2>3. /\ s \in Step /\ ~DirectoryIsPublic(s, proc[p].failing)
          /\ ArchiveIsPublic(s, proc[p].failing) => ArchiveIsPublic(proc[p].step, proc[p].failing)
      BY <1>13, <2>2, StepsTyped DEF RemoveRoot, At, DirectoryIsPublic, ArchiveIsPublic, ArchiveSteps,
                                     ResumeSteps, CleanupSteps
    <2>4. Visible'
      BY <1>0, <2>1, <2>2, <2>3, GotoVisible
    <2>5. journal'[Tx(p)].dir = None /\ journal'[Tx(p)].arch = None
      BY <1>0, <2>1 DEF TypeOK, NoRoot
    <2>6. \A u \in Handoff \X Kind : u # Tx(p) => journal'[u] = journal[u]
      BY <1>0, <2>1 DEF TypeOK
    <2>7. MarkersAreBacked'
      BY <1>0, <2>1, <2>5, <2>6, MarkersKept DEF MInv, None
    <2>. QED
      BY <2>1, <2>4, <2>7 DEF MInv, ArchiveIsOfDirectory
  <1>. QED
    BY <1>1, <1>2, <1>3, <1>4, <1>5, <1>6, <1>7, <1>8, <1>9, <1>10, <1>11, <1>12, <1>13 DEF Publishing

LEMMA MarkersNext ==
  ASSUME MInv, [Next]_vars
  PROVE  MInv'
  <1>. USE DEF public, private, counts
  <1>0. TypeOK /\ Visible /\ TypeOK'
    BY TypeNext DEF MInv
  <1>1. CASE UNCHANGED vars
    BY <1>0, <1>1, MarkersUnchanged DEF vars, MInv, Visible
  <1>2. ASSUME NEW p \in Proc, NEW h \in Handoff, Publish(p, h)
        PROVE  MInv'
    <2>. DEFINE c == [Idle(h) EXCEPT !.step = "stale"]
    <2>1. c \in Call /\ c.step = "stale"
      BY StepsTyped DEF Idle, Call, Kind
    <2>2. UNCHANGED <<public, journal>> /\ proc' = [proc EXCEPT ![p] = c]
      BY <1>2 DEF Publish
    <2>. HIDE DEF c
    <2>3. ~DirectoryIsPublic(c.step, c.failing) /\ ~ArchiveIsPublic(c.step, c.failing)
      BY <2>1 DEF DirectoryIsPublic, ArchiveIsPublic, ArchiveSteps, ResumeSteps, CleanupSteps
    <2>. QED
      BY <1>0, <2>1, <2>2, <2>3, VisibleKept, MarkersUnchanged DEF MInv
  <1>3. ASSUME NEW p \in Proc, Resume(p)
        PROVE  MInv'
    <2>. DEFINE c == [Idle(directory) EXCEPT !.op = "resume", !.step = "inspect"]
    <2>1. directory \in Handoff /\ "inspect" \in Step
      BY <1>0, <1>3 DEF Resume, TypeOK, Step, ResumeSteps
    <2>2. c \in Call /\ c.step = "inspect" /\ c.h = directory
      BY <2>1 DEF Idle, Call, Kind
    <2>3. UNCHANGED <<public, journal>> /\ proc' = [proc EXCEPT ![p] = c]
      BY <1>3 DEF Resume
    <2>. HIDE DEF c
    <2>4. ~ArchiveIsPublic(c.step, c.failing)
      BY <2>2 DEF ArchiveIsPublic, CleanupSteps
    <2>. QED
      BY <1>0, <2>2, <2>3, <2>4, VisibleKept, MarkersUnchanged DEF MInv
  <1>4. ASSUME NEW p \in Proc, Resuming(p)
        PROVE  MInv'
    <2>0. /\ UNCHANGED <<public, journal>> /\ proc[p] \in Call
          /\ DirectoryIsPublic(proc[p].step, proc[p].failing) => directory = proc[p].h
      BY <1>0, <1>4 DEF Resuming, Inspect, NoArchive, Decide, Finally, TypeOK, Visible
    <2>1. CASE Inspect(p)
      <3>. DEFINE s == IF ~Inspectable THEN "refused"
                       ELSE IF journal[<<directory, "canonical">>].dir = "PROMOTING"
                       THEN "markDir" ELSE "noArchive"
      <3>. DEFINE c == [proc[p] EXCEPT
                          !.step = s,
                          !.kind = IF journal[<<directory, "canonical">>].exists
                                   THEN "canonical" ELSE "only"]
      <3>1. s \in Step /\ s \in {"refused", "markDir", "noArchive"}
        BY DEF Step, Ended, ResumeSteps
      <3>. HIDE DEF s
      <3>2. c \in Call /\ c.step = s /\ c.h = proc[p].h
        BY <2>0, <3>1 DEF Call, Kind
      <3>3. proc' = [proc EXCEPT ![p] = c]
        BY <1>0, <2>1 DEF Inspect, TypeOK, Call, s
      <3>. HIDE DEF c
      <3>4. DirectoryIsPublic(proc[p].step, proc[p].failing) /\ ~ArchiveIsPublic(s, c.failing)
        BY <2>1, <3>1 DEF Inspect, At, DirectoryIsPublic, ArchiveIsPublic, ResumeSteps, CleanupSteps
      <3>. QED
        BY <1>0, <2>0, <3>2, <3>3, <3>4, VisibleKept, MarkersUnchanged DEF MInv
    <2>2. CASE NoArchive(p)
      <3>1. PICK s \in {"decide", "refused", "newArch"} : Goto(p, s)
        BY <2>2 DEF NoArchive
      <3>2. /\ s \in Step /\ DirectoryIsPublic(proc[p].step, proc[p].failing)
            /\ ~ArchiveIsPublic(s, proc[p].failing)
        BY <2>2 DEF NoArchive, At, DirectoryIsPublic, ArchiveIsPublic, ResumeSteps, CleanupSteps,
                    Step, Ended
      <3>. QED
        BY <1>0, <2>0, <3>1, <3>2, GotoVisible, MarkersUnchanged DEF MInv
    <2>3. CASE Decide(p)
      <3>. DEFINE ok == ArchiveAcceptable(Tx(p), ArchStaging(p))
      <3>0. DirectoryIsPublic(proc[p].step, proc[p].failing) /\ (ok /\ archive # None => archive = proc[p].h)
        BY <2>0, <2>3 DEF Decide, At, DirectoryIsPublic, ResumeSteps, ArchiveAcceptable
      <3>1. PICK s \in {"refused", "markArch", "returned", "newRoot", "prepare", "again"} :
               /\ Goto(p, s)
               /\ s \in {"markArch", "returned"} => ok /\ archive # None
        <4>. HIDE DEF ok
        <4>1. CASE ~ok
          BY <2>3, <4>1 DEF Decide, ok
        <4>2. CASE ok /\ archive # None
          BY <2>3, <4>2 DEF Decide, ok
        <4>3. CASE ok /\ archive = None
          BY <2>3, <4>3 DEF Decide, ok
        <4>. QED
          BY <4>1, <4>2, <4>3
      <3>. HIDE DEF ok
      <3>2. /\ s \in Step
            /\ ArchiveIsPublic(s, proc[p].failing) => s \in {"markArch", "returned"}
        BY DEF ArchiveIsPublic, CleanupSteps, Step, Ended, ResumeSteps
      <3>. QED
        BY <1>0, <2>0, <3>0, <3>1, <3>2, GotoVisible, MarkersUnchanged DEF MInv
    <2>4. CASE Finally(p)
      <3>1. Goto(p, "failed")
        BY <2>4 DEF Finally
      <3>2. /\ "failed" \in Step /\ ~DirectoryIsPublic("failed", proc[p].failing)
            /\ ~ArchiveIsPublic("failed", proc[p].failing)
        BY StepsTyped DEF DirectoryIsPublic, ArchiveIsPublic, ArchiveSteps, ResumeSteps, CleanupSteps
      <3>. QED
        BY <1>0, <2>0, <3>1, <3>2, GotoVisible, MarkersUnchanged DEF MInv
    <2>. QED
      BY <1>4, <2>1, <2>2, <2>3, <2>4 DEF Resuming
  <1>5. ASSUME NEW p \in Proc, Environment(p)
        PROVE  MInv'
    <2>0. /\ "killed" \in Step /\ ~DirectoryIsPublic("killed", proc[p].failing)
          /\ ~ArchiveIsPublic("killed", proc[p].failing)
      BY DEF Step, Ended, DirectoryIsPublic, ArchiveIsPublic, ArchiveSteps, ResumeSteps, CleanupSteps
    <2>1. CASE Fails(p)
      BY <1>0, <2>1, RaiseVisible, MarkersUnchanged DEF Fails, MInv
    <2>2. CASE Kill(p)
      BY <1>0, <2>0, <2>2, GotoVisible, MarkersUnchanged DEF Kill, MInv
    <2>3. CASE KillInWrite(p)
      <3>. DEFINE w == Writes[proc[p].step]
      <3>1. /\ UNCHANGED public /\ Goto(p, "killed") /\ w.file \in {"dir", "arch"}
            /\ Tx(p) \in Handoff \X Kind
        BY <1>0, <2>3, WritesOfStep, TxType DEF KillInWrite, Tx, TypeOK
      <3>2. journal' = [journal EXCEPT ![Tx(p)] = [@ EXCEPT ![w.file] = "torn"]]
        BY <2>3 DEF KillInWrite
      <3>. HIDE DEF w
      <3>3. Visible'
        BY <1>0, <2>0, <3>1, GotoVisible
      <3>4. journal[Tx(p)] \in Journal
        BY <1>0, <3>1 DEF TypeOK
      <3>5. journal'[Tx(p)] = [journal[Tx(p)] EXCEPT ![w.file] = "torn"]
        BY <1>0, <3>1, <3>2 DEF TypeOK
      <3>6. \A f \in {"dir", "arch"} :
               journal'[Tx(p)][f] = "PROMOTED" => journal[Tx(p)][f] = "PROMOTED"
        BY <3>1, <3>4, <3>5 DEF Journal
      <3>7. \A u \in Handoff \X Kind : u # Tx(p) => journal'[u] = journal[u]
        BY <1>0, <3>1, <3>2 DEF TypeOK
      <3>8. MarkersAreBacked'
        BY <1>0, <3>1, <3>6, <3>7, MarkersKept DEF MInv
      <3>. QED
        BY <1>0, <3>1, <3>3, <3>8 DEF MInv, ArchiveIsOfDirectory
    <2>. QED
      BY <1>5, <2>1, <2>2, <2>3 DEF Environment
  <1>6. ASSUME NEW p \in Proc, Publishing(p)
        PROVE  MInv'
    BY <1>0, <1>6, PublishingMarkers DEF MInv
  <1>. QED
    BY <1>1, <1>2, <1>3, <1>4, <1>5, <1>6 DEF Next, Terminated

LEMMA MarkersInit == Init => MInv
  <1>. SUFFICES ASSUME Init PROVE MInv
    OBVIOUS
  <1>1. \A t \in Handoff \X Kind : journal[t].dir = None /\ journal[t].arch = None
    BY DEF Init, NoRoot
  <1>2. MarkersAreBacked
    BY <1>1 DEF MarkersAreBacked, None
  <1>3. \A p \in Proc : proc[p].step = "idle"
    BY DEF Init, Idle
  <1>4. Visible
    BY <1>3 DEF Visible, DirectoryIsPublic, ArchiveIsPublic, ArchiveSteps, ResumeSteps, CleanupSteps
  <1>. QED
    BY <1>2, <1>4, TypeInit DEF MInv, Init, ArchiveIsOfDirectory

\* No PROMOTED marker is ahead of what is visible, for any number of publishers that
\* overlap and wherever they are killed, in the write of a journal included.
THEOREM MarkersBacked == Spec => []MarkersAreBacked
  <1>1. MInv => MarkersAreBacked
    BY DEF MInv
  <1>. QED
    BY <1>1, MarkersInit, MarkersNext, PTL DEF Spec

\* The public archive is always that of the public directory.
THEOREM ArchiveOfDirectory == Spec => []ArchiveIsOfDirectory
  <1>1. MInv => ArchiveIsOfDirectory
    BY DEF MInv
  <1>. QED
    BY <1>1, MarkersInit, MarkersNext, PTL DEF Spec

-----------------------------------------------------------------------------
(***************************************************************************)
(* Who holds a root, and what a resumption leaves.                         *)
(***************************************************************************)
\* A process takes one step of a call, or begins one.
LEMMA HeldAfter ==
  ASSUME TypeOK, HInv, NEW p \in Proc, NEW c \in Call, proc' = [proc EXCEPT ![p] = c],
         directory # None => directory' = directory,
         archive # None => archive' = archive,
         JournalHasRoot', ArchiveStagingHasRoot',
         \A q \in Proc \ {p} : Holding(proc[q]) => journal'[TxOf(proc[q])].exists,
         Holding(c) => /\ journal'[TxOf(c)].exists
                       /\ \A q \in Proc \ {p} : Holding(proc[q]) => TxOf(proc[q]) # TxOf(c),
         Running(c) => \/ Running(proc[p]) /\ c.op = proc[p].op
                       \/ c.op = "publish" /\ \A q \in Proc : Running(proc[q]) => proc[q].op = "publish"
                       \/ \A q \in Proc : ~Running(proc[q]),
         c.step \in ResumeSteps => c.op = "resume",
         \A q \in Proc \ {p} : proc[q].step \in {"rmEntries", "rmRoot"} /\ ArchOf(proc[q]) \in staging'
                                  => ArchOf(proc[q]) \in staging,
         c.step \in {"rmEntries", "rmRoot"} => ArchOf(c) \notin staging',
         ~Running(proc[p]) => UNCHANGED private,
         Running(c) /\ c.op = "resume" /\ c.step \notin {"inspect", "finally"} => Knows(c, staging', tmp', Roots'),
         c.step = "returned" /\ c.op = "resume"
            => Running(proc[p]) /\ proc[p].op = "resume" /\ directory' # None /\ archive' # None /\ NothingPrivate',
         directory # None /\ archive # None /\ NothingPrivate /\ (Running(proc[p]) => Reads(proc[p]))
            => NothingPrivate' /\ (Running(c) => Reads(c))
  PROVE  HInv'
  <1>0. proc'[p] = c /\ \A q \in Proc \ {p} : proc'[q] = proc[q]
    BY DEF TypeOK
  <1>1. RootIsHeld'
    <2>. SUFFICES ASSUME NEW q \in Proc, Holding(proc'[q])
                  PROVE  /\ journal'[TxOf(proc'[q])].exists
                         /\ \A r \in Proc : Holding(proc'[r]) /\ r # q => TxOf(proc'[r]) # TxOf(proc'[q])
      BY DEF RootIsHeld, Holding, TxOf
    <2>1. CASE q = p
      BY <1>0, <2>1
    <2>2. CASE q # p
      <3>1. \A r \in Proc : Holding(proc[r]) /\ r # q => TxOf(proc[r]) # TxOf(proc[q])
        BY <1>0, <2>2 DEF HInv, RootIsHeld
      <3>2. \A r \in Proc : Holding(proc'[r]) /\ r # q => TxOf(proc'[r]) # TxOf(proc'[q])
        BY <1>0, <2>2, <3>1
      <3>. QED
        BY <1>0, <2>2, <3>2
    <2>. QED
      BY <2>1, <2>2
  <1>2. ResumesAlone'
    <2>. SUFFICES ASSUME NEW q \in Proc, Running(proc'[q]), proc'[q].op = "resume",
                         NEW r \in Proc, Running(proc'[r])
                  PROVE  r = q
      BY DEF ResumesAlone, Running
    <2>1. CASE q # p /\ r # p
      BY <1>0, <2>1 DEF HInv, ResumesAlone
    <2>2. CASE q = p /\ r # p
      BY <1>0, <2>2 DEF HInv, ResumesAlone
    <2>3. CASE q # p /\ r = p
      BY <1>0, <2>3 DEF HInv, ResumesAlone
    <2>. QED
      BY <2>1, <2>2, <2>3
  <1>3. StepsOfOperations'
    BY <1>0 DEF HInv, StepsOfOperations
  <1>4. StagingIsRemoved'
    <2>. SUFFICES ASSUME NEW q \in Proc, proc'[q].step \in {"rmEntries", "rmRoot"}
                  PROVE  ArchOf(proc'[q]) \notin staging'
      BY DEF StagingIsRemoved, ArchOf
    <2>1. CASE q = p
      BY <1>0, <2>1
    <2>2. CASE q # p
      BY <1>0, <2>2 DEF HInv, StagingIsRemoved
    <2>. QED
      BY <2>1, <2>2
  <1>5. KnowsItsState'
    <2>. SUFFICES ASSUME NEW q \in Proc, Running(proc'[q]), proc'[q].op = "resume",
                         proc'[q].step \notin {"inspect", "finally"}
                  PROVE  /\ ~tmp'
                         /\ staging' \subseteq {DirOf(proc'[q]), ArchOf(proc'[q])}
                         /\ Roots' \subseteq {TxOf(proc'[q])}
                         /\ proc'[q].step \in {"noArchive", "decide"} /\ Roots' = {} => staging' = {}
                         /\ proc'[q].step \in {"rmArchStaging", "rmEntries", "rmRoot"}
                               => DirOf(proc'[q]) \notin staging'
      BY DEF KnowsItsState, Knows, Running, DirOf, ArchOf, TxOf
    <2>1. CASE q = p
      BY <1>0, <2>1 DEF Knows, DirOf, ArchOf, TxOf
    <2>2. CASE q # p
      <3>1. Running(proc[q]) /\ proc[q].op = "resume" /\ proc[q] = proc'[q]
        BY <1>0, <2>2
      <3>2. ~Running(proc[p])
        BY <2>2, <3>1 DEF HInv, ResumesAlone
      <3>3. UNCHANGED <<tmp, staging, Roots>>
        BY <3>2 DEF private, Roots
      <3>. QED
        BY <3>1, <3>3 DEF HInv, KnowsItsState, Knows
    <2>. QED
      BY <2>1, <2>2
  <1>6. Settled'
    <2>. SUFFICES ASSUME NEW r \in Proc, proc'[r].step = "returned", proc'[r].op = "resume"
                  PROVE  /\ directory' # None /\ archive' # None /\ NothingPrivate'
                         /\ \A q \in Proc : Running(proc'[q]) => Reads(proc'[q])
      BY DEF Settled, Reads, Running
    <2>1. CASE r = p
      <3>1. ~Running(c)
        BY <1>0, <2>1 DEF Running, Ended
      <3>2. ASSUME NEW q \in Proc, Running(proc'[q])
            PROVE  Reads(proc'[q])
        <4>1. q # p /\ Running(proc[q])
          BY <1>0, <3>1, <3>2
        <4>2. Running(proc[p]) /\ proc[p].op = "resume"
          BY <1>0, <2>1
        <4>. QED
          BY <4>1, <4>2 DEF HInv, ResumesAlone
      <3>. QED
        BY <1>0, <2>1, <3>2
    <2>2. CASE r # p
      <3>1. /\ directory # None /\ archive # None /\ NothingPrivate
            /\ \A q \in Proc : Running(proc[q]) => Reads(proc[q])
        BY <1>0, <2>2 DEF HInv, Settled
      <3>2. NothingPrivate' /\ (Running(c) => Reads(c))
        BY <3>1
      <3>3. \A q \in Proc : Running(proc'[q]) => Reads(proc'[q])
        BY <1>0, <3>1, <3>2
      <3>. QED
        BY <3>1, <3>2, <3>3
    <2>. QED
      BY <2>1, <2>2
  <1>. QED
    BY <1>1, <1>2, <1>3, <1>4, <1>5, <1>6 DEF HInv

\* A step that keeps every root and adds no staging directory.
LEMMA HeldMove ==
  ASSUME TypeOK, TypeOK', HInv, NEW p \in Proc, NEW c \in Call, proc' = [proc EXCEPT ![p] = c],
         Running(proc[p]),
         c.h = proc[p].h, c.kind = proc[p].kind, c.op = proc[p].op,
         directory # None => directory' = directory,
         archive # None => archive' = archive,
         \A t \in Handoff \X Kind : journal'[t].exists = journal[t].exists,
         \A t \in Handoff \X Kind : ~journal[t].exists => journal'[t] = journal[t],
         staging' \subseteq staging,
         tmp' => tmp \/ (c.op = "publish" /\ ~Reads(proc[p])),
         Holding(c) => Holding(proc[p]) \/ (c.op = "resume" /\ journal[TxOf(c)].exists),
         c.step \in ResumeSteps => c.op = "resume",
         c.step \in {"rmEntries", "rmRoot"} => ArchOf(c) \notin staging',
         c.op = "resume" /\ Running(c) /\ c.step # "finally" =>
            /\ proc[p].step \notin {"inspect", "finally"}
            /\ c.step \in {"noArchive", "decide"} /\ Roots = {} => staging' = {}
            /\ c.step \in {"rmArchStaging", "rmEntries", "rmRoot"} => DirOf(c) \notin staging',
         c.step = "returned" => c.op # "resume",
         directory # None /\ archive # None /\ NothingPrivate /\ Reads(proc[p]) /\ Running(c)
            => Reads(c)
  PROVE  HInv'
  <1>0. Roots' = Roots
    BY DEF Roots, TypeOK
  <1>1. JournalHasRoot'
    BY DEF HInv, JournalHasRoot
  <1>2. ArchiveStagingHasRoot'
    <2>1. \A h \in Handoff, k \in Kind : journal'[<<h, k>>].exists = journal[<<h, k>>].exists
      OBVIOUS
    <2>. QED
      BY <2>1 DEF HInv, ArchiveStagingHasRoot, Kind
  <1>3. \A q \in Proc : TxOf(proc[q]) \in Handoff \X Kind
    BY TxType DEF TypeOK, TxOf
  <1>4. \A q \in Proc \ {p} : Holding(proc[q]) => journal'[TxOf(proc[q])].exists
    BY <1>3 DEF HInv, RootIsHeld
  <1>5. TxOf(c) = TxOf(proc[p]) /\ ArchOf(c) = ArchOf(proc[p]) /\ DirOf(c) = DirOf(proc[p])
    BY DEF TxOf, ArchOf, DirOf
  <1>6. \A q \in Proc \ {p} : Holding(proc[q]) => Running(proc[q])
    BY DEF Holding, Running, Ended, DirectorySteps, ArchiveSteps, CleanupSteps
  <1>7. Holding(c) => /\ journal'[TxOf(c)].exists
                      /\ \A q \in Proc \ {p} : Holding(proc[q]) => TxOf(proc[q]) # TxOf(c)
    <2>1. CASE Holding(proc[p])
      BY <1>3, <1>5, <2>1 DEF HInv, RootIsHeld
    <2>2. CASE c.op = "resume" /\ journal[TxOf(c)].exists
      BY <1>3, <1>5, <1>6, <2>2 DEF HInv, ResumesAlone
    <2>. QED
      BY <2>1, <2>2
  <1>8. Running(c) /\ c.op = "resume" /\ c.step \notin {"inspect", "finally"} => Knows(c, staging', tmp', Roots')
    <2>. SUFFICES ASSUME Running(c), c.op = "resume", c.step \notin {"inspect", "finally"}
                  PROVE  /\ ~tmp' /\ staging' \subseteq {DirOf(c), ArchOf(c)} /\ Roots' \subseteq {TxOf(c)}
                         /\ c.step \in {"noArchive", "decide"} /\ Roots' = {} => staging' = {}
                         /\ c.step \in {"rmArchStaging", "rmEntries", "rmRoot"} => DirOf(c) \notin staging'
      BY DEF Knows, DirOf, ArchOf, TxOf
    <2>1. Knows(proc[p], staging, tmp, Roots)
      BY DEF HInv, KnowsItsState
    <2>. QED
      BY <1>0, <1>5, <2>1 DEF Knows
  <1>9. ~(c.step = "returned" /\ c.op = "resume")
    OBVIOUS
  <1>13. ~Running(proc[p]) => UNCHANGED private
    OBVIOUS
  <1>12. Running(c) => \/ Running(proc[p]) /\ c.op = proc[p].op
                       \/ c.op = "publish" /\ \A q \in Proc : Running(proc[q]) => proc[q].op = "publish"
                       \/ \A q \in Proc : ~Running(proc[q])
    OBVIOUS
  <1>10. directory # None /\ archive # None /\ NothingPrivate /\ (Running(proc[p]) => Reads(proc[p]))
            => NothingPrivate' /\ (Running(c) => Reads(c))
    BY <1>0 DEF NothingPrivate
  <1>11. \A q \in Proc \ {p} : proc[q].step \in {"rmEntries", "rmRoot"} /\ ArchOf(proc[q]) \in staging'
                                  => ArchOf(proc[q]) \in staging
    OBVIOUS
  <1>. QED
    BY <1>1, <1>2, <1>4, <1>7, <1>8, <1>9, <1>10, <1>11, <1>12, <1>13, HeldAfter

\* When only the step changes: where a process may go.
MayGo(p, s) ==
    /\ s \in Step /\ Goto(p, s) /\ Running(proc[p])
    /\ s \in DirectorySteps \cup ArchiveSteps \cup CleanupSteps \cup
             {"markDir", "newArch", "newOnly", "prepare", "intent", "again", "markArch"}
          => Holding(proc[p]) \/ (proc[p].op = "resume" /\ journal[TxOf(proc[p])].exists)
    /\ s = "noArchive" => Holding(proc[p])
    /\ s \in ResumeSteps => proc[p].op = "resume"
    /\ s \in {"rmEntries", "rmRoot"} => ArchOf(proc[p]) \notin staging'
    /\ proc[p].op = "resume" /\ s \notin Ended \cup {"finally"} =>
          /\ proc[p].step \notin {"inspect", "finally"}
          /\ s \in {"noArchive", "decide"} /\ Roots = {} => staging' = {}
          /\ s \in {"rmArchStaging", "rmEntries", "rmRoot"} => DirOf(proc[p]) \notin staging'
    /\ s = "returned" => proc[p].op # "resume"
    /\ directory # None /\ archive # None /\ NothingPrivate /\ Reads(proc[p])
          => \/ s \in Ended \cup {"stale", "target", "inspect", "finally"}
             \/ s \in {"noArchive", "decide"} /\ proc[p].kind = "only"

LEMMA HeldGoto ==
  ASSUME TypeOK, TypeOK', HInv, NEW p \in Proc, NEW s, MayGo(p, s),
         directory # None => directory' = directory,
         archive # None => archive' = archive,
         \A t \in Handoff \X Kind : journal'[t].exists = journal[t].exists,
         \A t \in Handoff \X Kind : ~journal[t].exists => journal'[t] = journal[t],
         staging' \subseteq staging,
         tmp' => tmp
  PROVE  HInv'
  <1>. DEFINE c == [proc[p] EXCEPT !.step = s]
  <1>1. /\ c \in Call /\ c.step = s /\ c.h = proc[p].h /\ c.kind = proc[p].kind /\ c.op = proc[p].op
        /\ TxOf(c) = TxOf(proc[p]) /\ ArchOf(c) = ArchOf(proc[p]) /\ DirOf(c) = DirOf(proc[p])
    BY DEF TypeOK, Call, TxOf, ArchOf, DirOf, MayGo
  <1>2. proc' = [proc EXCEPT ![p] = c]
    BY DEF Goto, TypeOK, Call, MayGo
  <1>. HIDE DEF c
  <1>3. Running(proc[p]) /\ (Running(c) <=> s \notin Ended)
    BY <1>1 DEF Running, MayGo
  <1>4. Holding(c) => Holding(proc[p]) \/ (c.op = "resume" /\ journal[TxOf(c)].exists)
    BY <1>1 DEF MayGo, Holding
  <1>5. directory # None /\ archive # None /\ NothingPrivate /\ Reads(proc[p]) /\ Running(c)
              => Reads(c)
    BY <1>1, <1>3 DEF MayGo, Reads
  <1>6. /\ c.step \in ResumeSteps => c.op = "resume"
        /\ c.step \in {"rmEntries", "rmRoot"} => ArchOf(c) \notin staging'
        /\ c.step = "returned" => c.op # "resume"
    BY <1>1 DEF MayGo
  <1>7. c.op = "resume" /\ Running(c) /\ c.step # "finally" =>
            /\ proc[p].step \notin {"inspect", "finally"}
            /\ c.step \in {"noArchive", "decide"} /\ Roots = {} => staging' = {}
            /\ c.step \in {"rmArchStaging", "rmEntries", "rmRoot"} => DirOf(c) \notin staging'
    BY <1>1, <1>3 DEF MayGo
  <1>. QED
    BY <1>1, <1>2, <1>3, <1>4, <1>5, <1>6, <1>7, HeldMove

LEMMA HeldRaise ==
  ASSUME TypeOK, TypeOK', HInv, NEW p \in Proc, NEW failing \in {"error", "interrupt"},
         Raise(p, failing), Running(proc[p]), UNCHANGED <<public, private>>
  PROVE  HInv'
  <1>. DEFINE s == FailTo(proc[p], failing)
  <1>. DEFINE c == [proc[p] EXCEPT !.step = s, !.failing = failing]
  <1>0. s \in Step /\ s \in {"unlockDir", "unlockArch", "unlinkTmp", "finally", "failed", "rmDirStaging"}
    BY FailToType, StepsTyped DEF TypeOK
  <1>1. c \in Call /\ c.step = s /\ c.h = proc[p].h /\ c.kind = proc[p].kind /\ c.op = proc[p].op
    BY <1>0 DEF TypeOK, Call
  <1>2. proc' = [proc EXCEPT ![p] = c]
    BY DEF Raise, TypeOK, Call
  <1>3. /\ \/ s \in {"finally", "failed"}
           \/ proc[p].step \in DirectorySteps \cup ArchiveSteps \cup CleanupSteps
        /\ s = "finally" => proc[p].op = "resume"
        /\ s = "rmDirStaging" => proc[p].op # "resume"
        /\ s \in {"unlockDir", "unlockArch"} => proc[p].step \in {"renameDir", "linkArch"}
        /\ s = "unlinkTmp" => proc[p].op = "publish"
    BY <1>0 DEF FailTo, Caught, Abort, DirectorySteps, ArchiveSteps
  <1>. HIDE DEF s
  <1>4. /\ Holding(c) => Holding(proc[p]) \/ (c.op = "resume" /\ journal[TxOf(c)].exists)
        /\ c.step \in ResumeSteps => c.op = "resume"
        /\ c.step \notin {"rmEntries", "rmRoot", "returned"}
    BY <1>0, <1>1, <1>3 DEF Holding, ResumeSteps, DirectorySteps, ArchiveSteps, CleanupSteps
  <1>5. directory # None /\ archive # None /\ NothingPrivate /\ Reads(proc[p]) /\ Running(c)
            => Reads(c)
    BY <1>0, <1>1, <1>3 DEF Reads, Running, Ended, DirectorySteps, ArchiveSteps, CleanupSteps
  <1>6. c.op = "resume" /\ Running(c) /\ c.step # "finally" =>
            /\ proc[p].step \notin {"inspect", "finally"}
            /\ c.step \in {"noArchive", "decide"} /\ Roots = {} => staging' = {}
            /\ c.step \in {"rmArchStaging", "rmEntries", "rmRoot"} => DirOf(c) \notin staging'
    BY <1>0, <1>1, <1>3 DEF Running, Ended
  <1>7. UNCHANGED <<directory, archive, staging, journal, tmp>>
    BY DEF public, private
  <1>. HIDE DEF c
  <1>. QED
    BY <1>1, <1>2, <1>4, <1>5, <1>6, <1>7, HeldMove

\* A process that takes a step has not ended, and the sets of steps are apart.
LEMMA PublishingHeld ==
  ASSUME MInv, TypeOK', HInv, NEW p \in Proc, Publishing(p)
  PROVE  HInv'
  <1>. USE DEF public, private, counts
  <1>. TypeOK
    BY DEF MInv
  <1>0. /\ proc[p] \in Call /\ Tx(p) = TxOf(proc[p]) /\ TxOf(proc[p]) \in Handoff \X Kind
        /\ DirStaging(p) = DirOf(proc[p]) /\ ArchStaging(p) = ArchOf(proc[p])
        /\ Holding(proc[p]) => journal[TxOf(proc[p])].exists
        /\ proc[p].step \in ResumeSteps => proc[p].op = "resume"
        /\ Holding(proc[p]) => Roots # {}
    <2>0. proc[p] \in Call /\ TxOf(proc[p]) \in Handoff \X Kind
      BY TxType DEF TypeOK, TxOf
    <2>1. /\ Tx(p) = TxOf(proc[p]) /\ DirStaging(p) = DirOf(proc[p])
          /\ ArchStaging(p) = ArchOf(proc[p])
          /\ Holding(proc[p]) => journal[TxOf(proc[p])].exists
          /\ proc[p].step \in ResumeSteps => proc[p].op = "resume"
      BY DEF Tx, TxOf, DirStaging, DirOf, ArchStaging, ArchOf, HInv, RootIsHeld, StepsOfOperations
    <2>2. journal[TxOf(proc[p])].exists => TxOf(proc[p]) \in Roots
      BY <2>0 DEF Roots, TypeOK
    <2>. QED
      BY <2>0, <2>1, <2>2
  <1>1. CASE RejectStale(p) \/ RejectTarget(p)
    <2>1. UNCHANGED <<directory, archive, private>>
      BY <1>1 DEF RejectStale, RejectTarget
    <2>2. PICK s \in {"refused", "target", "stage"} :
             /\ Goto(p, s) /\ proc[p].step \in {"stale", "target"}
             /\ s = "stage" => directory = None
      BY <1>1 DEF RejectStale, RejectTarget, At
    <2>3. MayGo(p, s)
      BY <2>2 DEF MayGo, Holding, Reads, Running, Ended, DirectorySteps, ArchiveSteps, ResumeSteps, CleanupSteps, Step
    <2>. QED
      BY <2>1, <2>3, HeldGoto
  <1>2. CASE WriteJournal(p)
    <2>. DEFINE w == Writes[proc[p].step]
    <2>1. UNCHANGED <<directory, archive, staging, tmp>> /\ proc[p].step \in DOMAIN Writes /\ Goto(p, w.then)
      BY <1>2 DEF WriteJournal
    <2>2. w.file \in {"dir", "arch"}
      BY <2>1, WritesOfStep
    <2>3. /\ Holding(proc[p]) /\ Running(proc[p]) /\ ~Reads(proc[p])
          /\ proc[p].step \notin {"inspect", "finally"}
      BY <2>1 DEF Writes, Holding, Reads, Running, Ended, DirectorySteps, ArchiveSteps
    <2>9. /\ w.then \in ResumeSteps => proc[p].step \in ResumeSteps
          /\ w.then \in Step
          /\ w.then \in DirectorySteps \cup ArchiveSteps \cup ResumeSteps \cup {"rmDirStaging"}
      <3>1. w.then \in DirectorySteps \cup ArchiveSteps \cup ResumeSteps \cup {"rmDirStaging"}
        BY <2>1, WritesOfStep
      <3>2. w.then \in ResumeSteps => proc[p].step \in ResumeSteps
        BY <2>1 DEF Writes, W, ResumeSteps
      <3>. QED
        BY <3>1, <3>2, StepsTyped
    <2>4. journal' = [journal EXCEPT ![Tx(p)] = [@ EXCEPT ![w.file] = w.state]]
      BY <1>2 DEF WriteJournal
    <2>. HIDE DEF w
    <2>5. MayGo(p, w.then)
      BY <1>0, <2>1, <2>3, <2>9 DEF MayGo, Ended, DirectorySteps, ArchiveSteps, ResumeSteps
    <2>6. journal[TxOf(proc[p])] \in Journal
      BY <1>0 DEF TypeOK
    <2>7. journal'[TxOf(proc[p])].exists = journal[TxOf(proc[p])].exists
      BY <1>0, <2>2, <2>4, <2>6 DEF TypeOK, Journal
    <2>8. \A t \in Handoff \X Kind : t # TxOf(proc[p]) => journal'[t] = journal[t]
      BY <1>0, <2>4 DEF TypeOK
    <2>. QED
      BY <1>0, <2>1, <2>3, <2>5, <2>7, <2>8, HeldGoto
  <1>3. CASE Lock(p) \/ RenameDirectory(p) \/ LinkArchive(p)
    <2>1. /\ proc[p].step \in {"lockDir", "lockArch", "renameDir", "linkArch"}
          /\ UNCHANGED <<staging, journal, tmp>>
          /\ directory # None => directory' = directory
          /\ archive # None => archive' = archive
      BY <1>3 DEF Lock, RenameDirectory, LinkArchive, At
    <2>2. CASE Raise(p, "error") /\ UNCHANGED <<public, private>>
      <3>1. Running(proc[p])
        BY <2>1 DEF Running, Ended
      <3>. QED
        BY <2>2, <3>1, HeldRaise
    <2>3. CASE ~(Raise(p, "error") /\ UNCHANGED <<public, private>>)
      <3>1. PICK s \in {"renameDir", "linkArch", "unlockDir", "unlockArch"} : Goto(p, s)
        BY <1>3, <2>3 DEF Lock, RenameDirectory, LinkArchive
      <3>2. MayGo(p, s)
        BY <2>1, <3>1 DEF MayGo, Holding, Reads, Running, Ended, DirectorySteps, ArchiveSteps, ResumeSteps, CleanupSteps, Step
      <3>. QED
        BY <2>1, <3>2, HeldGoto
    <2>. QED
      BY <2>2, <2>3
  <1>4. CASE Unlock(p)
    <2>1. UNCHANGED <<directory, archive, staging, journal, tmp>>
      BY <1>4 DEF Unlock
    <2>2. PICK s \in {"unlinkTmp", "dirPromoted", "archPromoted", "finally", "failed", "rmDirStaging"} :
             /\ Goto(p, s) /\ proc[p].step \in {"unlockDir", "unlockArch"}
             /\ s = "finally" => proc[p].op = "resume"
             /\ s = "rmDirStaging" => proc[p].op # "resume"
      BY <1>4 DEF Unlock, FailTo, Caught, Abort
    <2>3. MayGo(p, s)
      BY <2>2 DEF MayGo, Holding, Reads, Running, Ended, DirectorySteps, ArchiveSteps, ResumeSteps, CleanupSteps, Step
    <2>. QED
      BY <2>1, <2>3, HeldGoto
  <1>5. CASE BuildArchive(p)
    <2>. DEFINE c == [proc[p] EXCEPT !.step = "lockArch", !.built = TRUE]
    <2>1. /\ UNCHANGED <<directory, archive, staging, journal>> /\ At(p, "build")
          /\ tmp' = (tmp \/ proc[p].op = "publish")
      BY <1>5 DEF BuildArchive
    <2>2. /\ c \in Call /\ c.step = "lockArch" /\ c.h = proc[p].h /\ c.kind = proc[p].kind
          /\ c.op = proc[p].op
      BY <1>0 DEF Call, Step, ArchiveSteps
    <2>3. proc' = [proc EXCEPT ![p] = c]
      BY <1>5 DEF BuildArchive, TypeOK, Call
    <2>. HIDE DEF c
    <2>4. Running(proc[p]) /\ Holding(proc[p]) /\ ~Reads(proc[p])
      BY <2>1 DEF At, Running, Ended, Holding, ArchiveSteps, Reads
    <2>5. /\ c.step \notin ResumeSteps \cup {"rmEntries", "rmRoot", "returned", "noArchive", "decide"}
          /\ c.step # "rmArchStaging" /\ proc[p].step \notin {"inspect", "finally"}
      BY <2>1, <2>2 DEF ResumeSteps, At
    <2>6. tmp' => tmp \/ (c.op = "publish" /\ ~Reads(proc[p]))
      BY <2>1, <2>2, <2>4
    <2>. QED
      BY <2>1, <2>2, <2>3, <2>4, <2>5, <2>6, HeldMove
  <1>6. CASE UnlinkTmp(p)
    <2>1. UNCHANGED <<directory, archive, staging, journal>> /\ tmp' = FALSE
      BY <1>6 DEF UnlinkTmp
    <2>2. PICK s \in {"archPromoted", "failed", "rmDirStaging"} : Goto(p, s) /\ At(p, "unlinkTmp")
      BY <1>6 DEF UnlinkTmp, Abort
    <2>3. MayGo(p, s)
      BY <2>2 DEF MayGo, At, Holding, Reads, Running, Ended, DirectorySteps, ArchiveSteps, ResumeSteps, CleanupSteps, Step
    <2>. QED
      BY <2>1, <2>3, HeldGoto
  <1>7. CASE RemoveStaging(p)
    <2>1. UNCHANGED <<directory, archive, journal, tmp>>
      BY <1>7 DEF RemoveStaging
    <2>2. CASE At(p, "rmDirStaging")
      <3>1. staging' = staging \ {DirOf(proc[p])} /\ Goto(p, "rmArchStaging")
        BY <1>0, <1>7, <2>2 DEF RemoveStaging
      <3>2. MayGo(p, "rmArchStaging")
        BY <2>2, <3>1 DEF MayGo, At, Holding, Reads, Running, Ended, DirectorySteps, ArchiveSteps, ResumeSteps, CleanupSteps, Step
      <3>. QED
        BY <2>1, <3>1, <3>2, HeldGoto
    <2>3. CASE At(p, "rmArchStaging")
      <3>1. staging' = staging \ {ArchOf(proc[p])} /\ Goto(p, "rmEntries")
        BY <1>0, <1>7, <2>3 DEF RemoveStaging, At
      <3>2. proc[p].op = "resume" => DirOf(proc[p]) \notin staging
        BY <2>3 DEF HInv, KnowsItsState, Knows, At, Running, Ended
      <3>3. MayGo(p, "rmEntries")
        BY <2>3, <3>1, <3>2 DEF MayGo, At, Holding, Reads, Running, Ended, DirectorySteps, ArchiveSteps, ResumeSteps, CleanupSteps, Step
      <3>. QED
        BY <2>1, <3>1, <3>3, HeldGoto
    <2>. QED
      BY <1>7, <2>2, <2>3 DEF RemoveStaging, At
  <1>8. CASE CreateStaging(p)
    <2>1. CASE DirOf(proc[p]) \in staging
      <3>1. UNCHANGED <<directory, archive, private>> /\ Goto(p, "refused") /\ At(p, "stage")
        BY <1>0, <1>8, <2>1 DEF CreateStaging
      <3>2. MayGo(p, "refused")
        BY <3>1 DEF MayGo, At, Holding, Reads, Running, Ended, DirectorySteps, ArchiveSteps, ResumeSteps, CleanupSteps, Step
      <3>. QED
        BY <3>1, <3>2, HeldGoto
    <2>2. CASE DirOf(proc[p]) \notin staging
      <3>. DEFINE c == [proc[p] EXCEPT !.step = "root"]
      <3>1. /\ At(p, "stage") /\ UNCHANGED <<directory, archive, journal, tmp>>
            /\ staging' = staging \cup {DirOf(proc[p])} /\ Goto(p, "root")
        BY <1>0, <1>8, <2>2 DEF CreateStaging
      <3>2. /\ c \in Call /\ c.step = "root" /\ c.op = proc[p].op
            /\ TxOf(c) = TxOf(proc[p]) /\ ArchOf(c) = ArchOf(proc[p]) /\ DirOf(c) = DirOf(proc[p])
        BY <1>0, StepsTyped DEF Call, TxOf, ArchOf, DirOf
      <3>3. proc' = [proc EXCEPT ![p] = c]
        BY <3>1 DEF Goto, TypeOK, Call
      <3>. HIDE DEF c
      <3>4. Running(proc[p]) /\ ~Reads(proc[p]) /\ ~Holding(c) /\ c.step \notin ResumeSteps
        BY <3>1, <3>2 DEF At, Reads, Running, Ended, Holding, DirectorySteps, ArchiveSteps,
                          ResumeSteps, CleanupSteps
      <3>5. Roots' = Roots
        BY <3>1 DEF Roots
      <3>6. JournalHasRoot'
        BY <3>1 DEF HInv, JournalHasRoot
      <3>7. ArchiveStagingHasRoot'
        BY <3>1 DEF HInv, ArchiveStagingHasRoot, DirOf
      <3>8. \A q \in Proc \ {p} : Holding(proc[q]) => journal'[TxOf(proc[q])].exists
        BY <3>1 DEF HInv, RootIsHeld
      <3>9. \A q \in Proc \ {p} : ArchOf(proc[q]) \in staging' => ArchOf(proc[q]) \in staging
        BY <3>1 DEF ArchOf, DirOf
      <3>10. c.op = "resume" => Knows(c, staging', tmp', Roots')
        <4>. SUFFICES ASSUME c.op = "resume"
                      PROVE  ~tmp' /\ staging' \subseteq {DirOf(c), ArchOf(c)} /\ Roots' \subseteq {TxOf(c)}
          BY <3>2 DEF Knows, DirOf, ArchOf, TxOf
        <4>1. Knows(proc[p], staging, tmp, Roots)
          BY <3>1, <3>2, <3>4 DEF HInv, KnowsItsState, At
        <4>. QED
          BY <3>1, <3>2, <3>5, <4>1 DEF Knows
      <3>. QED
        BY <3>1, <3>2, <3>3, <3>4, <3>6, <3>7, <3>8, <3>9, <3>10, HeldAfter
    <2>. QED
      BY <2>1, <2>2
  <1>9. CASE CreateRoot(p)
    <2>0. proc[p].step \in {"root", "newRoot"} /\ Running(proc[p]) /\ ~Reads(proc[p])
      BY <1>9 DEF CreateRoot, Running, Ended, Reads
    <2>1. CASE journal[TxOf(proc[p])].exists
      <3>1. UNCHANGED <<directory, archive, private>> /\ Goto(p, "refused")
        BY <1>0, <1>9, <2>1 DEF CreateRoot
      <3>2. MayGo(p, "refused")
        BY <2>0, <3>1 DEF MayGo, At, Holding, Reads, Running, Ended, DirectorySteps, ArchiveSteps, ResumeSteps, CleanupSteps, Step
      <3>. QED
        BY <3>1, <3>2, HeldGoto
    <2>2. CASE ~journal[TxOf(proc[p])].exists
      <3>1. /\ UNCHANGED <<directory, archive, staging, tmp>>
            /\ journal' = [journal EXCEPT ![TxOf(proc[p])] = EmptyRoot]
        BY <1>0, <1>9, <2>2 DEF CreateRoot
      <3>2. PICK s \in {"dirOpen", "newOnly"} : Goto(p, s) /\ (s = "newOnly" => At(p, "newRoot"))
        BY <1>0, <1>9, <2>2 DEF CreateRoot, At
      <3>. DEFINE c == [proc[p] EXCEPT !.step = s]
      <3>3. /\ c \in Call /\ c.step = s /\ c.op = proc[p].op
            /\ TxOf(c) = TxOf(proc[p]) /\ ArchOf(c) = ArchOf(proc[p]) /\ DirOf(c) = DirOf(proc[p])
        BY <1>0 DEF Call, TxOf, ArchOf, DirOf, Step, DirectorySteps, ResumeSteps
      <3>4. proc' = [proc EXCEPT ![p] = c]
        BY <3>2 DEF Goto, TypeOK, Call
      <3>. HIDE DEF c
      <3>5. c.step \in ResumeSteps => c.op = "resume"
        BY <1>0, <3>2, <3>3 DEF At, ResumeSteps
      <3>6. /\ journal'[TxOf(c)].exists
            /\ \A t \in Handoff \X Kind : t # TxOf(c) => journal'[t] = journal[t]
        BY <1>0, <3>1, <3>3 DEF TypeOK, EmptyRoot, NoRoot
      <3>7. Roots' \subseteq Roots \cup {TxOf(c)}
        BY <3>6 DEF Roots, TypeOK
      <3>8. JournalHasRoot'
        BY <3>6 DEF HInv, JournalHasRoot
      <3>9. ArchiveStagingHasRoot'
        <4>1. \A h \in Handoff, k \in Kind : journal[<<h, k>>].exists => journal'[<<h, k>>].exists
          BY <3>6
        <4>. QED
          BY <3>1, <4>1 DEF HInv, ArchiveStagingHasRoot, Kind
      <3>10. \A q \in Proc \ {p} : Holding(proc[q]) => /\ journal'[TxOf(proc[q])].exists
                                                       /\ TxOf(proc[q]) # TxOf(c)
        <4>1. \A q \in Proc : TxOf(proc[q]) \in Handoff \X Kind
          BY TxType DEF TypeOK, TxOf
        <4>. QED
          BY <2>2, <3>3, <3>6, <4>1 DEF HInv, RootIsHeld
      <3>11. c.op = "resume" => Knows(c, staging', tmp', Roots')
        <4>. SUFFICES ASSUME c.op = "resume"
                      PROVE  ~tmp' /\ staging' \subseteq {DirOf(c), ArchOf(c)} /\ Roots' \subseteq {TxOf(c)}
          BY <3>3 DEF Knows, DirOf, ArchOf, TxOf
        <4>1. Knows(proc[p], staging, tmp, Roots)
          BY <2>0, <3>3 DEF HInv, KnowsItsState
        <4>. QED
          BY <3>1, <3>3, <3>7, <4>1 DEF Knows
      <3>. QED
        BY <2>0, <3>1, <3>3, <3>4, <3>5, <3>6, <3>8, <3>9, <3>10, <3>11, HeldAfter
    <2>. QED
      BY <2>1, <2>2
  <1>10. CASE PrepareStaging(p)
    <2>0. /\ proc[p].step \in {"archStage", "prepare", "again"}
          /\ UNCHANGED <<directory, archive, journal, tmp>>
          /\ staging' = staging \cup {ArchOf(proc[p])}
      BY <1>0, <1>10 DEF PrepareStaging
    <2>1. PICK s \in {"intent", "archPromoting"} : Goto(p, s) /\ (s = "intent" => At(p, "prepare"))
      BY <1>10 DEF PrepareStaging
    <2>. DEFINE c == [proc[p] EXCEPT !.step = s]
    <2>2. /\ c \in Call /\ c.step = s /\ c.op = proc[p].op
          /\ TxOf(c) = TxOf(proc[p]) /\ ArchOf(c) = ArchOf(proc[p]) /\ DirOf(c) = DirOf(proc[p])
      BY <1>0 DEF Call, TxOf, ArchOf, DirOf, Step, ArchiveSteps, ResumeSteps
    <2>3. proc' = [proc EXCEPT ![p] = c]
      BY <2>1 DEF Goto, TypeOK, Call
    <2>. HIDE DEF c
    <2>4. Running(proc[p]) /\ ~Reads(proc[p]) /\ Holding(proc[p])
      BY <2>0 DEF Reads, Running, Ended, Holding, ArchiveSteps
    <2>5. c.step \in ResumeSteps => c.op = "resume"
      BY <1>0, <2>1, <2>2 DEF At, ResumeSteps
    <2>6. Roots' = Roots
      BY <2>0 DEF Roots
    <2>7. JournalHasRoot'
      BY <2>0 DEF HInv, JournalHasRoot
    <2>8. ArchiveStagingHasRoot'
      <3>1. /\ ArchOf(proc[p])[2] = "archive" => TxOf(proc[p]) = <<proc[p].h, "canonical">>
            /\ ArchOf(proc[p])[2] = "only" => TxOf(proc[p]) = <<proc[p].h, "only">>
        BY <1>0 DEF ArchOf, TxOf, Call, Kind
      <3>2. ArchOf(proc[p])[1] = proc[p].h /\ journal[TxOf(proc[p])].exists
        BY <1>0, <2>4 DEF ArchOf
      <3>. QED
        BY <2>0, <3>1, <3>2 DEF HInv, ArchiveStagingHasRoot, ArchOf
    <2>9. \A q \in Proc \ {p} : Holding(proc[q]) => /\ journal'[TxOf(proc[q])].exists
                                                    /\ TxOf(proc[q]) # TxOf(c)
      BY <2>0, <2>2, <2>4 DEF HInv, RootIsHeld
    <2>10. ASSUME NEW q \in Proc \ {p}, proc[q].step \in {"rmEntries", "rmRoot"}, ArchOf(proc[q]) \in staging'
           PROVE  ArchOf(proc[q]) \in staging
      <3>1. Holding(proc[q])
        BY <2>10 DEF Holding, CleanupSteps
      <3>2. proc[q] \in Call
        BY DEF TypeOK
      <3>3. ArchOf(proc[q]) # ArchOf(proc[p])
        BY <1>0, <2>2, <2>9, <3>1, <3>2 DEF ArchOf, TxOf, Call, Kind
      <3>. QED
        BY <2>0, <2>10, <3>3
    <2>11. c.op = "resume" => Knows(c, staging', tmp', Roots')
      <3>. SUFFICES ASSUME c.op = "resume"
                    PROVE  ~tmp' /\ staging' \subseteq {DirOf(c), ArchOf(c)} /\ Roots' \subseteq {TxOf(c)}
        BY <2>2 DEF Knows, DirOf, ArchOf, TxOf
      <3>1. Knows(proc[p], staging, tmp, Roots)
        BY <2>0, <2>2, <2>4 DEF HInv, KnowsItsState
      <3>. QED
        BY <2>0, <2>2, <2>6, <3>1 DEF Knows
    <2>12. journal'[TxOf(c)].exists
      BY <1>0, <2>0, <2>2, <2>4
    <2>. QED
      BY <2>0, <2>2, <2>3, <2>4, <2>5, <2>7, <2>8, <2>9, <2>10, <2>11, <2>12, HeldAfter
  <1>11. CASE RemoveEntries(p)
    <2>1. /\ At(p, "rmEntries") /\ UNCHANGED <<directory, archive, staging, tmp>>
          /\ Running(proc[p]) /\ ~Reads(proc[p]) /\ Holding(proc[p])
      BY <1>11 DEF RemoveEntries, At, Running, Ended, Reads, Holding, CleanupSteps
    <2>2. ArchOf(proc[p]) \notin staging /\ (proc[p].op = "resume" => DirOf(proc[p]) \notin staging)
      BY <2>1 DEF HInv, StagingIsRemoved, KnowsItsState, Knows, At
    <2>3. CASE Goto(p, "rmRoot") /\ UNCHANGED journal
      <3>1. MayGo(p, "rmRoot")
        BY <2>1, <2>2, <2>3 DEF MayGo, At, ResumeSteps, CleanupSteps, Step, Ended
      <3>. QED
        BY <2>1, <2>3, <3>1, HeldGoto
    <2>4. ASSUME UNCHANGED proc, NEW file \in {"dir", "arch"},
                 journal' = [journal EXCEPT ![Tx(p)] = [@ EXCEPT ![file] = None]]
          PROVE  HInv'
      <3>1. proc' = [proc EXCEPT ![p] = proc[p]]
        BY <2>4 DEF TypeOK
      <3>2. journal[TxOf(proc[p])] \in Journal
        BY <1>0 DEF TypeOK
      <3>3. journal'[TxOf(proc[p])].exists = journal[TxOf(proc[p])].exists
        BY <1>0, <2>4, <3>2 DEF TypeOK, Journal
      <3>4. \A t \in Handoff \X Kind : t # TxOf(proc[p]) => journal'[t] = journal[t]
        BY <1>0, <2>4 DEF TypeOK
      <3>5. proc[p].step \notin ResumeSteps \cup {"returned"}
        BY <2>1 DEF At, ResumeSteps
      <3>. QED
        BY <1>0, <2>1, <2>2, <3>1, <3>3, <3>4, <3>5, HeldMove DEF At
    <2>. QED
      BY <1>11, <2>3, <2>4 DEF RemoveEntries
  <1>12. CASE RemoveRoot(p)
    <2>1. /\ At(p, "rmRoot") /\ UNCHANGED <<directory, archive, staging, tmp>>
          /\ Running(proc[p]) /\ ~Reads(proc[p]) /\ Holding(proc[p])
          /\ journal' = [journal EXCEPT ![TxOf(proc[p])] = NoRoot]
      BY <1>0, <1>12 DEF RemoveRoot, At, Running, Ended, Reads, Holding, CleanupSteps
    <2>2. PICK s \in {"returned", "failed"} : Goto(p, s) /\ (s = "returned" => proc[p].failing = "no")
      BY <1>12 DEF RemoveRoot
    <2>3. ArchOf(proc[p]) \notin staging
      BY <2>1 DEF HInv, StagingIsRemoved, At
    <2>. DEFINE c == [proc[p] EXCEPT !.step = s]
    <2>4. c \in Call /\ c.step = s /\ c.op = proc[p].op
      BY <1>0, StepsTyped DEF Call
    <2>5. proc' = [proc EXCEPT ![p] = c]
      BY <2>2 DEF Goto, TypeOK, Call
    <2>. HIDE DEF c
    <2>6. ~Running(c) /\ ~Holding(c) /\ c.step \notin ResumeSteps \cup {"rmEntries", "rmRoot"}
      BY <2>4 DEF Running, Ended, Holding, DirectorySteps, ArchiveSteps, ResumeSteps, CleanupSteps
    <2>7. /\ journal'[TxOf(proc[p])] = NoRoot
          /\ \A t \in Handoff \X Kind : t # TxOf(proc[p]) => journal'[t] = journal[t]
      BY <1>0, <2>1 DEF TypeOK
    <2>8. \A t \in Roots' : t \in Roots /\ t # TxOf(proc[p])
      BY <2>1, <2>7 DEF Roots, TypeOK, NoRoot
    <2>9. JournalHasRoot'
      BY <2>7 DEF HInv, JournalHasRoot
    <2>10. ArchiveStagingHasRoot'
      <3>1. ASSUME NEW h \in Handoff, NEW k \in Kind, NEW r, r = IF k = "only" THEN "only" ELSE "archive",
                   <<h, r>> \in staging, journal[<<h, k>>].exists
            PROVE  journal'[<<h, k>>].exists
        <4>1. <<h, k>> # TxOf(proc[p])
          BY <2>3, <3>1 DEF ArchOf, TxOf
        <4>. QED
          BY <2>7, <3>1, <4>1
      <3>. QED
        BY <2>1, <3>1 DEF HInv, ArchiveStagingHasRoot, Kind
    <2>11. \A q \in Proc \ {p} : Holding(proc[q]) => journal'[TxOf(proc[q])].exists
      <3>1. \A q \in Proc : TxOf(proc[q]) \in Handoff \X Kind
        BY TxType DEF TypeOK, TxOf
      <3>. QED
        BY <2>1, <2>7, <3>1 DEF HInv, RootIsHeld
    <2>12. c.step = "returned" /\ c.op = "resume"
             => /\ Running(proc[p]) /\ proc[p].op = "resume" /\ directory' # None /\ archive' # None
                /\ NothingPrivate'
      <3>. SUFFICES ASSUME c.step = "returned", c.op = "resume"
                    PROVE  /\ Running(proc[p]) /\ proc[p].op = "resume" /\ directory' # None
                           /\ archive' # None /\ NothingPrivate'
        OBVIOUS
      <3>1. ArchiveIsPublic(proc[p].step, proc[p].failing)
        BY <2>1, <2>2, <2>4 DEF ArchiveIsPublic, CleanupSteps, At
      <3>2. archive = proc[p].h /\ proc[p].h # None /\ directory = archive
        BY <1>0, <3>1, NoneAssumption DEF MInv, Visible, ArchiveIsOfDirectory, Call
      <3>3. Knows(proc[p], staging, tmp, Roots) /\ DirOf(proc[p]) \notin staging
        BY <2>1, <2>4 DEF HInv, KnowsItsState, Knows, At
      <3>4. staging' = {} /\ ~tmp' /\ Roots' = {}
        BY <2>1, <2>3, <2>8, <3>3 DEF Knows
      <3>. QED
        BY <2>1, <2>4, <3>2, <3>4 DEF NothingPrivate
    <2>. QED
      BY <2>1, <2>3, <2>4, <2>5, <2>6, <2>9, <2>10, <2>11, <2>12, HeldAfter
  <1>. QED
    BY <1>1, <1>2, <1>3, <1>4, <1>5, <1>6, <1>7, <1>8, <1>9, <1>10, <1>11, <1>12 DEF Publishing

LEMMA HeldInit == Init => HInv
  <1>. SUFFICES ASSUME Init PROVE HInv
    OBVIOUS
  <1>1. \A p \in Proc : proc[p].step = "idle"
    BY DEF Init, Idle
  <1>2. \A p \in Proc : ~Running(proc[p]) /\ ~Holding(proc[p])
    BY <1>1 DEF Running, Ended, Holding, DirectorySteps, ArchiveSteps, CleanupSteps
  <1>3. RootIsHeld /\ ResumesAlone /\ KnowsItsState
    BY <1>2 DEF RootIsHeld, ResumesAlone, KnowsItsState
  <1>4. StepsOfOperations /\ StagingIsRemoved /\ Settled
    BY <1>1 DEF StepsOfOperations, ResumeSteps, StagingIsRemoved, Settled
  <1>. QED
    BY <1>3, <1>4 DEF HInv, Init, JournalHasRoot, ArchiveStagingHasRoot

\* What a process knows of the roots once it has inspected them.
LEMMA OneRoot ==
  ASSUME TypeOK, Cardinality(Roots) <= 1, NEW a \in Roots, NEW b \in Roots
  PROVE  a = b
  <1>. SUFFICES ASSUME a # b PROVE FALSE
    OBVIOUS
  <1>1. IsFiniteSet(Kind)
    <2>1. IsFiniteSet({"canonical"} \cup {"only"})
      BY FS_Singleton, FS_AddElement
    <2>2. {"canonical"} \cup {"only"} = Kind
      BY DEF Kind
    <2>. QED
      BY <2>1, <2>2
  <1>2. Roots \subseteq Handoff \X Kind
    BY DEF Roots, TypeOK
  <1>3. IsFiniteSet(Roots) /\ Cardinality(Roots) \in Nat
    BY <1>1, <1>2, HandoffAssumption, FS_Product, FS_Subset, FS_CardinalityType
  <1>4. IsFiniteSet({a}) /\ Cardinality({a}) = 1
    BY FS_Singleton
  <1>5. Cardinality({a} \cup {b}) = 2
    BY <1>4, FS_AddElement
  <1>6. {a} \cup {b} \in SUBSET Roots
    OBVIOUS
  <1>7. Cardinality({a} \cup {b}) <= Cardinality(Roots)
    BY <1>3, <1>6, FS_Subset
  <1>. QED
    BY <1>3, <1>5, <1>7

LEMMA InspectHeld ==
  ASSUME MInv, TypeOK', HInv, NEW p \in Proc, Inspect(p)
  PROVE  HInv'
  <1>. DEFINE j == journal[<<directory, "canonical">>]
  <1>. DEFINE s == IF ~Inspectable THEN "refused" ELSE IF j.dir = "PROMOTING" THEN "markDir" ELSE "noArchive"
  <1>. DEFINE k == IF j.exists THEN "canonical" ELSE "only"
  <1>. DEFINE c == [proc[p] EXCEPT !.step = s, !.kind = k]
  <1>0. /\ TypeOK /\ At(p, "inspect") /\ UNCHANGED <<directory, archive, staging, journal, tmp>>
        /\ proc[p] \in Call
    BY DEF MInv, Inspect, TypeOK, public, private
  <1>1. proc[p].op = "resume" /\ Running(proc[p]) /\ Reads(proc[p]) /\ directory = proc[p].h
    <2>1. "inspect" \in ResumeSteps /\ DirectoryIsPublic("inspect", proc[p].failing)
      BY DEF ResumeSteps, DirectoryIsPublic
    <2>2. proc[p].op = "resume" /\ directory = proc[p].h
      BY <1>0, <2>1 DEF At, HInv, StepsOfOperations, MInv, Visible
    <2>3. Running(proc[p]) /\ Reads(proc[p])
      BY <1>0 DEF At, Running, Ended, Reads
    <2>. QED
      BY <2>2, <2>3
  <1>2. /\ c \in Call /\ c.step = s /\ c.kind = k /\ c.op = "resume" /\ c.h = directory
        /\ s \in {"refused", "markDir", "noArchive"} /\ k \in Kind
    BY <1>0, <1>1 DEF Call, Step, Ended, ResumeSteps, Kind
  <1>3. proc' = [proc EXCEPT ![p] = c]
    BY <1>0 DEF Inspect, TypeOK, Call
  <1>4. directory \in Handoff
    BY <1>0, <1>1 DEF Call
  <1>5. j.exists \in BOOLEAN /\ (~j.exists => j.dir = None)
    <2>1. <<directory, "canonical">> \in Handoff \X Kind
      BY <1>4 DEF Kind
    <2>. QED
      BY <1>0, <2>1 DEF TypeOK, Journal, HInv, JournalHasRoot, NoRoot
  <1>. HIDE DEF c
  <1>6. /\ s # "refused" => Inspectable
        /\ s = "markDir" => j.exists
        /\ k = "canonical" <=> j.exists
    BY <1>5 DEF None
  <1>7. Holding(c) => j.exists /\ TxOf(c) = <<directory, "canonical">>
    BY <1>2, <1>6 DEF Holding, TxOf, DirectorySteps, ArchiveSteps, CleanupSteps
  <1>8. \A q \in Proc \ {p} : ~Running(proc[q]) /\ ~Holding(proc[q])
    <2>1. \A q \in Proc \ {p} : ~Running(proc[q])
      BY <1>1 DEF HInv, ResumesAlone
    <2>2. \A q \in Proc : Holding(proc[q]) => Running(proc[q])
      BY DEF Holding, Running, Ended, DirectorySteps, ArchiveSteps, CleanupSteps
    <2>. QED
      BY <2>1, <2>2
  <1>9. Roots' = Roots /\ JournalHasRoot' /\ ArchiveStagingHasRoot'
    BY <1>0 DEF Roots, HInv, JournalHasRoot, ArchiveStagingHasRoot
  <1>10. Running(c) => Knows(c, staging', tmp', Roots')
    <2>. SUFFICES ASSUME Running(c)
                  PROVE  Knows(c, staging, tmp, Roots)
      BY <1>0, <1>9
    <2>1. Inspectable /\ c.step \in {"markDir", "noArchive"}
      BY <1>2, <1>6 DEF Running, Ended
    <2>2. /\ Cardinality(Roots) <= 1 /\ Roots \subseteq {directory} \X Kind /\ ~tmp
          /\ staging \subseteq {directory} \X Role /\ (Roots = {} => staging = {})
      BY <2>1 DEF Inspectable
    <2>3. \A r \in Kind : <<directory, r>> \in Roots <=> journal[<<directory, r>>].exists
      BY <1>0, <1>4 DEF Roots, TypeOK
    <2>4. ASSUME NEW r \in Kind, <<directory, r>> \in Roots
          PROVE  r = k
      <3>1. CASE j.exists
        <4>1. <<directory, "canonical">> \in Roots
          BY <2>3, <3>1 DEF Kind
        <4>2. <<directory, "canonical">> = <<directory, r>>
          BY <1>0, <2>2, <2>4, <4>1, OneRoot
        <4>. QED
          BY <1>6, <3>1, <4>2
      <3>2. CASE ~j.exists
        BY <1>2, <1>6, <2>3, <2>4, <3>2 DEF Kind
      <3>. QED
        BY <3>1, <3>2
    <2>5. Roots \subseteq {TxOf(c)}
      BY <1>2, <2>2, <2>4 DEF TxOf
    <2>6. staging \subseteq {DirOf(c), ArchOf(c)}
      <3>. SUFFICES ASSUME NEW d \in staging PROVE d \in {DirOf(c), ArchOf(c)}
        OBVIOUS
      <3>1. PICK r \in Role : d = <<directory, r>>
        BY <2>2
      <3>2. CASE r = "directory"
        BY <1>2, <3>1, <3>2 DEF DirOf
      <3>3. CASE r = "archive"
        <4>1. <<directory, "canonical">> \in Roots
          BY <1>4, <2>3, <3>1, <3>3 DEF HInv, ArchiveStagingHasRoot, Kind
        <4>2. k = "canonical"
          BY <2>4, <4>1 DEF Kind
        <4>. QED
          BY <1>2, <3>1, <3>3, <4>2 DEF ArchOf
      <3>4. CASE r = "only"
        <4>1. <<directory, "only">> \in Roots
          BY <1>4, <2>3, <3>1, <3>4 DEF HInv, ArchiveStagingHasRoot, Kind
        <4>2. k = "only"
          BY <2>4, <4>1 DEF Kind
        <4>. QED
          BY <1>2, <3>1, <3>4, <4>2 DEF ArchOf
      <3>. QED
        BY <3>2, <3>3, <3>4 DEF Role
    <2>. QED
      BY <2>1, <2>2, <2>5, <2>6 DEF Knows
  <1>11. NothingPrivate => NothingPrivate' /\ (Running(c) => Reads(c))
    <2>. SUFFICES ASSUME NothingPrivate PROVE NothingPrivate' /\ (Running(c) => Reads(c))
      OBVIOUS
    <2>1. ~j.exists
      <3>1. j.exists => <<directory, "canonical">> \in Roots
        BY <1>0, <1>4 DEF Roots, TypeOK, Kind
      <3>. QED
        BY <3>1 DEF NothingPrivate
    <2>. QED
      BY <1>0, <1>2, <1>6, <1>9, <2>1 DEF NothingPrivate, Reads, Running, Ended
  <1>12. /\ c.step \notin {"rmEntries", "rmRoot", "returned"}
         /\ Holding(c) => /\ journal'[TxOf(c)].exists
                          /\ \A q \in Proc \ {p} : Holding(proc[q]) => TxOf(proc[q]) # TxOf(c)
    BY <1>0, <1>2, <1>7, <1>8
  <1>. QED
    BY <1>0, <1>1, <1>2, <1>3, <1>8, <1>9, <1>10, <1>11, <1>12, HeldAfter

LEMMA DecideHeld ==
  ASSUME MInv, TypeOK', HInv, NEW p \in Proc, Decide(p)
  PROVE  HInv'
  <1>. DEFINE ok == ArchiveAcceptable(Tx(p), ArchStaging(p))
  <1>0. /\ TypeOK /\ At(p, "decide") /\ UNCHANGED <<directory, archive, staging, journal, tmp>>
        /\ proc[p] \in Call /\ Tx(p) = TxOf(proc[p]) /\ TxOf(proc[p]) \in Handoff \X Kind
        /\ journal[TxOf(proc[p])].exists => TxOf(proc[p]) \in Roots
    BY TxType DEF MInv, Decide, TypeOK, public, private, Tx, TxOf, Roots
  <1>1. proc[p].op = "resume" /\ Running(proc[p]) /\ directory = proc[p].h /\ directory # None
    <2>1. "decide" \in ResumeSteps /\ DirectoryIsPublic("decide", proc[p].failing)
      BY DEF ResumeSteps, DirectoryIsPublic
    <2>2. proc[p].op = "resume" /\ directory = proc[p].h
      BY <1>0, <2>1 DEF At, HInv, StepsOfOperations, MInv, Visible
    <2>3. Running(proc[p])
      BY <1>0 DEF At, Running, Ended
    <2>. QED
      BY <1>0, <2>2, <2>3, NoneAssumption DEF Call
  <1>2. Knows(proc[p], staging, tmp, Roots)
    BY <1>0, <1>1 DEF HInv, KnowsItsState, At
  <1>3. PICK s \in {"refused", "markArch", "returned", "newRoot", "prepare", "again"} :
           /\ Goto(p, s)
           /\ s \in {"markArch", "prepare", "again"} => journal[TxOf(proc[p])].exists
           /\ s = "returned" => ~journal[TxOf(proc[p])].exists
           /\ s \in {"newRoot", "prepare", "again"} => archive = None
           /\ s = "returned" => archive # None
    <2>. HIDE DEF ok
    <2>1. CASE ~ok
      BY <2>1 DEF Decide, ok
    <2>2. CASE ok /\ archive # None
      BY <1>0, <2>2 DEF Decide, ok
    <2>3. CASE ok /\ archive = None
      BY <1>0, <2>3 DEF Decide, ok
    <2>. QED
      BY <2>1, <2>2, <2>3
  <1>4. CASE s # "returned"
    <2>1. NothingPrivate => ~journal[TxOf(proc[p])].exists
      BY <1>0 DEF NothingPrivate
    <2>2. MayGo(p, s)
      BY <1>0, <1>1, <1>3, <1>4, <2>1 DEF MayGo, At, Ended, DirectorySteps, ArchiveSteps, ResumeSteps,
                                          CleanupSteps, Step
    <2>. QED
      BY <1>0, <2>2, HeldGoto
  <1>5. CASE s = "returned"
    <2>. DEFINE c == [proc[p] EXCEPT !.step = "returned"]
    <2>1. c \in Call /\ c.step = "returned" /\ c.op = "resume"
      BY <1>0, <1>1, StepsTyped DEF Call
    <2>2. proc' = [proc EXCEPT ![p] = c]
      BY <1>0, <1>3, <1>5 DEF Goto, TypeOK, Call
    <2>. HIDE DEF c
    <2>3. ~Running(c) /\ ~Holding(c) /\ c.step \notin ResumeSteps
      BY <2>1 DEF Running, Ended, Holding, DirectorySteps, ArchiveSteps, ResumeSteps, CleanupSteps
    <2>4. Roots = {}
      <3>1. TxOf(proc[p]) \notin Roots
        BY <1>3, <1>5 DEF Roots
      <3>. QED
        BY <1>2, <3>1 DEF Knows
    <2>5. NothingPrivate /\ Roots' = Roots
      BY <1>0, <1>2, <2>4 DEF Knows, NothingPrivate, At, Roots
    <2>6. NothingPrivate'
      BY <1>0, <2>5 DEF NothingPrivate
    <2>7. JournalHasRoot' /\ ArchiveStagingHasRoot'
      BY <1>0 DEF HInv, JournalHasRoot, ArchiveStagingHasRoot
    <2>8. \A q \in Proc \ {p} : Holding(proc[q]) => journal'[TxOf(proc[q])].exists
      BY <1>0 DEF HInv, RootIsHeld
    <2>. QED
      BY <1>0, <1>1, <1>3, <1>5, <2>1, <2>2, <2>3, <2>6, <2>7, <2>8, HeldAfter
  <1>. QED
    BY <1>4, <1>5

\* What the environment does to a process.
LEMMA EnvironmentHeld ==
  ASSUME MInv, TypeOK', HInv, NEW p \in Proc, Environment(p)
  PROVE  HInv'
  <1>. USE DEF public, private, counts
  <1>0. TypeOK /\ proc[p] \in Call
    BY DEF MInv, TypeOK
  <1>1. ASSUME Running(proc[p]), Goto(p, "killed") PROVE MayGo(p, "killed")
    BY <1>1, StepsTyped DEF MayGo, Step, Ended, DirectorySteps, ArchiveSteps, ResumeSteps, CleanupSteps
  <1>2. CASE Fails(p)
    <2>1. Running(proc[p])
      BY <1>2 DEF Fails, Fallible, Running, Ended, DirectorySteps, ArchiveSteps, ResumeSteps, CleanupSteps
    <2>. QED
      BY <1>0, <1>2, <2>1, HeldRaise DEF Fails
  <1>3. CASE Kill(p)
    <2>1. Running(proc[p]) /\ Goto(p, "killed") /\ UNCHANGED <<directory, archive, staging, journal, tmp>>
      BY <1>3 DEF Kill, Live, Running
    <2>. QED
      BY <1>0, <1>1, <2>1, HeldGoto
  <1>4. CASE KillInWrite(p)
    <2>. DEFINE w == Writes[proc[p].step]
    <2>1. /\ UNCHANGED <<directory, archive, staging, tmp>> /\ Goto(p, "killed")
          /\ proc[p].step \in DOMAIN Writes
      BY <1>4 DEF KillInWrite
    <2>2. w.file \in {"dir", "arch"}
      BY <2>1, WritesOfStep
    <2>3. Holding(proc[p]) /\ Running(proc[p])
      BY <2>1 DEF Writes, Holding, Running, Ended, DirectorySteps, ArchiveSteps
    <2>4. journal' = [journal EXCEPT ![Tx(p)] = [@ EXCEPT ![w.file] = "torn"]]
      BY <1>4 DEF KillInWrite
    <2>. HIDE DEF w
    <2>5. Tx(p) \in Handoff \X Kind /\ Tx(p) = TxOf(proc[p]) /\ journal[Tx(p)] \in Journal
      BY <1>0, TxType DEF Tx, TxOf, TypeOK
    <2>6. journal[Tx(p)].exists
      BY <2>3, <2>5 DEF HInv, RootIsHeld
    <2>7. journal'[Tx(p)].exists = journal[Tx(p)].exists
      BY <1>0, <2>2, <2>4, <2>5 DEF TypeOK, Journal
    <2>8. \A t \in Handoff \X Kind : t # Tx(p) => journal'[t] = journal[t]
      BY <1>0, <2>4, <2>5 DEF TypeOK
    <2>9. MayGo(p, "killed")
      BY <1>1, <2>1, <2>3
    <2>. QED
      BY <1>0, <2>1, <2>6, <2>7, <2>8, <2>9, HeldGoto
  <1>. QED
    BY <1>2, <1>3, <1>4 DEF Environment

LEMMA HeldNext ==
  ASSUME MInv, HInv, [Next]_vars
  PROVE  HInv'
  <1>. USE DEF public, private, counts
  <1>0. TypeOK /\ TypeOK'
    BY TypeNext DEF MInv
  <1>1. CASE UNCHANGED vars
    <2>1. UNCHANGED <<directory, archive, staging, journal, tmp, proc>> /\ Roots' = Roots
      BY <1>1 DEF vars, Roots
    <2>2. RootIsHeld' /\ ResumesAlone' /\ StepsOfOperations' /\ JournalHasRoot'
      BY <2>1 DEF HInv, RootIsHeld, ResumesAlone, StepsOfOperations, JournalHasRoot
    <2>3. StagingIsRemoved' /\ ArchiveStagingHasRoot' /\ KnowsItsState' /\ Settled'
      BY <2>1 DEF HInv, StagingIsRemoved, ArchiveStagingHasRoot, KnowsItsState, Settled, NothingPrivate
    <2>. QED
      BY <2>2, <2>3 DEF HInv
  <1>2. ASSUME NEW p \in Proc, NEW c \in Call,
               proc' = [proc EXCEPT ![p] = c], UNCHANGED <<public, private>>, ~Running(proc[p]),
               \/ /\ c.step = "stale" /\ c.op = "publish"
                  /\ \A q \in Proc : Running(proc[q]) => proc[q].op = "publish"
               \/ c.step = "inspect" /\ c.op = "resume" /\ \A q \in Proc : ~Running(proc[q])
        PROVE  HInv'
    <2>1. /\ ~Holding(c) /\ Reads(c) /\ c.step \notin {"rmEntries", "rmRoot", "returned"}
          /\ c.step \in ResumeSteps => c.op = "resume"
          /\ c.op = "resume" => c.step = "inspect"
      BY <1>2 DEF Holding, Reads, DirectorySteps, ArchiveSteps, ResumeSteps, CleanupSteps
    <2>2. UNCHANGED <<directory, archive, staging, journal, tmp, private>> /\ Roots' = Roots
      BY <1>2 DEF Roots
    <2>3. JournalHasRoot' /\ ArchiveStagingHasRoot' /\ (NothingPrivate => NothingPrivate')
      BY <2>2 DEF HInv, JournalHasRoot, ArchiveStagingHasRoot, NothingPrivate
    <2>4. \A q \in Proc \ {p} : Holding(proc[q]) => journal'[TxOf(proc[q])].exists
      BY <2>2 DEF HInv, RootIsHeld
    <2>. QED
      BY <1>0, <1>2, <2>1, <2>2, <2>3, <2>4, HeldAfter
  <1>3. ASSUME NEW p \in Proc, NEW h \in Handoff, Publish(p, h)
        PROVE  HInv'
    <2>. DEFINE c == [Idle(h) EXCEPT !.step = "stale"]
    <2>1. c \in Call /\ c.step = "stale" /\ c.op = "publish"
      BY StepsTyped DEF Idle, Call, Kind
    <2>2. /\ UNCHANGED <<public, private>> /\ proc' = [proc EXCEPT ![p] = c] /\ ~Running(proc[p])
          /\ \A q \in Proc : Running(proc[q]) => proc[q].op = "publish"
      BY <1>3 DEF Publish, Running, Live
    <2>. HIDE DEF c
    <2>. QED
      BY <1>2, <2>1, <2>2
  <1>4. ASSUME NEW p \in Proc, Resume(p)
        PROVE  HInv'
    <2>. DEFINE c == [Idle(directory) EXCEPT !.op = "resume", !.step = "inspect"]
    <2>1. directory \in Handoff /\ "inspect" \in Step
      BY <1>0, <1>4 DEF Resume, TypeOK, Step, ResumeSteps
    <2>2. c \in Call /\ c.step = "inspect" /\ c.op = "resume"
      BY <2>1 DEF Idle, Call, Kind
    <2>3. /\ UNCHANGED <<public, private>> /\ proc' = [proc EXCEPT ![p] = c]
          /\ \A q \in Proc : ~Running(proc[q])
      BY <1>4 DEF Resume, Running, Live
    <2>. HIDE DEF c
    <2>. QED
      BY <1>2, <2>2, <2>3
  <1>5. ASSUME NEW p \in Proc, NoArchive(p)
        PROVE  HInv'
    <2>1. /\ At(p, "noArchive") /\ UNCHANGED <<directory, archive, staging, journal, tmp>>
          /\ proc[p] \in Call /\ Running(proc[p]) /\ proc[p].op = "resume"
      BY <1>0, <1>5 DEF NoArchive, At, TypeOK, Running, Ended, HInv, StepsOfOperations, ResumeSteps
    <2>2. PICK s \in {"decide", "refused", "newArch"} :
             Goto(p, s) /\ (s = "newArch" => proc[p].kind # "only")
      BY <1>5 DEF NoArchive
    <2>3. Knows(proc[p], staging, tmp, Roots)
      BY <2>1 DEF HInv, KnowsItsState, At
    <2>4. Roots = {} => staging = {}
      BY <2>1, <2>3 DEF Knows, At
    <2>5. proc[p].kind # "only" => Holding(proc[p])
      BY <2>1 DEF At, Call, Kind, Holding
    <2>6. Holding(proc[p]) => Roots # {}
      BY <1>0, <2>1, TxType DEF HInv, RootIsHeld, Roots, TypeOK, TxOf
    <2>7. MayGo(p, s)
      BY <2>1, <2>2, <2>4, <2>5, <2>6 DEF MayGo, NothingPrivate, At, Ended, DirectorySteps, ArchiveSteps,
                                          ResumeSteps, CleanupSteps, Step
    <2>. QED
      BY <1>0, <2>1, <2>7, HeldGoto
  <1>6. ASSUME NEW p \in Proc, Finally(p)
        PROVE  HInv'
    <2>1. /\ At(p, "finally") /\ UNCHANGED <<directory, archive, journal, tmp>>
          /\ staging' \subseteq staging /\ Running(proc[p]) /\ Goto(p, "failed")
      BY <1>6 DEF Finally, At, Running, Ended
    <2>2. MayGo(p, "failed")
      BY <2>1, StepsTyped DEF MayGo, Ended, DirectorySteps, ArchiveSteps, ResumeSteps, CleanupSteps
    <2>. QED
      BY <1>0, <2>1, <2>2, HeldGoto
  <1>7. ASSUME NEW p \in Proc, Publishing(p) \/ Environment(p) \/ Inspect(p) \/ Decide(p)
        PROVE  HInv'
    BY <1>0, <1>7, PublishingHeld, EnvironmentHeld, InspectHeld, DecideHeld
  <1>. QED
    BY <1>1, <1>3, <1>4, <1>5, <1>6, <1>7 DEF Next, Terminated, Resuming

\* Archive staging is never without the journal root that names it: cleanup, failures
\* and kills of any number of publishers leave no private archive staging that the
\* discovery of private state would not find.
THEOREM StagingHasRoot == Spec => []ArchiveStagingHasRoot
  <1>1. Init => MInv /\ HInv
    BY MarkersInit, HeldInit
  <1>2. MInv /\ HInv /\ [Next]_vars => (MInv /\ HInv)'
    BY MarkersNext, HeldNext
  <1>3. MInv /\ HInv => ArchiveStagingHasRoot
    BY DEF HInv
  <1>. QED
    BY <1>1, <1>2, <1>3, PTL DEF Spec

\* A call returns only when directory and archive of its handoff are public, and a
\* resumption that returned leaves no private state of the output base; it stays so,
\* since the public target refuses every later publisher before it stages anything.
THEOREM ReturnsPublished == Spec => []ReturnMeansPublished
  <1>1. Init => MInv /\ HInv
    BY MarkersInit, HeldInit
  <1>2. MInv /\ HInv /\ [Next]_vars => (MInv /\ HInv)'
    BY MarkersNext, HeldNext
  <1>3. MInv /\ HInv => ReturnMeansPublished
    <2>. SUFFICES ASSUME MInv, HInv, NEW p \in Proc, At(p, "returned")
                  PROVE  /\ directory = proc[p].h /\ archive = proc[p].h
                         /\ proc[p].op = "resume" => staging = {} /\ ~tmp /\ Roots = {}
      BY DEF ReturnMeansPublished
    <2>1. ArchiveIsPublic(proc[p].step, proc[p].failing)
      BY DEF At, ArchiveIsPublic
    <2>2. archive = proc[p].h /\ proc[p].h # None
      BY <2>1, NoneAssumption DEF MInv, Visible, TypeOK, Call
    <2>3. directory = proc[p].h
      BY <2>2 DEF MInv, ArchiveIsOfDirectory
    <2>4. proc[p].op = "resume" => staging = {} /\ ~tmp /\ Roots = {}
      BY DEF HInv, Settled, NothingPrivate, At
    <2>. QED
      BY <2>2, <2>3, <2>4
  <1>. QED
    BY <1>1, <1>2, <1>3, PTL DEF Spec

\* No step of any call replaces or withdraws a public directory or a public archive:
\* publication is by operations that refuse an existing target.
THEOREM PublicKept == Spec => PublicStays
  <1>. DEFINE Kept == /\ directory # None => directory' = directory
                      /\ archive # None => archive' = archive
  <1>1. [Next]_vars => [Kept]_vars
    <2>. SUFFICES ASSUME [Next]_vars PROVE Kept
      OBVIOUS
    <2>. USE DEF public, private, counts
    <2>1. CASE UNCHANGED vars
      BY <2>1 DEF vars
    <2>2. ASSUME NEW p \in Proc, NEW h \in Handoff, Publish(p, h) PROVE Kept
      BY <2>2 DEF Publish
    <2>3. ASSUME NEW p \in Proc, Resume(p) \/ Resuming(p) \/ Environment(p) PROVE Kept
      BY <2>3 DEF Resume, Resuming, Inspect, NoArchive, Decide, Finally, Environment, Fails, Kill, KillInWrite
    <2>4. ASSUME NEW p \in Proc, Publishing(p) PROVE Kept
      BY <2>4 DEF Publishing, RejectStale, RejectTarget, CreateStaging, CreateRoot, WriteJournal, Lock,
                  RenameDirectory, LinkArchive, Unlock, PrepareStaging, BuildArchive, UnlinkTmp,
                  RemoveStaging, RemoveEntries, RemoveRoot
    <2>. QED
      BY <2>1, <2>2, <2>3, <2>4 DEF Next, Terminated
  <1>. QED
    BY <1>1, PTL DEF Spec, PublicStays
=============================================================================
