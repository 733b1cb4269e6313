------------------------ MODULE ImmutableBodyProofs ------------------------
(***************************************************************************)
(* Theorems about ImmutableBody, for every set of processes, transactions  *)
(* and bodies and every bound.                                             *)
(***************************************************************************)
EXTENDS ImmutableBody, FiniteSetTheorems, TLAPS

-----------------------------------------------------------------------------
(***************************************************************************)
(* Type correctness.                                                       *)
(***************************************************************************)
LEMMA IdleType == Idle \in Call
  BY TxAssumption DEF Idle, Call, Operation, Step, JournalState, BodyGenerating, Committed

\* A process that goes to another step keeps the type of its record.
LEMMA GotoType ==
  ASSUME TypeOK, NEW p \in Proc, NEW s \in Step, Goto(p, s)
  PROVE  proc' \in [Proc -> Call]
  BY DEF TypeOK, Goto, Call

LEMMA RaisedType ==
  ASSUME NEW p \in Proc
  PROVE  Raised(p) \in Step
  BY DEF Raised, Step

LEMMA ThenType ==
  ASSUME NEW op \in {"commit", "resumeManifest", "resumeInventory"}, NEW n
  PROVE  Then(op, n) \in Step
  BY DEF Then, CommitThen, ResumeManifestThen, ResumeInventoryThen, Step

-----------------------------------------------------------------------------
GInv == TypeOK /\ Doing

\* The actions that only move the process of a call to another step.
LEMMA MoveInv ==
  ASSUME GInv, NEW p \in Proc, NEW s \in {"scan", "unlock", "unlockOwned", "unstage", "quarantine", "release"},
         Goto(p, s),
         s = "release" => proc[p].op = "commit"
  PROVE  proc' \in [Proc -> Call] /\ Doing'
  <1>1. proc' \in [Proc -> Call]
    BY GotoType DEF GInv, Step
  <1>2. Doing'
    BY DEF GInv, Doing, TypeOK, Goto, Call
  <1>. QED
    BY <1>1, <1>2

LEMMA RaisedInv ==
  ASSUME GInv, NEW p \in Proc, Goto(p, Raised(p))
  PROVE  proc' \in [Proc -> Call] /\ Doing'
  <1>1. CASE proc[p].op = "commit"
    <2>1. Goto(p, "release")
      BY <1>1 DEF Raised
    <2>. QED
      BY <1>1, <2>1, MoveInv
  <1>2. CASE proc[p].op # "commit"
    <2>1. Goto(p, "quarantine")
      BY <1>2 DEF Raised
    <2>. QED
      BY <2>1, MoveInv
  <1>. QED
    BY <1>1, <1>2

LEMMA IdleInv ==
  ASSUME GInv, NEW p \in Proc, proc' = [proc EXCEPT ![p] = Idle]
  PROVE  proc' \in [Proc -> Call] /\ Doing'
  BY IdleType DEF GInv, TypeOK, Doing, Idle, Call

LEMMA WritingInv ==
  ASSUME GInv, NEW p \in Proc, Writing(p)
  PROVE  GInv'
  <1>. USE DEF GInv
  <1>0. proc[p] \in Call /\ proc[p].tx \in Tx
    BY DEF TypeOK, Call
  <1>1. CASE Reserve(p)
    <2>1. CASE lock[proc[p].tx] = "none"
      <3>1. proc' \in [Proc -> Call]
        BY <1>1, <2>1, GotoType DEF Reserve, Step
      <3>2. Doing'
        BY <1>1, <2>1 DEF Reserve, Doing, TypeOK, Goto, Call, At
      <3>. QED
        BY <1>0, <1>1, <2>1, <3>1, <3>2 DEF Reserve, TypeOK, public, counts
    <2>2. CASE lock[proc[p].tx] # "none"
      BY <1>1, <2>2, IdleInv DEF Reserve, TypeOK, public, counts
    <2>. QED
      BY <2>1, <2>2
  <1>2. CASE WriteOwner(p)
    <2>1. proc' \in [Proc -> Call]
      BY <1>2, GotoType DEF WriteOwner, Step
    <2>2. Doing'
      BY <1>2 DEF WriteOwner, Doing, TypeOK, Goto, Call, At
    <2>. QED
      BY <1>0, <1>2, <2>1, <2>2 DEF WriteOwner, TypeOK, public, counts
  <1>3. CASE OwnerFails(p)
    <2>1. errors' \in 0 .. MaxErrors
      BY <1>3, BoundsAssumption DEF OwnerFails, TypeOK
    <2>. QED
      BY <1>3, <2>1, IdleInv DEF OwnerFails, TypeOK, public, private
  <1>4. CASE MakeJournal(p)
    <2>1. proc' \in [Proc -> Call]
      BY <1>4, GotoType DEF MakeJournal, Step
    <2>2. Doing'
      BY <1>4 DEF MakeJournal, Doing, TypeOK, Goto, Call, At
    <2>. QED
      BY <1>0, <1>4, <2>1, <2>2 DEF MakeJournal, TypeOK, public, counts
  <1>5. CASE Receipt(p)
    <2>1. proc[p].op \in {"commit", "resumeManifest", "resumeInventory"}
      BY <1>5 DEF Receipt, Doing, At
    <2>2. /\ Then(proc[p].op, proc[p].next) \in Step
          /\ Then(proc[p].op, proc[p].next) \in {"stageManifest", "validate", "linkBody"}
               => proc[p].op = "commit"
          /\ Then(proc[p].op, proc[p].next) \in
                {"stageManifest", "validate", "linkBody", "linkManifest", "readInventory",
                 "unstage", "receipt", "scan"}
      BY <2>1 DEF Then, CommitThen, ResumeManifestThen, ResumeInventoryThen, Step
    <2>3. IF proc[p].next < Committed THEN proc[p].next + 1 \in JournalState
                                      ELSE proc[p].next \in JournalState
      BY <1>0 DEF Call, JournalState, BodyGenerating, Committed
    <2>4. proc' \in [Proc -> Call]
      <3>. DEFINE c == [proc[p] EXCEPT
                          !.step = Then(proc[p].op, proc[p].next),
                          !.next = IF proc[p].next < Committed THEN proc[p].next + 1
                                                               ELSE proc[p].next]
      <3>1. c \in Call
        BY <1>0, <2>2, <2>3 DEF Call
      <3>2. proc' = [proc EXCEPT ![p] = c]
        BY <1>5 DEF Receipt, TypeOK, Call
      <3>. QED
        BY <3>1, <3>2 DEF TypeOK
    <2>5. Doing'
      BY <1>5, <2>1, <2>2 DEF Receipt, TypeOK, Call, Doing
    <2>6. proc[p].next \in JournalState
      BY <1>0 DEF Call
    <2>. QED
      BY <1>0, <1>5, <2>4, <2>5, <2>6 DEF Receipt, TypeOK, public, counts
  <1>6. CASE StageManifest(p)
    <2>1. proc' \in [Proc -> Call]
      BY <1>6, GotoType DEF StageManifest, Step
    <2>2. Doing'
      BY <1>6 DEF StageManifest, Doing, TypeOK, Goto, Call, At
    <2>. QED
      BY <1>0, <1>6, <2>1, <2>2 DEF StageManifest, TypeOK, public, counts
  <1>7. CASE StageBody(p)
    <2>1. proc' \in [Proc -> Call]
      BY <1>7, GotoType DEF StageBody, Step
    <2>2. Doing'
      BY <1>7 DEF StageBody, Doing, TypeOK, Goto, Call, At
    <2>. QED
      BY <1>0, <1>7, <2>1, <2>2 DEF StageBody, TypeOK, public, counts
  <1>8. CASE ValidateBody(p)
    <2>1. proc' \in [Proc -> Call]
      BY <1>8, GotoType DEF ValidateBody, Step
    <2>2. Doing'
      BY <1>8 DEF ValidateBody, Doing, TypeOK, Goto, Call, At
    <2>. QED
      BY <1>0, <1>8, <2>1, <2>2 DEF ValidateBody, TypeOK, public, private, counts
  <1>9. CASE LinkBody(p)
    <2>1. proc' \in [Proc -> Call]
      BY <1>9, GotoType DEF LinkBody, Step
    <2>2. Doing'
      BY <1>9 DEF LinkBody, Doing, TypeOK, Goto, Call, At
    <2>. QED
      BY <1>0, <1>9, BodyOfAssumption, <2>1, <2>2 DEF LinkBody, TypeOK, private, counts
  <1>10. CASE LinkManifest(p)
    <2>1. proc' \in [Proc -> Call]
      BY <1>10, GotoType DEF LinkManifest, Step
    <2>2. Doing'
      BY <1>10 DEF LinkManifest, Doing, TypeOK, Goto, Call, At
    <2>. QED
      BY <1>0, <1>10, <2>1, <2>2 DEF LinkManifest, TypeOK, private, counts
  <1>11. CASE ReadInventory(p)
    <2>1. inventory \cup {proc[p].tx} \in SUBSET Tx
      BY <1>0 DEF TypeOK
    <2>2. proc' \in [Proc -> Call]
      <3>. DEFINE c == [proc[p] EXCEPT !.step = "replaceInventory", !.seen = inventory \cup {proc[p].tx}]
      <3>1. c \in Call
        BY <1>0, <2>1 DEF Call, Step
      <3>2. proc' = [proc EXCEPT ![p] = c]
        BY <1>11 DEF ReadInventory, TypeOK, Call
      <3>. QED
        BY <3>1, <3>2 DEF TypeOK
    <2>3. Doing'
      BY <1>11 DEF ReadInventory, Doing, TypeOK, Call, At
    <2>. QED
      BY <1>11, <2>2, <2>3 DEF ReadInventory, TypeOK, public, private, counts
  <1>14. CASE OpenPackage(p)
    <2>1. inventory \in SUBSET Tx
      BY <1>0 DEF TypeOK
    <2>2. proc' \in [Proc -> Call]
      <3>. DEFINE c == [proc[p] EXCEPT !.step = "package", !.seen = inventory]
      <3>1. c \in Call
        BY <1>0, <2>1 DEF Call, Step
      <3>2. proc' = [proc EXCEPT ![p] = c]
        BY <1>14 DEF OpenPackage, TypeOK, Call
      <3>. QED
        BY <3>1, <3>2 DEF TypeOK
    <2>3. Doing'
      BY <1>14 DEF OpenPackage, Doing, TypeOK, Call, At
    <2>. QED
      BY <1>14, <2>2, <2>3 DEF OpenPackage, TypeOK, public, private, counts
  <1>12. CASE ReplaceInventory(p)
    <2>1. proc' \in [Proc -> Call]
      BY <1>12, GotoType DEF ReplaceInventory, Step
    <2>2. Doing'
      BY <1>12 DEF ReplaceInventory, Doing, TypeOK, Goto, Call, At
    <2>. QED
      BY <1>0, <1>12, <2>1, <2>2 DEF ReplaceInventory, TypeOK, Call, private, counts
  <1>13. CASE CheckInventory(p)
    <2>1. proc' \in [Proc -> Call]
      BY <1>13, GotoType DEF CheckInventory, Step
    <2>2. Doing'
      BY <1>13 DEF CheckInventory, Doing, TypeOK, Goto, Call, At
    <2>. QED
      BY <1>0, <1>13, <2>1, <2>2 DEF CheckInventory, TypeOK, public, private, counts
  <1>15. CASE BuildPackage(p)
    <2>1. proc' \in [Proc -> Call] /\ Doing'
      <3>1. CASE proc[p].tx \in proc[p].seen
        <4>1. proc' \in [Proc -> Call]
          BY <1>15, <3>1, GotoType DEF BuildPackage, Step
        <4>2. Doing'
          BY <1>15, <3>1 DEF BuildPackage, Doing, TypeOK, Goto, Call, At
        <4>. QED
          BY <4>1, <4>2
      <3>2. CASE proc[p].tx \notin proc[p].seen
        BY <1>15, <3>2, RaisedInv DEF BuildPackage
      <3>. QED
        BY <3>1, <3>2
    <2>. QED
      BY <1>0, <1>15, <2>1 DEF BuildPackage, TypeOK, private, counts
  <1>16. CASE Conflict(p)
    BY <1>16, RaisedInv DEF Conflict, Raise, TypeOK, public, private, counts
  <1>17. CASE OperationFails(p)
    <2>1. errors' \in 0 .. MaxErrors
      BY <1>17, BoundsAssumption DEF OperationFails, TypeOK
    <2>. QED
      BY <1>17, <2>1, RaisedInv DEF OperationFails, TypeOK, public, private
  <1>18. CASE Unstage(p)
    <2>1. proc' \in [Proc -> Call] /\ Doing'
      <3>1. CASE UNCHANGED proc
        BY <3>1 DEF TypeOK, Doing
      <3>2. CASE Goto(p, IF proc[p].op = "commit" THEN "release" ELSE "scan")
        <4>1. CASE proc[p].op = "commit"
          BY <3>2, <4>1, MoveInv
        <4>2. CASE proc[p].op # "commit"
          BY <3>2, <4>2, MoveInv
        <4>. QED
          BY <4>1, <4>2
      <3>. QED
        BY <1>18, <3>1, <3>2 DEF Unstage
    <2>2. staged' \in [Tx -> SUBSET {"body.tmp", "manifest.tmp"}]
      BY <1>0, <1>18 DEF Unstage, TypeOK
    <2>. QED
      BY <1>18, <2>1, <2>2 DEF Unstage, TypeOK, public, counts
  <1>19. CASE Release(p)
    BY <1>0, <1>19, IdleInv DEF Release, TypeOK, public, counts
  <1>. QED
    BY <1>1, <1>2, <1>3, <1>4, <1>5, <1>6, <1>7, <1>8, <1>9, <1>10, <1>11, <1>12, <1>13,
       <1>14, <1>15, <1>16, <1>17, <1>18, <1>19 DEF Writing

\* A valid chain of receipts ends at a journal state.
LEMMA LastType ==
  ASSUME TypeOK, NEW t \in Tx
  PROVE  /\ Last(t) \in Nat
         /\ Valid(t) => Last(t) \in 0 .. Committed
  <1>1. receipts[t] \subseteq 1 .. 12
    BY DEF TypeOK, JournalState, BodyGenerating, Committed
  <1>2. Last(t) \in Nat
    <2>1. IsFiniteSet(1 .. 12)
      <3>1. 1 \in Int /\ 12 \in Int
        OBVIOUS
      <3>. QED
        BY <3>1, FS_Interval, Zenon
    <2>2. IsFiniteSet(receipts[t])
      BY <1>1, <2>1, FS_Subset
    <2>. QED
      BY <2>2, FS_CardinalityType DEF Last
  <1>3. ASSUME Valid(t) PROVE Last(t) \in 0 .. Committed
    <2>1. CASE Last(t) = 0
      BY <2>1 DEF Committed
    <2>2. CASE Last(t) # 0
      <3>1. Last(t) \in receipts[t]
        BY <1>2, <1>3, <2>2 DEF Valid
      <3>. QED
        BY <1>1, <3>1 DEF Committed
    <2>. QED
      BY <2>1, <2>2
  <1>. QED
    BY <1>2, <1>3

LEMMA DispositionType ==
  ASSUME TypeOK, NEW t \in Tx
  PROVE  Disposition(t) \in {"quarantine", "unlinkTmp", "unlinkTmpOwned", "unlinkBody"}
  <1>1. CASE ~Kept(t)
    BY <1>1 DEF Disposition
  <1>2. CASE Kept(t)
    <2>1. Last(t) \in 0 .. Committed
      BY <1>2, LastType DEF Kept
    <2>. QED
      BY <1>2, <2>1 DEF Disposition, BodyPromoted, Committed
  <1>. QED
    BY <1>1, <1>2

LEMMA RecoveringInv ==
  ASSUME GInv, NEW p \in Proc, Recovering(p)
  PROVE  GInv'
  <1>. USE DEF GInv
  <1>0. proc[p] \in Call /\ proc[p].tx \in Tx
    BY DEF TypeOK, Call
  <1>1. ASSUME NEW t \in Tx, Visit(p, t)
        PROVE  GInv'
    <2>1. Disposition(t) \in {"quarantine", "unlinkTmp", "unlinkTmpOwned", "unlinkBody"}
      BY DispositionType
    <2>2. proc' \in [Proc -> Call]
      BY <1>0, <1>1, <2>1 DEF Visit, TypeOK, Call, Step, Operation
    <2>3. Doing'
      BY <1>0, <1>1, <2>1 DEF Visit, TypeOK, Call, Doing
    <2>. QED
      BY <1>1, <2>2, <2>3 DEF Visit, TypeOK, public, private, counts
  <1>2. ASSUME NEW t \in Tx, Resume(p, t)
        PROVE  GInv'
    <2>1. Last(t) \in BodyPromoted .. Committed - 1
      BY <1>2 DEF Resume, Resumable
    <2>2. /\ Last(t) + 1 \in JournalState /\ InventoryCommitted \in JournalState
          /\ ResumeStep(Last(t)) \in {"linkManifest", "readInventory"}
      BY <2>1 DEF JournalState, BodyPromoted, BodyGenerating, InventoryCommitted, Committed,
                  ResumeStep
    <2>3. proc' \in [Proc -> Call]
      BY <1>0, <1>2, <2>2 DEF Resume, TypeOK, Call, Step, Operation
    <2>4. Doing'
      BY <1>0, <1>2, <2>2 DEF Resume, TypeOK, Call, Doing
    <2>. QED
      BY <1>2, <2>3, <2>4 DEF Resume, TypeOK, public, private, counts
  <1>3. CASE UnlinkBody(p)
    <2>1. Goto(p, "unlock")
      BY <1>3 DEF UnlinkBody
    <2>. QED
      BY <1>3, <2>1, MoveInv DEF UnlinkBody, TypeOK, private, counts
  <1>4. CASE UnlinkTmp(p)
    <2>1. proc' \in [Proc -> Call] /\ Doing'
      <3>1. CASE UNCHANGED proc
        BY <3>1 DEF TypeOK, Doing
      <3>2. CASE Goto(p, IF At(p, "unlinkTmp") THEN "unlock" ELSE "unlockOwned")
        <4>1. CASE At(p, "unlinkTmp")
          BY <3>2, <4>1, MoveInv
        <4>2. CASE ~At(p, "unlinkTmp")
          BY <3>2, <4>2, MoveInv
        <4>. QED
          BY <4>1, <4>2
      <3>. QED
        BY <1>4, <3>1, <3>2 DEF UnlinkTmp
    <2>2. staged' \in [Tx -> SUBSET {"body.tmp", "manifest.tmp"}]
      BY <1>0, <1>4 DEF UnlinkTmp, TypeOK
    <2>. QED
      BY <1>4, <2>1, <2>2 DEF UnlinkTmp, TypeOK, public, counts
  <1>5. CASE Unlock(p)
    <2>1. Goto(p, "scan")
      BY <1>5 DEF Unlock
    <2>. QED
      BY <1>0, <1>5, <2>1, MoveInv DEF Unlock, TypeOK, public, counts
  <1>6. CASE Quarantine(p)
    <2>1. proc' \in [Proc -> Call] /\ Doing'
      <3>1. Goto(p, "scan")
        BY <1>6 DEF Quarantine
      <3>. QED
        BY <3>1, MoveInv
    <2>2. /\ journals' \subseteq Tx /\ quarantined' \subseteq Tx
          /\ receipts' \in [Tx -> SUBSET JournalState]
          /\ staged' \in [Tx -> SUBSET {"body.tmp", "manifest.tmp"}]
      BY <1>0, <1>6 DEF Quarantine, TypeOK
    <2>. QED
      BY <1>6, <2>1, <2>2 DEF Quarantine, TypeOK, public, counts
  <1>7. CASE RecoverEnds(p)
    BY <1>7, IdleInv DEF RecoverEnds, TypeOK, public, private, counts
  <1>. QED
    BY <1>1, <1>2, <1>3, <1>4, <1>5, <1>6, <1>7 DEF Recovering

LEMMA NextInv == GInv /\ [Next]_vars => GInv'
  <1>. SUFFICES ASSUME GInv, [Next]_vars PROVE GInv'
    OBVIOUS
  <1>. USE DEF GInv
  <1>1. ASSUME NEW p \in Proc, NEW t \in Tx, Commit(p, t)
        PROVE  GInv'
    <2>1. proc' \in [Proc -> Call]
      <3>. DEFINE c == [Idle EXCEPT !.op = "commit", !.step = "reserve", !.tx = t]
      <3>1. c \in Call
        BY IdleType DEF Call, Operation, Step
      <3>. QED
        BY <1>1, <3>1 DEF Commit, TypeOK
    <2>2. Doing'
      BY <1>1, IdleType DEF Commit, TypeOK, Doing, Idle, Call
    <2>3. calls' \in 0 .. MaxCalls
      BY <1>1, BoundsAssumption DEF Commit, MayStart, TypeOK
    <2>4. beside' \in BOOLEAN
      BY <1>1 DEF Commit, MayStart
    <2>. QED
      BY <1>1, <2>1, <2>2, <2>3, <2>4 DEF Commit, TypeOK, public, private
  <1>2. ASSUME NEW p \in Proc, Recover(p)
        PROVE  GInv'
    <2>0. journals \in SUBSET Tx
      BY DEF TypeOK
    <2>1. proc' \in [Proc -> Call]
      <3>. DEFINE c == [Idle EXCEPT !.op = "recover", !.step = "scan", !.todo = journals]
      <3>1. c \in Call
        BY <2>0, IdleType DEF Call, Operation, Step
      <3>. QED
        BY <1>2, <3>1 DEF Recover, TypeOK
    <2>2. Doing'
      BY <1>2, IdleType DEF Recover, TypeOK, Doing, Idle, Call
    <2>3. calls' \in 0 .. MaxCalls
      BY <1>2, BoundsAssumption DEF Recover, MayStart, TypeOK
    <2>4. beside' \in BOOLEAN
      BY <1>2 DEF Recover, MayStart
    <2>. QED
      BY <1>2, <2>1, <2>2, <2>3, <2>4 DEF Recover, TypeOK, public, private
  <1>3. ASSUME NEW p \in Proc, Crash(p)
        PROVE  GInv'
    <2>1. crashes' \in 0 .. MaxCrashes
      BY <1>3, BoundsAssumption DEF Crash, TypeOK
    <2>. QED
      BY <1>3, <2>1, IdleInv DEF Crash, TypeOK, public, private
  <1>4. CASE UNCHANGED vars
    BY <1>4 DEF TypeOK, Doing, vars, public, private, counts
  <1>. QED
    BY <1>1, <1>2, <1>3, <1>4, WritingInv, RecoveringInv DEF Next, Terminated

LEMMA InitInv == Init => GInv
  <1>. SUFFICES ASSUME Init PROVE GInv
    OBVIOUS
  <1>1. proc \in [Proc -> Call] /\ Doing
    BY IdleType DEF Init, Doing, Idle, Call
  <1>2. beside \in BOOLEAN
    BY DEF Init
  <1>. QED
    BY <1>1, <1>2, BoundsAssumption DEF Init, GInv, TypeOK

\* Every reachable state is well typed: no call ever loses track of the journal
\* states, whatever is interrupted.
THEOREM TypeCorrect == Spec => []TypeOK
  <1>1. GInv => TypeOK
    BY DEF GInv
  <1>. QED
    BY <1>1, InitInv, NextInv, PTL DEF Spec

-----------------------------------------------------------------------------
(***************************************************************************)
(* A package never changes, with any number of writers and with recover()  *)
(* running beside them.                                                    *)
(***************************************************************************)
LEMMA PackageStep ==
  ASSUME [Next]_vars
  PROVE  \/ UNCHANGED package
         \/ \E p \in Proc : BuildPackage(p)
  <1>1. ASSUME NEW p \in Proc, Writing(p)
        PROVE  BuildPackage(p) \/ UNCHANGED package
    BY <1>1 DEF Writing, Reserve, WriteOwner, OwnerFails, MakeJournal, Receipt, StageManifest,
       StageBody, ValidateBody, LinkBody, LinkManifest, ReadInventory, ReplaceInventory,
       CheckInventory, OpenPackage, Conflict, Raise, OperationFails, Unstage, Release, public
  <1>2. ASSUME NEW p \in Proc, Recovering(p)
        PROVE  UNCHANGED package
    BY <1>2 DEF Recovering, Visit, Resume, UnlinkBody, UnlinkTmp, Unlock, Quarantine,
       RecoverEnds, public
  <1>3. ASSUME NEW p \in Proc, Crash(p) \/ Recover(p) \/ \E t \in Tx : Commit(p, t)
        PROVE  UNCHANGED package
    BY <1>3 DEF Crash, Recover, Commit, public
  <1>4. CASE UNCHANGED vars
    BY <1>4 DEF vars, public
  <1>. QED
    BY <1>1, <1>2, <1>3, <1>4 DEF Next, Terminated

\* No step of any writer or recovery replaces a package that exists, whether the
\* calls exclude each other or not.
THEOREM PackagesStay == Spec => PackageIsImmutable
  <1>1. ASSUME TypeOK, [Next]_vars
        PROVE  [\A t \in Tx : package[t] # {} => package'[t] = package[t]]_vars
    <2>1. ASSUME NEW p \in Proc, BuildPackage(p), NEW t \in Tx, package[t] # {}
          PROVE  package'[t] = package[t]
      BY <1>1, <2>1 DEF BuildPackage, Packable, TypeOK
    <2>. QED
      BY <1>1, <2>1, PackageStep
  <1>. QED
    BY <1>1, TypeCorrect, PTL DEF Spec, PackageIsImmutable

-----------------------------------------------------------------------------
(***************************************************************************)
(* One process at a time: what the receipts and the inventory promise is   *)
(* there.                                                                  *)
(***************************************************************************)
Backed == ManifestStaged /\ ReceiptsAreBacked /\ InventoryBacked
SInv   == GInv /\ Alone /\ Ready /\ Restartable /\ ReceiptsAreBacked /\ InventoryBacked
Mine(p) == ReadyAt(p) /\ RestartableAt(p)
files  == <<bodies, manifests, inventory, receipts, staged>>

Calm == {"idle", "scan", "release", "quarantine", "unlock", "unlockOwned"}

\* Nothing is promised at these steps.
LEMMA CalmMine ==
  ASSUME NEW p \in Proc, proc[p].step \in Calm
  PROVE  Mine(p)
  BY DEF Calm, Mine, ReadyAt, RestartableAt

LEMMA CalmMineNext ==
  ASSUME NEW p \in Proc, (proc[p].step)' \in Calm
  PROVE  Mine(p)'
  BY DEF Calm, Mine, ReadyAt, RestartableAt

\* A step of the only live process: the others stay idle.
LEMMA OnlyStep ==
  ASSUME SInv, GInv', NEW p \in Live,
         \A q \in Proc : q # p => proc'[q] = proc[q],
         Mine(p)', Backed'
  PROVE  SInv'
  <1>1. \A q \in Proc : q # p => proc[q].step = "idle"
    BY DEF SInv, Alone, Live
  <1>2. \A q \in Proc : q # p => (proc[q].step)' = "idle"
    BY <1>1
  <1>3. \A q \in Proc : Mine(q)'
    BY <1>2, CalmMineNext DEF Calm
  <1>4. Alone'
    BY <1>2 DEF Alone, Live
  <1>. QED
    BY <1>3, <1>4 DEF SInv, Ready, Restartable, Mine, Backed

LEMMA QuietStep ==
  ASSUME SInv, GInv', NEW p \in Live, UNCHANGED files,
         \A q \in Proc : q # p => proc'[q] = proc[q],
         Mine(p)'
  PROVE  SInv'
  <1>1. Backed'
    BY DEF SInv, Backed, Restartable, ManifestStaged, ReceiptsAreBacked, InventoryBacked, files
  <1>. QED
    BY <1>1, OnlyStep

\* A call starts when no other is live.
LEMMA StartStep ==
  ASSUME SInv, GInv', MaxLive = 1, NEW op, MayStart(op), NEW p \in Proc, UNCHANGED files,
         \A q \in Proc : q # p => proc'[q] = proc[q],
         Mine(p)'
  PROVE  SInv'
  <1>1. Live = {}
    <2>1. IsFiniteSet(Live)
      BY ProcAssumption, FS_Subset DEF Live
    <2>2. Cardinality(Live) \in Nat /\ Cardinality(Live) < 1
      BY <2>1, FS_CardinalityType DEF MayStart
    <2>. QED
      BY <2>1, <2>2, FS_EmptySet
  <1>2. \A q \in Proc : q # p => (proc[q].step)' = "idle"
    BY <1>1 DEF Live
  <1>3. \A q \in Proc : Mine(q)'
    BY <1>2, CalmMineNext DEF Calm
  <1>4. Alone'
    BY <1>2 DEF Alone, Live
  <1>5. Backed'
    BY DEF SInv, Backed, Restartable, ManifestStaged, ReceiptsAreBacked, InventoryBacked, files
  <1>. QED
    BY <1>3, <1>4, <1>5 DEF SInv, Ready, Restartable, Mine, Backed

LEMMA SerialInit == Init => SInv
  <1>. SUFFICES ASSUME Init PROVE SInv
    OBVIOUS
  <1>1. \A p \in Proc : proc[p].step = "idle"
    BY DEF Init, Idle
  <1>2. \A p \in Proc : Mine(p)
    BY <1>1, CalmMine DEF Calm
  <1>3. Alone
    BY <1>1 DEF Alone, Live
  <1>4. Backed
    BY DEF Init, Backed, ManifestStaged, ReceiptsAreBacked, InventoryBacked
  <1>. QED
    BY <1>2, <1>3, <1>4, InitInv DEF SInv, Ready, Restartable, Mine, Backed

LEMMA SerialWriting ==
  ASSUME SInv, GInv', NEW p \in Proc, Writing(p)
  PROVE  SInv'
  <1>. DEFINE t == proc[p].tx
              n == proc[p].next
  <1>0. /\ proc[p] \in Call /\ t \in Tx /\ n \in JournalState
        /\ proc \in [Proc -> Call] /\ receipts \in [Tx -> SUBSET JournalState]
        /\ staged \in [Tx -> SUBSET {"body.tmp", "manifest.tmp"}]
    BY DEF SInv, GInv, TypeOK, Call
  <1>1. Mine(p) /\ Backed
    BY DEF SInv, Ready, Restartable, Mine, Backed
  <1>n. n \in 1 .. 12
    BY <1>0 DEF JournalState, BodyGenerating, Committed
  <1>d. proc[p].step \in {"mkdir", "validate", "stageBody", "linkBody"} => proc[p].op = "commit"
    BY DEF SInv, GInv, Doing
  <1>2. /\ p \in Live
        /\ \A q \in Proc : q # p => proc'[q] = proc[q]
    BY <1>0 DEF Writing, Live, At, Goto, Reserve, WriteOwner, OwnerFails, MakeJournal, Receipt,
       StageManifest, StageBody, ValidateBody, LinkBody, LinkManifest, ReadInventory,
       ReplaceInventory, CheckInventory, OpenPackage, BuildPackage, Conflict, Raise,
       OperationFails, Fallible, Unstage, Release
  <1>3. CASE Reserve(p)
    <2>1. UNCHANGED files
      BY <1>3 DEF Reserve, files, public, private
    <2>2. Mine(p)'
      BY <1>0, <1>1, <1>3, IdleType, <2>1 DEF files, Reserve, Mine, ReadyAt,
         RestartableAt, At, Goto, Call, Idle
    <2>. QED
      BY <1>2, <2>1, <2>2, QuietStep
  <1>4. CASE WriteOwner(p)
    <2>1. UNCHANGED files
      BY <1>4 DEF WriteOwner, files, public, private
    <2>2. Mine(p)'
      BY <1>0, <1>1, <1>4, <2>1 DEF files, WriteOwner, Mine, ReadyAt, RestartableAt, At,
         Goto, Call
    <2>. QED
      BY <1>2, <2>1, <2>2, QuietStep
  <1>5. CASE OwnerFails(p)
    <2>1. UNCHANGED files
      BY <1>5 DEF OwnerFails, files, public, private
    <2>2. Mine(p)'
      BY <1>0, <1>1, <1>5, <2>1 DEF files, OwnerFails, Mine, ReadyAt, RestartableAt, At,
         Goto, Call, Idle
    <2>. QED
      BY <1>2, <2>1, <2>2, QuietStep
  <1>6. CASE MakeJournal(p)
    <2>1. UNCHANGED files
      BY <1>6 DEF MakeJournal, files, public, private
    <2>2. Mine(p)'
      BY <1>0, <1>1, <1>d, <1>6, <2>1 DEF files, ManifestProvisional, MakeJournal, Mine,
         ReadyAt, RestartableAt, At, Goto, Call, BodyGenerating, BodyPromoted,
         BodyWritten, ManifestPromoted, InventoryCommitted
    <2>. QED
      BY <1>2, <2>1, <2>2, QuietStep
  <1>7. CASE ValidateBody(p)
    <2>1. UNCHANGED files
      BY <1>7 DEF ValidateBody, files, public, private
    <2>2. Mine(p)'
      BY <1>0, <1>1, <1>d, <1>7, <2>1 DEF files, ManifestProvisional, ValidateBody, Mine,
         ReadyAt, RestartableAt, At, Goto, Call, BodyValidated, BodyPromoted,
         ManifestPromoted, InventoryCommitted
    <2>. QED
      BY <1>2, <2>1, <2>2, QuietStep
  <1>8. CASE ReadInventory(p)
    <2>1. UNCHANGED files
      BY <1>8 DEF ReadInventory, files, public, private
    <2>2. Mine(p)'
      BY <1>0, <1>1, <1>8, <2>1 DEF files, ReadInventory, Mine, ReadyAt, RestartableAt,
         At, Goto, Call
    <2>. QED
      BY <1>2, <2>1, <2>2, QuietStep
  <1>9. CASE CheckInventory(p)
    <2>1. UNCHANGED files
      BY <1>9 DEF CheckInventory, files, public, private
    <2>2. Mine(p)'
      BY <1>0, <1>1, <1>n, <1>9, <2>1 DEF files, ManifestProvisional, CheckInventory,
         Mine, ReadyAt, RestartableAt, At, Goto, Call, BodyPromoted, InventoryCommitted,
         BodyWritten, ManifestPromoted
    <2>. QED
      BY <1>2, <2>1, <2>2, QuietStep
  <1>10. CASE OpenPackage(p)
    <2>1. UNCHANGED files
      BY <1>10 DEF OpenPackage, files, public, private
    <2>2. Mine(p)'
      BY <1>0, <1>1, <1>10, <2>1 DEF files, OpenPackage, Mine, ReadyAt, RestartableAt, At,
         Goto, Call
    <2>. QED
      BY <1>2, <2>1, <2>2, QuietStep
  <1>11. CASE BuildPackage(p)
    <2>1. UNCHANGED files
      BY <1>11 DEF BuildPackage, files, public, private
    <2>2. Mine(p)'
      BY <1>0, <1>1, <1>n, <1>11, <2>1 DEF files, ManifestProvisional, BuildPackage, Mine,
         ReadyAt, RestartableAt, At, Goto, Call, Raised, BodyPromoted, InventoryCommitted,
         BodyWritten, ManifestPromoted
    <2>. QED
      BY <1>2, <2>1, <2>2, QuietStep
  <1>12. CASE Conflict(p)
    <2>1. UNCHANGED files
      BY <1>12 DEF Conflict, Raise, files, public, private
    <2>2. Mine(p)'
      BY <1>0, <1>1, <1>12, <2>1 DEF files, Conflict, Mine, ReadyAt, RestartableAt, At,
         Goto, Call, Raise, Raised
    <2>. QED
      BY <1>2, <2>1, <2>2, QuietStep
  <1>13. CASE OperationFails(p)
    <2>1. UNCHANGED files
      BY <1>13 DEF OperationFails, files, public, private
    <2>2. Mine(p)'
      BY <1>0, <1>1, <1>13, <2>1 DEF files, OperationFails, Mine, ReadyAt, RestartableAt,
         At, Goto, Call, Raised
    <2>. QED
      BY <1>2, <2>1, <2>2, QuietStep
  <1>14. CASE Release(p)
    <2>1. UNCHANGED files
      BY <1>14 DEF Release, files, public, private
    <2>2. Mine(p)'
      BY <1>0, <1>1, <1>14, <2>1 DEF files, Release, Mine, ReadyAt, RestartableAt, At,
         Goto, Call, Idle
    <2>. QED
      BY <1>2, <2>1, <2>2, QuietStep
  <1>15. CASE Receipt(p)
    <2>1. /\ receipts' = [receipts EXCEPT ![t] = @ \cup {n}]
          /\ UNCHANGED <<bodies, manifests, inventory, staged>>
          /\ proc[p].step = "receipt"
          /\ proc'[p].tx = t
          /\ proc'[p].step = Then(proc[p].op, n)
          /\ proc'[p].op = proc[p].op
          /\ n < Committed => proc'[p].next = n + 1
      BY <1>0, <1>15 DEF Receipt, Call, public, At
    <2>2. Backed'
      BY <1>0, <1>1, <2>1 DEF Backed, ManifestStaged, ReceiptsAreBacked, InventoryBacked,
         Mine, ReadyAt,
         RestartableAt, JournalState, BodyGenerating, BodyWritten, BodyValidated, BodyDigested, BodyPromoted, ManifestProvisional,
         LinkageFinalized, ManifestValidated, ManifestPromoted, InventoryCommitted, PackageValidated, Committed
    <2>3. proc[p].op \in {"commit", "resumeManifest", "resumeInventory"}
      BY <2>1 DEF SInv, GInv, Doing
    <2>4. n \in 1 .. 12
      BY <1>0 DEF JournalState, BodyGenerating, Committed
    <2>5. CASE proc[p].op = "commit"
      <3>1. Mine(p)'
        BY <1>0, <1>1, <2>1, <2>4, <2>5 DEF Then, CommitThen, Mine, ReadyAt, RestartableAt,
           JournalState, BodyGenerating, BodyWritten, BodyValidated, BodyDigested, BodyPromoted, ManifestProvisional,
         LinkageFinalized, ManifestValidated, ManifestPromoted, InventoryCommitted, PackageValidated, Committed
      <3>. QED
        BY <1>2, <2>2, <3>1, OnlyStep
    <2>6. CASE proc[p].op = "resumeManifest"
      <3>1. Mine(p)'
        BY <1>0, <1>1, <2>1, <2>4, <2>6 DEF Then, ResumeManifestThen, Mine, ReadyAt,
           RestartableAt,
           JournalState, BodyGenerating, BodyWritten, BodyValidated, BodyDigested, BodyPromoted, ManifestProvisional,
         LinkageFinalized, ManifestValidated, ManifestPromoted, InventoryCommitted, PackageValidated, Committed
      <3>. QED
        BY <1>2, <2>2, <3>1, OnlyStep
    <2>7. CASE proc[p].op = "resumeInventory"
      <3>1. Mine(p)'
        BY <1>0, <1>1, <2>1, <2>4, <2>7 DEF Then, ResumeInventoryThen, Mine, ReadyAt,
           RestartableAt,
           JournalState, BodyGenerating, BodyWritten, BodyValidated, BodyDigested, BodyPromoted, ManifestProvisional,
         LinkageFinalized, ManifestValidated, ManifestPromoted, InventoryCommitted, PackageValidated, Committed
      <3>. QED
        BY <1>2, <2>2, <3>1, OnlyStep
    <2>. QED
      BY <2>3, <2>5, <2>6, <2>7
  <1>16. CASE StageManifest(p)
    <2>1. Backed'
      BY <1>0, <1>1, <1>16 DEF StageManifest, Backed, ManifestStaged, ReceiptsAreBacked,
         InventoryBacked,
         Mine, ReadyAt, RestartableAt, At, public, private
    <2>2. Mine(p)'
      BY <1>0, <1>1, <1>16 DEF StageManifest, Mine, ReadyAt, RestartableAt, At, Goto,
         Call, public, private,
         BodyWritten, BodyPromoted, ManifestProvisional, ManifestPromoted, InventoryCommitted
    <2>. QED
      BY <1>2, <2>1, <2>2, OnlyStep
  <1>17. CASE StageBody(p)
    <2>1. Backed'
      BY <1>0, <1>1, <1>17 DEF StageBody, Backed, ManifestStaged, ReceiptsAreBacked,
         InventoryBacked,
         Mine, ReadyAt, RestartableAt, At, public, private
    <2>2. Mine(p)'
      BY <1>0, <1>1, <1>d, <1>17 DEF StageBody, Mine, ReadyAt, RestartableAt, At, Goto,
         Call, public, private,
         BodyWritten, BodyPromoted, ManifestProvisional, ManifestPromoted, InventoryCommitted
    <2>. QED
      BY <1>2, <2>1, <2>2, OnlyStep
  <1>18. CASE LinkBody(p)
    <2>1. Backed'
      BY <1>0, <1>1, <1>18 DEF LinkBody, Backed, ManifestStaged, ReceiptsAreBacked,
         InventoryBacked,
         Mine, ReadyAt, RestartableAt, At, public, private
    <2>2. Mine(p)'
      BY <1>0, <1>1, <1>d, <1>18 DEF LinkBody, Mine, ReadyAt, RestartableAt, At, Goto,
         Call, public, private,
         BodyWritten, BodyPromoted, ManifestProvisional, ManifestPromoted, InventoryCommitted
    <2>. QED
      BY <1>2, <2>1, <2>2, OnlyStep
  <1>19. CASE LinkManifest(p)
    <2>1. Backed'
      BY <1>0, <1>1, <1>19 DEF LinkManifest, Backed, ManifestStaged, ReceiptsAreBacked,
         InventoryBacked,
         Mine, ReadyAt, RestartableAt, At, public, private
    <2>2. Mine(p)'
      BY <1>0, <1>1, <1>d, <1>19 DEF LinkManifest, Mine, ReadyAt, RestartableAt, At, Goto,
         Call, public, private,
         BodyWritten, BodyPromoted, ManifestProvisional, ManifestPromoted, InventoryCommitted, ManifestReadable
    <2>. QED
      BY <1>2, <2>1, <2>2, OnlyStep
  <1>20. CASE ReplaceInventory(p)
    <2>1. Backed'
      BY <1>0, <1>1, <1>20 DEF ReplaceInventory, Backed, ManifestStaged,
         ReceiptsAreBacked, InventoryBacked,
         Mine, ReadyAt, RestartableAt, At, public, private
    <2>2. Mine(p)'
      BY <1>0, <1>1, <1>20 DEF ReplaceInventory, Mine, ReadyAt, RestartableAt, At, Goto,
         Call, public, private,
         BodyWritten, BodyPromoted, ManifestProvisional, ManifestPromoted, InventoryCommitted
    <2>. QED
      BY <1>2, <2>1, <2>2, OnlyStep
  <1>21. CASE Unstage(p)
    <2>1. Backed'
      BY <1>0, <1>1, <1>21 DEF Unstage, Backed, ManifestStaged, ReceiptsAreBacked,
         InventoryBacked,
         Mine, ReadyAt, RestartableAt, At, public, private
    <2>2. Mine(p)'
      BY <1>0, <1>1, <1>21 DEF Unstage, Mine, ReadyAt, RestartableAt, At, Goto, Call,
         public, private,
         BodyWritten, BodyPromoted, ManifestProvisional, ManifestPromoted, InventoryCommitted
    <2>. QED
      BY <1>2, <2>1, <2>2, OnlyStep
  <1>. QED
    BY <1>3, <1>4, <1>5, <1>6, <1>7, <1>8, <1>9, <1>10, <1>11, <1>12, <1>13, <1>14, <1>15, <1>16,
       <1>17, <1>18, <1>19, <1>20, <1>21 DEF Writing

\* What recover() reads of a valid chain of receipts.
LEMMA ChainFacts ==
  ASSUME TypeOK, NEW t \in Tx, Valid(t)
  PROVE  /\ Last(t) \in 0 .. 12
         /\ \A n \in JournalState : n \in receipts[t] <=> n <= Last(t)
         /\ Last(t) >= BodyPromoted => BodyOf[t] \in bodies
         /\ Last(t) >= ManifestPromoted => t \in manifests
  <1>1. Last(t) \in 0 .. 12
    BY LastType DEF Committed
  <1>. QED
    BY <1>1 DEF Valid, JournalState, BodyGenerating, Committed

LEMMA SerialRecovering ==
  ASSUME SInv, GInv', NEW p \in Proc, Recovering(p)
  PROVE  SInv'
  <1>. DEFINE v == proc[p].tx
  <1>0. /\ TypeOK /\ proc[p] \in Call /\ v \in Tx
        /\ proc \in [Proc -> Call] /\ receipts \in [Tx -> SUBSET JournalState]
        /\ staged \in [Tx -> SUBSET {"body.tmp", "manifest.tmp"}]
    BY DEF SInv, GInv, TypeOK, Call
  <1>1. Mine(p) /\ Backed
    BY DEF SInv, Ready, Restartable, Mine, Backed
  <1>2. /\ p \in Live
        /\ \A q \in Proc : q # p => proc'[q] = proc[q]
    BY <1>0 DEF Recovering, Live, At, Goto, Visit, Resume, UnlinkBody, UnlinkTmp, Unlock,
       Quarantine, RecoverEnds
  <1>3. ASSUME NEW t \in Tx, Visit(p, t)
        PROVE  SInv'
    <2>1. UNCHANGED files
      BY <1>3 DEF Visit, files, public, private
    <2>2. /\ proc'[p].tx = t /\ proc'[p].step = Disposition(t) /\ ~Resumable(t)
      BY <1>0, <1>3 DEF Visit, Call
    <2>3. CASE ~Kept(t)
      BY <1>2, <2>1, <2>2, <2>3, CalmMineNext, QuietStep DEF Disposition, Calm
    <2>4. CASE Kept(t)
      <3>1. /\ Last(t) \in 0 .. 12 /\ Valid(t)
            /\ \A n \in JournalState : n \in receipts[t] <=> n <= Last(t)
        BY <1>0, <2>4, ChainFacts DEF Kept
      <3>2. ~ (Last(t) \in BodyPromoted .. Committed - 1)
        <4>. SUFFICES ASSUME Last(t) \in BodyPromoted .. Committed - 1 PROVE FALSE
          OBVIOUS
        <4>1. BodyPromoted \in receipts[t] /\ Committed \notin receipts[t]
          BY <3>1 DEF JournalState, BodyGenerating, BodyPromoted, Committed
        <4>2. "manifest.tmp" \in staged[t]
          BY <1>1, <4>1 DEF Backed, ManifestStaged
        <4>. QED
          BY <2>2, <3>1, <4>2 DEF Resumable
      <3>3. Disposition(t) \in {"unlinkTmp", "unlinkTmpOwned"}
        BY <2>4, <3>1, <3>2 DEF Disposition, BodyPromoted, Committed
      <3>4. BodyPromoted \notin receipts[t] \/ Committed \in receipts[t]
        BY <3>1, <3>2 DEF JournalState, BodyGenerating, BodyPromoted, Committed
      <3>5. Mine(p)'
        BY <2>1, <2>2, <3>3, <3>4 DEF Mine, ReadyAt, RestartableAt, files
      <3>. QED
        BY <1>2, <2>1, <3>5, QuietStep
    <2>. QED
      BY <2>3, <2>4
  <1>4. ASSUME NEW t \in Tx, Resume(p, t)
        PROVE  SInv'
    <2>1. UNCHANGED files
      BY <1>4 DEF Resume, files, public, private
    <2>2. /\ Last(t) \in BodyPromoted .. Committed - 1 /\ Valid(t)
          /\ BodyOf[t] \in bodies
          /\ Last(t) >= ManifestPromoted => t \in manifests
      BY <1>0, <1>4, ChainFacts DEF Resume, Resumable, BodyPromoted, Committed
    <2>3. /\ proc'[p].tx = t /\ proc'[p].step = ResumeStep(Last(t))
          /\ proc'[p].op = IF Last(t) < ManifestPromoted THEN "resumeManifest"
                                                        ELSE "resumeInventory"
          /\ proc'[p].next = IF Last(t) < ManifestPromoted THEN ManifestPromoted
                                                          ELSE Last(t) + 1
      BY <1>0, <1>4 DEF Resume, ResumeFrom, Call
    <2>4. Mine(p)'
      BY <2>1, <2>2, <2>3 DEF Mine, ReadyAt, RestartableAt, files, ResumeStep, BodyPromoted,
         ManifestProvisional, ManifestPromoted, InventoryCommitted, Committed
    <2>. QED
      BY <1>2, <2>1, <2>4, QuietStep
  <1>5. CASE UnlinkBody(p)
    BY <1>1, <1>5 DEF UnlinkBody, At, Mine, RestartableAt
  <1>6. CASE UnlinkTmp(p)
    <2>1. Backed'
      BY <1>0, <1>1, <1>6 DEF UnlinkTmp, Backed, ManifestStaged, ReceiptsAreBacked,
         InventoryBacked, Mine, RestartableAt, public
    <2>2. Mine(p)'
      BY <1>0, <1>1, <1>6 DEF UnlinkTmp, Mine, ReadyAt, RestartableAt, At, Goto, Call, public
    <2>. QED
      BY <1>2, <2>1, <2>2, OnlyStep
  <1>7. CASE Unlock(p)
    <2>1. UNCHANGED files
      BY <1>7 DEF Unlock, files, public
    <2>2. (proc[p].step)' \in Calm
      BY <1>0, <1>7 DEF Unlock, Goto, Call, Calm
    <2>. QED
      BY <1>2, <2>1, <2>2, CalmMineNext, QuietStep
  <1>8. CASE Quarantine(p)
    <2>1. Backed'
      BY <1>0, <1>1, <1>8 DEF Quarantine, Backed, ManifestStaged, ReceiptsAreBacked,
         InventoryBacked, public
    <2>2. (proc[p].step)' \in Calm
      BY <1>0, <1>8 DEF Quarantine, Goto, Call, Calm
    <2>. QED
      BY <1>2, <2>1, <2>2, CalmMineNext, OnlyStep
  <1>9. CASE RecoverEnds(p)
    <2>1. UNCHANGED files
      BY <1>9 DEF RecoverEnds, files, public, private
    <2>2. (proc[p].step)' \in Calm
      BY <1>0, <1>9 DEF RecoverEnds, Idle, Calm
    <2>. QED
      BY <1>2, <2>1, <2>2, CalmMineNext, QuietStep
  <1>. QED
    BY <1>3, <1>4, <1>5, <1>6, <1>7, <1>8, <1>9 DEF Recovering

LEMMA SerialNext ==
  ASSUME MaxLive = 1, SInv, [Next]_vars
  PROVE  SInv'
  <1>0. GInv'
    BY NextInv DEF SInv
  <1>t. proc \in [Proc -> Call]
    BY DEF SInv, GInv, TypeOK
  <1>1. ASSUME NEW p \in Proc, NEW t \in Tx, Commit(p, t)
        PROVE  SInv'
    <2>1. /\ UNCHANGED files /\ MayStart("commit")
          /\ \A q \in Proc : q # p => proc'[q] = proc[q]
      BY <1>1 DEF Commit, files, public, private
    <2>2. Mine(p)'
      BY <1>t, <1>1 DEF Commit, Idle, Mine, ReadyAt, RestartableAt
    <2>. QED
      BY <1>0, <2>1, <2>2, StartStep
  <1>2. ASSUME NEW p \in Proc, Recover(p)
        PROVE  SInv'
    <2>1. /\ UNCHANGED files /\ MayStart("recover")
          /\ \A q \in Proc : q # p => proc'[q] = proc[q]
      BY <1>2 DEF Recover, files, public, private
    <2>2. (proc[p].step)' \in Calm
      BY <1>t, <1>2 DEF Recover, Idle, Calm
    <2>. QED
      BY <1>0, <2>1, <2>2, CalmMineNext, StartStep
  <1>3. ASSUME NEW p \in Proc, Crash(p)
        PROVE  SInv'
    <2>1. /\ UNCHANGED files /\ p \in Live
          /\ \A q \in Proc : q # p => proc'[q] = proc[q]
      BY <1>3 DEF Crash, files, public, private
    <2>2. (proc[p].step)' \in Calm
      BY <1>t, <1>3 DEF Crash, Idle, Calm
    <2>. QED
      BY <1>0, <2>1, <2>2, CalmMineNext, QuietStep
  <1>4. CASE UNCHANGED vars
    BY <1>4 DEF vars, public, private, counts, SInv, GInv, TypeOK, Doing, Alone, Live, Ready,
       ReadyAt, Restartable, RestartableAt, ManifestStaged, ReceiptsAreBacked, InventoryBacked
  <1>. QED
    BY <1>0, <1>1, <1>2, <1>3, <1>4, SerialWriting, SerialRecovering DEF Next, Terminated

\* With one process at a time, however often it is killed or meets a failed file
\* operation, the receipts recover() trusts are never ahead of the files.
THEOREM SerialReceipts ==
  ASSUME MaxLive = 1
  PROVE  Spec => []ReceiptsAreBacked
  <1>1. SInv => ReceiptsAreBacked
    BY DEF SInv
  <1>2. SInv /\ [Next]_vars => SInv'
    BY SerialNext
  <1>. QED
    BY <1>1, <1>2, SerialInit, PTL DEF Spec

\* The published files only grow.
LEMMA SerialGrows ==
  ASSUME SInv, [Next]_vars
  PROVE  bodies \subseteq bodies' /\ manifests \subseteq manifests' /\ inventory \subseteq inventory'
  <1>0. \A p \in Proc : Mine(p)
    BY DEF SInv, Ready, Restartable, Mine
  <1>1. ASSUME NEW p \in Proc, Writing(p)
        PROVE  bodies \subseteq bodies' /\ manifests \subseteq manifests' /\ inventory \subseteq inventory'
    <2>1. CASE ReplaceInventory(p)
      BY <1>0, <2>1 DEF ReplaceInventory, Mine, ReadyAt, At
    <2>2. CASE ~ReplaceInventory(p)
      BY <1>1, <2>2 DEF Writing, Reserve, WriteOwner, OwnerFails, MakeJournal, Receipt,
         StageManifest, StageBody, ValidateBody, LinkBody, LinkManifest, ReadInventory,
         CheckInventory, OpenPackage, BuildPackage, Conflict, Raise, OperationFails, Unstage,
         Release, public
    <2>. QED
      BY <2>1, <2>2
  <1>2. ASSUME NEW p \in Proc, Recovering(p)
        PROVE  bodies \subseteq bodies' /\ manifests \subseteq manifests' /\ inventory \subseteq inventory'
    <2>1. ~UnlinkBody(p)
      BY <1>0 DEF UnlinkBody, Mine, RestartableAt, At
    <2>. QED
      BY <1>2, <2>1 DEF Recovering, Visit, Resume, UnlinkTmp, Unlock, Quarantine, RecoverEnds,
         public
  <1>3. ASSUME NEW p \in Proc, Crash(p) \/ Recover(p) \/ \E t \in Tx : Commit(p, t)
        PROVE  UNCHANGED public
    BY <1>3 DEF Crash, Recover, Commit
  <1>4. CASE UNCHANGED vars
    BY <1>4 DEF vars, public
  <1>. QED
    BY <1>1, <1>2, <1>3, <1>4 DEF Next, Terminated, public

\* With one process at a time, what the inventory has named stays named, and its
\* body and manifest stay: no crash or recovery withdraws an exemplar.
THEOREM SerialBoundStays ==
  ASSUME MaxLive = 1
  PROVE  Spec => BoundStays
  <1>1. SInv /\ [Next]_vars => SInv'
    BY SerialNext
  <1>2. SInv /\ [Next]_vars => [/\ inventory \subseteq inventory'
                               /\ \A t \in inventory : BodyOf[t] \in bodies'
                                                       /\ t \in manifests']_vars
    BY SerialGrows DEF SInv, InventoryBacked
  <1>. QED
    BY <1>1, <1>2, SerialInit, PTL DEF Spec, BoundStays

-----------------------------------------------------------------------------
(***************************************************************************)
(* One process at a time: what sends a transaction to quarantine.  Every   *)
(* receipt is behind the one before it, except MANIFEST_PROMOTED, which a  *)
(* resumption writes behind BODY_PROMOTED.  A chain without that gap is a  *)
(* prefix of the journal states; with the files that back it recover() can *)
(* resume or keep it, and the resumption is stopped by its package or by a *)
(* failed operation only.                                                  *)
(***************************************************************************)
Cause(t) == errors > 0 \/ (package[t] # {} /\ package[t] # inventory) \/ Skipped(t)

\* The receipt that has to be there before receipt i is written.
Behind(t, i) ==
    IF i = ManifestPromoted THEN BodyPromoted \in receipts[t]
                            ELSE i = BodyGenerating \/ i - 1 \in receipts[t]
Chains == \A t \in Tx : \A i \in receipts[t] : Behind(t, i)

ChainAt(p) ==
    LET t == proc[p].tx
        n == proc[p].next
        at == proc[p].step
    IN  /\ at \in Fallible => /\ Behind(t, n)
                              /\ proc[p].op # "commit" => t \in journals
        /\ at = "linkManifest" /\ proc[p].op = "resumeManifest"
              => BodyPromoted \in receipts[t] /\ Committed \notin receipts[t]
        /\ at = "package" => proc[p].seen = inventory
        /\ at = "quarantine" => Cause(t)

CauseInv == Chains /\ \A p \in Proc : ChainAt(p)

\* Nothing is asked of a process at any other step.
Settled == Step \ (Fallible \cup {"quarantine"})

LEMMA SettledChain ==
  ASSUME NEW p \in Proc, (proc[p].step)' \in Settled
  PROVE  ChainAt(p)'
  BY DEF Settled, ChainAt, Fallible

LEMMA CauseStep ==
  ASSUME SInv, NEW p \in Live, \A q \in Proc : q # p => proc'[q] = proc[q],
         Chains', ChainAt(p)'
  PROVE  CauseInv'
  <1>1. \A q \in Proc : q # p => (proc[q].step)' = "idle"
    BY DEF SInv, Alone, Live
  <1>2. \A q \in Proc : ChainAt(q)'
    BY <1>1, SettledChain DEF Settled, Step, Fallible
  <1>. QED
    BY <1>2 DEF CauseInv

LEMMA ChainsKept ==
  ASSUME Chains, UNCHANGED receipts
  PROVE  Chains'
  BY DEF Chains, Behind

\* A set of journal states that holds the predecessor of each member is a prefix.
LEMMA Prefix ==
  ASSUME NEW R \in SUBSET (1 .. 12), \A i \in R : i = 1 \/ i - 1 \in R
  PROVE  \E k \in 0 .. 12 : R = 1 .. k
  <1>1. /\ (2 \in R => 1 \in R) /\ (3 \in R => 2 \in R) /\ (4 \in R => 3 \in R)
        /\ (5 \in R => 4 \in R) /\ (6 \in R => 5 \in R) /\ (7 \in R => 6 \in R)
        /\ (8 \in R => 7 \in R) /\ (9 \in R => 8 \in R) /\ (10 \in R => 9 \in R)
        /\ (11 \in R => 10 \in R) /\ (12 \in R => 11 \in R)
    OBVIOUS
  <1>2. PICK k \in 0 .. 12 : (k = 0 \/ k \in R) /\ k + 1 \notin R
    <2>1. 13 \notin R
      OBVIOUS
    <2>. QED
      BY <2>1
  <1>3. \A i \in 1 .. 12 : i \in R <=> i <= k
    BY <1>1, <1>2
  <1>4. \A i \in R : i \in 1 .. k
    BY <1>3
  <1>5. \A i \in 1 .. k : i \in R
    BY <1>3
  <1>. QED
    BY <1>4, <1>5

\* The chain of a journal recover() may meet, without the gap: it is valid, and it
\* is resumed or kept.
LEMMA ChainRead ==
  ASSUME SInv, Chains, NEW t \in Tx, ~Skipped(t)
  PROVE  /\ Valid(t)
         /\ ~Resumable(t) => Kept(t)
  <1>0. receipts[t] \in SUBSET (1 .. 12)
    BY DEF SInv, GInv, TypeOK, JournalState, BodyGenerating, Committed
  <1>1. PICK k \in 0 .. 12 : receipts[t] = 1 .. k
    <2>1. \A i \in receipts[t] : i = 1 \/ i - 1 \in receipts[t]
      BY DEF Chains, Behind, Skipped, ManifestPromoted, ManifestValidated, BodyGenerating
    <2>. QED
      BY <1>0, <2>1, Prefix
  <1>2. Last(t) = k
    <2>1. 1 \in Int /\ k \in Int
      OBVIOUS
    <2>2. Cardinality(1 .. k) = IF 1 > k THEN 0 ELSE k - 1 + 1
      BY <2>1, FS_Interval, Zenon
    <2>. QED
      BY <1>1, <2>2 DEF Last
  <1>3. Valid(t)
    BY <1>1, <1>2 DEF Valid, SInv, ReceiptsAreBacked, BodyPromoted, ManifestPromoted
  <1>4. Last(t) = Committed => t \in inventory
    BY <1>1, <1>2 DEF SInv, ReceiptsAreBacked, Committed, InventoryCommitted
  <1>5. Last(t) \in BodyPromoted .. Committed - 1 => Resumable(t)
    BY <1>1, <1>2, <1>3 DEF Resumable, SInv, Restartable, ManifestStaged, BodyPromoted,
       Committed
  <1>. QED
    BY <1>3, <1>4, <1>5 DEF Kept

\* A step that leaves the receipts alone and takes the process to a step of which
\* nothing is asked.
LEMMA SettledStep ==
  ASSUME SInv, CauseInv, NEW p \in Live, \A q \in Proc : q # p => proc'[q] = proc[q],
         UNCHANGED receipts, (proc[p].step)' \in Settled
  PROVE  CauseInv'
  <1>1. p \in Proc
    BY DEF Live
  <1>2. ChainAt(p)'
    BY <1>1, SettledChain
  <1>3. Chains'
    BY ChainsKept DEF CauseInv
  <1>. QED
    BY <1>2, <1>3, CauseStep

LEMMA CauseWriting ==
  ASSUME SInv, CauseInv, NEW p \in Proc, Writing(p)
  PROVE  CauseInv'
  <1>. DEFINE t == proc[p].tx
              n == proc[p].next
  <1>0. /\ proc[p] \in Call /\ t \in Tx /\ n \in 1 .. 12 /\ proc \in [Proc -> Call]
        /\ receipts \in [Tx -> SUBSET JournalState] /\ journals \subseteq Tx
        /\ errors \in Nat
    BY BoundsAssumption DEF SInv, GInv, TypeOK, Call, JournalState, BodyGenerating, Committed
  <1>1. Mine(p) /\ Backed /\ ChainAt(p) /\ Chains
    BY DEF SInv, Ready, Restartable, Mine, Backed, CauseInv
  <1>d. /\ proc[p].step \in {"reserve", "own", "mkdir", "stageManifest", "stageBody", "validate",
                             "linkBody"} => proc[p].op = "commit"
        /\ proc[p].step = "receipt"
             => proc[p].op \in {"commit", "resumeManifest", "resumeInventory"}
    BY DEF SInv, GInv, Doing
  <1>2. /\ p \in Live
        /\ \A q \in Proc : q # p => proc'[q] = proc[q]
    BY <1>0 DEF Writing, Live, At, Goto, Reserve, WriteOwner, OwnerFails, MakeJournal, Receipt,
       StageManifest, StageBody, ValidateBody, LinkBody, LinkManifest, ReadInventory,
       ReplaceInventory, CheckInventory, OpenPackage, BuildPackage, Conflict, Raise,
       OperationFails, Fallible, Unstage, Release
  \* Before the journal, and when commit() ends.
  <1>3. CASE Reserve(p) \/ OwnerFails(p) \/ Unstage(p) \/ Release(p)
    <2>1. UNCHANGED receipts
      BY <1>3 DEF Reserve, OwnerFails, Unstage, Release, private
    <2>2. (proc[p].step)' \in Settled
      BY <1>0, <1>3 DEF Reserve, OwnerFails, Unstage, Release, Goto, At, Call, Idle, Settled,
         Step, Fallible
    <2>. QED
      BY <1>2, <2>1, <2>2, SettledStep
  \* The steps that only move on, with their receipts behind them.
  <1>4. CASE \/ WriteOwner(p) \/ MakeJournal(p) \/ StageManifest(p) \/ StageBody(p)
             \/ ValidateBody(p) \/ LinkBody(p)
    <2>1. /\ UNCHANGED receipts /\ (proc[p].tx)' = t /\ (proc[p].next)' = n
          /\ (proc[p].op)' = "commit"
          /\ (proc[p].step)' \in {"mkdir", "receipt", "stageBody"}
      BY <1>0, <1>d, <1>4 DEF WriteOwner, MakeJournal, StageManifest, StageBody, ValidateBody,
         LinkBody, Goto, At, Call, private
    <2>2. Behind(t, n)
      <3>1. CASE WriteOwner(p)
        BY <1>1, <3>1 DEF WriteOwner, Mine, ReadyAt, At, Behind, BodyGenerating,
           ManifestPromoted
      <3>2. CASE ~WriteOwner(p)
        BY <1>1, <1>4, <3>2 DEF ChainAt, Fallible, MakeJournal, StageManifest, StageBody,
           ValidateBody, LinkBody, At
      <3>. QED
        BY <3>1, <3>2
    <2>3. ChainAt(p)'
      BY <2>1, <2>2 DEF ChainAt, Behind
    <2>. QED
      BY <1>1, <1>2, <2>1, <2>3, ChainsKept, CauseStep
  <1>5. CASE \/ LinkManifest(p) \/ ReadInventory(p) \/ ReplaceInventory(p)
             \/ CheckInventory(p) \/ OpenPackage(p)
    <2>1. /\ UNCHANGED <<receipts, journals>>
          /\ (proc[p].tx)' = t /\ (proc[p].next)' = n /\ (proc[p].op)' = proc[p].op
          /\ (proc[p].step)' \in {"receipt", "replaceInventory", "checkInventory",
                                  "openPackage", "package"}
          /\ (proc[p].step)' = "package" => (proc[p].seen)' = inventory'
      BY <1>0, <1>5 DEF LinkManifest, ReadInventory, ReplaceInventory, CheckInventory,
         OpenPackage, Goto, At, Call, private, public
    <2>2. proc[p].step \in Fallible
      BY <1>5 DEF LinkManifest, ReadInventory, ReplaceInventory, CheckInventory, OpenPackage,
         At, Fallible
    <2>3. ChainAt(p)'
      BY <1>1, <2>1, <2>2 DEF ChainAt, Behind
    <2>. QED
      BY <1>1, <1>2, <2>1, <2>3, ChainsKept, CauseStep
  <1>6. CASE BuildPackage(p)
    <2>1. t \in proc[p].seen
      BY <1>1, <1>6 DEF BuildPackage, At, Mine, ReadyAt, ChainAt
    <2>2. /\ UNCHANGED <<receipts, journals>>
          /\ (proc[p].tx)' = t /\ (proc[p].next)' = n /\ (proc[p].op)' = proc[p].op
          /\ (proc[p].step)' = "receipt" /\ proc[p].step = "package"
      BY <1>0, <1>6, <2>1 DEF BuildPackage, Goto, At, Call, private
    <2>3. ChainAt(p)'
      BY <1>1, <2>2 DEF ChainAt, Fallible, Behind
    <2>. QED
      BY <1>1, <1>2, <2>2, <2>3, ChainsKept, CauseStep
  \* The next receipt extends the chain, or is in it already.
  <1>7. CASE Receipt(p)
    <2>1. /\ receipts' = [receipts EXCEPT ![t] = @ \cup {n}]
          /\ UNCHANGED journals
          /\ proc[p].step = "receipt" /\ t \in journals
          /\ (proc[p].tx)' = t /\ (proc[p].op)' = proc[p].op
          /\ (proc[p].step)' = Then(proc[p].op, n)
          /\ n < Committed => (proc[p].next)' = n + 1
      BY <1>0, <1>7 DEF Receipt, Writable, Call, At
    <2>2. Behind(t, n)
      BY <1>1, <2>1 DEF ChainAt, Fallible
    <2>3. Chains'
      <3>. SUFFICES ASSUME NEW u \in Tx, NEW i \in receipts'[u] PROVE Behind(u, i)'
        BY DEF Chains
      <3>1. /\ receipts[u] \subseteq receipts'[u]
            /\ i \in receipts[u] \/ (u = t /\ i = n)
        BY <1>0, <2>1
      <3>2. Behind(u, i)
        BY <1>1, <2>2, <3>1 DEF Chains
      <3>. QED
        BY <3>1, <3>2 DEF Behind
    <2>4. ChainAt(p)'
      <3>1. CASE n < Committed
        <4>1. IF n + 1 = ManifestPromoted THEN BodyPromoted \in receipts'[t]
                                          ELSE n \in receipts'[t]
          <5>1. receipts'[t] = receipts[t] \cup {n}
            BY <1>0, <2>1
          <5>2. CASE n + 1 = ManifestPromoted
            <6>1. 7 \in receipts[t]
              BY <1>0, <2>2, <5>2 DEF Behind, ManifestPromoted, BodyGenerating
            <6>2. 6 \in receipts[t]
              BY <1>0, <1>1, <6>1 DEF Chains, Behind, ManifestPromoted, BodyGenerating
            <6>3. 5 \in receipts[t]
              BY <1>0, <1>1, <6>2 DEF Chains, Behind, ManifestPromoted, BodyGenerating
            <6>. QED
              BY <5>1, <5>2, <6>3 DEF BodyPromoted
          <5>3. CASE n + 1 # ManifestPromoted
            BY <5>1, <5>3
          <5>. QED
            BY <5>2, <5>3
        <4>2. /\ (proc[p].step)' \in Fallible
              /\ (proc[p].step)' # "package"
              /\ (proc[p].step)' = "linkManifest" => proc[p].op = "commit"
          BY <1>0, <1>d, <2>1, <3>1 DEF Then, CommitThen, ResumeManifestThen,
             ResumeInventoryThen, Fallible, Committed
        <4>3. /\ (proc[p].next)' = n + 1
              /\ (proc[p].tx)' = t /\ (proc[p].op)' = proc[p].op
              /\ journals' = journals /\ t \in journals
          BY <1>0, <2>1, <3>1
        <4>4. /\ (proc[p].next)' = ManifestPromoted => BodyPromoted \in receipts'[(proc[p].tx)']
              /\ (proc[p].next)' # ManifestPromoted
                   => (proc[p].next)' - 1 \in receipts'[(proc[p].tx)']
          <5>1. receipts'[(proc[p].tx)'] = receipts'[t]
            BY <4>3
          <5>2. (proc[p].next)' - 1 = n
            BY <1>0, <4>3
          <5>. QED
            BY <4>1, <4>3, <5>1, <5>2
        <4>5. /\ (proc[p].tx)' \in journals'
              /\ (proc[p].step)' = "linkManifest" => (proc[p].op)' = "commit"
          BY <4>2, <4>3
        <4>. QED
          BY <4>2, <4>4, <4>5 DEF ChainAt, Behind, Fallible
      <3>2. CASE ~ (n < Committed)
        <4>1. n = Committed
          BY <1>0, <3>2 DEF Committed
        <4>2. (proc[p].step)' \in Settled
          BY <1>d, <2>1, <4>1 DEF Then, CommitThen, ResumeManifestThen,
             ResumeInventoryThen, Settled, Step, Fallible, BodyGenerating, BodyWritten,
             BodyDigested, ManifestValidated, ManifestPromoted, Committed
        <4>. QED
          BY <4>2, SettledChain
      <3>. QED
        BY <3>1, <3>2
    <2>. QED
      BY <1>2, <2>3, <2>4, CauseStep
  <1>8. CASE OperationFails(p)
    <2>1. /\ UNCHANGED receipts /\ errors' > 0
          /\ (proc[p].step)' \in {"release", "quarantine"}
      BY <1>0, <1>8 DEF OperationFails, Raised, Goto, Call, private
    <2>2. ChainAt(p)'
      BY <2>1 DEF ChainAt, Cause, Fallible
    <2>. QED
      BY <1>1, <1>2, <2>1, <2>2, ChainsKept, CauseStep
  \* Only a package of another inventory stops a resumption.
  <1>9. CASE Conflict(p)
    <2>1. /\ UNCHANGED <<receipts, errors, package, inventory>>
          /\ (proc[p].tx)' = t /\ (proc[p].step)' = Raised(p)
      BY <1>0, <1>9 DEF Conflict, Raise, Goto, Call, public, private, counts
    <2>2. CASE proc[p].op = "commit"
      BY <1>2, <2>1, <2>2, SettledStep DEF Raised, Settled, Step, Fallible
    <2>3. CASE proc[p].op # "commit"
      <3>1. ~ (At(p, "receipt") /\ ~Writable(p))
        BY <1>0, <1>1, <1>d, <2>3 DEF At, Writable, ChainAt, Fallible, Mine, ReadyAt, BodyPromoted,
           ManifestPromoted, InventoryCommitted
      <3>2. proc[p].step \notin {"stageManifest", "stageBody", "validate"}
        BY <1>d, <2>3
      <3>3. ~ (At(p, "linkManifest") /\ ~ManifestReadable(p))
        BY <1>0, <1>1 DEF At, ManifestReadable, ChainAt, Backed, ManifestStaged, Mine, ReadyAt
      <3>4. ~ (At(p, "checkInventory") /\ inventory # proc[p].seen)
        BY <1>1 DEF At, Mine, ReadyAt
      <3>5. At(p, "package") /\ ~Packable(t)
        BY <1>9, <3>1, <3>2, <3>3, <3>4 DEF Conflict, At
      <3>6. package[t] # {} /\ package[t] # inventory
        BY <1>1, <3>5 DEF Packable, At, Mine, ReadyAt
      <3>7. ChainAt(p)'
        BY <2>1, <2>3, <3>6 DEF ChainAt, Cause, Raised, Fallible
      <3>. QED
        BY <1>1, <1>2, <2>1, <3>7, ChainsKept, CauseStep
    <2>. QED
      BY <2>2, <2>3
  <1>. QED
    BY <1>3, <1>4, <1>5, <1>6, <1>7, <1>8, <1>9 DEF Writing

LEMMA CauseRecovering ==
  ASSUME SInv, CauseInv, NEW p \in Proc, Recovering(p)
  PROVE  CauseInv'
  <1>0. /\ TypeOK /\ proc[p] \in Call /\ proc[p].tx \in Tx /\ proc \in [Proc -> Call]
        /\ receipts \in [Tx -> SUBSET JournalState]
    BY DEF SInv, GInv, TypeOK, Call
  <1>1. Chains
    BY DEF CauseInv
  <1>2. /\ p \in Live
        /\ \A q \in Proc : q # p => proc'[q] = proc[q]
    BY <1>0 DEF Recovering, Live, At, Goto, Visit, Resume, UnlinkBody, UnlinkTmp, Unlock,
       Quarantine, RecoverEnds
  \* A visit that does not resume the transaction keeps it, or finds the gap.
  <1>3. ASSUME NEW t \in Tx, Visit(p, t)
        PROVE  CauseInv'
    <2>1. /\ UNCHANGED receipts /\ ~Resumable(t)
          /\ (proc[p].step)' = Disposition(t)
      BY <1>0, <1>3 DEF Visit, Call, private
    <2>2. CASE Kept(t)
      <3>1. Last(t) \in 0 .. 12
        BY <1>0, <2>2, ChainFacts DEF Kept
      <3>2. (proc[p].step)' \in Settled
        BY <2>1, <2>2, <3>1 DEF Disposition, BodyPromoted, Committed, Settled, Step, Fallible
      <3>. QED
        BY <1>2, <2>1, <3>2, SettledStep
    <2>3. CASE ~Kept(t)
      <3>1. Skipped(t)
        BY <1>1, <2>1, <2>3, ChainRead
      <3>2. (proc[p].step)' = "quarantine" /\ (proc[p].tx)' = t
        BY <1>0, <1>3, <2>3 DEF Visit, Call, Disposition
      <3>3. ChainAt(p)'
        BY <2>1, <3>1, <3>2 DEF ChainAt, Cause, Skipped, Fallible
      <3>. QED
        BY <1>1, <1>2, <2>1, <3>3, ChainsKept, CauseStep
    <2>. QED
      BY <2>2, <2>3
  \* A resumption goes on behind the last receipt, or at MANIFEST_PROMOTED.
  <1>4. ASSUME NEW t \in Tx, Resume(p, t)
        PROVE  CauseInv'
    <2>1. /\ UNCHANGED <<receipts, journals>> /\ t \in journals
          /\ Last(t) \in 5 .. 11 /\ Valid(t)
          /\ (proc[p].tx)' = t /\ (proc[p].step)' = ResumeStep(Last(t))
          /\ (proc[p].next)' = ResumeFrom(Last(t))
      BY <1>0, <1>4 DEF Resume, Resumable, Call, private, BodyPromoted, Committed
    <2>2. receipts[t] = 1 .. Last(t)
      BY <2>1 DEF Valid
    <2>3. /\ Behind(t, ResumeFrom(Last(t)))
          /\ BodyPromoted \in receipts[t] /\ Committed \notin receipts[t]
      BY <2>1, <2>2 DEF Behind, ResumeFrom, BodyPromoted, Committed, ManifestPromoted
    <2>4. ChainAt(p)'
      BY <2>1, <2>3 DEF ChainAt, ResumeStep, Behind
    <2>. QED
      BY <1>1, <1>2, <2>1, <2>4, ChainsKept, CauseStep
  <1>5. CASE UnlinkBody(p) \/ UnlinkTmp(p) \/ Unlock(p) \/ RecoverEnds(p)
    <2>1. UNCHANGED receipts
      BY <1>5 DEF UnlinkBody, UnlinkTmp, Unlock, RecoverEnds, private
    <2>2. (proc[p].step)' \in Settled
      BY <1>0, <1>5 DEF UnlinkBody, UnlinkTmp, Unlock, RecoverEnds, Goto, At, Call, Idle,
         Settled, Step, Fallible
    <2>. QED
      BY <1>2, <2>1, <2>2, SettledStep
  \* The journal in quarantine leaves an empty chain.
  <1>6. CASE Quarantine(p)
    <2>1. Chains'
      <3>. SUFFICES ASSUME NEW u \in Tx, NEW i \in receipts'[u] PROVE Behind(u, i)'
        BY DEF Chains
      <3>1. receipts'[u] = receipts[u]
        BY <1>0, <1>6 DEF Quarantine
      <3>. QED
        BY <1>1, <3>1 DEF Chains, Behind
    <2>2. (proc[p].step)' \in Settled
      BY <1>0, <1>6 DEF Quarantine, Goto, Call, Settled, Step, Fallible
    <2>. QED
      BY <1>2, <2>1, <2>2, SettledChain, CauseStep
  <1>. QED
    BY <1>3, <1>4, <1>5, <1>6 DEF Recovering

\* A process that starts a call or is killed.
LEMMA CauseFrame ==
  ASSUME CauseInv, NEW p \in Proc,
         UNCHANGED <<receipts, journals, errors, package, inventory>>,
         \A q \in Proc : q # p => proc'[q] = proc[q],
         (proc[p].step)' \in Settled
  PROVE  CauseInv'
  <1>1. \A q \in Proc : q # p => ChainAt(q)'
    BY DEF CauseInv, ChainAt, Cause, Behind, Skipped
  <1>. QED
    BY <1>1, SettledChain, ChainsKept DEF CauseInv

LEMMA CauseNext ==
  ASSUME SInv, CauseInv, [Next]_vars
  PROVE  CauseInv'
  <1>t. proc \in [Proc -> Call]
    BY DEF SInv, GInv, TypeOK
  <1>1. ASSUME NEW p \in Proc, Crash(p) \/ Recover(p) \/ \E t \in Tx : Commit(p, t)
        PROVE  CauseInv'
    <2>1. UNCHANGED <<receipts, journals, errors, package, inventory>>
      BY <1>1 DEF Crash, Recover, Commit, public, private
    <2>2. \A q \in Proc : q # p => proc'[q] = proc[q]
      BY <1>t, <1>1 DEF Crash, Recover, Commit
    <2>3. (proc[p].step)' \in {"idle", "scan", "reserve"}
      <3>1. CASE Crash(p)
        BY <1>t, <3>1 DEF Crash, Idle
      <3>2. CASE Recover(p)
        BY <1>t, <3>2 DEF Recover, Idle
      <3>3. ASSUME NEW t \in Tx, Commit(p, t)
            PROVE  (proc[p].step)' = "reserve"
        BY <1>t, <3>3 DEF Commit, Idle
      <3>. QED
        BY <1>1, <3>1, <3>2, <3>3
    <2>. QED
      BY <2>1, <2>2, <2>3, CauseFrame DEF Settled, Step, Fallible
  <1>2. CASE UNCHANGED vars
    BY <1>2 DEF vars, public, private, counts, CauseInv, Chains, ChainAt, Cause,
       Behind, Skipped
  <1>. QED
    BY <1>1, <1>2, CauseWriting, CauseRecovering DEF Next, Terminated

\* With one process at a time, recover() gives up only a transaction whose package
\* was built from another inventory, one an earlier recover() has resumed over
\* receipts it left out, or one that met a failed file operation: whatever else was
\* interrupted is resumed or restarted.
THEOREM SerialQuarantine ==
  ASSUME MaxLive = 1
  PROVE  Spec => QuarantineHasCause
  <1>1. Init => CauseInv
    <2>. SUFFICES ASSUME Init PROVE CauseInv
      OBVIOUS
    <2>1. \A p \in Proc : proc[p].step = "idle"
      BY DEF Init, Idle
    <2>2. \A t \in Tx : receipts[t] = {}
      BY DEF Init
    <2>. QED
      BY <2>1, <2>2 DEF CauseInv, Chains, ChainAt, Fallible, Committed
  <1>2. SInv /\ [Next]_vars => SInv'
    BY SerialNext
  <1>3. SInv /\ CauseInv /\ [Next]_vars => CauseInv'
    BY CauseNext
  <1>4. ASSUME CauseInv, [Next]_vars
        PROVE  [\A t \in quarantined' \ quarantined :
                   \/ package[t] # {} /\ package[t] # inventory
                   \/ Skipped(t)
                   \/ errors > 0]_vars
    <2>1. ASSUME NEW p \in Proc, Quarantine(p), NEW t \in quarantined' \ quarantined
          PROVE  Cause(t)
      BY <1>4, <2>1 DEF Quarantine, At, CauseInv, ChainAt
    <2>2. ASSUME NEW p \in Proc, Writing(p) PROVE UNCHANGED quarantined
      BY <2>2 DEF Writing, Reserve, WriteOwner, OwnerFails, MakeJournal, Receipt, StageManifest,
         StageBody, ValidateBody, LinkBody, LinkManifest, ReadInventory, ReplaceInventory,
         CheckInventory, OpenPackage, BuildPackage, Conflict, Raise, OperationFails, Unstage,
         Release, private
    <2>3. ASSUME NEW p \in Proc, Recovering(p) PROVE Quarantine(p) \/ UNCHANGED quarantined
      BY <2>3 DEF Recovering, Visit, Resume, UnlinkBody, UnlinkTmp, Unlock, RecoverEnds, private
    <2>4. ASSUME NEW p \in Proc, Crash(p) \/ Recover(p) \/ \E t \in Tx : Commit(p, t)
          PROVE  UNCHANGED quarantined
      BY <2>4 DEF Crash, Recover, Commit, private
    <2>5. CASE UNCHANGED vars
      BY <2>5
    <2>. QED
      BY <1>4, <2>1, <2>2, <2>3, <2>4, <2>5 DEF Next, Terminated, Cause
  <1>. QED
    BY <1>1, <1>2, <1>3, <1>4, SerialInit, PTL DEF Spec, QuarantineHasCause

-----------------------------------------------------------------------------
(***************************************************************************)
(* Any number of processes at a time: as long as no recover() works beside *)
(* another call, one commit() at a time is inside a transaction and the    *)
(* inventory names only exemplars that have been published.                *)
(***************************************************************************)
\* recover() has no company, and commit() takes none of its steps.
RecoverStep == {"scan", "unlinkBody", "unlinkTmp", "unlinkTmpOwned", "unlock",
                "unlockOwned", "quarantine"}
RecoversAlone ==
    /\ \A p, q \in Live : proc[p].op # "commit" => p = q
    /\ \A p \in Proc : proc[p].step \in RecoverStep => proc[p].op # "commit"

\* A commit() past its reservation holds it, and nobody else does.
Reserved ==
    \A p \in Proc : Inside(p) =>
        lock[proc[p].tx] = IF proc[p].step = "own" THEN "empty" ELSE "owned"
Exclusive ==
    \A p, q \in Proc : Inside(p) /\ Inside(q) /\ p # q => proc[p].tx # proc[q].tx
LockPart == RecoversAlone /\ Reserved /\ Exclusive

\* What a process has made sure of when it is at a step: ReadyAt without the promise
\* of an inventory entry, which another writer may have overwritten.
Promised(t) == BodyOf[t] \in bodies /\ t \in manifests
PromisesAt(p) ==
    LET t == proc[p].tx
        n == proc[p].next
        at == proc[p].step
    IN  /\ at = "receipt" => /\ n >= BodyPromoted => BodyOf[t] \in bodies
                             /\ n >= ManifestPromoted => t \in manifests
        /\ at = "receipt" /\ proc[p].op = "resumeManifest"
              => n >= ManifestProvisional /\ t \in manifests
        /\ at = "receipt" /\ proc[p].op = "resumeInventory" => n >= InventoryCommitted
        /\ at \in {"reserve", "own", "mkdir"} => n = BodyGenerating
        /\ at \in {"stageManifest", "stageBody"} => n = BodyWritten
        /\ at = "validate" => n = BodyValidated
        /\ at = "linkBody" => n = BodyPromoted
        /\ at = "linkManifest" => n \in ManifestProvisional .. ManifestPromoted
                                  /\ BodyOf[t] \in bodies
                                  /\ proc[p].op # "resumeInventory"
        /\ at \in {"readInventory", "replaceInventory", "checkInventory", "openPackage",
                    "package"}
              => n >= InventoryCommitted /\ Promised(t)
        /\ at \in {"replaceInventory", "checkInventory"}
              => \A u \in proc[p].seen : Promised(u)
Work(p) == PromisesAt(p) /\ RestartableAt(p)

ReceiptsBacked ==
    \A t \in Tx : /\ BodyPromoted \in receipts[t] => BodyOf[t] \in bodies
                  /\ ManifestPromoted \in receipts[t] => t \in manifests
FilesBacked == ManifestStaged /\ ReceiptsBacked /\ InventoryBacked
FilePart == FilesBacked /\ \A p \in Proc : Work(p)

WSafe == LockPart /\ FilePart
WInv  == GInv /\ (~beside => WSafe)

-----------------------------------------------------------------------------
(***************************************************************************)
(* Reservations.                                                           *)
(***************************************************************************)
\* A call that is past its reservation goes on, or ends, and leaves the locks alone.
LEMMA LockKept ==
  ASSUME LockPart, NEW p \in Live, UNCHANGED lock,
         \A q \in Proc : q # p => proc'[q] = proc[q],
         \/ proc'[p].step = "idle"
         \/ /\ proc'[p].op = proc[p].op /\ proc'[p].tx = proc[p].tx
            /\ proc[p].step \notin {"reserve", "own"} /\ proc'[p].step # "own"
            /\ proc'[p].step \in RecoverStep => proc'[p].op # "commit"
  PROVE  LockPart'
  <1>0. p \in Proc /\ \A q \in Live' : q \in Live
    BY DEF Live
  <1>1. \A q \in Proc : q # p => (Inside(q)' <=> Inside(q))
    BY DEF Inside
  <1>2. Inside(p)' => Inside(p) /\ proc'[p].tx = proc[p].tx /\ proc[p].step # "own"
                      /\ proc'[p].step # "own"
    BY DEF Inside, Live
  <1>3. RecoversAlone'
    BY <1>0 DEF LockPart, RecoversAlone, RecoverStep, Live
  <1>4. Reserved'
    BY <1>1, <1>2 DEF LockPart, Reserved
  <1>5. Exclusive'
    BY <1>1, <1>2 DEF LockPart, Exclusive
  <1>. QED
    BY <1>3, <1>4, <1>5 DEF LockPart

LEMMA WritingLock ==
  ASSUME GInv, LockPart, NEW p \in Proc, Writing(p)
  PROVE  LockPart'
  <1>. DEFINE t == proc[p].tx
  <1>0. /\ t \in Tx /\ proc[p] \in Call /\ proc \in [Proc -> Call]
        /\ lock \in [Tx -> {"none", "empty", "owned"}]
    BY DEF GInv, TypeOK, Call
  <1>d. /\ proc[p].step \in {"reserve", "own", "mkdir", "stageManifest", "stageBody",
                            "validate", "linkBody", "release"} => proc[p].op = "commit"
        /\ proc[p].step \in RecoverStep => proc[p].op # "commit"
    BY DEF GInv, Doing, LockPart, RecoversAlone
  <1>2. /\ p \in Live
        /\ \A q \in Proc : q # p => proc'[q] = proc[q]
    BY <1>0 DEF Writing, Live, At, Goto, Reserve, WriteOwner, OwnerFails, MakeJournal, Receipt,
       StageManifest, StageBody, ValidateBody, LinkBody, LinkManifest, ReadInventory,
       ReplaceInventory, CheckInventory, OpenPackage, BuildPackage, Conflict, Raise,
       OperationFails, Fallible, Unstage, Release
  <1>3. CASE Reserve(p)
    <2>1. CASE lock[t] = "none"
      <3>1. /\ lock' = [lock EXCEPT ![t] = "empty"] /\ proc' = [proc EXCEPT ![p].step = "own"]
            /\ proc[p].step = "reserve"
        BY <1>3, <2>1 DEF Reserve, At, Goto
      <3>2. /\ proc'[p].op = "commit" /\ proc'[p].tx = t /\ proc'[p].step = "own"
            /\ ~Inside(p)
        BY <1>0, <1>d, <3>1 DEF Call, Inside
      <3>3. \A q \in Proc : q # p => (Inside(q)' <=> Inside(q))
        BY <1>2 DEF Inside
      <3>4. \A q \in Proc : Inside(q) => proc[q].tx # t
        BY <2>1 DEF LockPart, Reserved
      <3>5. Exclusive'
        BY <1>2, <3>2, <3>3, <3>4 DEF LockPart, Exclusive
      <3>6. Reserved'
        BY <1>0, <1>2, <3>1, <3>2, <3>3, <3>4 DEF LockPart, Reserved
      <3>7. RecoversAlone'
        BY <1>2, <1>d, <3>1, <3>2 DEF LockPart, RecoversAlone, RecoverStep, Live
      <3>. QED
        BY <3>5, <3>6, <3>7 DEF LockPart
    <2>2. CASE lock[t] # "none"
      BY <1>0, <1>2, <1>3, <2>2, LockKept DEF Reserve, Idle
    <2>. QED
      BY <2>1, <2>2
  <1>4. CASE WriteOwner(p)
    <2>1. /\ lock' = [lock EXCEPT ![t] = IF @ = "empty" THEN "owned" ELSE @]
          /\ proc' = [proc EXCEPT ![p].step = "mkdir"] /\ proc[p].step = "own"
      BY <1>4 DEF WriteOwner, At, Goto
    <2>2. /\ proc'[p].op = "commit" /\ proc'[p].tx = t /\ proc'[p].step = "mkdir" /\ Inside(p)
      BY <1>0, <1>d, <2>1 DEF Call, Inside
    <2>3. \A q \in Proc : q # p => (Inside(q)' <=> Inside(q))
      BY <1>2 DEF Inside
    <2>4. \A q \in Proc : Inside(q) /\ q # p => proc[q].tx # t
      BY <2>2 DEF LockPart, Exclusive
    <2>5. lock[t] = "empty" /\ lock'[t] = "owned"
      BY <1>0, <2>1, <2>2 DEF LockPart, Reserved
    <2>6. Exclusive'
      BY <1>2, <2>2, <2>3, <2>4 DEF LockPart, Exclusive
    <2>7. Reserved'
      BY <1>0, <1>2, <2>1, <2>2, <2>3, <2>4, <2>5 DEF LockPart, Reserved
    <2>8. RecoversAlone'
      BY <1>2, <1>d, <2>1, <2>2 DEF LockPart, RecoversAlone, RecoverStep, Live
    <2>. QED
      BY <2>6, <2>7, <2>8 DEF LockPart
  <1>5. CASE Release(p)
    <2>1. /\ lock' = [lock EXCEPT ![t] = IF @ = "owned" THEN "none" ELSE @]
          /\ proc' = [proc EXCEPT ![p] = Idle] /\ proc[p].step = "release"
      BY <1>5 DEF Release, At
    <2>2. Inside(p) /\ proc'[p].step = "idle" /\ proc'[p].op = "none"
      BY <1>0, <1>d, <2>1 DEF Inside, Idle
    <2>3. ~Inside(p)' /\ \A q \in Proc : q # p => (Inside(q)' <=> Inside(q))
      BY <1>2, <2>2 DEF Inside
    <2>4. \A q \in Proc : Inside(q) /\ q # p => proc[q].tx # t
      BY <2>2 DEF LockPart, Exclusive
    <2>6. Exclusive'
      BY <1>2, <2>3 DEF LockPart, Exclusive
    <2>7. Reserved'
      BY <1>0, <1>2, <2>1, <2>3, <2>4 DEF LockPart, Reserved
    <2>8. RecoversAlone'
      BY <1>2, <1>d, <2>1, <2>2 DEF LockPart, RecoversAlone, RecoverStep, Live
    <2>. QED
      BY <2>6, <2>7, <2>8 DEF LockPart
  <1>6. CASE OwnerFails(p)
    BY <1>0, <1>2, <1>6, LockKept DEF OwnerFails, Idle, private
  <1>7. CASE MakeJournal(p) \/ StageManifest(p) \/ StageBody(p)
    BY <1>0, <1>2, <1>7, LockKept
    DEF MakeJournal, StageManifest, StageBody, At, Goto, Call, RecoverStep
  <1>8. CASE ValidateBody(p) \/ LinkBody(p) \/ LinkManifest(p)
    BY <1>0, <1>2, <1>8, LockKept
    DEF ValidateBody, LinkBody, LinkManifest, At, Goto, Call, RecoverStep, private
  <1>9. CASE ReadInventory(p) \/ ReplaceInventory(p) \/ OpenPackage(p)
    BY <1>0, <1>2, <1>9, LockKept
    DEF ReadInventory, ReplaceInventory, OpenPackage, At, Goto, Call, RecoverStep, private
  <1>10. CASE CheckInventory(p)
    <2>1. /\ UNCHANGED lock /\ proc[p].step = "checkInventory"
          /\ proc'[p].op = proc[p].op /\ proc'[p].tx = t
          /\ proc'[p].step \in {"receipt", "openPackage"}
      BY <1>0, <1>10 DEF CheckInventory, At, Goto, Call, private
    <2>. QED
      BY <1>2, <2>1, LockKept DEF RecoverStep
  <1>11. CASE BuildPackage(p)
    <2>1. /\ UNCHANGED lock /\ proc[p].step = "package"
          /\ proc'[p].op = proc[p].op /\ proc'[p].tx = t
          /\ proc'[p].step \in {"receipt", Raised(p)}
      BY <1>0, <1>11 DEF BuildPackage, At, Goto, Call, private
    <2>. QED
      BY <1>2, <2>1, LockKept DEF RecoverStep, Raised
  <1>12. CASE Conflict(p) \/ OperationFails(p)
    <2>1. /\ UNCHANGED lock /\ proc[p].step \notin {"reserve", "own"}
          /\ proc'[p].op = proc[p].op /\ proc'[p].tx = t /\ proc'[p].step = Raised(p)
      BY <1>0, <1>12
      DEF Conflict, Raise, OperationFails, Fallible, At, Goto, Call, private
    <2>. QED
      BY <1>2, <2>1, LockKept DEF RecoverStep, Raised
  <1>13. CASE Unstage(p)
    <2>1. /\ UNCHANGED lock /\ proc[p].step = "unstage"
          /\ proc'[p].op = proc[p].op /\ proc'[p].tx = t
          /\ proc'[p].step \in {"unstage", IF proc[p].op = "commit" THEN "release" ELSE "scan"}
      BY <1>0, <1>13 DEF Unstage, At, Goto, Call
    <2>. QED
      BY <1>2, <2>1, LockKept DEF RecoverStep
  <1>14. CASE Receipt(p)
    <2>1. /\ UNCHANGED lock /\ proc[p].step = "receipt"
          /\ proc'[p].op = proc[p].op /\ proc'[p].tx = t
          /\ proc'[p].step = Then(proc[p].op, proc[p].next)
      BY <1>0, <1>14 DEF Receipt, At, Call
    <2>2. proc[p].op \in {"commit", "resumeManifest", "resumeInventory"}
      BY <2>1 DEF GInv, Doing
    <2>3. CASE proc[p].op = "commit"
      BY <1>2, <2>1, <2>3, LockKept DEF RecoverStep, Then, CommitThen
    <2>4. CASE proc[p].op = "resumeManifest"
      BY <1>2, <2>1, <2>4, LockKept DEF RecoverStep, Then, ResumeManifestThen
    <2>5. CASE proc[p].op = "resumeInventory"
      BY <1>2, <2>1, <2>5, LockKept DEF RecoverStep, Then, ResumeInventoryThen
    <2>. QED
      BY <2>2, <2>3, <2>4, <2>5
  <1>. QED
    BY <1>3, <1>4, <1>5, <1>6, <1>7, <1>8, <1>9, <1>10, <1>11, <1>12, <1>13, <1>14 DEF Writing

\* recover() works when no commit() is under way.
LEMMA RecoveringLock ==
  ASSUME GInv, LockPart, NEW p \in Proc, Recovering(p)
  PROVE  LockPart'
  <1>0. proc[p] \in Call /\ proc \in [Proc -> Call]
    BY DEF GInv, TypeOK
  <1>1. p \in Live /\ proc[p].op # "commit"
    BY DEF LockPart, RecoversAlone, RecoverStep, Recovering, Live, At, Visit, Resume,
       UnlinkBody, UnlinkTmp, Unlock, Quarantine, RecoverEnds
  <1>2. \A q \in Proc : q # p => proc[q].step = "idle" /\ proc'[q] = proc[q]
    BY <1>0, <1>1 DEF LockPart, RecoversAlone, Live, Recovering, At, Goto, Visit, Resume,
       UnlinkBody, UnlinkTmp, Unlock, Quarantine, RecoverEnds
  <1>3. proc'[p].op # "commit"
    <2>1. ASSUME NEW t \in Tx, Visit(p, t) \/ Resume(p, t)
          PROVE  proc'[p].op # "commit"
      BY <1>0, <2>1 DEF Visit, Resume, Call
    <2>2. CASE UnlinkBody(p) \/ UnlinkTmp(p) \/ Unlock(p) \/ Quarantine(p)
      BY <1>0, <1>1, <2>2 DEF UnlinkBody, UnlinkTmp, Unlock, Quarantine, Goto, Call
    <2>3. CASE RecoverEnds(p)
      BY <1>0, <2>3 DEF RecoverEnds, Idle
    <2>. QED
      BY <2>1, <2>2, <2>3 DEF Recovering
  <1>4. \A q \in Proc : ~Inside(q)'
    BY <1>2, <1>3 DEF Inside
  <1>5. RecoversAlone'
    BY <1>2, <1>3 DEF RecoversAlone, RecoverStep, Live
  <1>. QED
    BY <1>4, <1>5 DEF LockPart, Reserved, Exclusive

-----------------------------------------------------------------------------
(***************************************************************************)
(* Files.                                                                  *)
(***************************************************************************)
LEMMA CalmWork ==
  ASSUME NEW p \in Proc, proc[p].step \in Calm
  PROVE  Work(p)
  BY DEF Calm, Work, PromisesAt, RestartableAt

LEMMA CalmWorkNext ==
  ASSUME NEW p \in Proc, (proc[p].step)' \in Calm
  PROVE  Work(p)'
  BY DEF Calm, Work, PromisesAt, RestartableAt

\* What a step of commit() leaves to the other writers: it publishes, and otherwise
\* changes the journal of its own transaction only.
OwnFiles(p) ==
    /\ bodies \subseteq bodies' /\ manifests \subseteq manifests'
    /\ \A t \in Tx : t # proc[p].tx => receipts'[t] = receipts[t] /\ staged'[t] = staged[t]

LEMMA WorkStep ==
  ASSUME GInv, WSafe, LockPart', NEW p \in Live,
         \/ proc[p].op # "commit"
         \/ UNCHANGED files
         \/ Inside(p) /\ OwnFiles(p),
         \A q \in Proc : q # p => proc'[q] = proc[q],
         Work(p)', FilesBacked'
  PROVE  WSafe'
  <1>1. ASSUME NEW q \in Proc, q # p
        PROVE  Work(q)'
    <2>0. proc'[q] = proc[q] /\ proc[q].tx \in Tx
      BY <1>1 DEF GInv, TypeOK, Call
    <2>1. CASE proc[q].step = "idle"
      BY <2>0, <2>1, CalmWorkNext DEF Calm
    <2>2. CASE proc[q].step # "idle"
      <3>1. q \in Live /\ proc[q].op = "commit" /\ proc[p].op = "commit"
        BY <1>1, <2>2 DEF WSafe, LockPart, RecoversAlone, Live
      <3>2. Work(q)
        BY DEF WSafe, FilePart
      <3>3. CASE proc[q].step = "reserve"
        BY <2>0, <3>2, <3>3 DEF Work, PromisesAt, RestartableAt
      <3>4. CASE UNCHANGED files
        <4>0. /\ bodies' = bodies /\ manifests' = manifests
              /\ receipts'[proc[q].tx] = receipts[proc[q].tx]
              /\ staged'[proc[q].tx] = staged[proc[q].tx]
          BY <3>4 DEF files
        <4>1. PromisesAt(q)'
          BY <2>0, <3>2, <4>0 DEF Work, PromisesAt, Promised
        <4>2. RestartableAt(q)'
          BY <2>0, <3>2, <4>0 DEF Work, RestartableAt
        <4>. QED
          BY <4>1, <4>2 DEF Work
      <3>5. CASE proc[q].step # "reserve" /\ Inside(p) /\ OwnFiles(p)
        <4>1. proc[q].tx # proc[p].tx
          BY <1>1, <2>2, <3>1, <3>5 DEF WSafe, LockPart, Exclusive, Inside, Live
        <4>2. /\ bodies \subseteq bodies' /\ manifests \subseteq manifests'
              /\ receipts'[proc[q].tx] = receipts[proc[q].tx]
              /\ staged'[proc[q].tx] = staged[proc[q].tx]
          BY <2>0, <3>5, <4>1 DEF OwnFiles
        <4>3. PromisesAt(q)'
          BY <2>0, <3>2, <4>2 DEF Work, PromisesAt, Promised
        <4>4. RestartableAt(q)'
          BY <2>0, <3>2, <4>2 DEF Work, RestartableAt
        <4>. QED
          BY <4>3, <4>4 DEF Work
      <3>. QED
        BY <3>1, <3>3, <3>4, <3>5
    <2>. QED
      BY <2>1, <2>2
  <1>. QED
    BY <1>1 DEF WSafe, FilePart, Live

LEMMA QuietWork ==
  ASSUME GInv, WSafe, LockPart', NEW p \in Live, UNCHANGED files,
         \A q \in Proc : q # p => proc'[q] = proc[q],
         Work(p)'
  PROVE  WSafe'
  <1>1. FilesBacked'
    BY DEF WSafe, FilePart, FilesBacked, ManifestStaged, ReceiptsBacked, InventoryBacked, files
  <1>. QED
    BY <1>1, WorkStep

LEMMA WritersWriting ==
  ASSUME GInv, GInv', WSafe, LockPart', NEW p \in Proc, Writing(p)
  PROVE  WSafe'
  <1>. DEFINE t == proc[p].tx
              n == proc[p].next
  <1>0. /\ proc[p] \in Call /\ t \in Tx /\ n \in JournalState
        /\ proc \in [Proc -> Call] /\ receipts \in [Tx -> SUBSET JournalState]
        /\ staged \in [Tx -> SUBSET {"body.tmp", "manifest.tmp"}]
    BY DEF GInv, TypeOK, Call
  <1>1. Work(p) /\ FilesBacked
    BY DEF WSafe, FilePart
  <1>n. n \in 1 .. 12
    BY <1>0 DEF JournalState, BodyGenerating, Committed
  <1>d. proc[p].step \in {"mkdir", "validate", "stageBody", "linkBody"} => proc[p].op = "commit"
    BY DEF GInv, Doing
  <1>2. /\ p \in Live
        /\ \A q \in Proc : q # p => proc'[q] = proc[q]
    BY <1>0 DEF Writing, Live, At, Goto, Reserve, WriteOwner, OwnerFails, MakeJournal, Receipt,
       StageManifest, StageBody, ValidateBody, LinkBody, LinkManifest, ReadInventory,
       ReplaceInventory, CheckInventory, OpenPackage, BuildPackage, Conflict, Raise,
       OperationFails, Fallible, Unstage, Release
  <1>f. \/ proc[p].op # "commit"
        \/ UNCHANGED files
        \/ Inside(p) /\ OwnFiles(p)
    BY <1>0 DEF Writing, Inside, OwnFiles, files, public, private, At, Reserve, WriteOwner,
       OwnerFails, MakeJournal, Receipt, StageManifest, StageBody, ValidateBody, LinkBody,
       LinkManifest, ReadInventory, ReplaceInventory, CheckInventory, OpenPackage,
       BuildPackage, Conflict, Raise, OperationFails, Fallible, Unstage, Release
  <1>3. CASE Reserve(p)
    <2>1. UNCHANGED files
      BY <1>3 DEF Reserve, files, public, private
    <2>2. Work(p)'
      BY <1>0, <1>1, <1>3, IdleType, <2>1 DEF files, Reserve, Work, PromisesAt, Promised,
         RestartableAt, At, Goto, Call, Idle
    <2>. QED
      BY <1>2, <2>1, <2>2, QuietWork
  <1>4. CASE WriteOwner(p)
    <2>1. UNCHANGED files
      BY <1>4 DEF WriteOwner, files, public, private
    <2>2. Work(p)'
      BY <1>0, <1>1, <1>4, <2>1 DEF files, WriteOwner, Work, PromisesAt, Promised,
         RestartableAt, At, Goto, Call
    <2>. QED
      BY <1>2, <2>1, <2>2, QuietWork
  <1>5. CASE OwnerFails(p)
    <2>1. UNCHANGED files
      BY <1>5 DEF OwnerFails, files, public, private
    <2>2. Work(p)'
      BY <1>0, <1>1, <1>5, <2>1 DEF files, OwnerFails, Work, PromisesAt, Promised,
         RestartableAt, At, Goto, Call, Idle
    <2>. QED
      BY <1>2, <2>1, <2>2, QuietWork
  <1>6. CASE MakeJournal(p)
    <2>1. UNCHANGED files
      BY <1>6 DEF MakeJournal, files, public, private
    <2>2. Work(p)'
      BY <1>0, <1>1, <1>d, <1>6, <2>1 DEF files, ManifestProvisional, MakeJournal, Work,
         PromisesAt, Promised, RestartableAt, At, Goto, Call, BodyGenerating,
         BodyPromoted, BodyWritten, ManifestPromoted, InventoryCommitted
    <2>. QED
      BY <1>2, <2>1, <2>2, QuietWork
  <1>7. CASE ValidateBody(p)
    <2>1. UNCHANGED files
      BY <1>7 DEF ValidateBody, files, public, private
    <2>2. Work(p)'
      BY <1>0, <1>1, <1>d, <1>7, <2>1 DEF files, ManifestProvisional, ValidateBody, Work,
         PromisesAt, Promised, RestartableAt, At, Goto, Call, BodyValidated, BodyPromoted,
         ManifestPromoted, InventoryCommitted
    <2>. QED
      BY <1>2, <2>1, <2>2, QuietWork
  <1>8. CASE ReadInventory(p)
    <2>1. UNCHANGED files
      BY <1>8 DEF ReadInventory, files, public, private
    <2>2. Work(p)'
      BY <1>0, <1>1, <1>8, <2>1 DEF files, ReadInventory, Work, PromisesAt, Promised,
         RestartableAt, At,
         Goto, Call, FilesBacked, InventoryBacked
    <2>. QED
      BY <1>2, <2>1, <2>2, QuietWork
  <1>9. CASE CheckInventory(p)
    <2>1. UNCHANGED files
      BY <1>9 DEF CheckInventory, files, public, private
    <2>2. Work(p)'
      BY <1>0, <1>1, <1>n, <1>9, <2>1 DEF files, ManifestProvisional, CheckInventory,
         Work, PromisesAt, Promised, RestartableAt, At, Goto, Call, BodyPromoted,
         InventoryCommitted, BodyWritten, ManifestPromoted
    <2>. QED
      BY <1>2, <2>1, <2>2, QuietWork
  <1>10. CASE OpenPackage(p)
    <2>1. UNCHANGED files
      BY <1>10 DEF OpenPackage, files, public, private
    <2>2. Work(p)'
      BY <1>0, <1>1, <1>10, <2>1 DEF files, OpenPackage, Work, PromisesAt, Promised,
         RestartableAt, At, Goto, Call
    <2>. QED
      BY <1>2, <2>1, <2>2, QuietWork
  <1>11. CASE BuildPackage(p)
    <2>1. UNCHANGED files
      BY <1>11 DEF BuildPackage, files, public, private
    <2>2. Work(p)'
      BY <1>0, <1>1, <1>n, <1>11, <2>1 DEF files, ManifestProvisional, BuildPackage, Work,
         PromisesAt, Promised, RestartableAt, At, Goto, Call, Raised, BodyPromoted,
         InventoryCommitted, BodyWritten, ManifestPromoted
    <2>. QED
      BY <1>2, <2>1, <2>2, QuietWork
  <1>12. CASE Conflict(p)
    <2>1. UNCHANGED files
      BY <1>12 DEF Conflict, Raise, files, public, private
    <2>2. Work(p)'
      BY <1>0, <1>1, <1>12, <2>1 DEF files, Conflict, Work, PromisesAt, Promised,
         RestartableAt, At, Goto, Call, Raise, Raised
    <2>. QED
      BY <1>2, <2>1, <2>2, QuietWork
  <1>13. CASE OperationFails(p)
    <2>1. UNCHANGED files
      BY <1>13 DEF OperationFails, files, public, private
    <2>2. Work(p)'
      BY <1>0, <1>1, <1>13, <2>1 DEF files, OperationFails, Work, PromisesAt, Promised,
         RestartableAt, At, Goto, Call, Raised
    <2>. QED
      BY <1>2, <2>1, <2>2, QuietWork
  <1>14. CASE Release(p)
    <2>1. UNCHANGED files
      BY <1>14 DEF Release, files, public, private
    <2>2. Work(p)'
      BY <1>0, <1>1, <1>14, <2>1 DEF files, Release, Work, PromisesAt, Promised,
         RestartableAt, At, Goto, Call, Idle
    <2>. QED
      BY <1>2, <2>1, <2>2, QuietWork
  <1>15. CASE Receipt(p)
    <2>1. /\ receipts' = [receipts EXCEPT ![t] = @ \cup {n}]
          /\ UNCHANGED <<bodies, manifests, inventory, staged>>
          /\ proc[p].step = "receipt"
          /\ proc'[p].tx = t
          /\ proc'[p].step = Then(proc[p].op, n)
          /\ proc'[p].op = proc[p].op
          /\ n < Committed => proc'[p].next = n + 1
      BY <1>0, <1>15 DEF Receipt, Call, public, At
    <2>2. FilesBacked'
      BY <1>0, <1>1, <2>1 DEF FilesBacked, ManifestStaged, ReceiptsBacked,
         InventoryBacked, Promised, Work, PromisesAt, Promised,
         RestartableAt, JournalState, BodyGenerating, BodyWritten, BodyValidated, BodyDigested, BodyPromoted, ManifestProvisional,
         LinkageFinalized, ManifestValidated, ManifestPromoted, InventoryCommitted, PackageValidated, Committed
    <2>3. proc[p].op \in {"commit", "resumeManifest", "resumeInventory"}
      BY <2>1 DEF GInv, Doing
    <2>4. n \in 1 .. 12
      BY <1>0 DEF JournalState, BodyGenerating, Committed
    <2>5. CASE proc[p].op = "commit"
      <3>1. Work(p)'
        BY <1>0, <1>1, <2>1, <2>4, <2>5 DEF Then, CommitThen, Work, PromisesAt,
           Promised, RestartableAt,
           JournalState, BodyGenerating, BodyWritten, BodyValidated, BodyDigested, BodyPromoted, ManifestProvisional,
         LinkageFinalized, ManifestValidated, ManifestPromoted, InventoryCommitted, PackageValidated, Committed
      <3>. QED
        BY <1>2, <2>2, <3>1, <1>f, WorkStep
    <2>6. CASE proc[p].op = "resumeManifest"
      <3>1. Work(p)'
        BY <1>0, <1>1, <2>1, <2>4, <2>6 DEF Then, ResumeManifestThen, Work, PromisesAt,
           Promised, RestartableAt,
           JournalState, BodyGenerating, BodyWritten, BodyValidated, BodyDigested, BodyPromoted, ManifestProvisional,
         LinkageFinalized, ManifestValidated, ManifestPromoted, InventoryCommitted, PackageValidated, Committed
      <3>. QED
        BY <1>2, <2>2, <3>1, <1>f, WorkStep
    <2>7. CASE proc[p].op = "resumeInventory"
      <3>1. Work(p)'
        BY <1>0, <1>1, <2>1, <2>4, <2>7 DEF Then, ResumeInventoryThen, Work, PromisesAt,
           Promised, RestartableAt,
           JournalState, BodyGenerating, BodyWritten, BodyValidated, BodyDigested, BodyPromoted, ManifestProvisional,
         LinkageFinalized, ManifestValidated, ManifestPromoted, InventoryCommitted, PackageValidated, Committed
      <3>. QED
        BY <1>2, <2>2, <3>1, <1>f, WorkStep
    <2>. QED
      BY <2>3, <2>5, <2>6, <2>7
  <1>16. CASE StageManifest(p)
    <2>1. FilesBacked'
      BY <1>0, <1>1, <1>16 DEF StageManifest, FilesBacked, ManifestStaged, ReceiptsBacked,
         InventoryBacked, Promised,
         Work, PromisesAt, Promised, RestartableAt, At, public, private
    <2>2. Work(p)'
      BY <1>0, <1>1, <1>16 DEF StageManifest, Work, PromisesAt, Promised, RestartableAt,
         At, Goto, Call, public, private,
         BodyWritten, BodyPromoted, ManifestProvisional, ManifestPromoted, InventoryCommitted
    <2>. QED
      BY <1>2, <2>1, <2>2, <1>f, WorkStep
  <1>17. CASE StageBody(p)
    <2>1. FilesBacked'
      BY <1>0, <1>1, <1>17 DEF StageBody, FilesBacked, ManifestStaged, ReceiptsBacked,
         InventoryBacked, Promised,
         Work, PromisesAt, Promised, RestartableAt, At, public, private
    <2>2. Work(p)'
      BY <1>0, <1>1, <1>d, <1>17 DEF StageBody, Work, PromisesAt, Promised, RestartableAt,
         At, Goto, Call, public, private,
         BodyWritten, BodyPromoted, ManifestProvisional, ManifestPromoted, InventoryCommitted
    <2>. QED
      BY <1>2, <2>1, <2>2, <1>f, WorkStep
  <1>18. CASE LinkBody(p)
    <2>1. FilesBacked'
      BY <1>0, <1>1, <1>18 DEF LinkBody, FilesBacked, ManifestStaged, ReceiptsBacked,
         InventoryBacked, Promised,
         Work, PromisesAt, Promised, RestartableAt, At, public, private
    <2>2. Work(p)'
      BY <1>0, <1>1, <1>d, <1>18 DEF LinkBody, Work, PromisesAt, Promised, RestartableAt,
         At, Goto, Call, public, private,
         BodyWritten, BodyPromoted, ManifestProvisional, ManifestPromoted, InventoryCommitted
    <2>. QED
      BY <1>2, <2>1, <2>2, <1>f, WorkStep
  <1>19. CASE LinkManifest(p)
    <2>1. FilesBacked'
      BY <1>0, <1>1, <1>19 DEF LinkManifest, FilesBacked, ManifestStaged, ReceiptsBacked,
         InventoryBacked, Promised,
         Work, PromisesAt, Promised, RestartableAt, At, public, private
    <2>2. Work(p)'
      BY <1>0, <1>1, <1>d, <1>19 DEF LinkManifest, Work, PromisesAt, Promised,
         RestartableAt, At, Goto, Call, public, private,
         BodyWritten, BodyPromoted, ManifestProvisional, ManifestPromoted, InventoryCommitted, ManifestReadable
    <2>. QED
      BY <1>2, <2>1, <2>2, <1>f, WorkStep
  <1>20. CASE ReplaceInventory(p)
    <2>1. FilesBacked'
      BY <1>0, <1>1, <1>20 DEF ReplaceInventory, FilesBacked, ManifestStaged,
         ReceiptsBacked, InventoryBacked, Promised,
         Work, PromisesAt, Promised, RestartableAt, At, public, private
    <2>2. Work(p)'
      BY <1>0, <1>1, <1>20 DEF ReplaceInventory, Work, PromisesAt, Promised,
         RestartableAt, At, Goto, Call, public, private,
         BodyWritten, BodyPromoted, ManifestProvisional, ManifestPromoted, InventoryCommitted
    <2>. QED
      BY <1>2, <2>1, <2>2, <1>f, WorkStep
  <1>21. CASE Unstage(p)
    <2>1. FilesBacked'
      BY <1>0, <1>1, <1>21 DEF Unstage, FilesBacked, ManifestStaged, ReceiptsBacked,
         InventoryBacked, Promised,
         Work, PromisesAt, Promised, RestartableAt, At, public, private
    <2>2. Work(p)'
      BY <1>0, <1>1, <1>21 DEF Unstage, Work, PromisesAt, Promised, RestartableAt, At,
         Goto, Call, public, private,
         BodyWritten, BodyPromoted, ManifestProvisional, ManifestPromoted, InventoryCommitted
    <2>. QED
      BY <1>2, <2>1, <2>2, <1>f, WorkStep
  <1>. QED
    BY <1>3, <1>4, <1>5, <1>6, <1>7, <1>8, <1>9, <1>10, <1>11, <1>12, <1>13, <1>14, <1>15, <1>16,
       <1>17, <1>18, <1>19, <1>20, <1>21 DEF Writing

LEMMA WritersRecovering ==
  ASSUME GInv, GInv', WSafe, LockPart', NEW p \in Proc, Recovering(p)
  PROVE  WSafe'
  <1>. DEFINE v == proc[p].tx
  <1>0. /\ TypeOK /\ proc[p] \in Call /\ v \in Tx
        /\ proc \in [Proc -> Call] /\ receipts \in [Tx -> SUBSET JournalState]
        /\ staged \in [Tx -> SUBSET {"body.tmp", "manifest.tmp"}]
    BY DEF GInv, TypeOK, Call
  <1>1. Work(p) /\ FilesBacked
    BY DEF WSafe, FilePart
  <1>2. /\ p \in Live
        /\ \A q \in Proc : q # p => proc'[q] = proc[q]
    BY <1>0 DEF Recovering, Live, At, Goto, Visit, Resume, UnlinkBody, UnlinkTmp, Unlock,
       Quarantine, RecoverEnds
  <1>f. proc[p].op # "commit"
    BY DEF WSafe, LockPart, RecoversAlone, RecoverStep, Recovering, At, Visit, Resume,
       UnlinkBody, UnlinkTmp, Unlock, Quarantine, RecoverEnds
  <1>3. ASSUME NEW t \in Tx, Visit(p, t)
        PROVE  WSafe'
    <2>1. UNCHANGED files
      BY <1>3 DEF Visit, files, public, private
    <2>2. /\ proc'[p].tx = t /\ proc'[p].step = Disposition(t) /\ ~Resumable(t)
      BY <1>0, <1>3 DEF Visit, Call
    <2>3. CASE ~Kept(t)
      BY <1>2, <2>1, <2>2, <2>3, CalmWorkNext, QuietWork DEF Disposition, Calm
    <2>4. CASE Kept(t)
      <3>1. /\ Last(t) \in 0 .. 12 /\ Valid(t)
            /\ \A n \in JournalState : n \in receipts[t] <=> n <= Last(t)
        BY <1>0, <2>4, ChainFacts DEF Kept
      <3>2. ~ (Last(t) \in BodyPromoted .. Committed - 1)
        <4>. SUFFICES ASSUME Last(t) \in BodyPromoted .. Committed - 1 PROVE FALSE
          OBVIOUS
        <4>1. BodyPromoted \in receipts[t] /\ Committed \notin receipts[t]
          BY <3>1 DEF JournalState, BodyGenerating, BodyPromoted, Committed
        <4>2. "manifest.tmp" \in staged[t]
          BY <1>1, <4>1 DEF FilesBacked, ManifestStaged
        <4>. QED
          BY <2>2, <3>1, <4>2 DEF Resumable
      <3>3. Disposition(t) \in {"unlinkTmp", "unlinkTmpOwned"}
        BY <2>4, <3>1, <3>2 DEF Disposition, BodyPromoted, Committed
      <3>4. BodyPromoted \notin receipts[t] \/ Committed \in receipts[t]
        BY <3>1, <3>2 DEF JournalState, BodyGenerating, BodyPromoted, Committed
      <3>5. Work(p)'
        BY <2>1, <2>2, <3>3, <3>4 DEF Work, PromisesAt, Promised, RestartableAt, files
      <3>. QED
        BY <1>2, <2>1, <3>5, QuietWork
    <2>. QED
      BY <2>3, <2>4
  <1>4. ASSUME NEW t \in Tx, Resume(p, t)
        PROVE  WSafe'
    <2>1. UNCHANGED files
      BY <1>4 DEF Resume, files, public, private
    <2>2. /\ Last(t) \in BodyPromoted .. Committed - 1 /\ Valid(t)
          /\ BodyOf[t] \in bodies
          /\ Last(t) >= ManifestPromoted => t \in manifests
      BY <1>0, <1>4, ChainFacts DEF Resume, Resumable, BodyPromoted, Committed
    <2>3. /\ proc'[p].tx = t /\ proc'[p].step = ResumeStep(Last(t))
          /\ proc'[p].op = IF Last(t) < ManifestPromoted THEN "resumeManifest"
                                                        ELSE "resumeInventory"
          /\ proc'[p].next = IF Last(t) < ManifestPromoted THEN ManifestPromoted
                                                          ELSE Last(t) + 1
      BY <1>0, <1>4 DEF Resume, ResumeFrom, Call
    <2>4. Work(p)'
      BY <2>1, <2>2, <2>3 DEF Work, PromisesAt, Promised, RestartableAt, files,
         ResumeStep, BodyPromoted,
         ManifestProvisional, ManifestPromoted, InventoryCommitted, Committed
    <2>. QED
      BY <1>2, <2>1, <2>4, QuietWork
  <1>5. CASE UnlinkBody(p)
    BY <1>1, <1>5 DEF UnlinkBody, At, Work, RestartableAt
  <1>6. CASE UnlinkTmp(p)
    <2>1. FilesBacked'
      BY <1>0, <1>1, <1>6 DEF UnlinkTmp, FilesBacked, ManifestStaged, ReceiptsBacked,
         InventoryBacked, Promised, Work, RestartableAt, public
    <2>2. Work(p)'
      BY <1>0, <1>1, <1>6 DEF UnlinkTmp, Work, PromisesAt, Promised, RestartableAt, At,
         Goto, Call, public
    <2>. QED
      BY <1>2, <2>1, <2>2, <1>f, WorkStep
  <1>7. CASE Unlock(p)
    <2>1. UNCHANGED files
      BY <1>7 DEF Unlock, files, public
    <2>2. (proc[p].step)' \in Calm
      BY <1>0, <1>7 DEF Unlock, Goto, Call, Calm
    <2>. QED
      BY <1>2, <2>1, <2>2, CalmWorkNext, QuietWork
  <1>8. CASE Quarantine(p)
    <2>1. FilesBacked'
      BY <1>0, <1>1, <1>8 DEF Quarantine, FilesBacked, ManifestStaged, ReceiptsBacked,
         InventoryBacked, Promised, public
    <2>2. (proc[p].step)' \in Calm
      BY <1>0, <1>8 DEF Quarantine, Goto, Call, Calm
    <2>. QED
      BY <1>2, <2>1, <2>2, CalmWorkNext, <1>f, WorkStep
  <1>9. CASE RecoverEnds(p)
    <2>1. UNCHANGED files
      BY <1>9 DEF RecoverEnds, files, public, private
    <2>2. (proc[p].step)' \in Calm
      BY <1>0, <1>9 DEF RecoverEnds, Idle, Calm
    <2>. QED
      BY <1>2, <2>1, <2>2, CalmWorkNext, QuietWork
  <1>. QED
    BY <1>3, <1>4, <1>5, <1>6, <1>7, <1>8, <1>9 DEF Recovering

\* A call starts: recover() when no other is in progress, commit() beside commits.
LEMMA StartWork ==
  ASSUME GInv, WSafe, NEW op \in {"commit", "recover"}, MayStart(op), ~beside',
         NEW p \in Proc, proc[p].step = "idle", UNCHANGED <<files, lock>>,
         \A q \in Proc : q # p => proc'[q] = proc[q],
         proc'[p].op = op,
         proc'[p].step = IF op = "commit" THEN "reserve" ELSE "scan",
         Work(p)'
  PROVE  WSafe'
  <1>1. /\ \A q \in Live : proc[q].op = "commit"
        /\ op = "recover" => Live = {}
    BY DEF MayStart
  <1>2. RecoversAlone'
    BY <1>1 DEF WSafe, LockPart, RecoversAlone, RecoverStep, Live
  <1>3. ~Inside(p)' /\ \A q \in Proc : q # p => (Inside(q)' <=> Inside(q))
    BY DEF Inside
  <1>4. Reserved' /\ Exclusive'
    BY <1>3 DEF WSafe, LockPart, Reserved, Exclusive
  <1>5. FilesBacked'
    BY DEF WSafe, FilePart, FilesBacked, ManifestStaged, ReceiptsBacked, InventoryBacked, files
  <1>6. ASSUME NEW q \in Proc, q # p
        PROVE  Work(q)'
    <2>1. Work(q) /\ proc'[q] = proc[q]
      BY <1>6 DEF WSafe, FilePart
    <2>. QED
      BY <2>1 DEF Work, PromisesAt, RestartableAt, Promised, files
  <1>. QED
    BY <1>2, <1>4, <1>5, <1>6 DEF WSafe, LockPart, FilePart

LEMMA WritersNext ==
  ASSUME WInv, [Next]_vars
  PROVE  WInv'
  <1>0. GInv /\ GInv'
    BY NextInv DEF WInv
  <1>. SUFFICES ASSUME ~beside' PROVE WSafe'
    BY <1>0 DEF WInv
  <1>t. proc \in [Proc -> Call] /\ beside \in BOOLEAN
    BY <1>0 DEF GInv, TypeOK
  <1>1. ASSUME NEW p \in Proc, NEW t \in Tx, Commit(p, t)
        PROVE  WSafe'
    <2>1. /\ UNCHANGED <<files, lock>> /\ MayStart("commit")
          /\ \A q \in Proc : q # p => proc'[q] = proc[q]
          /\ proc[p].step = "idle"
      BY <1>1 DEF Commit, files, public, private, At
    <2>b. ~beside
      BY <2>1 DEF MayStart
    <2>2. Work(p)' /\ proc'[p].op = "commit" /\ proc'[p].step = "reserve"
      BY <1>t, <1>1 DEF Commit, Idle, Work, PromisesAt, RestartableAt
    <2>. QED
      BY <1>0, <2>1, <2>b, <2>2, StartWork DEF WInv
  <1>2. ASSUME NEW p \in Proc, Recover(p)
        PROVE  WSafe'
    <2>1. /\ UNCHANGED <<files, lock>> /\ MayStart("recover")
          /\ \A q \in Proc : q # p => proc'[q] = proc[q]
          /\ proc[p].step = "idle"
      BY <1>2 DEF Recover, files, public, private, At
    <2>b. ~beside
      BY <2>1 DEF MayStart
    <2>2. proc'[p].op = "recover" /\ proc'[p].step = "scan"
      BY <1>t, <1>2 DEF Recover, Idle
    <2>3. Work(p)'
      BY <2>2, CalmWorkNext DEF Calm
    <2>. QED
      BY <1>0, <2>1, <2>b, <2>2, <2>3, StartWork DEF WInv
  <1>3. ASSUME NEW p \in Proc, Crash(p)
        PROVE  WSafe'
    <2>1. /\ UNCHANGED files /\ UNCHANGED lock /\ p \in Live /\ ~beside
          /\ \A q \in Proc : q # p => proc'[q] = proc[q]
          /\ proc'[p].step = "idle"
      BY <1>t, <1>3 DEF Crash, files, public, private, Idle
    <2>2. LockPart'
      BY <1>0, <2>1, LockKept DEF WInv, WSafe
    <2>. QED
      BY <1>0, <2>1, <2>2, CalmWorkNext, QuietWork DEF WInv, Calm
  <1>4. ASSUME NEW p \in Proc, Writing(p) \/ Recovering(p)
        PROVE  WSafe'
    <2>1. ~beside
      BY <1>4 DEF Writing, Recovering, counts, Reserve, WriteOwner, OwnerFails,
       MakeJournal, Receipt, StageManifest, StageBody, ValidateBody, LinkBody, LinkManifest,
       ReadInventory, ReplaceInventory, CheckInventory, OpenPackage, BuildPackage, Conflict,
       Raise, OperationFails, Unstage, Release, Visit, Resume, UnlinkBody, UnlinkTmp, Unlock,
       Quarantine, RecoverEnds
    <2>2. WSafe
      BY <2>1 DEF WInv
    <2>3. LockPart'
      BY <1>0, <1>4, <2>2, WritingLock, RecoveringLock DEF WSafe
    <2>. QED
      BY <1>0, <1>4, <2>2, <2>3, WritersWriting, WritersRecovering
  <1>5. CASE UNCHANGED vars
    <2>1. WSafe
      BY <1>5 DEF vars, counts, WInv
    <2>2. LockPart'
      BY <1>5, <2>1 DEF vars, private, WSafe, LockPart, RecoversAlone, Reserved, Exclusive,
         Inside, Live
    <2>3. \A p \in Proc : Work(p)'
      BY <1>5, <2>1 DEF vars, public, private, WSafe, FilePart, Work, PromisesAt,
         RestartableAt, Promised
    <2>4. FilesBacked'
      BY <1>5, <2>1 DEF vars, public, private, WSafe, FilePart, FilesBacked, ManifestStaged,
         ReceiptsBacked, InventoryBacked
    <2>. QED
      BY <2>2, <2>3, <2>4 DEF WSafe, FilePart
  <1>. QED
    BY <1>1, <1>2, <1>3, <1>4, <1>5 DEF Next, Terminated

LEMMA WritersInit == Init => WInv
  <1>. SUFFICES ASSUME Init PROVE WInv
    OBVIOUS
  <1>1. \A p \in Proc : proc[p].step = "idle"
    BY DEF Init, Idle
  <1>2. \A p \in Proc : Work(p)
    BY <1>1, CalmWork DEF Calm
  <1>3. LockPart
    BY <1>1 DEF LockPart, RecoversAlone, RecoverStep, Reserved, Exclusive, Inside, Live
  <1>4. FilesBacked
    BY DEF Init, FilesBacked, ManifestStaged, ReceiptsBacked, InventoryBacked
  <1>. QED
    BY <1>2, <1>3, <1>4, InitInv DEF WInv, WSafe, FilePart

\* With any number of writers, killed and failing anywhere, the inventory names only
\* published exemplars, as long as no recover() works beside another call.
THEOREM WritersInventory == Spec => []InventoryIsBacked
  <1>1. WInv => InventoryIsBacked
    BY DEF WInv, WSafe, FilePart, FilesBacked, InventoryIsBacked
  <1>2. WInv /\ [Next]_vars => WInv'
    BY WritersNext
  <1>. QED
    BY <1>1, <1>2, WritersInit, PTL DEF Spec

\* A reservation excludes every other commit() from its transaction, under the same
\* condition.
THEOREM WritersExclude == Spec => []OneWriter
  <1>1. WInv => OneWriter
    BY DEF WInv, WSafe, LockPart, Exclusive, OneWriter
  <1>2. WInv /\ [Next]_vars => WInv'
    BY WritersNext
  <1>. QED
    BY <1>1, <1>2, WritersInit, PTL DEF Spec
=============================================================================
