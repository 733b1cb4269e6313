---------------------- MODULE CorpusPublicationProofs ----------------------
(***************************************************************************)
(* Theorems about CorpusPublication, for every set of runs, every set of   *)
(* configurations and every length of journal.                             *)
(***************************************************************************)
EXTENDS CorpusPublication, FiniteSetTheorems, TLAPS

(***************************************************************************)
(* Trees under the operations on them.                                     *)
(***************************************************************************)
LEMMA NoTreeIsNoTree == NoTree \notin Tree
  BY DEF NoTree, Tree

\* A journal append yields a tree, and on an existing one changes only the journal.
LEMMA AppendKeepsTree ==
  ASSUME NEW t \in Place, NEW e \in Event, NEW i \in Identity
  PROVE  /\ WithEvent(t, e, i) \in Tree
         /\ t # NoTree => /\ WithEvent(t, e, i).whole = t.whole
                          /\ WithEvent(t, e, i).id = t.id
  <1>1. CASE t = NoTree
    BY <1>1 DEF WithEvent, Tree, Id
  <1>2. CASE t # NoTree
    <2>1. t \in Tree
      BY <1>2 DEF Place
    <2>2. Append(t.journal, e) \in Seq(Event)
      BY <2>1 DEF Tree
    <2>3. WithEvent(t, e, i) = [t EXCEPT !.journal = Append(t.journal, e)]
      BY <1>2 DEF WithEvent
    <2>. QED
      BY <1>2, <2>1, <2>2, <2>3 DEF Tree
  <1>. QED
    BY <1>1, <1>2

LEMMA EventIsEvent ==
  ASSUME TypeOK, NEW r \in Proc, NEW k \in EventType
  PROVE  EventOf(r, k) \in Event
  BY DEF TypeOK, EventOf, Event

LEMMA IdentityIsIdentity ==
  ASSUME TypeOK, NEW r \in Proc
  PROVE  IdentityOf(r) \in Identity
  BY DEF TypeOK, IdentityOf, Identity

LEMMA TreeIdIsId ==
  ASSUME NEW t \in Place, t # NoTree
  PROVE  t \in Tree /\ t.id \in Id /\ t.whole \in BOOLEAN
  BY DEF Place, Tree

\* Arriving at the destination keeps the types.
LEMMA SetDestType ==
  ASSUME TypeOK, NEW t \in Place, SetDest(t)
  PROVE  dest' \in Place /\ published' \subseteq Id
  <1>1. dest' = t
    BY DEF SetDest
  <1>2. CASE Whole(t)
    BY <1>1, <1>2, TreeIdIsId DEF SetDest, TypeOK, Whole
  <1>3. CASE ~Whole(t)
    BY <1>1, <1>3 DEF SetDest, TypeOK
  <1>. QED
    BY <1>2, <1>3

\* Writing a journal line keeps the types of all names.
LEMMA WriteEventType ==
  ASSUME TypeOK, NEW r \in Proc, NEW e \in Event, WriteEvent(r, e)
  PROVE  /\ dest' \in Place
         /\ staging' \in [Proc -> Place]
         /\ quarantine' \in [Proc -> Place]
         /\ published' \subseteq Id
  <1>0. IdentityOf(r) \in Identity /\ tx[r] \in Proc /\ dest \in Place
        /\ staging[tx[r]] \in Place
    BY IdentityIsIdentity DEF TypeOK
  <1>1. CASE /\ jpath[r] = "dest"
             /\ SetDest(WithEvent(dest, e, IdentityOf(r)))
             /\ UNCHANGED <<staging, quarantine>>
    <2>1. WithEvent(dest, e, IdentityOf(r)) \in Place
      BY <1>0, AppendKeepsTree DEF Place
    <2>. QED
      BY <1>1, <2>1, SetDestType DEF TypeOK
  <1>2. CASE /\ jpath[r] = "staging"
             /\ staging' = [staging EXCEPT ![tx[r]] = WithEvent(@, e, IdentityOf(r))]
             /\ UNCHANGED <<dest, quarantine, published>>
    <2>1. WithEvent(staging[tx[r]], e, IdentityOf(r)) \in Place
      BY <1>0, AppendKeepsTree DEF Place
    <2>. QED
      BY <1>0, <1>2, <2>1 DEF TypeOK
  <1>. QED
    BY <1>1, <1>2 DEF WriteEvent

LEMMA JournalAppendType ==
  ASSUME TypeOK, NEW r \in Proc, NEW k \in EventType, JournalAppend(r, k),
         NEW step \in NextStep, Goto(r, step)
  PROVE  TypeOK'
  <1>1. EventOf(r, k) \in Event
    BY EventIsEvent
  <1>2. /\ dest' \in Place
        /\ staging' \in [Proc -> Place]
        /\ quarantine' \in [Proc -> Place]
        /\ published' \subseteq Id
    BY <1>1, WriteEventType DEF JournalAppend
  <1>3. pc' \in [Proc -> NextStep] /\ seq' \in [Proc -> Nat]
    BY DEF TypeOK, JournalAppend, Goto
  <1>. QED
    BY <1>2, <1>3 DEF TypeOK, JournalAppend

\* A step that only moves the program counter.
LEMMA StepType ==
  ASSUME TypeOK, NEW r \in Proc, NEW step \in NextStep, Goto(r, step),
         UNCHANGED <<files, local, published, removed>>
  PROVE  TypeOK'
  <1>1. pc' \in [Proc -> NextStep]
    BY DEF TypeOK, Goto
  <1>. QED
    BY <1>1 DEF TypeOK, files, local

LEMMA PromoteType ==
  ASSUME TypeOK, NEW r \in Proc, Promote(r), NEW step \in NextStep, Goto(r, step)
  PROVE  TypeOK'
  <1>0. tx[r] \in Proc /\ staging[tx[r]] \in Place /\ NoTree \in Place
    BY DEF TypeOK, Place
  <1>1. dest' \in Place /\ published' \subseteq Id
    BY <1>0, SetDestType DEF Promote
  <1>2. staging' \in [Proc -> Place] /\ jpath' \in [Proc -> {"staging", "dest"}]
    BY <1>0 DEF Promote, TypeOK
  <1>3. pc' \in [Proc -> NextStep]
    BY DEF TypeOK, Goto
  <1>. QED
    BY <1>1, <1>2, <1>3 DEF TypeOK, Promote

LEMMA NewTreeIsTree ==
  ASSUME NEW r \in Proc, NEW m \in AllModes, NEW c \in Config
  PROVE  NewTree(r, m, c) \in Place
  <1>1. (m = "overwrite") \in BOOLEAN
    OBVIOUS
  <1>2. <<c, m = "overwrite">> \in Identity
    BY <1>1 DEF Identity
  <1>3. [type |-> "PREFLIGHTED", tx |-> r, seq |-> 0] \in Event
    BY DEF Event, EventType
  <1>4. <<[type |-> "PREFLIGHTED", tx |-> r, seq |-> 0]>> \in Seq(Event)
    BY <1>3
  <1>. QED
    BY <1>2, <1>4 DEF NewTree, Place, Tree, Id

LEMMA OldTreeIsTree ==
  ASSUME NEW i \in Id, NEW ok \in BOOLEAN, NEW c \in Config
  PROVE  OldTree(i, ok, c) \in Tree /\ OldTree(i, ok, c).whole = ok
  <1>1. <<>> \in Seq(Event)
    OBVIOUS
  <1>. QED
    BY <1>1 DEF OldTree, Tree, Identity

LEMMA SealedIsTree ==
  ASSUME NEW t \in Tree
  PROVE  Sealed(t) \in Tree
  BY DEF Sealed, Tree

LEMMA DamagedIsTree ==
  ASSUME NEW t \in Tree, NEW kept \in BOOLEAN
  PROVE  /\ Damaged(t, kept) \in Tree
         /\ ~Damaged(t, kept).whole
  BY DEF Damaged, Tree

\* Each phase of a run keeps the types.
LEMMA BuildType ==
  ASSUME TypeOK, NEW r \in Proc, Build(r)
  PROVE  TypeOK'
  <1>1. ASSUME NEW m \in {"create", "overwrite"}, NEW c \in Config, StartBuild(r, m, c)
        PROVE  TypeOK'
    <2>1. NewTree(r, m, c) \in Place /\ m \in AllModes
      BY NewTreeIsTree DEF AllModes
    <2>2. staging' \in [Proc -> Place]
      BY <1>1, <2>1 DEF StartBuild, TypeOK
    <2>3. /\ pc' \in [Proc -> NextStep]
          /\ mode' \in [Proc -> AllModes]
          /\ cfg' \in [Proc -> Config]
          /\ seq' \in [Proc -> Nat]
      BY <1>1, <2>1 DEF StartBuild, TypeOK, Goto, NextStep
    <2>. QED
      BY <1>1, <2>2, <2>3 DEF StartBuild, TypeOK
  <1>2. CASE Seal(r)
    <2>1. Sealed(staging[r]) \in Place
      BY <1>2, SealedIsTree DEF Seal, TypeOK, Place
    <2>2. staging' \in [Proc -> Place] /\ pc' \in [Proc -> NextStep]
      BY <1>2, <2>1 DEF Seal, TypeOK, Goto, NextStep
    <2>. QED
      BY <1>2, <2>2 DEF Seal, TypeOK, local
  <1>3. CASE AppendValidated(r)
    BY <1>3, JournalAppendType DEF AppendValidated, EventType, NextStep
  <1>. QED
    BY <1>1, <1>2, <1>3 DEF Build

LEMMA ResumeType ==
  ASSUME TypeOK, NEW r \in Proc, Resume(r)
  PROVE  TypeOK'
  <1>1. ASSUME NEW c \in Config, ResumePublished(r, c)
        PROVE  TypeOK'
    <2>1. /\ pc' \in [Proc -> NextStep]
          /\ mode' \in [Proc -> AllModes]
          /\ cfg' \in [Proc -> Config]
      BY <1>1 DEF ResumePublished, TypeOK, Goto, NextStep, AllModes
    <2>. QED
      BY <1>1, <2>1 DEF ResumePublished, TypeOK, files
  <1>2. ASSUME NEW c \in Config, NEW x \in Proc, ResumeStaged(r, c, x)
        PROVE  TypeOK'
    <2>1. staging[x] \in Tree
      BY <1>2 DEF ResumeStaged, Resumable, Whole, TypeOK, Place
    <2>2. Len(staging[x].journal) \in Nat
      BY <2>1 DEF Tree
    <2>3. /\ pc' \in [Proc -> NextStep]
          /\ mode' \in [Proc -> AllModes]
          /\ cfg' \in [Proc -> Config]
          /\ tx' \in [Proc -> Proc]
          /\ seq' \in [Proc -> Nat]
      BY <1>2, <2>2 DEF ResumeStaged, TypeOK, Goto, NextStep, AllModes
    <2>. QED
      BY <1>2, <2>3 DEF ResumeStaged, TypeOK, files
  <1>. QED
    BY <1>1, <1>2 DEF Resume

LEMMA PublishType ==
  ASSUME TypeOK, NEW r \in Proc, Publish(r)
  PROVE  TypeOK'
  <1>1. CASE ValidateStaging(r)
    BY <1>1, StepType DEF ValidateStaging, NextStep
  <1>2. CASE AppendIntent(r)
    BY <1>2, JournalAppendType DEF AppendIntent, EventType, NextStep
  <1>3. CASE CheckDestination(r)
    BY <1>3, StepType DEF CheckDestination, NextStep
  <1>4. CASE CreateDestination(r)
    BY <1>4, PromoteType DEF CreateDestination, NextStep
  <1>5. CASE AppendPromoted(r)
    BY <1>5, JournalAppendType DEF AppendPromoted, EventType, NextStep
  <1>. QED
    BY <1>1, <1>2, <1>3, <1>4, <1>5 DEF Publish

LEMMA OverwriteType ==
  ASSUME TypeOK, NEW r \in Proc, Overwrite(r)
  PROVE  TypeOK'
  <1>1. CASE CheckOwnership(r)
    BY <1>1, StepType DEF CheckOwnership, NextStep
  <1>2. CASE StatDestination(r)
    <2>1. dest.id \in Id
      BY <1>2, TreeIdIsId DEF StatDestination, TypeOK
    <2>2. before' \in [Proc -> Id] /\ pc' \in [Proc -> NextStep]
      BY <1>2, <2>1 DEF StatDestination, TypeOK, Goto, NextStep
    <2>. QED
      BY <1>2, <2>2 DEF StatDestination, TypeOK, files
  <1>3. CASE QuarantineOld(r)
    <2>1. /\ dest' \in Place
          /\ quarantine' \in [Proc -> Place]
          /\ pc' \in [Proc -> NextStep]
      BY <1>3 DEF QuarantineOld, TypeOK, Place, Goto, NextStep
    <2>. QED
      BY <1>3, <2>1 DEF QuarantineOld, TypeOK, local
  <1>4. CASE AppendQuarantined(r)
    BY <1>4, JournalAppendType DEF AppendQuarantined, EventType, NextStep
  <1>5. CASE CheckInode(r)
    BY <1>5, StepType DEF CheckInode, NextStep
  <1>6. CASE SwapIn(r)
    <2>1. CASE CanPromote(r)
      BY <1>6, <2>1, PromoteType DEF SwapIn, NextStep
    <2>2. CASE ~CanPromote(r)
      BY <1>6, <2>2, StepType DEF SwapIn, NextStep
    <2>. QED
      BY <2>1, <2>2
  <1>7. CASE AppendNewPromoted(r)
    BY <1>7, JournalAppendType DEF AppendNewPromoted, EventType, NextStep
  <1>8. CASE VerifyDestination(r)
    BY <1>8, StepType DEF VerifyDestination, NextStep
  <1>9. CASE DiscardOld(r)
    <2>1. quarantine[r] \in Tree /\ quarantine[r].id \in Id
      BY <1>9, TreeIdIsId DEF DiscardOld, TypeOK
    <2>2. quarantine' \in [Proc -> Place]
      BY <1>9, <2>1, DamagedIsTree DEF DiscardOld, TypeOK, Place
    <2>3. removed' \subseteq Proc \X Id /\ pc' \in [Proc -> NextStep]
      BY <1>9, <2>1 DEF DiscardOld, TypeOK, Goto, NextStep
    <2>. QED
      BY <1>9, <2>2, <2>3 DEF DiscardOld, TypeOK, local
  <1>10. CASE DiscardedOld(r)
    <2>1. quarantine' \in [Proc -> Place] /\ pc' \in [Proc -> NextStep]
      BY <1>10 DEF DiscardedOld, TypeOK, Place, Goto, NextStep
    <2>. QED
      BY <1>10, <2>1 DEF DiscardedOld, TypeOK, local
  <1>11. CASE AppendCommitted(r)
    BY <1>11, JournalAppendType DEF AppendCommitted, EventType, NextStep
  <1>. QED
    BY <1>1, <1>2, <1>3, <1>4, <1>5, <1>6, <1>7, <1>8, <1>9, <1>10, <1>11 DEF Overwrite

LEMMA RollbackType ==
  ASSUME TypeOK, NEW r \in Proc, Rollback(r)
  PROVE  TypeOK'
  <1>1. CASE TryBlockRaises(r)
    BY <1>1, StepType DEF TryBlockRaises, NextStep
  <1>2. CASE RollbackRemove(r)
    <2>1. dest' \in Place /\ removed' \subseteq Proc \X Id
      <3>1. CASE RollbackNeedsRemoval
        <4>1. dest \in Tree /\ dest.id \in Id
          BY <3>1, TreeIdIsId DEF RollbackNeedsRemoval, TypeOK
        <4>2. dest' \in Place
          BY <1>2, <3>1, <4>1, DamagedIsTree DEF RollbackRemove, Place
        <4>3. removed' \subseteq Proc \X Id
          BY <1>2, <3>1, <4>1 DEF RollbackRemove, TypeOK
        <4>. QED
          BY <4>2, <4>3
      <3>2. CASE ~RollbackNeedsRemoval
        BY <1>2, <3>2 DEF RollbackRemove, TypeOK
      <3>. QED
        BY <3>1, <3>2
    <2>2. pc' \in [Proc -> NextStep]
      BY <1>2 DEF RollbackRemove, TypeOK, Goto, NextStep
    <2>. QED
      BY <1>2, <2>1, <2>2 DEF RollbackRemove, TypeOK, local
  <1>3. CASE RollbackRemoved(r)
    <2>1. dest' \in Place /\ pc' \in [Proc -> NextStep]
      BY <1>3 DEF RollbackRemoved, TypeOK, Place, Goto, NextStep
    <2>. QED
      BY <1>3, <2>1 DEF RollbackRemoved, TypeOK, local
  <1>4. CASE RollbackRestore(r)
    <2>0. quarantine[r] \in Place /\ NoTree \in Place
      BY DEF TypeOK, Place
    <2>1. pc' \in [Proc -> NextStep]
      BY <1>4 DEF RollbackRestore, TypeOK, Goto, NextStep
    <2>2. CASE UNCHANGED <<dest, quarantine, published>>
      BY <1>4, <2>1, <2>2 DEF RollbackRestore, TypeOK, local
    <2>3. CASE /\ SetDest(quarantine[r])
               /\ quarantine' = [quarantine EXCEPT ![r] = NoTree]
      <3>1. dest' \in Place /\ published' \subseteq Id
        BY <2>0, <2>3, SetDestType
      <3>2. quarantine' \in [Proc -> Place]
        BY <2>0, <2>3 DEF TypeOK
      <3>. QED
        BY <1>4, <2>1, <3>1, <3>2 DEF RollbackRestore, TypeOK, local
    <2>. QED
      BY <1>4, <2>2, <2>3 DEF RollbackRestore
  <1>5. CASE AppendRestored(r)
    BY <1>5, JournalAppendType DEF AppendRestored, EventType, NextStep
  <1>. QED
    BY <1>1, <1>2, <1>3, <1>4, <1>5 DEF Rollback

LEMMA StopType ==
  ASSUME TypeOK, NEW r \in Proc, Stop(r) \/ StopInAppend(r)
  PROVE  TypeOK'
  <1>1. CASE Stop(r)
    BY <1>1, StepType DEF Stop, NextStep
  <1>2. CASE StopInAppend(r)
    <2>1. EventOf(r, "TORN") \in Event
      BY EventIsEvent DEF EventType
    <2>2. /\ dest' \in Place
          /\ staging' \in [Proc -> Place]
          /\ quarantine' \in [Proc -> Place]
          /\ published' \subseteq Id
      BY <1>2, <2>1, WriteEventType DEF StopInAppend
    <2>3. pc' \in [Proc -> NextStep]
      BY <1>2 DEF StopInAppend, TypeOK, Goto, NextStep
    <2>. QED
      BY <1>2, <2>2, <2>3 DEF StopInAppend, TypeOK, local
  <1>. QED
    BY <1>1, <1>2

LEMMA OtherType ==
  ASSUME TypeOK, (\E x \in Proc : Recover(x)) \/ PlaceForeign
  PROVE  TypeOK'
  <1>1. ASSUME NEW x \in Proc, Recover(x)
        PROVE  TypeOK'
    <2>0. quarantine[x] \in Place /\ NoTree \in Place
      BY DEF TypeOK, Place
    <2>1. dest' \in Place /\ published' \subseteq Id
      BY <1>1, <2>0, SetDestType DEF Recover
    <2>2. quarantine' \in [Proc -> Place]
      BY <1>1, <2>0 DEF Recover, TypeOK
    <2>. QED
      BY <1>1, <2>1, <2>2 DEF Recover, TypeOK, local
  <1>2. CASE PlaceForeign
    <2>1. dest' \in Place
      BY <1>2, OldTreeIsTree DEF PlaceForeign, Place, Id
    <2>. QED
      BY <1>2, <2>1 DEF PlaceForeign, TypeOK, local
  <1>. QED
    BY <1>1, <1>2

LEMMA InitType == Init => TypeOK
  <1>. SUFFICES ASSUME Init PROVE TypeOK
    OBVIOUS
  <1>1. dest \in Place
    BY OldTreeIsTree DEF Init, Place, Id
  <1>2. published \subseteq Id
    BY <1>1, TreeIdIsId DEF Init, Whole
  <1>3. /\ staging \in [Proc -> Place]
        /\ quarantine \in [Proc -> Place]
        /\ pc \in [Proc -> NextStep]
        /\ mode \in [Proc -> AllModes]
        /\ cfg \in [Proc -> Config]
        /\ tx \in [Proc -> Proc]
        /\ jpath \in [Proc -> {"staging", "dest"}]
        /\ seq \in [Proc -> Nat]
        /\ before \in [Proc -> Id]
        /\ removed \subseteq Proc \X Id
    BY DEF Init, Place, NextStep, AllModes, Id
  <1>. QED
    BY <1>1, <1>2, <1>3 DEF TypeOK

LEMMA NextType == TypeOK /\ [Next]_vars => TypeOK'
  <1>. SUFFICES ASSUME TypeOK, [Next]_vars PROVE TypeOK'
    OBVIOUS
  <1>1. CASE UNCHANGED vars
    BY <1>1 DEF vars, files, local, TypeOK
  <1>2. ASSUME NEW r \in Proc,
               \/ Build(r) \/ Resume(r) \/ Publish(r) \/ Overwrite(r)
               \/ Rollback(r) \/ Stop(r) \/ StopInAppend(r)
        PROVE  TypeOK'
    BY <1>2, BuildType, ResumeType, PublishType, OverwriteType, RollbackType, StopType
  <1>. QED
    BY <1>1, <1>2, OtherType DEF Next

\* Every reachable state is well typed.
THEOREM TypeCorrect == Spec => []TypeOK
  BY InitType, NextType, PTL DEF Spec

-----------------------------------------------------------------------------
(***************************************************************************)
(* What a run that does not overwrite may do, and how a run begins.        *)
(***************************************************************************)
\* The steps a run that does not overwrite goes through.
CreatorStep == {"idle", "build", "sealed", "validate", "intent", "exists", "create",
                "promoted", "done", "stopped"}
CreatorInv == \A r \in Proc : mode[r] = "overwrite" \/ pc[r] \in CreatorStep

LEMMA OverwriteModes ==
  ASSUME CreatorInv, NEW r \in Proc, Overwrite(r) \/ Rollback(r)
  PROVE  Overwriting(r)
  <1>1. pc[r] \notin CreatorStep
    <2>1. CASE Overwrite(r)
      BY <2>1 DEF CreatorStep, Overwrite, CheckOwnership, StatDestination,
         QuarantineOld, AppendQuarantined, CheckInode, SwapIn, AppendNewPromoted,
         VerifyDestination, DiscardOld, DiscardedOld, AppendCommitted
    <2>2. CASE Rollback(r)
      BY <2>2 DEF CreatorStep, Rollback, TryBlockRaises, RollbackRemove,
         RollbackRemoved, RollbackRestore, AppendRestored
    <2>. QED
      BY <2>1, <2>2
  <1>. QED
    BY <1>1 DEF CreatorInv, CreatorStep, Overwriting, Live

LEMMA CreatorStepKept ==
  ASSUME TypeOK, CreatorInv, Next
  PROVE  CreatorInv'
  <1>1. ASSUME NEW r \in Proc, NEW step, Goto(r, step), UNCHANGED mode,
               step \in CreatorStep
        PROVE  CreatorInv'
    BY <1>1 DEF Goto, TypeOK, CreatorInv
  <1>2. ASSUME NEW r \in Proc, Build(r)
        PROVE  CreatorInv'
    <2>1. ASSUME NEW m \in {"create", "overwrite"}, NEW c \in Config, StartBuild(r, m, c)
          PROVE  CreatorInv'
      BY <2>1 DEF StartBuild, Goto, TypeOK, CreatorInv, CreatorStep
    <2>2. CASE Seal(r)
      BY <1>1, <2>2 DEF Seal, local, CreatorStep
    <2>3. CASE AppendValidated(r)
      BY <1>1, <2>3 DEF AppendValidated, JournalAppend, CreatorStep
    <2>. QED
      BY <1>2, <2>1, <2>2, <2>3 DEF Build
  <1>3. ASSUME NEW r \in Proc, Resume(r)
        PROVE  CreatorInv'
    BY <1>3 DEF Resume, ResumePublished, ResumeStaged, Goto, TypeOK, CreatorInv,
       CreatorStep
  <1>4. ASSUME NEW r \in Proc, Publish(r)
        PROVE  CreatorInv'
    <2>1. CASE ValidateStaging(r)
      BY <1>1, <2>1 DEF ValidateStaging, local, CreatorStep
    <2>2. CASE AppendIntent(r)
      BY <1>1, <2>2 DEF AppendIntent, JournalAppend, CreatorStep
    <2>3. CASE CheckDestination(r)
      BY <2>3 DEF CheckDestination, Goto, local, TypeOK, CreatorInv, CreatorStep
    <2>4. CASE CreateDestination(r)
      BY <1>1, <2>4 DEF CreateDestination, Promote, CreatorStep
    <2>5. CASE AppendPromoted(r)
      BY <1>1, <2>5 DEF AppendPromoted, JournalAppend, CreatorStep
    <2>. QED
      BY <1>4, <2>1, <2>2, <2>3, <2>4, <2>5 DEF Publish
  <1>5. ASSUME NEW r \in Proc, Overwrite(r) \/ Rollback(r)
        PROVE  CreatorInv'
    <2>1. mode[r] = "overwrite"
      BY <1>5, OverwriteModes DEF Overwriting
    <2>2. mode' = mode /\ \E step : Goto(r, step)
      BY <1>5 DEF Overwrite, CheckOwnership, StatDestination, QuarantineOld,
         AppendQuarantined, CheckInode, SwapIn, AppendNewPromoted, VerifyDestination,
         DiscardOld, DiscardedOld, AppendCommitted, Rollback, TryBlockRaises,
         RollbackRemove, RollbackRemoved, RollbackRestore, AppendRestored,
         JournalAppend, Promote, local
    <2>. QED
      BY <2>1, <2>2 DEF Goto, TypeOK, CreatorInv
  <1>6. ASSUME NEW r \in Proc, Stop(r) \/ StopInAppend(r)
        PROVE  CreatorInv'
    BY <1>1, <1>6 DEF Stop, StopInAppend, local, CreatorStep
  <1>7. CASE (\E x \in Proc : Recover(x)) \/ PlaceForeign
    BY <1>7 DEF Recover, PlaceForeign, local, CreatorInv
  <1>. QED
    BY <1>2, <1>3, <1>4, <1>5, <1>6, <1>7 DEF Next

LEMMA CreatorsAt ==
  ASSUME CreatorInv, NEW r \in Proc, Live(r), mode[r] # "overwrite"
  PROVE  pc[r] \in {"build", "sealed", "validate", "intent", "exists", "create", "promoted"}
  BY DEF CreatorInv, CreatorStep, Live

\* A run that has not begun owns nothing, and nobody works for it.
Fresh(r) ==
    /\ mode[r] = "create" /\ tx[r] = r /\ jpath[r] = "staging"
    /\ staging[r] = NoTree /\ quarantine[r] = NoTree
    /\ \A q \in Proc : tx[q] = r => q = r
FreshInv == \A r \in Proc : pc[r] = "idle" => Fresh(r)

LiveStep(r) == \/ Seal(r) \/ AppendValidated(r) \/ Publish(r) \/ Overwrite(r)
               \/ Rollback(r) \/ Stop(r) \/ StopInAppend(r)

\* A run keeps its mode, its transaction and the name of its journal, except where
\* it begins and where it promotes.
LEMMA LiveFrame ==
  ASSUME TypeOK, NEW r \in Proc, LiveStep(r)
  PROVE  /\ Live(r) /\ UNCHANGED <<mode, cfg, tx>>
         /\ \E step \in NextStep \ {"idle"} : Goto(r, step)
         /\ \A q \in Proc \ {r} : /\ pc'[q] = pc[q] /\ jpath'[q] = jpath[q]
                                  /\ quarantine'[q] = quarantine[q]
                                  /\ q # tx[r] => staging'[q] = staging[q]
         /\ pc'[r] # "idle"
  <1>0. tx[r] \in Proc
    BY DEF TypeOK
  <1>1. ASSUME NEW k, JournalAppend(r, k) \/ (WriteEvent(r, EventOf(r, k)) /\ UNCHANGED local)
        PROVE  /\ UNCHANGED <<mode, cfg, tx, jpath, quarantine>>
               /\ \A q \in Proc : q # tx[r] => staging'[q] = staging[q]
    BY <1>0, <1>1 DEF JournalAppend, WriteEvent, TypeOK, local
  <1>2. ASSUME NEW step \in NextStep \ {"idle"}, Goto(r, step)
        PROVE  /\ \A q \in Proc \ {r} : pc'[q] = pc[q]
               /\ \E s \in NextStep \ {"idle"} : Goto(r, s)
               /\ pc'[r] # "idle"
    BY <1>2 DEF Goto, TypeOK
  <1>3. CASE Publish(r)
    <2>1. Live(r) /\ \E step \in NextStep \ {"idle"} : Goto(r, step)
      BY <1>3 DEF Publish, ValidateStaging, AppendIntent, CheckDestination,
         CreateDestination, AppendPromoted, Live, NextStep
    <2>2. CASE CreateDestination(r)
      BY <1>0, <1>2, <2>1, <2>2 DEF CreateDestination, Promote, TypeOK
    <2>3. CASE ValidateStaging(r) \/ CheckDestination(r)
      BY <1>2, <2>1, <2>3 DEF ValidateStaging, CheckDestination, files, local
    <2>4. CASE AppendIntent(r) \/ AppendPromoted(r)
      BY <1>1, <1>2, <2>1, <2>4 DEF AppendIntent, AppendPromoted
    <2>. QED
      BY <1>3, <2>2, <2>3, <2>4 DEF Publish
  <1>4. CASE Overwrite(r)
    <2>1. Live(r) /\ \E step \in NextStep \ {"idle"} : Goto(r, step)
      BY <1>4 DEF Overwrite, CheckOwnership, StatDestination, QuarantineOld,
         AppendQuarantined, CheckInode, SwapIn, AppendNewPromoted, VerifyDestination,
         DiscardOld, DiscardedOld, AppendCommitted, Live, NextStep
    <2>2. CASE SwapIn(r)
      BY <1>0, <1>2, <2>1, <2>2 DEF SwapIn, Promote, TypeOK, files, local
    <2>3. CASE CheckOwnership(r) \/ StatDestination(r) \/ CheckInode(r) \/ VerifyDestination(r)
      BY <1>2, <2>1, <2>3
      DEF CheckOwnership, StatDestination, CheckInode, VerifyDestination, files, local
    <2>4. CASE AppendQuarantined(r) \/ AppendNewPromoted(r) \/ AppendCommitted(r)
      BY <1>1, <1>2, <2>1, <2>4 DEF AppendQuarantined, AppendNewPromoted, AppendCommitted
    <2>5. CASE QuarantineOld(r) \/ DiscardedOld(r)
      BY <1>2, <2>1, <2>5 DEF QuarantineOld, DiscardedOld, local, TypeOK
    <2>6. CASE DiscardOld(r)
      BY <1>2, <2>1, <2>6 DEF DiscardOld, local, TypeOK
    <2>. QED
      BY <1>4, <2>2, <2>3, <2>4, <2>5, <2>6 DEF Overwrite
  <1>5. CASE Rollback(r)
    <2>1. Live(r) /\ \E step \in NextStep \ {"idle"} : Goto(r, step)
      BY <1>5 DEF Rollback, TryBlockRaises, RollbackRemove, RollbackRemoved,
         RollbackRestore, AppendRestored, Live, NextStep
    <2>2. CASE TryBlockRaises(r) \/ RollbackRemove(r) \/ RollbackRemoved(r)
      BY <1>2, <2>1, <2>2 DEF TryBlockRaises, RollbackRemove, RollbackRemoved, files, local
    <2>3. CASE RollbackRestore(r)
      BY <1>2, <2>1, <2>3 DEF RollbackRestore, local, TypeOK
    <2>4. CASE AppendRestored(r)
      BY <1>1, <1>2, <2>1, <2>4 DEF AppendRestored
    <2>. QED
      BY <1>5, <2>2, <2>3, <2>4 DEF Rollback
  <1>6. CASE Stop(r) \/ StopInAppend(r) \/ Seal(r) \/ AppendValidated(r)
    <2>1. Live(r) /\ \E step \in NextStep \ {"idle"} : Goto(r, step)
      BY <1>6 DEF Stop, StopInAppend, Seal, AppendValidated, Live, NextStep, Appending
    <2>2. CASE Stop(r)
      BY <1>2, <2>1, <2>2 DEF Stop, files, local
    <2>3. CASE StopInAppend(r) \/ AppendValidated(r)
      BY <1>1, <1>2, <2>1, <2>3 DEF StopInAppend, AppendValidated, local
    <2>4. CASE Seal(r)
      BY <1>2, <2>1, <2>4 DEF Seal, local, TypeOK
    <2>. QED
      BY <1>6, <2>2, <2>3, <2>4
  <1>. QED
    BY <1>3, <1>4, <1>5, <1>6 DEF LiveStep

\* How a run begins: its names and its journal are its own, no overwrite runs, and none
\* begins beside a live run.
Begin(r) == (\E m \in {"create", "overwrite"}, c \in Config : StartBuild(r, m, c)) \/ Resume(r)

LEMMA BeginFrame ==
  ASSUME TypeOK, FreshInv, NEW r \in Proc, Begin(r)
  PROVE  /\ pc[r] = "idle" /\ Fresh(r) /\ FreeSlot
         /\ UNCHANGED <<dest, quarantine, jpath, published>>
         /\ \E step \in {"build", "validate", "done", "stopped"} : Goto(r, step) /\ pc'[r] = step
         /\ \A q \in Proc \ {r} : /\ pc'[q] = pc[q] /\ mode'[q] = mode[q] /\ cfg'[q] = cfg[q]
                                  /\ tx'[q] = tx[q] /\ staging'[q] = staging[q]
         /\ mode'[r] = "overwrite" => MayBuild("overwrite") /\ tx'[r] = r
         /\ pc'[r] = "build" => tx'[r] = r /\ \E m \in {"create", "overwrite"}, c \in Config :
                                                StartBuild(r, m, c)
         /\ tx'[r] # r => Whole(staging[tx'[r]])
         /\ staging'[r] = staging[r] \/ \E m \in {"create", "overwrite"}, c \in Config :
                                           StartBuild(r, m, c)
  <1>1. pc[r] = "idle" /\ Fresh(r) /\ FreeSlot
    BY DEF Begin, StartBuild, Resume, ResumePublished, ResumeStaged, FreshInv
  <1>2. ASSUME NEW m \in {"create", "overwrite"}, NEW c \in Config, StartBuild(r, m, c)
        PROVE  /\ UNCHANGED <<dest, quarantine, jpath, published>>
               /\ Goto(r, "build") /\ pc'[r] = "build"
               /\ \A q \in Proc \ {r} : /\ pc'[q] = pc[q] /\ mode'[q] = mode[q] /\ cfg'[q] = cfg[q]
                                        /\ tx'[q] = tx[q] /\ staging'[q] = staging[q]
               /\ mode'[r] = m /\ MayBuild(m) /\ tx'[r] = r
    BY <1>1, <1>2 DEF StartBuild, Goto, TypeOK, Fresh
  <1>3. ASSUME Resume(r)
        PROVE  /\ UNCHANGED <<dest, quarantine, jpath, published>>
               /\ \E step \in {"validate", "done", "stopped"} : Goto(r, step) /\ pc'[r] = step
               /\ \A q \in Proc \ {r} : /\ pc'[q] = pc[q] /\ mode'[q] = mode[q] /\ cfg'[q] = cfg[q]
                                        /\ tx'[q] = tx[q] /\ staging'[q] = staging[q]
               /\ mode'[r] = "resume" /\ staging' = staging
               /\ tx'[r] # r => Whole(staging[tx'[r]])
    <2>1. ASSUME NEW c \in Config, ResumePublished(r, c)
          PROVE  \E step \in {"validate", "done", "stopped"} : Goto(r, step) /\ pc'[r] = step
      BY <2>1 DEF ResumePublished, Goto, TypeOK
    <2>2. ASSUME NEW c \in Config, NEW x \in Proc, ResumeStaged(r, c, x)
          PROVE  \E step \in {"validate", "done", "stopped"} : Goto(r, step) /\ pc'[r] = step
      BY <2>2 DEF ResumeStaged, Goto, TypeOK
    <2>3. \E step \in {"validate", "done", "stopped"} : Goto(r, step) /\ pc'[r] = step
      BY <1>3, <2>1, <2>2 DEF Resume
    <2>4. ASSUME NEW c \in Config, NEW x \in Proc, ResumeStaged(r, c, x)
          PROVE  tx'[r] # r => Whole(staging[tx'[r]])
      BY <2>4 DEF ResumeStaged, TypeOK, Resumable
    <2>5. tx'[r] # r => Whole(staging[tx'[r]])
      BY <1>1, <1>3, <2>4 DEF Resume, ResumePublished, Fresh
    <2>6. ASSUME NEW c \in Config, ResumePublished(r, c)
          PROVE  /\ UNCHANGED <<dest, quarantine, jpath, published>>
                 /\ mode'[r] = "resume" /\ staging' = staging
                 /\ \A q \in Proc \ {r} : /\ pc'[q] = pc[q] /\ mode'[q] = mode[q]
                                          /\ cfg'[q] = cfg[q] /\ tx'[q] = tx[q]
      BY <2>6 DEF ResumePublished, Goto, TypeOK, files
    <2>7. ASSUME NEW c \in Config, NEW x \in Proc, ResumeStaged(r, c, x)
          PROVE  /\ UNCHANGED <<dest, quarantine, jpath, published>>
                 /\ mode'[r] = "resume" /\ staging' = staging
                 /\ \A q \in Proc \ {r} : /\ pc'[q] = pc[q] /\ mode'[q] = mode[q]
                                          /\ cfg'[q] = cfg[q] /\ tx'[q] = tx[q]
      BY <2>7 DEF ResumeStaged, Goto, TypeOK, files
    <2>8. /\ UNCHANGED <<dest, quarantine, jpath, published>>
          /\ mode'[r] = "resume" /\ staging' = staging
          /\ \A q \in Proc \ {r} : /\ pc'[q] = pc[q] /\ mode'[q] = mode[q]
                                   /\ cfg'[q] = cfg[q] /\ tx'[q] = tx[q]
      BY <1>3, <2>6, <2>7 DEF Resume
    <2>. QED
      BY <2>3, <2>5, <2>8
  <1>4. CASE \E m \in {"create", "overwrite"}, c \in Config : StartBuild(r, m, c)
    BY <1>1, <1>2, <1>4
  <1>5. CASE Resume(r)
    BY <1>1, <1>3, <1>5
  <1>. QED
    BY <1>4, <1>5 DEF Begin

\* A step is the beginning of a run, a step of a live run, or one from outside.
LEMMA NextCases ==
  ASSUME Next
  PROVE  \/ \E r \in Proc : Begin(r) \/ LiveStep(r)
         \/ \E x \in Proc : Recover(x)
         \/ PlaceForeign
  BY DEF Next, Build, Begin, LiveStep

LEMMA FreshKept ==
  ASSUME TypeOK, FreshInv, Next
  PROVE  FreshInv'
  <1>1. ASSUME NEW r \in Proc, Begin(r)
        PROVE  FreshInv'
    <2>1. ASSUME NEW q \in Proc, pc'[q] = "idle"
          PROVE  Fresh(q)'
      <3>1. q # r /\ pc[q] = "idle" /\ Fresh(q)
        BY <1>1, <2>1, BeginFrame DEF FreshInv
      <3>2. tx'[r] # q
        BY <1>1, <3>1, BeginFrame DEF Fresh, Whole
      <3>. QED
        BY <1>1, <3>1, <3>2, BeginFrame DEF Fresh
    <2>. QED
      BY <2>1 DEF FreshInv
  <1>2. ASSUME NEW r \in Proc, LiveStep(r)
        PROVE  FreshInv'
    <2>1. ASSUME NEW q \in Proc, pc'[q] = "idle"
          PROVE  Fresh(q)'
      <3>1. q # r /\ pc[q] = "idle" /\ Fresh(q)
        BY <1>2, <2>1, LiveFrame DEF FreshInv
      <3>2. tx[r] # q
        BY <3>1 DEF Fresh
      <3>. QED
        BY <1>2, <3>1, <3>2, LiveFrame DEF Fresh
    <2>. QED
      BY <2>1 DEF FreshInv
  <1>3. ASSUME NEW x \in Proc, Recover(x)
        PROVE  FreshInv'
    <2>1. ASSUME NEW q \in Proc
          PROVE  quarantine[q] = NoTree => quarantine'[q] = NoTree
      BY <1>3 DEF Recover, TypeOK
    <2>. QED
      BY <1>3, <2>1 DEF Recover, FreshInv, Fresh, local
  <1>4. CASE PlaceForeign
    BY <1>4 DEF PlaceForeign, FreshInv, Fresh, local
  <1>. QED
    BY <1>1, <1>2, <1>3, <1>4, NextCases

LEMMA InitFresh == Init => FreshInv
  <1>. SUFFICES ASSUME Init PROVE FreshInv
    OBVIOUS
  <1>1. \A r \in Proc : mode[r] = "create" /\ tx[r] = r
    BY DEF Init
  <1>. QED
    BY <1>1 DEF Init, FreshInv, Fresh

LEMMA InitCreator == Init => CreatorInv
  BY DEF Init, CreatorInv, CreatorStep
LEMMA CreatorKept == TypeOK /\ CreatorInv /\ [Next]_vars => CreatorInv'
  BY CreatorStepKept DEF CreatorInv, vars, local

LEMMA FreshKeptOrStutters == TypeOK /\ FreshInv /\ [Next]_vars => FreshInv'
  BY FreshKept DEF FreshInv, Fresh, vars, files, local

(***************************************************************************)
(* An overwriting run is alone: no other run is live beside it.            *)
(***************************************************************************)
Alone == \A r, q \in Proc : Overwriting(r) /\ Live(q) => r = q
RunsInv == CreatorInv /\ FreshInv /\ Alone

LEMMA NobodyLive ==
  ASSUME MaxLive = 1, FreeSlot
  PROVE  \A q \in Proc : ~Live(q)
  <1>. DEFINE L == {q \in Proc : Live(q)}
  <1>1. IsFiniteSet(L)
    BY ProcAssumption, FS_Subset
  <1>2. Cardinality(L) \in Nat /\ Cardinality(L) < 1
    BY <1>1, FS_CardinalityType DEF FreeSlot
  <1>3. L = {}
    BY <1>1, <1>2, FS_EmptySet
  <1>. QED
    BY <1>3

LEMMA FreeSlotIsSafe ==
  ASSUME OverwriteAlone \/ MaxLive = 1, FreeSlot
  PROVE  /\ \A q \in Proc : ~Overwriting(q)
         /\ MayBuild("overwrite") => \A q \in Proc : ~Live(q)
  <1>1. CASE OverwriteAlone
    BY <1>1 DEF FreeSlot, MayBuild
  <1>2. CASE MaxLive = 1
    BY <1>2, NobodyLive DEF Overwriting
  <1>. QED
    BY <1>1, <1>2

LEMMA AloneKept ==
  ASSUME OverwriteAlone \/ MaxLive = 1, TypeOK, FreshInv, Alone, Next
  PROVE  Alone'
  <1>1. ASSUME NEW r \in Proc, Begin(r)
        PROVE  Alone'
    <2>1. \A q \in Proc : ~Overwriting(q)
      BY <1>1, BeginFrame, FreeSlotIsSafe
    <2>2. \A q \in Proc \ {r} : pc'[q] = pc[q] /\ mode'[q] = mode[q]
      BY <1>1, BeginFrame
    <2>3. mode'[r] = "overwrite" => \A q \in Proc \ {r} : ~Live(q)
      BY <1>1, BeginFrame, FreeSlotIsSafe
    <2>. QED
      BY <2>1, <2>2, <2>3 DEF Alone, Overwriting, Live
  <1>2. ASSUME NEW r \in Proc, LiveStep(r)
        PROVE  Alone'
    <2>1. /\ Live(r) /\ mode' = mode
          /\ \A q \in Proc \ {r} : pc'[q] = pc[q]
      BY <1>2, LiveFrame
    <2>. QED
      BY <2>1 DEF Alone, Overwriting, Live
  <1>3. CASE (\E x \in Proc : Recover(x)) \/ PlaceForeign
    BY <1>3 DEF Recover, PlaceForeign, local, Alone, Overwriting, Live
  <1>. QED
    BY <1>1, <1>2, <1>3, NextCases

LEMMA InitRuns == Init => RunsInv
  BY InitFresh, InitCreator DEF RunsInv, Init, Alone, Overwriting, Live

LEMMA NextRuns ==
  ASSUME OverwriteAlone \/ MaxLive = 1
  PROVE  TypeOK /\ RunsInv /\ [Next]_vars => RunsInv'
  <1>1. TypeOK /\ RunsInv /\ [Next]_vars => Alone'
    BY AloneKept DEF RunsInv, Alone, Overwriting, Live, vars, local
  <1>. QED
    BY <1>1, CreatorKept, FreshKeptOrStutters DEF RunsInv

\* What a live run may rely on about the others.
LEMMA LiveAlone ==
  ASSUME TypeOK, RunsInv, NEW r \in Proc, LiveStep(r)
  PROVE  /\ Live(r) /\ \A q \in Proc \ {r} : ~Overwriting(q)
         /\ Overwriting(r) => \A q \in Proc \ {r} : ~Live(q)
         /\ Overwrite(r) \/ Rollback(r) => Overwriting(r)
  BY LiveFrame, OverwriteModes DEF RunsInv, Alone

-----------------------------------------------------------------------------
(***************************************************************************)
(* The old corpus or the new one survives, and an unrelated directory is   *)
(* only ever at the destination, where neither validation nor the marker   *)
(* test accepts it.                                                        *)
(***************************************************************************)
Ours(t) == t # NoTree => t.id # Foreign

\* Where each phase of a run finds a whole corpus, and where its journal lies.  A run
\* that does not overwrite may lose its staged tree to another one, which then has
\* filled the destination.
Backed(r) ==
    /\ pc[r] \in {"stat", "quarantine", "newpromoted", "discard", "discarding",
                 "committed", "promoted", "restored"} => Whole(dest)
    /\ pc[r] \in {"quarantined", "inode", "swap", "newpromoted", "verify", "remove",
                 "removing", "restore"} => Whole(quarantine[r])
    /\ pc[r] \in {"idle", "build", "sealed", "validate", "intent", "exists", "create",
                 "owner", "stat", "quarantine", "quarantined", "inode", "swap"}
           => jpath[r] = "staging"
    /\ pc[r] \in {"intent", "exists", "create", "owner", "stat", "quarantine",
                 "quarantined", "inode", "swap"}
           => Whole(staging[tx[r]]) \/ (mode[r] # "overwrite" /\ dest # NoTree)
    /\ pc[r] = "removing" => dest # NoTree /\ dest.id # Foreign

DestSafe == Ours(dest) \/ (~dest.whole /\ ~dest.marker)
NamesSafe == \A q \in Proc : Ours(staging[q]) /\ Ours(quarantine[q])

SurvivalInv ==
    /\ OldOrNewSurvives
    /\ DestSafe
    /\ NamesSafe
    /\ \A r \in Proc : Backed(r)

\* What no step of a run that does not overwrite does: take a whole corpus or
\* anything else away from the destination, or take a whole staged tree away without
\* filling the destination.
Gentle ==
    /\ Whole(dest) => Whole(dest)'
    /\ dest # NoTree => dest' # NoTree
    /\ \A x \in Proc : Whole(staging[x]) => Whole(staging[x])' \/ dest' # NoTree

LEMMA BackedKept ==
  ASSUME TypeOK, RunsInv, NEW q \in Proc, Backed(q), ~Overwriting(q), Gentle \/ ~Live(q),
         pc'[q] = pc[q], mode'[q] = mode[q], tx'[q] = tx[q], jpath'[q] = jpath[q]
  PROVE  Backed(q)'
  <1>1. CASE Live(q)
    <2>1. pc[q] \in {"build", "sealed", "validate", "intent", "exists", "create", "promoted"}
      BY <1>1, CreatorsAt DEF RunsInv, Overwriting
    <2>2. tx[q] \in Proc /\ Gentle /\ mode[q] # "overwrite"
      BY <1>1 DEF TypeOK, Overwriting
    <2>. QED
      BY <2>1, <2>2 DEF Backed, Gentle, Whole
  <1>2. CASE ~Live(q)
    <2>1. pc[q] \in {"idle", "done", "stopped"}
      BY <1>2 DEF Live
    <2>. QED
      BY <2>1 DEF Backed
  <1>. QED
    BY <1>1, <1>2

\* What a step of a live run leaves to be shown.
LEMMA SurvivalStep ==
  ASSUME TypeOK, RunsInv, SurvivalInv, NEW r \in Proc, LiveStep(r),
         Gentle \/ Overwriting(r),
         OldOrNewSurvives', Backed(r)', DestSafe', NamesSafe'
  PROVE  SurvivalInv'
  <1>1. ASSUME NEW q \in Proc \ {r}
        PROVE  Backed(q)'
    BY <1>1, LiveAlone, LiveFrame, BackedKept DEF SurvivalInv
  <1>. QED
    BY <1>1 DEF SurvivalInv

\* A step of a live run that touches no file.
LEMMA QuietStep ==
  ASSUME TypeOK, RunsInv, SurvivalInv, NEW r \in Proc, LiveStep(r),
         UNCHANGED <<files, published>>, Backed(r)'
  PROVE  SurvivalInv'
  <1>1. OldOrNewSurvives' /\ Gentle
    BY DEF SurvivalInv, OldOrNewSurvives, files, Whole, Gentle
  <1>2. DestSafe' /\ NamesSafe'
    BY DEF SurvivalInv, DestSafe, NamesSafe, Ours, files
  <1>. QED
    BY <1>1, <1>2, SurvivalStep

\* A journal line neither makes nor unmakes a whole corpus.
LEMMA WriteEventFrame ==
  ASSUME TypeOK, SurvivalInv, NEW r \in Proc, NEW e \in Event, WriteEvent(r, e)
  PROVE  /\ quarantine' = quarantine /\ Gentle
         /\ Whole(dest) => Whole(dest)'
         /\ \A x \in Proc : Whole(staging[x]) => Whole(staging[x])'
         /\ jpath[r] = "staging" => dest' = dest
         /\ OldOrNewSurvives'
         /\ DestSafe' /\ NamesSafe'
  <1>0. IdentityOf(r) \in Identity /\ tx[r] \in Proc /\ dest \in Place
        /\ \A x \in Proc : staging[x] \in Place
    BY IdentityIsIdentity DEF TypeOK
  <1>. DEFINE W(t) == WithEvent(t, e, IdentityOf(r))
  <1>1. ASSUME NEW t \in Place
        PROVE  /\ Whole(t) <=> Whole(W(t))
               /\ W(t) # NoTree
               /\ Ours(t) => Ours(W(t))
               /\ Whole(t) => W(t).id = t.id
               /\ ~Ours(t) /\ ~t.whole /\ ~t.marker => ~W(t).whole /\ ~W(t).marker
    <2>1. CASE t = NoTree
      BY <1>0, <2>1, AppendKeepsTree, NoTreeIsNoTree DEF WithEvent, Whole, Ours, Stray, Foreign
    <2>2. CASE t # NoTree
      <3>1. t \in Tree
        BY <2>2 DEF Place
      <3>2. W(t) \in Tree
        BY <1>0, AppendKeepsTree
      <3>3. W(t) = [t EXCEPT !.journal = Append(t.journal, e)]
        BY <2>2 DEF WithEvent
      <3>4. W(t).whole = t.whole /\ W(t).marker = t.marker /\ W(t).id = t.id
        BY <3>1, <3>3 DEF Tree
      <3>. QED
        BY <2>2, <3>2, <3>4, NoTreeIsNoTree DEF Whole, Ours
    <2>. QED
      BY <2>1, <2>2
  <1>2. CASE /\ jpath[r] = "dest"
             /\ SetDest(W(dest))
             /\ UNCHANGED <<staging, quarantine>>
    <2>1. dest' = W(dest)
      BY <1>2 DEF SetDest
    <2>2. (Whole(dest) <=> Whole(dest)') /\ DestSafe'
      BY <1>0, <1>1, <2>1 DEF SurvivalInv, Whole, DestSafe, Ours
    <2>3. OldOrNewSurvives'
      <3>1. CASE Whole(dest)
        BY <2>2, <3>1 DEF OldOrNewSurvives
      <3>2. CASE ~Whole(dest)
        <4>1. published' = published /\ quarantine' = quarantine
          BY <1>2, <2>1, <2>2, <3>2 DEF SetDest, Whole
        <4>. QED
          BY <4>1, <3>2, <2>2 DEF SurvivalInv, OldOrNewSurvives, Whole
      <3>. QED
        BY <3>1, <3>2
    <2>. QED
      BY <1>0, <1>1, <1>2, <2>1, <2>2, <2>3 DEF SurvivalInv, NamesSafe, Ours, Whole, Gentle
  <1>3. CASE /\ jpath[r] = "staging"
             /\ staging' = [staging EXCEPT ![tx[r]] = W(@)]
             /\ UNCHANGED <<dest, quarantine, published>>
    <2>1. staging' = [staging EXCEPT ![tx[r]] = W(staging[tx[r]])]
      BY <1>3
    <2>2. /\ Whole(staging[tx[r]]) => Whole(W(staging[tx[r]]))
          /\ Ours(W(staging[tx[r]]))
      BY <1>0, <1>1 DEF SurvivalInv, NamesSafe
    <2>3. \A x \in Proc : /\ Whole(staging[x]) => Whole(staging'[x])
                          /\ Ours(staging'[x])
      BY <1>0, <2>1, <2>2 DEF TypeOK, SurvivalInv, NamesSafe
    <2>4. (\A x \in Proc : Whole(staging[x]) => Whole(staging[x])') /\ NamesSafe'
      BY <1>3, <2>3 DEF Whole, Ours, NamesSafe, SurvivalInv
    <2>5. OldOrNewSurvives' /\ DestSafe'
      BY <1>3 DEF SurvivalInv, OldOrNewSurvives, Whole, DestSafe, Ours
    <2>. QED
      BY <1>3, <2>4, <2>5 DEF Whole, Gentle
  <1>. QED
    BY <1>2, <1>3 DEF WriteEvent

LEMMA JournalStep ==
  ASSUME TypeOK, RunsInv, SurvivalInv, NEW r \in Proc, LiveStep(r), NEW k \in EventType,
         WriteEvent(r, EventOf(r, k)), Backed(r)'
  PROVE  SurvivalInv'
  <1>1. EventOf(r, k) \in Event
    BY EventIsEvent
  <1>2. OldOrNewSurvives' /\ DestSafe' /\ NamesSafe' /\ Gentle
    BY <1>1, WriteEventFrame
  <1>. QED
    BY <1>2, SurvivalStep

\* Promotion of a whole staged tree to the free destination.
LEMMA PromoteStep ==
  ASSUME TypeOK, RunsInv, SurvivalInv, NEW r \in Proc, LiveStep(r), CanPromote(r), Promote(r),
         Whole(staging[tx[r]]), NEW step \in {"promoted", "newpromoted"}, Goto(r, step),
         step = "newpromoted" => Whole(quarantine[r])
  PROVE  SurvivalInv'
  <1>0. tx[r] \in Proc /\ dest = NoTree
    BY DEF TypeOK, CanPromote
  <1>1. dest' = staging[tx[r]] /\ Whole(dest)'
    BY DEF Promote, SetDest, Whole
  <1>2. OldOrNewSurvives' /\ Gentle
    BY <1>0, <1>1 DEF OldOrNewSurvives, Gentle, Whole
  <1>3. DestSafe'
    BY <1>0, <1>1 DEF SurvivalInv, DestSafe, NamesSafe, Ours
  <1>4. \A q \in Proc : Ours(staging'[q]) /\ Ours(quarantine'[q])
    BY DEF SurvivalInv, NamesSafe, Promote, TypeOK, Ours
  <1>5. NamesSafe'
    BY <1>4 DEF NamesSafe, Ours
  <1>6. pc'[r] = step
    BY DEF Goto, TypeOK
  <1>7. Whole(quarantine[r]) => Whole(quarantine[r])'
    BY DEF Promote, Whole
  <1>8. Backed(r)'
    BY <1>1, <1>6, <1>7 DEF Backed
  <1>. QED
    BY <1>2, <1>3, <1>5, <1>8, SurvivalStep

\* The beginning of a run disturbs nobody.
LEMMA BeginSurvives ==
  ASSUME OverwriteAlone \/ MaxLive = 1, TypeOK, RunsInv, SurvivalInv, NEW r \in Proc, Begin(r)
  PROVE  SurvivalInv'
  <1>0. Fresh(r) /\ Backed(r) /\ \A q \in Proc : ~Overwriting(q)
    BY BeginFrame, FreeSlotIsSafe DEF RunsInv, SurvivalInv
  <1>1. Ours(staging[r])'
    <2>1. ASSUME NEW m \in {"create", "overwrite"}, NEW c \in Config, StartBuild(r, m, c)
          PROVE  Ours(staging[r])'
      <3>1. staging'[r] = NewTree(r, m, c)
        BY <2>1 DEF StartBuild, TypeOK
      <3>2. Ours(NewTree(r, m, c))
        BY NamesAssumption DEF Ours, NewTree, Foreign
      <3>. QED
        BY <3>1, <3>2 DEF Ours
    <2>2. CASE staging'[r] = staging[r]
      BY <2>2 DEF SurvivalInv, NamesSafe, Ours
    <2>. QED
      BY <2>1, <2>2, BeginFrame DEF RunsInv
  <1>2. DestSafe' /\ NamesSafe'
    BY <1>1, BeginFrame DEF RunsInv, SurvivalInv, DestSafe, NamesSafe, Ours
  <1>3. OldOrNewSurvives' /\ Gentle
    BY <1>0, BeginFrame DEF RunsInv, SurvivalInv, OldOrNewSurvives, Whole, Gentle, Fresh
  <1>4. Backed(r)'
    BY <1>0, BeginFrame DEF RunsInv, Backed, Fresh
  <1>5. ASSUME NEW q \in Proc \ {r}
        PROVE  Backed(q)'
    BY <1>0, <1>3, <1>5, BeginFrame, BackedKept DEF RunsInv, SurvivalInv
  <1>. QED
    BY <1>2, <1>3, <1>4, <1>5 DEF SurvivalInv

LEMMA SealSurvives ==
  ASSUME TypeOK, RunsInv, SurvivalInv, NEW r \in Proc, Seal(r) \/ AppendValidated(r)
  PROVE  SurvivalInv'
  <1>0. LiveStep(r)
    BY DEF LiveStep
  <1>2. CASE Seal(r)
    <2>0. pc'[r] = "sealed" /\ jpath'[r] = "staging"
      BY <1>2 DEF Seal, Goto, TypeOK, SurvivalInv, Backed, local
    <2>1. /\ staging[r] \in Tree /\ Sealed(staging[r]).id = staging[r].id
          /\ Whole(Sealed(staging[r]))
      BY <1>2, SealedIsTree, NoTreeIsNoTree DEF Seal, TypeOK, Place, Sealed, Tree, Whole
    <2>2. Ours(Sealed(staging[r]))
      BY <1>2, <2>1 DEF Seal, SurvivalInv, NamesSafe, Ours
    <2>3. \A q \in Proc : Ours(staging'[q]) /\ Ours(quarantine'[q])
      BY <1>2, <2>2 DEF Seal, SurvivalInv, NamesSafe, TypeOK
    <2>4. DestSafe' /\ NamesSafe'
      BY <1>2, <2>3 DEF Seal, SurvivalInv, Ours, DestSafe, NamesSafe
    <2>5. OldOrNewSurvives'
      BY <1>2 DEF Seal, SurvivalInv, OldOrNewSurvives, Whole
    <2>6. Backed(r)'
      BY <2>0 DEF Backed
    <2>7. \A x \in Proc : Whole(staging[x]) => Whole(staging'[x])
      BY <1>2, <2>1 DEF Seal, TypeOK
    <2>8. Gentle
      BY <1>2, <2>7 DEF Seal, Gentle, Whole
    <2>. QED
      BY <1>0, <2>4, <2>5, <2>6, <2>8, SurvivalStep
  <1>3. CASE AppendValidated(r)
    <2>1. pc'[r] = "validate" /\ jpath'[r] = "staging"
      BY <1>3 DEF AppendValidated, JournalAppend, Goto, TypeOK, SurvivalInv, Backed
    <2>2. Backed(r)'
      BY <2>1 DEF Backed
    <2>. QED
      BY <1>0, <1>3, <2>2, JournalStep DEF AppendValidated, JournalAppend, EventType
  <1>. QED
    BY <1>2, <1>3

LEMMA PublishSurvives ==
  ASSUME TypeOK, RunsInv, SurvivalInv, NEW r \in Proc, Publish(r)
  PROVE  SurvivalInv'
  <1>0. LiveStep(r) /\ mode' = mode /\ Backed(r) /\ tx[r] \in Proc
    BY LiveFrame DEF LiveStep, SurvivalInv, TypeOK
  <1>1. CASE ValidateStaging(r)
    <2>1. Live(r) /\ Backed(r)'
      BY <1>0, <1>1 DEF ValidateStaging, Live, Goto, TypeOK, Backed, files, local, Whole
    <2>. QED
      BY <1>0, <1>1, <2>1, QuietStep DEF ValidateStaging, NextStep, local
  <1>2. CASE AppendIntent(r)
    <2>1. Live(r) /\ pc'[r] = "exists" /\ jpath'[r] = "staging" /\ tx' = tx
      BY <1>0, <1>2 DEF AppendIntent, JournalAppend, Live, Goto, TypeOK, Backed
    <2>2. EventOf(r, "PROMOTION_INTENT") \in Event
      BY EventIsEvent DEF EventType
    <2>3. (Whole(staging[tx[r]]) \/ (mode[r] # "overwrite" /\ dest # NoTree))'
      <3>1. Whole(staging[tx[r]]) \/ (mode[r] # "overwrite" /\ dest # NoTree)
        BY <1>0, <1>2 DEF AppendIntent, Backed
      <3>2. Gentle /\ \A x \in Proc : Whole(staging[x]) => Whole(staging[x])'
        BY <1>2, <2>2, WriteEventFrame DEF AppendIntent, JournalAppend
      <3>. QED
        BY <1>0, <2>1, <3>1, <3>2 DEF Gentle, Whole
    <2>4. Backed(r)'
      BY <2>1, <2>3 DEF Backed, Whole
    <2>. QED
      BY <1>0, <1>2, <2>1, <2>4, JournalStep DEF AppendIntent, JournalAppend, EventType, NextStep
  <1>3. CASE CheckDestination(r)
    <2>1. Live(r) /\ Backed(r)'
      BY <1>0, <1>3 DEF CheckDestination, Live, Goto, TypeOK, Backed, files, local, Whole
    <2>. QED
      BY <1>0, <1>3, <2>1, QuietStep DEF CheckDestination, NextStep, local
  <1>4. CASE CreateDestination(r)
    <2>1. Live(r) /\ Whole(staging[tx[r]])
      BY <1>0, <1>4 DEF CreateDestination, CanPromote, Live, Backed
    <2>. QED
      BY <1>0, <1>4, <2>1, PromoteStep DEF CreateDestination
  <1>5. CASE AppendPromoted(r)
    <2>1. Live(r) /\ pc'[r] = "done"
      BY <1>5 DEF AppendPromoted, Live, Goto, TypeOK
    <2>2. Backed(r)'
      BY <2>1 DEF Backed
    <2>. QED
      BY <1>0, <1>5, <2>1, <2>2, JournalStep DEF AppendPromoted, JournalAppend, EventType, NextStep
  <1>. QED
    BY <1>1, <1>2, <1>3, <1>4, <1>5 DEF Publish

LEMMA OverwriteSurvives ==
  ASSUME TypeOK, RunsInv, SurvivalInv, NEW r \in Proc, Overwrite(r)
  PROVE  SurvivalInv'
  <1>0. LiveStep(r) /\ Overwriting(r) /\ mode[r] = "overwrite" /\ mode' = mode
        /\ Backed(r) /\ tx[r] \in Proc
    BY LiveAlone, LiveFrame DEF LiveStep, Overwriting, SurvivalInv, TypeOK
  <1>1. CASE CheckOwnership(r)
    <2>1. Live(r) /\ Backed(r)'
      BY <1>0, <1>1 DEF CheckOwnership, Live, Goto, TypeOK, Backed, files, local, Whole
    <2>. QED
      BY <1>0, <1>1, <2>1, QuietStep DEF CheckOwnership, NextStep, local
  <1>2. CASE StatDestination(r)
    <2>1. Live(r) /\ Backed(r)'
      BY <1>0, <1>2 DEF StatDestination, Live, Goto, TypeOK, Backed, files, Whole
    <2>. QED
      BY <1>0, <1>2, <2>1, QuietStep DEF StatDestination, NextStep
  <1>3. CASE QuarantineOld(r)
    <2>1. Live(r) /\ pc'[r] = "quarantined" /\ jpath'[r] = "staging"
          /\ Whole(staging[tx[r]])' /\ Whole(dest)
      BY <1>0, <1>3 DEF QuarantineOld, Live, Goto, TypeOK, Backed, local, Whole
    <2>2. quarantine'[r] = dest
      BY <1>3 DEF QuarantineOld, TypeOK
    <2>3. Backed(r)' /\ OldOrNewSurvives'
      BY <2>1, <2>2 DEF Backed, Whole, OldOrNewSurvives
    <2>4. Ours(dest)
      BY <2>1 DEF SurvivalInv, DestSafe, Whole
    <2>5. \A q \in Proc : Ours(staging'[q]) /\ Ours(quarantine'[q])
      BY <1>3, <2>4 DEF QuarantineOld, SurvivalInv, NamesSafe, TypeOK
    <2>6. DestSafe' /\ NamesSafe'
      BY <1>3, <2>5 DEF QuarantineOld, DestSafe, NamesSafe, Ours
    <2>. QED
      BY <1>0, <1>3, <2>1, <2>3, <2>6, SurvivalStep DEF QuarantineOld, NextStep, local
  <1>4. CASE AppendQuarantined(r)
    <2>1. Live(r) /\ pc'[r] = "inode" /\ jpath'[r] = "staging" /\ tx' = tx
      BY <1>0, <1>4 DEF AppendQuarantined, JournalAppend, Live, Goto, TypeOK, Backed
    <2>2. EventOf(r, "OLD_QUARANTINED") \in Event
      BY EventIsEvent DEF EventType
    <2>3. Whole(staging[tx[r]])' /\ Whole(quarantine[r])'
      BY <1>0, <1>4, <2>1, <2>2, WriteEventFrame
      DEF AppendQuarantined, JournalAppend, Backed, Whole
    <2>4. Backed(r)'
      BY <2>1, <2>3 DEF Backed, Whole
    <2>. QED
      BY <1>0, <1>4, <2>1, <2>4, JournalStep DEF AppendQuarantined, JournalAppend, EventType, NextStep
  <1>5. CASE CheckInode(r)
    <2>1. Live(r) /\ Backed(r)'
      BY <1>0, <1>5 DEF CheckInode, Live, Goto, TypeOK, Backed, files, local, Whole
    <2>. QED
      BY <1>0, <1>5, <2>1, QuietStep DEF CheckInode, NextStep, local
  <1>6. CASE SwapIn(r)
    <2>1. CASE CanPromote(r)
      <3>1. Live(r) /\ Whole(staging[tx[r]]) /\ Whole(quarantine[r])
        BY <1>0, <1>6 DEF SwapIn, Live, Backed
      <3>. QED
        BY <1>0, <1>6, <2>1, <3>1, PromoteStep DEF SwapIn
    <2>2. CASE ~CanPromote(r)
      <3>1. Live(r) /\ Backed(r)'
        BY <1>0, <1>6, <2>2 DEF SwapIn, Live, Goto, TypeOK, Backed, files, local, Whole
      <3>. QED
        BY <1>0, <1>6, <2>2, <3>1, QuietStep DEF SwapIn, NextStep, local
    <2>. QED
      BY <2>1, <2>2
  <1>7. CASE AppendNewPromoted(r)
    <2>1. Live(r) /\ pc'[r] = "verify" /\ tx' = tx
      BY <1>7 DEF AppendNewPromoted, JournalAppend, Live, Goto, TypeOK
    <2>2. EventOf(r, "NEW_PROMOTED") \in Event
      BY EventIsEvent DEF EventType
    <2>3. Whole(quarantine[r])'
      BY <1>0, <1>7, <2>2, WriteEventFrame DEF AppendNewPromoted, JournalAppend, Backed, Whole
    <2>4. Backed(r)'
      BY <2>1, <2>3 DEF Backed, Whole
    <2>. QED
      BY <1>0, <1>7, <2>1, <2>4, JournalStep DEF AppendNewPromoted, JournalAppend, EventType, NextStep
  <1>8. CASE VerifyDestination(r)
    <2>1. Live(r) /\ Backed(r)'
      BY <1>0, <1>8 DEF VerifyDestination, Live, Goto, TypeOK, Backed, files, local, Whole
    <2>. QED
      BY <1>0, <1>8, <2>1, QuietStep DEF VerifyDestination, NextStep, local
  <1>9. CASE DiscardOld(r)
    <2>1. Live(r) /\ pc'[r] = "discarding" /\ Whole(dest)' /\ dest' = dest
      BY <1>0, <1>9 DEF DiscardOld, Live, Goto, TypeOK, Backed, Whole
    <2>2. Backed(r)' /\ OldOrNewSurvives'
      BY <2>1 DEF Backed, OldOrNewSurvives
    <2>3. quarantine[r] \in Tree
      BY <1>9, TreeIdIsId DEF DiscardOld, TypeOK
    <2>4. ASSUME NEW kept \in BOOLEAN
          PROVE  Ours(Damaged(quarantine[r], kept))
      <3>1. Damaged(quarantine[r], kept).id = quarantine[r].id
        BY <2>3 DEF Damaged, Tree
      <3>. QED
        BY <1>9, <3>1 DEF DiscardOld, Ours, SurvivalInv, NamesSafe
    <2>5. \A q \in Proc : Ours(staging'[q]) /\ Ours(quarantine'[q])
      BY <1>9, <2>4 DEF DiscardOld, SurvivalInv, NamesSafe, TypeOK
    <2>6. DestSafe' /\ NamesSafe'
      BY <2>1, <2>5 DEF DestSafe, NamesSafe, Ours, SurvivalInv
    <2>. QED
      BY <1>0, <1>9, <2>1, <2>2, <2>6, SurvivalStep DEF DiscardOld, NextStep, local
  <1>10. CASE DiscardedOld(r)
    <2>1. Live(r) /\ pc'[r] = "committed" /\ Whole(dest)' /\ dest' = dest
      BY <1>0, <1>10 DEF DiscardedOld, Live, Goto, TypeOK, Backed, Whole
    <2>2. Backed(r)' /\ OldOrNewSurvives'
      BY <2>1 DEF Backed, OldOrNewSurvives
    <2>3. \A q \in Proc : Ours(staging'[q]) /\ Ours(quarantine'[q])
      BY <1>10 DEF DiscardedOld, SurvivalInv, NamesSafe, TypeOK, Ours
    <2>4. DestSafe' /\ NamesSafe'
      BY <2>1, <2>3 DEF DestSafe, NamesSafe, Ours, SurvivalInv
    <2>. QED
      BY <1>0, <1>10, <2>1, <2>2, <2>4, SurvivalStep DEF DiscardedOld, NextStep, local
  <1>11. CASE AppendCommitted(r)
    <2>1. Live(r) /\ pc'[r] = "done"
      BY <1>11 DEF AppendCommitted, Live, Goto, TypeOK
    <2>2. Backed(r)'
      BY <2>1 DEF Backed
    <2>. QED
      BY <1>0, <1>11, <2>1, <2>2, JournalStep DEF AppendCommitted, JournalAppend, EventType, NextStep
  <1>. QED
    BY <1>1, <1>2, <1>3, <1>4, <1>5, <1>6, <1>7, <1>8, <1>9, <1>10, <1>11 DEF Overwrite

LEMMA RollbackSurvives ==
  ASSUME TypeOK, RunsInv, SurvivalInv, NEW r \in Proc, Rollback(r)
  PROVE  SurvivalInv'
  <1>0. LiveStep(r) /\ Overwriting(r) /\ mode[r] = "overwrite" /\ mode' = mode
        /\ Backed(r) /\ tx[r] \in Proc
    BY LiveAlone, LiveFrame DEF LiveStep, Overwriting, SurvivalInv, TypeOK
  <1>1. CASE TryBlockRaises(r)
    <2>1. Live(r) /\ Backed(r)'
      BY <1>0, <1>1 DEF TryBlockRaises, Live, Goto, TypeOK, Backed, files, local, Whole
    <2>. QED
      BY <1>0, <1>1, <2>1, QuietStep DEF TryBlockRaises, NextStep, local
  <1>2. CASE RollbackRemove(r)
    <2>0. Live(r) /\ Whole(quarantine[r])' /\ quarantine' = quarantine /\ staging' = staging
          /\ jpath' = jpath
      BY <1>0, <1>2 DEF RollbackRemove, Live, Backed, Whole, local
    <2>1. OldOrNewSurvives' /\ NamesSafe'
      BY <2>0 DEF OldOrNewSurvives, NamesSafe, Ours, SurvivalInv
    <2>2. CASE RollbackNeedsRemoval
      <3>1. pc'[r] = "removing"
        BY <1>2, <2>2 DEF RollbackRemove, Goto, TypeOK
      <3>2. dest \in Tree /\ dest.id # Foreign
        BY <2>2, TreeIdIsId DEF RollbackNeedsRemoval, SurvivalInv, DestSafe, Ours, TypeOK
      <3>3. PICK kept \in BOOLEAN : dest' = Damaged(dest, kept)
        BY <1>2, <2>2 DEF RollbackRemove
      <3>4. dest' # NoTree /\ dest'.id = dest.id
        BY <3>2, <3>3, NoTreeIsNoTree, DamagedIsTree DEF Damaged, Tree
      <3>5. Backed(r)' /\ DestSafe'
        BY <2>0, <3>1, <3>2, <3>4 DEF Backed, Whole, DestSafe, Ours
      <3>. QED
        BY <1>0, <1>2, <2>0, <2>1, <2>2, <3>5, SurvivalStep
        DEF RollbackRemove, NextStep
    <2>3. CASE ~RollbackNeedsRemoval
      <3>1. pc'[r] = "restore" /\ dest' = dest
        BY <1>2, <2>3 DEF RollbackRemove, Goto, TypeOK
      <3>2. Backed(r)' /\ DestSafe'
        BY <2>0, <3>1 DEF Backed, Whole, DestSafe, Ours, SurvivalInv
      <3>. QED
        BY <1>0, <1>2, <2>0, <2>1, <2>3, <3>2, SurvivalStep
        DEF RollbackRemove, NextStep
    <2>. QED
      BY <2>2, <2>3
  <1>3. CASE RollbackRemoved(r)
    <2>0. Live(r) /\ Whole(quarantine[r])' /\ quarantine' = quarantine /\ staging' = staging
          /\ jpath' = jpath /\ dest' = NoTree /\ pc'[r] = "restore"
      BY <1>0, <1>3 DEF RollbackRemoved, Live, Backed, Whole, local, Goto, TypeOK
    <2>1. OldOrNewSurvives' /\ NamesSafe' /\ DestSafe' /\ Backed(r)'
      BY <2>0 DEF OldOrNewSurvives, NamesSafe, DestSafe, Ours, SurvivalInv, Backed, Whole
    <2>. QED
      BY <1>0, <1>3, <2>0, <2>1, SurvivalStep DEF RollbackRemoved, NextStep
  <1>4. CASE RollbackRestore(r)
    <2>0. Live(r) /\ Whole(quarantine[r]) /\ staging' = staging /\ jpath' = jpath
      BY <1>0, <1>4 DEF RollbackRestore, Live, Backed, local
    <2>1. CASE dest = NoTree
      <3>1. dest' = quarantine[r] /\ quarantine' = [quarantine EXCEPT ![r] = NoTree]
            /\ Goto(r, "restored")
        BY <1>4, <2>0, <2>1 DEF RollbackRestore, SetDest, Whole
      <3>2. pc'[r] = "restored"
        BY <3>1 DEF Goto, TypeOK
      <3>3. OldOrNewSurvives' /\ DestSafe' /\ Backed(r)'
        BY <2>0, <3>1, <3>2 DEF OldOrNewSurvives, DestSafe, NamesSafe, Ours, SurvivalInv, Backed, Whole
      <3>4. \A q \in Proc : Ours(quarantine'[q])
        BY <3>1 DEF SurvivalInv, NamesSafe, TypeOK, Ours
      <3>5. NamesSafe'
        BY <2>0, <3>4 DEF NamesSafe, Ours, SurvivalInv
      <3>. QED
        BY <1>0, <2>0, <3>1, <3>3, <3>5, SurvivalStep DEF NextStep
    <2>2. CASE dest # NoTree
      <3>1. Goto(r, "stopped") /\ UNCHANGED <<files, published>>
        BY <1>4, <2>0, <2>2 DEF RollbackRestore, Whole, files
      <3>2. pc'[r] = "stopped"
        BY <3>1 DEF Goto, TypeOK
      <3>3. Backed(r)'
        BY <3>2 DEF Backed
      <3>. QED
        BY <1>0, <2>0, <3>1, <3>3, QuietStep DEF NextStep
    <2>. QED
      BY <2>1, <2>2
  <1>5. CASE AppendRestored(r)
    <2>1. Live(r) /\ pc'[r] = "stopped"
      BY <1>5 DEF AppendRestored, Live, Goto, TypeOK
    <2>2. Backed(r)'
      BY <2>1 DEF Backed
    <2>. QED
      BY <1>0, <1>5, <2>1, <2>2, JournalStep DEF AppendRestored, JournalAppend, EventType, NextStep
  <1>. QED
    BY <1>1, <1>2, <1>3, <1>4, <1>5 DEF Rollback

LEMMA StopSurvives ==
  ASSUME TypeOK, RunsInv, SurvivalInv, NEW r \in Proc, Stop(r) \/ StopInAppend(r)
  PROVE  SurvivalInv'
  <1>0. LiveStep(r)
    BY DEF LiveStep
  <1>1. pc'[r] = "stopped" /\ Live(r) /\ Goto(r, "stopped")
    BY DEF Stop, StopInAppend, Appending, Live, Goto, TypeOK
  <1>2. Backed(r)'
    BY <1>1 DEF Backed
  <1>3. CASE Stop(r)
    BY <1>0, <1>1, <1>2, <1>3, QuietStep DEF Stop, NextStep, local
  <1>4. CASE StopInAppend(r)
    BY <1>0, <1>1, <1>2, <1>4, JournalStep DEF StopInAppend, EventType, NextStep, local
  <1>. QED
    BY <1>3, <1>4

LEMMA OtherSurvives ==
  ASSUME OverwriteAlone \/ MaxLive = 1, TypeOK, RunsInv, SurvivalInv,
         (\E x \in Proc : Recover(x)) \/ PlaceForeign
  PROVE  SurvivalInv'
  <1>1. ASSUME NEW x \in Proc, Recover(x)
        PROVE  SurvivalInv'
    <2>1. (\A q \in Proc : ~Overwriting(q)) /\ UNCHANGED <<pc, mode, tx, jpath, staging>>
      BY <1>1, FreeSlotIsSafe DEF Recover, local
    <2>2. dest' = quarantine[x] /\ quarantine' = [quarantine EXCEPT ![x] = NoTree]
          /\ dest = NoTree
          /\ published' = published \cup (IF Whole(quarantine[x]) THEN {quarantine[x].id} ELSE {})
      BY <1>1 DEF Recover, SetDest, CanRecover
    <2>3. \A q \in Proc : Backed(q)'
      BY <2>1, <2>2, BackedKept DEF SurvivalInv, Gentle, Whole
    <2>4. \A q \in Proc : Ours(quarantine'[q])
      BY <2>2 DEF SurvivalInv, NamesSafe, TypeOK, Ours
    <2>5. NamesSafe' /\ DestSafe'
      BY <2>1, <2>2, <2>4 DEF Ours, SurvivalInv, NamesSafe, DestSafe
    <2>6. OldOrNewSurvives'
      <3>1. CASE Whole(quarantine[x])
        BY <2>2, <3>1 DEF OldOrNewSurvives, Whole
      <3>2. CASE ~Whole(quarantine[x])
        <4>1. SUFFICES ASSUME published # {}
                       PROVE  \E t \in {dest'} \cup {quarantine'[y] : y \in Proc} : Whole(t)
          BY <2>2, <3>2 DEF OldOrNewSurvives, Whole
        <4>2. PICK t \in {dest} \cup {quarantine[y] : y \in Proc} : Whole(t)
          BY <4>1 DEF SurvivalInv, OldOrNewSurvives
        <4>3. PICK y \in Proc : t = quarantine[y]
          BY <2>2, <4>2 DEF Whole
        <4>4. quarantine'[y] = t
          BY <2>2, <3>2, <4>2, <4>3 DEF TypeOK
        <4>. QED
          BY <4>2, <4>4
      <3>. QED
        BY <3>1, <3>2
    <2>. QED
      BY <2>3, <2>5, <2>6 DEF SurvivalInv
  <1>2. CASE PlaceForeign
    <2>1. dest = NoTree /\ UNCHANGED <<staging, quarantine, pc, mode, jpath, tx, published>>
      BY <1>2 DEF PlaceForeign, local
    <2>2. PICK c \in Config : dest' = OldTree(Foreign, FALSE, c)
      BY <1>2 DEF PlaceForeign
    <2>3. DestSafe'
      BY <2>2 DEF DestSafe, OldTree
    <2>4. \A q \in Proc : Backed(q)'
      BY <2>1 DEF Backed, SurvivalInv, Whole
    <2>5. OldOrNewSurvives' /\ NamesSafe'
      BY <2>1 DEF SurvivalInv, OldOrNewSurvives, NamesSafe, Ours, Whole
    <2>. QED
      BY <2>3, <2>4, <2>5 DEF SurvivalInv
  <1>. QED
    BY <1>1, <1>2

LEMMA InitSurvives == Init => SurvivalInv
  <1>. SUFFICES ASSUME Init PROVE SurvivalInv
    OBVIOUS
  <1>2. OldOrNewSurvives
    BY DEF Init, OldOrNewSurvives, Whole
  <1>3. (\A r \in Proc : Backed(r)) /\ NamesSafe
    BY DEF Init, Backed, NamesSafe, Ours
  <1>4. DestSafe
    <2>1. PICK c \in Config :
            dest \in {NoTree, OldTree(Prior, TRUE, c), OldTree(Foreign, FALSE, c)}
      BY DEF Init
    <2>2. CASE dest = NoTree
      BY <2>2 DEF DestSafe, Ours
    <2>3. CASE dest = OldTree(Prior, TRUE, c)
      <3>1. dest.id = Prior
        BY <2>3 DEF OldTree
      <3>. QED
        BY <3>1 DEF DestSafe, Ours, Prior, Foreign
    <2>4. CASE dest = OldTree(Foreign, FALSE, c)
      <3>1. dest.whole = FALSE /\ dest.marker = FALSE
        BY <2>4 DEF OldTree
      <3>. QED
        BY <3>1 DEF DestSafe
    <2>. QED
      BY <2>1, <2>2, <2>3, <2>4
  <1>. QED
    BY <1>2, <1>3, <1>4 DEF SurvivalInv

LEMMA NextSurvives ==
  ASSUME OverwriteAlone \/ MaxLive = 1
  PROVE  TypeOK /\ RunsInv /\ SurvivalInv /\ [Next]_vars => SurvivalInv'
  <1>. SUFFICES ASSUME TypeOK, RunsInv, SurvivalInv, [Next]_vars PROVE SurvivalInv'
    OBVIOUS
  <1>1. CASE UNCHANGED vars
    BY <1>1 DEF vars, files, local, SurvivalInv, OldOrNewSurvives, Whole, Backed, Ours,
                DestSafe, NamesSafe
  <1>2. ASSUME NEW r \in Proc, Begin(r) \/ LiveStep(r)
        PROVE  SurvivalInv'
    BY <1>2, BeginSurvives, SealSurvives, PublishSurvives, OverwriteSurvives,
       RollbackSurvives, StopSurvives DEF LiveStep
  <1>. QED
    BY <1>1, <1>2, OtherSurvives, NextCases

\* Wherever a run stops, a corpus that was ever published is still on disk, at the
\* destination or in a quarantine, as long as no other run and no recovery is alive
\* beside an overwriting run; creators and resumptions may overlap.
THEOREM CorpusSurvives ==
  ASSUME OverwriteAlone \/ MaxLive = 1
  PROVE  Spec => []OldOrNewSurvives
  <1>1. SurvivalInv => OldOrNewSurvives
    BY DEF SurvivalInv
  <1>. QED
    BY <1>1, InitType, NextType, InitRuns, NextRuns, InitSurvives, NextSurvives, PTL DEF Spec

-----------------------------------------------------------------------------
(***************************************************************************)
(* An unrelated directory is left as it is.                                *)
(***************************************************************************)
LEMMA ForeignNotWhole ==
  ASSUME SurvivalInv, dest # NoTree, dest.id = Foreign
  PROVE  ~Whole(dest) /\ ~dest.marker
  BY DEF SurvivalInv, DestSafe, Ours, Whole

\* A journal lies at the destination only after its tree was promoted there.
LEMMA ForeignNotWritten ==
  ASSUME TypeOK, SurvivalInv, dest # NoTree, dest.id = Foreign, NEW r \in Proc,
         NEW e, WriteEvent(r, e),
         pc[r] \in Appending
  PROVE  dest' = dest
  <1>1. ~Whole(dest) /\ Backed(r)
    BY ForeignNotWhole DEF SurvivalInv
  <1>2. jpath[r] = "staging"
    BY <1>1 DEF Backed, Appending
  <1>. QED
    BY <1>2 DEF WriteEvent

LEMMA UnrelatedStep ==
  ASSUME TypeOK, SurvivalInv, Next, dest # NoTree, dest.id = Foreign
  PROVE  dest' = dest
  <1>0. /\ ~Whole(dest) /\ ~dest.marker
        /\ \A q \in Proc : Backed(q)
    BY ForeignNotWhole DEF SurvivalInv
  <1>1. ASSUME NEW r \in Proc, Build(r)
        PROVE  dest' = dest
    <2>1. CASE AppendValidated(r)
      BY <2>1, ForeignNotWritten DEF AppendValidated, JournalAppend, Appending
    <2>. QED
      BY <1>1, <2>1 DEF Build, StartBuild, Seal
  <1>2. ASSUME NEW r \in Proc, Resume(r)
        PROVE  dest' = dest
    BY <1>2 DEF Resume, ResumePublished, ResumeStaged, files
  <1>3. ASSUME NEW r \in Proc, Publish(r)
        PROVE  dest' = dest
    <2>1. CASE AppendIntent(r)
      BY <2>1, ForeignNotWritten DEF AppendIntent, JournalAppend, Appending
    <2>2. CASE AppendPromoted(r)
      BY <2>2, ForeignNotWritten DEF AppendPromoted, JournalAppend, Appending
    <2>3. CASE CreateDestination(r)
      BY <2>3 DEF CreateDestination, CanPromote
    <2>. QED
      BY <1>3, <2>1, <2>2, <2>3 DEF Publish, ValidateStaging, CheckDestination, files
  <1>4. ASSUME NEW r \in Proc, Overwrite(r)
        PROVE  dest' = dest
    <2>1. CASE QuarantineOld(r)
      BY <1>0, <2>1 DEF QuarantineOld, Backed
    <2>2. CASE AppendQuarantined(r)
      BY <2>2, ForeignNotWritten DEF AppendQuarantined, JournalAppend, Appending
    <2>3. CASE SwapIn(r)
      BY <2>3 DEF SwapIn, CanPromote, files
    <2>4. CASE AppendNewPromoted(r)
      BY <2>4, ForeignNotWritten DEF AppendNewPromoted, JournalAppend, Appending
    <2>5. CASE AppendCommitted(r)
      BY <2>5, ForeignNotWritten DEF AppendCommitted, JournalAppend, Appending
    <2>. QED
      BY <1>4, <2>1, <2>2, <2>3, <2>4, <2>5
      DEF Overwrite, CheckOwnership, StatDestination, CheckInode, VerifyDestination,
          DiscardOld, DiscardedOld, files
  <1>5. ASSUME NEW r \in Proc, Rollback(r)
        PROVE  dest' = dest
    <2>1. CASE RollbackRemove(r)
      BY <1>0, <2>1 DEF RollbackRemove, RollbackNeedsRemoval
    <2>2. CASE RollbackRemoved(r)
      BY <1>0, <2>2 DEF RollbackRemoved, Backed
    <2>3. CASE RollbackRestore(r)
      BY <2>3 DEF RollbackRestore
    <2>4. CASE AppendRestored(r)
      BY <2>4, ForeignNotWritten DEF AppendRestored, JournalAppend, Appending
    <2>. QED
      BY <1>5, <2>1, <2>2, <2>3, <2>4 DEF Rollback, TryBlockRaises, files
  <1>6. ASSUME NEW r \in Proc, Stop(r) \/ StopInAppend(r)
        PROVE  dest' = dest
    BY <1>6, ForeignNotWritten DEF Stop, StopInAppend, files
  <1>7. ASSUME NEW x \in Proc, Recover(x)
        PROVE  dest' = dest
    BY <1>7 DEF Recover, CanRecover
  <1>. QED
    BY <1>1, <1>2, <1>3, <1>4, <1>5, <1>6, <1>7 DEF Next, PlaceForeign

\* A directory that no builder made is never moved, removed or written to, in any
\* mode and wherever a run stops, as long as nothing is alive beside an overwriting run.
THEOREM UnrelatedStays ==
  ASSUME OverwriteAlone \/ MaxLive = 1
  PROVE  Spec => UnrelatedIsKept
  <1>1. TypeOK /\ SurvivalInv /\ [Next]_vars
          => [dest # NoTree /\ dest.id = Foreign => dest' = dest]_vars
    BY UnrelatedStep
  <1>. QED
    BY <1>1, InitType, NextType, InitRuns, NextRuns, InitSurvives, NextSurvives, PTL
    DEF Spec, UnrelatedIsKept

-----------------------------------------------------------------------------
(***************************************************************************)
(* What recover_publication renames back is a whole corpus.                *)
(***************************************************************************)
NamesIn(t, x) == t # NoTree /\ Names(t.journal, x)

\* No journal on disk ends in the event that names the quarantine of x.
Unnamed(x) == /\ ~NamesIn(dest, x)
              /\ \A y \in Proc : ~NamesIn(staging[y], x) /\ ~NamesIn(quarantine[y], x)

\* Where the journal that names the quarantine of x may lie: nowhere before the old
\* tree is quarantined, under the staging name of x until the swap, at the destination
\* until the next line is written there; and nowhere once the removal has begun.
Unnaming == {"idle", "build", "sealed", "validate", "intent", "exists", "create", "owner",
             "stat", "quarantine", "quarantined", "verify", "discard"}
Naming(x) ==
    /\ mode[x] = "overwrite" => tx[x] = x
    /\ pc[x] \in Unnaming => Unnamed(x)
    /\ pc[x] \in {"inode", "swap"} =>
          /\ ~NamesIn(dest, x)
          /\ \A y \in Proc : ~NamesIn(quarantine[y], x) /\ (y # x => ~NamesIn(staging[y], x))
    /\ pc[x] = "newpromoted" =>
          /\ jpath[x] = "dest"
          /\ \A y \in Proc : ~NamesIn(quarantine[y], x) /\ ~NamesIn(staging[y], x)
    /\ quarantine[x] # NoTree /\ ~Whole(quarantine[x]) => Unnamed(x)
NamingInv == \A x \in Proc : Naming(x)

\* A journal that has just been appended to ends in the event appended.
LEMMA AppendNames ==
  ASSUME NEW t \in Place, NEW e \in Event, NEW i \in Identity, NEW x,
         NamesIn(WithEvent(t, e, i), x)
  PROVE  e.type = "OLD_QUARANTINED" /\ e.tx = x
  <1>1. CASE t = NoTree
    <2>1. WithEvent(t, e, i).journal = <<e>>
      BY <1>1 DEF WithEvent
    <2>2. Len(<<e>>) = 1 /\ <<e>>[1] = e
      OBVIOUS
    <2>. QED
      BY <2>1, <2>2 DEF NamesIn, Names
  <1>2. CASE t # NoTree
    <2>1. t \in Tree /\ t.journal \in Seq(Event)
      BY <1>2 DEF Place, Tree
    <2>2. WithEvent(t, e, i).journal = Append(t.journal, e)
      BY <1>2, <2>1 DEF WithEvent, Tree
    <2>3. /\ Len(Append(t.journal, e)) = Len(t.journal) + 1
          /\ Append(t.journal, e)[Len(t.journal) + 1] = e
      BY <2>1
    <2>. QED
      BY <2>2, <2>3 DEF NamesIn, Names
  <1>. QED
    BY <1>1, <1>2

LEMMA EmptyNames ==
  ASSUME NEW x
  PROVE  /\ ~NamesIn(NoTree, x)
         /\ \A i, ok, c : ~NamesIn(OldTree(i, ok, c), x)
         /\ \A r, m, c : ~NamesIn(NewTree(r, m, c), x)
  <1>1. ~Names(<<>>, x)
    BY DEF Names
  <1>2. ASSUME NEW e, e.type = "PREFLIGHTED"
        PROVE  ~Names(<<e>>, x)
    <2>1. Len(<<e>>) = 1 /\ <<e>>[1] = e
      OBVIOUS
    <2>. QED
      BY <1>2, <2>1 DEF Names
  <1>. QED
    BY <1>1, <1>2 DEF NamesIn, OldTree, NewTree

\* Sealing and damaging a tree leave its journal.
LEMMA SameNames ==
  ASSUME NEW t \in Tree, NEW kept \in BOOLEAN, NEW x
  PROVE  /\ NamesIn(Sealed(t), x) => NamesIn(t, x)
         /\ NamesIn(Damaged(t, kept), x) => NamesIn(t, x)
  BY NoTreeIsNoTree DEF NamesIn, Sealed, Damaged, Tree

\* Which trees a journal line of run r may make name a quarantine.
LEMMA WriteNames ==
  ASSUME TypeOK, NEW r \in Proc, NEW k \in EventType, WriteEvent(r, EventOf(r, k)), NEW x
  PROVE  /\ quarantine' = quarantine
         /\ NamesIn(dest', x) => \/ jpath[r] = "staging" /\ NamesIn(dest, x)
                                 \/ jpath[r] = "dest" /\ k = "OLD_QUARANTINED" /\ tx[r] = x
         /\ \A y \in Proc : NamesIn(staging'[y], x) =>
                               \/ (jpath[r] = "dest" \/ y # tx[r]) /\ NamesIn(staging[y], x)
                               \/ k = "OLD_QUARANTINED" /\ tx[r] = x /\ y = x
  <1>0. /\ EventOf(r, k) \in Event /\ IdentityOf(r) \in Identity
        /\ EventOf(r, k).type = k /\ EventOf(r, k).tx = tx[r]
        /\ dest \in Place /\ tx[r] \in Proc /\ staging[tx[r]] \in Place
    BY EventIsEvent, IdentityIsIdentity DEF TypeOK, EventOf
  <1>1. CASE /\ jpath[r] = "dest"
             /\ SetDest(WithEvent(dest, EventOf(r, k), IdentityOf(r)))
             /\ UNCHANGED <<staging, quarantine>>
    <2>1. dest' = WithEvent(dest, EventOf(r, k), IdentityOf(r))
      BY <1>1 DEF SetDest
    <2>2. NamesIn(dest', x) => k = "OLD_QUARANTINED" /\ tx[r] = x
      BY <1>0, <2>1, AppendNames
    <2>. QED
      BY <1>1, <2>2
  <1>2. CASE /\ jpath[r] = "staging"
             /\ staging' = [staging EXCEPT ![tx[r]]
                              = WithEvent(@, EventOf(r, k), IdentityOf(r))]
             /\ UNCHANGED <<dest, quarantine, published>>
    <2>1. /\ staging'[tx[r]] = WithEvent(staging[tx[r]], EventOf(r, k), IdentityOf(r))
          /\ \A y \in Proc : y # tx[r] => staging'[y] = staging[y]
      BY <1>0, <1>2 DEF TypeOK
    <2>2. NamesIn(staging'[tx[r]], x) => k = "OLD_QUARANTINED" /\ tx[r] = x
      BY <1>0, <2>1, AppendNames
    <2>. QED
      BY <1>2, <2>1, <2>2
  <1>. QED
    BY <1>1, <1>2 DEF WriteEvent

\* Only the append of OLD_QUARANTINED by x makes a journal name the quarantine of x.
LEMMA UnnamedKept ==
  ASSUME TypeOK, RunsInv, NamingInv, Next, NEW x \in Proc, Unnamed(x), ~AppendQuarantined(x)
  PROVE  Unnamed(x)'
  <1>1. ASSUME NEW r \in Proc, NEW k \in EventType, WriteEvent(r, EventOf(r, k)),
               k = "OLD_QUARANTINED" => tx[r] # x
        PROVE  Unnamed(x)'
    BY <1>1, WriteNames DEF Unnamed
  <1>2. CASE UNCHANGED files
    BY <1>2 DEF Unnamed, files
  <1>3. ASSUME NEW r \in Proc, Promote(r)
        PROVE  Unnamed(x)'
    <2>1. tx[r] \in Proc /\ dest' = staging[tx[r]] /\ quarantine' = quarantine
      BY <1>3 DEF Promote, SetDest, TypeOK
    <2>2. \A y \in Proc : staging'[y] = NoTree \/ staging'[y] = staging[y]
      BY <1>3 DEF Promote, TypeOK
    <2>. QED
      BY <2>1, <2>2, EmptyNames DEF Unnamed
  <1>4. ASSUME NEW r \in Proc, Begin(r)
        PROVE  Unnamed(x)'
    <2>1. UNCHANGED <<dest, quarantine>> /\ \A y \in Proc \ {r} : staging'[y] = staging[y]
      BY <1>4, BeginFrame DEF RunsInv
    <2>2. ~NamesIn(staging'[r], x)
      <3>1. ASSUME NEW m \in {"create", "overwrite"}, NEW c \in Config, StartBuild(r, m, c)
            PROVE  ~NamesIn(staging'[r], x)
        BY <3>1, EmptyNames DEF StartBuild, TypeOK
      <3>2. CASE staging'[r] = staging[r]
        BY <3>2 DEF Unnamed
      <3>. QED
        BY <1>4, <3>1, <3>2, BeginFrame DEF RunsInv
    <2>. QED
      BY <2>1, <2>2 DEF Unnamed
  <1>5. ASSUME NEW r \in Proc, Seal(r)
        PROVE  Unnamed(x)'
    <2>1. staging[r] \in Tree /\ staging'[r] = Sealed(staging[r])
      BY <1>5 DEF Seal, TypeOK, Place
    <2>2. ~NamesIn(staging'[r], x)
      BY <2>1, SameNames DEF Unnamed
    <2>3. \A y \in Proc \ {r} : staging'[y] = staging[y]
      BY <1>5 DEF Seal, TypeOK
    <2>. QED
      BY <1>5, <2>2, <2>3 DEF Seal, Unnamed
  <1>6. ASSUME NEW r \in Proc, Publish(r)
        PROVE  Unnamed(x)'
    BY <1>1, <1>2, <1>3, <1>6 DEF Publish, ValidateStaging, AppendIntent, CheckDestination,
       CreateDestination, AppendPromoted, JournalAppend, EventType
  <1>7. ASSUME NEW r \in Proc, Overwrite(r)
        PROVE  Unnamed(x)'
    <2>1. CASE QuarantineOld(r)
      BY <1>7, <2>1, EmptyNames DEF QuarantineOld, Unnamed, TypeOK
    <2>2. CASE AppendQuarantined(r)
      <3>1. tx[r] = r /\ r # x
        BY <1>7, <2>2, OverwriteModes DEF RunsInv, NamingInv, Naming, Overwriting
      <3>. QED
        BY <1>1, <2>2, <3>1 DEF AppendQuarantined, JournalAppend, EventType
    <2>3. CASE SwapIn(r)
      BY <1>2, <1>3, <2>3 DEF SwapIn
    <2>4. CASE AppendNewPromoted(r) \/ AppendCommitted(r)
      BY <1>1, <2>4 DEF AppendNewPromoted, AppendCommitted, JournalAppend, EventType
    <2>5. CASE DiscardOld(r)
      <3>1. quarantine[r] \in Tree
        BY <2>5 DEF DiscardOld, TypeOK, Place
      <3>2. ~NamesIn(quarantine'[r], x)
        BY <2>5, <3>1, SameNames DEF DiscardOld, TypeOK, Unnamed
      <3>3. \A y \in Proc \ {r} : quarantine'[y] = quarantine[y]
        BY <2>5 DEF DiscardOld, TypeOK
      <3>. QED
        BY <2>5, <3>2, <3>3 DEF DiscardOld, Unnamed
    <2>6. CASE DiscardedOld(r)
      BY <2>6, EmptyNames DEF DiscardedOld, Unnamed, TypeOK
    <2>7. CASE CheckOwnership(r) \/ StatDestination(r) \/ CheckInode(r) \/ VerifyDestination(r)
      BY <1>2, <2>7 DEF CheckOwnership, StatDestination, CheckInode, VerifyDestination
    <2>. QED
      BY <1>7, <2>1, <2>2, <2>3, <2>4, <2>5, <2>6, <2>7 DEF Overwrite
  <1>8. ASSUME NEW r \in Proc, Rollback(r)
        PROVE  Unnamed(x)'
    <2>1. CASE RollbackRemove(r)
      <3>1. CASE RollbackNeedsRemoval
        <4>1. dest \in Tree
          BY <3>1 DEF RollbackNeedsRemoval, TypeOK, Place
        <4>2. ~NamesIn(dest', x)
          BY <2>1, <3>1, <4>1, SameNames DEF RollbackRemove, Unnamed
        <4>. QED
          BY <2>1, <4>2 DEF RollbackRemove, Unnamed
      <3>2. CASE ~RollbackNeedsRemoval
        BY <1>2, <2>1, <3>2 DEF RollbackRemove, files
      <3>. QED
        BY <3>1, <3>2
    <2>2. CASE RollbackRemoved(r)
      BY <2>2, EmptyNames DEF RollbackRemoved, Unnamed
    <2>3. CASE RollbackRestore(r)
      <3>1. \A y \in Proc : quarantine'[y] = NoTree \/ quarantine'[y] = quarantine[y]
        BY <2>3 DEF RollbackRestore, TypeOK
      <3>2. dest' = dest \/ dest' = quarantine[r]
        BY <2>3 DEF RollbackRestore, SetDest
      <3>. QED
        BY <2>3, <3>1, <3>2, EmptyNames DEF RollbackRestore, Unnamed
    <2>4. CASE TryBlockRaises(r)
      BY <1>2, <2>4 DEF TryBlockRaises
    <2>5. CASE AppendRestored(r)
      BY <1>1, <2>5 DEF AppendRestored, JournalAppend, EventType
    <2>. QED
      BY <1>8, <2>1, <2>2, <2>3, <2>4, <2>5 DEF Rollback
  <1>9. ASSUME NEW r \in Proc, LiveStep(r)
        PROVE  Unnamed(x)'
    BY <1>1, <1>2, <1>5, <1>6, <1>7, <1>8, <1>9
    DEF LiveStep, AppendValidated, Stop, StopInAppend, JournalAppend, EventType
  <1>10. ASSUME NEW y \in Proc, Recover(y)
         PROVE  Unnamed(x)'
    <2>1. \A q \in Proc : quarantine'[q] = NoTree \/ quarantine'[q] = quarantine[q]
      BY <1>10 DEF Recover, TypeOK
    <2>. QED
      BY <1>10, <2>1, EmptyNames DEF Recover, SetDest, Unnamed
  <1>11. CASE PlaceForeign
    BY <1>11, EmptyNames DEF PlaceForeign, Unnamed
  <1>. QED
    BY <1>4, <1>9, <1>10, <1>11, NextCases

\* What a step of run r itself leaves to be shown about r.
LEMMA NamingOwn ==
  ASSUME TypeOK, RunsInv, SurvivalInv, NamingInv, Next, NEW r \in Proc, LiveStep(r)
  PROVE  Naming(r)'
  <1>0. /\ Naming(r) /\ Backed(r) /\ UNCHANGED <<mode, tx>>
        /\ mode[r] = "overwrite" => tx[r] = r
    BY LiveFrame DEF NamingInv, Naming, SurvivalInv
  <1>1. CASE AppendQuarantined(r)
    <2>1. pc'[r] = "inode" /\ jpath[r] = "staging" /\ Unnamed(r) /\ tx[r] = r
      BY <1>0, <1>1, OverwriteModes
      DEF AppendQuarantined, Goto, TypeOK, Backed, Naming, Unnaming, RunsInv, Overwriting, Overwrite
    <2>2. WriteEvent(r, EventOf(r, "OLD_QUARANTINED")) /\ "OLD_QUARANTINED" \in EventType
      BY <1>1 DEF AppendQuarantined, JournalAppend, EventType
    <2>3. /\ ~NamesIn(dest', r)
          /\ \A y \in Proc : ~NamesIn(quarantine'[y], r) /\ (y # r => ~NamesIn(staging'[y], r))
      BY <2>1, <2>2, WriteNames DEF Unnamed
    <2>4. Whole(quarantine'[r])
      BY <1>0, <1>1, <2>2, WriteNames DEF AppendQuarantined, Backed
    <2>. QED
      BY <1>0, <2>1, <2>3, <2>4 DEF Naming, Unnaming, NamesIn, Whole
  <1>2. CASE CheckInode(r)
    <2>1. pc[r] = "inode" /\ pc'[r] \in {"swap", "remove"} /\ UNCHANGED files
      BY <1>2 DEF CheckInode, Goto, TypeOK
    <2>. QED
      BY <1>0, <2>1 DEF Naming, Unnaming, NamesIn, Whole, Unnamed, files
  <1>3. CASE SwapIn(r) /\ CanPromote(r)
    <2>1. /\ pc[r] = "swap" /\ pc'[r] = "newpromoted" /\ jpath'[r] = "dest"
          /\ quarantine' = quarantine /\ Whole(quarantine[r])
      BY <1>0, <1>3 DEF SwapIn, Promote, Goto, TypeOK, Backed
    <2>2. tx[r] = r
      BY <1>0, <1>3, OverwriteModes DEF RunsInv, Overwriting, Overwrite
    <2>3. \A y \in Proc : ~NamesIn(staging'[y], r)
      BY <1>0, <1>3, <2>1, <2>2, EmptyNames DEF SwapIn, Promote, TypeOK, Naming
    <2>. QED
      BY <1>0, <2>1, <2>3 DEF Naming, Unnaming, NamesIn, Whole
  <1>4. CASE AppendNewPromoted(r)
    <2>1. pc[r] = "newpromoted" /\ pc'[r] = "verify" /\ jpath[r] = "dest"
      BY <1>0, <1>4 DEF AppendNewPromoted, Goto, TypeOK, Naming
    <2>2. WriteEvent(r, EventOf(r, "NEW_PROMOTED")) /\ "NEW_PROMOTED" \in EventType
      BY <1>4 DEF AppendNewPromoted, JournalAppend, EventType
    <2>3. Unnamed(r)'
      BY <1>0, <2>1, <2>2, WriteNames DEF Unnamed, Naming
    <2>. QED
      BY <1>0, <2>1, <2>3 DEF Naming, Unnaming
  <1>5. CASE ~(\/ AppendQuarantined(r) \/ CheckInode(r) \/ (SwapIn(r) /\ CanPromote(r))
               \/ AppendNewPromoted(r))
    <2>1. /\ pc'[r] \notin {"inode", "swap", "newpromoted"}
          /\ pc'[r] \in Unnaming => pc[r] \in Unnaming
      <3>1. CASE Overwrite(r)
        BY <1>5, <3>1 DEF Overwrite, CheckOwnership, StatDestination, QuarantineOld, SwapIn,
           VerifyDestination, DiscardOld, DiscardedOld, AppendCommitted, Goto, TypeOK, Unnaming
      <3>2. CASE Publish(r)
        BY <3>2 DEF Publish, ValidateStaging, AppendIntent, CheckDestination,
           CreateDestination, AppendPromoted, Goto, TypeOK, Unnaming
      <3>3. CASE Rollback(r)
        BY <3>3 DEF Rollback, TryBlockRaises, RollbackRemove, RollbackRemoved, RollbackRestore,
           AppendRestored, Goto, TypeOK, Unnaming
      <3>4. CASE Seal(r) \/ AppendValidated(r) \/ Stop(r) \/ StopInAppend(r)
        BY <3>4 DEF Seal, AppendValidated, Stop, StopInAppend, Goto, TypeOK, Unnaming
      <3>. QED
        BY <3>1, <3>2, <3>3, <3>4 DEF LiveStep
    <2>2. \/ quarantine'[r] = quarantine[r] \/ quarantine'[r] = NoTree
          \/ pc[r] \in Unnaming
      <3>1. CASE Overwrite(r)
        BY <1>5, <3>1
        DEF Overwrite, CheckOwnership, StatDestination, QuarantineOld, SwapIn, Promote,
            VerifyDestination, DiscardOld, DiscardedOld, AppendCommitted, JournalAppend,
            WriteEvent, files, TypeOK, Unnaming
      <3>2. CASE Publish(r)
        BY <3>2 DEF Publish, ValidateStaging, AppendIntent, CheckDestination,
           CreateDestination, AppendPromoted, JournalAppend, WriteEvent, Promote, files
      <3>3. CASE Rollback(r)
        BY <3>3 DEF Rollback, TryBlockRaises, RollbackRemove, RollbackRemoved, RollbackRestore,
           AppendRestored, JournalAppend, WriteEvent, files, TypeOK
      <3>4. CASE Seal(r) \/ AppendValidated(r) \/ Stop(r) \/ StopInAppend(r)
        BY <3>4 DEF Seal, AppendValidated, Stop, StopInAppend, JournalAppend, WriteEvent, files
      <3>. QED
        BY <3>1, <3>2, <3>3, <3>4 DEF LiveStep
    <2>3. Unnamed(r) => Unnamed(r)'
      BY <1>5, UnnamedKept
    <2>4. quarantine'[r] # NoTree /\ ~Whole(quarantine'[r]) => Unnamed(r)'
      BY <1>0, <2>2, <2>3 DEF Naming
    <2>. QED
      BY <1>0, <2>1, <2>3, <2>4 DEF Naming, Whole
  <1>. QED
    BY <1>1, <1>2, <1>3, <1>4, <1>5

\* A step that leaves x where it is keeps what is known of x, if x is not overwriting.
LEMMA NamingOther ==
  ASSUME TypeOK, RunsInv, NamingInv, Next, NEW x \in Proc, ~Overwriting(x),
         pc'[x] = pc[x], mode'[x] = mode[x], tx'[x] = tx[x],
         quarantine'[x] = quarantine[x] \/ quarantine'[x] = NoTree
  PROVE  Naming(x)'
  <1>1. Naming(x) /\ pc[x] \notin {"inode", "swap", "newpromoted"}
    BY DEF NamingInv, RunsInv, CreatorInv, CreatorStep, Overwriting, Live
  <1>2. ~AppendQuarantined(x)
    BY DEF AppendQuarantined, Goto, TypeOK
  <1>3. Unnamed(x) => Unnamed(x)'
    BY <1>2, UnnamedKept
  <1>. QED
    BY <1>1, <1>3 DEF Naming, Whole

LEMMA NamingKept ==
  ASSUME OverwriteAlone \/ MaxLive = 1, TypeOK, RunsInv, SurvivalInv, NamingInv, Next
  PROVE  NamingInv'
  <1>1. ASSUME NEW r \in Proc, Begin(r)
        PROVE  NamingInv'
    <2>1. \A q \in Proc : ~Overwriting(q)
      BY <1>1, BeginFrame, FreeSlotIsSafe DEF RunsInv
    <2>2. ASSUME NEW x \in Proc \ {r}
          PROVE  Naming(x)'
      BY <1>1, <2>1, <2>2, BeginFrame, NamingOther DEF RunsInv
    <2>3. Naming(r)'
      <3>1. Unnamed(r) /\ ~AppendQuarantined(r)
        BY <1>1, BeginFrame DEF RunsInv, NamingInv, Naming, Unnaming, AppendQuarantined
      <3>2. Unnamed(r)'
        BY <3>1, UnnamedKept
      <3>3. /\ mode'[r] = "overwrite" => tx'[r] = r
            /\ pc'[r] \notin {"inode", "swap", "newpromoted"}
        BY <1>1, BeginFrame DEF RunsInv
      <3>. QED
        BY <3>2, <3>3 DEF Naming
    <2>. QED
      BY <2>2, <2>3 DEF NamingInv
  <1>2. ASSUME NEW r \in Proc, LiveStep(r)
        PROVE  NamingInv'
    <2>1. ASSUME NEW x \in Proc \ {r}
          PROVE  Naming(x)'
      BY <1>2, <2>1, LiveAlone, LiveFrame, NamingOther
    <2>. QED
      BY <1>2, <2>1, NamingOwn DEF NamingInv
  <1>3. ASSUME NEW y \in Proc, Recover(y)
        PROVE  NamingInv'
    <2>1. (\A q \in Proc : ~Overwriting(q)) /\ UNCHANGED <<pc, mode, tx>>
      BY <1>3, FreeSlotIsSafe DEF Recover, local
    <2>2. \A q \in Proc : quarantine'[q] = quarantine[q] \/ quarantine'[q] = NoTree
      BY <1>3 DEF Recover, TypeOK
    <2>. QED
      BY <2>1, <2>2, NamingOther DEF NamingInv
  <1>4. CASE PlaceForeign
    <2>1. UNCHANGED <<staging, quarantine, pc, mode, tx, jpath>> /\ \A x : ~NamesIn(dest', x)
      BY <1>4, EmptyNames DEF PlaceForeign, local
    <2>. QED
      BY <2>1 DEF NamingInv, Naming, Unnamed, NamesIn, Whole
  <1>. QED
    BY <1>1, <1>2, <1>3, <1>4, NextCases

LEMMA InitNames == Init => NamingInv
  <1>. SUFFICES ASSUME Init, NEW x \in Proc PROVE Naming(x)
    BY DEF NamingInv
  <1>1. Unnamed(x)
    BY EmptyNames DEF Init, Unnamed
  <1>2. quarantine[x] = NoTree /\ tx[x] = x /\ pc[x] = "idle"
    BY DEF Init
  <1>. QED
    BY <1>1, <1>2 DEF Naming

LEMMA NextNames ==
  ASSUME OverwriteAlone \/ MaxLive = 1
  PROVE  TypeOK /\ RunsInv /\ SurvivalInv /\ NamingInv /\ [Next]_vars => NamingInv'
  BY NamingKept DEF NamingInv, Naming, Unnamed, NamesIn, Whole, vars, files, local

LEMMA NamedIsWhole ==
  ASSUME NamingInv
  PROVE  RecoveryIsSound
  <1>. SUFFICES ASSUME NEW x \in Proc, CanRecover(x) PROVE Whole(quarantine[x])
    BY DEF RecoveryIsSound
  <1>1. PICK t \in ({dest} \cup {staging[y] : y \in Proc} \cup {quarantine[y] : y \in Proc})
                     \ {NoTree} : NamesIn(t, x)
    BY DEF CanRecover, JournalsOnDisk, NamesIn
  <1>2. ~Unnamed(x)
    BY <1>1 DEF Unnamed
  <1>. QED
    BY <1>2 DEF NamingInv, Naming, CanRecover

\* Whatever journals are on disk, wherever runs stopped in an append, a rename or a
\* removal, recover_publication renames back whole corpora only.
THEOREM RecoversWhole ==
  ASSUME OverwriteAlone \/ MaxLive = 1
  PROVE  Spec => []RecoveryIsSound
  BY NamedIsWhole, InitType, NextType, InitRuns, NextRuns, InitSurvives, NextSurvives,
     InitNames, NextNames, PTL DEF Spec

-----------------------------------------------------------------------------
(***************************************************************************)
(* What a reader of the destination sees.                                  *)
(***************************************************************************)
\* A journal line is written at the destination only while that is whole.
LEMMA WriteKeepsDest ==
  ASSUME TypeOK, SurvivalInv, DamageHasBackup, NEW r \in Proc, NEW k \in EventType,
         WriteEvent(r, EventOf(r, k)), pc[r] \in Appending
  PROVE  DamageHasBackup'
  <1>1. EventOf(r, k) \in Event /\ Backed(r)
    BY EventIsEvent DEF SurvivalInv
  <1>2. /\ quarantine' = quarantine
        /\ Whole(dest) => Whole(dest)'
        /\ jpath[r] = "staging" => dest' = dest
    BY <1>1, WriteEventFrame
  <1>3. CASE jpath[r] = "staging"
    BY <1>2, <1>3 DEF DamageHasBackup, Whole
  <1>4. CASE jpath[r] = "dest"
    BY <1>1, <1>2, <1>4 DEF Backed, Appending, DamageHasBackup, Whole
  <1>. QED
    BY <1>3, <1>4 DEF WriteEvent

LEMMA DamageKept ==
  ASSUME OverwriteAlone \/ MaxLive = 1, TypeOK, RunsInv, SurvivalInv, NamingInv,
         DamageHasBackup, Next
  PROVE  DamageHasBackup'
  <1>1. CASE UNCHANGED <<dest, quarantine>>
    BY <1>1 DEF DamageHasBackup, Whole
  <1>2. CASE Whole(dest')
    BY <1>2 DEF DamageHasBackup, Whole
  <1>3. ASSUME NEW r \in Proc, Begin(r)
        PROVE  DamageHasBackup'
    BY <1>1, <1>3, BeginFrame DEF RunsInv
  <1>4. ASSUME NEW r \in Proc, LiveStep(r)
        PROVE  DamageHasBackup'
    <2>0. Backed(r) /\ tx[r] \in Proc
      BY DEF SurvivalInv, TypeOK
    <2>1. CASE Seal(r) \/ AppendValidated(r) \/ Stop(r) \/ StopInAppend(r)
      BY <1>1, <2>1, WriteKeepsDest
      DEF Seal, AppendValidated, Stop, StopInAppend, JournalAppend, EventType, Appending, files
    <2>2. CASE Publish(r)
      <3>1. CASE CreateDestination(r)
        BY <1>2, <2>0, <3>1
        DEF CreateDestination, CanPromote, Promote, SetDest, Backed
      <3>. QED
        BY <1>1, <2>2, <3>1, WriteKeepsDest
        DEF Publish, ValidateStaging, AppendIntent, CheckDestination, AppendPromoted,
            JournalAppend, EventType, Appending, files
    <2>3. CASE Overwrite(r)
      <3>1. CASE QuarantineOld(r)
        BY <3>1 DEF QuarantineOld, DamageHasBackup
      <3>2. CASE SwapIn(r)
        <4>1. Whole(staging[tx[r]])
          BY <2>0, <2>3, <3>2, OverwriteModes DEF SwapIn, Backed, RunsInv, Overwriting
        <4>. QED
          BY <1>1, <1>2, <3>2, <4>1 DEF SwapIn, Promote, SetDest, files
      <3>3. CASE DiscardOld(r) \/ DiscardedOld(r)
        BY <1>2, <2>0, <3>3 DEF DiscardOld, DiscardedOld, Backed
      <3>4. CASE AppendQuarantined(r) \/ AppendNewPromoted(r) \/ AppendCommitted(r)
        BY <3>4, WriteKeepsDest DEF AppendQuarantined, AppendNewPromoted, AppendCommitted,
           JournalAppend, EventType, Appending
      <3>. QED
        BY <1>1, <2>3, <3>1, <3>2, <3>3, <3>4
        DEF Overwrite, CheckOwnership, StatDestination, CheckInode, VerifyDestination, files
    <2>4. CASE Rollback(r)
      <3>1. CASE RollbackRemove(r)
        BY <2>0, <3>1 DEF RollbackRemove, Backed, DamageHasBackup
      <3>2. CASE RollbackRemoved(r)
        BY <3>2 DEF RollbackRemoved, DamageHasBackup
      <3>3. CASE RollbackRestore(r)
        BY <1>1, <1>2, <2>0, <3>3 DEF RollbackRestore, SetDest, Backed
      <3>4. CASE AppendRestored(r)
        BY <3>4, WriteKeepsDest DEF AppendRestored, JournalAppend, EventType, Appending
      <3>. QED
        BY <1>1, <2>4, <3>1, <3>2, <3>3, <3>4 DEF Rollback, TryBlockRaises, files
    <2>. QED
      BY <1>4, <2>1, <2>2, <2>3, <2>4 DEF LiveStep
  <1>5. ASSUME NEW x \in Proc, Recover(x)
        PROVE  DamageHasBackup'
    BY <1>2, <1>5, NamedIsWhole DEF Recover, SetDest, RecoveryIsSound
  <1>6. CASE PlaceForeign
    BY <1>6 DEF PlaceForeign, OldTree, DamageHasBackup
  <1>. QED
    BY <1>3, <1>4, <1>5, <1>6, NextCases

\* A reader of the destination finds nothing, a whole corpus, an unrelated directory, or
\* the remains of a rolled back promotion whose predecessor is whole in a quarantine.
THEOREM DamageIsBacked ==
  ASSUME OverwriteAlone \/ MaxLive = 1
  PROVE  Spec => []DamageHasBackup
  <1>1. Init => DamageHasBackup
    <2>. SUFFICES ASSUME Init PROVE DamageHasBackup
      OBVIOUS
    <2>1. PICK c \in Config :
            dest \in {NoTree, OldTree(Prior, TRUE, c), OldTree(Foreign, FALSE, c)}
      BY DEF Init
    <2>2. OldTree(Prior, TRUE, c).whole /\ OldTree(Foreign, FALSE, c).id = Foreign
      BY DEF OldTree
    <2>. QED
      BY <2>1, <2>2 DEF DamageHasBackup
  <1>2. TypeOK /\ RunsInv /\ SurvivalInv /\ NamingInv /\ DamageHasBackup /\ [Next]_vars
          => DamageHasBackup'
    BY DamageKept DEF DamageHasBackup, Whole, vars, files
  <1>. QED
    BY <1>1, <1>2, InitType, NextType, InitRuns, NextRuns, InitSurvives, NextSurvives,
       InitNames, NextNames, PTL DEF Spec

-----------------------------------------------------------------------------
(***************************************************************************)
(* Any number of runs none of which overwrites: one of them wins.          *)
(***************************************************************************)
NoOverwriter == \A r \in Proc : mode[r] # "overwrite"

\* What a staged tree is to the run that built it and to those that publish it: of their
\* configuration as long as it is whole, and gone only when the destination is taken.
Staged(r) ==
    /\ quarantine[r] = NoTree
    /\ Whole(staging[r]) => staging[r].id = r
    /\ pc[r] = "build" =>
          /\ tx[r] = r /\ \A q \in Proc : tx[q] = r => q = r
          /\ staging[r] # NoTree /\ ~Whole(staging[r])
          /\ staging[r].id = r /\ staging[r].identity = IdentityOf(r)
    /\ pc[r] \in {"idle", "build", "sealed", "validate", "intent", "exists", "create"}
          => ~Promoted(r)
    /\ pc[r] \in {"sealed", "validate", "intent", "exists", "create"} /\ Whole(staging[tx[r]])
          => staging[tx[r]].identity = IdentityOf(r)
    /\ pc[r] \in {"intent", "exists", "create"} => dest # NoTree \/ Whole(staging[tx[r]])
Won(r) ==
    Promoted(r) => /\ \A q \in Proc : Promoted(q) => q = r
                   /\ Whole(dest) /\ dest.id = tx[r] /\ dest.identity = IdentityOf(r)
WinnerInv == NoOverwriter => \A r \in Proc : Staged(r) /\ Won(r)

\* A step that changes of the trees under the names in X, and of the destination, at most
\* their journals, unless it fills the destination.
CalmOn(X) ==
    /\ quarantine' = quarantine
    /\ \A x \in X : Whole(staging'[x]) =>
          /\ Whole(staging[x])
          /\ staging'[x].id = staging[x].id /\ staging'[x].identity = staging[x].identity
    /\ \A x \in X : Whole(staging[x]) => Whole(staging'[x]) \/ dest' # NoTree
    /\ dest # NoTree => dest' # NoTree
    /\ Whole(dest) =>
          Whole(dest') /\ dest'.id = dest.id /\ dest'.identity = dest.identity

Publishing == {"sealed", "validate", "intent", "exists", "create"}
Entering == {"intent", "exists", "create"}

LEMMA WriteCalm ==
  ASSUME TypeOK, NEW r \in Proc, NEW k \in EventType, WriteEvent(r, EventOf(r, k))
  PROVE  CalmOn(Proc)
  <1>0. EventOf(r, k) \in Event /\ IdentityOf(r) \in Identity /\ tx[r] \in Proc /\ dest \in Place
        /\ \A x \in Proc : staging[x] \in Place
    BY EventIsEvent, IdentityIsIdentity DEF TypeOK
  <1>. DEFINE W(t) == WithEvent(t, EventOf(r, k), IdentityOf(r))
  <1>1. ASSUME NEW t \in Place
        PROVE  /\ Whole(t) <=> Whole(W(t))
               /\ W(t) # NoTree
               /\ Whole(t) => W(t).id = t.id /\ W(t).identity = t.identity
    <2>1. W(t) \in Tree
      BY <1>0, AppendKeepsTree
    <2>2. CASE t = NoTree
      BY <2>1, <2>2, NoTreeIsNoTree DEF WithEvent, Whole
    <2>3. CASE t # NoTree
      <3>1. t \in Tree /\ W(t) = [t EXCEPT !.journal = Append(t.journal, EventOf(r, k))]
        BY <2>3 DEF Place, WithEvent
      <3>2. W(t).whole = t.whole /\ W(t).id = t.id /\ W(t).identity = t.identity
        BY <3>1 DEF Tree
      <3>. QED
        BY <2>1, <2>3, <3>2, NoTreeIsNoTree DEF Whole
    <2>. QED
      BY <2>2, <2>3
  <1>2. CASE /\ jpath[r] = "dest"
             /\ SetDest(W(dest))
             /\ UNCHANGED <<staging, quarantine>>
    <2>1. dest' = W(dest)
      BY <1>2 DEF SetDest
    <2>. QED
      BY <1>0, <1>1, <1>2, <2>1 DEF CalmOn
  <1>3. CASE /\ jpath[r] = "staging"
             /\ staging' = [staging EXCEPT ![tx[r]] = W(@)]
             /\ UNCHANGED <<dest, quarantine, published>>
    <2>1. \A x \in Proc : staging'[x] = staging[x] \/ staging'[x] = W(staging[x])
      BY <1>0, <1>3 DEF TypeOK
    <2>2. \A x \in Proc : /\ Whole(staging[x]) <=> Whole(staging'[x])
                          /\ Whole(staging[x]) => /\ staging'[x].id = staging[x].id
                                                  /\ staging'[x].identity = staging[x].identity
      BY <1>0, <1>1, <2>1
    <2>. QED
      BY <1>3, <2>2 DEF CalmOn
  <1>. QED
    BY <1>2, <1>3 DEF WriteEvent

\* Whoever is not about to build keeps what is known of it in a calm step.
LEMMA StagedKept ==
  ASSUME TypeOK, NEW q \in Proc, Staged(q), CalmOn({q, tx[q]}),
         mode'[q] = mode[q], cfg'[q] = cfg[q], tx'[q] = tx[q], jpath'[q] = jpath[q],
         pc'[q] = "build" => /\ pc[q] = "build" /\ staging'[q] = staging[q]
                             /\ \A p \in Proc : tx'[p] = q => tx[p] = q,
         pc'[q] = "idle" => pc[q] = "idle",
         pc'[q] \in Publishing => pc[q] \in Publishing,
         pc'[q] \in Entering => \/ pc[q] \in Entering
                                \/ Whole(staging[tx[q]])
  PROVE  Staged(q)'
  <1>1. quarantine'[q] = NoTree /\ (Whole(staging'[q]) => staging'[q].id = q)
    BY DEF Staged, CalmOn
  <1>2. pc'[q] = "build" =>
          /\ tx'[q] = q /\ \A p \in Proc : tx'[p] = q => p = q
          /\ staging'[q] # NoTree /\ ~Whole(staging'[q])
          /\ staging'[q].id = q /\ staging'[q].identity = IdentityOf(q)'
    BY DEF Staged, IdentityOf
  <1>3. pc'[q] \in {"idle", "build"} \cup Publishing => jpath'[q] # "dest"
    BY DEF Staged, Publishing, Promoted
  <1>4. pc'[q] \in Publishing /\ Whole(staging'[tx'[q]])
          => staging'[tx'[q]].identity = IdentityOf(q)'
    BY DEF Staged, Publishing, CalmOn, IdentityOf
  <1>5. pc'[q] \in Entering => dest' # NoTree \/ Whole(staging'[tx'[q]])
    BY DEF Staged, Entering, CalmOn
  <1>. QED
    BY <1>1, <1>2, <1>3, <1>4, <1>5 DEF Staged, Publishing, Entering, Promoted, Whole, IdentityOf

\* A winner stays the only one: nobody else can promote to the destination it filled.
LEMMA WonKept ==
  ASSUME TypeOK, NEW q \in Proc, Won(q), CalmOn({}),
         mode'[q] = mode[q], cfg'[q] = cfg[q], tx'[q] = tx[q], jpath'[q] = jpath[q],
         \A p \in Proc : jpath'[p] = "dest" => jpath[p] = "dest" \/ dest = NoTree
  PROVE  Won(q)'
  BY DEF Won, CalmOn, Promoted, Whole, IdentityOf

LEMMA CreateWins ==
  ASSUME TypeOK, NEW r \in Proc, CreateDestination(r),
         \A q \in Proc : Staged(q) /\ Won(q)
  PROVE  \A q \in Proc : (Staged(q) /\ Won(q))'
  <1>0. /\ dest = NoTree /\ tx[r] \in Proc /\ pc'[r] = "promoted"
        /\ UNCHANGED <<quarantine, mode, cfg, tx>>
        /\ dest' = staging[tx[r]] /\ jpath'[r] = "dest"
        /\ \A q \in Proc \ {r} : pc'[q] = pc[q] /\ jpath'[q] = jpath[q]
    BY DEF CreateDestination, CanPromote, Promote, SetDest, Goto, TypeOK
  <1>1. \A q \in Proc : jpath[q] # "dest"
    BY <1>0 DEF Won, Promoted, Whole
  <1>2. Whole(staging[tx[r]]) /\ staging[tx[r]].identity = IdentityOf(r)
    BY <1>0 DEF CreateDestination, Staged
  <1>3. staging[tx[r]].id = tx[r]
    BY <1>0, <1>2 DEF Staged
  <1>4. \A x \in Proc : staging'[x] = NoTree \/ staging'[x] = staging[x]
    BY <1>0 DEF CreateDestination, Promote, TypeOK
  <1>5. dest' # NoTree /\ \A X \in SUBSET Proc : CalmOn(X)
    BY <1>0, <1>2, <1>4 DEF CalmOn, Whole
  <1>6. ASSUME NEW q \in Proc
        PROVE  Staged(q)'
    <2>1. CASE q = r
      BY <1>0, <1>5, <2>1, StagedKept DEF CalmOn, Staged, Publishing, Entering, Promoted, Whole
    <2>2. CASE q # r
      <3>1. {q, tx[q]} \subseteq Proc
        BY DEF TypeOK
      <3>2. pc[q] = "build" => tx[r] # q
        BY <2>2 DEF Staged
      <3>3. pc[q] = "build" => staging'[q] = staging[q]
        BY <1>0, <3>2 DEF CreateDestination, Promote, TypeOK
      <3>. QED
        BY <1>0, <1>5, <2>2, <3>1, <3>3, StagedKept
    <2>. QED
      BY <2>1, <2>2
  <1>7. ASSUME NEW q \in Proc
        PROVE  Won(q)'
    BY <1>0, <1>1, <1>2, <1>3 DEF Won, Promoted, Whole, IdentityOf
  <1>. QED
    BY <1>6, <1>7

\* The steps of a live creator or resumption other than the promotion.
LEMMA LiveWins ==
  ASSUME TypeOK, CreatorInv, NoOverwriter, NEW r \in Proc, LiveStep(r), ~CreateDestination(r),
         \A q \in Proc : Staged(q) /\ Won(q)
  PROVE  \A q \in Proc : (Staged(q) /\ Won(q))'
  <1>1. ~Overwrite(r) /\ ~Rollback(r)
    BY OverwriteModes DEF NoOverwriter, Overwriting
  <1>2. jpath' = jpath
    BY <1>1 DEF LiveStep, Seal, AppendValidated, Publish, ValidateStaging, AppendIntent,
       CheckDestination, AppendPromoted, Stop, StopInAppend, JournalAppend, local
  <1>3. /\ CalmOn(Proc \ {r})
        /\ ~Seal(r) => CalmOn(Proc)
    <2>1. CASE UNCHANGED files
      BY <2>1 DEF CalmOn, files
    <2>2. ASSUME NEW k \in EventType, WriteEvent(r, EventOf(r, k))
          PROVE  CalmOn(Proc) /\ CalmOn(Proc \ {r})
      <3>1. CalmOn(Proc)
        BY <2>2, WriteCalm
      <3>. QED
        BY <3>1 DEF CalmOn
    <2>3. CASE Seal(r)
      <3>1. \A x \in Proc \ {r} : staging'[x] = staging[x]
        BY <2>3 DEF Seal, TypeOK
      <3>. QED
        BY <2>3, <3>1 DEF Seal, CalmOn
    <2>. QED
      BY <1>1, <2>1, <2>2, <2>3
      DEF LiveStep, AppendValidated, Publish, ValidateStaging, AppendIntent,
          CheckDestination, AppendPromoted, Stop, StopInAppend, JournalAppend, EventType
  <1>4. ASSUME NEW q \in Proc
        PROVE  Won(q)'
    <2>1. CalmOn({})
      BY <1>3 DEF CalmOn
    <2>. QED
      BY <1>2, <2>1, LiveFrame, WonKept
  <1>5. ASSUME NEW q \in Proc \ {r}
        PROVE  Staged(q)'
    <2>1. tx[q] \in Proc
      BY DEF TypeOK
    <2>2. CASE Seal(r)
      <3>1. tx[q] # r
        BY <2>2 DEF Seal, Staged
      <3>2. CalmOn({q, tx[q]}) /\ staging'[q] = staging[q]
        BY <1>3, <2>1, <2>2, <3>1 DEF CalmOn, Seal, TypeOK
      <3>. QED
        BY <1>2, <3>2, LiveFrame, StagedKept
    <2>3. CASE ~Seal(r)
      <3>1. CalmOn({q, tx[q]})
        BY <1>3, <2>1, <2>3 DEF CalmOn
      <3>2. pc[q] = "build" => staging'[q] = staging[q]
        BY LiveFrame DEF Staged
      <3>. QED
        BY <1>2, <3>1, <3>2, LiveFrame, StagedKept
    <2>. QED
      BY <2>2, <2>3
  <1>6. Staged(r)'
    <2>1. CASE Seal(r)
      <3>1. staging[r] \in Tree /\ staging'[r] = Sealed(staging[r]) /\ pc'[r] = "sealed"
        BY <2>1 DEF Seal, TypeOK, Place, Goto
      <3>2. staging'[r].id = staging[r].id /\ staging'[r].identity = staging[r].identity
        BY <3>1 DEF Sealed, Tree
      <3>. QED
        BY <1>2, <2>1, <3>1, <3>2
        DEF Seal, local, Staged, Promoted, IdentityOf, Whole
    <2>2. CASE ~Seal(r)
      <3>1. CalmOn({r, tx[r]})
        BY <1>3, <2>2 DEF CalmOn, TypeOK
      <3>2. /\ pc'[r] \notin {"build", "idle"}
            /\ pc'[r] \in Publishing => pc[r] \in Publishing
            /\ pc'[r] \in Entering => pc[r] \in Entering \/ Whole(staging[tx[r]])
        BY <1>1, <2>2
        DEF LiveStep, AppendValidated, Publish, ValidateStaging, AppendIntent,
            CheckDestination, AppendPromoted, Stop, StopInAppend, Goto, TypeOK,
            NoOverwriter, Publishing, Entering
      <3>. QED
        BY <1>2, <3>1, <3>2, LiveFrame, StagedKept
    <2>. QED
      BY <2>1, <2>2
  <1>. QED
    BY <1>4, <1>5, <1>6

LEMMA BeginWins ==
  ASSUME TypeOK, FreshInv, NoOverwriter', NEW r \in Proc, Begin(r),
         \A q \in Proc : Staged(q) /\ Won(q)
  PROVE  \A q \in Proc : (Staged(q) /\ Won(q))'
  <1>0. /\ pc[r] = "idle" /\ Fresh(r) /\ UNCHANGED <<dest, quarantine, jpath>>
        /\ \A q \in Proc \ {r} : /\ pc'[q] = pc[q] /\ mode'[q] = mode[q] /\ cfg'[q] = cfg[q]
                                 /\ tx'[q] = tx[q] /\ staging'[q] = staging[q]
    BY BeginFrame
  <1>1. ASSUME NEW q \in Proc \ {r}
        PROVE  Staged(q)'
    <2>1. tx[q] \in Proc \ {r}
      BY <1>0 DEF Fresh, TypeOK
    <2>2. CalmOn({q, tx[q]})
      BY <1>0, <2>1 DEF CalmOn
    <2>3. pc[q] = "build" => tx'[r] # q
      BY <1>0, BeginFrame DEF Staged
    <2>4. pc[q] = "build" => \A p \in Proc : tx'[p] = q => tx[p] = q
      BY <1>0, <2>3
    <2>. QED
      BY <1>0, <2>2, <2>4, StagedKept
  <1>2. ASSUME NEW q \in Proc
        PROVE  Won(q)'
    <2>1. CASE q = r
      BY <1>0, <2>1 DEF Won, Promoted, Fresh
    <2>2. CASE q # r
      BY <1>0, <2>2, WonKept DEF CalmOn
    <2>. QED
      BY <2>1, <2>2
  <1>3. Staged(r)'
    <2>1. ASSUME NEW m \in {"create", "overwrite"}, NEW c \in Config, StartBuild(r, m, c)
          PROVE  Staged(r)'
      <3>1. /\ staging'[r] = NewTree(r, m, c) /\ pc'[r] = "build" /\ tx' = tx
            /\ cfg'[r] = c /\ mode'[r] = m
        BY <2>1 DEF StartBuild, Goto, TypeOK
      <3>2. /\ NewTree(r, m, c) # NoTree /\ ~NewTree(r, m, c).whole
            /\ NewTree(r, m, c).id = r /\ NewTree(r, m, c).identity = <<c, m = "overwrite">>
        BY NewTreeIsTree DEF NewTree, NoTree
      <3>. QED
        BY <1>0, <3>1, <3>2 DEF Staged, Fresh, Promoted, Whole, IdentityOf
    <2>2. ASSUME NEW c \in Config, ResumePublished(r, c)
          PROVE  Staged(r)'
      <3>1. pc'[r] \in {"done", "stopped"} /\ staging' = staging
        BY <2>2 DEF ResumePublished, Goto, TypeOK, files
      <3>. QED
        BY <1>0, <3>1 DEF Staged, Fresh, Whole
    <2>3. ASSUME NEW c \in Config, NEW x \in Proc, ResumeStaged(r, c, x)
          PROVE  Staged(r)'
      <3>1. /\ pc'[r] \in {"validate", "stopped"} /\ staging' = staging
            /\ tx'[r] = x /\ cfg'[r] = c /\ mode'[r] = "resume"
            /\ staging[x].identity = <<c, FALSE>>
        BY <2>3 DEF ResumeStaged, Resumable, Goto, TypeOK, files
      <3>2. IdentityOf(r)' = <<c, FALSE>>
        BY <3>1 DEF IdentityOf
      <3>. QED
        BY <1>0, <3>1, <3>2 DEF Staged, Fresh, Whole, Promoted
    <2>. QED
      BY <2>1, <2>2, <2>3 DEF Begin, Resume
  <1>. QED
    BY <1>1, <1>2, <1>3

LEMMA WinnerKept ==
  ASSUME TypeOK, CreatorInv, FreshInv, WinnerInv, Next
  PROVE  WinnerInv'
  <1>. SUFFICES ASSUME NoOverwriter'
                PROVE  \A q \in Proc : (Staged(q) /\ Won(q))'
    BY DEF WinnerInv
  <1>1. ASSUME NEW r \in Proc, Begin(r)
        PROVE  \A q \in Proc : (Staged(q) /\ Won(q))'
    <2>1. NoOverwriter
      BY <1>1, BeginFrame DEF NoOverwriter, Fresh
    <2>. QED
      BY <1>1, <2>1, BeginWins DEF WinnerInv
  <1>2. ASSUME NEW r \in Proc, LiveStep(r)
        PROVE  \A q \in Proc : (Staged(q) /\ Won(q))'
    <2>1. NoOverwriter
      BY <1>2, LiveFrame DEF NoOverwriter
    <2>. QED
      BY <1>2, <2>1, LiveWins, CreateWins DEF WinnerInv
  <1>3. ASSUME NEW x \in Proc, Recover(x)
        PROVE  FALSE
    BY <1>3 DEF Recover, CanRecover, WinnerInv, NoOverwriter, Staged, local
  <1>4. CASE PlaceForeign
    <2>1. /\ dest = NoTree /\ UNCHANGED <<staging, quarantine, pc, mode, cfg, tx, jpath>>
          /\ dest' # NoTree
      BY <1>4, OldTreeIsTree, NoTreeIsNoTree DEF PlaceForeign, local, Id
    <2>2. \A q \in Proc : Staged(q) /\ Won(q)
      BY <2>1 DEF WinnerInv, NoOverwriter
    <2>3. \A X : CalmOn(X)
      BY <2>1 DEF CalmOn, Whole
    <2>4. \A q \in Proc : Staged(q)'
      BY <2>1, <2>2, <2>3, StagedKept
    <2>5. \A q \in Proc : Won(q)'
      BY <2>1, <2>2 DEF Won, Promoted, Whole
    <2>. QED
      BY <2>4, <2>5
  <1>. QED
    BY <1>1, <1>2, <1>3, <1>4, NextCases

\* However many creators and resumptions run beside each other, one of them at most
\* promotes a tree, and the destination then holds a whole corpus of its configuration.
THEOREM OneRunWins == Spec => []OneWinner
  <1>1. Init => WinnerInv
    <2>. SUFFICES ASSUME Init, NEW r \in Proc PROVE Staged(r) /\ Won(r)
      BY DEF WinnerInv
    <2>. QED
      BY DEF Init, Staged, Won, Promoted, Whole
  <1>2. TypeOK /\ CreatorInv /\ FreshInv /\ WinnerInv /\ [Next]_vars => WinnerInv'
    <2>1. ASSUME UNCHANGED vars, WinnerInv
          PROVE  WinnerInv'
      BY <2>1 DEF WinnerInv, NoOverwriter, Staged, Won, Promoted, Whole, IdentityOf, vars,
         files, local
    <2>. QED
      BY <2>1, WinnerKept
  <1>3. WinnerInv => OneWinner
    BY DEF WinnerInv, NoOverwriter, Won, OneWinner
  <1>. QED
    BY <1>1, <1>2, <1>3, InitType, NextType, InitCreator, CreatorKept, InitFresh,
       FreshKeptOrStutters, PTL DEF Spec

-----------------------------------------------------------------------------
(***************************************************************************)
(* Any number of runs at a time, of any mode: while none of those alive    *)
(* overwrites, a published corpus stays.                                   *)
(***************************************************************************)
LEMMA PublishedStaysStep ==
  ASSUME TypeOK, CreatorInv, Next, Whole(dest), \A r \in Proc : ~Overwriting(r)
  PROVE  Whole(dest') /\ dest'.id = dest.id
  <1>0. dest # NoTree /\ dest \in Tree
    BY DEF Whole, TypeOK, Place
  <1>1. CASE dest' = dest
    BY <1>1 DEF Whole
  <1>2. ASSUME NEW r \in Proc, NEW e \in Event, WriteEvent(r, e)
        PROVE  Whole(dest') /\ dest'.id = dest.id
    <2>1. CASE dest' = WithEvent(dest, e, IdentityOf(r))
      <3>1. WithEvent(dest, e, IdentityOf(r)) \in Tree
        BY <1>0, AppendKeepsTree, IdentityIsIdentity DEF Place
      <3>2. /\ WithEvent(dest, e, IdentityOf(r)).whole = dest.whole
            /\ WithEvent(dest, e, IdentityOf(r)).id = dest.id
        BY <1>0, AppendKeepsTree, IdentityIsIdentity DEF Place
      <3>. QED
        BY <2>1, <3>1, <3>2, NoTreeIsNoTree DEF Whole
    <2>. QED
      BY <1>1, <1>2, <2>1 DEF WriteEvent, SetDest
  <1>3. ASSUME NEW r \in Proc, NEW k \in EventType, WriteEvent(r, EventOf(r, k))
        PROVE  Whole(dest') /\ dest'.id = dest.id
    BY <1>2, <1>3, EventIsEvent
  <1>4. ASSUME NEW r \in Proc, Build(r) \/ Resume(r)
        PROVE  Whole(dest') /\ dest'.id = dest.id
    BY <1>1, <1>3, <1>4
    DEF Build, Resume, StartBuild, Seal, AppendValidated, JournalAppend, EventType,
        ResumePublished, ResumeStaged, files
  <1>5. ASSUME NEW r \in Proc, Publish(r)
        PROVE  Whole(dest') /\ dest'.id = dest.id
    <2>1. ~CreateDestination(r)
      BY <1>0 DEF CreateDestination, CanPromote
    <2>. QED
      BY <1>1, <1>3, <1>5, <2>1
      DEF Publish, ValidateStaging, AppendIntent, CheckDestination, AppendPromoted,
          JournalAppend, EventType, files
  <1>6. \A r \in Proc : ~Overwrite(r) /\ ~Rollback(r)
    BY OverwriteModes
  <1>7. ASSUME NEW r \in Proc, Stop(r) \/ StopInAppend(r)
        PROVE  Whole(dest') /\ dest'.id = dest.id
    BY <1>1, <1>3, <1>7 DEF Stop, StopInAppend, EventType, files
  <1>8. ~((\E x \in Proc : Recover(x)) \/ PlaceForeign)
    BY <1>0 DEF Recover, CanRecover, PlaceForeign
  <1>. QED
    BY <1>4, <1>5, <1>6, <1>7, <1>8 DEF Next

\* While no live run overwrites, a whole corpus at the destination stays there and
\* stays whole, whatever number of runs create, resume, stop or recover, and
\* whatever overwriting runs left behind.
THEOREM CreatorsPublishedStays == Spec => PublishedStays
  <1>1. TypeOK /\ CreatorInv /\ [Next]_vars
          => [Whole(dest) /\ (\A r \in Proc : ~Overwriting(r))
                => Whole(dest') /\ dest'.id = dest.id]_vars
    BY PublishedStaysStep
  <1>. QED
    BY <1>1, InitCreator, CreatorKept, InitType, NextType, PTL DEF Spec, PublishedStays
=============================================================================
