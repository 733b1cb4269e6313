--------------------- MODULE CompactBodyPipelineProofs ---------------------
(***************************************************************************)
(* Theorems about CompactBodyPipeline, for every number of threads and of  *)
(* payloads, every size and every limit.                                   *)
(***************************************************************************)
EXTENDS CompactBodyPipeline, FiniteSetTheorems, WellFoundedInduction, TLAPS

IInv == TypeOK /\ Linked

LEMMA StopTokensType ==
  StopTokens \in Seq(Ordinal \cup {StopToken})
  <1>1. Cardinality(Worker) \in Nat
    BY WorkerAssumption, FS_CardinalityType
  <1>. QED
    BY <1>1 DEF StopTokens

LEMMA NotedError ==
  ASSUME NEW e
  PROVE  /\ Noted(e) = IF error = NoError THEN e ELSE error
         /\ e # NoError => Noted(e) # NoError
         /\ e # "pipeline" /\ error # "pipeline" => Noted(e) # "pipeline"
  BY DEF Noted

\* Waking the producer changes nothing but that it looks again.
LEMMA NotifyFrame ==
  ASSUME IInv, Notify
  PROVE  /\ step' \in ProducerStep
         /\ step' # step => step = "waiting" /\ step' = "put"
         /\ Running' = Running
         /\ Outcome' = Outcome
  BY DEF IInv, TypeOK, Notify, Running, Outcome, ProducerStep

\* What is promoted is the whole payload.
LEMMA PromotedRoot ==
  ASSUME IInv, Promote
  PROVE  root' = payload /\ payload \in Seq(Body)
  <1>1. next = N + 1 /\ results = payload
    BY DEF IInv, Linked, Promote
  <1>2. root' = [i \in 1 .. N |-> payload[i]]
    BY <1>1, NAssumption DEF Promote
  <1>. QED
    BY <1>2, NAssumption DEF IInv, TypeOK, Ordinal

-----------------------------------------------------------------------------
(***************************************************************************)
(* Type correctness.                                                       *)
(***************************************************************************)
\* The values a call starts from.
LEMMA FreshType ==
  /\ <<>> \in Seq(Ordinal \cup {StopToken})
  /\ [i \in Ordinal |-> NoBody] \in [Ordinal -> Body \cup {NoBody}]
  /\ 1 \in 1 .. N + 1
  /\ [w \in Worker |-> NoJob] \in [Worker -> Ordinal \cup {NoJob}]
  /\ [w \in Worker |-> "get"] \in [Worker -> WorkerStep]
  /\ [w \in Worker |-> "exit"] \in [Worker -> WorkerStep]
  BY NAssumption DEF WorkerStep

LEMMA InitType == Init => TypeOK
  <1>. SUFFICES ASSUME Init PROVE TypeOK
    OBVIOUS
  <1>1. /\ queue \in Seq(Ordinal \cup {StopToken})
        /\ results \in [Ordinal -> Body \cup {NoBody}]
        /\ next \in 1 .. N + 1
        /\ job \in [Worker -> Ordinal \cup {NoJob}]
        /\ wstep \in [Worker -> WorkerStep]
    BY FreshType DEF Init
  <1>2. bytes \in Nat /\ written \in Nat /\ calls \in Nat /\ step \in ProducerStep
    BY DEF Init, ProducerStep
  <1>. QED
    BY <1>1, <1>2 DEF Init, TypeOK

LEMMA ProducerType ==
  ASSUME IInv, Producer
  PROVE  TypeOK'
  <1>1. CASE NextPayload
    BY <1>1 DEF IInv, NextPayload, TypeOK, Goto, ProducerStep, disk, handoff, outcomes, threads
  <1>2. CASE PayloadRaises
    BY <1>2 DEF IInv, PayloadRaises, Noted, TypeOK, Goto, ProducerStep, disk, handoff, threads
  <1>3. CASE Admit
    <2>0. next \in Ordinal
      BY <1>3, NAssumption DEF IInv, Linked, TypeOK, Admit, Ordinal
    <2>1. next \in Ordinal /\ size[next] \in Nat
      BY <2>0, SizesAssumption DEF IInv, TypeOK
    <2>2. Append(queue, next) \in Seq(Ordinal \cup {StopToken})
      BY <2>1 DEF IInv, TypeOK
    <2>3. next + 1 \in 1 .. N + 1
      BY <2>1, NAssumption DEF Ordinal
    <2>. QED
      BY <1>3, <2>1, <2>2, <2>3
      DEF IInv, Admit, TypeOK, Goto, ProducerStep, disk, outcomes, threads
  <1>4. CASE Wait
    BY <1>4 DEF IInv, Wait, TypeOK, Goto, ProducerStep, disk, handoff, outcomes, threads
  <1>5. CASE PutRaises
    BY <1>5 DEF IInv, PutRaises, Noted, TypeOK, Goto, ProducerStep, disk, handoff, threads
  <1>6. CASE StopWorkers
    <2>1. queue \o StopTokens \in Seq(Ordinal \cup {StopToken})
      BY StopTokensType DEF IInv, TypeOK
    <2>. QED
      BY <1>6, <2>1 DEF IInv, StopWorkers, TypeOK, Goto, ProducerStep, disk, outcomes, threads
  <1>7. CASE Join
    BY <1>7 DEF IInv, Join, TypeOK, Goto, ProducerStep, disk, handoff, outcomes, threads
  <1>8. CASE RemoveStaging
    BY <1>8 DEF IInv, RemoveStaging, TypeOK, Goto, ProducerStep, handoff, outcomes, threads
  <1>8a. CASE RemovalFails
    BY <1>8a DEF IInv, RemovalFails, TypeOK, Goto, ProducerStep, handoff, outcomes, threads
  <1>9. CASE WriteMetadata
    BY <1>9 DEF IInv, WriteMetadata, TypeOK, Goto, ProducerStep, handoff, outcomes, threads
  <1>10. CASE Promote
    <2>. QED
      BY <1>10, PromotedRoot DEF IInv, Promote, TypeOK, Goto, ProducerStep, handoff, outcomes, threads
  <1>11. CASE FinishRaises
    BY <1>11 DEF IInv, FinishRaises, TypeOK, Goto, ProducerStep, disk, handoff, outcomes, threads
  <1>. QED
    BY <1>1, <1>2, <1>3, <1>4, <1>5, <1>6, <1>7, <1>8, <1>8a, <1>9, <1>10, <1>11 DEF Producer

LEMMA WorkType ==
  ASSUME IInv, NEW w \in Worker, Work(w)
  PROVE  TypeOK'
  <1>0. job[w] \in Ordinal \cup {NoJob} /\ (wstep[w] \in Holding => job[w] \in Ordinal)
    BY DEF IInv, TypeOK, Linked
  <1>1. CASE Get(w)
    <2>1. Head(queue) \in Ordinal \cup {StopToken}
          /\ Tail(queue) \in Seq(Ordinal \cup {StopToken})
      BY <1>1 DEF IInv, TypeOK, Get
    <2>. QED
      BY <1>1, <2>1 DEF IInv, Get, TypeOK, WGoto, WorkerStep, disk, outcomes, StopToken, NoJob
  <1>2. CASE LockDigest(w)
    BY <1>2 DEF IInv, LockDigest, TypeOK, WGoto, WorkerStep, disk, handoff, outcomes
  <1>3. CASE BodyExists(w)
    BY <1>3 DEF IInv, BodyExists, TypeOK, WGoto, WorkerStep, disk, handoff, outcomes
  <1>4. CASE WriteTemporary(w)
    BY <1>4 DEF IInv, WriteTemporary, TypeOK, WGoto, WorkerStep, handoff, outcomes
  <1>5. CASE PlaceBody(w)
    BY <1>0, <1>5 DEF IInv, PlaceBody, TypeOK, WGoto, WorkerStep, Holding, handoff, outcomes
  <1>6. CASE StoreResult(w)
    <2>1. payload[job[w]] \in Body
      BY <1>0, <1>6 DEF IInv, StoreResult, TypeOK, Holding
    <2>. QED
      BY <1>6, <2>1 DEF IInv, StoreResult, TypeOK, WGoto, WorkerStep, disk, handoff
  <1>7. CASE WorkRaises(w)
    BY <1>7 DEF IInv, WorkRaises, TypeOK, WGoto, WorkerStep, disk, handoff, outcomes
  <1>8. CASE Release(w)
    <2>1. size[job[w]] \in Nat
      BY <1>0, <1>8, SizesAssumption DEF IInv, Release, TypeOK, Holding
    <2>2. bytes' \in Nat
      BY <1>8, <2>1 DEF IInv, Release, Lowered, TypeOK
    <2>. QED
      BY <1>8, <2>2, NotifyFrame DEF IInv, Release, TypeOK, WGoto, WorkerStep, disk, outcomes
  <1>9. CASE AppendError(w)
    BY <1>9 DEF IInv, AppendError, Noted, TypeOK, WGoto, WorkerStep, disk, handoff
  <1>10. CASE Fail(w)
    BY <1>10, NotifyFrame DEF IInv, Fail, TypeOK, WGoto, WorkerStep, disk, outcomes
  <1>. QED
    BY <1>1, <1>2, <1>3, <1>4, <1>5, <1>6, <1>7, <1>8, <1>9, <1>10 DEF Work

LEMMA OtherType ==
  ASSUME IInv, Call \/ Refuse \/ Interrupt \/ Crash
  PROVE  TypeOK'
  <1>1. CASE Call
    <2>1. /\ queue' \in Seq(Ordinal \cup {StopToken})
          /\ results' \in [Ordinal -> Body \cup {NoBody}]
          /\ next' \in 1 .. N + 1
          /\ job' \in [Worker -> Ordinal \cup {NoJob}]
          /\ wstep' \in [Worker -> WorkerStep]
      BY <1>1, FreshType DEF Call
    <2>2. bytes' \in Nat /\ written' \in Nat /\ calls' \in Nat /\ step' \in ProducerStep
      BY <1>1 DEF Call, Goto, ProducerStep, IInv, TypeOK
    <2>. QED
      BY <1>1, <2>1, <2>2 DEF IInv, Call, TypeOK
  <1>2. CASE Refuse
    BY <1>2 DEF IInv, Refuse, TypeOK, Goto, ProducerStep, disk, handoff, outcomes, threads
  <1>3. CASE Interrupt
    BY <1>3 DEF IInv, Interrupt, Noted, TypeOK, Goto, ProducerStep, disk, handoff, threads
  <1>4. CASE Crash
    BY <1>4 DEF IInv, Crash, TypeOK, Goto, ProducerStep, WorkerStep, disk, handoff, outcomes
  <1>. QED
    BY <1>1, <1>2, <1>3, <1>4

-----------------------------------------------------------------------------
(***************************************************************************)
(* The invariant that links the queue, the results and the errors.         *)
(***************************************************************************)
LEMMA InitLinked == Init => Linked
  <1>. SUFFICES ASSUME Init PROVE Linked
    OBVIOUS
  <1>1. /\ \A i \in Ordinal : results[i] = NoBody
        /\ \A w \in Worker : wstep[w] = "exit"
        /\ step = "idle" /\ failure = FALSE /\ error = NoError /\ ~Running
    BY DEF Init, Running
  <1>. QED
    BY <1>1 DEF Linked, Holding, NoError

\* Steps of the producer that leave the workers and their results alone.
LEMMA ProducerLinked ==
  ASSUME IInv, Producer
  PROVE  Linked'
  <1>. USE DEF IInv, Linked, Goto, threads
  <1>0. next \in 1 .. N + 1 /\ N \in Nat
    BY NAssumption DEF TypeOK
  <1>1. CASE NextPayload
    <2>1. step' = "put" => next' <= N
      BY <1>1 DEF NextPayload
    <2>2. step' = "stop" => next' = N + 1
      BY <1>0, <1>1 DEF NextPayload
    <2>. QED
      BY <1>1, <2>1, <2>2 DEF NextPayload, handoff, outcomes, disk, Running
  <1>2. CASE PayloadRaises
    <2>1. error' # NoError /\ error' # "pipeline"
      BY <1>2, NotedError DEF PayloadRaises, NoError
    <2>. QED
      BY <1>2, <2>1 DEF PayloadRaises, handoff, disk, Running
  <1>3. CASE Admit
    BY <1>3 DEF Admit, outcomes, disk, Running
  <1>4. CASE Wait
    BY <1>4 DEF Wait, handoff, outcomes, disk, Running
  <1>5. CASE PutRaises
    <2>1. error # NoError /\ error' = error
      BY <1>5 DEF PutRaises, Noted
    <2>. QED
      BY <1>5, <2>1 DEF PutRaises, handoff, disk, Running
  <1>6. CASE StopWorkers
    BY <1>6 DEF StopWorkers, outcomes, disk, Running
  <1>7. CASE Join
    <2>1. CASE Complete
      <3>1. next = N + 1 /\ \A i \in Ordinal : results[i] # NoBody
        BY <1>0, <1>7, <2>1 DEF Join, Complete, Ordinal
      <3>2. \A i \in Ordinal : results[i] = payload[i]
        BY <3>1
      <3>3. results = payload
        BY <3>2 DEF TypeOK
      <3>. QED
        BY <1>7, <2>1, <3>1, <3>3 DEF Join, handoff, outcomes, disk, Running
    <2>2. CASE ~Complete
      BY <1>7, <2>2 DEF Join, handoff, outcomes, disk, Running
    <2>. QED
      BY <2>1, <2>2
  <1>8. CASE RemoveStaging
    BY <1>8 DEF RemoveStaging, handoff, outcomes, Running
  <1>8a. CASE RemovalFails
    BY <1>8a DEF RemovalFails, handoff, outcomes, Running
  <1>9. CASE WriteMetadata
    BY <1>9 DEF WriteMetadata, handoff, outcomes, Running
  <1>10. CASE Promote
    BY <1>10 DEF Promote, handoff, outcomes, Running
  <1>11. CASE FinishRaises
    BY <1>11 DEF FinishRaises, handoff, outcomes, disk, Running
  <1>. QED
    BY <1>1, <1>2, <1>3, <1>4, <1>5, <1>6, <1>7, <1>8, <1>8a, <1>9, <1>10, <1>11 DEF Producer

LEMMA WorkLinked ==
  ASSUME IInv, NEW w \in Worker, Work(w)
  PROVE  Linked'
  <1>. USE DEF IInv, Linked, WGoto, Holding
  <1>0. wstep \in [Worker -> WorkerStep] /\ job \in [Worker -> Ordinal \cup {NoJob}]
    BY DEF TypeOK
  <1>1. CASE Get(w)
    <2>1. Head(queue) \in Ordinal \cup {StopToken}
      BY <1>1 DEF TypeOK, Get
    <2>. QED
      BY <1>0, <1>1, <2>1 DEF Get, outcomes, disk, Running
  <1>2. CASE LockDigest(w)
    BY <1>0, <1>2 DEF LockDigest, handoff, outcomes, disk, Running
  <1>3. CASE BodyExists(w)
    BY <1>0, <1>3 DEF BodyExists, handoff, outcomes, disk, Running
  <1>4. CASE WriteTemporary(w)
    BY <1>0, <1>4 DEF WriteTemporary, handoff, outcomes, Running
  <1>5. CASE PlaceBody(w)
    BY <1>0, <1>5 DEF PlaceBody, handoff, outcomes, Running
  <1>6. CASE StoreResult(w)
    <2>1. \A i \in Ordinal : results'[i] \in {NoBody, payload'[i]}
      BY <1>6 DEF StoreResult, TypeOK
    <2>2. results = payload => results' = payload'
      BY <1>6 DEF StoreResult, TypeOK
    <2>. QED
      BY <1>0, <1>6, <2>1, <2>2 DEF StoreResult, handoff, disk, Running
  <1>7. CASE WorkRaises(w)
    BY <1>0, <1>7 DEF WorkRaises, handoff, outcomes, disk, Running
  <1>8. CASE Release(w)
    <2>1. /\ step' # step => step = "waiting" /\ step' = "put"
          /\ Running' = Running
      BY <1>8, NotifyFrame DEF Release
    <2>2. UNCHANGED <<payload, results, error, failure, next, root, job>>
      BY <1>8 DEF Release, outcomes, disk
    <2>3. wstep'[w] \in {"get", "append"} /\ \A v \in Worker \ {w} : wstep'[v] = wstep[v]
      BY <1>0, <1>8 DEF Release
    <2>. QED
      BY <2>1, <2>2, <2>3
  <1>9. CASE AppendError(w)
    <2>1. error' # NoError /\ error' # "pipeline"
      BY <1>9, NotedError DEF AppendError, NoError
    <2>. QED
      BY <1>0, <1>9, <2>1 DEF AppendError, handoff, disk, Running
  <1>10. CASE Fail(w)
    <2>1. /\ step' # step => step = "waiting" /\ step' = "put"
          /\ Running' = Running
      BY <1>10, NotifyFrame DEF Fail
    <2>2. UNCHANGED <<payload, results, error, next, root, job>> /\ error # NoError
      BY <1>10 DEF Fail, outcomes, disk
    <2>3. wstep'[w] = "exit" /\ \A v \in Worker \ {w} : wstep'[v] = wstep[v]
      BY <1>0, <1>10 DEF Fail
    <2>. QED
      BY <2>1, <2>2, <2>3
  <1>. QED
    BY <1>1, <1>2, <1>3, <1>4, <1>5, <1>6, <1>7, <1>8, <1>9, <1>10 DEF Work

LEMMA OtherLinked ==
  ASSUME IInv, Call \/ Refuse \/ Interrupt \/ Crash
  PROVE  Linked'
  <1>. USE DEF IInv, Linked, Goto, Holding
  <1>1. CASE Call
    BY <1>1 DEF Call, MayStart, Running, NoError
  <1>2. CASE Refuse
    BY <1>2 DEF Refuse, handoff, outcomes, threads, disk, Running
  <1>3. CASE Interrupt
    <2>1. error' # NoError /\ error' # "pipeline"
      BY <1>3, NotedError DEF Interrupt, NoError
    <2>. QED
      BY <1>3, <2>1 DEF Interrupt, handoff, threads, disk, Running
  <1>4. CASE Crash
    BY <1>4 DEF Crash, handoff, outcomes, disk, Running
  <1>. QED
    BY <1>1, <1>2, <1>3, <1>4

LEMMA InitIInv == Init => IInv
  BY InitType, InitLinked DEF IInv

LEMMA NextIInv == IInv /\ [Next]_vars => IInv'
  <1>. SUFFICES ASSUME IInv, [Next]_vars PROVE TypeOK' /\ Linked'
    BY DEF IInv
  <1>1. CASE UNCHANGED vars
    BY <1>1 DEF vars, disk, handoff, outcomes, threads, IInv, TypeOK, Linked, Running
  <1>2. ASSUME NEW w \in Worker, Work(w)
        PROVE  TypeOK' /\ Linked'
    BY <1>2, WorkType, WorkLinked
  <1>. QED
    BY <1>1, <1>2, ProducerType, ProducerLinked, OtherType, OtherLinked DEF Next, Terminated

-----------------------------------------------------------------------------
(***************************************************************************)
(* The theorems.                                                           *)
(***************************************************************************)
\* Every reachable state is well typed.
THEOREM TypeCorrect == Spec => []TypeOK
  BY InitIInv, NextIInv, PTL DEF Spec, IInv

\* The producer's RuntimeError never hides the error of the worker behind it.
THEOREM CauseReported == Spec => []CauseIsReported
  <1>1. IInv => CauseIsReported
    BY DEF IInv, Linked, CauseIsReported
  <1>. QED
    BY <1>1, InitIInv, NextIInv, PTL DEF Spec

LEMMA StoreInit == Init => Store!Init
  <1>. SUFFICES ASSUME Init PROVE Store!Init
    OBVIOUS
  <1>1. payload \in Seq(Body)
    BY NAssumption DEF Init, Ordinal
  <1>2. Outcome = "idle"
    BY DEF Init, Outcome, Running
  <1>. QED
    BY <1>1, <1>2 DEF Init, Store!Init, NoStore, Store!NoStore

\* What leaves the caller's view as it was.
LEMMA StoreStutter ==
  ASSUME UNCHANGED <<payload, root>>, Outcome' = Outcome
  PROVE  UNCHANGED Store!vars
  BY DEF Store!vars

LEMMA StoreStep ==
  ASSUME IInv, Next
  PROVE  Store!Next \/ UNCHANGED Store!vars
  <1>. USE DEF Store!NoStore, NoStore
  <1>1. CASE Call
    <2>1. root = NoStore /\ UNCHANGED <<payload, root>> /\ Outcome # "running"
          /\ Outcome' = "running"
      BY <1>1 DEF Call, MayStart, Goto, Outcome, Running
    <2>. QED
      BY <2>1 DEF Store!Begin, Store!Next
  <1>2. CASE Refuse
    <2>1. UNCHANGED <<payload, root>> /\ Outcome # "running" /\ Outcome' = "refused"
      BY <1>2 DEF Refuse, disk, Goto, Outcome, Running
    <2>. QED
      BY <2>1 DEF Store!Refuse, Store!Next
  <1>3. CASE Producer
    <2>1. CASE Promote
      <3>1. root = NoStore /\ Outcome = "running"
        BY <2>1 DEF IInv, Linked, Promote, Running, Outcome
      <3>3. root' = payload
        BY <2>1, PromotedRoot
      <3>4. Outcome' = "returned" /\ payload' = payload
        BY <2>1 DEF Promote, Goto, Outcome, Running
      <3>. QED
        BY <3>1, <3>3, <3>4 DEF Store!Publish, Store!Next
    <2>2. CASE RemoveStaging \/ RemovalFails \/ FinishRaises
      <3>1. UNCHANGED <<payload, root>> /\ Outcome = "running" /\ Outcome' = "raised"
        BY <2>2 DEF RemoveStaging, RemovalFails, FinishRaises, disk, Goto, Outcome, Running
      <3>. QED
        BY <3>1 DEF Store!Abandon, Store!Next
    <2>3. CASE \/ NextPayload \/ PayloadRaises \/ Admit \/ Wait \/ PutRaises
               \/ StopWorkers \/ Join \/ WriteMetadata
      <3>1. UNCHANGED <<payload, root>> /\ Outcome = "running" /\ Outcome' = "running"
        BY <2>3 DEF NextPayload, PayloadRaises, Admit, Wait, PutRaises, StopWorkers, Join,
                    WriteMetadata, disk, Goto, Outcome, Running
      <3>. QED
        BY <3>1, StoreStutter
    <2>. QED
      BY <1>3, <2>1, <2>2, <2>3 DEF Producer
  <1>4. ASSUME NEW w \in Worker, Work(w)
        PROVE  Store!Next \/ UNCHANGED Store!vars
    <2>1. UNCHANGED <<payload, root>>
      BY <1>4 DEF Work, Get, LockDigest, BodyExists, WriteTemporary, PlaceBody, StoreResult,
                  WorkRaises, Release, AppendError, Fail, disk
    <2>2. UNCHANGED step \/ Notify
      BY <1>4 DEF Work, Get, LockDigest, BodyExists, WriteTemporary, PlaceBody, StoreResult,
                  WorkRaises, Release, AppendError, Fail
    <2>3. Outcome' = Outcome
      BY <2>2, NotifyFrame DEF Outcome, Running
    <2>. QED
      BY <2>1, <2>3, StoreStutter
  <1>5. CASE Interrupt
    <2>1. UNCHANGED <<payload, root>> /\ Outcome = "running" /\ Outcome' = "running"
      BY <1>5 DEF Interrupt, disk, Goto, Outcome, Running
    <2>. QED
      BY <2>1, StoreStutter
  <1>6. CASE Crash
    <2>1. UNCHANGED <<payload, root>> /\ Outcome = "running" /\ Outcome' = "dead"
      BY <1>6 DEF Crash, disk, Goto, Outcome, Running
    <2>. QED
      BY <2>1 DEF Store!Abandon, Store!Next
  <1>7. CASE Terminated
    BY <1>7, StoreStutter DEF Terminated, vars, disk, Outcome, Running
  <1>. QED
    BY <1>1, <1>2, <1>3, <1>4, <1>5, <1>6, <1>7 DEF Next

\* The pipeline implements CompactBodyStore: whatever its threads, the caller
\* sees every row in the order of the payloads at once, or nothing.
THEOREM ImplementsStore == Spec => PublishesAllOrNothing
  <1>1. IInv /\ [Next]_vars => [Store!Next]_(Store!vars)
    <2>1. ASSUME UNCHANGED vars
          PROVE  UNCHANGED Store!vars
      BY <2>1, StoreStutter DEF vars, disk, Outcome, Running
    <2>. QED
      BY <2>1, StoreStep
  <1>. QED
    BY <1>1, StoreInit, InitIInv, NextIInv, PTL DEF Spec, PublishesAllOrNothing

-----------------------------------------------------------------------------
(***************************************************************************)
(* Bodies, results and temporary files.                                    *)
(***************************************************************************)
\* Only the holder of digest_lock looks for a body and writes it; a result is
\* stored, and counts as published, for a body that is there.
Writing ==
    /\ \A w \in Worker : wstep[w] \in {"locked", "writing"} => lock = w
    /\ \A w \in Worker : wstep[w] = "writing" => payload[job[w]] \notin bodies
    /\ \A w \in Worker : wstep[w] = "store" => payload[job[w]] \in bodies
    /\ IsFiniteSet(bodies)
    /\ Running => written = Cardinality(bodies)
    /\ Running => \A i \in Ordinal : results[i] # NoBody => results[i] \in bodies

\* No worker is left when the staging directory is removed or promoted, and a
\* temporary file is left behind by a worker only with an error.
Leaving ==
    /\ step \in {"remove", "metadata", "promote"} \/ ~Running =>
          \A w \in Worker : wstep[w] = "exit"
    /\ Running => \A w \in tmp : wstep[w] \in {"writing", "unwind", "append"} \/ error # NoError
    /\ step \in {"metadata", "promote"} => tmp = {} /\ error = NoError

BodyInv == IInv /\ Writing /\ Leaving /\ EndsClean

LEMMA InitBody == Init => BodyInv
  <1>. SUFFICES ASSUME Init PROVE Writing /\ Leaving /\ EndsClean
    BY InitIInv DEF BodyInv
  <1>1. /\ \A w \in Worker : wstep[w] = "exit"
        /\ bodies = {} /\ tmp = {} /\ step = "idle" /\ root = NoStore /\ ~Running
    BY DEF Init, Running
  <1>. QED
    BY <1>1, FS_EmptySet DEF Writing, Leaving, EndsClean

LEMMA ProducerBody ==
  ASSUME BodyInv, Producer
  PROVE  Writing' /\ Leaving' /\ EndsClean'
  <1>. USE DEF BodyInv, Goto, disk, threads
  <1>0. Running /\ root = NoStore
    BY DEF IInv, Linked, Producer, Running, NextPayload, PayloadRaises, Admit, Wait, PutRaises,
           StopWorkers, Join, RemoveStaging, RemovalFails, WriteMetadata, Promote, FinishRaises
  <1>1. CASE \/ NextPayload \/ PayloadRaises \/ Admit \/ Wait \/ PutRaises \/ StopWorkers
    <2>1. /\ UNCHANGED <<payload, results, root, bodies, tmp, wstep, job, lock, written>>
          /\ step' \in {"put", "stop", "next", "waiting", "join"}
          /\ error # NoError => error' # NoError
      BY <1>1 DEF NextPayload, PayloadRaises, Admit, Wait, PutRaises, StopWorkers, outcomes,
                  Noted
    <2>2. Running'
      BY <2>1 DEF Running
    <2>3. Writing'
      BY <1>0, <2>1, <2>2 DEF Writing
    <2>4. Leaving'
      BY <1>0, <2>1, <2>2 DEF Leaving
    <2>5. EndsClean'
      BY <1>0, <2>1 DEF EndsClean
    <2>. QED
      BY <2>3, <2>4, <2>5
  <1>2. CASE Join
    <2>1. /\ UNCHANGED <<payload, results, error, root, bodies, tmp, wstep, job, lock, written>>
          /\ \A w \in Worker : wstep[w] = "exit"
          /\ step' = IF Complete THEN "metadata" ELSE "remove"
      BY <1>2 DEF Join, outcomes
    <2>2. Running'
      BY <2>1 DEF Running
    <2>3. Writing'
      BY <1>0, <2>1, <2>2 DEF Writing
    <2>4. Complete => tmp = {} /\ error = NoError
      BY <1>0, <2>1 DEF Complete, Leaving, IInv, TypeOK
    <2>5. Leaving'
      BY <1>0, <2>1, <2>2, <2>4 DEF Leaving
    <2>6. EndsClean'
      BY <1>0, <2>1 DEF EndsClean
    <2>. QED
      BY <2>3, <2>5, <2>6
  <1>3. CASE RemoveStaging
    <2>1. /\ \A w \in Worker : wstep'[w] = "exit"
          /\ bodies' = {} /\ tmp' = {} /\ step' = "raised" /\ staging' = "absent"
          /\ UNCHANGED root /\ ~Running'
      BY <1>3 DEF RemoveStaging, Leaving, Running
    <2>. QED
      BY <1>0, <2>1, FS_EmptySet DEF Writing, Leaving, EndsClean, MayStart
  <1>3a. CASE RemovalFails
    <2>1. /\ \A w \in Worker : wstep'[w] = "exit"
          /\ bodies' \subseteq bodies /\ step' = "raised" /\ staging' = "left"
          /\ UNCHANGED root /\ ~Running'
      BY <1>3a DEF RemovalFails, Leaving, Running
    <2>. QED
      BY <1>0, <2>1, FS_Subset DEF Writing, Leaving, EndsClean
  <1>4. CASE WriteMetadata \/ FinishRaises
    <2>1. /\ UNCHANGED <<payload, results, error, root, bodies, tmp, wstep, job, lock, written>>
          /\ step \in {"metadata", "promote"} /\ step' \in {"promote", "raised"}
      BY <1>4 DEF WriteMetadata, FinishRaises, outcomes
    <2>2. Writing'
      BY <1>0, <2>1 DEF Writing
    <2>3. Leaving'
      BY <1>0, <2>1 DEF Leaving
    <2>4. EndsClean'
      BY <1>0, <2>1 DEF EndsClean, Leaving
    <2>. QED
      BY <2>2, <2>3, <2>4
  <1>5. CASE Promote
    <2>1. /\ UNCHANGED <<payload, results, error, bodies, tmp, wstep, job, lock, written>>
          /\ step = "promote" /\ step' = "returned" /\ ~Running'
      BY <1>5 DEF Promote, outcomes, Running
    <2>2. root' = payload /\ results = payload /\ tmp = {}
      BY <1>5, PromotedRoot DEF Leaving, IInv, Linked, Promote
    <2>3. \A i \in Ordinal : payload[i] \in bodies
      BY <1>0, <2>2, BodyAssumption DEF Writing, IInv, TypeOK, NoBody
    <2>4. Writing'
      BY <2>1 DEF Writing
    <2>5. Leaving'
      BY <2>1 DEF Leaving
    <2>6. EndsClean'
      BY <2>1, <2>2, <2>3 DEF EndsClean, IInv, TypeOK
    <2>. QED
      BY <2>4, <2>5, <2>6
  <1>. QED
    BY <1>1, <1>2, <1>3, <1>3a, <1>4, <1>5 DEF Producer

\* A step of a worker leaves a published store alone: there is none, or no worker.
LEMMA WorkFrame ==
  ASSUME BodyInv, NEW w \in Worker, Work(w)
  PROVE  /\ wstep[w] # "exit" /\ Running /\ Running' /\ root' = NoStore
         /\ UNCHANGED <<payload, size, next>>
         /\ step \notin {"remove", "metadata", "promote"}
         /\ step' \notin {"remove", "metadata", "promote", "raised"}
  <1>1. wstep[w] # "exit" /\ (UNCHANGED step \/ Notify) /\ UNCHANGED <<payload, size, next, root>>
    BY DEF Work, Get, LockDigest, BodyExists, WriteTemporary, PlaceBody, StoreResult, WorkRaises,
           Release, AppendError, Fail, disk
  <1>2. Running /\ step \notin {"remove", "metadata", "promote"} /\ root = NoStore
    BY <1>1 DEF BodyInv, Leaving, IInv, Linked
  <1>. QED
    BY <1>1, <1>2, NotifyFrame DEF BodyInv, Running

LEMMA WorkBody ==
  ASSUME BodyInv, NEW w \in Worker, Work(w)
  PROVE  Writing' /\ Leaving' /\ EndsClean'
  <1>. USE DEF BodyInv, WGoto
  <1>0. wstep \in [Worker -> WorkerStep] /\ job \in [Worker -> Ordinal \cup {NoJob}]
    BY DEF IInv, TypeOK
  <1>e. EndsClean'
    BY WorkFrame DEF EndsClean
  <1>s. \A v \in Worker \ {w} : wstep'[v] = wstep[v] /\ job'[v] = job[v]
    BY <1>0 DEF Work, Get, LockDigest, BodyExists, WriteTemporary, PlaceBody, StoreResult,
                WorkRaises, Release, AppendError, Fail
  <1>1. CASE Get(w) \/ AppendError(w) \/ Fail(w) \/ Release(w)
    <2>1. /\ UNCHANGED <<results, bodies, tmp, lock, written>>
          /\ wstep'[w] \in {"exit", "encode", "fail", "get", "append"}
          /\ wstep[w] # "writing"
          /\ wstep[w] = "unwind" => wstep'[w] = "append"
          /\ error # NoError => error' # NoError
          /\ wstep[w] = "append" => error' # NoError
      BY <1>0, <1>1 DEF Get, AppendError, Fail, Release, disk, outcomes, Noted, NoError
    <2>2. Writing'
      BY <1>s, <2>1, WorkFrame DEF Writing
    <2>3. Leaving'
      BY <1>s, <2>1, WorkFrame DEF Leaving, IInv, TypeOK
    <2>. QED
      BY <1>e, <2>2, <2>3
  <1>2. CASE LockDigest(w)
    <2>1. /\ UNCHANGED <<results, bodies, tmp, written, error, job>> /\ wstep[w] = "encode"
          /\ wstep'[w] = "locked" /\ lock = NoOne /\ lock' = w
      BY <1>0, <1>2 DEF LockDigest, disk, outcomes
    <2>2. Writing'
      BY <1>s, <2>1, WorkFrame, NoOneAssumption DEF Writing
    <2>3. Leaving'
      BY <1>s, <2>1, WorkFrame DEF Leaving, IInv, TypeOK
    <2>. QED
      BY <1>e, <2>2, <2>3
  <1>3. CASE BodyExists(w) \/ WriteTemporary(w)
    <2>1. /\ UNCHANGED <<results, bodies, written, error, job>> /\ wstep[w] = "locked"
          /\ \/ /\ wstep'[w] = "store" /\ payload[job[w]] \in bodies /\ UNCHANGED tmp
             \/ /\ wstep'[w] = "writing" /\ payload[job[w]] \notin bodies /\ tmp' = tmp \cup {w}
                /\ lock' = lock
      BY <1>0, <1>3 DEF BodyExists, WriteTemporary, disk, outcomes
    <2>2. \A v \in Worker \ {w} : wstep[v] \notin {"locked", "writing"}
      BY <2>1 DEF Writing
    <2>3. Writing'
      BY <1>s, <2>1, <2>2, WorkFrame DEF Writing
    <2>4. Leaving'
      BY <1>s, <2>1, WorkFrame DEF Leaving, IInv, TypeOK
    <2>. QED
      BY <1>e, <2>3, <2>4
  <1>4. CASE PlaceBody(w)
    <2>1. /\ UNCHANGED <<results, error, job>> /\ wstep[w] = "writing" /\ wstep'[w] = "store"
          /\ bodies' = bodies \cup {payload[job[w]]} /\ tmp' = tmp \ {w} /\ written' = written + 1
      BY <1>0, <1>4 DEF PlaceBody, outcomes
    <2>2. \A v \in Worker \ {w} : wstep[v] \notin {"locked", "writing"}
      BY <2>1 DEF Writing
    <2>3. IsFiniteSet(bodies') /\ written' = Cardinality(bodies')
      BY <2>1, WorkFrame, FS_AddElement DEF Writing
    <2>4. Writing'
      BY <1>s, <2>1, <2>2, <2>3, WorkFrame DEF Writing
    <2>5. Leaving'
      BY <1>s, <2>1, WorkFrame DEF Leaving, IInv, TypeOK
    <2>. QED
      BY <1>e, <2>4, <2>5
  <1>5. CASE StoreResult(w)
    <2>1. /\ UNCHANGED <<bodies, tmp, written, lock, error, job>> /\ wstep[w] = "store"
          /\ wstep'[w] = "release" /\ results' = [results EXCEPT ![job[w]] = payload[job[w]]]
      BY <1>0, <1>5 DEF StoreResult, disk
    <2>2. \A i \in Ordinal : results'[i] # NoBody => results'[i] \in bodies
      BY <2>1, WorkFrame DEF Writing, IInv, TypeOK
    <2>3. Writing'
      BY <1>s, <2>1, <2>2, WorkFrame DEF Writing
    <2>4. Leaving'
      BY <1>s, <2>1, WorkFrame DEF Leaving, IInv, TypeOK
    <2>. QED
      BY <1>e, <2>3, <2>4
  <1>6. CASE WorkRaises(w)
    <2>1. /\ UNCHANGED <<results, bodies, tmp, written, error, job>>
          /\ wstep'[w] = "unwind" /\ lock' = (IF lock = w THEN NoOne ELSE lock)
      BY <1>0, <1>6 DEF WorkRaises, disk, outcomes
    <2>2. Writing'
      BY <1>s, <2>1, WorkFrame DEF Writing
    <2>3. Leaving'
      BY <1>s, <2>1, WorkFrame DEF Leaving, IInv, TypeOK
    <2>. QED
      BY <1>e, <2>2, <2>3
  <1>. QED
    BY <1>1, <1>2, <1>3, <1>4, <1>5, <1>6 DEF Work

LEMMA OtherBody ==
  ASSUME BodyInv, Call \/ Refuse \/ Interrupt \/ Crash
  PROVE  Writing' /\ Leaving' /\ EndsClean'
  <1>. USE DEF BodyInv, Goto
  <1>1. CASE Call
    <2>1. /\ root' = NoStore /\ step' = "next" /\ Running'
          /\ bodies' = {} /\ tmp' = {} /\ written' = 0
          /\ \A w \in Worker : wstep'[w] = "get"
          /\ \A i \in Ordinal : results'[i] = NoBody
      BY <1>1 DEF Call, MayStart, Running
    <2>. QED
      BY <2>1, FS_EmptySet DEF Writing, Leaving, EndsClean
  <1>2. CASE Refuse
    <2>1. /\ UNCHANGED <<payload, results, error, root, staging, bodies, tmp, wstep, job, lock, written>>
          /\ step' = "refused" /\ ~Running /\ ~Running'
      BY <1>2 DEF Refuse, disk, outcomes, threads, Running
    <2>2. Writing'
      BY <2>1 DEF Writing
    <2>. QED
      BY <2>1, <2>2 DEF Leaving, EndsClean
  <1>3. CASE Interrupt
    <2>1. /\ UNCHANGED <<payload, results, root, bodies, tmp, wstep, job, lock, written>>
          /\ step' = "stop" /\ Running /\ Running' /\ root = NoStore
          /\ error # NoError => error' # NoError
      BY <1>3 DEF Interrupt, disk, threads, Running, Noted, IInv, Linked
    <2>2. Writing'
      BY <2>1 DEF Writing
    <2>. QED
      BY <2>1, <2>2 DEF Leaving, EndsClean
  <1>4. CASE Crash
    <2>1. /\ UNCHANGED <<payload, results, error, root, bodies, tmp, job, written>>
          /\ step' = "dead" /\ ~Running' /\ root = NoStore
          /\ \A w \in Worker : wstep'[w] = "exit"
      BY <1>4 DEF Crash, disk, outcomes, Running, IInv, Linked
    <2>2. Writing'
      BY <2>1 DEF Writing
    <2>. QED
      BY <2>1, <2>2 DEF Leaving, EndsClean
  <1>. QED
    BY <1>1, <1>2, <1>3, <1>4

LEMMA NextBody == BodyInv /\ [Next]_vars => BodyInv'
  <1>. SUFFICES ASSUME BodyInv, [Next]_vars PROVE Writing' /\ Leaving' /\ EndsClean'
    BY NextIInv DEF BodyInv
  <1>1. CASE UNCHANGED vars
    <2>1. /\ UNCHANGED <<payload, results, error, root, staging, bodies, tmp, wstep, job, lock, written>>
          /\ UNCHANGED step
      BY <1>1 DEF vars, disk, outcomes, threads
    <2>2. Writing'
      BY <2>1 DEF BodyInv, Writing, Running
    <2>3. Leaving'
      BY <2>1 DEF BodyInv, Leaving, Running
    <2>. QED
      BY <2>1, <2>2, <2>3 DEF BodyInv, EndsClean, MayStart
  <1>. QED
    BY <1>1, ProducerBody, WorkBody, OtherBody DEF Next, Terminated

LEMMA BodyInductive == Spec => []BodyInv
  BY InitBody, NextBody, PTL DEF Spec

\* Every body is written once, whatever number of payloads encode to it and
\* whichever threads come to it together.
THEOREM WrittenOnce == Spec => []BodiesWrittenOnce
  BY BodyInductive, PTL DEF BodyInv, Writing, BodiesWrittenOnce

\* A published store holds the body of every row and no temporary file, and a
\* call that noted an error leaves nothing that would refuse the next one, unless the
\* removal of its staging directory failed.
THEOREM Clean == Spec => []EndsClean
  BY BodyInductive, PTL DEF BodyInv

-----------------------------------------------------------------------------
(***************************************************************************)
(* The sum over a finite set.  MapThenSumSet is a recursive function: it   *)
(* takes out one element after the other, in the order CHOOSE gives.       *)
(* Counting units gives a function that satisfies its equation, and a      *)
(* smallest set at which two such functions differ does not exist, so the  *)
(* sum is the number of units, whatever the order.                         *)
(***************************************************************************)
Iterates(f, S, g) ==
    g = [s \in SUBSET S |-> IF s = {} THEN 0
                            ELSE f[CHOOSE x \in s : TRUE] + g[s \ {CHOOSE x \in s : TRUE}]]

LEMMA SumUnfolds ==
  ASSUME NEW S, NEW f
  PROVE  MapThenSumSet(LAMBDA i : f[i], S) = (CHOOSE g : Iterates(f, S, g))[S]
  BY DEF MapThenSumSet, MapThenFoldSet, Iterates

\* Induction over the subsets of a finite set, as a smallest counterexample.
LEMMA SmallestSubset ==
  ASSUME NEW S, IsFiniteSet(S), NEW T, T \subseteq SUBSET S, T # {}
  PROVE  \E s \in T : \A x \in s : s \ {x} \notin T
  <1>1. PICK s \in T : \A t \in T : ~ (<<t, s>> \in StrictSubsetOrdering(S))
    <2>1. IsWellFoundedOn(StrictSubsetOrdering(S), SUBSET S)
      BY FS_StrictSubsetOrderingWellFounded, FS_FiniteSubsetsOfFinite
    <2>. QED
      BY <2>1, WFMin
  <1>. QED
    BY <1>1 DEF StrictSubsetOrdering

\* f[i] units for every i in s.
Units(f, s) == UNION {{i} \X (1 .. f[i]) : i \in s}

LEMMA UnitsOfOne ==
  ASSUME NEW i, NEW n \in Nat
  PROVE  IsFiniteSet({i} \X (1 .. n)) /\ Cardinality({i} \X (1 .. n)) = n
  <1>1. IsFiniteSet(1 .. n) /\ Cardinality(1 .. n) = n
    BY FS_Interval
  <1>2. IsFiniteSet({i}) /\ Cardinality({i}) = 1
    BY FS_Singleton
  <1>. QED
    BY <1>1, <1>2, FS_Product

LEMMA UnitsFinite ==
  ASSUME NEW S, IsFiniteSet(S), NEW f \in [S -> Nat], NEW s \in SUBSET S
  PROVE  IsFiniteSet(Units(f, s)) /\ Cardinality(Units(f, s)) \in Nat
  <1>. DEFINE U == {{k} \X (1 .. f[k]) : k \in s}
  <1>1. IsFiniteSet(s)
    BY FS_Subset
  <1>2. [k \in s |-> {k} \X (1 .. f[k])] \in Surjection(s, U)
    BY DEF Surjection
  <1>3. IsFiniteSet(U)
    BY <1>1, <1>2, FS_Surjection
  <1>4. \A u \in U : IsFiniteSet(u)
    <2>1. \A k \in s : f[k] \in Nat
      OBVIOUS
    <2>2. \A k \in s : IsFiniteSet({k} \X (1 .. f[k]))
      BY <2>1, UnitsOfOne
    <2>. QED
      BY <2>2
  <1>5. IsFiniteSet(Units(f, s))
    BY <1>3, <1>4, FS_UNION DEF Units
  <1>. QED
    BY <1>5, FS_CardinalityType

LEMMA UnitsLess ==
  ASSUME NEW S, IsFiniteSet(S), NEW f \in [S -> Nat], NEW s \in SUBSET S, NEW i \in s
  PROVE  Cardinality(Units(f, s)) = f[i] + Cardinality(Units(f, s \ {i}))
  <1>. DEFINE A == {i} \X (1 .. f[i])
              B == Units(f, s \ {i})
  <1>1. Units(f, s) = A \cup B /\ A \cap B = {}
    BY DEF Units
  <1>2. IsFiniteSet(A) /\ Cardinality(A) = f[i]
    BY UnitsOfOne
  <1>3. IsFiniteSet(B) /\ Cardinality(B) \in Nat /\ Cardinality({}) = 0
    BY UnitsFinite, FS_EmptySet
  <1>4. Cardinality(A \cup B) = Cardinality(A) + Cardinality(B) - Cardinality(A \cap B)
    BY <1>2, <1>3, FS_Union
  <1>5. f[i] \in Nat
    OBVIOUS
  <1>. HIDE DEF A, B
  <1>6. Cardinality(A \cap B) = 0
    BY <1>1, <1>3
  <1>7. Cardinality(A \cup B) = f[i] + Cardinality(B)
    BY <1>2, <1>3, <1>4, <1>5, <1>6
  <1>. QED
    BY <1>1, <1>7 DEF B

LEMMA SumIsCardinality ==
  ASSUME NEW D, IsFiniteSet(D), NEW f \in [D -> Nat], NEW S \in SUBSET D
  PROVE  MapThenSumSet(LAMBDA i : f[i], S) = Cardinality(Units(f, S))
  <1>. DEFINE c(s) == CHOOSE x \in s : TRUE
              h == [s \in SUBSET S |-> Cardinality(Units(f, s))]
              g == CHOOSE g : Iterates(f, S, g)
  <1>0. IsFiniteSet(S)
    BY FS_Subset
  <1>1. Cardinality(Units(f, {})) = 0
    BY FS_EmptySet DEF Units
  <1>2. \A s \in SUBSET S : s # {} => c(s) \in s /\ s \ {c(s)} \in SUBSET S
    OBVIOUS
  <1>3. \A s \in SUBSET S : h[s] = IF s = {} THEN 0 ELSE f[c(s)] + h[s \ {c(s)}]
    <2>. SUFFICES ASSUME NEW s \in SUBSET S
                  PROVE  h[s] = IF s = {} THEN 0 ELSE f[c(s)] + h[s \ {c(s)}]
      OBVIOUS
    <2>1. CASE s = {}
      BY <1>1, <2>1
    <2>2. CASE s # {}
      <3>1. c(s) \in s /\ s \ {c(s)} \in SUBSET S
        BY <1>2, <2>2
      <3>. HIDE DEF c
      <3>2. Cardinality(Units(f, s)) = f[c(s)] + Cardinality(Units(f, s \ {c(s)}))
        BY <3>1, UnitsLess
      <3>. QED
        BY <2>2, <3>1, <3>2
    <2>. QED
      BY <2>1, <2>2
  <1>4. Iterates(f, S, h)
    BY <1>3 DEF Iterates
  <1>5. Iterates(f, S, g)
    BY <1>4
  <1>. HIDE DEF h, g
  <1>6. \A s \in SUBSET S : g[s] = IF s = {} THEN 0 ELSE f[c(s)] + g[s \ {c(s)}]
    BY <1>5 DEF Iterates
  <1>. HIDE DEF c
  <1>. DEFINE T == {s \in SUBSET S : g[s] # h[s]}
  <1>7. T = {}
    <2>1. SUFFICES ASSUME T # {} PROVE FALSE
      OBVIOUS
    <2>2. PICK s \in T : \A x \in s : s \ {x} \notin T
      BY <1>0, <2>1, SmallestSubset
    <2>3. s # {}
      BY <1>3, <1>6
    <2>4. c(s) \in s /\ s \ {c(s)} \in SUBSET S /\ s \ {c(s)} \notin T
      BY <2>2, <2>3, <1>2
    <2>. QED
      BY <2>3, <2>4, <1>3, <1>6
  <1>8. g[S] = h[S]
    BY <1>7
  <1>9. MapThenSumSet(LAMBDA i : f[i], S) = g[S]
    BY SumUnfolds DEF g
  <1>10. h[S] = Cardinality(Units(f, S))
    BY DEF h
  <1>. QED
    BY <1>8, <1>9, <1>10

-----------------------------------------------------------------------------
(***************************************************************************)
(* The bytes of the queue.                                                 *)
(***************************************************************************)
\* A descriptor is in the queue or with one worker, once.
Once ==
    /\ \A k, l \in DOMAIN queue : queue[k] = queue[l] /\ queue[k] # StopToken => k = l
    /\ \A k \in DOMAIN queue : queue[k] < next
    /\ \A w \in Worker : wstep[w] \in Holding =>
          job[w] < next /\ \A k \in DOMAIN queue : queue[k] # job[w]
    /\ \A w, v \in Worker :
          wstep[w] \in Holding /\ wstep[v] \in Holding /\ job[w] = job[v] => w = v

Weight(S) == Cardinality(Units(size, S))

\* _bytes is the size of what is in flight, and _oversized tells that this is one
\* descriptor, which need not fit the limit.
Counted ==
    Running =>
        /\ Once
        /\ bytes = Weight(InFlight)
        /\ ~oversized => bytes <= Limit
        /\ oversized => \E i \in Ordinal : InFlight = {i}

QueueInv == BodyInv /\ Counted

LEMMA WeightFacts ==
  ASSUME TypeOK, NEW S \in SUBSET Ordinal
  PROVE  /\ IsFiniteSet(S) /\ Weight(S) \in Nat
         /\ \A i \in S : Weight(S) = size[i] + Weight(S \ {i})
         /\ \A i \in Ordinal : size[i] \in Nat \ {0}
         /\ Weight(S) = 0 <=> S = {}
  <1>0. IsFiniteSet(Ordinal)
    BY NAssumption, FS_Interval DEF Ordinal
  <1>1. IsFiniteSet(S)
    BY <1>0, FS_Subset
  <1>2. IsFiniteSet(Ordinal) /\ size \in [Ordinal -> Nat]
    BY <1>0, SizesAssumption DEF TypeOK
  <1>3. \A s \in SUBSET Ordinal : Weight(s) \in Nat
    BY <1>2, UnitsFinite DEF Weight
  <1>4. \A i \in S : Weight(S) = size[i] + Weight(S \ {i})
    BY <1>2, UnitsLess DEF Weight
  <1>5. \A i \in Ordinal : size[i] \in Nat \ {0}
    BY SizesAssumption DEF TypeOK
  <1>6. S = {} => Weight(S) = 0
    BY FS_EmptySet DEF Weight, Units
  <1>7. ASSUME NEW i \in S PROVE Weight(S) # 0
    <2>1. Weight(S) = size[i] + Weight(S \ {i}) /\ Weight(S \ {i}) \in Nat
      BY <1>3, <1>4
    <2>2. size[i] \in Nat \ {0}
      BY <1>5
    <2>. QED
      BY <2>1, <2>2
  <1>. QED
    BY <1>1, <1>3, <1>4, <1>5, <1>6, <1>7

\* A step that takes no descriptor into the queue and lets none go.
LEMMA CountedFrame ==
  ASSUME QueueInv, Running, Once', InFlight' = InFlight, UNCHANGED <<bytes, oversized, size>>
  PROVE  Counted'
  BY DEF QueueInv, Counted, Weight

\* The steps between which only the place of a worker or of the producer changes.
LEMMA CountedSame ==
  ASSUME QueueInv, Running, UNCHANGED <<queue, next, job, bytes, oversized, size>>,
         \A w \in Worker : wstep'[w] \in Holding <=> wstep[w] \in Holding
  PROVE  Counted'
  <1>1. Once'
    BY DEF QueueInv, Counted, Once
  <1>2. InFlight' = InFlight
    BY DEF InFlight
  <1>. QED
    BY <1>1, <1>2, CountedFrame

LEMMA AdmitCounted ==
  ASSUME QueueInv, Admit
  PROVE  Counted'
  <1>. USE DEF QueueInv
  <1>0. /\ TypeOK /\ Running /\ Once /\ bytes = Weight(InFlight)
        /\ next \in Ordinal /\ next # StopToken /\ N \in Nat
    BY NAssumption DEF BodyInv, IInv, Linked, TypeOK, Admit, Counted, Running, Ordinal, StopToken
  <1>1. /\ queue' = Append(queue, next) /\ next' = next + 1
        /\ bytes' = bytes + size[next] /\ oversized' = (size[next] > Limit)
        /\ UNCHANGED <<size, wstep, job>> /\ Admissible(size[next])
    BY DEF Admit, threads
  <1>2. /\ DOMAIN queue' = DOMAIN queue \cup {Len(queue) + 1}
        /\ queue'[Len(queue) + 1] = next
        /\ \A k \in DOMAIN queue : queue'[k] = queue[k] /\ k # Len(queue) + 1
        /\ \A k \in DOMAIN queue : queue[k] \in Nat
    BY <1>0, <1>1 DEF TypeOK, Ordinal, StopToken
  <1>3. \A w \in Worker : wstep[w] \in Holding => job[w] \in Ordinal
    BY DEF BodyInv, IInv, Linked
  <1>4. Once'
    <2>1. /\ \A k \in DOMAIN queue : queue[k] # next
          /\ \A w \in Worker : wstep[w] \in Holding => job[w] # next
      BY <1>0, <1>2 DEF Once, Ordinal
    <2>2. \A k \in DOMAIN queue' : queue'[k] < next'
      BY <1>0, <1>1, <1>2 DEF Once, Ordinal
    <2>3. \A w \in Worker : wstep[w] \in Holding => job[w] < next'
      BY <1>0, <1>1, <1>3 DEF Once, Ordinal
    <2>. QED
      BY <1>0, <1>1, <1>2, <2>1, <2>2, <2>3 DEF Once
  <1>5. InFlight' = InFlight \cup {next} /\ next \notin InFlight
    <2>1. \A i \in Ordinal : (\E k \in DOMAIN queue' : queue'[k] = i)
                              <=> (i = next \/ \E k \in DOMAIN queue : queue[k] = i)
      BY <1>2
    <2>2. next \notin InFlight
      BY <1>0, <1>2 DEF Once, InFlight, Ordinal
    <2>. QED
      BY <1>0, <1>1, <2>1, <2>2 DEF InFlight
  <1>6. InFlight \in SUBSET Ordinal /\ InFlight' \in SUBSET Ordinal
    BY DEF InFlight
  <1>. HIDE DEF QueueInv
  <1>7. bytes' = Weight(InFlight') /\ size[next] \in Nat \ {0} /\ (bytes = 0 <=> InFlight = {})
    <2>1. Weight(InFlight') = size[next] + Weight(InFlight' \ {next})
      BY <1>0, <1>5, <1>6, WeightFacts
    <2>2. InFlight' \ {next} = InFlight
      BY <1>5
    <2>3. Weight(InFlight) \in Nat /\ size[next] \in Nat \ {0} /\ (Weight(InFlight) = 0 <=> InFlight = {})
      BY <1>0, <1>6, WeightFacts
    <2>4. Weight(InFlight') = size[next] + bytes
      BY <1>0, <2>1, <2>2
    <2>5. bytes' = Weight(InFlight')
      BY <1>0, <1>1, <2>3, <2>4
    <2>. QED
      BY <1>0, <2>3, <2>5
  <1>8. ~oversized' => bytes' <= Limit
    BY <1>0, <1>1, <1>7, LimitAssumption DEF Admissible, TypeOK
  <1>9. oversized' => InFlight' = {next}
    <2>1. bytes \in Nat /\ Limit \in Nat
      BY <1>0, LimitAssumption DEF TypeOK
    <2>2. oversized' => bytes = 0
      <3>1. size[next] \in Nat /\ (oversized' => size[next] > Limit)
        BY <1>1, <1>7
      <3>2. bytes + size[next] <= Limit \/ bytes = 0
        BY <1>1 DEF Admissible
      <3>. QED
        BY <2>1, <3>1, <3>2
    <2>. QED
      BY <1>5, <1>7, <2>2
  <1>10. Weight(InFlight') = Weight(InFlight)'
    BY <1>1 DEF Weight
  <1>. QED
    BY <1>0, <1>4, <1>7, <1>8, <1>9, <1>10 DEF Counted, Ordinal

LEMMA StopCounted ==
  ASSUME QueueInv, StopWorkers
  PROVE  Counted'
  <1>0. Running /\ Once /\ queue \in Seq(Ordinal \cup {StopToken}) /\ next \in Nat /\ 0 < next
    BY NAssumption DEF QueueInv, BodyInv, IInv, TypeOK, StopWorkers, Counted, Running
  <1>1. queue' = queue \o StopTokens /\ UNCHANGED <<bytes, oversized, size, next, wstep, job>>
    BY DEF StopWorkers, threads
  <1>2. /\ \A k \in DOMAIN queue : k \in DOMAIN queue' /\ queue'[k] = queue[k]
        /\ \A k \in DOMAIN queue' \ DOMAIN queue : queue'[k] = StopToken
    <2>1. Cardinality(Worker) \in Nat
      BY WorkerAssumption, FS_CardinalityType
    <2>2. /\ StopTokens \in Seq({StopToken}) /\ Len(StopTokens) = Cardinality(Worker)
          /\ \A k \in 1 .. Cardinality(Worker) : StopTokens[k] = StopToken
      BY <2>1 DEF StopTokens
    <2>. HIDE DEF StopTokens
    <2>. QED
      BY <1>0, <1>1, <2>1, <2>2
  <1>3. \A w \in Worker : wstep[w] \in Holding => job[w] # StopToken
    BY DEF QueueInv, BodyInv, IInv, Linked, Ordinal, StopToken
  <1>4. Once'
    BY <1>0, <1>1, <1>2, <1>3 DEF Once, StopToken
  <1>5. InFlight' = InFlight
    BY <1>1, <1>2 DEF InFlight, Ordinal, StopToken
  <1>. QED
    BY <1>0, <1>1, <1>4, <1>5, CountedFrame

LEMMA GetCounted ==
  ASSUME QueueInv, NEW w \in Worker, Get(w)
  PROVE  Counted'
  <1>0. /\ Running /\ Running' /\ Once /\ UNCHANGED <<bytes, oversized, size, next>>
        /\ queue \in Seq(Ordinal \cup {StopToken}) /\ queue # <<>> /\ wstep[w] = "get"
    BY WorkFrame DEF QueueInv, BodyInv, IInv, TypeOK, Get, Counted, Work
  <1>1. /\ queue' = Tail(queue) /\ Len(queue) \in Nat \ {0}
        /\ DOMAIN queue = 1 .. Len(queue) /\ DOMAIN queue' = 1 .. Len(queue) - 1
        /\ \A k \in DOMAIN queue' : k + 1 \in DOMAIN queue /\ queue'[k] = queue[k + 1]
    BY <1>0 DEF Get
  <1>2. \A k \in DOMAIN queue : k = 1 \/ (k - 1 \in DOMAIN queue' /\ queue'[k - 1] = queue[k])
    BY <1>1
  <1>3. /\ job'[w] = queue[1] /\ wstep'[w] = (IF queue[1] = StopToken THEN "exit" ELSE "encode")
        /\ \A v \in Worker \ {w} : job'[v] = job[v] /\ wstep'[v] = wstep[v]
    BY <1>0 DEF Get, WGoto, QueueInv, BodyInv, IInv, TypeOK
  <1>4. wstep[w] \notin Holding /\ (wstep'[w] \in Holding <=> queue[1] # StopToken)
    BY <1>0, <1>3 DEF Holding
  <1>5. \A k \in DOMAIN queue' : queue'[k] = queue[1] => queue[1] = StopToken
    BY <1>0, <1>1 DEF Once
  <1>6. 1 \in DOMAIN queue /\ queue[1] < next
    BY <1>0, <1>1 DEF Once
  <1>7. Once'
    <2>1. \A k, l \in DOMAIN queue' : queue'[k] = queue'[l] /\ queue'[k] # StopToken => k = l
      BY <1>0, <1>1 DEF Once
    <2>2. \A k \in DOMAIN queue' : queue'[k] < next'
      BY <1>0, <1>1 DEF Once
    <2>3. \A v \in Worker : wstep'[v] \in Holding =>
             job'[v] < next' /\ \A k \in DOMAIN queue' : queue'[k] # job'[v]
      BY <1>0, <1>1, <1>3, <1>4, <1>5, <1>6 DEF Once
    <2>4. \A v, u \in Worker : wstep'[v] \in Holding /\ wstep'[u] \in Holding /\ job'[v] = job'[u]
             => v = u
      BY <1>0, <1>3, <1>4, <1>6 DEF Once
    <2>. QED
      BY <2>1, <2>2, <2>3, <2>4 DEF Once
  <1>8. InFlight' = InFlight
    <2>1. ASSUME NEW i \in Ordinal
          PROVE  (\E k \in DOMAIN queue : queue[k] = i)
                 <=> (queue[1] = i \/ \E k \in DOMAIN queue' : queue'[k] = i)
      BY <1>1, <1>2, <1>6
    <2>2. ASSUME NEW i \in Ordinal
          PROVE  (\E v \in Worker : wstep'[v] \in Holding /\ job'[v] = i)
                 <=> (queue[1] = i \/ \E v \in Worker : wstep[v] \in Holding /\ job[v] = i)
      <3>1. i # StopToken
        BY NAssumption DEF Ordinal, StopToken
      <3>. QED
        BY <3>1, <1>3, <1>4
    <2>3. ASSUME NEW i \in Ordinal PROVE i \in InFlight' <=> i \in InFlight
      BY <2>1, <2>2 DEF InFlight
    <2>4. InFlight \subseteq Ordinal /\ InFlight' \subseteq Ordinal
      BY DEF InFlight
    <2>. QED
      BY <2>3, <2>4
  <1>. QED
    BY <1>0, <1>7, <1>8, CountedFrame

LEMMA ReleaseCounted ==
  ASSUME QueueInv, NEW w \in Worker, Release(w)
  PROVE  Counted'
  <1>0. /\ TypeOK /\ Running /\ Running' /\ Once /\ UNCHANGED <<size, next, queue, job>>
        /\ wstep[w] \in Holding /\ job[w] \in Ordinal /\ bytes = Weight(InFlight)
        /\ wstep'[w] \notin Holding /\ \A v \in Worker \ {w} : wstep'[v] = wstep[v]
    BY WorkFrame DEF QueueInv, BodyInv, IInv, TypeOK, Linked, Release, Counted, Work, WGoto, Holding
  <1>1. Once'
    BY <1>0 DEF Once
  <1>2. InFlight' = InFlight \ {job[w]} /\ job[w] \in InFlight
    BY <1>0 DEF InFlight, Once
  <1>3. InFlight \in SUBSET Ordinal
    BY DEF InFlight
  <1>4. bytes = size[job[w]] + Weight(InFlight') /\ size[job[w]] \in Nat \ {0}
        /\ Weight(InFlight') \in Nat
    <2>1. InFlight' \in SUBSET Ordinal
      BY <1>2, <1>3
    <2>2. Weight(InFlight) = size[job[w]] + Weight(InFlight \ {job[w]})
      BY <1>0, <1>2, <1>3, WeightFacts
    <2>3. size[job[w]] \in Nat \ {0} /\ Weight(InFlight') \in Nat
      BY <1>0, <2>1, WeightFacts
    <2>. QED
      BY <1>0, <1>2, <2>2, <2>3
  <1>5. bytes' = Weight(InFlight')
    BY <1>4 DEF Release, Lowered
  <1>6. /\ oversized' => oversized /\ bytes' # 0
        /\ ~oversized' => ~oversized \/ bytes' = 0
    BY DEF Release
  <1>7. ~oversized' => bytes' <= Limit
    BY <1>0, <1>4, <1>5, <1>6, LimitAssumption DEF QueueInv, Counted
  <1>8. ~oversized'
    <2>1. SUFFICES ASSUME oversized PROVE bytes' = 0
      BY <1>6
    <2>2. InFlight' = {}
      BY <1>0, <1>2, <2>1 DEF QueueInv, Counted
    <2>. QED
      BY <1>0, <1>5, <2>2, WeightFacts
  <1>9. Weight(InFlight') = Weight(InFlight)'
    BY <1>0 DEF Weight
  <1>. QED
    BY <1>1, <1>5, <1>7, <1>8, <1>9 DEF Counted

LEMMA WorkCounted ==
  ASSUME QueueInv, NEW w \in Worker, Work(w)
  PROVE  Counted'
  <1>1. CASE Get(w)
    BY <1>1, GetCounted
  <1>2. CASE Release(w)
    BY <1>2, ReleaseCounted
  <1>3. CASE \/ LockDigest(w) \/ BodyExists(w) \/ WriteTemporary(w) \/ PlaceBody(w)
             \/ StoreResult(w) \/ WorkRaises(w) \/ AppendError(w) \/ Fail(w)
    <2>1. /\ UNCHANGED <<queue, next, job, bytes, oversized, size>>
          /\ \/ wstep[w] \in Holding /\ wstep' = [wstep EXCEPT ![w] = "locked"]
             \/ wstep[w] \in Holding /\ wstep' = [wstep EXCEPT ![w] = "store"]
             \/ wstep[w] \in Holding /\ wstep' = [wstep EXCEPT ![w] = "writing"]
             \/ wstep[w] \in Holding /\ wstep' = [wstep EXCEPT ![w] = "release"]
             \/ wstep[w] \in Holding /\ wstep' = [wstep EXCEPT ![w] = "unwind"]
             \/ wstep[w] \notin Holding /\ wstep' = [wstep EXCEPT ![w] = "fail"]
             \/ wstep[w] \notin Holding /\ wstep' = [wstep EXCEPT ![w] = "exit"]
      BY <1>3 DEF LockDigest, BodyExists, WriteTemporary, PlaceBody, StoreResult, WorkRaises,
                  AppendError, Fail, WGoto, handoff, Holding
    <2>2. \A v \in Worker : wstep'[v] \in Holding <=> wstep[v] \in Holding
      BY <2>1 DEF Holding, QueueInv, BodyInv, IInv, TypeOK
    <2>. QED
      BY <2>1, <2>2, WorkFrame, CountedSame DEF QueueInv
  <1>. QED
    BY <1>1, <1>2, <1>3 DEF Work

LEMMA OtherCounted ==
  ASSUME QueueInv, Next, ~ \E w \in Worker : Work(w)
  PROVE  Counted'
  <1>1. CASE Admit
    BY <1>1, AdmitCounted
  <1>2. CASE StopWorkers
    BY <1>2, StopCounted
  <1>3. CASE \/ NextPayload \/ PayloadRaises \/ Wait \/ PutRaises \/ Join \/ RemoveStaging
             \/ RemovalFails \/ WriteMetadata \/ Promote \/ FinishRaises \/ Interrupt
    <2>1. Running /\ UNCHANGED <<queue, next, job, bytes, oversized, size, wstep>>
      BY <1>3 DEF NextPayload, PayloadRaises, Wait, PutRaises, Join, RemoveStaging, RemovalFails,
                  WriteMetadata, Promote, FinishRaises, Interrupt, handoff, threads, Running
    <2>. QED
      BY <2>1, CountedSame
  <1>4. CASE Refuse \/ Crash \/ Terminated
    <2>1. ~Running'
      BY <1>4 DEF Refuse, Crash, Terminated, Goto, Running, vars
    <2>. QED
      BY <2>1 DEF Counted
  <1>5. CASE Call
    <2>1. /\ queue' = <<>> /\ bytes' = 0 /\ ~oversized' /\ DOMAIN queue' = {}
          /\ \A w \in Worker : wstep'[w] \notin Holding
      BY <1>5 DEF Call, Holding
    <2>2. Once' /\ InFlight' = {}
      BY <2>1 DEF Once, InFlight
    <2>3. Weight(InFlight)' = 0
      BY <2>2, FS_EmptySet DEF Weight, Units
    <2>. QED
      BY <2>1, <2>2, <2>3, LimitAssumption DEF Counted
  <1>. QED
    BY <1>1, <1>2, <1>3, <1>4, <1>5 DEF Next, Producer

LEMMA QueueInductive == Spec => []QueueInv
  <1>1. Init => QueueInv
    BY InitBody DEF QueueInv, Counted, Init, Running
  <1>2. QueueInv /\ [Next]_vars => QueueInv'
    <2>. SUFFICES ASSUME QueueInv, [Next]_vars PROVE Counted'
      BY NextBody DEF QueueInv
    <2>1. CASE UNCHANGED vars
      <3>1. UNCHANGED <<queue, next, job, bytes, oversized, size, wstep>> /\ Running' = Running
        BY <2>1 DEF vars, handoff, threads, Running
      <3>2. CASE Running
        BY <3>1, <3>2, CountedSame
      <3>. QED
        BY <3>1, <3>2 DEF Counted
    <2>. QED
      BY <2>1, WorkCounted, OtherCounted
  <1>. QED
    BY <1>1, <1>2, PTL DEF Spec

\* The descriptors in flight fit the limit together, or one of them is alone, whatever
\* the order of admissions and releases and whatever workers fail between them.
THEOREM Bounded == Spec => []BytesBounded
  <1>1. QueueInv => BytesBounded
    <2>. SUFFICES ASSUME QueueInv, Running
                  PROVE  InFlightBytes <= Limit \/ Cardinality(InFlight) = 1
      BY DEF BytesBounded
    <2>1. TypeOK /\ InFlight \in SUBSET Ordinal
      BY DEF QueueInv, BodyInv, IInv, InFlight
    <2>2. InFlightBytes = Weight(InFlight)
      <3>1. IsFiniteSet(Ordinal)
        BY NAssumption, FS_Interval DEF Ordinal
      <3>2. size \in [Ordinal -> Nat]
        BY <2>1, SizesAssumption DEF TypeOK
      <3>. QED
        BY <2>1, <3>1, <3>2, SumIsCardinality DEF InFlightBytes, Weight
    <2>3. oversized => Cardinality(InFlight) = 1
      BY FS_Singleton DEF QueueInv, Counted
    <2>. QED
      BY <2>2, <2>3 DEF QueueInv, Counted
  <1>. QED
    BY <1>1, QueueInductive, PTL
=============================================================================
