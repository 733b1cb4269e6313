------------------------ MODULE CompactBodyPipeline ------------------------
(***************************************************************************)
(* write_compact_body_store_pipelined_from_compact                         *)
(* (builder/delivery/simple_compact_body.py): one producer hands payload   *)
(* descriptors to encoding threads through a queue bounded in bytes; the   *)
(* threads write each body once under its digest; the staging directory    *)
(* becomes the store by one rename when every payload has a result.        *)
(*                                                                         *)
(* The steps are those between which another thread can run: what the code *)
(* does under the queue's condition or under the digest lock is one step,  *)
(* file operations are steps of their own.  The payloads of a call, a body *)
(* and an estimated size each, are chosen in the initial state.            *)
(***************************************************************************)
EXTENDS Integers, Sequences, FiniteSets, FiniteSetsExt

CONSTANTS
    Worker,     \* encoding threads
    Body,       \* encoded compact bodies, named by their digest
    N,          \* number of payloads in a call
    Sizes,      \* estimated sizes of descriptors
    Limit,      \* byte limit of the queue
    MaxCalls,   \* bound: calls made for this destination
    MayCrash    \* TRUE: the process may be killed

ASSUME WorkerAssumption == IsFiniteSet(Worker) /\ Worker # {}
ASSUME NAssumption == N \in Nat
ASSUME SizesAssumption == Sizes \subseteq Nat \ {0}
ASSUME LimitAssumption == Limit \in Nat \ {0}
ASSUME MaxCallsAssumption == MaxCalls \in Nat
ASSUME MayCrashAssumption == MayCrash \in BOOLEAN
ASSUME BodyAssumption == Body \cap {"no body", "no store"} = {}

Ordinal == 1 .. N
NoBody  == "no body"    \* None in results
NoStore == <<"no store">>     \* no metadata row is this string
StopToken == 0          \* the None that ends a worker
NoJob   == 0
NoError == "none"
NoOne   == "nobody"     \* nobody holds digest_lock

ASSUME NoOneAssumption == NoOne \notin Worker

ProducerStep == {"idle", "next", "put", "waiting", "stop", "join", "remove", "metadata",
                 "promote", "returned", "raised", "refused", "dead"}
WorkerStep == {"get", "encode", "locked", "writing", "store", "release", "unwind",
               "append", "fail", "exit"}

VARIABLES
    payload,    \* payload[i]: the body payload i encodes to
    size,       \* size[i]: the estimated size of descriptor i
    root,       \* the rows of metadata.jsonl under the destination, or NoStore
    staging,    \* the staging directory: "absent", "open", "described" or, when its
                \* removal has failed, "left"
    bodies,     \* bodies under the staging or the published directory
    tmp,        \* workers whose temporary body file exists
    queue,      \* _items: ordinals and stop tokens
    bytes,      \* _bytes
    oversized,  \* _oversized
    failure,    \* _failure is set
    results,    \* results[i]: the row of payload i
    error,      \* the kind of first_error[0]
    step,       \* the producer's next step
    next,       \* the ordinal of the next descriptor
    wstep,      \* wstep[w]: the next step of worker w
    job,        \* job[w]: the ordinal w is working on
    lock,       \* the holder of digest_lock
    written,    \* sum of the workers' "written" metrics
    calls       \* calls made so far

disk     == <<root, staging, bodies, tmp>>
handoff  == <<queue, bytes, oversized, failure>>
outcomes == <<results, error>>
threads  == <<wstep, job, lock, written>>
vars     == <<payload, size, disk, handoff, outcomes, step, next, threads, calls>>

Init ==
    /\ payload \in [Ordinal -> Body]
    /\ size \in [Ordinal -> Sizes]
    /\ root = NoStore /\ staging = "absent" /\ bodies = {} /\ tmp = {}
    /\ queue = <<>> /\ bytes = 0 /\ oversized = FALSE /\ failure = FALSE
    /\ results = [i \in Ordinal |-> NoBody]
    /\ error = NoError
    /\ step = "idle" /\ next = 1
    /\ wstep = [w \in Worker |-> "exit"]
    /\ job = [w \in Worker |-> NoJob]
    /\ lock = NoOne /\ written = 0 /\ calls = 0

Running == step \notin {"idle", "returned", "raised", "refused", "dead"}

-----------------------------------------------------------------------------
(***************************************************************************)
(* The calling thread.                                                     *)
(***************************************************************************)
Goto(s) == step' = s

MayStart == root = NoStore /\ staging = "absent"

\* A new call finds no destination and no staging directory of that name.
Call ==
    /\ ~Running /\ calls < MaxCalls
    /\ MayStart
    /\ calls' = calls + 1
    /\ staging' = "open" /\ bodies' = {} /\ tmp' = {}
    /\ queue' = <<>> /\ bytes' = 0 /\ oversized' = FALSE /\ failure' = FALSE
    /\ results' = [i \in Ordinal |-> NoBody]
    /\ error' = NoError
    /\ Goto("next") /\ next' = 1
    /\ wstep' = [w \in Worker |-> "get"]
    /\ job' = [w \in Worker |-> NoJob]
    /\ lock' = NoOne /\ written' = 0
    /\ UNCHANGED <<payload, size, root>>

Refuse ==
    /\ ~Running /\ calls < MaxCalls
    /\ ~MayStart
    /\ calls' = calls + 1
    /\ Goto("refused")
    /\ UNCHANGED <<payload, size, disk, handoff, outcomes, next, threads>>

\* first_error keeps every error and the caller sees the first.
Noted(e) == IF error = NoError THEN e ELSE error

NextPayload ==
    /\ step = "next"
    /\ Goto(IF next <= N THEN "put" ELSE "stop")
    /\ UNCHANGED <<payload, size, disk, handoff, outcomes, next, threads, calls>>

PayloadRaises ==
    /\ step = "next"
    /\ error' = Noted("payload")
    /\ Goto("stop")
    /\ UNCHANGED <<payload, size, disk, handoff, results, next, threads, calls>>

\* The calling thread is interrupted while it adds to the queue or waits to.
Interrupt ==
    /\ step \in {"put", "waiting"}
    /\ error' = Noted("payload")
    /\ Goto("stop")
    /\ UNCHANGED <<payload, size, disk, handoff, results, next, threads, calls>>

\* Fault: the size of the new descriptor is not added before the comparison.
AdmissibleBelowLimit(s) == ~oversized /\ (bytes < Limit \/ bytes = 0)

\* The loop condition of put, and the break inside it for an oversized
\* descriptor that finds the queue empty.
Admissible(s) ==
    \/ ~oversized /\ bytes + s <= Limit
    \/ ~oversized /\ s > Limit /\ bytes = 0

Admit ==
    /\ step = "put"
    /\ Admissible(size[next])
    /\ bytes' = bytes + size[next]
    /\ oversized' = (size[next] > Limit)
    /\ queue' = Append(queue, next)
    /\ next' = next + 1
    /\ Goto("next")
    /\ UNCHANGED <<payload, size, disk, failure, outcomes, threads, calls>>

Wait ==
    /\ step = "put"
    /\ ~Admissible(size[next]) /\ ~failure
    /\ Goto("waiting")
    /\ UNCHANGED <<payload, size, disk, handoff, outcomes, next, threads, calls>>

PutRaises ==
    /\ step = "put"
    /\ ~Admissible(size[next]) /\ failure
    /\ error' = Noted("pipeline")
    /\ Goto("stop")
    /\ UNCHANGED <<payload, size, disk, handoff, results, next, threads, calls>>

StopTokens == [i \in 1 .. Cardinality(Worker) |-> StopToken]

StopWorkers ==
    /\ step = "stop"
    /\ queue' = queue \o StopTokens
    /\ Goto("join")
    /\ UNCHANGED <<payload, size, disk, bytes, oversized, failure, outcomes, next, threads, calls>>

\* Fault: only the rows are looked at, not the errors.
CompleteByResults == \A i \in Ordinal : i < next => results[i] # NoBody

Complete == error = NoError /\ \A i \in Ordinal : i < next => results[i] # NoBody

Join ==
    /\ step = "join"
    /\ \A w \in Worker : wstep[w] = "exit"
    /\ Goto(IF Complete THEN "metadata" ELSE "remove")
    /\ UNCHANGED <<payload, size, disk, handoff, outcomes, next, threads, calls>>

RemoveStaging ==
    /\ step = "remove"
    /\ staging' = "absent" /\ bodies' = {} /\ tmp' = {}
    /\ Goto("raised")
    /\ UNCHANGED <<payload, size, root, handoff, outcomes, next, threads, calls>>

\* rmtree(ignore_errors=True): what cannot be removed stays, and the first error
\* is raised all the same.
RemovalFails ==
    /\ step = "remove"
    /\ staging' = "left" /\ bodies' \in SUBSET bodies /\ tmp' \in SUBSET tmp
    /\ Goto("raised")
    /\ UNCHANGED <<payload, size, root, handoff, outcomes, next, threads, calls>>

WriteMetadata ==
    /\ step = "metadata"
    /\ staging' = "described"
    /\ Goto("promote")
    /\ UNCHANGED <<payload, size, root, bodies, tmp, handoff, outcomes, next, threads, calls>>

Promote ==
    /\ step = "promote"
    /\ root' = [i \in 1 .. next - 1 |-> results[i]]
    /\ staging' = "absent"
    /\ Goto("returned")
    /\ UNCHANGED <<payload, size, bodies, tmp, handoff, outcomes, next, threads, calls>>

\* An I/O error while the metadata is written or the directory renamed is
\* outside the try block: the staging directory stays.
FinishRaises ==
    /\ step \in {"metadata", "promote"}
    /\ Goto("raised")
    /\ UNCHANGED <<payload, size, disk, handoff, outcomes, next, threads, calls>>

-----------------------------------------------------------------------------
(***************************************************************************)
(* An encoding thread.                                                     *)
(***************************************************************************)
WGoto(w, s) == wstep' = [wstep EXCEPT ![w] = s]

Get(w) ==
    /\ wstep[w] = "get" /\ queue # <<>>
    /\ queue' = Tail(queue)
    /\ job' = [job EXCEPT ![w] = Head(queue)]
    /\ WGoto(w, IF Head(queue) = StopToken THEN "exit" ELSE "encode")
    /\ UNCHANGED <<payload, size, disk, bytes, oversized, failure, outcomes, step, next,
                   lock, written, calls>>

\* Fault: the look for the body and its write are not under the lock.
EnterWithoutLock(w) ==
    /\ wstep[w] = "encode"
    /\ WGoto(w, "locked")
    /\ UNCHANGED <<payload, size, disk, handoff, outcomes, step, next, job, lock, written, calls>>

LockDigest(w) ==
    /\ wstep[w] = "encode" /\ lock = NoOne
    /\ lock' = w
    /\ WGoto(w, "locked")
    /\ UNCHANGED <<payload, size, disk, handoff, outcomes, step, next, job, written, calls>>

BodyExists(w) ==
    /\ wstep[w] = "locked" /\ payload[job[w]] \in bodies
    /\ lock' = NoOne
    /\ WGoto(w, "store")
    /\ UNCHANGED <<payload, size, disk, handoff, outcomes, step, next, job, written, calls>>

WriteTemporary(w) ==
    /\ wstep[w] = "locked" /\ payload[job[w]] \notin bodies
    /\ tmp' = tmp \cup {w}
    /\ WGoto(w, "writing")
    /\ UNCHANGED <<payload, size, root, staging, bodies, handoff, outcomes, step, next,
                   job, lock, written, calls>>

\* Fault: the temporary file is copied and left behind.
CopyBody(w) ==
    /\ wstep[w] = "writing"
    /\ bodies' = bodies \cup {payload[job[w]]}
    /\ written' = written + 1
    /\ lock' = NoOne
    /\ WGoto(w, "store")
    /\ UNCHANGED <<payload, size, root, staging, tmp, handoff, outcomes, step, next, job, calls>>

PlaceBody(w) ==
    /\ wstep[w] = "writing"
    /\ bodies' = bodies \cup {payload[job[w]]}
    /\ tmp' = tmp \ {w}
    /\ written' = written + 1
    /\ lock' = NoOne
    /\ WGoto(w, "store")
    /\ UNCHANGED <<payload, size, root, staging, handoff, outcomes, step, next, job, calls>>

StoreResult(w) ==
    /\ wstep[w] = "store"
    /\ results' = [results EXCEPT ![job[w]] = payload[job[w]]]
    /\ WGoto(w, "release")
    /\ UNCHANGED <<payload, size, disk, handoff, error, step, next, job, lock, written, calls>>

\* Waiting for the copy, encoding, hashing or writing raises.
WorkRaises(w) ==
    /\ wstep[w] \in {"encode", "locked", "writing", "store"}
    /\ lock' = IF lock = w THEN NoOne ELSE lock
    /\ WGoto(w, "unwind")
    /\ UNCHANGED <<payload, size, disk, handoff, outcomes, step, next, job, written, calls>>

\* Fault: the producer is not woken.
NotifyNobody == UNCHANGED step

\* notify_all: only the producer waits on the condition.
Notify == step' = IF step = "waiting" THEN "put" ELSE step

Lowered(b, s) == IF b - s <= 0 THEN 0 ELSE b - s

\* Fault: the queue learns of the failure before the error is noted.
ReleaseAndFail(w) ==
    /\ wstep[w] \in {"release", "unwind"}
    /\ bytes' = Lowered(bytes, size[job[w]])
    /\ oversized' = (oversized /\ bytes' # 0)
    /\ failure' = (failure \/ wstep[w] = "unwind")
    /\ Notify
    /\ WGoto(w, IF wstep[w] = "release" THEN "get" ELSE "append")
    /\ UNCHANGED <<payload, size, disk, queue, outcomes, next, job, lock, written, calls>>

\* The finally block, after a result and after an exception alike.
Release(w) ==
    /\ wstep[w] \in {"release", "unwind"}
    /\ bytes' = Lowered(bytes, size[job[w]])
    /\ oversized' = (oversized /\ bytes' # 0)
    /\ Notify
    /\ WGoto(w, IF wstep[w] = "release" THEN "get" ELSE "append")
    /\ UNCHANGED <<payload, size, disk, queue, failure, outcomes, next, job, lock,
                   written, calls>>

AppendError(w) ==
    /\ wstep[w] = "append"
    /\ error' = Noted("worker")
    /\ WGoto(w, "fail")
    /\ UNCHANGED <<payload, size, disk, handoff, results, step, next, job, lock, written, calls>>

Fail(w) ==
    /\ wstep[w] = "fail"
    /\ failure' = TRUE
    /\ Notify
    /\ WGoto(w, "exit")
    /\ UNCHANGED <<payload, size, disk, queue, bytes, oversized, outcomes, next, job, lock,
                   written, calls>>

-----------------------------------------------------------------------------
(***************************************************************************)
(* The process.                                                            *)
(***************************************************************************)
\* The threads are daemons: all end with the process, the files stay.
Crash ==
    /\ MayCrash /\ Running
    /\ Goto("dead")
    /\ wstep' = [w \in Worker |-> "exit"]
    /\ lock' = NoOne
    /\ UNCHANGED <<payload, size, disk, handoff, outcomes, next, job, written, calls>>

Terminated == ~Running /\ calls = MaxCalls /\ UNCHANGED vars

Producer == \/ NextPayload \/ PayloadRaises \/ Admit \/ Wait \/ PutRaises
            \/ StopWorkers \/ Join \/ RemoveStaging \/ RemovalFails
            \/ WriteMetadata \/ Promote \/ FinishRaises

Work(w) == \/ Get(w) \/ LockDigest(w) \/ BodyExists(w) \/ WriteTemporary(w)
           \/ PlaceBody(w) \/ StoreResult(w) \/ WorkRaises(w)
           \/ Release(w) \/ AppendError(w) \/ Fail(w)

Next == Call \/ Refuse \/ Producer \/ (\E w \in Worker : Work(w))
        \/ Interrupt \/ Crash \/ Terminated

Spec == Init /\ [][Next]_vars

\* Every thread that can run is scheduled eventually; nothing obliges anyone to
\* call the function, to interrupt it or to kill the process.
Fairness == WF_vars(Producer) /\ \A w \in Worker : WF_vars(Work(w))
FairSpec == Spec /\ Fairness

-----------------------------------------------------------------------------
(***************************************************************************)
(* Properties.                                                             *)
(***************************************************************************)
\* The variables have their types.
TypeOK ==
    /\ payload \in [Ordinal -> Body]
    /\ size \in [Ordinal -> Sizes]
    /\ root = NoStore \/ root \in Seq(Body)
    /\ staging \in {"absent", "open", "described", "left"}
    /\ bodies \subseteq Body
    /\ tmp \subseteq Worker
    /\ queue \in Seq(Ordinal \cup {StopToken})
    /\ bytes \in Nat
    /\ oversized \in BOOLEAN /\ failure \in BOOLEAN
    /\ results \in [Ordinal -> Body \cup {NoBody}]
    /\ error \in {NoError, "payload", "pipeline", "worker"}
    /\ step \in ProducerStep
    /\ next \in 1 .. N + 1
    /\ wstep \in [Worker -> WorkerStep]
    /\ job \in [Worker -> Ordinal \cup {NoJob}]
    /\ lock \in Worker \cup {NoOne}
    /\ written \in Nat /\ calls \in Nat

\* The descriptors admitted to the queue and not yet released.
Holding == {"encode", "locked", "writing", "store", "release", "unwind"}
InFlight == {i \in Ordinal : \/ \E k \in DOMAIN queue : queue[k] = i
                             \/ \E w \in Worker : wstep[w] \in Holding /\ job[w] = i}

\* The descriptors in flight fit the limit together, or one of them is alone
\* (_ByteBoundedQueue), whatever the order of admissions and releases.
InFlightBytes == MapThenSumSet(LAMBDA i : size[i], InFlight)
BytesBounded == Running => InFlightBytes <= Limit \/ Cardinality(InFlight) = 1

\* The caller is told of the cause of a failure, never of the producer's
\* "compact body pipeline worker failed": a worker notes its error before it
\* wakes the producer.
CauseIsReported == error # "pipeline"

\* Every body is written once, whatever number of payloads encode to it.
BodiesWrittenOnce == Running => written = Cardinality(bodies)

\* A published store holds the body of every row and no temporary file, though
\* a call that fails leaves both behind until it removes its staging directory;
\* and a call that noted an error leaves nothing that would refuse the next one,
\* unless the removal itself failed, which the code ignores.
EndsClean ==
    /\ root # NoStore => tmp = {} /\ \A i \in DOMAIN root : root[i] \in bodies
    /\ step = "raised" /\ error # NoError => MayStart \/ staging = "left"

\* The caller's view: all rows in the order of the payloads at once, or nothing.
Outcome == IF Running THEN "running" ELSE step
Store == INSTANCE CompactBodyStore WITH store <- root, outcome <- Outcome
PublishesAllOrNothing == Store!Init /\ [][Store!Next]_(Store!vars)

\* The inductive invariant behind CauseIsReported and PublishesAllOrNothing: a
\* row is the body of its own payload, a failure is known to the queue only
\* after its error was noted, the producer comes to the end of the payloads or
\* has an error, and the store is published with every row.
Linked ==
    /\ step \in {"put", "waiting"} => next <= N
    /\ \A i \in Ordinal : results[i] \in {NoBody, payload[i]}
    /\ \A w \in Worker : wstep[w] \in Holding => job[w] \in Ordinal
    /\ \A w \in Worker : wstep[w] = "fail" => error # NoError
    /\ failure => error # NoError
    /\ error # "pipeline"
    /\ step \in {"stop", "join"} => error # NoError \/ next = N + 1
    /\ step \in {"metadata", "promote"} => next = N + 1 /\ results = payload
    /\ Running => root = NoStore

\* A call ends, whichever workers fail and wherever the producer waits.
CallEnds == Running ~> ~Running
=============================================================================
