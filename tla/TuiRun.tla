------------------------------- MODULE TuiRun -------------------------------
(***************************************************************************)
(* The wizard (tui/app.py) and the subprocess transport it runs the        *)
(* canonical CLI through (tui/process.py).  The user's requests open       *)
(* confirmation screens; a confirmed run or packaging becomes a worker,    *)
(* and a new worker cancels the one before it.  A worker starts a child    *)
(* process and waits for its end or for the cancel event, and after an     *)
(* interrupt for its end or the force event.                               *)
(*                                                                         *)
(* Everything but the children runs on one event loop: an action is what   *)
(* happens between two awaits.  A worker's code up to its first await      *)
(* runs before the next request of the user.  The modal screens keep the   *)
(* buttons and bindings of the wizard away from the user; on_key still     *)
(* receives ctrl+c.                                                        *)
(*                                                                         *)
(* Names begin with Tui where ProductionRun, the run the wizard starts,    *)
(* has one like it: ProductionRunProofs extends both.                      *)
(***************************************************************************)
EXTENDS Naturals, Sequences

CONSTANTS
    MaxWorkers,     \* bound: workers started
    MaxScreens      \* bound: confirmation screens on top of each other

ASSUME TuiBounds == {MaxWorkers, MaxScreens} \subseteq Nat \ {0}

Worker == 1 .. MaxWorkers

VARIABLES
    running,        \* _running
    asked,          \* _cancel_requested
    holder,         \* the worker of _cancel_event and _force_event; 0 for None
    screens,        \* the confirmation screens, the top one last
    status,         \* what the status line says of the last run
    exited,         \* the wizard has been left
    started,        \* workers started; the last one is not cancelled
    kind,           \* kind[w]: "run" or "package"
    task,           \* task[w]: the await worker w is at
    cancelSet,      \* cancelSet[w]: its cancel event is set
    forceSet,       \* forceSet[w]: its force event is set
    child,          \* child[w]: its process
    code,           \* code[w]: how that process has ended
    packaged        \* history: a packaging has been confirmed

app     == <<running, asked, holder, screens, status, exited>>
workers == <<started, kind, task, cancelSet, forceSet>>
process == <<child, code>>
tuiVars == <<app, workers, process, packaged>>

Screen == {"run", "package", "cancel", "force", "quit"}
Await  == {"none", "start", "wait", "stop", "kill", "finally", "over"}
\* "ended": exited and not yet reaped; "reaped": the transport has not been told;
\* "known": the wait for the process returns.
Child  == {"none", "alive", "signalled", "killed", "ended", "reaped", "known"}
Alive  == {"alive", "signalled", "killed"}

TuiInit ==
    /\ running = FALSE /\ asked = FALSE /\ holder = 0
    /\ screens = <<>> /\ status = "none" /\ exited = FALSE
    /\ started = 0
    /\ kind = [w \in Worker |-> "run"] /\ task = [w \in Worker |-> "none"]
    /\ cancelSet = [w \in Worker |-> FALSE] /\ forceSet = [w \in Worker |-> FALSE]
    /\ child = [w \in Worker |-> "none"] /\ code = [w \in Worker |-> "none"]
    /\ packaged = FALSE

GoesTo(w, s) == task' = [task EXCEPT ![w] = s]

-----------------------------------------------------------------------------
(***************************************************************************)
(* Requests and confirmations.                                             *)
(***************************************************************************)
Push(s) ==
    /\ ~exited /\ Len(screens) < MaxScreens
    /\ screens' = Append(screens, s)
    /\ UNCHANGED <<running, asked, holder, status, exited, workers, process, packaged>>

Top(s) == ~exited /\ screens # <<>> /\ screens[Len(screens)] = s
Pop    == screens' = SubSeq(screens, 1, Len(screens) - 1)

\* Fault: a second run may be asked for while one is running.
RequestRunAnyway == screens = <<>> /\ Push("run")

RequestRun == screens = <<>> /\ ~running /\ Push("run")
RequestPackage == screens = <<>> /\ Push("package")
RequestCancel == running /\ Push(IF asked THEN "force" ELSE "cancel")
RequestQuit == screens = <<>> /\ ~running /\ Push("quit")

Decline ==
    /\ ~exited /\ screens # <<>>
    /\ Pop
    /\ UNCHANGED <<running, asked, holder, status, exited, workers, process, packaged>>

\* run_worker(..., exclusive=True); a worker before it is cancelled.
StartWorker(k) ==
    /\ started < MaxWorkers
    /\ started' = started + 1
    /\ kind' = [kind EXCEPT ![started + 1] = k]
    /\ GoesTo(started + 1, "start")
    /\ UNCHANGED <<cancelSet, forceSet>>

\* _run up to its first await.
ConfirmRun ==
    /\ Top("run") /\ Pop
    /\ StartWorker("run")
    /\ running' = TRUE /\ asked' = FALSE /\ holder' = started + 1
    /\ status' = "none"
    /\ UNCHANGED <<exited, process, packaged>>

ConfirmPackage ==
    /\ Top("package") /\ Pop
    /\ StartWorker("package")
    /\ packaged' = TRUE
    /\ UNCHANGED <<running, asked, holder, status, exited, process>>

ConfirmCancel ==
    /\ Top("cancel") /\ Pop
    /\ asked' = TRUE
    /\ cancelSet' = IF holder = 0 THEN cancelSet ELSE [cancelSet EXCEPT ![holder] = TRUE]
    /\ UNCHANGED <<running, holder, status, exited, started, kind, task, forceSet, process,
                   packaged>>

ConfirmForce ==
    /\ Top("force") /\ Pop
    /\ forceSet' = IF holder = 0 THEN forceSet ELSE [forceSet EXCEPT ![holder] = TRUE]
    /\ UNCHANGED <<running, asked, holder, status, exited, started, kind, task, cancelSet,
                   process, packaged>>

ConfirmQuit ==
    /\ Top("quit") /\ Pop
    /\ exited' = TRUE
    /\ UNCHANGED <<running, asked, holder, status, workers, process, packaged>>

User ==
    \/ RequestRun \/ RequestPackage \/ RequestCancel \/ RequestQuit \/ Decline
    \/ ConfirmRun \/ ConfirmPackage \/ ConfirmCancel \/ ConfirmForce \/ ConfirmQuit

-----------------------------------------------------------------------------
(***************************************************************************)
(* The child process.                                                      *)
(***************************************************************************)
\* It ends by itself, by the interrupt (which it may ignore) or by the kill.
ChildEnds(w) ==
    /\ child[w] \in Alive
    /\ child' = [child EXCEPT ![w] = "ended"]
    /\ code' \in {[code EXCEPT ![w] = c] : c \in IF child[w] = "killed" THEN {"killed"}
                                                 ELSE {"ok", "error"}}
    /\ UNCHANGED <<app, workers, packaged>>

ChildReaped(w) ==
    /\ child[w] = "ended"
    /\ child' = [child EXCEPT ![w] = "reaped"]
    /\ UNCHANGED <<app, workers, code, packaged>>

ChildKnown(w) ==
    /\ child[w] = "reaped"
    /\ child' = [child EXCEPT ![w] = "known"]
    /\ UNCHANGED <<app, workers, code, packaged>>

-----------------------------------------------------------------------------
(***************************************************************************)
(* The worker.                                                             *)
(***************************************************************************)
Cancelled(w) == w < started
\* The await of worker w returns, or it has none left behind it.
At(w, s) == ~exited /\ task[w] = s /\ ~Cancelled(w)

Says(w, s) == status' = IF kind[w] = "run" THEN s ELSE status
Finishes(w, s) ==
    /\ GoesTo(w, "finally") /\ Says(w, s)
    /\ UNCHANGED <<running, asked, holder, screens, exited, started, kind, cancelSet, forceSet,
                   packaged>>

Spawn(w) ==
    /\ At(w, "start")
    /\ child' = [child EXCEPT ![w] = "alive"]
    /\ GoesTo(w, "wait")
    /\ UNCHANGED <<app, started, kind, cancelSet, forceSet, code, packaged>>

\* The preflight or the start of the process raises.
SpawnFails(w) == At(w, "start") /\ Finishes(w, "failed") /\ UNCHANGED process

\* wait_task is done, whether or not the cancel event is set too.
WaitReturns(w) ==
    /\ At(w, "wait") /\ child[w] = "known"
    /\ Finishes(w, IF code[w] = "ok" THEN "completed" ELSE "failed")
    /\ UNCHANGED process

\* The process group gets SIGINT.
Interrupt(w) ==
    /\ At(w, "wait") /\ cancelSet[w] /\ child[w] \notin {"known", "reaped"}
    /\ child' = [child EXCEPT ![w] = IF @ = "alive" THEN "signalled" ELSE @]
    /\ GoesTo(w, "stop")
    /\ UNCHANGED <<app, started, kind, cancelSet, forceSet, code, packaged>>

\* killpg raises ProcessLookupError: there is no such group any more.
InterruptRaises(w) ==
    /\ At(w, "wait") /\ cancelSet[w] /\ child[w] = "reaped"
    /\ Finishes(w, "failed")
    /\ UNCHANGED process

StopReturns(w) ==
    /\ At(w, "stop") /\ child[w] = "known"
    /\ Finishes(w, "interrupted")
    /\ UNCHANGED process

\* Fault: the force-stop interrupts again.
ForceInterrupt(w) ==
    /\ At(w, "stop") /\ forceSet[w] /\ child[w] # "known"
    /\ GoesTo(w, "kill")
    /\ UNCHANGED <<app, started, kind, cancelSet, forceSet, process, packaged>>

ForceKill(w) ==
    /\ At(w, "stop") /\ forceSet[w] /\ child[w] # "known"
    /\ child' = [child EXCEPT ![w] = IF @ \in Alive THEN "killed" ELSE @]
    /\ GoesTo(w, "kill")
    /\ UNCHANGED <<app, started, kind, cancelSet, forceSet, code, packaged>>

\* Fault: the end of the killed process is not awaited.
KillReturnsAtOnce(w) ==
    /\ At(w, "kill")
    /\ Finishes(w, "forced")
    /\ UNCHANGED process

KillReturns(w) ==
    /\ At(w, "kill") /\ child[w] = "known"
    /\ Finishes(w, "forced")
    /\ UNCHANGED process

\* The finally of _run, after it has awaited its status task; _package has none.
Finally(w) ==
    /\ At(w, "finally")
    /\ GoesTo(w, "over")
    /\ IF kind[w] = "run" THEN running' = FALSE /\ holder' = 0
                          ELSE UNCHANGED <<running, holder>>
    /\ UNCHANGED <<asked, screens, status, exited, started, kind, cancelSet, forceSet, process,
                   packaged>>

\* CancelledError at an await of the worker: the process is left to itself.
CancelWorker(w) ==
    /\ ~exited /\ Cancelled(w) /\ task[w] \in {"start", "wait", "stop", "kill"}
    /\ GoesTo(w, "over")
    /\ IF kind[w] = "run" THEN running' = FALSE /\ holder' = 0
                          ELSE UNCHANGED <<running, holder>>
    /\ UNCHANGED <<asked, screens, status, exited, started, kind, cancelSet, forceSet, process,
                   packaged>>

\* CancelledError at the await inside the finally: what follows it is skipped.
CancelFinally(w) ==
    /\ ~exited /\ Cancelled(w) /\ task[w] = "finally"
    /\ GoesTo(w, "over")
    /\ UNCHANGED <<app, started, kind, cancelSet, forceSet, process, packaged>>

Loop(w) ==
    \/ Spawn(w) \/ SpawnFails(w) \/ WaitReturns(w) \/ Interrupt(w) \/ InterruptRaises(w)
    \/ StopReturns(w) \/ ForceKill(w) \/ KillReturns(w) \/ Finally(w)
    \/ CancelWorker(w) \/ CancelFinally(w)

TuiNext ==
    \/ User
    \/ \E w \in Worker : ChildEnds(w) \/ ChildReaped(w) \/ ChildKnown(w) \/ Loop(w)

TuiSpec == TuiInit /\ [][TuiNext]_tuiVars

\* The event loop goes on, a killed process ends and an ended one is reaped; one that
\* is only interrupted may go on for ever.
Dying(w) == (child[w] = "killed" /\ ChildEnds(w)) \/ ChildReaped(w) \/ ChildKnown(w)
TuiLiveSpec == TuiSpec /\ \A w \in Worker : WF_tuiVars(Loop(w)) /\ WF_tuiVars(Dying(w))

-----------------------------------------------------------------------------
TuiTypeOK ==
    /\ running \in BOOLEAN /\ asked \in BOOLEAN /\ exited \in BOOLEAN /\ packaged \in BOOLEAN
    /\ holder \in 0 .. MaxWorkers /\ started \in 0 .. MaxWorkers
    /\ screens \in Seq(Screen)
    /\ status \in {"none", "completed", "failed", "interrupted", "forced"}
    /\ kind \in [Worker -> {"run", "package"}] /\ task \in [Worker -> Await]
    /\ cancelSet \in [Worker -> BOOLEAN] /\ forceSet \in [Worker -> BOOLEAN]
    /\ child \in [Worker -> Child]
    /\ code \in [Worker -> {"none", "ok", "error", "killed"}]

\* As long as nothing has been packaged, at most one canonical CLI is alive, the
\* wizard knows of it, and it cannot be left while it is.  (A packaging, which may be
\* asked for during a run, cancels the worker of the run and not its process.)
CliIsKnown ==
    ~packaged => \A w \in Worker : child[w] \in Alive =>
        /\ running /\ ~exited
        /\ \A v \in Worker : child[v] \in Alive => v = w

\* What the status line says of a run is true of its process: it has ended, it has
\* ended well when the run is called completed, and it is called force-stopped only
\* if that was confirmed.
StatusIsTrue ==
    \A w \in Worker :
        status # "none" /\ w = started /\ ~packaged =>
            /\ child[w] \notin Alive
            /\ status = "completed" => code[w] = "ok"
            /\ status = "forced" => forceSet[w] /\ cancelSet[w]

\* A confirmed force-stop ends the worker of the run, whatever its process does with
\* the interrupt and whenever it ends by itself.
ForceEnds == \A w \in Worker : forceSet[w] ~> task[w] = "over"
=============================================================================
