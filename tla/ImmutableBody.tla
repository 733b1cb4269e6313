--------------------------- MODULE ImmutableBody ---------------------------
(***************************************************************************)
(* ImmutableBodyTransaction (builder/delivery/immutable_body.py): writers  *)
(* commit exemplars (a body shared by digest, a manifest of its own, an    *)
(* inventory entry, a package) into one root, leaving a receipt of every   *)
(* state they reach in a private journal; recover() reads the journals a   *)
(* crash has left and finishes, restarts or quarantines each transaction.  *)
(*                                                                         *)
(* A transaction is named by its manifest.  Files are written by linking a *)
(* complete temporary, so a file is absent or whole, and a file of one     *)
(* name has one content, packages excepted: a package holds the inventory  *)
(* it was built from.  A receipt stands for its binary file; the JSON      *)
(* mirror is regenerated from it by every reader.  Every file operation is *)
(* a step.  The process that performs one may be killed before the next.   *)
(***************************************************************************)
EXTENDS Integers, FiniteSets

CONSTANTS
    Proc,           \* processes that open the transaction root
    Tx,             \* transactions, one per exemplar manifest
    Body,           \* compact bodies, named by their digest
    BodyOf,         \* BodyOf[t]: the body the manifest of t refers to
    MaxCalls,       \* bound: calls of commit() and recover()
    MaxCrashes,     \* bound: processes killed
    MaxErrors,      \* bound: file operations that fail
    MaxLive         \* bound: processes working at the same time

ASSUME BodyOfAssumption == BodyOf \in [Tx -> Body]
ASSUME BoundsAssumption == {MaxCalls, MaxCrashes, MaxErrors, MaxLive} \subseteq Nat
ASSUME TxAssumption == Tx # {}
ASSUME ProcAssumption == IsFiniteSet(Proc)

\* JournalState
BodyGenerating == 1     BodyWritten == 2            BodyValidated == 3
BodyDigested == 4       BodyPromoted == 5           ManifestProvisional == 6
LinkageFinalized == 7   ManifestValidated == 8      ManifestPromoted == 9
InventoryCommitted == 10  PackageValidated == 11    Committed == 12
JournalState == BodyGenerating .. Committed

Operation == {"none", "commit", "recover", "resumeManifest", "resumeInventory"}
Step == {"idle", "reserve", "own", "mkdir", "receipt", "stageManifest", "stageBody",
         "validate", "linkBody", "linkManifest", "readInventory", "replaceInventory",
         "checkInventory", "openPackage", "package", "unstage", "release",
         "scan", "unlinkBody", "unlinkTmp", "unlinkTmpOwned", "unlock", "unlockOwned",
         "quarantine"}

VARIABLES
    bodies,         \* files under bodies/
    manifests,      \* files under manifests/, by transaction
    inventory,      \* members of inventory.json; no file when empty
    package,        \* package[t]: the inventory in t's package; {} when there is none
    lock,           \* lock[t]: "none", "empty" (not yet written) or "owned"
    journals,       \* journal directories
    receipts,       \* receipts[t]: states of the receipts in t's journal
    staged,         \* staged[t]: temporary copies in t's journal
    quarantined,    \* transactions with a .quarantine- directory
    proc,           \* proc[p]: what p does and the locals of its call
    calls, crashes, errors,
    beside          \* history, read by properties only: a recover() has been in
                    \* progress beside another call

public  == <<bodies, manifests, inventory, package>>
private == <<lock, journals, receipts, staged, quarantined>>
counts  == <<calls, crashes, errors, beside>>
vars    == <<public, private, proc, counts>>

\* op, step; tx: the transaction; next: the next receipt; seen: the inventory
\* last read; todo: the journals recover() has still to visit.
Idle == [op |-> "none", step |-> "idle", tx |-> CHOOSE t \in Tx : TRUE,
         next |-> BodyGenerating, seen |-> {}, todo |-> {}]

Init ==
    /\ bodies = {} /\ manifests = {} /\ inventory = {}
    /\ package = [t \in Tx |-> {}]
    /\ lock = [t \in Tx |-> "none"]
    /\ journals = {} /\ quarantined = {}
    /\ receipts = [t \in Tx |-> {}]
    /\ staged = [t \in Tx |-> {}]
    /\ proc = [p \in Proc |-> Idle]
    /\ calls = 0 /\ crashes = 0 /\ errors = 0 /\ beside = FALSE

Live == {p \in Proc : proc[p].step # "idle"}
At(p, s) == proc[p].step = s
Goto(p, s) == proc' = [proc EXCEPT ![p].step = s]

\* An exception in commit() reaches its finally; one while recover() resumes a
\* transaction is caught and the transaction is quarantined.
Raised(p) == IF proc[p].op = "commit" THEN "release" ELSE "quarantine"
Raise(p)  == Goto(p, Raised(p)) /\ UNCHANGED <<public, private, counts>>

MayStart(op) ==
    /\ calls < MaxCalls
    /\ Cardinality(Live) < MaxLive
    /\ beside' = (beside \/ (\E q \in Live : op = "recover" \/ proc[q].op # "commit"))

-----------------------------------------------------------------------------
(***************************************************************************)
(* commit(): reservation and journal.                                      *)
(***************************************************************************)
\* The preflight accepts the targets: a file of a name has one content.
Commit(p, t) ==
    /\ At(p, "idle") /\ MayStart("commit")
    /\ calls' = calls + 1
    /\ proc' = [proc EXCEPT ![p] = [Idle EXCEPT !.op = "commit", !.step = "reserve", !.tx = t]]
    /\ UNCHANGED <<public, private, crashes, errors>>

\* Fault: the lock file is opened without O_EXCL.
ReserveShared(p) ==
    LET t == proc[p].tx IN
    /\ At(p, "reserve")
    /\ lock' = [lock EXCEPT ![t] = "empty"]
    /\ Goto(p, "own")
    /\ UNCHANGED <<public, journals, receipts, staged, quarantined, counts>>

\* O_CREAT | O_EXCL: a reservation that exists refuses the call.
Reserve(p) ==
    LET t == proc[p].tx IN
    /\ At(p, "reserve")
    /\ IF lock[t] = "none"
       THEN /\ lock' = [lock EXCEPT ![t] = "empty"]
            /\ Goto(p, "own")
       ELSE /\ proc' = [proc EXCEPT ![p] = Idle]
            /\ UNCHANGED lock
    /\ UNCHANGED <<public, journals, receipts, staged, quarantined, counts>>

WriteOwner(p) ==
    LET t == proc[p].tx IN
    /\ At(p, "own")
    /\ lock' = [lock EXCEPT ![t] = IF @ = "empty" THEN "owned" ELSE @]
    /\ Goto(p, "mkdir")
    /\ UNCHANGED <<public, journals, receipts, staged, quarantined, counts>>

MakeJournal(p) ==
    /\ At(p, "mkdir")
    /\ journals' = journals \cup {proc[p].tx}
    /\ Goto(p, "receipt")
    /\ UNCHANGED <<public, lock, receipts, staged, quarantined, counts>>

-----------------------------------------------------------------------------
(***************************************************************************)
(* Receipts and staged copies.                                             *)
(***************************************************************************)
\* What commit() does after a receipt, and what the two resumptions do.
CommitThen(n) ==
    CASE n = BodyGenerating    -> "stageManifest"
      [] n = BodyWritten       -> "validate"
      [] n = BodyDigested      -> "linkBody"
      [] n = ManifestValidated -> "linkManifest"
      [] n = ManifestPromoted  -> "readInventory"
      [] n = Committed         -> "unstage"
      [] OTHER                 -> "receipt"

ResumeManifestThen(n) ==
    CASE n = ManifestPromoted -> "readInventory"
      [] n = Committed        -> "unstage"
      [] OTHER                -> "receipt"

ResumeInventoryThen(n) == IF n = Committed THEN "scan" ELSE "receipt"

\* Fault: the manifest is not staged before the body is published.
ThenUnstaged(op, n) ==
    CASE op = "commit" /\ n = BodyGenerating -> "stageBody"
      [] op = "commit" /\ n # BodyGenerating -> CommitThen(n)
      [] op = "resumeManifest"  -> ResumeManifestThen(n)
      [] op = "resumeInventory" -> ResumeInventoryThen(n)

\* Fault: the inventory is bound before the manifest is published.
ThenBoundFirst(op, n) ==
    CASE op = "commit" /\ n = ManifestValidated -> "readInventory"
      [] op = "commit" /\ n # ManifestValidated -> CommitThen(n)
      [] op = "resumeManifest"  -> ResumeManifestThen(n)
      [] op = "resumeInventory" -> ResumeInventoryThen(n)

Then(op, n) ==
    CASE op = "commit"          -> CommitThen(n)
      [] op = "resumeManifest"  -> ResumeManifestThen(n)
      [] op = "resumeInventory" -> ResumeInventoryThen(n)

\* A resumption reads the published body for each receipt it writes.
Writable(p) ==
    /\ proc[p].tx \in journals
    /\ proc[p].op # "commit" => BodyOf[proc[p].tx] \in bodies

Receipt(p) ==
    LET t == proc[p].tx
        n == proc[p].next
    IN  /\ At(p, "receipt") /\ Writable(p)
        /\ receipts' = [receipts EXCEPT ![t] = @ \cup {n}]
        /\ proc' = [proc EXCEPT ![p].step = Then(proc[p].op, n),
                                ![p].next = IF n < Committed THEN n + 1 ELSE n]
        /\ UNCHANGED <<public, lock, journals, staged, quarantined, counts>>

StageManifest(p) ==
    LET t == proc[p].tx IN
    /\ At(p, "stageManifest") /\ t \in journals
    /\ staged' = [staged EXCEPT ![t] = @ \cup {"manifest.tmp"}]
    /\ Goto(p, "stageBody")
    /\ UNCHANGED <<public, lock, journals, receipts, quarantined, counts>>

StageBody(p) ==
    LET t == proc[p].tx IN
    /\ At(p, "stageBody") /\ t \in journals
    /\ staged' = [staged EXCEPT ![t] = @ \cup {"body.tmp"}]
    /\ Goto(p, "receipt")
    /\ UNCHANGED <<public, lock, journals, receipts, quarantined, counts>>

ValidateBody(p) ==
    /\ At(p, "validate")
    /\ "body.tmp" \in staged[proc[p].tx]
    /\ Goto(p, "receipt")
    /\ UNCHANGED <<public, private, counts>>

-----------------------------------------------------------------------------
(***************************************************************************)
(* Publication.                                                            *)
(***************************************************************************)
LinkBody(p) ==
    /\ At(p, "linkBody")
    /\ bodies' = bodies \cup {BodyOf[proc[p].tx]}
    /\ Goto(p, "receipt")
    /\ UNCHANGED <<manifests, inventory, package, private, counts>>

\* A resumption takes the manifest from its staged copy and checks the body.
ManifestReadable(p) ==
    proc[p].op = "resumeManifest" =>
        /\ "manifest.tmp" \in staged[proc[p].tx]
        /\ BodyOf[proc[p].tx] \in bodies

LinkManifest(p) ==
    /\ At(p, "linkManifest") /\ ManifestReadable(p)
    /\ manifests' = manifests \cup {proc[p].tx}
    /\ Goto(p, "receipt")
    /\ UNCHANGED <<bodies, inventory, package, private, counts>>

\* Fault: the inventory is started afresh for every transaction.
ReadInventoryFresh(p) ==
    /\ At(p, "readInventory")
    /\ proc' = [proc EXCEPT ![p].step = "replaceInventory", ![p].seen = {proc[p].tx}]
    /\ UNCHANGED <<public, private, counts>>

ReadInventory(p) ==
    /\ At(p, "readInventory")
    /\ proc' = [proc EXCEPT ![p].step = "replaceInventory",
                            ![p].seen = inventory \cup {proc[p].tx}]
    /\ UNCHANGED <<public, private, counts>>

ReplaceInventory(p) ==
    /\ At(p, "replaceInventory")
    /\ inventory' = proc[p].seen
    /\ Goto(p, "checkInventory")
    /\ UNCHANGED <<bodies, manifests, package, private, counts>>

\* The inventory read back must be the one written.  The resumption of a
\* manifest goes on to its receipts and builds no package.
CheckInventory(p) ==
    /\ At(p, "checkInventory")
    /\ inventory = proc[p].seen
    /\ Goto(p, IF proc[p].op = "resumeManifest" THEN "receipt" ELSE "openPackage")
    /\ UNCHANGED <<public, private, counts>>

OpenPackage(p) ==
    /\ At(p, "openPackage")
    /\ proc' = [proc EXCEPT ![p].step = "package", ![p].seen = inventory]
    /\ UNCHANGED <<public, private, counts>>

\* Fault: a package of other bytes is overwritten.
PackableOver(t) == BodyOf[t] \in bodies /\ t \in manifests

\* A package of other bytes is never replaced; the files it holds must exist.
Packable(t) ==
    /\ BodyOf[t] \in bodies /\ t \in manifests
    /\ package[t] \in {{}, inventory}

\* The package is validated against the inventory read when it was opened.
BuildPackage(p) ==
    LET t == proc[p].tx IN
    /\ At(p, "package") /\ Packable(t)
    /\ package' = [package EXCEPT ![t] = inventory]
    /\ Goto(p, IF t \in proc[p].seen THEN "receipt" ELSE Raised(p))
    /\ UNCHANGED <<bodies, manifests, inventory, private, counts>>

\* A missing file, a changed inventory or an immutable resource conflict.
Conflict(p) ==
    /\ \/ At(p, "receipt") /\ ~Writable(p)
       \/ proc[p].step \in {"stageManifest", "stageBody"} /\ proc[p].tx \notin journals
       \/ At(p, "validate") /\ "body.tmp" \notin staged[proc[p].tx]
       \/ At(p, "linkManifest") /\ ~ManifestReadable(p)
       \/ At(p, "checkInventory") /\ inventory # proc[p].seen
       \/ At(p, "package") /\ ~Packable(proc[p].tx)
    /\ Raise(p)

\* A file operation of a call fails (a full disk, an I/O error).
Fallible == {"mkdir", "receipt", "stageManifest", "stageBody", "validate", "linkBody",
             "linkManifest", "readInventory", "replaceInventory", "checkInventory",
             "openPackage", "package"}
OperationFails(p) ==
    /\ proc[p].step \in Fallible /\ errors < MaxErrors
    /\ errors' = errors + 1
    /\ Goto(p, Raised(p))
    /\ UNCHANGED <<public, private, calls, crashes, beside>>

\* The owner is written before the try whose finally releases the reservation.
OwnerFails(p) ==
    /\ At(p, "own") /\ errors < MaxErrors
    /\ errors' = errors + 1
    /\ proc' = [proc EXCEPT ![p] = Idle]
    /\ UNCHANGED <<public, private, calls, crashes, beside>>

\* commit() removes both staged copies, a resumption its manifest.
Unstaged(op) ==
    IF op = "commit" THEN {"body.tmp", "manifest.tmp"} ELSE {"manifest.tmp"}

Unstage(p) ==
    LET t == proc[p].tx
        left == Unstaged(proc[p].op) \cap staged[t]
    IN  /\ At(p, "unstage")
        /\ IF left # {}
           THEN /\ \E f \in left : staged' = [staged EXCEPT ![t] = @ \ {f}]
                /\ UNCHANGED proc
           ELSE /\ Goto(p, IF proc[p].op = "commit" THEN "release" ELSE "scan")
                /\ UNCHANGED staged
        /\ UNCHANGED <<public, lock, journals, receipts, quarantined, counts>>

\* _release(owner=txid): the reservation goes if it names its owner.
Release(p) ==
    LET t == proc[p].tx IN
    /\ At(p, "release")
    /\ lock' = [lock EXCEPT ![t] = IF @ = "owned" THEN "none" ELSE @]
    /\ proc' = [proc EXCEPT ![p] = Idle]
    /\ UNCHANGED <<public, journals, receipts, staged, quarantined, counts>>

-----------------------------------------------------------------------------
(***************************************************************************)
(* recover(): one visit to every journal found when it starts.             *)
(***************************************************************************)
Recover(p) ==
    /\ At(p, "idle") /\ MayStart("recover")
    /\ calls' = calls + 1
    /\ proc' = [proc EXCEPT ![p] =
                  [Idle EXCEPT !.op = "recover", !.step = "scan", !.todo = journals]]
    /\ UNCHANGED <<public, private, crashes, errors>>

\* Fault: a chain that ends after the manifest is taken to be in the inventory.
ResumeStepUnbound(last) ==
    IF last < ManifestPromoted THEN "linkManifest" ELSE "receipt"

\* The first step of the resumption of a chain of receipts.
ResumeStep(last) ==
    IF last < ManifestPromoted THEN "linkManifest" ELSE "readInventory"

\* The first receipt of the resumption.  _resume_manifest writes none before
\* MANIFEST_PROMOTED, wherever the chain has ended.
ResumeFrom(last) == IF last < ManifestPromoted THEN ManifestPromoted ELSE last + 1

Last(t) == Cardinality(receipts[t])

\* The receipts are contiguous and the files they promise exist.
Valid(t) ==
    /\ receipts[t] = 1 .. Last(t)
    /\ Last(t) >= BodyPromoted => BodyOf[t] \in bodies
    /\ Last(t) >= ManifestPromoted => t \in manifests

InventoryReferencesBody(b) == \E u \in inventory : BodyOf[u] = b

\* A visit that does not resume the transaction keeps it only if this holds.
Kept(t) ==
    /\ Valid(t)
    /\ Last(t) = Committed => t \in inventory
    /\ Last(t) \in BodyPromoted .. Committed - 1 => ~InventoryReferencesBody(BodyOf[t])

\* A journal without receipts and a committed one release their own reservation,
\* one that is to be restarted releases whatever reservation there is.
Disposition(t) ==
    CASE ~Kept(t) -> "quarantine"
      [] Kept(t) /\ Last(t) \in {0, Committed} -> "unlinkTmpOwned"
      [] Kept(t) /\ Last(t) \in 1 .. BodyPromoted - 1 -> "unlinkTmp"
      [] Kept(t) /\ Last(t) \in BodyPromoted .. Committed - 1 -> "unlinkBody"

Resumable(t) ==
    /\ Valid(t) /\ Last(t) \in BodyPromoted .. Committed - 1
    /\ Last(t) = BodyPromoted => "manifest.tmp" \in staged[t]

Visit(p, t) ==
    /\ At(p, "scan") /\ t \in proc[p].todo \cap journals
    /\ ~Resumable(t)
    /\ proc' = [proc EXCEPT ![p].op = "recover", ![p].step = Disposition(t),
                            ![p].tx = t, ![p].todo = @ \ {t}]
    /\ UNCHANGED <<public, private, counts>>

Resume(p, t) ==
    /\ At(p, "scan") /\ t \in proc[p].todo \cap journals
    /\ Resumable(t)
    /\ proc' = [proc EXCEPT
                  ![p].op = IF Last(t) < ManifestPromoted
                            THEN "resumeManifest" ELSE "resumeInventory",
                  ![p].step = ResumeStep(Last(t)),
                  ![p].next = ResumeFrom(Last(t)),
                  ![p].tx = t, ![p].todo = @ \ {t}]
    /\ UNCHANGED <<public, private, counts>>

UnlinkBody(p) ==
    LET t == proc[p].tx IN
    /\ At(p, "unlinkBody")
    /\ bodies' = bodies \ {BodyOf[t]}
    /\ Goto(p, "unlock")
    /\ UNCHANGED <<manifests, inventory, package, private, counts>>

UnlinkTmp(p) ==
    LET t == proc[p].tx IN
    /\ proc[p].step \in {"unlinkTmp", "unlinkTmpOwned"}
    /\ IF staged[t] # {}
       THEN /\ \E f \in staged[t] : staged' = [staged EXCEPT ![t] = @ \ {f}]
            /\ UNCHANGED proc
       ELSE /\ Goto(p, IF At(p, "unlinkTmp") THEN "unlock" ELSE "unlockOwned")
            /\ UNCHANGED staged
    /\ UNCHANGED <<public, lock, journals, receipts, quarantined, counts>>

Unlock(p) ==
    LET t == proc[p].tx IN
    /\ proc[p].step \in {"unlock", "unlockOwned"}
    /\ lock' = [lock EXCEPT ![t] =
                  IF At(p, "unlockOwned") /\ @ = "empty" THEN "empty" ELSE "none"]
    /\ Goto(p, "scan")
    /\ UNCHANGED <<public, journals, receipts, staged, quarantined, counts>>

\* The journal moves to .quarantine- unless one is there.
Quarantine(p) ==
    LET t == proc[p].tx IN
    /\ At(p, "quarantine")
    /\ IF t \in quarantined \/ t \notin journals
       THEN UNCHANGED <<journals, receipts, staged, quarantined>>
       ELSE /\ journals' = journals \ {t}
            /\ receipts' = [receipts EXCEPT ![t] = {}]
            /\ staged' = [staged EXCEPT ![t] = {}]
            /\ quarantined' = quarantined \cup {t}
    /\ Goto(p, "scan")
    /\ UNCHANGED <<public, lock, counts>>

\* Every journal has been visited, or one of those found has gone.
RecoverEnds(p) ==
    /\ At(p, "scan")
    /\ proc[p].todo = {} \/ ~ (proc[p].todo \subseteq journals)
    /\ proc' = [proc EXCEPT ![p] = Idle]
    /\ UNCHANGED <<public, private, counts>>

-----------------------------------------------------------------------------
Crash(p) ==
    /\ p \in Live /\ crashes < MaxCrashes
    /\ crashes' = crashes + 1
    /\ proc' = [proc EXCEPT ![p] = Idle]
    /\ UNCHANGED <<public, private, calls, errors, beside>>

Terminated == Live = {} /\ calls = MaxCalls /\ UNCHANGED vars

Writing(p) ==
    \/ Reserve(p) \/ WriteOwner(p) \/ OwnerFails(p) \/ MakeJournal(p)
    \/ Receipt(p) \/ StageManifest(p) \/ StageBody(p) \/ ValidateBody(p)
    \/ LinkBody(p) \/ LinkManifest(p)
    \/ ReadInventory(p) \/ ReplaceInventory(p) \/ CheckInventory(p)
    \/ OpenPackage(p) \/ BuildPackage(p)
    \/ Conflict(p) \/ OperationFails(p) \/ Unstage(p) \/ Release(p)

Recovering(p) ==
    \/ \E t \in Tx : Visit(p, t) \/ Resume(p, t)
    \/ UnlinkBody(p) \/ UnlinkTmp(p) \/ Unlock(p) \/ Quarantine(p) \/ RecoverEnds(p)

Next ==
    \/ \E p \in Proc :
         \/ \E t \in Tx : Commit(p, t)
         \/ Recover(p) \/ Writing(p) \/ Recovering(p) \/ Crash(p)
    \/ Terminated

Spec == Init /\ [][Next]_vars

-----------------------------------------------------------------------------
(***************************************************************************)
(* Properties.                                                             *)
(***************************************************************************)
Call == [op : Operation, step : Step, tx : Tx, next : JournalState,
         seen : SUBSET Tx, todo : SUBSET Tx]

\* Every variable has its type: a process is at a step of an operation, receipts
\* are journal states, packages hold inventories.
TypeOK ==
    /\ bodies \subseteq Body /\ manifests \subseteq Tx /\ inventory \subseteq Tx
    /\ package \in [Tx -> SUBSET Tx]
    /\ lock \in [Tx -> {"none", "empty", "owned"}]
    /\ journals \subseteq Tx /\ quarantined \subseteq Tx
    /\ receipts \in [Tx -> SUBSET JournalState]
    /\ staged \in [Tx -> SUBSET {"body.tmp", "manifest.tmp"}]
    /\ proc \in [Proc -> Call]
    /\ calls \in 0 .. MaxCalls /\ crashes \in 0 .. MaxCrashes /\ errors \in 0 .. MaxErrors
    /\ beside \in BOOLEAN

InventoryBacked == \A t \in inventory : BodyOf[t] \in bodies /\ t \in manifests

\* The inventory, which consumers read, names only transactions whose body and
\* manifest are published, whatever was killed or recovered on the way, as long as
\* no recover() worked beside another call.
InventoryIsBacked == ~beside => InventoryBacked

\* The receipts recover() relies on are never ahead of the files: the body is
\* there from BODY_PROMOTED on, the manifest from MANIFEST_PROMOTED on, the
\* inventory entry from INVENTORY_COMMITTED on.
ReceiptsAreBacked ==
    \A t \in Tx :
        /\ BodyPromoted \in receipts[t] => BodyOf[t] \in bodies
        /\ ManifestPromoted \in receipts[t] => t \in manifests
        /\ InventoryCommitted \in receipts[t] => t \in inventory

\* What consumers can read stays: no step withdraws an inventory entry, or the body
\* and the manifest of one.
BoundStays ==
    [][/\ inventory \subseteq inventory'
       /\ \A t \in inventory : BodyOf[t] \in bodies' /\ t \in manifests']_vars

\* A package is never replaced, even when recover() finishes the transaction that
\* a writer is still in, or other exemplars enter the inventory later.
PackageIsImmutable ==
    [][\A t \in Tx : package[t] # {} => package'[t] = package[t]]_vars

\* A resumption has promoted the manifest over receipts it left out, of which
\* MANIFEST_VALIDATED is the last: no later visit accepts the chain.
Skipped(t) == ManifestPromoted \in receipts[t] /\ ManifestValidated \notin receipts[t]

\* recover() gives up a transaction that was only interrupted in two cases: its
\* package was built from an older inventory and cannot be built again, or an
\* earlier recover() had promoted its manifest already, from a chain that ended
\* at BODY_PROMOTED, MANIFEST_PROVISIONAL or LINKAGE_FINALIZED.  A failed file
\* operation of the resumption is the other way into quarantine.
QuarantineHasCause ==
    [][\A t \in quarantined' \ quarantined :
          \/ package[t] # {} /\ package[t] # inventory
          \/ Skipped(t)
          \/ errors > 0]_vars

(***************************************************************************)
(* The parts of the inductive invariants: what a process has done when it  *)
(* is at a step.                                                           *)
(***************************************************************************)
Doing ==
    \A p \in Proc :
        /\ proc[p].step \in {"reserve", "own", "mkdir", "stageManifest", "stageBody",
                             "validate", "linkBody", "release"}
              => proc[p].op = "commit"
        /\ proc[p].step \in {"receipt", "linkManifest", "readInventory", "replaceInventory",
                             "checkInventory", "openPackage", "package"}
              => proc[p].op \in {"commit", "resumeManifest", "resumeInventory"}

Alone == \A p, q \in Live : p = q

\* The next receipt of a process promises nothing that is not there.
ReadyAt(p) ==
    LET t == proc[p].tx
        n == proc[p].next
        at == proc[p].step
    IN  /\ at = "receipt" => /\ n >= BodyPromoted => BodyOf[t] \in bodies
                             /\ n >= ManifestPromoted => t \in manifests
                             /\ n >= InventoryCommitted => t \in inventory
        /\ at = "receipt" /\ proc[p].op = "resumeManifest"
              => n >= ManifestPromoted /\ t \in manifests
        /\ at = "receipt" /\ proc[p].op = "resumeInventory" => n >= InventoryCommitted
        /\ at \in {"reserve", "own", "mkdir"} => n = BodyGenerating
        /\ at \in {"stageManifest", "stageBody"} => n = BodyWritten
        /\ at = "validate" => n = BodyValidated
        /\ at = "linkBody" => n = BodyPromoted
        /\ at = "linkManifest" => n = ManifestPromoted
                                  /\ BodyOf[t] \in bodies
                                  /\ proc[p].op # "resumeInventory"
        /\ at \in {"readInventory", "replaceInventory", "checkInventory", "openPackage",
                    "package"}
              => n >= InventoryCommitted /\ BodyOf[t] \in bodies /\ t \in manifests
        /\ at \in {"replaceInventory", "checkInventory"}
              => proc[p].seen = inventory \cup {t}
        /\ at \in {"checkInventory", "openPackage", "package"} => t \in inventory

Ready == \A p \in Proc : ReadyAt(p)

\* A transaction between BODY_PROMOTED and COMMITTED has its manifest staged, and no
\* step of a process takes it away.
ManifestStaged ==
    \A t \in Tx : BodyPromoted \in receipts[t] /\ Committed \notin receipts[t]
                     => "manifest.tmp" \in staged[t]

RestartableAt(p) ==
    LET t == proc[p].tx
        at == proc[p].step
    IN  /\ \/ at \in {"stageBody", "validate", "linkBody"}
           \/ at = "receipt" /\ proc[p].next \in BodyWritten .. BodyPromoted
           => "manifest.tmp" \in staged[t]
        /\ at \in {"unlinkTmp", "unlinkTmpOwned"}
              => BodyPromoted \notin receipts[t] \/ Committed \in receipts[t]
        /\ at = "unstage" => Committed \in receipts[t]
        /\ at # "unlinkBody"

Restartable == ManifestStaged /\ \A p \in Proc : RestartableAt(p)

\* One commit() at a time works on a transaction: between its reservation and its
\* release no other call is inside the same transaction, as long as no recover()
\* released a reservation that is still in use.
Inside(p) == proc[p].op = "commit" /\ proc[p].step \notin {"idle", "reserve"}
OneWriter ==
    ~beside => \A p, q \in Proc :
                   Inside(p) /\ Inside(q) /\ p # q => proc[p].tx # proc[q].tx

\* A committed transaction is in the inventory ("race-resistant writer").
CommittedIsBound == \A t \in Tx : Committed \in receipts[t] => t \in inventory
=============================================================================
