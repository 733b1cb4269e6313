--------------------------- MODULE V4Publication ---------------------------
(***************************************************************************)
(* publish_native_path_b_v4 (builder/production_stages/v4_publication.py)  *)
(* and the shard staging below it (builder/delivery/staging.py): the       *)
(* records of a finished build are sealed shard by shard in a durable      *)
(* staging directory beside the output, each shard renamed into place and  *)
(* then named by the receipt; a directory and an archive are built from    *)
(* the sealed shards and made public by two renames.                       *)
(*                                                                         *)
(* A source is the semantic identity of a build's records.  The actions    *)
(* take the mode of the run and the identity of the build it publishes.    *)
(* Nothing but the publication touches the staging directory.              *)
(***************************************************************************)
EXTENDS Naturals

CONSTANTS
    Source,         \* semantic identities a build may have
    Shards,         \* shards the records of a build fill
    None            \* no file

ASSUME SourceAssumption == Source # {} /\ None \notin Source /\ "broken" \notin Source \cup {None}
ASSUME ShardsAssumption == Shards \in Nat \ {0}

VARIABLES
    package,        \* the public directory; "broken" when a removal was interrupted
    archive,        \* the public archive
    receipt,        \* v4-shard-receipt.json: identity and number of sealed shards
    sealed,         \* sealed[i]: identity of the records in the i-th shard file
    complete,       \* v4-shard-transaction-complete.json exists
    packageTmp,     \* the candidate of the directory
    archiveTmp,     \* the candidate of the archive
    step            \* what the publication in progress does next

staging == <<receipt, sealed, complete>>
public  == <<package, archive>>
candidates == <<packageTmp, archiveTmp>>
v4vars  == <<public, staging, candidates, step>>

PublicationStep ==
    {"idle", "choose", "removeDirectory", "removeArchive", "prepare", "seal", "receipt",
     "markComplete", "materialize", "pack", "promoteDirectory", "promoteArchive",
     "published", "raised"}

NoReceipt == [of |-> None, count |-> 0]

V4Init ==
    /\ package = None /\ archive = None
    /\ receipt = NoReceipt
    /\ sealed = [i \in 1 .. Shards |-> None]
    /\ complete = FALSE
    /\ packageTmp = None /\ archiveTmp = None
    /\ step = "idle"

Raise == step' = "raised" /\ UNCHANGED <<public, staging, candidates>>

-----------------------------------------------------------------------------
(***************************************************************************)
(* The pair found.                                                         *)
(***************************************************************************)
Both == package # None /\ archive # None

\* resume: a pair that passes the Contract validator is returned as it is.
Found(mode) ==
    /\ step = "choose" /\ mode = "resume" /\ Both /\ package # "broken"
    /\ step' = "published"
    /\ UNCHANGED <<public, staging, candidates>>

\* An invalid pair on resume; an existing member when neither resuming nor overwriting.
ChooseRaises(mode) ==
    /\ step = "choose"
    /\ \/ mode = "resume" /\ Both /\ package = "broken"
       \/ mode = "fresh" /\ (package # None \/ archive # None)
    /\ Raise

\* Fault: a pair found by a resumption is removed as a partial one is.
ChooseAnyway(mode) ==
    /\ step = "choose"
    /\ mode = "fresh" => package = None /\ archive = None
    /\ step' = IF package # None \/ archive # None THEN "removeDirectory" ELSE "prepare"
    /\ UNCHANGED <<public, staging, candidates>>

Choose(mode) ==
    /\ step = "choose"
    /\ mode = "resume" => ~Both
    /\ mode = "fresh" => package = None /\ archive = None
    /\ step' = IF package # None \/ archive # None THEN "removeDirectory" ELSE "prepare"
    /\ UNCHANGED <<public, staging, candidates>>

RemoveDirectory ==
    /\ step = "removeDirectory"
    /\ package' = None
    /\ step' = "removeArchive"
    /\ UNCHANGED <<archive, staging, candidates>>

RemoveArchive ==
    /\ step = "removeArchive"
    /\ archive' = None
    /\ step' = "prepare"
    /\ UNCHANGED <<package, staging, candidates>>

-----------------------------------------------------------------------------
(***************************************************************************)
(* prepare_v4_shard_staging, seal_v4_shard, complete_v4_shard_staging.     *)
(***************************************************************************)
\* No receipt: an empty one is written, whatever shards are there.
PrepareNew(src) ==
    /\ step = "prepare" /\ receipt = NoReceipt
    /\ receipt' = [of |-> src, count |-> 0]
    /\ step' = "seal"
    /\ UNCHANGED <<public, sealed, complete, candidates>>

\* Fault: the receipt is reused whatever build it is of.
ReusableAlways(src) == receipt.of # None

\* The receipt is of this build, and the shards on disk are those it names.
Reusable(src) ==
    /\ receipt.of = src
    /\ \A i \in 1 .. Shards : IF i <= receipt.count THEN sealed[i] = src ELSE sealed[i] = None

Prepare(src) ==
    /\ step = "prepare" /\ receipt # NoReceipt /\ Reusable(src)
    /\ step' = "seal"
    /\ UNCHANGED <<public, staging, candidates>>

PrepareRaises(src) ==
    /\ step = "prepare" /\ receipt # NoReceipt /\ ~Reusable(src)
    /\ Raise

\* os.replace of the next shard
Seal(src) ==
    /\ step = "seal" /\ receipt.count < Shards
    /\ sealed[receipt.count + 1] = None /\ ~complete
    /\ sealed' = [sealed EXCEPT ![receipt.count + 1] = src]
    /\ step' = "receipt"
    /\ UNCHANGED <<public, receipt, complete, candidates>>

\* A shard without a receipt, or a transaction marked complete.
SealRaises ==
    /\ step = "seal" /\ receipt.count < Shards
    /\ sealed[receipt.count + 1] # None \/ complete
    /\ Raise

WriteReceipt ==
    /\ step = "receipt"
    /\ receipt' = [receipt EXCEPT !.count = @ + 1]
    /\ step' = "seal"
    /\ UNCHANGED <<public, sealed, complete, candidates>>

AllSealed ==
    /\ step = "seal" /\ receipt.count = Shards
    /\ step' = "markComplete"
    /\ UNCHANGED <<public, staging, candidates>>

MarkComplete ==
    /\ step = "markComplete"
    /\ complete' = TRUE
    /\ step' = "materialize"
    /\ UNCHANGED <<public, receipt, sealed, candidates>>

-----------------------------------------------------------------------------
(***************************************************************************)
(* Candidates and promotion.                                               *)
(***************************************************************************)
\* Earlier candidates go; the directory takes its records from the sealed shards.
Materialize ==
    /\ step = "materialize"
    /\ packageTmp' = sealed[1] /\ archiveTmp' = None
    /\ step' = "pack"
    /\ UNCHANGED <<public, staging>>

Pack ==
    /\ step = "pack"
    /\ archiveTmp' = packageTmp
    /\ step' = "promoteDirectory"
    /\ UNCHANGED <<public, staging, packageTmp>>

PromoteDirectory ==
    /\ step = "promoteDirectory"
    /\ package' = packageTmp /\ packageTmp' = None
    /\ step' = "promoteArchive"
    /\ UNCHANGED <<archive, staging, archiveTmp>>

PromoteArchive ==
    /\ step = "promoteArchive"
    /\ archive' = archiveTmp /\ archiveTmp' = None
    /\ step' = "published"
    /\ UNCHANGED <<package, staging, packageTmp>>

Publish(mode, src) ==
    \/ Found(mode) \/ ChooseRaises(mode) \/ Choose(mode)
    \/ RemoveDirectory \/ RemoveArchive
    \/ PrepareNew(src) \/ Prepare(src) \/ PrepareRaises(src)
    \/ Seal(src) \/ SealRaises \/ WriteReceipt \/ AllSealed \/ MarkComplete
    \/ Materialize \/ Pack \/ PromoteDirectory \/ PromoteArchive

\* The process stops: nothing is lost but what it remembers.  A directory being
\* removed, or a directory candidate being built, is left incomplete; the
\* candidate is removed by the next publication.
Stop == step' = "idle" /\ UNCHANGED <<public, staging, candidates>>

StopInRemoval ==
    /\ step = "removeDirectory" /\ package # None
    /\ package' = "broken"
    /\ step' = "idle"
    /\ UNCHANGED <<archive, staging, candidates>>

-----------------------------------------------------------------------------
V4TypeOK ==
    /\ package \in Source \cup {None, "broken"}
    /\ archive \in Source \cup {None}
    /\ receipt \in [of : Source \cup {None}, count : 0 .. Shards]
    /\ sealed \in [1 .. Shards -> Source \cup {None}]
    /\ complete \in BOOLEAN
    /\ packageTmp \in Source \cup {None} /\ archiveTmp \in Source \cup {None}
    /\ step \in PublicationStep

\* A public directory and a public archive are of one build, at every moment of a
\* publication and after a kill between its two renames.  (v4_publication.py:76-80:
\* "The durable shard receipt binds the pair".)
OnePair == package \in Source /\ archive # None => package = archive

\* The shards the receipt names are in place and of the receipt's build.
SealedIsBacked == \A i \in 1 .. receipt.count : sealed[i] = receipt.of /\ sealed[i] # None
=============================================================================
