-------------------------- MODULE CompactBodyStore --------------------------
(***************************************************************************)
(* What a caller of the compact body writer relies on                      *)
(* (builder/delivery/simple_compact_body.py): a call either publishes the  *)
(* complete store, its metadata rows in the order of the payloads, or      *)
(* raises and publishes nothing; a published store is not replaced.        *)
(***************************************************************************)
EXTENDS Sequences

CONSTANT Body       \* encoded compact bodies, named by their digest

VARIABLES
    payload,    \* the bodies the payloads of the call encode to, in order
    store,      \* the metadata rows of the published store, or NoStore
    outcome     \* where the latest call stands

vars == <<payload, store, outcome>>

NoStore == <<"no store">>     \* no metadata row is this string

Init == /\ payload \in Seq(Body)
        /\ store = NoStore
        /\ outcome = "idle"

Begin == /\ outcome # "running"
         /\ store = NoStore
         /\ outcome' = "running"
         /\ UNCHANGED <<payload, store>>

\* The destination, or what an interrupted call left beside it, exists already.
Refuse == /\ outcome # "running"
          /\ outcome' = "refused"
          /\ UNCHANGED <<payload, store>>

Publish == /\ outcome = "running"
           /\ store = NoStore
           /\ store' = payload
           /\ outcome' = "returned"
           /\ UNCHANGED payload

\* An error is raised, or the process ends.
Abandon == /\ outcome = "running"
           /\ outcome' \in {"raised", "dead"}
           /\ UNCHANGED <<payload, store>>

Next == Begin \/ Refuse \/ Publish \/ Abandon

Spec == Init /\ [][Next]_vars
=============================================================================
