------------------------- MODULE MCMultiGpuHarness -------------------------
(* TLC instances of MultiGpuHarness: three examples, settings that differ in  *)
(* shard size and devices.                                                    *)
EXTENDS MultiGpuHarness

CONSTANT corpus

Sizes == {[source |-> corpus, examples |-> 3, size |-> 2, devices |-> 2],
          [source |-> corpus, examples |-> 3, size |-> 3, devices |-> 1]}
=============================================================================
