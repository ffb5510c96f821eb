----------------------------- MODULE MCBlackbox -----------------------------
(***************************************************************************)
(* Scenarios for TLC: two short sessions with every fault, and a longer    *)
(* one without, in which chunks rotate and the quota has something to      *)
(* prune while close() waits.                                              *)
(***************************************************************************)
EXTENDS Blackbox

Sessions ==
    {[queue |-> 1, kinds |-> {"raw", "csv", "event"}, items |-> 2,
      rotations |-> 1, prunes |-> 1, hostile |-> TRUE],
     [queue |-> 2, kinds |-> {"raw"}, items |-> 3,
      rotations |-> 1, prunes |-> 1, hostile |-> TRUE],
     [queue |-> 1, kinds |-> {"raw", "csv"}, items |-> 4,
      rotations |-> 3, prunes |-> 1, hostile |-> FALSE]}
=============================================================================
