--------------------------- MODULE MC_StoreCrash ---------------------------
(***************************************************************************)
(* A chain g -- a1 -- a2 and a fork b1 of g, so that a commit may or may  *)
(* not move the tip.                                                       *)
(***************************************************************************)
EXTENDS StoreCrash

MCBlock == {"g", "a1", "a2", "b1"}
MCParent == [a1 |-> "g", a2 |-> "a1", b1 |-> "g"]
MCValid == MCBlock \ {"g"}
=============================================================================
