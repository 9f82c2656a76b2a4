--------------------------- MODULE MC_Blockchain ---------------------------
(***************************************************************************)
(* A block tree with four forks of lengths 3, 3, 3 and 1, so that ties    *)
(* arise at every height, and an invalid block with a valid child.        *)
(*                                                                         *)
(*        g -- a1 -- a2 -- a3                                              *)
(*        |\     \                                                         *)
(*        | \     x -- y        (x fails execute_block)                   *)
(*        |  b1 -- b2 -- b3                                                *)
(*        c1 -- c2 -- c3      and d1, a fourth child of g                  *)
(***************************************************************************)
EXTENDS Blockchain

MCBlock == {"g", "a1", "a2", "a3", "x", "y", "b1", "b2", "b3", "c1", "c2", "c3", "d1"}
MCParent == [a1 |-> "g", a2 |-> "a1", a3 |-> "a2", x |-> "a1", y |-> "x",
             b1 |-> "g", b2 |-> "b1", b3 |-> "b2", c1 |-> "g", c2 |-> "c1", c3 |-> "c2",
             d1 |-> "g"]
MCValid == MCBlock \ {"g", "x"}
=============================================================================
