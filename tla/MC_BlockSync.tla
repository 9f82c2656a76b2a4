--------------------------- MODULE MC_BlockSync ----------------------------
(***************************************************************************)
(* Two worker threads and a peer holding a chain of two blocks and a      *)
(* block x off the first that execute_block rejects.                       *)
(*                                                                         *)
(*        g -- a1 -- a2      (peer tip a2)                                 *)
(*               \                                                         *)
(*                x                                                        *)
(***************************************************************************)
EXTENDS BlockSync

MCBlock == {"g", "a1", "a2", "x"}
MCParent == [a1 |-> "g", a2 |-> "a1", x |-> "a1"]
MCValid == MCBlock \ {"g", "x"}
MCWorker == {"w1", "w2"}
=============================================================================
