------------------------------ MODULE MC_Miner ------------------------------
(***************************************************************************)
(* A block is named by its path from genesis: "m" for a block this node    *)
(* mined, "n" for a peer block.  Chains of length at most MaxLen.          *)
(***************************************************************************)
EXTENDS Miner

MaxLen == 2

MCBlock == UNION {[1..k -> {"m", "n"}] : k \in 0..MaxLen}

MCGenesis == <<>>

MCParent == [b \in MCBlock \ {<<>>} |-> SubSeq(b, 1, Len(b) - 1)]

MCMinedOn == [p \in {b \in MCBlock : Len(b) < MaxLen} |-> Append(p, "m")]

MCNetBlock == {b \in MCBlock \ {<<>>} : b[Len(b)] = "n"}

(* Only peer blocks pass execute_block: a mined block's coinbase value is  *)
(* 0.  A peer block on a block this node mined is taken to fail too: a    *)
(* peer running this code never accepts that parent.                      *)
MCValid == MCNetBlock \ {<<"m", "n">>}
====
