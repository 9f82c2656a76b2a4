---------------------------- MODULE MC_Execution ----------------------------
(***************************************************************************)
(* Three addresses: 1 is the god account and the wallet's, 3 the miner's.  *)
(* Balances are 4-bit; the genesis supply plus the rewards of MaxBlocks    *)
(* blocks stays below 16, so only a transaction's own value + fee can     *)
(* wrap.                                                                   *)
(***************************************************************************)
EXTENDS Execution

MCInitState == [a \in {1, 2, 3} |->
                  [nonce |-> 0, balance |-> IF a = 1 THEN 12 ELSE 0]]

T(f, to, n, v, gp, gl) ==
    [from |-> f, to |-> to, nonce |-> n, value |-> v,
     gas_price |-> gp, gas_limit |-> gl]

(* Three transactions of account 1 in nonce order (a block of three has a *)
(* level of odd length), a competitor of the first, and a spend of        *)
(* account 2 that needs what 1 sends it and more.                         *)
MCTx == {T(1, 2, 0, 1, 1, 1), T(1, 2, 1, 2, 1, 1), T(1, 3, 2, 1, 1, 1),
         T(1, 3, 0, 3, 1, 2), T(2, 1, 0, 1, 1, 1)}

(* The same, and a transaction whose value + fee wraps: 15 + 1 * 3 = 2.    *)
MCTxOverflow == MCTx \cup {T(1, 2, 0, 15, 1, 3)}
====
