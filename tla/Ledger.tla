------------------------------- MODULE Ledger -------------------------------
(***************************************************************************)
(* What the chain of blocks promises the accounts (spec 4.G): each block   *)
(* applies some new transactions, one after the other, each carrying its   *)
(* sender's nonce and paid for out of the sender's balance, and then       *)
(* credits the miner with the reward and the fees.  Balances here are      *)
(* mathematical integers and the ledger has no mempool, no template and no *)
(* order of its own: any order of a block's new transactions will do.      *)
(* Execution implements this specification.                                *)
(***************************************************************************)
EXTENDS Naturals, Sequences, SequencesExt, FiniteSets

CONSTANTS
    Addr,           \* addresses
    MinerAddr,      \* who the reward and the fees go to
    Reward,         \* BLOCK_REWARD
    InitBalance,    \* balances of the genesis state
    InitNonce       \* nonces of the genesis state

VARIABLES
    balance,    \* balance of every address
    nonce,      \* nonce of every address
    mined       \* the transactions of all blocks so far

vars == <<balance, nonce, mined>>

Fee(t) == t.gas_price * t.gas_limit
Cost(t) == t.value + Fee(t)

Init ==
    /\ balance = InitBalance
    /\ nonce = InitNonce
    /\ mined = {}

(* One transaction: refused unless it carries the sender's nonce and the  *)
(* sender can pay value + fee; the receiver gets the value.               *)
Transfer(r, t) ==
    IF r.ok /\ t.nonce = r.nonce[t.from] /\ r.bal[t.from] >= Cost(t)
      THEN [ok |-> TRUE,
            nonce |-> [r.nonce EXCEPT ![t.from] = @ + 1],
            bal |-> LET b1 == [r.bal EXCEPT ![t.from] = @ - Cost(t)]
                    IN  [b1 EXCEPT ![t.to] = @ + t.value]]
      ELSE [r EXCEPT !.ok = FALSE]

Run(txs) == FoldLeft(Transfer, [ok |-> TRUE, bal |-> balance, nonce |-> nonce], txs)

FeeSum(txs) == FoldLeft(LAMBDA f, t : f + Fee(t), 0, txs)

(* A block: the new transactions in some order that applies them all.      *)
AppendBlock ==
    /\ mined \subseteq mined'
    /\ \E txs \in SetToSeqs(mined' \ mined) :
         LET r == Run(txs) IN
         /\ r.ok
         /\ nonce' = r.nonce
         /\ balance' = [r.bal EXCEPT ![MinerAddr] = @ + Reward + FeeSum(txs)]

Next == AppendBlock

Spec == Init /\ [][Next]_vars

=============================================================================
