------------------------------ MODULE Execution ------------------------------
(***************************************************************************)
(* Transactions and accounts: the miner's template assembly               *)
(* (src/miner/mod.rs, the Run iteration), execute_block's transaction and  *)
(* coinbase checks (src/blockchain/mod.rs), the mempool                    *)
(* (src/types/mempool.rs), transaction submission (src/api/mod.rs) and the *)
(* command-line wallet's transfer (src/main.rs, src/wallet/wallet.rs).     *)
(*                                                                         *)
(* The node mines on its own tip and every block it mines is committed;    *)
(* forks and the thread interleavings are the business of Blockchain and   *)
(* Miner.  The state is the account map at the tip; the state trie that    *)
(* holds it is StateTrie.  Balances are u64 in the code: here they are     *)
(* Width-bit integers with the same unchecked (wrapping) + and *, as a     *)
(* release build computes them.  A signed transaction is a record; its     *)
(* signature is valid (the API and the network worker drop the others).    *)
(***************************************************************************)
EXTENDS Naturals, Sequences, SequencesExt, FiniteSets, FiniteSetsExt, Merkle

CONSTANTS
    Addr,       \* addresses, numbered in byte-lexicographic order
    MinerAddr,  \* the miner's address
    InitState,  \* the accounts of the genesis state
    Reward,     \* BLOCK_REWARD
    Width,      \* bits of a balance (64 in the code)
    Tx,         \* signed transactions peers and API clients submit
    Client,     \* the command-line wallet's address
    Payee,      \* the address it transfers to
    Amount,     \* the amount it transfers
    MaxBlocks   \* bound on the blocks of a run

Modulus == 2 ^ Width

Account == [nonce : Nat, balance : 0..(Modulus - 1)]

ASSUME ExecutionAssumption ==
    /\ Addr \subseteq Nat /\ MinerAddr \in Addr
    /\ InitState \in [Addr -> Account]
    /\ Width \in Nat \ {0} /\ Reward \in 0..(Modulus - 1)
    /\ Client \in Addr /\ Payee \in Addr /\ Amount \in 0..(Modulus - 1)
    /\ MaxBlocks \in Nat

VARIABLES
    state,      \* the accounts at the tip
    pool,       \* the mempool: a set, insert ignores a known hash
    included,   \* history: the transactions of the committed blocks
    height      \* blocks mined so far

vars == <<state, pool, included, height>>

(* u64 arithmetic without overflow checks.                                 *)
Add(x, y) == (x + y) % Modulus
Mul(x, y) == (x * y) % Modulus

Fee(t) == Mul(t.gas_price, t.gas_limit)
Cost(t) == Add(t.value, Fee(t))

(***************************************************************************)
(* Wallet::create_signed_transaction(receiver, amount, 1, 10, nonce): the  *)
(* transaction nonce is the given nonce + 1.                               *)
(***************************************************************************)
WalletTx(n) == [from |-> Client, to |-> Payee, nonce |-> n + 1,
                value |-> Amount, gas_price |-> 1, gas_limit |-> 10]

TypeOK ==
    /\ state \in [Addr -> Account]
    /\ \A t \in pool : t \in Tx \/ t = WalletTx(t.nonce - 1)
    /\ height \in 0..MaxBlocks

Init ==
    /\ state = InitState
    /\ pool = {}
    /\ included = {}
    /\ height = 0

-----------------------------------------------------------------------------
(***************************************************************************)
(* Template assembly, mod.rs 196-275.                                      *)
(***************************************************************************)

(* sort_by's key order: by sender, then nonce.                            *)
KeyLeq(t, u) == t.from < u.from \/ (t.from = u.from /\ t.nonce <= u.nonce)

(* The orders sort_by can leave the mempool in: a stable sort keeps the    *)
(* HashMap's order of equal keys, which is any.  So any transaction of     *)
(* least key comes first, then an order of the rest.                       *)
RECURSIVE Orders(_)
Orders(P) ==
    IF P = {} THEN {<<>>}
    ELSE UNION {{<<t>> \o r : r \in Orders(P \ {t})} :
                t \in {t \in P : \A u \in P : KeyLeq(t, u)}}

(* The selection walk: include tx iff its nonce is the sender's running    *)
(* nonce and the running balance covers value + fee.                       *)
(* Mutants: the balance check without the fee; no nonce check.            *)
SelectStepNoFee(acc, t) ==
    IF t.nonce = acc.tmp[t.from].nonce /\ acc.tmp[t.from].balance >= t.value
      THEN [tmp |-> [acc.tmp EXCEPT ![t.from] =
                       [nonce |-> @.nonce + 1, balance |-> @.balance - Cost(t)]],
            txs |-> Append(acc.txs, t)]
      ELSE acc

SelectStepNoNonce(acc, t) ==
    IF acc.tmp[t.from].balance >= Cost(t)
      THEN [tmp |-> [acc.tmp EXCEPT ![t.from] =
                       [nonce |-> @.nonce + 1, balance |-> @.balance - Cost(t)]],
            txs |-> Append(acc.txs, t)]
      ELSE acc

SelectStep(acc, t) ==
    IF /\ t.nonce = acc.tmp[t.from].nonce
       /\ acc.tmp[t.from].balance >= Cost(t)
      THEN [tmp |-> [acc.tmp EXCEPT ![t.from] =
                       [nonce |-> @.nonce + 1, balance |-> @.balance - Cost(t)]],
            txs |-> Append(acc.txs, t)]
      ELSE acc

Select(st, p) == FoldLeft(SelectStep, [tmp |-> st, txs |-> <<>>], p).txs

(* The projected account updates and the fee total.                        *)
ProjectStep(acc, t) ==
    LET s1 == [acc.st EXCEPT ![t.from] =
                 [nonce |-> @.nonce + 1,
                  balance |-> (@.balance - Add(t.value, Fee(t))) % Modulus]]
    IN  [st |-> [s1 EXCEPT ![t.to].balance = Add(@, t.value)],
         fee |-> Add(acc.fee, Fee(t))]

(* The projection of the transactions alone, before the coinbase.          *)
Project(st, txs) == FoldLeft(ProjectStep, [st |-> st, fee |-> 0], txs)

(* The block: its transactions, the Merkle root Block::new computes over  *)
(* them (block.rs 56), its coinbase, and the state its state_root commits  *)
(* to.  The coinbase is Transaction::new(0, total_reward, 0, miner, 0,     *)
(* []): by new's parameter order (nonce, gas_price, gas_limit, to, value,  *)
(* data) the reward is its gas_price and its value is 0.  The miner's own  *)
(* account is credited total_reward all the same.                          *)
(* Mutant: the miner is credited BLOCK_REWARD without the fees.           *)
TemplateNoFee(st, p) ==
    LET txs == Select(st, p)
        r == Project(st, txs)
    IN  [txs |-> txs, merkle_root |-> MerkleRoot(txs),
         coinbase |-> [to |-> MinerAddr, gas_price |-> Add(Reward, r.fee), value |-> 0],
         post |-> [r.st EXCEPT ![MinerAddr].balance = Add(@, Reward)]]

Template(st, p) ==
    LET txs == Select(st, p)
        r == Project(st, txs)
        reward == Add(Reward, r.fee)
    IN  [txs |-> txs, merkle_root |-> MerkleRoot(txs),
         coinbase |-> [to |-> MinerAddr, gas_price |-> reward, value |-> 0],
         post |-> [r.st EXCEPT ![MinerAddr].balance = Add(@, reward)]]

(***************************************************************************)
(* execute_block's transaction checks, mod.rs 159-217: the coinbase must   *)
(* be BLOCK_REWARD + the fees; the header's Merkle root must be the root  *)
(* of the transactions (173-177); each transaction must carry its sender's *)
(* nonce and the sender must cover value + fee; the coinbase is credited   *)
(* last.  The result is ok, and the post-state when ok.                    *)
(* Mutant: the nonce check left out.                                       *)
ExecStepNoNonce(r, t) ==
    IF ~r.ok \/ r.st[t.from].balance < Cost(t)
      THEN [r EXCEPT !.ok = FALSE]
      ELSE LET s1 == [r.st EXCEPT ![t.from] = [nonce |-> @.nonce + 1,
                                               balance |-> @.balance - Cost(t)]]
           IN  [ok |-> TRUE, st |-> [s1 EXCEPT ![t.to].balance = Add(@, t.value)]]

(***************************************************************************)
ExecStep(r, t) ==
    IF \/ ~r.ok
       \/ t.nonce # r.st[t.from].nonce
       \/ r.st[t.from].balance < Cost(t)
      THEN [r EXCEPT !.ok = FALSE]
      ELSE LET s1 == [r.st EXCEPT ![t.from] = [nonce |-> @.nonce + 1,
                                               balance |-> @.balance - Cost(t)]]
           IN  [ok |-> TRUE, st |-> [s1 EXCEPT ![t.to].balance = Add(@, t.value)]]

ExecuteTxs(st, txs) == FoldLeft(ExecStep, [ok |-> TRUE, st |-> st], txs)

ExecuteBlock(st, b) ==
    LET fees == FoldLeft(LAMBDA f, t : Add(f, Fee(t)), 0, b.txs)
        r == ExecuteTxs(st, b.txs)
    IN  [ok |-> /\ b.coinbase.value = Add(Reward, fees)
                /\ b.merkle_root = MerkleRoot(b.txs)
                /\ r.ok,
         st |-> [r.st EXCEPT ![b.coinbase.to].balance = Add(@, b.coinbase.value)]]

-----------------------------------------------------------------------------
(***************************************************************************)
(* Mempool::insert from /transaction/submit or a Transactions message (the *)
(* signature verified): a known hash is ignored.                           *)
(***************************************************************************)
Submit(t) ==
    /\ pool' = pool \cup {t}
    /\ UNCHANGED <<state, included, height>>

(***************************************************************************)
(* The wallet's transfer command, main.rs 320-366: read the account over  *)
(* the API, refuse if the balance is below the amount, sign with the      *)
(* account's nonce, submit.                                                *)
(***************************************************************************)
WalletTransfer ==
    /\ state[Client].balance >= Amount
    /\ Submit(WalletTx(state[Client].nonce))

(***************************************************************************)
(* The miner assembles a template on the tip from the mempool, finds the  *)
(* nonce, and the sink commits the block and prunes its transactions from  *)
(* the mempool (miner/worker.rs 63-71).                                    *)
(***************************************************************************)
Mine(p) ==
    /\ height < MaxBlocks
    /\ LET b == Template(state, p) IN
         /\ state' = b.post
         /\ pool' = pool \ Range(b.txs)
         /\ included' = included \cup Range(b.txs)
    /\ height' = height + 1

Next ==
    \/ \E t \in Tx : Submit(t)
    \/ WalletTransfer
    \/ \E p \in Orders(pool) : Mine(p)

Spec == Init /\ [][Next]_vars

-----------------------------------------------------------------------------
(***************************************************************************)
(* Properties.                                                             *)
(***************************************************************************)

Supply(st) == MapThenSumSet(LAMBDA a : st[a].balance, Addr)

(***************************************************************************)
(* The miner's two walks over the mempool (the selection with temp_state  *)
(* and the projection into account_updates) agree with execute_block's    *)
(* walk: whatever the mempool holds, in any order the sort leaves, every  *)
(* selected transaction passes the nonce and balance checks of every node *)
(* and the state the header commits to is the state execution computes.   *)
(***************************************************************************)
TemplateTxsValid ==
    \A p \in Orders(pool) :
        LET txs == Select(state, p)
            r == ExecuteTxs(state, txs)
        IN  r.ok /\ r.st = Project(state, txs).st

(***************************************************************************)
(* No transaction is mined twice.  The sink prunes a mined transaction     *)
(* from the mempool, but a peer's Transactions message or the API can      *)
(* insert it again (insert checks only the mempool); only the nonce check  *)
(* in the selection keeps it out of the next template.                     *)
(***************************************************************************)
NoReplay ==
    \A p \in Orders(pool) : Range(Select(state, p)) \cap included = {}

(***************************************************************************)
(* Money is only created by the block reward: a mined block raises the    *)
(* sum of all balances by exactly BLOCK_REWARD (fees move from the         *)
(* senders to the miner).                                                  *)
(***************************************************************************)
SupplyConserved ==
    [][height' = height + 1 => Supply(state') = Supply(state) + Reward]_vars

(***************************************************************************)
(* Every block the miner assembles passes execute_block, as it must for   *)
(* the peers to accept it (spec: the coinbase value is BLOCK_REWARD plus   *)
(* the fees).                                                              *)
(***************************************************************************)
TemplateValid ==
    \A p \in Orders(pool) :
        LET b == Template(state, p)
            r == ExecuteBlock(state, b)
        IN  r.ok /\ r.st = b.post

(***************************************************************************)
(* A block's hash covers its header and not its transactions, so the      *)
(* Merkle root is all that binds them.  A level of odd length pairs its    *)
(* last hash with itself, so <<a, b, c>> and <<a, b, c, c>> have one root  *)
(* and a peer can relay a block the node mined, under its hash, with other *)
(* transactions.  Whatever list a peer puts under the header of a block    *)
(* the miner assembles, if it has the header's root and is not the block's *)
(* own list, execute_block's transaction checks refuse it.                 *)
(***************************************************************************)
MalleatedRejected ==
    \A p \in Orders(pool) :
        LET b == Template(state, p) IN
        \A l \in SeqOf(Range(b.txs), Len(b.txs) + 1) :
            (l # b.txs /\ MerkleRoot(l) = b.merkle_root)
                => ~ExecuteTxs(state, l).ok

(***************************************************************************)
(* The node's blocks implement the ledger of spec 4.G: every block the     *)
(* miner assembles and the sink commits moves the accounts as applying its *)
(* new transactions in some order would, with unbounded integers, and the  *)
(* mined history only grows; submissions leave the ledger alone.  This     *)
(* ties the miner's selection walk, its account_updates projection and the *)
(* mempool pruning of worker.rs to one abstract step.                      *)
(***************************************************************************)
L == INSTANCE Ledger
       WITH balance <- [a \in Addr |-> state[a].balance],
            nonce <- [a \in Addr |-> state[a].nonce],
            mined <- included,
            InitBalance <- [a \in Addr |-> InitState[a].balance],
            InitNonce <- [a \in Addr |-> InitState[a].nonce]

LedgerRefined == L!Spec

(***************************************************************************)
(* Spec scenario 2: a transfer the command-line wallet signs with the     *)
(* nonce it just read, alone in the mempool and paid for, goes into the    *)
(* next block.                                                             *)
(***************************************************************************)
WalletTransferMinable ==
    LET t == WalletTx(state[Client].nonce) IN
    (pool = {t} /\ state[Client].balance >= Cost(t))
        => \A p \in Orders(pool) : Select(state, p) = <<t>>

=============================================================================
