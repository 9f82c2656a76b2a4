# TLA+ models of bitcoin-rs

This directory holds TLA+ models of the node in `src/`. It has three parts:

- TLC configurations that model-check the models on small instances;
- TLAPS proofs of the block store's invariants, of the miner's wake-up invariants, of crash recovery, and of
  the refinement of the block store by the two compositions that write it (`Miner`, `BlockSync`);
- `PROJECT.json`, which lists components, runs, mutants, the source map, findings, hazards and theorems.

## The system

A node is made of several threads that share two locked structures, the
block store (`Arc<Mutex<Blockchain>>`) and the mempool (`Arc<Mutex<Mempool>>`):

| part | source | what it does |
|---|---|---|
| block store | `blockchain/mod.rs` | `execute_block` validates a block against its parent's state; `commit_block` stores it, records height = parent + 1 and moves the tip on strictly greater height (first-seen wins ties); the store is sled (`database.rs`) |
| network workers | `network/worker.rs` | `num_worker` threads take peer messages from one channel: block inventory (`NewBlockHashes`, `GetBlocks`, `Blocks`), chain catch-up (`GetBlockchain`, `SendBlockchain`), transaction gossip, height handshake; a shared orphan buffer holds blocks whose parent is missing |
| miner | `miner/mod.rs` | a control FSM (`Paused`, `Run`, `MinedWait`, `ShutDown`) driven by a signal channel; each `Run` iteration reads the tip, selects mempool transactions, projects the state and searches nonces, polling the channel every 10000 nonces |
| mined-block sink | `miner/worker.rs` | receives mined blocks, broadcasts, commits, prunes the mempool, sends `Update` to the miner |
| admin API | `api/mod.rs` | `/miner/start`, `/miner/stop`, `/miner/update`, and reads and submissions |
| start-up | `main.rs` | opens the store, starts the threads, connects to known peers and asks each for its chain |
| data | `types/*.rs`, `wallet/` | blocks, signed transactions, Merkle tree, the account state trie, the wallet |

These parts interact in four ways:

- Both the network workers and the sink commit blocks.
- Both of them, and the API, send signals to the miner.
- The miner reads the tip that the others move.

## Modules

| module | models | state | actions |
|---|---|---|---|
| `Blockchain` | `blockchain/mod.rs` | `blocks` (hashes in the `blocks` tree), `height` (the `meta` heights, 0 when absent as `get_height` answers), `tip` | `CommitBlock(b)` on a block `ExecuteOk` accepts |
| `BlockSync` | `network/worker.rs` block handlers, with one peer | the store (`INSTANCE Blockchain`), `orphans`, the two channels `inbox` and `toPeer`, the peer's `announced`, and each worker's program point `wk[w]` | the peer's `PeerAnnounce`, `PeerGetBlocks` and `PeerGetBlockchain`; each worker's `RecvNewBlockHashes`, `RecvBlocks`, `CheckParent`, `AddOrphan`, `ExecBlock`, `DrainOrphans`, `RecvSendBlockchain` and `SyncBlock` |
| `StateTrie` | `types/state_trie.rs` | `root`, `stored` (the state nodes in the store), `accounts` (the account map the root should hold), `batches` | `ApplyBatch(U)`: one block's `insert_batch` of the update map `U` in any HashMap iteration order; `Init` is the genesis `insert` of the god account |
| `Execution` | `miner/mod.rs` template assembly, `execute_block`'s transaction checks, `types/mempool.rs`, `/transaction/submit`, the wallet's `transfer` (`main.rs`, `wallet/wallet.rs`) | `state` (the accounts at the tip), `pool` (the mempool), `included` (history: mined transactions), `height` | `Submit(t)`, `WalletTransfer`, `Mine(p)` for every order `p` the sort can leave the mempool in |
| `StoreCrash` | `commit_block` and `Blockchain::new` over sled (`database.rs`) | what the process reads (`blocks`, `nodes`, `height`, `tip`), what is on disk (`dblocks`, `dnodes`, `dheight`, `dtip`), `log` (the unflushed writes), `crashes` | `ExecuteAndCommit(b)` (four writes in program order), `Flush` (the oldest write becomes durable), `CrashRestart` (unflushed writes lost; `new` restores the tip from disk) |
| `Merkle` | `MerkleTree::new` and `root` (`types/merkle.rs`) | none: pure operators | `MerkleRoot(data)`, built level by level as the `while` loop does |
| `Ledger` | the spec's account rules (4.G), not code | `balance`, `nonce`, `mined` | `AppendBlock`: a block's new transactions applied in some order, each with its sender's nonce and paid for, then the reward and fees to the miner |
| `DurableStore` | the spec's recovery contract (9), not code | `saved` (blocks whose block and state are durable), `savedTip` | `Save` (more becomes durable, nothing is lost), `MoveTip` (only to a saved block) |
| `Miner` | `miner/mod.rs`, `miner/worker.rs`, the miner endpoints of `api/mod.rs`, and the network worker's `miner.update()` | the store, `ctrl` (the signal queue), `mstate`, `mpc` and `tmpl` (loop point and template parent), `finished` (the sink channel), `spc` and `sblk` (the sink), and `npc` (the network worker) | `ApiCall`, `RecvPaused`, `RecvMinedWait`, `Iterate`, `Found`, `Interrupt`, `SinkRecv`, `SinkCommit`, `SinkNotify`, `NetCommit` and `NetNotify` |

Blocks are identified by hash, so a block's parent never changes. Each model
therefore takes the blocks a run can meet as a fixed tree: the constants
`Block`, `Genesis` and `Parent`. Execution's content checks depend only on the
block and on its parent's state, so the blocks that pass them are a constant
set, `Valid`.

Each action is one critical section or one step between blocking points of
the code:

- **BlockSync.** A worker's handler for `Blocks` is split at every lock
  release. The split points are:
  - the parent check;
  - buffering an orphan;
  - execution, which is outside the lock, together with the commit;
  - draining the orphans.

  The filter loops of `NewBlockHashes` (keep the hashes not stored) and
  `GetBlocks` (keep the hashes the peer stores) are one operator, `Filter`, a
  recursive function over the list. It computes what the standard `SelectSeq`
  does; it is written out because `SelectSeq` is a built-in the provers cannot
  expand. `LongestChainTo`, the chain the peer sends for `GetBlockchain`, is
  the ancestor walk of `all_blocks_in_longest_chain` down to genesis.
  `PeerChainAssumption` states what that walk yields: a non-empty sequence of
  the peer's blocks that starts with genesis. This follows by induction on
  `Depth` for an acyclic `Parent`. It is an assumption, not a theorem, because
  that induction is out of the provers' reach; TLC evaluates it on every run
  of `MC_BlockSync`.
- **Miner.** Its `Iterate` is `try_recv` together with the tip read. The
  `try_recv` touches only the miner's own end of the channel, so merging it
  with the tip read does not remove any interleaving that matters.

- **StateTrie.** A node is identified with its content: the model's hash is
  collision free, so `stored` is the set of nodes and a root is a node. The
  lazy store read of `insert_batch_recursive`, which answers `Empty` for a hash
  it cannot load, is kept (`Load`). The code's `get`, `insert`,
  `insert_batch` and `build_subtree_from_scratch` are recursive operators; the
  `Leaf` branch of `insert_recursive_on_data` is unreachable from `insert`
  (only `Empty` and `Branch` reach it) and is modelled but never taken. The
  program calls `insert` once, on the empty trie for genesis
  (`blockchain/mod.rs:64`); `Init` is that call, so the populated-trie paths
  of `insert_recursive` are modelled but never run, and no property compares
  them with `insert_batch`. The
  properties compare the trie with `Canon`, the one trie of a given account
  map.
- **Execution.** Balances are `Width`-bit numbers with the code's unchecked
  `+` and `*` taken modulo `2^Width`, as a release build computes them. The
  mempool is a set, since `insert` ignores a known hash. `select_transactions`
  returns the HashMap's order and `sort_by` is stable, so `Orders(pool)` is
  every sequence of the pool sorted by sender and nonce. `Mine(p)` is one
  whole iteration: selection, projection, coinbase, commit by the sink and
  prune. The thread interleavings around it are `Miner`'s. The template is
  compared with `ExecuteBlock`, the translation of `execute_block`'s fee sum,
  coinbase check, Merkle root check and per-transaction checks. The template
  carries the Merkle root `Block::new` computes.
- **Merkle.** SHA-256 is taken to be collision free. `hash_pair(l, r)` is the
  pair `<<l, r>>` and an item's hash is `<<item>>`, so two hashes are equal
  only when their inputs are. The odd-level rule is kept: a lone last hash is
  paired with itself. `proof` and `verify` are not modelled, because no code of
  the node calls them.
- **Refinements.** There are two abstract specifications of what a component
  promises. Each is written from the spec, and the detailed module is shown to
  implement it with `INSTANCE ... WITH`:
  - `Execution` implements `Ledger` (`LedgerRefined`). The mapping sends
    `balance` and `nonce` to the fields of `state`, and `mined` to `included`.
    `Ledger` uses unbounded integers and has no mempool or template.
  - `StoreCrash` implements `DurableStore` (`DurableRefined`). The mapping
    sends `saved` to `dblocks \cap dnodes`, and `savedTip` to `dtip`.

  Two compositions are also shown to implement `Blockchain` itself
  (`ChainRefined`, the identity mapping on `blocks`, `height` and `tip`):
  `Miner`, where the sink and the network worker both commit, and
  `BlockSync`, where several workers commit blocks of a possibly faulty peer.
  `Blockchain`'s next-state relation commits only blocks in its constant
  `Valid`, with `commit_block`'s early returns.
  - In `BlockSync`, `Valid` is what `execute_block` accepts: every handler
    commits only after `execute_block` returns `Ok`.
  - In `Miner`, the sink commits the block it mined without executing it
    (`miner/worker.rs:65`), and no mined block passes `execute_block`: its
    coinbase has value 0 (`miner/mod.rs:261`, the `execution_coinbase`
    finding). So `Miner` instantiates `Blockchain` as `Store`, whose accepted
    blocks are `Valid \cup MinedBlock`. `MC_Miner` makes every mined block
    invalid, as the code does. The refinement says that the network worker
    never stores a block `execute_block` rejects, that only this node's own
    blocks bypass it, and that every commit keeps `commit_block`'s height and
    tip rules. It does not say the store holds only valid blocks, because in
    this code it does not.

- **StoreCrash.** sled is assumed to give its strongest guarantee: the trees of
  one `Db` share one log, and a crash keeps a prefix of it. This is stronger
  than the spec's store contract, which promises no ordering across keyspaces
  (spec section 9). So every violation found here also happens under the
  weaker contract. The clean shutdown in `main.rs` flushes under the chain
  lock, between commits, so it never leaves a partial commit and is left out.

`PROJECT.json` `map` names the source lines of every definition.

## Runs

| run | question | result |
|---|---|---|
| `blockchain` | do heights equal depths and is the tip the highest block, in any commit order of a tree with 4 branches, ties and an invalid block with a child? | holds (183 states) |
| `blocksync` | with 2 workers, is every stored block with buffered orphans always requested, delivered or held by a worker (`OrphanRescued`)? Does every block the peer announces get stored, does no orphan whose parent is stored stay buffered, and do the workers change the store only as `Blockchain` allows? | holds (7924 states) |
| `blocksync_catchup` | does `SendBlockchain` store the peer's chain? | violated: the batch starts at genesis, which cannot execute |
| `miner` | does `MinedWait` always have a wake-up pending and is it always left, does a stale template always have an `Update` coming, and do the sink's and the network worker's commits implement `Blockchain` with the mined blocks, which `execute_block` rejects, as the only unexecuted ones? | holds (42558 states) |
| `miner_gate` | does `MinedWait` keep the miner off a parent whose mined block is uncommitted? | violated |
| `state_trie` | do two blocks of batch inserts, in every iteration order, read back the account map, give its one canonical root, and store every reachable node? | holds (136660 states) |
| `execution` | do the miner's selection and projection agree with `execute_block`'s checks for every mempool and order? Is no transaction mined twice, and is any other transaction list under a template's Merkle root refused? Does a block add exactly the reward to the supply, and do the node's blocks implement `Ledger`? | holds (6656 states) |
| `execution_coinbase` | does every mined block pass `execute_block`? | violated: the coinbase is built with the reward as `gas_price` and value 0 (`miner/mod.rs:261`) |
| `execution_wallet` | does a wallet transfer that the sender can pay for get mined? | violated: the wallet signs nonce + 1 (`wallet.rs:42`) and selection requires the state nonce |
| `store_crash` | after commits, flushes at every point and up to two crashes, is the restored tip a stored block with its state, and does the disk implement `DurableStore`? | holds (497 states) |
| `store_crash_heights` | does every stored block keep the height `commit_block` gave it across a crash? | violated: the height write can be lost after the block write, and `contains_block` never lets it be redone |
| `execution_overflow` | is money created only by the reward? | violated: `value + gas_price * gas_limit` wraps and passes the balance check |

### Bounds

- **Blockchain.** 11 blocks in four branches, so there are ties at every height.
- **BlockSync.** 4 blocks: a chain g–a1–a2 and an invalid x. 2 workers and one peer.
  - With 2 workers, a block and its parent can be handled concurrently, and the
    orphan race can happen.
  - Sync of a longer chain (5 blocks) exceeds the time budget.
- **Miner.** Blocks are paths over {m, n} of length at most 2: a mined or peer
  block at each height, and a fork at height 1. There are at most 3 admin calls
  and 2 peer deliveries. The peer block on the node's own mined block (m, n)
  fails `execute_block`, so the network worker's refusal path is taken.
  - At the bound the miner can no longer find a block, so a run ends with the
    miner searching. The code does the same, mining on.

- **StateTrie.** 3-bit addresses (8 accounts), 2 values, two blocks of up to
  3 updates each. This gives shared prefixes of every length, batches that
  split at every depth, and updates of the genesis account. Every order of a
  batch is tried.
- **Execution.** 3 addresses and 4-bit balances. The genesis supply of 12 plus
  3 rewards stays below 16, so in the `execution` run a wrap can only come from
  a transaction's own cost. The transactions include:
  - three nonces of one sender, so a block of three transactions has a
    Merkle level of odd length;
  - a competitor for nonce 0;
  - a spend of account 2 that needs the transfer it receives and more;
  - the wallet's transfer.

  The overflow run adds one transaction whose cost wraps, 15 + 1 * 3 = 2 mod 16.

- **StoreCrash.** A chain g–a1–a2 and a fork b1, so a commit can either move
  the tip or not, and at most 2 crashes. The flush is interleaved at every
  point, so each prefix of each commit's writes can be the one that survives.

### Fairness

Each thread is weakly fair. Only environment moves are not forced: admin
calls, peer announcements and peer deliveries.

- **Network workers and the sink.** These threads block only on an empty
  channel or on a lock held briefly by another thread.
- **Finding a block.** This is weakly fair because each nonce is an
  independent trial, so a search succeeds with probability one.
- **The peer.** It answers requests: `WF` of `PeerGetBlocks` and of
  `PeerGetBlockchain`.

Deadlock checking is off. The node idles on `recv` when nothing arrives, and
the block universe is finite, so a run really stops.

## Findings

Each finding is a violation run. `PROJECT.json` `findings` gives the source line of each.

- **Mined blocks are rejected by peers.** `miner/mod.rs:261` builds the coinbase
  with `Transaction::new(0, total_reward, 0, miner, 0, [])`. The parameters are
  `(nonce, gas_price, gas_limit, to, value, data)`, so the reward lands in
  `gas_price` and `value` is 0. `execute_block` checks `coinbase.value`, so every
  peer rejects every block this node mines. The node itself commits its blocks
  without executing them.
- **Wallet transfers are never mined.** `wallet.rs:42` signs `nonce + 1` of the
  nonce the CLI reads, while selection and `execute_block` require
  `tx.nonce == sender.nonce`. Spec scenario 2 (nonce 1 for god's first
  transaction) contradicts the spec's own rule 7a; the code follows rule 7a.
- **Money can be created.** `value + gas_price * gas_limit` is unchecked. A
  release build wraps, so a transaction whose cost wraps to a small number
  passes the balance check and credits its full value. A debug build panics
  instead, in the miner while it holds the mempool lock.
- **Heights are lost in a crash.** `commit_block` writes the block before its
  height, and a crash between the two leaves it stored with height 0.
  `contains_block` then makes its commit a no-op forever, so its descendants
  are one too low in the longest-chain comparison.
- **Catch-up never works.** A `SendBlockchain` batch starts at genesis, which
  never executes, and the handler aborts at the first failure.
- **The MinedWait gate does not hold.** A signal queued during the search
  releases `MinedWait` before the sink commits.

Two more were seen while modelling. They have no run, because each only
restates one missing line of code:

- **Orphans leak.** The failure path of the `Blocks` handler
  (`worker.rs:167`) drops the block. It leaves the orphans buffered under the
  block's hash, but spec 4.I says they are dropped too.
- **Stop can be ignored.** A `stop()` consumed in `MinedWait` is dropped, as
  the spec's table says. The sink's `Update` then restarts mining, though
  `/miner/stop` answered "Miner stopped".

One hazard turned out to be contained:

- **A block's transactions can be swapped under its hash.** The block hash
  covers the header and not the transactions. A level of odd length
  duplicates its last hash, so `<<a, b, c>>` and `<<a, b, c, c>>` have one
  Merkle root. `MalleatedRejected` shows that `execute_block` still refuses
  every such list. The property checks the per-transaction walk alone, and
  there the nonce check refuses it: the mutant without that check breaks
  it. The whole `execute_block` also refuses it on the fee sum against the
  coinbase and on the state root. A refused block is not remembered, so an honest copy
  that arrives later is still accepted.

## Proofs

`Blockchain_proofs` proves the following for every block tree, every parent
function and every set of valid blocks:

- `TypeCorrect`: `Spec => []TypeOK`.
- `HeightsConsistent`: `Spec => []HeightConsistent`.
- `TipLongest`: `Spec => []TipIsLongest`.

`HeightConsistent` is inductive together with `TypeOK`. `TipIsLongest` needs
`TypeOK` too: a commit that moves the tip stores a block higher than the old
tip, and every other stored block keeps its height. The proof has one step per
action and a stutter step, with a sub-step for each conjunct.

`Miner_proofs` proves the following for every block tree, every `MinedOn` and
every bound:

- `TypeCorrect`: `Spec => []TypeOK`.
- `MinedWaitWoken`: `Spec => []MinedWaitHasWaker`.
- `StaleTemplateNoticed`: `Spec => []FreshTemplate`.

Neither invariant is inductive alone. Both need `TypeOK` and `PowInRun`: the
nonce search runs only in `Run`. Without `PowInRun`, a step of `RecvPaused`
or `RecvMinedWait` during a search could consume the queued `Update` that
`FreshTemplate` counts on. The waker is restated over the set of queued
signals (`WakerOf`), and lemmas on `Append` and `Tail` of a queue carry it
through each send and receive. TLC checked the strengthened invariant on the
`miner` instance (73058 states) before it was proved.

`StoreCrash_proofs` proves `TipAlwaysRecoverable`: `Spec => []TipRecoverable`,
for every block tree and any number of crashes. The inductive invariant adds
three facts:

- the disk's tip names a block and a state on disk (`DiskTipOk`);
- every tip write in the log comes after the block write and the state-node
  write it names, or those are on disk (`LogOrdered`);
- `TypeOK`.

A commit appends its tip write last. A flush of a tip write at the head of the
log finds its block and state already on disk. A crash restores the disk's
tip. TLC checked the invariant on the `store_crash` instance before it was
proved. The mutant that writes the tip first breaks it.

The same module proves `DiskRefinesDurableStore`: `Spec => DurableRefined`.
Its proof has two steps:

- the initial disk is `DurableStore`'s initial state;
- under the invariant above, every step is a `DurableStore` step of the disk,
  or leaves the disk alone.

A flush of a block or state write is `Save`. A flush of a tip write is
`MoveTip`: `LogOrdered` puts the tip's block and state on disk already. A
commit or a crash leaves the disk unchanged. The temporal step combines these
with `[]IInv` by PTL.

`Miner_proofs` also proves `ChainRefinement`: `Spec => ChainRefined`, for
every block tree, every `MinedOn` and every bound, with no assumption that a
mined block is valid. The step argument needs an inductive invariant:
`UncommittedMined` says every block the miner has sent and the sink has not
yet committed is in `MinedBlock`. `Found` sends only `MinedOn[tmpl]`, and
`SinkRecv` moves the channel's head into `sblk`. TLC checked the invariant on
the `miner` instance before it was proved. With the invariant:

- `SinkCommit` commits a mined block, and `NetCommit` is guarded by
  `ExecuteOk`, so its block is in `Valid`. Each is a step of `Store`, or a
  stutter when the block is already stored (lemma `CommitCallRefines`);
- every other action leaves `blocks`, `height` and `tip` alone.

`BlockSync_proofs` proves the same theorem for `BlockSync` with no invariant.
`ExecBlock` and `SyncBlock` call `CommitCall` only under `Executes`, and every
other handler of the node and of the peer leaves the store alone. This holds
for any number of workers and for any peer, including one that sends invalid
blocks and orphans.

`BlockSync_proofs` also proves two results about the orphan buffer and the
workers, for every block tree, every peer chain and any number of workers:

- `OrphanAlwaysRescued`: `Spec => []OrphanRescued`. This is the lost wake-up
  race of the parent check. A worker may find the parent absent; another
  worker may then commit the parent and drain its orphans; only after that
  does the first worker buffer its block. The proof shows that the `GetBlocks`
  that `AddOrphan` sends for the parent closes the window: the parent is
  requested again, delivered again, and held by a worker until its drain.
- `SyncTypeCorrect`: `Spec => []TypeOK`.

`OrphanRescued` is not inductive: a step of one worker can depend on what the
channels and the other workers hold. The inductive invariant `RescueInv` adds:

- `MsgOK`: every message in either channel is one the handlers send. Its hash
  or block list has at most one peer block other than genesis. The only
  `SendBlockchain` is the peer's chain.
- `WorkerOK(w)`: what each program point of a worker holds.
  - Its list of blocks is such a list, and is non-empty from `orphan` on.
  - An orphan's parent is not genesis.
  - A syncing worker holds the peer's chain.
  - A draining worker's block is stored.
- `StoredOK`: genesis is stored, and every other stored block is valid with a
  stored parent. So a stored block with orphans executes again, and a failing
  `execute_block` is never on a block that others wait on.
- `orphans[Genesis] = {}`.

The proof has one lemma per action, and under it one step per conjunct. The
lemmas it rests on describe `Filter` on a list of at most one hash, `Append`
and `Tail` on a channel, and a field update of a worker's record. TLC checked
`RescueInv` as an invariant of the `blocksync` instance (7924 states) before
it was proved. The mutant that buffers an orphan without sending `GetBlocks`
breaks `OrphanRescued`.

`MsgOK`'s lists of at most one hash come from the model's peer. It announces
one block at a time, as a peer's miner does (`miner/worker.rs:62`), and the
node requests one hash for each orphan's parent. A relayed announcement of
several blocks (`network/worker.rs:177`, after a `Blocks` batch) is not in the
model. So the theorems hold for peers of this kind. `OrphanRescued` itself
is stated for lists of any length: `InHand` covers the blocks after the head.
The proof, however, uses the bound, both in the `Filter` lemma and in the
steps for the workers. For longer lists, `Filter` would need a proof by
induction over the list, which is out of the provers' reach.

Both modules then carry `Blockchain_proofs`' theorems to the composed system
through `INSTANCE Blockchain_proofs`. These are `NodeChainSafe` and
`SyncChainSafe`:

```
Spec => []HeightConsistent /\ []TipIsLongest
```

They are stated over the instance's definitions. In `Miner_proofs` the
instance substitutes `Valid \cup MinedBlock` for `Valid`, and the lemma
`StoreValidAssumption` shows that this set meets `Blockchain`'s assumption. `BlockSync` now states
`Blockchain`'s assumptions on its constants (`ChainAssumption`), which the
imported theorems rest on.

The following stay with TLC:

- liveness (`OrphansDrained`, `Propagated`, `MinerNeverStuck`). For
  `OrphansDrained` the proved `OrphanRescued` is the safety half: a rescue is
  always on the way. That it arrives needs the fairness of the workers and of
  the peer;
- everything that uses `ENABLED`;
- facts about recursive definitions for every input (`Depth`, `LongestChainTo`,
  the trie operators of `StateTrie`, which are `RECURSIVE`);
- the properties of `Execution`, `LedgerRefined` included: they are statements
  about folds over every sequence of transactions, which need induction over
  data;
- `MalleatedRejected`, which also needs the recursive `Top` of `Merkle`.

## Not modelled yet

- `MerkleTree::proof` and `verify`, which no code of the node calls.
  `verify` checks the index against `leaf_size` but not the proof's length
  against the tree's depth, so it also accepts an inner hash with a short
  proof;
- hashing, serialization and signatures. These are pure data: a transaction
  is a record, and its signature is valid;
- forks in `Execution`, where the node mines on its own tip. The sink prunes a
  block's transactions even when `commit_block` stores it off the longest
  chain (`miner/worker.rs:70`);
- transaction gossip.

`Exit` is never sent, because no code calls `Handle::exit`.
