------------------------------- MODULE Miner --------------------------------
(***************************************************************************)
(* The miner thread (src/miner/mod.rs), the mined-block sink thread        *)
(* (src/miner/worker.rs), and the two other senders of control signals:    *)
(* the admin API (src/api/mod.rs, /miner/start, /miner/stop,               *)
(* /miner/update) and the network worker, which commits peer blocks and    *)
(* fires miner.update() after each (src/network/worker.rs).                *)
(*                                                                         *)
(* The block store is the Blockchain module.  The miner's block on parent  *)
(* p is the constant MinedOn[p], defined on the parents a run may mine    *)
(* on (the bound on chain length); a peer block is a member of NetBlock.   *)
(* The lambda of Start(lambda) only sets the sleep between iterations and  *)
(* is left out; so are the template's transactions (see Execution).  Exit  *)
(* is never sent by any caller of Handle::exit, so it is left out too.     *)
(***************************************************************************)
EXTENDS Naturals, Sequences, FiniteSets

CONSTANTS
    Block, Genesis, Parent, Valid,
    MinedOn,    \* MinedOn[p]: the block the miner assembles on parent p
    NetBlock,   \* the peer blocks the network worker can receive
    MaxApi,     \* bound on the admin calls of a run
    MaxNet      \* bound on the peer-block deliveries of a run

ASSUME ChainAssumption ==
    /\ Genesis \in Block
    /\ Parent \in [Block \ {Genesis} -> Block]
    /\ Valid \subseteq Block \ {Genesis}
ASSUME MinedOnAssumption ==
    /\ DOMAIN MinedOn \subseteq Block
    /\ \A p \in DOMAIN MinedOn :
          MinedOn[p] \in Block \ {Genesis} /\ Parent[MinedOn[p]] = p
(* A peer may send any block; only execute_block tells the valid ones.    *)
ASSUME NetAssumption ==
    /\ NetBlock \subseteq Block \ {Genesis}
    /\ MaxApi \in Nat /\ MaxNet \in Nat

VARIABLES
    blocks, height, tip,   \* the block store (Blockchain)
    ctrl,       \* the control channel: a queue of signals
    mstate,     \* Context.operating_state: "Paused", "Run" or "MinedWait"
    mpc,        \* where the miner loop is: "top" or "pow" (nonce search)
    tmpl,       \* the parent of the block template in the nonce search
    finished,   \* the finished-block channel to the sink
    spc,        \* sink: "recv", "commit" (block in hand) or "notify"
    sblk,       \* the block the sink holds
    npc,        \* network worker: "idle" or "notify" (block committed)
    api,        \* admin calls made so far
    net         \* peer-block deliveries so far

chain == <<blocks, height, tip>>
vars == <<blocks, height, tip, ctrl, mstate, mpc, tmpl, finished, spc,
          sblk, npc, api, net>>

Chain == INSTANCE Blockchain

(***************************************************************************)
(* The blocks this node can mine.  None of them is in Valid: the template  *)
(* builds its coinbase with value 0 (miner/mod.rs 260-267) and             *)
(* execute_block requires BLOCK_REWARD + fees (blockchain/mod.rs 168-171). *)
(* The sink commits them without executing them, so the store of the       *)
(* whole node is a Blockchain store whose accepted blocks are the ones     *)
(* execute_block accepts and the ones this node mined.                     *)
(***************************************************************************)
MinedBlock == {MinedOn[p] : p \in DOMAIN MinedOn}

Store == INSTANCE Blockchain WITH Valid <- Valid \cup MinedBlock

Signal == {"Start", "Stop", "Update"}

Elems(s) == {s[i] : i \in DOMAIN s}

TypeOK ==
    /\ Chain!TypeOK
    /\ ctrl \in Seq(Signal)
    /\ mstate \in {"Paused", "Run", "MinedWait"}
    /\ mpc \in {"top", "pow"}
    /\ tmpl \in Block
    /\ finished \in Seq(Block)
    /\ spc \in {"recv", "commit", "notify"}
    /\ sblk \in Block
    /\ npc \in {"idle", "notify"}
    /\ api \in 0..MaxApi
    /\ net \in 0..MaxNet

(***************************************************************************)
(* miner::new: Paused, both channels empty; the sink waits on recv.        *)
(***************************************************************************)
Init ==
    /\ Chain!Init
    /\ ctrl = <<>>
    /\ mstate = "Paused"
    /\ mpc = "top"
    /\ tmpl = Genesis
    /\ finished = <<>>
    /\ spc = "recv"
    /\ sblk = Genesis
    /\ npc = "idle"
    /\ api = 0
    /\ net = 0

(***************************************************************************)
(* commit_block with its early returns (known block, missing parent).      *)
(***************************************************************************)
CommitCall(b) ==
    IF Chain!ContainsBlock(b) THEN UNCHANGED chain ELSE Chain!CommitBlock(b)

-----------------------------------------------------------------------------
(***************************************************************************)
(* Handle::start, stop and update called by the admin API.                 *)
(***************************************************************************)
ApiCall(s) ==
    /\ api < MaxApi
    /\ ctrl' = Append(ctrl, s)
    /\ api' = api + 1
    /\ UNCHANGED <<chain, mstate, mpc, tmpl, finished, spc, sblk, npc, net>>

(***************************************************************************)
(* Paused: a blocking recv; Start(i) moves to Run(i), Stop and Update are  *)
(* ignored (mod.rs 116-135).                                               *)
(***************************************************************************)
RecvPaused ==
    /\ mstate = "Paused"
    /\ ctrl # <<>>
    /\ mstate' = IF Head(ctrl) = "Start" THEN "Run" ELSE "Paused"
    /\ ctrl' = Tail(ctrl)
    /\ UNCHANGED <<chain, mpc, tmpl, finished, spc, sblk, npc, api, net>>

(***************************************************************************)
(* Mutant: MinedWait handles Update like Paused does (ignored).            *)
(***************************************************************************)
RecvMinedWaitOnlyStart ==
    /\ mstate = "MinedWait"
    /\ ctrl # <<>>
    /\ mstate' = IF Head(ctrl) = "Start" THEN "Run" ELSE "MinedWait"
    /\ ctrl' = Tail(ctrl)
    /\ UNCHANGED <<chain, mpc, tmpl, finished, spc, sblk, npc, api, net>>

(***************************************************************************)
(* MinedWait(lambda): a blocking recv; Start(i) and Update move to Run,    *)
(* Stop is ignored (mod.rs 140-153).                                       *)
(***************************************************************************)
RecvMinedWait ==
    /\ mstate = "MinedWait"
    /\ ctrl # <<>>
    /\ mstate' = IF Head(ctrl) = "Stop" THEN "MinedWait" ELSE "Run"
    /\ ctrl' = Tail(ctrl)
    /\ UNCHANGED <<chain, mpc, tmpl, finished, spc, sblk, npc, api, net>>

(***************************************************************************)
(* Mutant: a template that does not re-read the tip.                       *)
(***************************************************************************)
IterateStaleTip ==
    /\ mstate = "Run"
    /\ mpc = "top"
    /\ IF ctrl # <<>> /\ Head(ctrl) = "Stop"
         THEN /\ mstate' = "Paused"
              /\ UNCHANGED <<mpc, tmpl>>
         ELSE /\ mpc' = "pow"
              /\ UNCHANGED <<mstate, tmpl>>
    /\ ctrl' = IF ctrl = <<>> THEN ctrl ELSE Tail(ctrl)
    /\ UNCHANGED <<chain, finished, spc, sblk, npc, api, net>>

(***************************************************************************)
(* One iteration of the Run branch up to the nonce search: try_recv takes  *)
(* at most one signal (Stop: Paused and continue; Start, Update or none:   *)
(* stay in Run), then the tip is read under the chain lock and the         *)
(* template is assembled on it (mod.rs 155-286).  The mempool read and     *)
(* state projection touch nothing another thread reads.                    *)
(***************************************************************************)
Iterate ==
    /\ mstate = "Run"
    /\ mpc = "top"
    /\ IF ctrl # <<>> /\ Head(ctrl) = "Stop"
         THEN /\ mstate' = "Paused"
              /\ UNCHANGED <<mpc, tmpl>>
         ELSE /\ mpc' = "pow"
              /\ tmpl' = tip
              /\ UNCHANGED mstate
    /\ ctrl' = IF ctrl = <<>> THEN ctrl ELSE Tail(ctrl)
    /\ UNCHANGED <<chain, finished, spc, sblk, npc, api, net>>

(***************************************************************************)
(* The nonce search finds hash <= difficulty: the block is sent to the     *)
(* sink and Run(lambda) becomes MinedWait(lambda) (mod.rs 288-316).        *)
(***************************************************************************)
Found ==
    /\ mpc = "pow"
    /\ tmpl \in DOMAIN MinedOn
    /\ finished' = Append(finished, MinedOn[tmpl])
    /\ mpc' = "top"
    /\ mstate' = "MinedWait"
    /\ UNCHANGED <<chain, ctrl, tmpl, spc, sblk, npc, api, net>>

(***************************************************************************)
(* The 10000-nonce poll sees a pending signal and leaves the search        *)
(* without a block (mod.rs 304-309).                                       *)
(***************************************************************************)
Interrupt ==
    /\ mpc = "pow"
    /\ ctrl # <<>>
    /\ mpc' = "top"
    /\ UNCHANGED <<chain, ctrl, mstate, tmpl, finished, spc, sblk, npc, api,
                   net>>

(***************************************************************************)
(* Mutant: the sink forgets miner.update().                                *)
(***************************************************************************)
SinkNotifyNoUpdate ==
    /\ spc = "notify"
    /\ spc' = "recv"
    /\ UNCHANGED <<chain, ctrl, mstate, mpc, tmpl, finished, sblk, npc, api,
                   net>>

(***************************************************************************)
(* The sink: recv a finished block and broadcast its hash (worker.rs       *)
(* 58-62), commit it under the chain lock (63-66), prune its transactions  *)
(* from the mempool and fire miner.update() (67-72).                       *)
(***************************************************************************)
SinkRecv ==
    /\ spc = "recv"
    /\ finished # <<>>
    /\ sblk' = Head(finished)
    /\ finished' = Tail(finished)
    /\ spc' = "commit"
    /\ UNCHANGED <<chain, ctrl, mstate, mpc, tmpl, npc, api, net>>

SinkCommit ==
    /\ spc = "commit"
    /\ CommitCall(sblk)
    /\ spc' = "notify"
    /\ UNCHANGED <<ctrl, mstate, mpc, tmpl, finished, sblk, npc, api, net>>

SinkNotify ==
    /\ spc = "notify"
    /\ ctrl' = Append(ctrl, "Update")
    /\ spc' = "recv"
    /\ UNCHANGED <<chain, mstate, mpc, tmpl, finished, sblk, npc, api, net>>

(***************************************************************************)
(* The network worker receives a peer block whose parent is stored,        *)
(* executes and commits it (a block it already has passes execute_block    *)
(* and commit_block returns early), then prunes the mempool and fires      *)
(* miner.update() (network/worker.rs 133-151).                             *)
(***************************************************************************)
(* Mutant: the handler commits without checking execute_block's result. *)
NetCommitNoExecute(b) ==
    /\ npc = "idle"
    /\ net < MaxNet
    /\ Chain!ContainsBlock(Parent[b])
    /\ CommitCall(b)
    /\ npc' = "notify"
    /\ net' = net + 1
    /\ UNCHANGED <<ctrl, mstate, mpc, tmpl, finished, spc, sblk, api>>

NetCommit(b) ==
    /\ npc = "idle"
    /\ net < MaxNet
    /\ Chain!ExecuteOk(b)
    /\ CommitCall(b)
    /\ npc' = "notify"
    /\ net' = net + 1
    /\ UNCHANGED <<ctrl, mstate, mpc, tmpl, finished, spc, sblk, api>>

NetNotify ==
    /\ npc = "notify"
    /\ ctrl' = Append(ctrl, "Update")
    /\ npc' = "idle"
    /\ UNCHANGED <<chain, mstate, mpc, tmpl, finished, spc, sblk, api, net>>

MinerStep == RecvPaused \/ RecvMinedWait \/ Iterate \/ Found \/ Interrupt

SinkStep == SinkRecv \/ SinkCommit \/ SinkNotify

Next ==
    \/ \E s \in Signal : ApiCall(s)
    \/ MinerStep
    \/ SinkStep
    \/ \E b \in NetBlock : NetCommit(b)
    \/ NetNotify

(***************************************************************************)
(* Each thread that can run runs: the miner and the sink are threads that  *)
(* only block on an empty channel, and a nonce search succeeds with        *)
(* probability one, so Found is weakly fair.  The network worker finishes  *)
(* the handler it started.  Admin calls and peer blocks are not forced.    *)
(***************************************************************************)
Fairness ==
    /\ WF_vars(MinerStep)
    /\ WF_vars(Found)
    /\ WF_vars(SinkStep)
    /\ WF_vars(NetNotify)

Spec == Init /\ [][Next]_vars /\ Fairness

-----------------------------------------------------------------------------
(***************************************************************************)
(* Properties.                                                             *)
(***************************************************************************)

(* A block the miner sent that the sink has not committed yet.             *)
Uncommitted == Elems(finished) \cup (IF spc = "commit" THEN {sblk} ELSE {})

(***************************************************************************)
(* No lost wake-up of MinedWait: whenever the miner blocks in MinedWait, a *)
(* Start or Update is queued, or the sink still has a block to commit and  *)
(* an Update to fire.                                                      *)
(***************************************************************************)
MinedWaitHasWaker ==
    mstate = "MinedWait" =>
        \/ \E i \in DOMAIN ctrl : ctrl[i] # "Stop"
        \/ finished # <<>>
        \/ spc # "recv"

(***************************************************************************)
(* A stale template is always noticed: while the miner searches on a       *)
(* parent that is no longer the tip, an Update is queued or the thread     *)
(* that moved the tip has still to fire it, so the 10000-nonce poll will   *)
(* interrupt the search.                                                   *)
(***************************************************************************)
FreshTemplate ==
    (mpc = "pow" /\ tmpl # tip) =>
        \/ "Update" \in Elems(ctrl)
        \/ spc = "notify"
        \/ npc = "notify"

(***************************************************************************)
(* The MinedWait gate never hangs the miner: it always leaves MinedWait.   *)
(***************************************************************************)
MinerNeverStuck == (mstate = "MinedWait") ~> (mstate # "MinedWait")

(***************************************************************************)
(* What the MinedWait gate is for (spec 4.H): the miner never searches on  *)
(* a parent while a block it mined on that parent is not yet committed.    *)
(***************************************************************************)
MinedWaitGate ==
    mpc = "pow" => \A b \in Uncommitted : Parent[b] # tmpl

(***************************************************************************)
(* The two threads that write the store keep it a Blockchain store: the    *)
(* network worker commits only blocks execute_block accepts (network/      *)
(* worker.rs 133-146), and the sink commits nothing but the blocks this    *)
(* node mined (miner/worker.rs 63-66), which bypass execute_block.  Every  *)
(* change is a commit_block of one of those blocks with its early returns, *)
(* so Blockchain's height and tip invariants hold in the whole node, and   *)
(* a stored block execute_block rejects was mined here.                    *)
(***************************************************************************)
ChainRefined == Store!Spec

=============================================================================
