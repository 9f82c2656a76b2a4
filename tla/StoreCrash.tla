----------------------------- MODULE StoreCrash -----------------------------
(***************************************************************************)
(* The block store across a crash and restart: Blockchain::new and         *)
(* Blockchain::commit_block (src/blockchain/mod.rs) over the sled store    *)
(* (src/database.rs).                                                      *)
(*                                                                         *)
(* commit_block makes up to four separate writes: the block into "blocks", *)
(* the state nodes as one batch into "state_nodes", the height into "meta" *)
(* and, if the block is higher than the tip, the tip into "meta".  Reads   *)
(* see every write at once; a write is durable once sled has flushed it    *)
(* (every 1000 ms, flush_every_ms, or on a clean shutdown).  The model     *)
(* takes sled's strongest guarantee: all trees of one Db share one log and *)
(* a crash keeps a prefix of it.  So the writes wait in "log" and are made *)
(* durable in order; a crash loses the rest and Blockchain::new restores   *)
(* from what is durable.  The block tree and Valid are Blockchain's.       *)
(***************************************************************************)
EXTENDS Integers, Sequences, FiniteSets

CONSTANTS Block, Genesis, Parent, Valid,
    MaxCrashes      \* bound on the crashes of a run

ASSUME StoreAssumption ==
    /\ Genesis \in Block
    /\ Parent \in [Block \ {Genesis} -> Block]
    /\ Valid \subseteq Block \ {Genesis}
    /\ MaxCrashes \in Nat

VARIABLES
    blocks, nodes, height, tip,     \* what the running process reads
    dblocks, dnodes, dheight, dtip, \* what is on disk
    log,        \* the writes not flushed yet, oldest first
    crashes     \* crashes so far

view == <<blocks, nodes, height, tip>>
disk == <<dblocks, dnodes, dheight, dtip>>
vars == <<blocks, nodes, height, tip, dblocks, dnodes, dheight, dtip, log,
          crashes>>

(* A write: into "blocks", a batch into "state_nodes" (the nodes of a      *)
(* block's state, named by the block), into "meta" under a block hash (its *)
(* height) or under "tip".                                                 *)
Write == [k : {"block", "nodes", "tip"}, b : Block]
         \cup [k : {"height"}, b : Block, h : Nat]

TypeOK ==
    /\ blocks \subseteq Block /\ nodes \subseteq Block
    /\ height \in [Block -> Nat] /\ tip \in Block
    /\ dblocks \subseteq Block /\ dnodes \subseteq Block
    /\ dheight \in [Block -> Nat] /\ dtip \in Block
    /\ log \in Seq(Write)
    /\ crashes \in 0..MaxCrashes

(***************************************************************************)
(* Blockchain::new on an empty store: the genesis state, block, tip and    *)
(* height are written and flushed.                                         *)
(***************************************************************************)
Init ==
    /\ blocks = {Genesis} /\ nodes = {Genesis}
    /\ height = [b \in Block |-> 0] /\ tip = Genesis
    /\ dblocks = blocks /\ dnodes = nodes /\ dheight = height /\ dtip = tip
    /\ log = <<>>
    /\ crashes = 0

(***************************************************************************)
(* execute_block's first check (the parent is stored) and its state-root   *)
(* check, which reads the parent's state: a node missing from the store    *)
(* reads as Empty (state_trie.rs 142-146), the accounts under it are lost  *)
(* and the recomputed root differs from the header's.                      *)
(***************************************************************************)
ExecuteOk(b) == Parent[b] \in blocks /\ Parent[b] \in nodes /\ b \in Valid

(* Mutant: the tip pointer is written before the block and its state.      *)
CommitWritesTipFirst(b) ==
    LET h == height[Parent[b]] + 1
        up == h > height[tip]
    IN  /\ b \notin blocks
        /\ Parent[b] \in blocks
        /\ blocks' = blocks \cup {b}
        /\ nodes' = nodes \cup {b}
        /\ height' = [height EXCEPT ![b] = h]
        /\ tip' = IF up THEN b ELSE tip
        /\ log' = log \o
                   IF up THEN <<[k |-> "tip", b |-> b],
                                [k |-> "block", b |-> b], [k |-> "nodes", b |-> b],
                                [k |-> "height", b |-> b, h |-> h]>>
                         ELSE <<[k |-> "block", b |-> b], [k |-> "nodes", b |-> b],
                                [k |-> "height", b |-> b, h |-> h]>>

(***************************************************************************)
(* commit_block(b), under the chain lock: the early returns (known block,  *)
(* unknown parent), then the four writes in program order.                 *)
(***************************************************************************)
Commit(b) ==
    LET h == height[Parent[b]] + 1
        up == h > height[tip]
    IN  /\ b \notin blocks
        /\ Parent[b] \in blocks
        /\ blocks' = blocks \cup {b}
        /\ nodes' = nodes \cup {b}
        /\ height' = [height EXCEPT ![b] = h]
        /\ tip' = IF up THEN b ELSE tip
        /\ log' = log \o
                   IF up THEN <<[k |-> "block", b |-> b], [k |-> "nodes", b |-> b],
                                [k |-> "height", b |-> b, h |-> h],
                                [k |-> "tip", b |-> b]>>
                         ELSE <<[k |-> "block", b |-> b], [k |-> "nodes", b |-> b],
                                [k |-> "height", b |-> b, h |-> h]>>

(* A network worker or the sink executes and commits a block.              *)
ExecuteAndCommit(b) ==
    /\ ExecuteOk(b)
    /\ Commit(b)
    /\ UNCHANGED <<disk, crashes>>

(***************************************************************************)
(* sled's background flush makes the oldest pending write durable.         *)
(***************************************************************************)
Flush ==
    /\ log # <<>>
    /\ LET w == Head(log) IN
         /\ dblocks' = IF w.k = "block" THEN dblocks \cup {w.b} ELSE dblocks
         /\ dnodes' = IF w.k = "nodes" THEN dnodes \cup {w.b} ELSE dnodes
         /\ dheight' = IF w.k = "height" THEN [dheight EXCEPT ![w.b] = w.h]
                                         ELSE dheight
         /\ dtip' = IF w.k = "tip" THEN w.b ELSE dtip
    /\ log' = Tail(log)
    /\ UNCHANGED <<view, crashes>>

(***************************************************************************)
(* The process dies; what is not flushed is lost.  On restart              *)
(* Blockchain::new finds the tip key and restores the tip from it; every   *)
(* read goes to the disk (get_height answers 0 for a missing height).      *)
(***************************************************************************)
CrashRestart ==
    /\ crashes < MaxCrashes
    /\ blocks' = dblocks /\ nodes' = dnodes /\ height' = dheight
    /\ tip' = dtip
    /\ log' = <<>>
    /\ crashes' = crashes + 1
    /\ UNCHANGED disk

Next ==
    \/ \E b \in Valid : ExecuteAndCommit(b)
    \/ Flush
    \/ CrashRestart

Spec == Init /\ [][Next]_vars

-----------------------------------------------------------------------------
(***************************************************************************)
(* Properties.                                                             *)
(***************************************************************************)

(***************************************************************************)
(* The recovery invariant of spec section 9: after any crash and restart   *)
(* the tip is a stored block whose state nodes are all present, so         *)
(* get_state_at_tip's get_block(tip).unwrap() and the account reads at the *)
(* tip succeed.                                                            *)
(***************************************************************************)
TipRecoverable == tip \in blocks /\ tip \in nodes

(***************************************************************************)
(* A stored block has the height commit_block computed for it, after any   *)
(* crash: its parent is stored and its height is the parent's plus one.    *)
(***************************************************************************)
HeightsSurviveCrash ==
    \A b \in blocks \ {Genesis} :
        Parent[b] \in blocks /\ height[b] = height[Parent[b]] + 1

(***************************************************************************)
(* The disk implements DurableStore: under every interleaving of commits,  *)
(* sled's flushes and crashes, what is durable of a block and its state is *)
(* never lost, and the tip pointer reaches the disk only after the block   *)
(* and the state it names.  This is what lets Blockchain::new restore the  *)
(* tip after any crash.                                                    *)
(***************************************************************************)
D == INSTANCE DurableStore WITH saved <- dblocks \cap dnodes, savedTip <- dtip

DurableRefined == D!Spec

=============================================================================
