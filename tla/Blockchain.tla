----------------------------- MODULE Blockchain -----------------------------
(***************************************************************************)
(* The block store of one node: src/blockchain/mod.rs.                     *)
(*                                                                         *)
(* A block is identified by its hash.  The blocks a run can meet form a    *)
(* fixed tree given by the constant Parent (a block names its parent in    *)
(* its header, and the header is in the hash preimage, so the parent of a  *)
(* hash never changes).  Valid is the set of blocks that execute_block     *)
(* accepts once their parent is stored: every check of execute_block but   *)
(* the first (parent exists) depends only on the block and on the state at *)
(* its parent, which is itself fixed by the parent's hash.                 *)
(*                                                                         *)
(* The variables are the part of the store commit_block writes: the set of *)
(* stored blocks (the "blocks" tree), the height recorded for each hash in *)
(* "meta" (get_height answers 0 for a hash with no record, so height is a  *)
(* total function that is 0 off the stored blocks), and the in-memory tip. *)
(***************************************************************************)
EXTENDS Integers, FiniteSets

CONSTANTS
    Block,      \* the hashes of every block a run can meet
    Genesis,    \* the hash of Block::genesis
    Parent,     \* Parent[b]: the parent hash in b's header
    Valid       \* the blocks execute_block accepts once their parent is stored

ASSUME GenesisAssumption == Genesis \in Block
ASSUME ParentAssumption == Parent \in [Block \ {Genesis} -> Block]
ASSUME ValidAssumption == Valid \subseteq Block \ {Genesis}

VARIABLES
    blocks,     \* hashes stored in the "blocks" tree
    height,     \* height[h]: the u64 stored in meta under h, 0 when absent
    tip         \* Blockchain.tip

vars == <<blocks, height, tip>>

TypeOK ==
    /\ blocks \in SUBSET Block
    /\ height \in [Block -> Nat]
    /\ tip \in Block

(***************************************************************************)
(* Blockchain::new on an empty store: genesis is stored with height 0 and  *)
(* becomes the tip.                                                        *)
(***************************************************************************)
Init ==
    /\ blocks = {Genesis}
    /\ height = [h \in Block |-> 0]
    /\ tip = Genesis

(***************************************************************************)
(* contains_block and get_height.                                          *)
(***************************************************************************)
ContainsBlock(h) == h \in blocks

GetHeight(h) == height[h]

(***************************************************************************)
(* execute_block succeeds: the parent is stored (first check) and the      *)
(* block passes the content checks (PoW, difficulty, signatures, coinbase, *)
(* Merkle root, transactions, state root).                                 *)
(***************************************************************************)
ExecuteOk(b) == Parent[b] \in blocks /\ b \in Valid

(***************************************************************************)
(* Mutants of commit_block (see PROJECT.json "mutants").                   *)
(***************************************************************************)
CommitBlockHeightFromTip(b) ==
    /\ ~ContainsBlock(b)
    /\ ContainsBlock(Parent[b])
    /\ LET h == GetHeight(tip) + 1 IN
         /\ blocks' = blocks \cup {b}
         /\ height' = [height EXCEPT ![b] = h]
         /\ tip' = IF h > GetHeight(tip) THEN b ELSE tip

CommitBlockHeightMinusOne(b) ==
    /\ ~ContainsBlock(b)
    /\ ContainsBlock(Parent[b])
    /\ LET h == GetHeight(Parent[b]) - 1 IN
         /\ blocks' = blocks \cup {b}
         /\ height' = [height EXCEPT ![b] = h]
         /\ tip' = IF h > GetHeight(tip) THEN b ELSE tip

CommitBlockAlwaysTip(b) ==
    /\ ~ContainsBlock(b)
    /\ ContainsBlock(Parent[b])
    /\ LET h == GetHeight(Parent[b]) + 1 IN
         /\ blocks' = blocks \cup {b}
         /\ height' = [height EXCEPT ![b] = h]
         /\ tip' = b

(***************************************************************************)
(* commit_block(b): return at once if b is stored (idempotence) or if its  *)
(* parent is not (orphan); these early returns change nothing and are      *)
(* stutters.  Otherwise store b, record height(parent) + 1 and move the    *)
(* tip to b iff that height is strictly greater than the tip's: on a tie   *)
(* the first-seen tip stays.                                               *)
(***************************************************************************)
CommitBlock(b) ==
    /\ ~ContainsBlock(b)
    /\ ContainsBlock(Parent[b])
    /\ LET h == GetHeight(Parent[b]) + 1 IN
         /\ blocks' = blocks \cup {b}
         /\ height' = [height EXCEPT ![b] = h]
         /\ tip' = IF h > GetHeight(tip) THEN b ELSE tip

(***************************************************************************)
(* A caller (network worker, mined-block sink) commits a block that        *)
(* execute_block accepts.                                                  *)
(***************************************************************************)
ExecuteAndCommit(b) == ExecuteOk(b) /\ CommitBlock(b)

Next == \E b \in Valid : ExecuteAndCommit(b)

Spec == Init /\ [][Next]_vars

-----------------------------------------------------------------------------
(***************************************************************************)
(* Properties.                                                             *)
(***************************************************************************)

(***************************************************************************)
(* The stored blocks form a tree rooted at genesis in which every height   *)
(* commit_block recorded is its parent's plus one: the heights the         *)
(* longest-chain rule compares are the true depths.                        *)
(***************************************************************************)
HeightConsistent ==
    /\ Genesis \in blocks
    /\ height[Genesis] = 0
    /\ \A b \in blocks \ {Genesis} :
          /\ Parent[b] \in blocks
          /\ height[b] = height[Parent[b]] + 1

(***************************************************************************)
(* Longest-chain rule of commit_block: the tip is a stored block and no    *)
(* stored block is higher than it.                                         *)
(***************************************************************************)
TipIsLongest ==
    /\ tip \in blocks
    /\ \A b \in blocks : height[b] <= height[tip]

=============================================================================
