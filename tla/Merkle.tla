------------------------------- MODULE Merkle -------------------------------
(***************************************************************************)
(* MerkleTree::new and MerkleTree::root (src/types/merkle.rs) over the     *)
(* hashes of a block's transactions.  SHA-256 is taken to be collision     *)
(* free: hash_pair(l, r) is the pair <<l, r>> itself and an item's hash   *)
(* is the one-tuple of the item, so two hashes are equal only when what    *)
(* they hash is.  The tree is built level by level; a level of odd length  *)
(* pairs its last hash with itself.                                        *)
(***************************************************************************)
EXTENDS Naturals, Sequences

(* H256::default(), the root of the tree of no data.                       *)
ZeroHash == <<>>

(* Hashable::hash of a transaction.                                        *)
ItemHash(t) == <<t>>

HashPair(l, r) == <<l, r>>

(* One pass of the while loop: chunks(2) of the level, a lone last hash   *)
(* paired with itself.                                                     *)
(* Mutant: a lone last hash is dropped instead of duplicated.             *)
NextLevelDropOdd(lv) ==
    [i \in 1..(Len(lv) \div 2) |-> HashPair(lv[2 * i - 1], lv[2 * i])]

NextLevel(lv) ==
    [i \in 1..((Len(lv) + 1) \div 2) |->
        HashPair(lv[2 * i - 1], IF 2 * i <= Len(lv) THEN lv[2 * i] ELSE lv[2 * i - 1])]

(* The while loop: levels are added until the last has one hash.          *)
RECURSIVE Top(_)
Top(lv) == IF Len(lv) > 1 THEN Top(NextLevel(lv)) ELSE lv[1]

(* MerkleTree::new(data).root(): the leaves are the items' hashes; no data *)
(* has the default hash.                                                   *)
MerkleRoot(data) ==
    IF data = <<>> THEN ZeroHash ELSE Top([i \in DOMAIN data |-> ItemHash(data[i])])

=============================================================================
