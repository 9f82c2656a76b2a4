------------------------------ MODULE StateTrie ------------------------------
(***************************************************************************)
(* The account state trie of src/types/state_trie.rs: a binary trie over   *)
(* the bits of an address, content-addressed and copy-on-write, read      *)
(* lazily from the store.                                                  *)
(*                                                                         *)
(* A node's hash is modelled by the node itself: SHA-256 over the tagged   *)
(* encoding is taken to be collision-free, so two hashes are equal exactly *)
(* when the node contents are, and a Branch names its children by their    *)
(* nodes.  The store holds a set of nodes; a hash the store and new_nodes  *)
(* do not hold loads as Empty (insert_batch_recursive) or as no account    *)
(* (get_recursive).  An address is a sequence of Width bits; get_bit_at    *)
(* answers 0 past the last bit.                                            *)
(*                                                                         *)
(* The variables follow one node's state across blocks: the root of the   *)
(* state at the tip, the state nodes persisted so far, and, as a reference *)
(* to compare with, the accounts that root should hold.                    *)
(***************************************************************************)
EXTENDS Naturals, Sequences, SequencesExt, FiniteSets

CONSTANTS
    Width,      \* address width in bits (160 in the code)
    Value,      \* the account values a run can write
    God,        \* the address credited at genesis
    GodValue,   \* its account at genesis
    MaxBatches, \* bound on the batches of a run
    MaxUpdate   \* bound on the accounts one batch writes

ASSUME TrieAssumption ==
    /\ Width \in Nat \ {0}
    /\ God \in [1..Width -> {0, 1}]
    /\ GodValue \in Value
    /\ MaxBatches \in Nat /\ MaxUpdate \in Nat

Address == [1..Width -> {0, 1}]

NoAccount == "none"

VARIABLES
    root,       \* state root of the current state
    stored,     \* state nodes in the store
    accounts,   \* reference: the account of each address, or NoAccount
    batches     \* batches applied so far

vars == <<root, stored, accounts, batches>>

(* NodeData::Empty, Leaf(addr, account), Branch(left, right).              *)
Empty == [k |-> "Empty"]
Leaf(a, v) == [k |-> "Leaf", addr |-> a, acc |-> v]
Branch(l, r) == [k |-> "Branch", l |-> l, r |-> r]

GetBit(a, i) == IF i >= Width THEN 0 ELSE a[i + 1]

(* The node a hash names, from new_nodes first and then from the store.    *)
Load(h, st, nn) == IF h \in nn \cup st THEN h ELSE Empty

(* Split a list of (address, account) pairs by the bit at depth d.         *)
Side(u, d, bit) == SelectSeq(u, LAMBDA p : GetBit(p[1], d) = bit)

(***************************************************************************)
(* get and get_recursive.                                                  *)
(***************************************************************************)
RECURSIVE GetRec(_, _, _, _)
GetRec(st, h, a, d) ==
    IF h \notin st THEN NoAccount
    ELSE CASE h.k = "Empty" -> NoAccount
           [] h.k = "Leaf" -> IF h.addr = a THEN h.acc ELSE NoAccount
           [] h.k = "Branch" ->
                GetRec(st, IF GetBit(a, d) = 0 THEN h.l ELSE h.r, a, d + 1)

Get(st, r, a) == GetRec(st, r, a, 0)

(***************************************************************************)
(* Mutant: two items are placed in list order, not by their bit.          *)
(***************************************************************************)
RECURSIVE BuildInListOrder(_, _, _)
BuildInListOrder(items, d, nn) ==
    IF items = <<>> THEN [h |-> Empty, nn |-> nn]
    ELSE IF Len(items) = 1
      THEN LET lf == Leaf(items[1][1], items[1][2])
           IN  [h |-> lf, nn |-> nn \cup {lf}]
    ELSE IF Len(items) = 2 /\ GetBit(items[1][1], d) # GetBit(items[2][1], d)
      THEN LET l == Leaf(items[1][1], items[1][2])
               r == Leaf(items[2][1], items[2][2])
           IN  [h |-> Branch(l, r), nn |-> nn \cup {l, r, Branch(l, r)}]
    ELSE LET L == BuildInListOrder(Side(items, d, 0), d + 1, nn)
             R == BuildInListOrder(Side(items, d, 1), d + 1, L.nn)
             b == Branch(L.h, R.h)
         IN  [h |-> b, nn |-> R.nn \cup {b}]

(***************************************************************************)
(* build_subtree_from_scratch: returns the subtree's hash and new_nodes.   *)
(* The Empty subtree is not added to new_nodes.                            *)
(***************************************************************************)
RECURSIVE Build(_, _, _)
Build(items, d, nn) ==
    IF items = <<>> THEN [h |-> Empty, nn |-> nn]
    ELSE IF Len(items) = 1
      THEN LET lf == Leaf(items[1][1], items[1][2])
           IN  [h |-> lf, nn |-> nn \cup {lf}]
    ELSE LET L == Build(Side(items, d, 0), d + 1, nn)
             R == Build(Side(items, d, 1), d + 1, L.nn)
             b == Branch(L.h, R.h)
         IN  [h |-> b, nn |-> R.nn \cup {b}]

(***************************************************************************)
(* Mutants: the leaf already there is dropped when the batch does not     *)
(* override it; the new branch is not added to new_nodes.                  *)
(***************************************************************************)
RECURSIVE InsertBatchRecDropLeaf(_, _, _, _, _)
InsertBatchRecDropLeaf(st, h, u, d, nn) ==
    IF u = <<>> THEN [h |-> h, nn |-> nn]
    ELSE LET n == Load(h, st, nn) IN
      CASE n.k \in {"Empty", "Leaf"} -> Build(u, d, nn)
        [] n.k = "Branch" ->
             LET L == InsertBatchRecDropLeaf(st, n.l, Side(u, d, 0), d + 1, nn)
                 R == InsertBatchRecDropLeaf(st, n.r, Side(u, d, 1), d + 1,
                                             L.nn)
             IN  [h |-> Branch(L.h, R.h), nn |-> R.nn \cup {Branch(L.h, R.h)}]

RECURSIVE InsertBatchRecNoBranch(_, _, _, _, _)
InsertBatchRecNoBranch(st, h, u, d, nn) ==
    IF u = <<>> THEN [h |-> h, nn |-> nn]
    ELSE LET n == Load(h, st, nn) IN
      CASE n.k = "Empty" -> Build(u, d, nn)
        [] n.k = "Leaf" ->
             IF \E i \in DOMAIN u : u[i][1] = n.addr
               THEN Build(u, d, nn)
               ELSE Build(Append(u, <<n.addr, n.acc>>), d, nn)
        [] n.k = "Branch" ->
             LET L == InsertBatchRecNoBranch(st, n.l, Side(u, d, 0), d + 1, nn)
                 R == InsertBatchRecNoBranch(st, n.r, Side(u, d, 1), d + 1,
                                             L.nn)
             IN  [h |-> Branch(L.h, R.h), nn |-> R.nn]

(***************************************************************************)
(* insert_batch_recursive.                                                 *)
(***************************************************************************)
RECURSIVE InsertBatchRec(_, _, _, _, _)
InsertBatchRec(st, h, u, d, nn) ==
    IF u = <<>> THEN [h |-> h, nn |-> nn]
    ELSE LET n == Load(h, st, nn) IN
      CASE n.k = "Empty" -> Build(u, d, nn)
        [] n.k = "Leaf" ->
             IF \E i \in DOMAIN u : u[i][1] = n.addr
               THEN Build(u, d, nn)
               ELSE Build(Append(u, <<n.addr, n.acc>>), d, nn)
        [] n.k = "Branch" ->
             LET L == InsertBatchRec(st, n.l, Side(u, d, 0), d + 1, nn)
                 R == InsertBatchRec(st, n.r, Side(u, d, 1), d + 1, L.nn)
                 b == Branch(L.h, R.h)
             IN  [h |-> b, nn |-> R.nn \cup {b}]

(***************************************************************************)
(* insert_batch: the HashMap of updates is iterated in some order u; an    *)
(* empty batch returns the root unchanged and no nodes.                    *)
(***************************************************************************)
InsertBatch(st, r, u) ==
    IF u = <<>> THEN [h |-> r, nn |-> {}] ELSE InsertBatchRec(st, r, u, 0, {})

(***************************************************************************)
(* insert: insert_recursive and insert_recursive_on_data, which call each *)
(* other.  The program calls it once, on the empty trie (genesis,          *)
(* blockchain/mod.rs 64), so only its Empty case is ever taken.            *)
(***************************************************************************)
RECURSIVE InsertRec(_, _, _, _, _, _), OnData(_, _, _, _, _, _)

InsertRec(st, h, a, v, d, nn) ==
    LET n == Load(h, st, nn) IN
    CASE n.k = "Empty" \/ (n.k = "Leaf" /\ n.addr = a) ->
           [h |-> Leaf(a, v), nn |-> nn \cup {Leaf(a, v)}]
      [] n.k = "Leaf" ->
           LET H1 == OnData(st, Branch(Empty, Empty), n.addr, n.acc, d,
                            nn \cup {Empty})
           IN  InsertRec(st, H1.h, a, v, d, H1.nn)
      [] n.k = "Branch" ->
           LET C == InsertRec(st, IF GetBit(a, d) = 0 THEN n.l ELSE n.r,
                              a, v, d + 1, nn)
               b == IF GetBit(a, d) = 0 THEN Branch(C.h, n.r)
                                        ELSE Branch(n.l, C.h)
           IN  [h |-> b, nn |-> C.nn \cup {b}]

OnData(st, n, a, v, d, nn) ==
    LET r == CASE n.k = "Empty" \/ (n.k = "Leaf" /\ n.addr = a) ->
                    [h |-> Leaf(a, v), nn |-> nn]
               [] n.k = "Leaf" /\ GetBit(n.addr, d) # GetBit(a, d) ->
                    LET c == Leaf(n.addr, n.acc)
                        w == Leaf(a, v)
                    IN  [h |-> IF GetBit(a, d) = 0 THEN Branch(w, c)
                                                   ELSE Branch(c, w),
                         nn |-> nn \cup {c, w}]
               [] n.k = "Leaf" ->
                    LET C == OnData(st, n, a, v, d + 1, nn \cup {Empty})
                    IN  [h |-> IF GetBit(a, d) = 0 THEN Branch(C.h, Empty)
                                                   ELSE Branch(Empty, C.h),
                         nn |-> C.nn]
               [] n.k = "Branch" ->
                    LET C == InsertRec(st, IF GetBit(a, d) = 0 THEN n.l
                                                               ELSE n.r,
                                       a, v, d + 1, nn)
                    IN  [h |-> IF GetBit(a, d) = 0 THEN Branch(C.h, n.r)
                                                   ELSE Branch(n.l, C.h),
                         nn |-> C.nn]
    IN  [h |-> r.h, nn |-> r.nn \cup {r.h}]

Insert(st, r, a, v) == InsertRec(st, r, a, v, 0, {})

-----------------------------------------------------------------------------
(***************************************************************************)
(* Blockchain::new: StateTrie::new stores the Empty node, the god account  *)
(* is inserted and its nodes are persisted.                                *)
(***************************************************************************)
Init ==
    LET g == Insert({Empty}, Empty, God, GodValue) IN
    /\ root = g.h
    /\ stored = {Empty} \cup g.nn
    /\ accounts = [a \in Address |-> IF a = God THEN GodValue ELSE NoAccount]
    /\ batches = 0

(***************************************************************************)
(* A block is executed and committed: insert_batch of its account updates  *)
(* (a HashMap, iterated in any order) on the parent's root, then           *)
(* commit_block persists new_nodes (batch_save_state_nodes).  Every        *)
(* block's updates are non-empty: the coinbase credits the miner.          *)
(***************************************************************************)
ApplyBatch(U) ==
    /\ batches < MaxBatches
    /\ \E u \in SetToSeqs({<<a, U[a]>> : a \in DOMAIN U}) :
         LET r == InsertBatch(stored, root, u) IN
         /\ root' = r.h
         /\ stored' = stored \cup r.nn
    /\ accounts' = [a \in Address |-> IF a \in DOMAIN U THEN U[a]
                                                      ELSE accounts[a]]
    /\ batches' = batches + 1

Updates ==
    UNION {[S -> Value] : S \in {T \in SUBSET Address :
                                    T # {} /\ Cardinality(T) <= MaxUpdate}}

Next == \E U \in Updates : ApplyBatch(U)

Spec == Init /\ [][Next]_vars

-----------------------------------------------------------------------------
(***************************************************************************)
(* Reference: the trie of an account map, built from the set of its        *)
(* addresses.                                                              *)
(***************************************************************************)
RECURSIVE CanonRec(_, _)
CanonRec(S, d) ==
    IF S = {} THEN Empty
    ELSE IF Cardinality(S) = 1
      THEN LET a == CHOOSE x \in S : TRUE IN Leaf(a, accounts[a])
    ELSE Branch(CanonRec({a \in S : GetBit(a, d) = 0}, d + 1),
                CanonRec({a \in S : GetBit(a, d) = 1}, d + 1))

Canon == CanonRec({a \in Address : accounts[a] # NoAccount}, 0)

RECURSIVE Reach(_)
Reach(n) == {n} \cup (IF n.k = "Branch" THEN Reach(n.l) \cup Reach(n.r)
                                        ELSE {})

(***************************************************************************)
(* get after insert_batch: every account reads back as the last batch     *)
(* that wrote it left it, and an address never written reads as none.     *)
(***************************************************************************)
GetMatchesAccounts == \A a \in Address : Get(stored, root, a) = accounts[a]

(***************************************************************************)
(* State roots are deterministic: the root is a function of the account    *)
(* map alone, whatever the history of batches and whatever order each      *)
(* batch's HashMap was iterated in, so the miner's projected state root    *)
(* and a validating node's agree.                                          *)
(***************************************************************************)
RootCanonical == root = Canon

(***************************************************************************)
(* new_nodes is complete: every node reachable from the root was          *)
(* persisted, so a node restarted from its store reads the same state.    *)
(***************************************************************************)
StoreClosed == Reach(root) \subseteq stored

=============================================================================
