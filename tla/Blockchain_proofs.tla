------------------------- MODULE Blockchain_proofs -------------------------
(***************************************************************************)
(* Proofs that commit_block keeps the block tree well formed and the tip  *)
(* on a longest chain, for every block tree and every set of valid blocks. *)
(***************************************************************************)
EXTENDS Blockchain, TLAPS

USE GenesisAssumption, ParentAssumption, ValidAssumption

(***************************************************************************)
(* The type invariant holds in every state.                               *)
(***************************************************************************)
THEOREM TypeCorrect == Spec => []TypeOK
<1>1. Init => TypeOK
  BY DEF Init, TypeOK
<1>2. TypeOK /\ [Next]_vars => TypeOK'
  <2> SUFFICES ASSUME TypeOK, [Next]_vars PROVE TypeOK'
    OBVIOUS
  <2>1. ASSUME NEW b \in Valid, ExecuteAndCommit(b) PROVE TypeOK'
    BY <2>1 DEF ExecuteAndCommit, CommitBlock, ContainsBlock, GetHeight, TypeOK
  <2>2. CASE UNCHANGED vars
    BY <2>2 DEF vars, TypeOK
  <2>3. QED
    BY <2>1, <2>2 DEF Next
<1>3. QED
  BY <1>1, <1>2, PTL DEF Spec

(***************************************************************************)
(* The block tree stays rooted at genesis with every recorded height its  *)
(* parent's plus one.                                                      *)
(***************************************************************************)
THEOREM HeightsConsistent == Spec => []HeightConsistent
<1>1. Init => HeightConsistent
  BY DEF Init, HeightConsistent
<1>2. TypeOK /\ HeightConsistent /\ [Next]_vars => HeightConsistent'
  <2> SUFFICES ASSUME TypeOK, HeightConsistent, [Next]_vars
               PROVE HeightConsistent'
    OBVIOUS
  <2>1. ASSUME NEW b \in Valid, ExecuteAndCommit(b) PROVE HeightConsistent'
    <3>1. b \notin blocks /\ Parent[b] \in blocks /\ b # Genesis
      BY <2>1 DEF ExecuteAndCommit, CommitBlock, ContainsBlock, HeightConsistent
    <3>2. blocks' = blocks \cup {b}
          /\ height' = [height EXCEPT ![b] = height[Parent[b]] + 1]
      BY <2>1 DEF ExecuteAndCommit, CommitBlock, GetHeight
    <3>3. \A c \in blocks : height'[c] = height[c]
      BY <3>1, <3>2 DEF TypeOK
    <3>4. QED
      BY <3>1, <3>2, <3>3 DEF HeightConsistent, TypeOK
  <2>2. CASE UNCHANGED vars
    BY <2>2 DEF vars, HeightConsistent
  <2>3. QED
    BY <2>1, <2>2 DEF Next
<1>3. QED
  BY <1>1, <1>2, TypeCorrect, PTL DEF Spec

(***************************************************************************)
(* The tip is a stored block of maximal height.                           *)
(***************************************************************************)
THEOREM TipLongest == Spec => []TipIsLongest
<1>1. Init => TipIsLongest
  BY DEF Init, TipIsLongest
<1>2. TypeOK /\ TipIsLongest /\ [Next]_vars => TipIsLongest'
  <2> SUFFICES ASSUME TypeOK, TipIsLongest, [Next]_vars
               PROVE TipIsLongest'
    OBVIOUS
  <2>1. ASSUME NEW b \in Valid, ExecuteAndCommit(b) PROVE TipIsLongest'
    <3> DEFINE h == height[Parent[b]] + 1
    <3>1. b \notin blocks /\ Parent[b] \in blocks /\ b \in Block
      BY <2>1 DEF ExecuteAndCommit, CommitBlock, ContainsBlock
    <3>2. /\ blocks' = blocks \cup {b}
          /\ height' = [height EXCEPT ![b] = h]
          /\ tip' = IF h > height[tip] THEN b ELSE tip
      BY <2>1 DEF ExecuteAndCommit, CommitBlock, GetHeight
    <3>3. \A c \in blocks : height'[c] = height[c]
      BY <3>1, <3>2 DEF TypeOK
    <3>4. height'[b] = h
      BY <3>1, <3>2 DEF TypeOK
    <3>5. CASE h > height[tip]
      BY <3>1, <3>2, <3>3, <3>4, <3>5 DEF TipIsLongest, TypeOK
    <3>6. CASE ~(h > height[tip])
      BY <3>1, <3>2, <3>3, <3>4, <3>6 DEF TipIsLongest, TypeOK
    <3>7. QED
      BY <3>5, <3>6
  <2>2. CASE UNCHANGED vars
    BY <2>2 DEF vars, TipIsLongest
  <2>3. QED
    BY <2>1, <2>2 DEF Next
<1>3. QED
  BY <1>1, <1>2, TypeCorrect, PTL DEF Spec

=============================================================================
