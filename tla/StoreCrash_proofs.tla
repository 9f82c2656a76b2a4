------------------------- MODULE StoreCrash_proofs -------------------------
(***************************************************************************)
(* Proof that commit_block's write order keeps the tip recoverable across *)
(* any number of crashes, for every block tree: the tip pointer is the    *)
(* last of a commit's writes, so whatever prefix of the log reaches the   *)
(* disk, the tip it holds names a block and a state that are on disk too. *)
(***************************************************************************)
EXTENDS StoreCrash, SequenceTheorems, TLAPS

USE StoreAssumption

(* The blocks whose block write, or whose state-node batch, is in the log  *)
(* before position i.                                                      *)
BlockBefore(i) == {log[j].b : j \in {j \in 1..(i - 1) : log[j].k = "block"}}
NodesBefore(i) == {log[j].b : j \in {j \in 1..(i - 1) : log[j].k = "nodes"}}

(* A tip write in the log comes after the block and state writes it needs, *)
(* or they are on disk already.                                            *)
LogOrdered ==
    \A i \in 1..Len(log) :
        log[i].k = "tip" =>
            /\ log[i].b \in dblocks \cup BlockBefore(i)
            /\ log[i].b \in dnodes \cup NodesBefore(i)

DiskTipOk == dtip \in dblocks /\ dtip \in dnodes

IInv == TypeOK /\ TipRecoverable /\ DiskTipOk /\ LogOrdered

(***************************************************************************)
(* Blockchain::new leaves nothing in the log and the genesis tip on disk.  *)
(***************************************************************************)
LEMMA InitIInv == Init => IInv
BY DEF Init, IInv, TypeOK, TipRecoverable, DiskTipOk, LogOrdered

(***************************************************************************)
(* A commit keeps the invariant: its tip write, if any, is its last write. *)
(***************************************************************************)
LEMMA CommitIInv ==
    ASSUME IInv, NEW b \in Valid, ExecuteAndCommit(b)
    PROVE  IInv'
<1> DEFINE h == height[Parent[b]] + 1
           up == h > height[tip]
           W == IF up THEN <<[k |-> "block", b |-> b], [k |-> "nodes", b |-> b],
                             [k |-> "height", b |-> b, h |-> h],
                             [k |-> "tip", b |-> b]>>
                      ELSE <<[k |-> "block", b |-> b], [k |-> "nodes", b |-> b],
                             [k |-> "height", b |-> b, h |-> h]>>
           n == Len(log)
<1>1. /\ b \in Block \ {Genesis} /\ Parent[b] \in Block /\ h \in Nat
      /\ b \notin blocks
      /\ blocks' = blocks \cup {b} /\ nodes' = nodes \cup {b}
      /\ height' = [height EXCEPT ![b] = h]
      /\ tip' = IF up THEN b ELSE tip
      /\ UNCHANGED <<dblocks, dnodes, dheight, dtip, crashes>>
  BY DEF ExecuteAndCommit, Commit, IInv, TypeOK, disk
<1>2. log' = log \o W
  BY DEF ExecuteAndCommit, Commit
<1>3. /\ W \in Seq(Write)
      /\ Len(W) \in {3, 4}
      /\ W[1] = [k |-> "block", b |-> b] /\ W[2] = [k |-> "nodes", b |-> b]
      /\ \A m \in 1..Len(W) : W[m].k = "tip" => m = 4 /\ W[m].b = b
  <2>1. CASE up
    BY <1>1, <2>1 DEF Write
  <2>2. CASE ~up
    BY <1>1, <2>2 DEF Write
  <2>3. QED
    BY <2>1, <2>2
<1>4. /\ log \in Seq(Write) /\ n \in Nat
      /\ log' \in Seq(Write) /\ Len(log') = n + Len(W)
      /\ \A i \in 1..Len(log') : log'[i] = IF i <= n THEN log[i] ELSE W[i - n]
  <2>1. log \in Seq(Write) /\ n \in Nat
    BY DEF IInv, TypeOK
  <2>2. /\ log \o W \in Seq(Write)
        /\ Len(log \o W) = n + Len(W)
        /\ \A i \in 1..(n + Len(W)) :
              (log \o W)[i] = IF i <= n THEN log[i] ELSE W[i - n]
    BY <2>1, <1>3, ConcatProperties
  <2>3. QED
    BY <2>1, <2>2, <1>2
<1>5. TypeOK'
  BY <1>1, <1>4 DEF IInv, TypeOK
<1>6. TipRecoverable'
  BY <1>1 DEF IInv, TipRecoverable
<1>7. DiskTipOk'
  BY <1>1 DEF IInv, DiskTipOk
<1>8. LogOrdered'
  <2> SUFFICES ASSUME NEW i \in 1..Len(log'), log'[i].k = "tip"
               PROVE  /\ log'[i].b \in dblocks' \cup BlockBefore(i)'
                      /\ log'[i].b \in dnodes' \cup NodesBefore(i)'
    BY DEF LogOrdered
  <2>1. CASE i <= n
    <3>1. log'[i] = log[i] /\ i \in 1..Len(log)
      BY <2>1, <1>4
    <3>2. \A j \in 1..(i - 1) : log'[j] = log[j]
      BY <2>1, <1>4
    <3>3. BlockBefore(i) \subseteq BlockBefore(i)'
          /\ NodesBefore(i) \subseteq NodesBefore(i)'
      BY <3>2 DEF BlockBefore, NodesBefore
    <3>4. QED
      BY <3>1, <3>3, <1>1 DEF IInv, LogOrdered
  <2>2. CASE i > n
    <3>1. log'[i] = W[i - n] /\ i - n \in 1..Len(W)
      BY <2>2, <1>4
    <3>2. i = n + 4 /\ log'[i].b = b
      BY <3>1, <1>3, <1>4
    <3>6. n + 1 \in 1..Len(log') /\ n + 2 \in 1..Len(log')
          /\ ~(n + 1 <= n) /\ ~(n + 2 <= n)
      BY <3>2, <1>4
    <3>7. log'[n + 1] = W[1] /\ log'[n + 2] = W[2]
      BY <3>6, <1>4
    <3>3. log'[n + 1] = [k |-> "block", b |-> b]
          /\ log'[n + 2] = [k |-> "nodes", b |-> b]
      BY <3>7, <1>3
    <3>4. n + 1 \in 1..(i - 1) /\ n + 2 \in 1..(i - 1)
      BY <3>2, <1>4
    <3>5. b \in BlockBefore(i)' /\ b \in NodesBefore(i)'
      BY <3>3, <3>4 DEF BlockBefore, NodesBefore
    <3>8. QED
      BY <3>2, <3>5
  <2>3. QED
    BY <2>1, <2>2, <1>4
<1>9. QED
  BY <1>5, <1>6, <1>7, <1>8 DEF IInv

(***************************************************************************)
(* A flush keeps the invariant: the oldest write goes to disk, and a tip   *)
(* write at the head of the log has its block and state on disk already.  *)
(***************************************************************************)
LEMMA FlushIInv ==
    ASSUME IInv, Flush
    PROVE  IInv'
<1> DEFINE w == Head(log)
           n == Len(log)
<1>1. /\ log \in Seq(Write) /\ log # <<>> /\ n \in Nat \ {0}
      /\ w = log[1] /\ w \in Write
      /\ log' = Tail(log) /\ log' \in Seq(Write) /\ Len(log') = n - 1
      /\ \A i \in 1..(n - 1) : log'[i] = log[i + 1]
  <2>1. log \in Seq(Write) /\ log # <<>>
    BY DEF IInv, TypeOK, Flush
  <2>2. QED
    BY <2>1, HeadTailProperties, LenProperties, EmptySeq DEF Flush
<1>2. /\ dblocks' = IF w.k = "block" THEN dblocks \cup {w.b} ELSE dblocks
      /\ dnodes' = IF w.k = "nodes" THEN dnodes \cup {w.b} ELSE dnodes
      /\ dheight' = IF w.k = "height" THEN [dheight EXCEPT ![w.b] = w.h]
                                      ELSE dheight
      /\ dtip' = IF w.k = "tip" THEN w.b ELSE dtip
      /\ UNCHANGED <<blocks, nodes, height, tip, crashes>>
  BY DEF Flush, view
<1>3. w.b \in Block /\ (w.k = "height" => w.h \in Nat)
  BY <1>1 DEF Write
<1>4. TypeOK'
  BY <1>1, <1>2, <1>3 DEF IInv, TypeOK
<1>5. TipRecoverable'
  BY <1>2 DEF IInv, TipRecoverable
<1>6. DiskTipOk'
  <2>1. CASE w.k = "tip"
    <3>1. BlockBefore(1) = {} /\ NodesBefore(1) = {}
      BY DEF BlockBefore, NodesBefore
    <3>2. w.b \in dblocks /\ w.b \in dnodes
      BY <1>1, <2>1, <3>1 DEF IInv, LogOrdered
    <3>3. QED
      BY <1>2, <2>1, <3>2 DEF DiskTipOk
  <2>2. CASE w.k # "tip"
    BY <1>2, <2>2 DEF IInv, DiskTipOk
  <2>3. QED
    BY <2>1, <2>2
<1>7. LogOrdered'
  <2> SUFFICES ASSUME NEW i \in 1..Len(log'), log'[i].k = "tip"
               PROVE  /\ log'[i].b \in dblocks' \cup BlockBefore(i)'
                      /\ log'[i].b \in dnodes' \cup NodesBefore(i)'
    BY DEF LogOrdered
  <2>1. i + 1 \in 1..n /\ log'[i] = log[i + 1]
    BY <1>1
  <2>2. /\ log[i + 1].b \in dblocks \cup BlockBefore(i + 1)
        /\ log[i + 1].b \in dnodes \cup NodesBefore(i + 1)
    BY <2>1 DEF IInv, LogOrdered
  <2>3. BlockBefore(i + 1) \subseteq dblocks' \cup BlockBefore(i)'
    <3> SUFFICES ASSUME NEW j \in 1..i, log[j].k = "block"
                 PROVE  log[j].b \in dblocks' \cup BlockBefore(i)'
      BY DEF BlockBefore
    <3>1. CASE j = 1
      BY <3>1, <1>1, <1>2
    <3>2. CASE j # 1
      <4>1. j - 1 \in 1..(i - 1) /\ log'[j - 1] = log[j]
        BY <3>2, <1>1, <2>1
      <4>2. QED
        BY <4>1 DEF BlockBefore
    <3>3. QED
      BY <3>1, <3>2
  <2>4. NodesBefore(i + 1) \subseteq dnodes' \cup NodesBefore(i)'
    <3> SUFFICES ASSUME NEW j \in 1..i, log[j].k = "nodes"
                 PROVE  log[j].b \in dnodes' \cup NodesBefore(i)'
      BY DEF NodesBefore
    <3>1. CASE j = 1
      BY <3>1, <1>1, <1>2
    <3>2. CASE j # 1
      <4>1. j - 1 \in 1..(i - 1) /\ log'[j - 1] = log[j]
        BY <3>2, <1>1, <2>1
      <4>2. QED
        BY <4>1 DEF NodesBefore
    <3>3. QED
      BY <3>1, <3>2
  <2>5. dblocks \subseteq dblocks' /\ dnodes \subseteq dnodes'
    BY <1>2
  <2>6. QED
    BY <2>1, <2>2, <2>3, <2>4, <2>5
<1>8. QED
  BY <1>4, <1>5, <1>6, <1>7 DEF IInv

(***************************************************************************)
(* A crash and restart keeps the invariant: the restored tip is the disk's *)
(* tip, and the log is empty.                                              *)
(***************************************************************************)
LEMMA CrashIInv ==
    ASSUME IInv, CrashRestart
    PROVE  IInv'
<1>1. log' = <<>> /\ Len(log') = 0
  BY DEF CrashRestart
<1>2. TypeOK' /\ TipRecoverable' /\ DiskTipOk'
  BY <1>1 DEF CrashRestart, IInv, TypeOK, TipRecoverable, DiskTipOk, disk
<1>3. LogOrdered'
  BY <1>1 DEF LogOrdered
<1>4. QED
  BY <1>2, <1>3 DEF IInv

LEMMA StepIInv == IInv /\ [Next]_vars => IInv'
<1> SUFFICES ASSUME IInv, [Next]_vars PROVE IInv'
  OBVIOUS
<1>1. ASSUME NEW b \in Valid, ExecuteAndCommit(b) PROVE IInv'
  BY <1>1, CommitIInv
<1>2. CASE Flush
  BY <1>2, FlushIInv
<1>3. CASE CrashRestart
  BY <1>3, CrashIInv
<1>4. CASE UNCHANGED vars
  BY <1>4 DEF vars, IInv, TypeOK, TipRecoverable, DiskTipOk, LogOrdered,
              BlockBefore, NodesBefore
<1>5. QED
  BY <1>1, <1>2, <1>3, <1>4 DEF Next

(***************************************************************************)
(* After any sequence of commits, background flushes and crashes, the tip  *)
(* the node runs on is a stored block whose state nodes are stored: the    *)
(* tip pointer is the last write of commit_block, and sled keeps a prefix  *)
(* of the writes.                                                          *)
(***************************************************************************)
THEOREM TipAlwaysRecoverable == Spec => []TipRecoverable
<1>1. IInv => TipRecoverable
  BY DEF IInv
<1>2. QED
  BY <1>1, InitIInv, StepIInv, PTL DEF Spec


LEMMA AlwaysIInv == Spec => []IInv
BY InitIInv, StepIInv, PTL DEF Spec

(***************************************************************************)
(* Every step of the store is a DurableStore step of the disk, or leaves   *)
(* the disk's blocks, states and tip pointer alone.                        *)
(***************************************************************************)
LEMMA StepRefines ==
    ASSUME IInv, [Next]_vars
    PROVE  [D!Next]_D!vars
<1>1. ASSUME NEW b \in Valid, ExecuteAndCommit(b) PROVE [D!Next]_D!vars
  BY <1>1 DEF ExecuteAndCommit, disk, D!vars
<1>2. CASE CrashRestart
  BY <1>2 DEF CrashRestart, disk, D!vars
<1>3. CASE UNCHANGED vars
  BY <1>3 DEF vars, D!vars
<1>4. CASE Flush
  <2> DEFINE w == Head(log)
  <2>1. log \in Seq(Write) /\ log # <<>> /\ w = log[1] /\ w \in Write
    BY <1>4 DEF IInv, TypeOK, Flush
  <2>2. /\ dblocks' = IF w.k = "block" THEN dblocks \cup {w.b} ELSE dblocks
        /\ dnodes' = IF w.k = "nodes" THEN dnodes \cup {w.b} ELSE dnodes
        /\ dtip' = IF w.k = "tip" THEN w.b ELSE dtip
    BY <1>4 DEF Flush
  <2>3. CASE w.k = "tip"
    <3>1. BlockBefore(1) = {} /\ NodesBefore(1) = {}
      BY DEF BlockBefore, NodesBefore
    <3>2. w.b \in dblocks /\ w.b \in dnodes
      BY <2>1, <2>3, <3>1 DEF IInv, LogOrdered
    <3>3. D!MoveTip
      BY <2>2, <2>3, <3>2 DEF D!MoveTip
    <3>4. QED
      BY <3>3 DEF D!Next
  <2>4. CASE w.k # "tip"
    <3>1. w.b \in Block /\ dblocks \subseteq Block /\ dnodes \subseteq Block
      BY <2>1 DEF Write, IInv, TypeOK
    <3>2. D!Save
      BY <2>2, <2>4, <3>1 DEF D!Save
    <3>3. QED
      BY <3>2 DEF D!Next
  <2>5. QED
    BY <2>3, <2>4
<1>5. QED
  BY <1>1, <1>2, <1>3, <1>4 DEF Next

(***************************************************************************)
(* The disk implements DurableStore for every block tree and any number of *)
(* crashes: nothing durable of a block or its state is lost, and the tip   *)
(* pointer commit_block writes last reaches the disk only after the block  *)
(* and the state it names.                                                 *)
(***************************************************************************)
THEOREM DiskRefinesDurableStore == Spec => DurableRefined
<1>1. Init => D!Init
  BY DEF Init, D!Init
<1>2. IInv /\ [Next]_vars => [D!Next]_D!vars
  BY StepRefines
<1>3. QED
  BY <1>1, <1>2, AlwaysIInv, PTL DEF Spec, DurableRefined, D!Spec

=============================================================================
