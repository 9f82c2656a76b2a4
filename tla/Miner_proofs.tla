--------------------------- MODULE Miner_proofs ----------------------------
(***************************************************************************)
(* Proofs about the miner, the sink and the network worker's signals: the  *)
(* control FSM never blocks in MinedWait without a wake-up on its way, and *)
(* a search on a stale tip always has an Update coming, for every block    *)
(* tree and every bound.                                                   *)
(***************************************************************************)
EXTENDS Miner, SequenceTheorems, TLAPS

USE ChainAssumption, MinedOnAssumption, NetAssumption

(***************************************************************************)
(* commit_block, with its early returns, keeps the store well typed.       *)
(***************************************************************************)
LEMMA CommitCallType ==
    ASSUME Chain!TypeOK, NEW b \in Block, CommitCall(b)
    PROVE  Chain!TypeOK'
<1>1. CASE Chain!ContainsBlock(b)
  BY <1>1 DEF CommitCall, Chain!TypeOK, chain
<1>2. CASE ~Chain!ContainsBlock(b)
  <2>1. Chain!CommitBlock(b)
    BY <1>2 DEF CommitCall
  <2>2. Parent[b] \in blocks
    BY <2>1 DEF Chain!CommitBlock, Chain!ContainsBlock
  <2>3. QED
    BY <2>1, <2>2 DEF Chain!CommitBlock, Chain!ContainsBlock, Chain!GetHeight,
                      Chain!TypeOK
<1>3. QED
  BY <1>1, <1>2

(* miner::new, with Blockchain::new on an empty store, is well typed.      *)
LEMMA InitType == Init => TypeOK
<1> SUFFICES ASSUME Init PROVE TypeOK
  OBVIOUS
<1>1. Chain!TypeOK
  BY DEF Init, Chain!Init, Chain!TypeOK
<1>2. ctrl \in Seq(Signal) /\ finished \in Seq(Block)
  BY DEF Init
<1>3. /\ mstate \in {"Paused", "Run", "MinedWait"}
      /\ mpc \in {"top", "pow"}
      /\ tmpl \in Block /\ sblk \in Block
      /\ spc \in {"recv", "commit", "notify"}
      /\ npc \in {"idle", "notify"}
      /\ api \in 0..MaxApi /\ net \in 0..MaxNet
  <2>1. tmpl \in Block /\ sblk \in Block
    BY ChainAssumption DEF Init
  <2>2. api \in 0..MaxApi /\ net \in 0..MaxNet
    BY NetAssumption DEF Init
  <2>3. QED
    BY <2>1, <2>2 DEF Init
<1>4. QED
  BY <1>1, <1>2, <1>3 DEF TypeOK

(* Every step of a thread, and every admin call, keeps the state typed.    *)
LEMMA NextType == TypeOK /\ [Next]_vars => TypeOK'
<1> SUFFICES ASSUME TypeOK, [Next]_vars PROVE TypeOK'
  OBVIOUS
<1>1. ASSUME NEW s \in Signal, ApiCall(s) PROVE TypeOK'
  BY <1>1 DEF ApiCall, TypeOK, Chain!TypeOK, chain
<1>2. CASE RecvPaused
  BY <1>2 DEF RecvPaused, TypeOK, Chain!TypeOK, chain
<1>3. CASE RecvMinedWait
  BY <1>3 DEF RecvMinedWait, TypeOK, Chain!TypeOK, chain
<1>4. CASE Iterate
  BY <1>4 DEF Iterate, TypeOK, Chain!TypeOK, chain
<1>5. CASE Found
  BY <1>5 DEF Found, TypeOK, Chain!TypeOK, chain
<1>6. CASE Interrupt
  BY <1>6 DEF Interrupt, TypeOK, Chain!TypeOK, chain
<1>7. CASE SinkRecv
  BY <1>7 DEF SinkRecv, TypeOK, Chain!TypeOK, chain
<1>8. CASE SinkCommit
  <2>1. Chain!TypeOK'
    BY <1>8, CommitCallType DEF SinkCommit, TypeOK
  <2>2. QED
    BY <1>8, <2>1 DEF SinkCommit, TypeOK
<1>9. CASE SinkNotify
  BY <1>9 DEF SinkNotify, TypeOK, Chain!TypeOK, chain, Signal
<1>10. ASSUME NEW b \in NetBlock, NetCommit(b) PROVE TypeOK'
  <2>1. b \in Block
    OBVIOUS
  <2>2. Chain!TypeOK'
    BY <1>10, <2>1, CommitCallType DEF NetCommit, TypeOK
  <2>3. QED
    BY <1>10, <2>2 DEF NetCommit, TypeOK
<1>11. CASE NetNotify
  BY <1>11 DEF NetNotify, TypeOK, Chain!TypeOK, chain, Signal
<1>12. CASE UNCHANGED vars
  BY <1>12 DEF vars, TypeOK, Chain!TypeOK
<1>13. QED
  BY <1>1, <1>2, <1>3, <1>4, <1>5, <1>6, <1>7, <1>8, <1>9, <1>10, <1>11,
     <1>12 DEF Next, MinerStep, SinkStep

(***************************************************************************)
(* Every state of the composed threads is well typed.                      *)
(***************************************************************************)
THEOREM TypeCorrect == Spec => []TypeOK
BY InitType, NextType, PTL DEF Spec

-----------------------------------------------------------------------------
(***************************************************************************)
(* The nonce search runs only in Run: Iterate starts it from Run and Found *)
(* leaves it for MinedWait, so the blocking receives of Paused and         *)
(* MinedWait never consume a signal while a template is being searched.    *)
(***************************************************************************)
PowInRun == mpc = "pow" => mstate = "Run"

IInv == TypeOK /\ PowInRun /\ MinedWaitHasWaker /\ FreshTemplate

(* Facts about Elems of a queue: a send adds one element, a receive takes  *)
(* the head.                                                               *)
LEMMA AppendElems ==
    ASSUME NEW S, NEW s \in Seq(S), NEW x \in S
    PROVE  Elems(Append(s, x)) = Elems(s) \cup {x}
<1>1. DOMAIN Append(s, x) = 1..(Len(s) + 1) /\ DOMAIN s = 1..Len(s)
  BY AppendProperties, LenProperties
<1>2. \A i \in 1..Len(s) : Append(s, x)[i] = s[i]
  BY AppendProperties
<1>3. Append(s, x)[Len(s) + 1] = x
  BY AppendProperties
<1>4. Len(s) \in Nat
  BY LenProperties
<1>5. QED
  BY <1>1, <1>2, <1>3, <1>4 DEF Elems

LEMMA TailElems ==
    ASSUME NEW S, NEW s \in Seq(S), s # <<>>
    PROVE  Elems(s) = Elems(Tail(s)) \cup {Head(s)}
<1>1. Len(s) \in Nat \ {0} /\ DOMAIN s = 1..Len(s)
  BY LenProperties, EmptySeq
<1>2. Tail(s) \in Seq(S) /\ Len(Tail(s)) = Len(s) - 1
      /\ \A i \in 1..Len(Tail(s)) : Tail(s)[i] = s[i + 1]
  BY HeadTailProperties
<1>3. DOMAIN Tail(s) = 1..(Len(s) - 1)
  BY <1>2, LenProperties
<1>4. Head(s) = s[1]
  OBVIOUS
<1>5. ASSUME NEW y \in Elems(s) PROVE y \in Elems(Tail(s)) \cup {Head(s)}
  <2>1. PICK i \in 1..Len(s) : y = s[i]
    BY <1>1 DEF Elems
  <2>2. CASE i = 1
    BY <2>1, <2>2, <1>4
  <2>3. CASE i # 1
    <3>1. i - 1 \in 1..Len(Tail(s)) /\ Tail(s)[i - 1] = s[i]
      BY <2>3, <1>1, <1>2
    <3>2. i - 1 \in DOMAIN Tail(s)
      BY <3>1, <1>2, <1>3
    <3>3. Tail(s)[i - 1] \in Elems(Tail(s))
      BY <3>2 DEF Elems
    <3>4. QED
      BY <2>1, <3>1, <3>3
  <2>4. QED
    BY <2>2, <2>3
<1>6. ASSUME NEW y \in Elems(Tail(s)) \cup {Head(s)} PROVE y \in Elems(s)
  <2>1. CASE y = Head(s)
    BY <2>1, <1>1, <1>4 DEF Elems
  <2>2. CASE y \in Elems(Tail(s))
    <3>1. PICK j \in 1..Len(Tail(s)) : y = Tail(s)[j]
      BY <2>2, <1>3, <1>2 DEF Elems
    <3>2. j + 1 \in DOMAIN s /\ y = s[j + 1]
      BY <3>1, <1>1, <1>2
    <3>3. QED
      BY <3>2 DEF Elems
  <2>3. QED
    BY <1>6, <2>1, <2>2
<1>7. QED
  BY <1>5, <1>6

(* The waker of MinedWait in terms of Elems.                               *)
LEMMA WakerElems ==
    ASSUME NEW S, NEW s \in Seq(S)
    PROVE  (\E i \in DOMAIN s : s[i] # "Stop") <=> Elems(s) \ {"Stop"} # {}
<1>1. ASSUME NEW i \in DOMAIN s, s[i] # "Stop" PROVE Elems(s) \ {"Stop"} # {}
  <2>1. s[i] \in Elems(s)
    BY DEF Elems
  <2>2. QED
    BY <1>1, <2>1
<1>2. ASSUME Elems(s) \ {"Stop"} # {} PROVE \E i \in DOMAIN s : s[i] # "Stop"
  <2>1. PICK y \in Elems(s) : y # "Stop"
    BY <1>2
  <2>2. PICK i \in DOMAIN s : y = s[i]
    BY DEF Elems
  <2>3. QED
    BY <2>1, <2>2
<1>3. QED
  BY <1>1, <1>2

(* MinedWaitHasWaker with the queued signals as a set.                     *)
WakerOf(c, m, f, sp) ==
    m = "MinedWait" => (Elems(c) \ {"Stop"} # {} \/ f # <<>> \/ sp # "recv")

LEMMA WakerForm ==
    ASSUME NEW c \in Seq(Signal), NEW m, NEW f, NEW sp
    PROVE  (m = "MinedWait" =>
              \/ \E i \in DOMAIN c : c[i] # "Stop"
              \/ f # <<>>
              \/ sp # "recv")
           <=> WakerOf(c, m, f, sp)
BY WakerElems DEF WakerOf

IInvE == TypeOK /\ PowInRun /\ WakerOf(ctrl, mstate, finished, spc)
         /\ FreshTemplate

(* The invariant, with the waker as a set, is preserved by every step.     *)
LEMMA IInvEStep == IInvE /\ [Next]_vars => IInvE'
<1> SUFFICES ASSUME IInvE, [Next]_vars PROVE IInvE'
  OBVIOUS
<1>0. TypeOK'
  BY NextType DEF IInvE
<1> DEFINE W == WakerOf(ctrl, mstate, finished, spc)
           Wp == WakerOf(ctrl', mstate', finished', spc')
<1> USE DEF IInvE
<1>1. ASSUME NEW s \in Signal, ApiCall(s) PROVE IInvE'
  <2>1. Elems(ctrl') = Elems(ctrl) \cup {s}
    BY <1>1, AppendElems DEF ApiCall, TypeOK
  <2>2. Wp
    BY <1>1, <2>1 DEF ApiCall, WakerOf
  <2>3. QED
    BY <1>0, <1>1, <2>1, <2>2 DEF ApiCall, PowInRun, FreshTemplate, chain
<1>2. CASE RecvPaused
  BY <1>0, <1>2 DEF RecvPaused, PowInRun, FreshTemplate, WakerOf
<1>3. CASE RecvMinedWait
  <2>0. mstate = "MinedWait" /\ mpc' = mpc
    BY <1>3 DEF RecvMinedWait
  <2>1. mpc = "top" /\ mpc' = "top"
    BY <2>0 DEF PowInRun, IInvE, TypeOK
  <2>2. Elems(ctrl) = Elems(ctrl') \cup {Head(ctrl)}
    BY <1>3, TailElems DEF RecvMinedWait, TypeOK
  <2>3. Wp
    BY <1>3, <2>2 DEF RecvMinedWait, WakerOf
  <2>4. QED
    BY <1>0, <2>1, <2>3 DEF PowInRun, FreshTemplate
<1>4. CASE Iterate
  BY <1>0, <1>4 DEF Iterate, PowInRun, FreshTemplate, WakerOf, chain
<1>5. CASE Found
  BY <1>0, <1>5 DEF Found, PowInRun, FreshTemplate, WakerOf
<1>6. CASE Interrupt
  BY <1>0, <1>6 DEF Interrupt, PowInRun, FreshTemplate, WakerOf
<1>7. CASE SinkRecv
  BY <1>0, <1>7 DEF SinkRecv, PowInRun, FreshTemplate, WakerOf, chain
<1>8. CASE SinkCommit
  BY <1>0, <1>8 DEF SinkCommit, PowInRun, FreshTemplate, WakerOf
<1>9. CASE SinkNotify
  <2>1. Elems(ctrl') = Elems(ctrl) \cup {"Update"}
    BY <1>9, AppendElems DEF SinkNotify, TypeOK, Signal
  <2>2. QED
    BY <1>0, <1>9, <2>1 DEF SinkNotify, PowInRun, FreshTemplate, WakerOf, chain
<1>10. ASSUME NEW b \in NetBlock, NetCommit(b) PROVE IInvE'
  BY <1>0, <1>10 DEF NetCommit, PowInRun, FreshTemplate, WakerOf
<1>11. CASE NetNotify
  <2>1. Elems(ctrl') = Elems(ctrl) \cup {"Update"}
    BY <1>11, AppendElems DEF NetNotify, TypeOK, Signal
  <2>2. QED
    BY <1>0, <1>11, <2>1 DEF NetNotify, PowInRun, FreshTemplate, WakerOf, chain
<1>12. CASE UNCHANGED vars
  BY <1>0, <1>12 DEF vars, PowInRun, FreshTemplate, WakerOf
<1>13. QED
  BY <1>1, <1>2, <1>3, <1>4, <1>5, <1>6, <1>7, <1>8, <1>9, <1>10, <1>11,
     <1>12 DEF Next, MinerStep, SinkStep

(***************************************************************************)
(* No lost wake-up: whenever the miner blocks in MinedWait a Start or      *)
(* Update is queued or the sink still has a block to commit and an Update *)
(* to send, for every block tree and every bound on the calls.             *)
(***************************************************************************)
THEOREM MinedWaitWoken == Spec => []MinedWaitHasWaker
<1>1. Init => IInvE
  BY InitType DEF Init, IInvE, PowInRun, WakerOf, FreshTemplate, Elems,
                  Chain!Init
<1>2. IInvE => MinedWaitHasWaker
  BY WakerForm DEF IInvE, TypeOK, MinedWaitHasWaker
<1>3. QED
  BY <1>1, <1>2, IInvEStep, PTL DEF Spec

(***************************************************************************)
(* A search on a stale template is always interrupted in time: while the   *)
(* miner searches on a parent that is no longer the tip, an Update is     *)
(* queued or the thread that moved the tip has still to send it.           *)
(***************************************************************************)
THEOREM StaleTemplateNoticed == Spec => []FreshTemplate
<1>1. Init => IInvE
  BY InitType DEF Init, IInvE, PowInRun, WakerOf, FreshTemplate, Elems,
                  Chain!Init
<1>2. QED
  BY <1>1, IInvEStep, PTL DEF Spec, IInvE

-----------------------------------------------------------------------------
(***************************************************************************)
(* The store refines Blockchain with the mined blocks among the accepted   *)
(* ones.  The sink commits the block it holds without executing it, so the *)
(* step argument needs every block the miner has sent and the sink has not *)
(* yet committed to be one this node mined: Found only sends               *)
(* MinedOn[tmpl], and SinkRecv moves the head of the channel into sblk.    *)
(***************************************************************************)
UncommittedMined == Uncommitted \subseteq MinedBlock

RInv == TypeOK /\ UncommittedMined

(* The constant Store substitutes for Valid meets Blockchain's assumption. *)
LEMMA StoreValidAssumption ==
    Valid \cup MinedBlock \subseteq Block \ {Genesis}
BY DEF MinedBlock

LEMMA RInvStep == RInv /\ [Next]_vars => RInv'
<1> SUFFICES ASSUME TypeOK, UncommittedMined, [Next]_vars
             PROVE  UncommittedMined'
  BY NextType DEF RInv
<1>1. CASE \E s \in Signal : ApiCall(s)
  BY <1>1 DEF ApiCall, UncommittedMined, Uncommitted
<1>2. CASE MinerStep
  <2>1. CASE Found
    <3>1. MinedOn[tmpl] \in MinedBlock /\ MinedOn[tmpl] \in Block
      BY <2>1 DEF Found, MinedBlock
    <3>2. Elems(finished') = Elems(finished) \cup {MinedOn[tmpl]}
      BY <2>1, <3>1, AppendElems DEF Found, TypeOK
    <3>3. QED
      BY <2>1, <3>1, <3>2 DEF Found, UncommittedMined, Uncommitted
  <2>2. CASE ~Found
    BY <1>2, <2>2 DEF MinerStep, RecvPaused, RecvMinedWait, Iterate,
                      Interrupt, UncommittedMined, Uncommitted
  <2>3. QED
    BY <2>1, <2>2
<1>3. CASE SinkRecv
  <2>1. Elems(finished) = Elems(finished') \cup {sblk'}
    BY <1>3, TailElems DEF SinkRecv, TypeOK
  <2>2. QED
    BY <1>3, <2>1 DEF SinkRecv, UncommittedMined, Uncommitted
<1>4. CASE SinkCommit \/ SinkNotify
  BY <1>4 DEF SinkCommit, SinkNotify, UncommittedMined, Uncommitted
<1>5. CASE \E b \in NetBlock : NetCommit(b)
  BY <1>5 DEF NetCommit, UncommittedMined, Uncommitted
<1>6. CASE NetNotify
  BY <1>6 DEF NetNotify, UncommittedMined, Uncommitted
<1>7. CASE UNCHANGED vars
  BY <1>7 DEF vars, UncommittedMined, Uncommitted
<1>8. QED
  BY <1>1, <1>2, <1>3, <1>4, <1>5, <1>6, <1>7 DEF Next, SinkStep

LEMMA AlwaysRInv == Spec => []RInv
<1>1. Init => RInv
  BY InitType DEF Init, RInv, UncommittedMined, Uncommitted, Elems
<1>2. QED
  BY <1>1, RInvStep, PTL DEF Spec

(* A commit_block call of a thread is a step of the store or a stutter     *)
(* when the block it commits is accepted or mined here.                    *)
LEMMA CommitCallRefines ==
    ASSUME NEW b \in Valid \cup MinedBlock, CommitCall(b)
    PROVE  [Store!Next]_chain
<1>1. CASE Chain!ContainsBlock(b)
  BY <1>1 DEF CommitCall, chain
<1>2. CASE ~Chain!ContainsBlock(b)
  <2>1. Store!CommitBlock(b)
    BY <1>2 DEF CommitCall, Chain!CommitBlock, Store!CommitBlock,
                Chain!ContainsBlock, Store!ContainsBlock, Chain!GetHeight,
                Store!GetHeight
  <2>2. Store!ExecuteOk(b)
    BY <2>1 DEF Store!CommitBlock, Store!ContainsBlock, Store!ExecuteOk
  <2>3. QED
    BY <2>1, <2>2 DEF Store!Next, Store!ExecuteAndCommit
<1>3. QED
  BY <1>1, <1>2

LEMMA StepRefines == RInv /\ [Next]_vars => [Store!Next]_chain
<1> SUFFICES ASSUME RInv, [Next]_vars PROVE [Store!Next]_chain
  OBVIOUS
<1>1. CASE SinkCommit
  <2>1. sblk \in MinedBlock
    BY <1>1 DEF SinkCommit, RInv, UncommittedMined, Uncommitted
  <2>2. QED
    BY <1>1, <2>1, CommitCallRefines DEF SinkCommit
<1>2. CASE \E b \in NetBlock : NetCommit(b)
  <2>1. PICK b \in NetBlock : NetCommit(b)
    BY <1>2
  <2>2. b \in Valid
    BY <2>1 DEF NetCommit, Chain!ExecuteOk
  <2>3. QED
    BY <2>1, <2>2, CommitCallRefines DEF NetCommit
<1>3. CASE ~SinkCommit /\ ~\E b \in NetBlock : NetCommit(b)
  BY <1>3 DEF Next, MinerStep, SinkStep, ApiCall, RecvPaused, RecvMinedWait,
              Iterate, Found, Interrupt, SinkRecv, SinkNotify, NetNotify,
              vars, chain
<1>4. QED
  BY <1>1, <1>2, <1>3

(***************************************************************************)
(* The sink and the network worker keep the store a Blockchain store:      *)
(* every change the node makes to it is commit_block of a block            *)
(* execute_block accepts (network worker) or of a block this node mined    *)
(* (sink, which skips execute_block), for every block tree and every      *)
(* bound.  No assumption makes the mined blocks valid: in the code none is *)
(* (their coinbase value is 0, miner/mod.rs 260-267).                      *)
(***************************************************************************)
THEOREM ChainRefinement == Spec => ChainRefined
<1>1. Init => Store!Init
  BY DEF Init, Chain!Init, Store!Init
<1>2. QED
  BY <1>1, AlwaysRInv, StepRefines, PTL
     DEF Spec, ChainRefined, Store!Spec, Store!vars, chain

(***************************************************************************)
(* Blockchain's proved invariants, carried to the whole node through the  *)
(* refinement: with the miner's sink and the network worker committing     *)
(* concurrently, and the sink committing blocks execute_block rejects, the *)
(* recorded heights stay the depths in the tree and the tip is a highest   *)
(* stored block.                                                           *)
(***************************************************************************)
CP == INSTANCE Blockchain_proofs WITH Valid <- Valid \cup MinedBlock

THEOREM NodeChainSafe ==
    Spec => /\ []Store!HeightConsistent
            /\ []Store!TipIsLongest
<1>1. Store!Spec => /\ []Store!HeightConsistent
                    /\ []Store!TipIsLongest
  BY StoreValidAssumption, CP!HeightsConsistent, CP!TipLongest, PTL
     DEF CP!Spec, Store!Spec, CP!Init, Store!Init, CP!Next, Store!Next,
         CP!vars, Store!vars, CP!ExecuteAndCommit, Store!ExecuteAndCommit,
         CP!ExecuteOk, Store!ExecuteOk, CP!CommitBlock, Store!CommitBlock,
         CP!ContainsBlock, Store!ContainsBlock, CP!GetHeight, Store!GetHeight,
         CP!HeightConsistent, Store!HeightConsistent, CP!TipIsLongest,
         Store!TipIsLongest
<1>2. QED
  BY <1>1, ChainRefinement, PTL DEF ChainRefined

=============================================================================
