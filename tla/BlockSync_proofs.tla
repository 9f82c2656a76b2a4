-------------------------- MODULE BlockSync_proofs --------------------------
(***************************************************************************)
(* Proofs about block propagation: the node's network workers, however     *)
(* their steps interleave and whatever blocks the peer sends, change the   *)
(* store only by commits of blocks execute_block accepted, so the store    *)
(* refines Blockchain and keeps its proved invariants.                     *)
(***************************************************************************)
EXTENDS BlockSync, SequenceTheorems, TLAPS

USE ChainAssumption

(* A commit_block call on a block execute_block accepted is a Blockchain   *)
(* step or, when another worker stored the block first, a stutter.         *)
LEMMA CommitCallRefines ==
    ASSUME NEW b, Executes(b), CommitCall(b)
    PROVE  [Chain!Next]_chain
<1>1. b \in Valid
  BY DEF Executes, Chain!ExecuteOk
<1>2. CASE Chain!ContainsBlock(b)
  BY <1>2 DEF CommitCall, chain
<1>3. CASE ~Chain!ContainsBlock(b)
  <2>1. Chain!CommitBlock(b)
    BY <1>3 DEF CommitCall
  <2>2. QED
    BY <1>1, <2>1 DEF Executes, Chain!Next, Chain!ExecuteAndCommit
<1>4. QED
  BY <1>2, <1>3

(* Every step of the node and the peer is a step of the store or leaves   *)
(* it alone: ExecBlock and SyncBlock commit only after execute_block      *)
(* succeeded, every other handler leaves the store unchanged.              *)
LEMMA StepRefines == [Next]_vars => [Chain!Next]_chain
<1> SUFFICES ASSUME [Next]_vars PROVE [Chain!Next]_chain
  OBVIOUS
<1>1. CASE PeerStep
  BY <1>1 DEF PeerStep, PeerAnnounce, PeerGetBlocks, PeerGetBlockchain, chain
<1>2. ASSUME NEW w \in Worker, ExecBlock(w) PROVE [Chain!Next]_chain
  <2>1. PICK b \in wk[w].queue :
          IF Executes(b)
            THEN /\ CommitCall(b)
                 /\ wk' = [wk EXCEPT ![w].pc = "drain", ![w].blk = b,
                                     ![w].queue = @ \ {b}]
            ELSE /\ UNCHANGED chain
                 /\ wk' = IF wk[w].queue = {b}
                            THEN NextOfLoop(w)
                            ELSE [wk EXCEPT ![w].queue = @ \ {b}]
    BY <1>2 DEF ExecBlock
  <2>2. CASE Executes(b)
    BY <2>1, <2>2, CommitCallRefines
  <2>3. CASE ~Executes(b)
    BY <2>1, <2>3 DEF chain
  <2>4. QED
    BY <2>2, <2>3
<1>3. ASSUME NEW w \in Worker, SyncBlock(w) PROVE [Chain!Next]_chain
  <2>1. CASE wk[w].rest # <<>> /\ Executes(Head(wk[w].rest))
    BY <1>3, <2>1, CommitCallRefines DEF SyncBlock
  <2>2. CASE ~(wk[w].rest # <<>> /\ Executes(Head(wk[w].rest)))
    BY <1>3, <2>2 DEF SyncBlock, chain
  <2>3. QED
    BY <2>1, <2>2
<1>4. ASSUME NEW w \in Worker,
             \/ RecvNewBlockHashes(w) \/ RecvBlocks(w) \/ CheckParent(w)
             \/ AddOrphan(w) \/ DrainOrphans(w) \/ RecvSendBlockchain(w)
      PROVE  [Chain!Next]_chain
  BY <1>4 DEF RecvNewBlockHashes, RecvBlocks, CheckParent, AddOrphan,
              DrainOrphans, RecvSendBlockchain, chain
<1>5. CASE UNCHANGED vars
  BY <1>5 DEF vars, chain
<1>6. QED
  BY <1>1, <1>2, <1>3, <1>4, <1>5 DEF Next, WorkerStep

(***************************************************************************)
(* The network workers implement commit_block's specification: every      *)
(* change to the store is the commit of a block execute_block accepts,    *)
(* for every block tree, every peer and any number of workers.             *)
(***************************************************************************)
THEOREM ChainRefinement == Spec => ChainRefined
<1>1. Init => Chain!Init
  BY DEF Init
<1>2. QED
  BY <1>1, StepRefines, PTL
     DEF Spec, ChainRefined, Chain!Spec, Chain!vars, chain

(***************************************************************************)
(* Blockchain's proved invariants, carried through the refinement: with   *)
(* workers executing and committing concurrently and a peer that sends    *)
(* invalid and orphan blocks, the recorded heights stay the depths in the *)
(* tree and the tip is a highest stored block.                            *)
(***************************************************************************)
CP == INSTANCE Blockchain_proofs

THEOREM SyncChainSafe ==
    Spec => /\ []Chain!HeightConsistent
            /\ []Chain!TipIsLongest
<1>1. Chain!Spec => /\ []Chain!HeightConsistent
                    /\ []Chain!TipIsLongest
  BY CP!HeightsConsistent, CP!TipLongest, PTL
     DEF CP!Spec, Chain!Spec, CP!Init, Chain!Init, CP!Next, Chain!Next,
         CP!vars, Chain!vars, CP!ExecuteAndCommit, Chain!ExecuteAndCommit,
         CP!ExecuteOk, Chain!ExecuteOk, CP!CommitBlock, Chain!CommitBlock,
         CP!ContainsBlock, Chain!ContainsBlock, CP!GetHeight, Chain!GetHeight,
         CP!HeightConsistent, Chain!HeightConsistent, CP!TipIsLongest,
         Chain!TipIsLongest
<1>2. QED
  BY <1>1, ChainRefinement, PTL DEF ChainRefined

-----------------------------------------------------------------------------
(***************************************************************************)
(* Orphan rescue.  OrphanRescued is not inductive alone; it needs what the *)
(* messages and the workers hold: every hash list the peer or the node     *)
(* sends names at most one block (the peer announces its blocks one by     *)
(* one, and the node asks for one parent at a time), every block in them  *)
(* is a block of the peer other than genesis, a block being buffered has  *)
(* a parent other than genesis, and a SendBlockchain batch is the peer's   *)
(* chain, which starts at genesis, so SyncBlock never commits.  Stored     *)
(* blocks are valid with their parents stored, and nothing is buffered     *)
(* under genesis, so a stored block with orphans executes when reached.   *)
(***************************************************************************)
ShortSeq(S) == {<<>>} \cup {<<x>> : x \in S}

PeerBlock == PeerBlocks \ {Genesis}

InboxMsg ==
    [type : {"NewBlockHashes"}, hashes : ShortSeq(PeerBlock)]
      \cup [type : {"Blocks"}, blocks : ShortSeq(PeerBlock)]
      \cup {SendBlockchain(LongestChainTo(PeerTip))}

PeerMsg == [type : {"GetBlocks"}, hashes : ShortSeq(PeerBlock)] \cup {GetBlockchain}

MsgOK == inbox \in Seq(InboxMsg) /\ toPeer \in Seq(PeerMsg)

WorkerOK(w) ==
    /\ wk[w].pc \in {"check", "orphan", "exec", "drain"} =>
          wk[w].rest \in ShortSeq(PeerBlock)
    /\ wk[w].pc \in {"orphan", "exec", "drain"} => wk[w].rest # <<>>
    /\ wk[w].pc = "orphan" =>
          wk[w].cur \in PeerBlock /\ Parent[wk[w].cur] # Genesis
    /\ wk[w].pc = "sync" => wk[w].rest = LongestChainTo(PeerTip)
    /\ wk[w].pc = "drain" => wk[w].blk \in blocks

StoredOK ==
    /\ Genesis \in blocks
    /\ \A b \in blocks \ {Genesis} : b \in Valid /\ Parent[b] \in blocks

RescueInv ==
    /\ TypeOK
    /\ MsgOK
    /\ \A w \in Worker : WorkerOK(w)
    /\ StoredOK
    /\ orphans[Genesis] = {}
    /\ OrphanRescued

(* A send adds one message to a channel, a receive takes its head.         *)
LEMMA AppendElems ==
    ASSUME NEW S, NEW s \in Seq(S), NEW x \in S
    PROVE  Elems(Append(s, x)) = Elems(s) \cup {x}
<1>1. DOMAIN Append(s, x) = 1..(Len(s) + 1) /\ DOMAIN s = 1..Len(s)
  BY AppendProperties, LenProperties
<1>2. \A i \in 1..Len(s) : Append(s, x)[i] = s[i]
  BY AppendProperties
<1>3. Append(s, x)[Len(s) + 1] = x
  BY AppendProperties
<1>4. Len(s) \in Nat
  BY LenProperties
<1>5. QED
  BY <1>1, <1>2, <1>3, <1>4 DEF Elems

LEMMA TailElems ==
    ASSUME NEW S, NEW s \in Seq(S), s # <<>>
    PROVE  Elems(s) = Elems(Tail(s)) \cup {Head(s)}
<1>1. Len(s) \in Nat \ {0} /\ DOMAIN s = 1..Len(s)
  BY LenProperties, EmptySeq
<1>2. Tail(s) \in Seq(S) /\ Len(Tail(s)) = Len(s) - 1
      /\ \A i \in 1..Len(Tail(s)) : Tail(s)[i] = s[i + 1]
  BY HeadTailProperties
<1>3. DOMAIN Tail(s) = 1..(Len(s) - 1)
  BY <1>2, LenProperties
<1>4. ASSUME NEW y \in Elems(s) PROVE y \in Elems(Tail(s)) \cup {Head(s)}
  <2>1. PICK i \in 1..Len(s) : y = s[i]
    BY <1>1 DEF Elems
  <2>2. CASE i = 1
    BY <2>1, <2>2
  <2>3. CASE i # 1
    <3>1. i - 1 \in DOMAIN Tail(s) /\ Tail(s)[i - 1] = s[i]
      BY <2>3, <1>1, <1>2, <1>3
    <3>2. QED
      BY <2>1, <3>1 DEF Elems
  <2>4. QED
    BY <2>2, <2>3
<1>5. ASSUME NEW y \in Elems(Tail(s)) PROVE y \in Elems(s)
  <2>1. PICK j \in 1..Len(Tail(s)) : y = Tail(s)[j]
    BY <1>3, <1>2 DEF Elems
  <2>2. j + 1 \in DOMAIN s /\ y = s[j + 1]
    BY <2>1, <1>1, <1>2
  <2>3. QED
    BY <2>2 DEF Elems
<1>6. Head(s) \in Elems(s)
  BY <1>1 DEF Elems
<1>7. QED
  BY <1>4, <1>5, <1>6

(* A hash list of at most one block.                                       *)
LEMMA ShortSeqFacts ==
    ASSUME NEW S, NEW s \in ShortSeq(S)
    PROVE  /\ s \in Seq(S)
           /\ Len(s) <= 1
           /\ s = <<>> => Elems(s) = {}
           /\ s # <<>> => /\ s = <<Head(s)>> /\ Head(s) = s[1]
                          /\ Head(s) \in S /\ Tail(s) = <<>>
                          /\ Elems(s) = {Head(s)}
<1>1. CASE s = <<>>
  BY <1>1 DEF Elems
<1>2. CASE s # <<>>
  <2>1. PICK x \in S : s = <<x>>
    BY <1>2 DEF ShortSeq
  <2>2. QED
    BY <2>1 DEF Elems
<1>3. QED
  BY <1>1, <1>2

(* The filter loop on a list of at most one hash keeps it or empties it.   *)
LEMMA FilterShort ==
    ASSUME NEW S, NEW s \in Seq(S), Len(s) <= 1, NEW X, NEW in \in BOOLEAN
    PROVE  Filter(s, X, in) = IF s # <<>> /\ (s[1] \in X) = in THEN s ELSE <<>>
<1> DEFINE G(g) == [i \in 0..Len(s) |->
                      IF i = 0 THEN <<>>
                      ELSE IF (s[i] \in X) = in THEN Append(g[i - 1], s[i])
                                                ELSE g[i - 1]]
           R == IF s # <<>> /\ (s[1] \in X) = in THEN s ELSE <<>>
<1>1. Len(s) = 0 \/ Len(s) = 1
  <2>1. Len(s) \in Nat
    BY LenProperties
  <2>2. \A k \in Nat : k <= 1 => k = 0 \/ k = 1
    OBVIOUS
  <2>3. QED
    BY <2>1, <2>2, Zenon
<1>2. ASSUME NEW g, g = G(g) PROVE g[Len(s)] = R
  <2>1. CASE Len(s) = 0
    BY <2>1, <1>2 DEF G, R
  <2>2. CASE Len(s) = 1
    <3>1. s = <<s[1]>> /\ Append(<<>>, s[1]) = s
      BY <2>2
    <3>5. s # <<>>
      BY <2>2
    <3>2. g[0] = <<>>
      BY <1>2, <2>2 DEF G
    <3>3. g[1] = IF (s[1] \in X) = in THEN Append(g[0], s[1]) ELSE g[0]
      BY <1>2, <2>2 DEF G
    <3>4. QED
      BY <2>2, <3>1, <3>2, <3>3, <3>5 DEF R
  <2>3. QED
    BY <1>1, <2>1, <2>2, Zenon
<1>3. \E g : g = G(g)
  <2> DEFINE w == [i \in 0..Len(s) |-> IF i = 0 THEN <<>> ELSE R]
  <2>1. CASE Len(s) = 0
    <3>1. w = G(w)
      BY <2>1 DEF G, R
    <3>2. QED
      BY <3>1
  <2>2. CASE Len(s) = 1
    <3>1. s = <<s[1]>> /\ Append(<<>>, s[1]) = s
      BY <2>2
    <3>2. w = G(w)
      BY <2>2, <3>1 DEF G, R
    <3>3. QED
      BY <3>2
  <2>3. QED
    BY <1>1, <2>1, <2>2, Zenon
<1>4. (CHOOSE g : g = G(g))[Len(s)] = R
  BY <1>2, <1>3, Zenon
<1>5. QED
  BY <1>4, Zenon DEF Filter, G

(* What the node's filters send: a hash list of at most one peer block.    *)
LEMMA FilterShortSeq ==
    ASSUME NEW S, NEW s \in ShortSeq(S), NEW X, NEW in \in BOOLEAN
    PROVE  /\ Filter(s, X, in) \in ShortSeq(S)
           /\ s # <<>> /\ (s[1] \in X) = in => Filter(s, X, in) = s
<1>1. s \in Seq(S) /\ Len(s) <= 1
  BY ShortSeqFacts
<1>2. QED
  BY <1>1, FilterShort DEF ShortSeq

(* An orphan block p is rescued when a GetBlocks for it is on the way to   *)
(* the peer, its Blocks answer is on the way back, or a worker holds it.   *)
Rescued(p) == Requested(p) \/ Delivered(p) \/ \E w \in Worker : InHand(w, p)

(* A commit of a block execute_block accepts keeps the store well formed   *)
(* and adds exactly that block.                                            *)
LEMMA CommitStore ==
    ASSUME Chain!TypeOK, StoredOK, NEW b \in Block, Executes(b), CommitCall(b)
    PROVE  /\ Chain!TypeOK'
           /\ blocks' = blocks \cup {b}
           /\ StoredOK'
<1>1. b \in Valid /\ Parent[b] \in blocks /\ b # Genesis
  BY DEF Executes, Chain!ExecuteOk
<1>2. CASE Chain!ContainsBlock(b)
  BY <1>2 DEF CommitCall, Chain!TypeOK, chain, Chain!ContainsBlock, StoredOK
<1>3. CASE ~Chain!ContainsBlock(b)
  <2>1. Chain!CommitBlock(b)
    BY <1>3 DEF CommitCall
  <2>2. blocks' = blocks \cup {b}
    BY <2>1 DEF Chain!CommitBlock
  <2>3. Chain!TypeOK'
    BY <2>1, <1>1 DEF Chain!CommitBlock, Chain!ContainsBlock, Chain!GetHeight,
                      Chain!TypeOK
  <2>4. StoredOK'
    BY <2>2, <1>1 DEF StoredOK
  <2>5. QED
    BY <2>2, <2>3, <2>4
<1>4. QED
  BY <1>2, <1>3

(* The peer's channels and the worker states hold only what the handlers  *)
(* can put there.                                                          *)
LEMMA MsgFacts ==
    ASSUME NEW s \in ShortSeq(PeerBlock)
    PROVE  /\ NewBlockHashes(s) \in InboxMsg /\ Blocks(s) \in InboxMsg
           /\ GetBlocks(s) \in PeerMsg
           /\ NewBlockHashes(s).type = "NewBlockHashes"
           /\ Blocks(s).type = "Blocks" /\ Blocks(s).blocks = s
           /\ GetBlocks(s).type = "GetBlocks" /\ GetBlocks(s).hashes = s
BY DEF InboxMsg, PeerMsg, NewBlockHashes, Blocks, GetBlocks

(* The peer announcing a block keeps the invariant: the announcement only *)
(* adds to the node's channel.                                            *)
LEMMA PeerAnnounceStep ==
    ASSUME RescueInv, NEW b \in PeerBlocks \ {Genesis}, PeerAnnounce(b)
    PROVE  RescueInv'
<1> USE PeerAssumption
<1>1. <<b>> \in ShortSeq(PeerBlock)
  BY DEF ShortSeq, PeerBlock
<1>2. inbox \in Seq(InboxMsg) /\ NewBlockHashes(<<b>>) \in InboxMsg
  BY <1>1, MsgFacts DEF RescueInv, MsgOK
<1>3. Elems(inbox') = Elems(inbox) \cup {NewBlockHashes(<<b>>)}
  BY <1>2, AppendElems DEF PeerAnnounce
<1>4. TypeOK' /\ MsgOK'
  BY <1>2 DEF PeerAnnounce, RescueInv, TypeOK, Chain!TypeOK, chain, MsgOK
<1>5. (\A w \in Worker : WorkerOK(w))' /\ StoredOK' /\ orphans'[Genesis] = {}
  BY DEF PeerAnnounce, RescueInv, WorkerOK, StoredOK, chain
<1>6. OrphanRescued'
  <2> SUFFICES ASSUME NEW p \in blocks', orphans'[p] # {} PROVE Rescued(p)'
    BY DEF OrphanRescued, Rescued
  <2>1. Rescued(p)
    BY DEF PeerAnnounce, chain, RescueInv, OrphanRescued, Rescued
  <2>2. QED
    BY <2>1, <1>3 DEF PeerAnnounce, Rescued, Requested, Delivered, InHand
<1>7. QED
  BY <1>4, <1>5, <1>6 DEF RescueInv

(* The peer answering GetBlocks turns a requested orphan parent into a    *)
(* delivered one: it stores every block of the peer's chain.              *)
LEMMA PeerGetBlocksStep ==
    ASSUME RescueInv, PeerGetBlocks
    PROVE  RescueInv'
<1> USE PeerAssumption
<1> DEFINE hs == Head(toPeer).hashes
           found == Filter(hs, PeerBlocks, TRUE)
<1>1. toPeer \in Seq(PeerMsg) /\ toPeer # <<>> /\ inbox \in Seq(InboxMsg)
  BY DEF RescueInv, MsgOK, PeerGetBlocks
<1>2. Head(toPeer) \in [type : {"GetBlocks"}, hashes : ShortSeq(PeerBlock)]
  <2>1. Head(toPeer) \in PeerMsg
    BY <1>1, HeadTailProperties
  <2>2. QED
    BY <2>1 DEF PeerMsg, GetBlockchain, PeerGetBlocks
<1>3. hs \in ShortSeq(PeerBlock)
  BY <1>2
<1>4. found \in ShortSeq(PeerBlock) /\ (hs # <<>> => found = hs)
  <2>1. hs # <<>> => hs[1] \in PeerBlocks
    BY <1>3, ShortSeqFacts DEF PeerBlock
  <2>2. QED
    BY <1>3, <2>1, FilterShortSeq
<1>5. Blocks(found) \in InboxMsg
  BY <1>4, MsgFacts
<1>0. inbox' = IF found # <<>> THEN Append(inbox, Blocks(found)) ELSE inbox
  BY DEF PeerGetBlocks, found, hs
<1>6. Elems(toPeer) = Elems(Tail(toPeer)) \cup {Head(toPeer)}
  BY <1>1, TailElems
<1>7. Elems(inbox) \subseteq Elems(inbox')
      /\ (found # <<>> => Blocks(found) \in Elems(inbox'))
  <2>1. CASE found # <<>>
    <3>0. \A m \in InboxMsg : Elems(Append(inbox, m)) = Elems(inbox) \cup {m}
      BY <1>1, AppendElems
    <3>1. Elems(Append(inbox, Blocks(found))) = Elems(inbox) \cup {Blocks(found)}
      BY <1>5, <3>0, Zenon
    <3>2. QED
      BY <2>1, <1>0, <3>1
  <2>2. CASE found = <<>>
    BY <2>2, <1>0
  <2>3. QED
    BY <2>1, <2>2
<1>8. TypeOK' /\ MsgOK'
  <2>1. toPeer' \in Seq(PeerMsg)
    BY <1>1, HeadTailProperties DEF PeerGetBlocks
  <2>2. inbox' \in Seq(InboxMsg)
    <3>0. \A m \in InboxMsg : Append(inbox, m) \in Seq(InboxMsg)
      BY <1>1, AppendProperties
    <3>1. Append(inbox, Blocks(found)) \in Seq(InboxMsg)
      BY <1>5, <3>0, Zenon
    <3>2. QED
      BY <1>0, <1>1, <3>1
  <2>3. QED
    BY <2>1, <2>2 DEF PeerGetBlocks, RescueInv, TypeOK, Chain!TypeOK, chain, MsgOK
<1>9. (\A w \in Worker : WorkerOK(w))' /\ StoredOK' /\ orphans'[Genesis] = {}
  BY DEF PeerGetBlocks, RescueInv, WorkerOK, StoredOK, chain
<1>10. OrphanRescued'
  <2> SUFFICES ASSUME NEW p \in blocks', orphans'[p] # {} PROVE Rescued(p)'
    BY DEF OrphanRescued, Rescued
  <2>1. Rescued(p)
    BY DEF PeerGetBlocks, chain, RescueInv, OrphanRescued, Rescued
  <2>2. CASE p \in Elems(hs)
    <3>1. hs # <<>> /\ found = hs
      BY <2>2, <1>3, <1>4, ShortSeqFacts
    <3>2. Blocks(found) \in Elems(inbox') /\ Blocks(found).type = "Blocks"
          /\ p \in Elems(Blocks(found).blocks)
      BY <2>2, <3>1, <1>7, <1>4, MsgFacts
    <3>3. QED
      BY <3>2 DEF Rescued, Delivered
  <2>3. CASE p \notin Elems(hs)
    <3>1. Requested(p) => Requested(p)'
      BY <2>3, <1>6 DEF Requested, PeerGetBlocks
    <3>2. Delivered(p) => Delivered(p)'
      BY <1>7 DEF Delivered
    <3>3. (\E w \in Worker : InHand(w, p)) => (\E w \in Worker : InHand(w, p))'
      BY DEF PeerGetBlocks, InHand
    <3>4. QED
      BY <2>1, <3>1, <3>2, <3>3 DEF Rescued
  <2>4. QED
    BY <2>2, <2>3
<1>11. QED
  BY <1>8, <1>9, <1>10 DEF RescueInv

(* The peer answering GetBlockchain takes no GetBlocks off its channel.   *)
LEMMA PeerGetBlockchainStep ==
    ASSUME RescueInv, PeerGetBlockchain
    PROVE  RescueInv'
<1> USE PeerAssumption
<1>1. toPeer \in Seq(PeerMsg) /\ toPeer # <<>> /\ inbox \in Seq(InboxMsg)
  BY DEF RescueInv, MsgOK, PeerGetBlockchain
<1>2. SendBlockchain(LongestChainTo(PeerTip)) \in InboxMsg
  BY DEF InboxMsg
<1>3. Elems(inbox') = Elems(inbox) \cup {SendBlockchain(LongestChainTo(PeerTip))}
  BY <1>1, <1>2, AppendElems DEF PeerGetBlockchain
<1>4. Elems(toPeer) = Elems(Tail(toPeer)) \cup {Head(toPeer)}
  BY <1>1, TailElems
<1>5. TypeOK' /\ MsgOK'
  <2>1. toPeer' \in Seq(PeerMsg) /\ inbox' \in Seq(InboxMsg)
    BY <1>1, <1>2, HeadTailProperties DEF PeerGetBlockchain
  <2>2. QED
    BY <2>1 DEF PeerGetBlockchain, RescueInv, TypeOK, Chain!TypeOK, chain, MsgOK
<1>6. (\A w \in Worker : WorkerOK(w))' /\ StoredOK' /\ orphans'[Genesis] = {}
  BY DEF PeerGetBlockchain, RescueInv, WorkerOK, StoredOK, chain
<1>7. OrphanRescued'
  <2> SUFFICES ASSUME NEW p \in blocks', orphans'[p] # {} PROVE Rescued(p)'
    BY DEF OrphanRescued, Rescued
  <2>1. Rescued(p)
    BY DEF PeerGetBlockchain, chain, RescueInv, OrphanRescued, Rescued
  <2>2. Requested(p) => Requested(p)'
    BY <1>4 DEF Requested, PeerGetBlockchain
  <2>3. Delivered(p) => Delivered(p)'
    BY <1>3 DEF Delivered
  <2>4. (\E w \in Worker : InHand(w, p)) => (\E w \in Worker : InHand(w, p))'
    BY DEF PeerGetBlockchain, InHand
  <2>5. QED
    BY <2>1, <2>2, <2>3, <2>4 DEF Rescued
<1>8. QED
  BY <1>5, <1>6, <1>7 DEF RescueInv

(* A handler that may send one message keeps the channel's contents.      *)
LEMMA MaybeAppend ==
    ASSUME NEW S, NEW s \in Seq(S), NEW c \in BOOLEAN, NEW x \in S
    PROVE  /\ (IF c THEN Append(s, x) ELSE s) \in Seq(S)
           /\ Elems(s) \subseteq Elems(IF c THEN Append(s, x) ELSE s)
           /\ c => x \in Elems(IF c THEN Append(s, x) ELSE s)
<1>1. Append(s, x) \in Seq(S)
  BY AppendProperties
<1>2. QED
  BY <1>1, AppendElems

(* A receive takes the head off a channel and keeps the rest.             *)
LEMMA TakeHead ==
    ASSUME NEW S, NEW s \in Seq(S), s # <<>>
    PROVE  /\ Tail(s) \in Seq(S) /\ Head(s) \in S
           /\ Elems(s) = Elems(Tail(s)) \cup {Head(s)}
BY HeadTailProperties, TailElems

(* The NewBlockHashes handler takes no Blocks message off the node's      *)
(* channel.                                                               *)
LEMMA RecvNewBlockHashesStep ==
    ASSUME RescueInv, NEW w \in Worker, RecvNewBlockHashes(w)
    PROVE  RescueInv'
<1> DEFINE hs == Head(inbox).hashes
           missing == Filter(hs, blocks, FALSE)
<1>1. inbox \in Seq(InboxMsg) /\ inbox # <<>> /\ toPeer \in Seq(PeerMsg)
  BY DEF RescueInv, MsgOK, RecvNewBlockHashes
<1>2. Tail(inbox) \in Seq(InboxMsg) /\ Head(inbox) \in InboxMsg
      /\ Elems(inbox) = Elems(Tail(inbox)) \cup {Head(inbox)}
  BY <1>1, TakeHead
<1>3. Head(inbox).type = "NewBlockHashes"
  BY DEF RecvNewBlockHashes
<1>4. hs \in ShortSeq(PeerBlock)
  BY <1>2, <1>3 DEF InboxMsg, SendBlockchain
<1>5. GetBlocks(missing) \in PeerMsg
  <2>1. missing \in ShortSeq(PeerBlock)
    BY <1>4, FilterShortSeq
  <2>2. QED
    BY <2>1, MsgFacts
<1>6. toPeer' = IF missing # <<>> THEN Append(toPeer, GetBlocks(missing)) ELSE toPeer
  BY DEF RecvNewBlockHashes, missing, hs
<1>7. toPeer' \in Seq(PeerMsg) /\ Elems(toPeer) \subseteq Elems(toPeer')
  <2>1. \A m \in PeerMsg, c \in BOOLEAN :
          /\ (IF c THEN Append(toPeer, m) ELSE toPeer) \in Seq(PeerMsg)
          /\ Elems(toPeer) \subseteq Elems(IF c THEN Append(toPeer, m) ELSE toPeer)
    BY <1>1, MaybeAppend
  <2>2. (missing # <<>>) \in BOOLEAN
    OBVIOUS
  <2>3. QED
    BY <1>5, <1>6, <2>1, <2>2, Zenon
<1>8. TypeOK' /\ MsgOK'
  BY <1>2, <1>7 DEF RecvNewBlockHashes, RescueInv, TypeOK, Chain!TypeOK, chain, MsgOK
<1>9. (\A v \in Worker : WorkerOK(v))' /\ StoredOK' /\ orphans'[Genesis] = {}
  BY DEF RecvNewBlockHashes, RescueInv, WorkerOK, StoredOK, chain
<1>10. OrphanRescued'
  <2> SUFFICES ASSUME NEW p \in blocks', orphans'[p] # {} PROVE Rescued(p)'
    BY DEF OrphanRescued, Rescued
  <2>1. Rescued(p)
    BY DEF RecvNewBlockHashes, chain, RescueInv, OrphanRescued, Rescued
  <2>2. Requested(p) => Requested(p)'
    BY <1>7 DEF Requested
  <2>3. Delivered(p) => Delivered(p)'
    BY <1>2, <1>3 DEF Delivered, RecvNewBlockHashes
  <2>4. (\E v \in Worker : InHand(v, p)) => (\E v \in Worker : InHand(v, p))'
    BY DEF RecvNewBlockHashes, InHand
  <2>5. QED
    BY <2>1, <2>2, <2>3, <2>4 DEF Rescued
<1>11. QED
  BY <1>8, <1>9, <1>10 DEF RescueInv

(* The Blocks handler moves a delivered block into the worker's hands.    *)
LEMMA RecvBlocksStep ==
    ASSUME RescueInv, NEW w \in Worker, RecvBlocks(w)
    PROVE  RescueInv'
<1> DEFINE bs == Head(inbox).blocks
<1>1. inbox \in Seq(InboxMsg) /\ inbox # <<>>
  BY DEF RescueInv, MsgOK, RecvBlocks
<1>2. Tail(inbox) \in Seq(InboxMsg) /\ Head(inbox) \in InboxMsg
      /\ Elems(inbox) = Elems(Tail(inbox)) \cup {Head(inbox)}
  BY <1>1, TakeHead
<1>3. bs \in ShortSeq(PeerBlock)
  BY <1>2 DEF InboxMsg, SendBlockchain, RecvBlocks
<1>4. bs \in Seq(Block)
  <2>1. bs \in Seq(PeerBlock)
    BY <1>3, ShortSeqFacts
  <2>2. PeerBlock \subseteq Block
    BY PeerAssumption DEF PeerBlock
  <2>3. QED
    BY <2>1, <2>2, SeqMonotonic
<1>5. wk' = [wk EXCEPT ![w].pc = "check", ![w].rest = bs]
  BY DEF RecvBlocks
<1>6. wk[w].pc = "idle"
  BY DEF RecvBlocks
<1>0. /\ wk' \in [Worker -> [pc : PC, rest : Seq(Block), cur : Block,
                             queue : SUBSET Block, blk : Block]]
      /\ wk'[w] = [pc |-> "check", rest |-> bs, cur |-> wk[w].cur,
                   queue |-> wk[w].queue, blk |-> wk[w].blk]
      /\ \A v \in Worker \ {w} : wk'[v] = wk[v]
  BY <1>4, <1>5 DEF RescueInv, TypeOK, PC
<1>7. TypeOK' /\ MsgOK'
  BY <1>2, <1>0 DEF RecvBlocks, RescueInv, TypeOK, Chain!TypeOK, chain, MsgOK
<1>8. \A v \in Worker : WorkerOK(v)'
  BY <1>3, <1>0 DEF RescueInv, WorkerOK, RecvBlocks, chain
<1>9. StoredOK' /\ orphans'[Genesis] = {}
  BY DEF RecvBlocks, RescueInv, StoredOK, chain
<1>10. OrphanRescued'
  <2> SUFFICES ASSUME NEW p \in blocks', orphans'[p] # {} PROVE Rescued(p)'
    BY DEF OrphanRescued, Rescued
  <2>1. Rescued(p)
    BY DEF RecvBlocks, chain, RescueInv, OrphanRescued, Rescued
  <2>2. Requested(p) => Requested(p)'
    BY DEF Requested, RecvBlocks
  <2>3. Delivered(p) => Delivered(p)' \/ InHand(w, p)'
    <3>1. Delivered(p) /\ ~Delivered(p)' => p \in Elems(bs)
      BY <1>2 DEF Delivered, RecvBlocks
    <3>2. p \in Elems(bs) => InHand(w, p)'
      BY <1>0 DEF InHand
    <3>3. QED
      BY <3>1, <3>2
  <2>4. \A v \in Worker : InHand(v, p) => InHand(v, p)'
    BY <1>0, <1>6 DEF InHand
  <2>5. QED
    BY <2>1, <2>2, <2>3, <2>4 DEF Rescued
<1>11. QED
  BY <1>7, <1>8, <1>9, <1>10 DEF RescueInv

(* A stored block other than genesis executes again: it is valid and its  *)
(* parent is stored.                                                       *)
LEMMA StoredExecutes ==
    ASSUME StoredOK, NEW p \in blocks, p # Genesis
    PROVE  Executes(p) /\ Chain!ContainsBlock(Parent[p])
BY DEF StoredOK, Executes, Chain!ExecuteOk, Chain!ContainsBlock

(* The parent check: a stored block with orphans has a stored parent, so  *)
(* it is never taken for an orphan and stays in the worker's queue.       *)
LEMMA CheckParentStep ==
    ASSUME RescueInv, NEW w \in Worker, CheckParent(w)
    PROVE  RescueInv'
<1> USE PeerAssumption
<1>1. wk[w].pc = "check" /\ wk[w].rest \in ShortSeq(PeerBlock)
  BY DEF CheckParent, RescueInv, WorkerOK
<1>2. wk[w] \in [pc : PC, rest : Seq(Block), cur : Block, queue : SUBSET Block,
                 blk : Block]
  BY DEF RescueInv, TypeOK
<1>3. UNCHANGED <<blocks, height, tip, orphans, inbox, toPeer, announced>>
  BY DEF CheckParent, chain
<1>4. CASE wk[w].rest = <<>>
  <2>1. wk' = [wk EXCEPT ![w] = Idle]
    BY <1>4 DEF CheckParent
  <2>2. /\ wk' \in [Worker -> [pc : PC, rest : Seq(Block), cur : Block,
                               queue : SUBSET Block, blk : Block]]
        /\ wk'[w] = Idle /\ \A v \in Worker \ {w} : wk'[v] = wk[v]
    BY <2>1 DEF RescueInv, TypeOK, Idle, PC
  <2>3. ~\E p \in Block : InHand(w, p)
    BY <1>1, <1>4, ShortSeqFacts DEF InHand
  <2>4. TypeOK' /\ MsgOK' /\ StoredOK' /\ orphans'[Genesis] = {}
    BY <1>3, <2>2 DEF RescueInv, TypeOK, Chain!TypeOK, MsgOK, StoredOK
  <2>5. \A v \in Worker : WorkerOK(v)'
    BY <1>3, <2>2 DEF RescueInv, WorkerOK, Idle
  <2>6. OrphanRescued'
    <3> SUFFICES ASSUME NEW p \in blocks', orphans'[p] # {} PROVE Rescued(p)'
      BY DEF OrphanRescued, Rescued
    <3>1. Rescued(p) /\ p \in Block
      BY <1>3 DEF RescueInv, OrphanRescued, Rescued, TypeOK, Chain!TypeOK
    <3>2. QED
      BY <1>3, <2>2, <2>3, <3>1 DEF Rescued, Requested, Delivered, InHand
  <2>7. QED
    BY <2>4, <2>5, <2>6 DEF RescueInv
<1>5. CASE wk[w].rest # <<>>
  <2> DEFINE b == Head(wk[w].rest)
             npc == IF b # Genesis /\ Chain!ContainsBlock(Parent[b])
                      THEN "exec" ELSE "orphan"
  <2>1. b \in PeerBlock /\ Elems(wk[w].rest) = {b} /\ Tail(wk[w].rest) = <<>>
    BY <1>1, <1>5, ShortSeqFacts
  <2>2. b \in Block /\ b # Genesis /\ Genesis \in blocks
    BY <2>1 DEF PeerBlock, RescueInv, StoredOK
  <2>3. /\ wk' \in [Worker -> [pc : PC, rest : Seq(Block), cur : Block,
                               queue : SUBSET Block, blk : Block]]
        /\ wk'[w] = [pc |-> npc, rest |-> wk[w].rest, cur |-> b,
                     queue |-> {b}, blk |-> wk[w].blk]
        /\ \A v \in Worker \ {w} : wk'[v] = wk[v]
    BY <1>2, <1>5, <2>2 DEF CheckParent, RescueInv, TypeOK, PC
  <2>4. npc = "orphan" => Parent[b] # Genesis
    BY <2>2 DEF Chain!ContainsBlock
  <2>5. TypeOK' /\ MsgOK' /\ StoredOK' /\ orphans'[Genesis] = {}
    BY <1>3, <2>3 DEF RescueInv, TypeOK, Chain!TypeOK, MsgOK, StoredOK
  <2>6. \A v \in Worker : WorkerOK(v)'
    BY <1>1, <1>3, <1>5, <2>1, <2>3, <2>4 DEF RescueInv, WorkerOK
  <2>7. OrphanRescued'
    <3> SUFFICES ASSUME NEW p \in blocks', orphans'[p] # {} PROVE Rescued(p)'
      BY DEF OrphanRescued, Rescued
    <3>1. Rescued(p) /\ p # Genesis
      BY <1>3 DEF RescueInv, OrphanRescued, Rescued
    <3>2. InHand(w, p) => p = b
      BY <1>1, <2>1 DEF InHand
    <3>3. p = b => npc = "exec"
      BY <1>3, <3>1, StoredExecutes DEF RescueInv
    <3>4. InHand(w, p) => InHand(w, p)'
      BY <2>3, <3>2, <3>3 DEF InHand
    <3>5. QED
      BY <1>3, <2>3, <3>1, <3>4 DEF Rescued, Requested, Delivered, InHand
  <2>8. QED
    BY <2>5, <2>6, <2>7 DEF RescueInv
<1>6. QED
  BY <1>4, <1>5

(* Buffering an orphan sends GetBlocks for its parent, so the parent is   *)
(* requested whether or not another worker has stored it meanwhile.       *)
LEMMA AddOrphanStep ==
    ASSUME RescueInv, NEW w \in Worker, AddOrphan(w)
    PROVE  RescueInv'
<1> USE PeerAssumption
<1> DEFINE b == wk[w].cur
           m == GetBlocks(<<Parent[b]>>)
<1>1. wk[w].pc = "orphan" /\ wk[w].rest \in ShortSeq(PeerBlock) /\ wk[w].rest # <<>>
      /\ b \in PeerBlock /\ Parent[b] # Genesis
  BY DEF AddOrphan, RescueInv, WorkerOK
<1>2. Parent[b] \in PeerBlock /\ Parent[b] \in Block /\ b \in Block
  BY <1>1 DEF PeerBlock
<1>3. Tail(wk[w].rest) = <<>>
  BY <1>1, ShortSeqFacts
<1>4. m \in PeerMsg /\ m.type = "GetBlocks" /\ Parent[b] \in Elems(m.hashes)
  <2>1. <<Parent[b]>> \in ShortSeq(PeerBlock)
    BY <1>2 DEF ShortSeq
  <2>2. QED
    BY <2>1, MsgFacts DEF Elems
<1>5. toPeer \in Seq(PeerMsg)
  BY DEF RescueInv, MsgOK
<1>6. toPeer' \in Seq(PeerMsg) /\ Elems(toPeer') = Elems(toPeer) \cup {m}
  BY <1>4, <1>5, AppendElems, AppendProperties DEF AddOrphan
<1>7. orphans' = [orphans EXCEPT ![Parent[b]] = @ \cup {b}]
  BY DEF AddOrphan
<1>0. wk' = [wk EXCEPT ![w].pc = "check", ![w].rest = Tail(@)]
  BY DEF AddOrphan
<1>8. /\ wk' \in [Worker -> [pc : PC, rest : Seq(Block), cur : Block,
                             queue : SUBSET Block, blk : Block]]
      /\ wk'[w] = [pc |-> "check", rest |-> <<>>, cur |-> b,
                   queue |-> wk[w].queue, blk |-> wk[w].blk]
      /\ \A v \in Worker \ {w} : wk'[v] = wk[v]
  <2>1. wk[w] \in [pc : PC, rest : Seq(Block), cur : Block, queue : SUBSET Block,
                   blk : Block]
    BY DEF RescueInv, TypeOK
  <2>2. wk'[w] = [pc |-> "check", rest |-> Tail(wk[w].rest), cur |-> b,
                  queue |-> wk[w].queue, blk |-> wk[w].blk]
    BY <1>0, <2>1 DEF RescueInv, TypeOK, b
  <2>3. \A v \in Worker \ {w} : wk'[v] = wk[v]
    BY <1>0 DEF RescueInv, TypeOK
  <2>4. DOMAIN wk' = Worker /\ wk \in [Worker -> [pc : PC, rest : Seq(Block),
                        cur : Block, queue : SUBSET Block, blk : Block]]
    BY <1>0 DEF RescueInv, TypeOK
  <2>5. wk'[w] \in [pc : PC, rest : Seq(Block), cur : Block, queue : SUBSET Block,
                    blk : Block]
    <3>1. <<>> \in Seq(Block) /\ "check" \in PC
      BY DEF PC
    <3>2. wk'[w] = [pc |-> "check", rest |-> <<>>, cur |-> wk[w].cur,
                    queue |-> wk[w].queue, blk |-> wk[w].blk]
      BY <1>3, <2>2 DEF b
    <3>3. QED
      BY <2>1, <3>1, <3>2
  <2>6. \A v \in Worker : wk'[v] \in [pc : PC, rest : Seq(Block), cur : Block,
                                      queue : SUBSET Block, blk : Block]
    BY <2>3, <2>4, <2>5
  <2>7. wk' \in [Worker -> [pc : PC, rest : Seq(Block), cur : Block,
                             queue : SUBSET Block, blk : Block]]
    BY <1>0, <2>4, <2>6
  <2>8. QED
    BY <1>3, <2>2, <2>3, <2>7
<1>9. UNCHANGED <<blocks, height, tip, inbox, announced>>
  BY DEF AddOrphan, chain
<1>10. TypeOK' /\ MsgOK' /\ StoredOK' /\ orphans'[Genesis] = {}
  BY <1>1, <1>2, <1>6, <1>7, <1>8, <1>9 DEF RescueInv, TypeOK, Chain!TypeOK, MsgOK,
                                            StoredOK
<1>11. \A v \in Worker : WorkerOK(v)'
  <2>1. <<>> \in ShortSeq(PeerBlock)
    BY DEF ShortSeq
  <2>2. QED
    BY <1>8, <1>9, <2>1 DEF RescueInv, WorkerOK
<1>12. OrphanRescued'
  <2> SUFFICES ASSUME NEW p \in blocks', orphans'[p] # {} PROVE Rescued(p)'
    BY DEF OrphanRescued, Rescued
  <2>1. CASE p = Parent[b]
    BY <2>1, <1>4, <1>6 DEF Rescued, Requested
  <2>2. CASE p # Parent[b]
    <3>1. orphans[p] # {}
      BY <2>2, <1>7, <1>9 DEF RescueInv, TypeOK
    <3>2. Rescued(p)
      BY <3>1, <1>9 DEF RescueInv, OrphanRescued, Rescued
    <3>3. ~InHand(w, p)
      BY <1>1, <1>3 DEF InHand, Elems
    <3>4. QED
      BY <3>2, <3>3, <1>6, <1>8, <1>9 DEF Rescued, Requested, Delivered, InHand
  <2>3. QED
    BY <2>1, <2>2
<1>13. QED
  BY <1>10, <1>11, <1>12 DEF RescueInv

(* The local state of one worker thread.                                  *)
WR == [pc : PC, rest : Seq(Block), cur : Block, queue : SUBSET Block, blk : Block]

(* A worker state is the record of its five fields.                       *)
LEMMA WREta ==
    ASSUME NEW e \in WR
    PROVE  e = [pc |-> e.pc, rest |-> e.rest, cur |-> e.cur, queue |-> e.queue,
                blk |-> e.blk]
BY DEF WR

(* The two field updates of a worker state the handlers make: a new pc     *)
(* with a new queue, or with a new list of blocks.                        *)
LEMMA WRSetQueue ==
    ASSUME NEW e \in WR, NEW a \in PC, NEW x \in SUBSET Block
    PROVE  [e EXCEPT !.pc = a, !.queue = x]
             = [pc |-> a, rest |-> e.rest, cur |-> e.cur, queue |-> x, blk |-> e.blk]
<1> DEFINE f == [e EXCEPT !.pc = a, !.queue = x]
<1>1. f \in WR
  BY DEF WR
<1>2. f = [pc |-> f.pc, rest |-> f.rest, cur |-> f.cur, queue |-> f.queue,
           blk |-> f.blk]
  BY <1>1, WREta, Zenon
<1>3. f.pc = a /\ f.rest = e.rest /\ f.cur = e.cur /\ f.queue = x /\ f.blk = e.blk
  BY DEF WR
<1>4. QED
  BY <1>2, <1>3, Zenon

LEMMA WRSetRest ==
    ASSUME NEW e \in WR, NEW a \in PC, NEW x \in Seq(Block)
    PROVE  [e EXCEPT !.pc = a, !.rest = x]
             = [pc |-> a, rest |-> x, cur |-> e.cur, queue |-> e.queue, blk |-> e.blk]
<1> DEFINE f == [e EXCEPT !.pc = a, !.rest = x]
<1>1. f \in WR
  BY DEF WR
<1>2. f = [pc |-> f.pc, rest |-> f.rest, cur |-> f.cur, queue |-> f.queue,
           blk |-> f.blk]
  BY <1>1, WREta, Zenon
<1>3. f.pc = a /\ f.rest = x /\ f.cur = e.cur /\ f.queue = e.queue /\ f.blk = e.blk
  BY DEF WR
<1>4. QED
  BY <1>2, <1>3, Zenon

(* A handler step of worker w changes w's local state only.               *)
LEMMA WkUpdate ==
    ASSUME wk \in [Worker -> WR], NEW w \in Worker, NEW r \in WR,
           wk' = [wk EXCEPT ![w] = r]
    PROVE  /\ wk' \in [Worker -> WR]
           /\ wk'[w] = r
           /\ \A v \in Worker \ {w} : wk'[v] = wk[v]
BY DEF WR

(* Executing a queued block: a commit leaves the block in the worker's    *)
(* hands for draining; a failure cannot be of a stored block with         *)
(* orphans, since such a block executes.                                  *)
LEMMA ExecBlockStep ==
    ASSUME RescueInv, NEW w \in Worker, ExecBlock(w)
    PROVE  RescueInv'
<1> USE PeerAssumption
<1>1. /\ wk[w].pc = "exec" /\ wk[w].rest \in ShortSeq(PeerBlock) /\ wk[w].rest # <<>>
      /\ Tail(wk[w].rest) = <<>> /\ wk[w] \in WR /\ wk \in [Worker -> WR]
  <2>1. wk[w].pc = "exec" /\ wk[w].rest \in ShortSeq(PeerBlock) /\ wk[w].rest # <<>>
    BY DEF ExecBlock, RescueInv, WorkerOK
  <2>2. QED
    BY <2>1, ShortSeqFacts DEF RescueInv, TypeOK, WR
<1>2. UNCHANGED <<orphans, inbox, toPeer, announced>>
  BY DEF ExecBlock
<1>3. \A p \in Block : InHand(w, p) => p \in wk[w].queue
  BY <1>1 DEF InHand, Elems
<1>4. PICK b \in wk[w].queue :
        IF Executes(b)
          THEN /\ CommitCall(b)
               /\ wk' = [wk EXCEPT ![w].pc = "drain", ![w].blk = b,
                                   ![w].queue = @ \ {b}]
          ELSE /\ UNCHANGED chain
               /\ wk' = IF wk[w].queue = {b}
                          THEN NextOfLoop(w)
                          ELSE [wk EXCEPT ![w].queue = @ \ {b}]
  BY DEF ExecBlock
<1>5. b \in Block
  BY <1>1 DEF WR
<1>6. CASE Executes(b)
  <2> DEFINE r == [pc |-> "drain", rest |-> wk[w].rest, cur |-> wk[w].cur,
                   queue |-> wk[w].queue \ {b}, blk |-> b]
  <2>1. CommitCall(b)
    BY <1>4, <1>6
  <2>2. Chain!TypeOK' /\ blocks' = blocks \cup {b} /\ StoredOK'
    BY <1>5, <1>6, <2>1, CommitStore DEF RescueInv, TypeOK
  <2>3. r \in WR /\ wk' = [wk EXCEPT ![w] = r]
    BY <1>1, <1>4, <1>5, <1>6 DEF WR, PC
  <2>4. wk' \in [Worker -> WR] /\ wk'[w] = r /\ \A v \in Worker \ {w} : wk'[v] = wk[v]
    BY <1>1, <2>3, WkUpdate
  <2>5. TypeOK' /\ MsgOK' /\ orphans'[Genesis] = {}
    BY <1>2, <2>2, <2>4 DEF RescueInv, TypeOK, MsgOK, WR
  <2>6. \A v \in Worker : WorkerOK(v)'
    BY <1>1, <2>2, <2>4 DEF RescueInv, WorkerOK
  <2>7. OrphanRescued'
    <3> SUFFICES ASSUME NEW p \in blocks', orphans'[p] # {} PROVE Rescued(p)'
      BY DEF OrphanRescued, Rescued
    <3>1. CASE p = b
      BY <3>1, <2>4 DEF Rescued, InHand
    <3>2. CASE p # b
      <4>1. p \in blocks /\ p \in Block /\ Rescued(p)
        BY <3>2, <1>2, <2>2 DEF RescueInv, OrphanRescued, Rescued, TypeOK,
                                Chain!TypeOK
      <4>2. InHand(w, p) => InHand(w, p)'
        BY <3>2, <4>1, <1>3, <2>4 DEF InHand
      <4>3. QED
        BY <4>1, <4>2, <1>2, <2>4 DEF Rescued, Requested, Delivered, InHand
    <3>3. QED
      BY <3>1, <3>2
  <2>8. QED
    BY <2>2, <2>5, <2>6, <2>7 DEF RescueInv
<1>7. CASE ~Executes(b)
  <2> DEFINE r == IF wk[w].queue = {b}
                    THEN [pc |-> "check", rest |-> <<>>, cur |-> wk[w].cur,
                          queue |-> {}, blk |-> wk[w].blk]
                    ELSE [pc |-> "exec", rest |-> wk[w].rest, cur |-> wk[w].cur,
                          queue |-> wk[w].queue \ {b}, blk |-> wk[w].blk]
  <2>1. UNCHANGED chain
    BY <1>4, <1>7
  <2>2. r \in WR /\ wk' = [wk EXCEPT ![w] = r]
    <3>1. CASE wk[w].queue = {b}
      BY <1>1, <1>4, <1>7, <3>1 DEF NextOfLoop, WR, PC
    <3>2. CASE wk[w].queue # {b}
      BY <1>1, <1>4, <1>7, <3>2 DEF WR, PC
    <3>3. QED
      BY <3>1, <3>2
  <2>3. wk' \in [Worker -> WR] /\ wk'[w] = r /\ \A v \in Worker \ {w} : wk'[v] = wk[v]
    BY <1>1, <2>2, WkUpdate
  <2>4. TypeOK' /\ MsgOK' /\ StoredOK' /\ orphans'[Genesis] = {}
    BY <1>2, <2>1, <2>3 DEF RescueInv, TypeOK, Chain!TypeOK, MsgOK, StoredOK, WR,
                            chain
  <2>5. \A v \in Worker : WorkerOK(v)'
    <3>1. <<>> \in ShortSeq(PeerBlock)
      BY DEF ShortSeq
    <3>2. QED
      BY <1>1, <2>1, <2>3, <3>1 DEF RescueInv, WorkerOK, chain
  <2>6. OrphanRescued'
    <3> SUFFICES ASSUME NEW p \in blocks', orphans'[p] # {} PROVE Rescued(p)'
      BY DEF OrphanRescued, Rescued
    <3>1. p \in blocks /\ p \in Block /\ Rescued(p) /\ p # Genesis
      BY <1>2, <2>1 DEF RescueInv, OrphanRescued, Rescued, TypeOK, Chain!TypeOK,
                        chain
    <3>2. p # b
      BY <3>1, <1>7, StoredExecutes DEF RescueInv
    <3>3. InHand(w, p) => InHand(w, p)'
      BY <3>2, <3>1, <1>1, <1>3, <2>3 DEF InHand
    <3>4. QED
      BY <3>1, <3>3, <1>2, <2>1, <2>3 DEF Rescued, Requested, Delivered, InHand, chain
  <2>7. QED
    BY <2>4, <2>5, <2>6 DEF RescueInv
<1>8. QED
  BY <1>6, <1>7

(* Draining empties the buffer of the committed block and queues its      *)
(* orphans.                                                               *)
LEMMA DrainOrphansStep ==
    ASSUME RescueInv, NEW w \in Worker, DrainOrphans(w)
    PROVE  RescueInv'
<1> DEFINE b == wk[w].blk
           q == wk[w].queue \cup orphans[b]
           r == IF q = {} THEN [pc |-> "check", rest |-> <<>>, cur |-> wk[w].cur,
                                queue |-> {}, blk |-> b]
                          ELSE [pc |-> "exec", rest |-> wk[w].rest, cur |-> wk[w].cur,
                                queue |-> q, blk |-> b]
<1>1. /\ wk[w].pc = "drain" /\ wk[w].rest \in ShortSeq(PeerBlock) /\ wk[w].rest # <<>>
      /\ Tail(wk[w].rest) = <<>> /\ wk[w] \in WR /\ wk \in [Worker -> WR]
  <2>1. wk[w].pc = "drain" /\ wk[w].rest \in ShortSeq(PeerBlock) /\ wk[w].rest # <<>>
    BY DEF DrainOrphans, RescueInv, WorkerOK
  <2>2. QED
    BY <2>1, ShortSeqFacts DEF RescueInv, TypeOK, WR
<1>2. b \in Block /\ q \subseteq Block
  BY <1>1 DEF RescueInv, TypeOK, WR
<1>3. orphans' = [orphans EXCEPT ![b] = {}] /\ UNCHANGED <<chain, inbox, toPeer, announced>>
  BY DEF DrainOrphans
<1>4. r \in WR /\ wk' = [wk EXCEPT ![w] = r]
  <2>0. wk' = IF q = {} THEN NextOfLoop(w)
                        ELSE [wk EXCEPT ![w].pc = "exec", ![w].queue = q]
    BY DEF DrainOrphans, q, b
  <2>1. CASE q = {}
    <3>1. wk' = [wk EXCEPT ![w].pc = "check", ![w].rest = Tail(@), ![w].queue = {}]
      BY <2>0, <2>1 DEF NextOfLoop
    <3>2. QED
      BY <1>1, <1>2, <2>1, <3>1 DEF WR, PC, r, b
  <2>2. CASE q # {}
    <3>1. wk' = [wk EXCEPT ![w].pc = "exec", ![w].queue = q]
      BY <2>0, <2>2
    <3>2. r = [pc |-> "exec", rest |-> wk[w].rest, cur |-> wk[w].cur,
               queue |-> q, blk |-> wk[w].blk]
      BY <2>2 DEF r, b
    <3>3. r \in WR
      BY <1>1, <1>2, <3>2 DEF WR, PC
    <3>4. \A x \in SUBSET Block :
            [wk EXCEPT ![w].pc = "exec", ![w].queue = x]
              = [wk EXCEPT ![w] = [pc |-> "exec", rest |-> wk[w].rest,
                                   cur |-> wk[w].cur, queue |-> x,
                                   blk |-> wk[w].blk]]
      <4> SUFFICES ASSUME NEW x \in SUBSET Block
                   PROVE  [wk EXCEPT ![w].pc = "exec", ![w].queue = x]
                            = [wk EXCEPT ![w] = [pc |-> "exec", rest |-> wk[w].rest,
                                                 cur |-> wk[w].cur, queue |-> x,
                                                 blk |-> wk[w].blk]]
        OBVIOUS
      <4>1. [wk[w] EXCEPT !.pc = "exec", !.queue = x]
              = [pc |-> "exec", rest |-> wk[w].rest, cur |-> wk[w].cur, queue |-> x,
                 blk |-> wk[w].blk]
        BY <1>1, WRSetQueue DEF PC
      <4>2. QED
        BY <4>1
    <3>5. QED
      BY <1>2, <3>1, <3>2, <3>3, <3>4, Zenon
  <2>3. QED
    BY <2>1, <2>2
<1>5. wk' \in [Worker -> WR] /\ wk'[w] = r /\ \A v \in Worker \ {w} : wk'[v] = wk[v]
  BY <1>1, <1>4, WkUpdate
<1>6. \A p \in Block : orphans'[p] = IF p = b THEN {} ELSE orphans[p]
  BY <1>2, <1>3 DEF RescueInv, TypeOK
<1>7. TypeOK' /\ MsgOK' /\ StoredOK' /\ orphans'[Genesis] = {}
  <2>1. orphans' \in [Block -> SUBSET Block]
    BY <1>3 DEF RescueInv, TypeOK
  <2>2. QED
    BY <1>3, <1>5, <1>6, <2>1 DEF RescueInv, TypeOK, Chain!TypeOK, MsgOK, StoredOK,
                                  WR, chain
<1>8. \A v \in Worker : WorkerOK(v)'
  <2>1. <<>> \in ShortSeq(PeerBlock)
    BY DEF ShortSeq
  <2>2. QED
    BY <1>1, <1>3, <1>5, <2>1 DEF RescueInv, WorkerOK, chain
<1>9. OrphanRescued'
  <2> SUFFICES ASSUME NEW p \in blocks', orphans'[p] # {} PROVE Rescued(p)'
    BY DEF OrphanRescued, Rescued
  <2>1. p \in blocks /\ p \in Block
    BY <1>3 DEF RescueInv, TypeOK, Chain!TypeOK, chain
  <2>2. p # b /\ orphans[p] # {}
    BY <2>1, <1>6
  <2>3. Rescued(p)
    BY <2>1, <2>2 DEF RescueInv, OrphanRescued, Rescued
  <2>4. InHand(w, p) => InHand(w, p)'
    <3>1. InHand(w, p) => p \in wk[w].queue
      BY <1>1, <2>2 DEF InHand, Elems
    <3>2. QED
      BY <3>1, <1>5 DEF InHand
  <2>5. QED
    BY <2>3, <2>4, <1>3, <1>5 DEF Rescued, Requested, Delivered, InHand
<1>10. QED
  BY <1>7, <1>8, <1>9 DEF RescueInv

(* The SendBlockchain handler takes no Blocks message off the node's      *)
(* channel.                                                               *)
LEMMA RecvSendBlockchainStep ==
    ASSUME RescueInv, NEW w \in Worker, RecvSendBlockchain(w)
    PROVE  RescueInv'
<1> DEFINE lc == LongestChainTo(PeerTip)
           r == [pc |-> "sync", rest |-> lc, cur |-> wk[w].cur,
                 queue |-> wk[w].queue, blk |-> wk[w].blk]
<1>1. inbox \in Seq(InboxMsg) /\ inbox # <<>> /\ wk[w].pc = "idle"
  BY DEF RescueInv, MsgOK, RecvSendBlockchain
<1>2. Tail(inbox) \in Seq(InboxMsg) /\ Head(inbox) \in InboxMsg
      /\ Elems(inbox) = Elems(Tail(inbox)) \cup {Head(inbox)}
  BY <1>1, TakeHead
<1>3. Head(inbox) = SendBlockchain(lc)
  BY <1>2 DEF InboxMsg, RecvSendBlockchain, SendBlockchain
<1>4. lc \in Seq(Block)
  <2>1. lc \in Seq(PeerBlocks) /\ PeerBlocks \subseteq Block
    BY PeerChainAssumption, PeerAssumption
  <2>2. QED
    BY <2>1, SeqMonotonic, Zenon
<1>5. r \in WR /\ wk' = [wk EXCEPT ![w] = r]
  <2>1. Head(inbox).blocks = lc
    BY <1>3 DEF SendBlockchain
  <2>2. wk' = [wk EXCEPT ![w].pc = "sync", ![w].rest = lc]
    BY <2>1 DEF RecvSendBlockchain
  <2>3. wk[w] \in WR
    BY DEF RescueInv, TypeOK, WR
  <2>4. r \in WR
    BY <1>4, <2>3 DEF WR, PC, r
  <2>5. \A x \in Seq(Block) :
          [wk EXCEPT ![w].pc = "sync", ![w].rest = x]
            = [wk EXCEPT ![w] = [pc |-> "sync", rest |-> x, cur |-> wk[w].cur,
                                 queue |-> wk[w].queue, blk |-> wk[w].blk]]
    <3> SUFFICES ASSUME NEW x \in Seq(Block)
                 PROVE  [wk EXCEPT ![w].pc = "sync", ![w].rest = x]
                          = [wk EXCEPT ![w] = [pc |-> "sync", rest |-> x,
                                               cur |-> wk[w].cur, queue |-> wk[w].queue,
                                               blk |-> wk[w].blk]]
      OBVIOUS
    <3>1. [wk[w] EXCEPT !.pc = "sync", !.rest = x]
            = [pc |-> "sync", rest |-> x, cur |-> wk[w].cur, queue |-> wk[w].queue,
               blk |-> wk[w].blk]
      BY <2>3, WRSetRest DEF PC
    <3>2. QED
      BY <3>1
  <2>6. QED
    BY <1>4, <2>2, <2>4, <2>5, Zenon DEF r
<1>6. wk' \in [Worker -> WR] /\ wk'[w] = r /\ \A v \in Worker \ {w} : wk'[v] = wk[v]
  BY <1>5, WkUpdate DEF RescueInv, TypeOK, WR
<1>7. TypeOK' /\ MsgOK' /\ StoredOK' /\ orphans'[Genesis] = {}
  BY <1>2, <1>6 DEF RecvSendBlockchain, RescueInv, TypeOK, Chain!TypeOK, MsgOK,
                    StoredOK, WR, chain
<1>8. \A v \in Worker : WorkerOK(v)'
  <2>1. blocks' = blocks
    BY DEF RecvSendBlockchain, chain
  <2>2. QED
    BY <1>6, <2>1 DEF RescueInv, WorkerOK
<1>9. OrphanRescued'
  <2> SUFFICES ASSUME NEW p \in blocks', orphans'[p] # {} PROVE Rescued(p)'
    BY DEF OrphanRescued, Rescued
  <2>1. Rescued(p)
    BY DEF RecvSendBlockchain, chain, RescueInv, OrphanRescued, Rescued
  <2>2. Delivered(p) => Delivered(p)'
    BY <1>2, <1>3 DEF Delivered, RecvSendBlockchain, SendBlockchain
  <2>3. \A v \in Worker : InHand(v, p) => InHand(v, p)'
    BY <1>1, <1>6 DEF InHand
  <2>4. QED
    BY <2>1, <2>2, <2>3 DEF RecvSendBlockchain, Rescued, Requested
<1>10. QED
  BY <1>7, <1>8, <1>9 DEF RescueInv

(* The SendBlockchain loop stops at genesis (its first block) and stores  *)
(* nothing.                                                               *)
LEMMA SyncBlockStep ==
    ASSUME RescueInv, NEW w \in Worker, SyncBlock(w)
    PROVE  RescueInv'
<1>1. wk[w].pc = "sync" /\ wk[w].rest = LongestChainTo(PeerTip)
  BY DEF SyncBlock, RescueInv, WorkerOK
<1>2. wk[w].rest # <<>> /\ Head(wk[w].rest) = Genesis
  BY <1>1, PeerChainAssumption
<1>3. ~Executes(Head(wk[w].rest))
  BY <1>2 DEF Executes
<1>4. UNCHANGED <<blocks, height, tip, orphans, inbox, toPeer, announced>>
      /\ wk' = [wk EXCEPT ![w] = Idle]
  BY <1>3 DEF SyncBlock, chain
<1>5. Idle \in WR
  BY DEF Idle, WR, PC
<1>6. wk' \in [Worker -> WR] /\ wk'[w] = Idle /\ \A v \in Worker \ {w} : wk'[v] = wk[v]
  BY <1>4, <1>5, WkUpdate DEF RescueInv, TypeOK, WR
<1>7. TypeOK' /\ MsgOK' /\ StoredOK' /\ orphans'[Genesis] = {}
  BY <1>4, <1>6 DEF RescueInv, TypeOK, Chain!TypeOK, MsgOK, StoredOK, WR
<1>8. \A v \in Worker : WorkerOK(v)'
  BY <1>4, <1>6 DEF RescueInv, WorkerOK, Idle
<1>9. OrphanRescued'
  <2> SUFFICES ASSUME NEW p \in blocks', orphans'[p] # {} PROVE Rescued(p)'
    BY DEF OrphanRescued, Rescued
  <2>1. Rescued(p)
    BY <1>4 DEF RescueInv, OrphanRescued, Rescued
  <2>2. QED
    BY <2>1, <1>1, <1>4, <1>6 DEF Rescued, Requested, Delivered, InHand
<1>10. QED
  BY <1>7, <1>8, <1>9 DEF RescueInv

(* Blockchain::new and the worker start-up satisfy the inductive          *)
(* invariant.                                                             *)
LEMMA RescueInit ==
    Init => RescueInv
<1> SUFFICES ASSUME Init PROVE RescueInv
  OBVIOUS
<1>1. Chain!TypeOK /\ blocks = {Genesis}
  BY DEF Init, Chain!Init, Chain!TypeOK
<1>2. Idle \in WR /\ wk = [w \in Worker |-> Idle]
  BY DEF Init, Idle, WR, PC
<1>3. TypeOK
  BY <1>1, <1>2 DEF Init, TypeOK, WR
<1>4. MsgOK
  <2>1. GetBlockchain \in PeerMsg
    BY DEF PeerMsg
  <2>2. QED
    BY <2>1, PeerAssumption DEF Init, MsgOK
<1>5. \A w \in Worker : WorkerOK(w)
  BY <1>2 DEF WorkerOK, Idle
<1>6. StoredOK /\ orphans[Genesis] = {} /\ OrphanRescued
  BY <1>1 DEF Init, StoredOK, OrphanRescued
<1>7. QED
  BY <1>3, <1>4, <1>5, <1>6 DEF RescueInv

(* Every step of the peer and of the worker threads keeps the inductive   *)
(* invariant.                                                             *)
LEMMA RescueStep ==
    RescueInv /\ [Next]_vars => RescueInv'
<1> SUFFICES ASSUME RescueInv, [Next]_vars PROVE RescueInv'
  OBVIOUS
<1>1. ASSUME NEW b \in PeerBlocks \ {Genesis}, PeerAnnounce(b) PROVE RescueInv'
  BY <1>1, PeerAnnounceStep
<1>2. CASE PeerGetBlocks
  BY <1>2, PeerGetBlocksStep
<1>3. CASE PeerGetBlockchain
  BY <1>3, PeerGetBlockchainStep
<1>4. ASSUME NEW w \in Worker, WorkerStep(w) PROVE RescueInv'
  <2>1. CASE RecvNewBlockHashes(w)
    BY <2>1, RecvNewBlockHashesStep
  <2>2. CASE RecvBlocks(w)
    BY <2>2, RecvBlocksStep
  <2>3. CASE CheckParent(w)
    BY <2>3, CheckParentStep
  <2>4. CASE AddOrphan(w)
    BY <2>4, AddOrphanStep
  <2>5. CASE ExecBlock(w)
    BY <2>5, ExecBlockStep
  <2>6. CASE DrainOrphans(w)
    BY <2>6, DrainOrphansStep
  <2>7. CASE RecvSendBlockchain(w)
    BY <2>7, RecvSendBlockchainStep
  <2>8. CASE SyncBlock(w)
    BY <2>8, SyncBlockStep
  <2>9. QED
    BY <1>4, <2>1, <2>2, <2>3, <2>4, <2>5, <2>6, <2>7, <2>8 DEF WorkerStep
<1>5. CASE UNCHANGED vars
  BY <1>5 DEF vars, RescueInv, TypeOK, Chain!TypeOK, MsgOK, WorkerOK, StoredOK,
              OrphanRescued, Requested, Delivered, InHand
<1>6. QED
  BY <1>1, <1>2, <1>3, <1>4, <1>5 DEF Next, PeerStep

(* The strengthened invariant RescueInv holds in every reachable state.   *)
THEOREM RescueInvariant == Spec => []RescueInv
<1>1. Init => RescueInv
  BY RescueInit
<1>2. RescueInv /\ [Next]_vars => RescueInv'
  BY RescueStep
<1>3. QED
  BY <1>1, <1>2, PTL DEF Spec

(* Orphan rescue: in every reachable state, a stored block that blocks    *)
(* wait on in orphan_buffer is being fetched from the peer, is in a Blocks *)
(* message on its way to the node, or is held by a worker thread that will *)
(* execute it and drain its orphans. It holds although the parent check of *)
(* the Blocks handler and the commit of the parent by another worker race  *)
(* (worker.rs): the GetBlocks that add-orphan sends for the parent closes  *)
(* the window.                                                             *)
THEOREM OrphanAlwaysRescued == Spec => []OrphanRescued
BY RescueInvariant, PTL DEF RescueInv

(* Type correctness of the block handlers of the network worker threads.  *)
THEOREM SyncTypeCorrect == Spec => []TypeOK
BY RescueInvariant, PTL DEF RescueInv

=============================================================================
