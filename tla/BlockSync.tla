------------------------------ MODULE BlockSync ------------------------------
(***************************************************************************)
(* Block propagation between a node and one peer: the block handlers of   *)
(* src/network/worker.rs run by the node's pool of worker threads over the *)
(* block store of src/blockchain/mod.rs (module Blockchain), with the      *)
(* orphan buffer shared by the workers.                                    *)
(*                                                                         *)
(* The node's workers share one inbound channel (a FIFO smol channel fed   *)
(* by the peer's connection) and handle messages concurrently.  A handler  *)
(* takes the chain lock and the orphan-buffer lock in separate critical    *)
(* sections, and each section is one step here; execute_block runs        *)
(* without a lock against the store, and since the store only grows and   *)
(* its answer is fixed once the parent is stored, it is taken together     *)
(* with the commit that follows it.                                        *)
(*                                                                         *)
(* The peer holds a fixed set of blocks.  It announces them one by one     *)
(* (NewBlockHashes) in any order, answers GetBlocks with the blocks it has *)
(* and GetBlockchain with its longest chain, handling its own inbound      *)
(* channel in order.  The peer may hold blocks that execute_block rejects  *)
(* (a faulty peer): the node must survive them.                           *)
(*                                                                         *)
(* Left out: the mempool pruning and the miner Update that follow a        *)
(* commit (module Node composes them), and the node's re-broadcast of      *)
(* NewBlockHashes, which the only peer answers with nothing since it holds *)
(* every block the node can have.                                          *)
(***************************************************************************)
EXTENDS Naturals, Sequences, FiniteSets

CONSTANTS
    Block, Genesis, Parent, Valid,   \* as in module Blockchain
    Worker,        \* the node's network worker threads
    PeerBlocks,    \* the blocks the peer stores
    PeerTip,       \* the peer's tip
    InitialSync    \* whether the node asks the peer for its chain on connect

ASSUME ChainAssumption ==
    /\ Genesis \in Block
    /\ Parent \in [Block \ {Genesis} -> Block]
    /\ Valid \subseteq Block \ {Genesis}
ASSUME WorkerAssumption == Worker # {}
ASSUME PeerAssumption ==
    /\ Genesis \in PeerBlocks /\ PeerBlocks \subseteq Block
    /\ \A b \in PeerBlocks \ {Genesis} : Parent[b] \in PeerBlocks
    /\ PeerTip \in PeerBlocks
    /\ InitialSync \in BOOLEAN

VARIABLES
    blocks, height, tip,   \* the node's block store (module Blockchain)
    orphans,     \* orphan_buffer: parent hash -> blocks waiting for it
    inbox,       \* the node's inbound channel: messages from the peer
    toPeer,      \* the peer's inbound channel: messages from the node
    announced,   \* blocks the peer has announced
    wk           \* wk[w]: the local state of worker thread w

chain == <<blocks, height, tip>>
vars == <<blocks, height, tip, orphans, inbox, toPeer, announced, wk>>

Chain == INSTANCE Blockchain

Elems(s) == {s[i] : i \in DOMAIN s}

(***************************************************************************)
(* Messages (src/network/message.rs, not in the sources: their shape is    *)
(* the spec's).                                                            *)
(***************************************************************************)
NewBlockHashes(hs) == [type |-> "NewBlockHashes", hashes |-> hs]
GetBlocks(hs) == [type |-> "GetBlocks", hashes |-> hs]
Blocks(bs) == [type |-> "Blocks", blocks |-> bs]
GetBlockchain == [type |-> "GetBlockchain"]
SendBlockchain(bs) == [type |-> "SendBlockchain", blocks |-> bs]

(***************************************************************************)
(* The depth of a block in the tree, and the peer's                        *)
(* all_blocks_in_longest_chain: the walk from its tip down to height 0,    *)
(* reversed.  The peer's recorded heights are the depths (theorem          *)
(* HeightsConsistent of Blockchain_proofs).                               *)
(***************************************************************************)
Depth[b \in Block] == IF b = Genesis THEN 0 ELSE Depth[Parent[b]] + 1

LongestChainTo(t) ==
    LET anc[k \in 0..Depth[t]] == IF k = 0 THEN t ELSE Parent[anc[k - 1]]
    IN  [i \in 1..(Depth[t] + 1) |-> anc[Depth[t] + 1 - i]]

(***************************************************************************)
(* The chain the peer sends starts at genesis: all_blocks_in_longest_chain *)
(* walks parent links down to height 0, and genesis is the only block      *)
(* there.  For a Parent without cycles (a block's hash covers its parent's *)
(* hash) this follows from the definition by induction on Depth.           *)
(***************************************************************************)
ASSUME PeerChainAssumption ==
    /\ LongestChainTo(PeerTip) \in Seq(PeerBlocks)
    /\ LongestChainTo(PeerTip) # <<>>
    /\ LongestChainTo(PeerTip)[1] = Genesis

(***************************************************************************)
(* The handlers' loops "for hash in hashes: if test(hash) push(hash)",     *)
(* the test being that the hash is in X (in = TRUE) or is not (FALSE).     *)
(***************************************************************************)
Filter(s, X, in) ==
    LET f[i \in 0..Len(s)] ==
          IF i = 0 THEN <<>>
          ELSE IF (s[i] \in X) = in THEN Append(f[i - 1], s[i]) ELSE f[i - 1]
    IN  f[Len(s)]

(***************************************************************************)
(* Worker states: idle (blocked on recv), check (about to test the parent *)
(* of the next block of a Blocks message), orphan (about to buffer it),   *)
(* exec (about to execute a block of the process queue), drain (about to  *)
(* take the orphans of the block just committed) and sync (executing a    *)
(* SendBlockchain batch).  rest is what is left of the message's blocks,   *)
(* cur the block being checked, queue the process queue and blk the block  *)
(* whose orphans are to be drained.  The process queue is a Vec used as a  *)
(* stack; it is a set here, popped in any order.                           *)
(***************************************************************************)
PC == {"idle", "check", "orphan", "exec", "drain", "sync"}

Idle == [pc |-> "idle", rest |-> <<>>, cur |-> Genesis, queue |-> {},
         blk |-> Genesis]

TypeOK ==
    /\ Chain!TypeOK
    /\ orphans \in [Block -> SUBSET Block]
    /\ announced \subseteq PeerBlocks
    /\ wk \in [Worker -> [pc : PC, rest : Seq(Block), cur : Block,
                          queue : SUBSET Block, blk : Block]]

Init ==
    /\ Chain!Init
    /\ orphans = [p \in Block |-> {}]
    /\ inbox = <<>>
    \* main.rs: on connecting to a known peer the node asks for its chain
    /\ toPeer = IF InitialSync THEN <<GetBlockchain>> ELSE <<>>
    /\ announced = {}
    /\ wk = [w \in Worker |-> Idle]

(***************************************************************************)
(* commit_block called on a block execute_block accepted: a no-op when it  *)
(* is already stored (another worker committed it first).                  *)
(***************************************************************************)
CommitCall(b) ==
    IF Chain!ContainsBlock(b) THEN UNCHANGED chain ELSE Chain!CommitBlock(b)

(***************************************************************************)
(* execute_block: the parent is stored and the content checks pass.  The  *)
(* parent of genesis is the zero hash, which is never stored.              *)
(***************************************************************************)
Executes(b) == b # Genesis /\ Chain!ExecuteOk(b)

-----------------------------------------------------------------------------
(***************************************************************************)
(* The peer.                                                               *)
(***************************************************************************)

(* The peer commits a block and broadcasts NewBlockHashes([hash]).         *)
PeerAnnounce(b) ==
    /\ b \notin announced
    /\ announced' = announced \cup {b}
    /\ inbox' = Append(inbox, NewBlockHashes(<<b>>))
    /\ UNCHANGED <<chain, orphans, toPeer, wk>>

(* GetBlocks(hashes): reply Blocks(the ones it has), if any.              *)
PeerGetBlocks ==
    /\ toPeer # <<>>
    /\ Head(toPeer).type = "GetBlocks"
    /\ LET found == Filter(Head(toPeer).hashes, PeerBlocks, TRUE)
       IN  inbox' = IF found # <<>> THEN Append(inbox, Blocks(found)) ELSE inbox
    /\ toPeer' = Tail(toPeer)
    /\ UNCHANGED <<chain, orphans, announced, wk>>

(* GetBlockchain: reply SendBlockchain(longest chain, root to tip).        *)
PeerGetBlockchain ==
    /\ toPeer # <<>>
    /\ Head(toPeer).type = "GetBlockchain"
    /\ inbox' = Append(inbox, SendBlockchain(LongestChainTo(PeerTip)))
    /\ toPeer' = Tail(toPeer)
    /\ UNCHANGED <<chain, orphans, announced, wk>>

-----------------------------------------------------------------------------
(***************************************************************************)
(* The node's workers.                                                     *)
(***************************************************************************)

(* NewBlockHashes(hashes): under the chain lock collect the hashes not    *)
(* stored, then ask the sender for them.                                   *)
RecvNewBlockHashes(w) ==
    /\ wk[w].pc = "idle"
    /\ inbox # <<>>
    /\ Head(inbox).type = "NewBlockHashes"
    /\ LET missing == Filter(Head(inbox).hashes, blocks, FALSE)
       IN  toPeer' = IF missing # <<>> THEN Append(toPeer, GetBlocks(missing))
                                       ELSE toPeer
    /\ inbox' = Tail(inbox)
    /\ UNCHANGED <<chain, orphans, announced, wk>>

(* Blocks(blocks): start the loop over the received blocks.               *)
RecvBlocks(w) ==
    /\ wk[w].pc = "idle"
    /\ inbox # <<>>
    /\ Head(inbox).type = "Blocks"
    /\ wk' = [wk EXCEPT ![w].pc = "check", ![w].rest = Head(inbox).blocks]
    /\ inbox' = Tail(inbox)
    /\ UNCHANGED <<chain, orphans, toPeer, announced>>

(* Next block of the loop, under the chain lock: is its parent stored?     *)
(* After the last block the handler ends (its broadcast is left out).      *)
CheckParent(w) ==
    /\ wk[w].pc = "check"
    /\ IF wk[w].rest = <<>>
         THEN wk' = [wk EXCEPT ![w] = Idle]
         ELSE LET b == Head(wk[w].rest) IN
              wk' = [wk EXCEPT ![w].cur = b, ![w].queue = {b},
                     ![w].pc = IF b # Genesis /\ Chain!ContainsBlock(Parent[b])
                                 THEN "exec" ELSE "orphan"]
    /\ UNCHANGED <<chain, orphans, inbox, toPeer, announced>>

(* Mutants (PROJECT.json "mutants"): the orphan is buffered but its       *)
(* parent is not requested; the drained orphans are not pushed.            *)
AddOrphanNoRequest(w) ==
    /\ wk[w].pc = "orphan"
    /\ LET b == wk[w].cur IN
         orphans' = [orphans EXCEPT ![Parent[b]] = @ \cup {b}]
    /\ wk' = [wk EXCEPT ![w].pc = "check", ![w].rest = Tail(@)]
    /\ UNCHANGED <<chain, inbox, toPeer, announced>>

(* Parent missing: under the orphan lock buffer the block under its       *)
(* parent's hash, ask the sender for the parent, go on with the next.      *)
AddOrphan(w) ==
    /\ wk[w].pc = "orphan"
    /\ LET b == wk[w].cur IN
         /\ orphans' = [orphans EXCEPT ![Parent[b]] = @ \cup {b}]
         /\ toPeer' = Append(toPeer, GetBlocks(<<Parent[b]>>))
    /\ wk' = [wk EXCEPT ![w].pc = "check", ![w].rest = Tail(@)]
    /\ UNCHANGED <<chain, inbox, announced>>

(* Done with one received block and its descendants: next one.            *)
NextOfLoop(w) == [wk EXCEPT ![w].pc = "check", ![w].rest = Tail(@),
                            ![w].queue = {}]

(* Mutant: the result of execute_block is not checked before the commit. *)
ExecBlockNoExecute(w) ==
    /\ wk[w].pc = "exec"
    /\ \E b \in wk[w].queue :
         IF Chain!ContainsBlock(Parent[b])
           THEN /\ CommitCall(b)
                /\ wk' = [wk EXCEPT ![w].pc = "drain", ![w].blk = b,
                                    ![w].queue = @ \ {b}]
           ELSE /\ UNCHANGED chain
                /\ wk' = IF wk[w].queue = {b}
                           THEN NextOfLoop(w)
                           ELSE [wk EXCEPT ![w].queue = @ \ {b}]
    /\ UNCHANGED <<orphans, inbox, toPeer, announced>>

(* Pop a block of the process queue and execute it; on success commit it  *)
(* under the chain lock; on failure drop it (its orphans stay buffered).   *)
ExecBlock(w) ==
    /\ wk[w].pc = "exec"
    /\ \E b \in wk[w].queue :
         IF Executes(b)
           THEN /\ CommitCall(b)
                /\ wk' = [wk EXCEPT ![w].pc = "drain", ![w].blk = b,
                                    ![w].queue = @ \ {b}]
           ELSE /\ UNCHANGED chain
                /\ wk' = IF wk[w].queue = {b}
                           THEN NextOfLoop(w)
                           ELSE [wk EXCEPT ![w].queue = @ \ {b}]
    /\ UNCHANGED <<orphans, inbox, toPeer, announced>>

DrainOrphansLost(w) ==
    /\ wk[w].pc = "drain"
    /\ orphans' = [orphans EXCEPT ![wk[w].blk] = {}]
    /\ wk' = IF wk[w].queue = {} THEN NextOfLoop(w)
                                 ELSE [wk EXCEPT ![w].pc = "exec"]
    /\ UNCHANGED <<chain, inbox, toPeer, announced>>

(* Under the orphan lock remove the orphans of the committed block and    *)
(* push them on the process queue.                                         *)
DrainOrphans(w) ==
    /\ wk[w].pc = "drain"
    /\ LET b == wk[w].blk
           q == wk[w].queue \cup orphans[b]
       IN  /\ orphans' = [orphans EXCEPT ![b] = {}]
           /\ wk' = IF q = {} THEN NextOfLoop(w)
                              ELSE [wk EXCEPT ![w].pc = "exec", ![w].queue = q]
    /\ UNCHANGED <<chain, inbox, toPeer, announced>>

(* SendBlockchain(blocks): start executing the batch.                     *)
RecvSendBlockchain(w) ==
    /\ wk[w].pc = "idle"
    /\ inbox # <<>>
    /\ Head(inbox).type = "SendBlockchain"
    /\ wk' = [wk EXCEPT ![w].pc = "sync", ![w].rest = Head(inbox).blocks]
    /\ inbox' = Tail(inbox)
    /\ UNCHANGED <<chain, orphans, toPeer, announced>>

(* Execute the next block of the batch and commit it; abort the batch at  *)
(* the first failure.                                                      *)
SyncBlock(w) ==
    /\ wk[w].pc = "sync"
    /\ IF wk[w].rest # <<>> /\ Executes(Head(wk[w].rest))
         THEN /\ CommitCall(Head(wk[w].rest))
              /\ wk' = [wk EXCEPT ![w].rest = Tail(@)]
         ELSE /\ UNCHANGED chain
              /\ wk' = [wk EXCEPT ![w] = Idle]
    /\ UNCHANGED <<orphans, inbox, toPeer, announced>>

-----------------------------------------------------------------------------
PeerStep ==
    \/ \E b \in PeerBlocks \ {Genesis} : PeerAnnounce(b)
    \/ PeerGetBlocks
    \/ PeerGetBlockchain

WorkerStep(w) ==
    \/ RecvNewBlockHashes(w)
    \/ RecvBlocks(w)
    \/ CheckParent(w)
    \/ AddOrphan(w)
    \/ ExecBlock(w)
    \/ DrainOrphans(w)
    \/ RecvSendBlockchain(w)
    \/ SyncBlock(w)

Next == PeerStep \/ \E w \in Worker : WorkerStep(w)

(***************************************************************************)
(* Worker threads are scheduled preemptively and a step of one never      *)
(* waits on anything but a lock another releases promptly: each is weakly  *)
(* fair.  The peer answers every request over its TCP connection (weak     *)
(* fairness of its handlers); announcing is the peer's choice and is not   *)
(* assumed.                                                                *)
(***************************************************************************)
Fairness ==
    /\ \A w \in Worker : WF_vars(WorkerStep(w))
    /\ WF_vars(PeerGetBlocks)
    /\ WF_vars(PeerGetBlockchain)

Spec == Init /\ [][Next]_vars /\ Fairness

-----------------------------------------------------------------------------
(***************************************************************************)
(* Properties.                                                             *)
(***************************************************************************)

(* b descends from genesis through blocks execute_block accepts.           *)
ValidChain(b) ==
    \A i \in DOMAIN LongestChainTo(b) :
        LongestChainTo(b)[i] = Genesis \/ LongestChainTo(b)[i] \in Valid

(***************************************************************************)
(* Where a block can be on its way to a drain of its orphans: requested   *)
(* from the peer, in a Blocks reply, or in a worker's hands (still to be  *)
(* checked, queued for execution, or committed and about to be drained). *)
(* A block being buffered as an orphan has left the worker's hands.        *)
(***************************************************************************)
Requested(p) ==
    \E m \in Elems(toPeer) : m.type = "GetBlocks" /\ p \in Elems(m.hashes)

Delivered(p) ==
    \E m \in Elems(inbox) : m.type = "Blocks" /\ p \in Elems(m.blocks)

InHand(w, p) ==
    \/ wk[w].pc = "check" /\ p \in Elems(wk[w].rest)
    \/ wk[w].pc \in {"orphan", "exec", "drain"} /\ p \in Elems(Tail(wk[w].rest))
    \/ wk[w].pc \in {"exec", "drain"} /\ p \in wk[w].queue
    \/ wk[w].pc = "drain" /\ wk[w].blk = p

(***************************************************************************)
(* No lost wake-up of an orphan (the race of the parent check): whenever a *)
(* stored block has orphans buffered under it, that block is requested,   *)
(* delivered or in a worker's hands, so a drain of its orphans is coming.  *)
(* A worker may find the parent absent, another commit the parent and      *)
(* drain its orphans, and only then the first buffer its block: the        *)
(* GetBlocks it sends for the parent is what still brings the drain.       *)
(***************************************************************************)
OrphanRescued ==
    \A p \in blocks : orphans[p] # {} =>
        Requested(p) \/ Delivered(p) \/ \E w \in Worker : InHand(w, p)

(***************************************************************************)
(* Orphan rescue: a block buffered under a stored parent is eventually     *)
(* drained.  A worker may test the parent (absent), another commit the     *)
(* parent and drain its orphans, and only then the first buffer the block: *)
(* the GetBlocks it sends for the parent must bring the parent back        *)
(* through a drain.                                                        *)
(***************************************************************************)
OrphansDrained ==
    \A p \in Block : (p \in blocks /\ orphans[p] # {}) ~> (orphans[p] = {})

(***************************************************************************)
(* Propagation: every block the peer announces whose ancestry is valid is  *)
(* eventually stored, whatever the order of the announcements, of the     *)
(* replies and of the workers' steps.                                      *)
(***************************************************************************)
Propagated ==
    \A b \in PeerBlocks :
        (b \in announced /\ ValidChain(b)) ~> (b \in blocks)

(***************************************************************************)
(* Catch-up (spec 4.I): a node that has handled SendBlockchain from the    *)
(* peer stores every block of the peer's longest chain.                    *)
(***************************************************************************)
CatchUp ==
    [][\A w \in Worker :
         (wk[w].pc = "sync" /\ wk'[w].pc = "idle")
            => Elems(LongestChainTo(PeerTip)) \subseteq blocks']_vars

(***************************************************************************)
(* The workers only commit what execute_block accepted, so the store, seen *)
(* alone, behaves as the Blockchain specification even with a faulty peer  *)
(* and several workers committing concurrently.                            *)
(***************************************************************************)
ChainRefined == Chain!Spec

=============================================================================
