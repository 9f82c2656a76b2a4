---------------------------- MODULE DurableStore ----------------------------
(***************************************************************************)
(* What the store must keep for Blockchain::new across a crash (spec 9):   *)
(* the blocks whose block and whole state are on disk only ever grow, and  *)
(* the tip pointer on disk only ever names one of them.  It says nothing   *)
(* of what the running process sees, of heights, or of the order of other  *)
(* writes.  StoreCrash implements it.                                      *)
(***************************************************************************)
CONSTANTS Block, Genesis

VARIABLES
    saved,      \* blocks whose block and state nodes are durable
    savedTip    \* the durable tip pointer

vars == <<saved, savedTip>>

Init == saved = {Genesis} /\ savedTip = Genesis

(* More blocks, or more of their state, become durable; none is lost.      *)
Save == saved \subseteq saved' /\ saved' \subseteq Block /\ savedTip' = savedTip

(* The durable tip moves, only to a block that is entirely durable.        *)
MoveTip == savedTip' \in saved /\ saved' = saved

Next == Save \/ MoveTip

Spec == Init /\ [][Next]_vars

=============================================================================
