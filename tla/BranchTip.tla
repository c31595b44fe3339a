------------------------------- MODULE BranchTip ------------------------------
(***************************************************************************)
(* What the block index promises its readers: at every moment it is the    *)
(* index of one branch, given by its tip.  The tip moves up one block at a *)
(* time, to a child of the current one, and moves down, when a branch is   *)
(* abandoned, to a block of the same branch.  Whatever crashes, forks and  *)
(* relayed transactions do, readers never see another kind of step.        *)
(***************************************************************************)
EXTENDS ChainData

VARIABLE tip

Init == tip = NoBlock

\* A block on top of the current tip is fully imported.
Extend == \E b \in Block : Parent[b] = tip /\ tip' = b

\* The blocks above some block of the branch, or all of them, are removed.
Retreat ==
    /\ tip # NoBlock
    /\ tip' \in (Chain[tip] \ {tip}) \cup {NoBlock}

Next == Extend \/ Retreat

Spec == Init /\ [][Next]_tip
=============================================================================
