----------------------------- MODULE BlockTree -----------------------------
(***************************************************************************)
(* The tree of blocks that a node can be handed: every block but the       *)
(* genesis block names its parent (blockNode.parent), and height and       *)
(* ancestry follow from the parent pointers.  The tree is a constant: it   *)
(* is what miners produced, not what the node has received so far.         *)
(*                                                                         *)
(* Height and Anc are CONSTANTS fixed by assumptions rather than recursive *)
(* definitions so that facts about them can be used in proofs; the MC      *)
(* modules supply the recursive functions that satisfy the assumptions.    *)
(***************************************************************************)
EXTENDS Integers, FiniteSets

CONSTANTS
    Blocks,     \* every block of the tree, Genesis included
    Genesis,    \* the genesis block
    NoBlock,    \* the nil block pointer / zero hash
    Parent,     \* Parent[b]: the block that b's header points at
    Height,     \* Height[b]: distance from Genesis
    Anc         \* Anc[b]: b and all its ancestors

NonGenesis == Blocks \ {Genesis}

ASSUME TreeAssumption ==
    /\ Genesis \in Blocks
    /\ NoBlock \notin Blocks
    /\ Parent \in [NonGenesis -> Blocks]
    /\ Height \in [Blocks -> Nat]
    /\ Height[Genesis] = 0
    /\ \A b \in NonGenesis : Height[b] = Height[Parent[b]] + 1
    /\ Anc \in [Blocks -> SUBSET Blocks]
    /\ Anc[Genesis] = {Genesis}
    /\ \A b \in Blocks : Genesis \in Anc[b]
    /\ \A b \in NonGenesis : Anc[b] = Anc[Parent[b]] \cup {b}
    /\ \A b \in Blocks : \A a \in Anc[b] : Anc[a] \subseteq Anc[b]
    /\ \A b \in Blocks : \A a \in Anc[b] : a # b => Height[a] < Height[b]
    /\ \A b \in Blocks : \A a, d \in Anc[b] : Height[a] <= Height[d] => a \in Anc[d]

Children(b) == {c \in NonGenesis : Parent[c] = b}

(* IsAncestor: strict ancestry, as in blockNode.IsAncestor. *)
Descendants(b) == {d \in Blocks : b \in Anc[d] /\ d # b}
=============================================================================
