---------------------------- MODULE MCBlockChain ----------------------------
(***************************************************************************)
(* Instances of BlockChain for TLC.  Two branches fork at the genesis      *)
(* block; on the second one a bad block x2 has a descendant, so that it is *)
(* only found to be bad once its branch is the heaviest.                   *)
(***************************************************************************)
EXTENDS BlockChain, TLC

CONSTANTS g, a1, a2, b1, b2, b3, x2, x3

MCBlocks == {g, a1, a2, b1, b2, b3, x2, x3}
MCParent == (a1 :> g) @@ (a2 :> a1) @@ (b1 :> g) @@ (b2 :> b1) @@ (b3 :> b2)
            @@ (x2 :> b1) @@ (x3 :> x2)
MCHeight[b \in MCBlocks] == IF b = g THEN 0 ELSE MCHeight[MCParent[b]] + 1
MCAnc[b \in MCBlocks] == IF b = g THEN {g} ELSE MCAnc[MCParent[b]] \cup {b}
=============================================================================
