---------------------------- MODULE MCBadBranch ----------------------------
(***************************************************************************)
(* An instance of BlockChain with work that differs from height.  A bad    *)
(* block x2 on top of a good one, b1, carries two branches (x3 and y3,     *)
(* y4), so that one of them is still unmarked when x2 is found to be bad;  *)
(* a1 outweighs most of the tree, b1, b2 is a good branch that wins in the *)
(* end, and u2 never passes checkBlockContext.                             *)
(***************************************************************************)
EXTENDS BlockChain, TLC

CONSTANTS g, a1, b1, b2, x2, x3, y3, y4, u2

MCBlocks == {g, a1, b1, b2, x2, x3, y3, y4, u2}
MCParent == (a1 :> g) @@ (b1 :> g) @@ (b2 :> b1) @@ (x2 :> b1) @@ (x3 :> x2)
            @@ (y3 :> x2) @@ (y4 :> y3) @@ (u2 :> a1)
MCHeight[b \in MCBlocks] == IF b = g THEN 0 ELSE MCHeight[MCParent[b]] + 1
MCAnc[b \in MCBlocks] == IF b = g THEN {g} ELSE MCAnc[MCParent[b]] \cup {b}
MCWork == (g :> 0) @@ (a1 :> 3) @@ (b1 :> 1) @@ (b2 :> 4) @@ (x2 :> 2)
          @@ (x3 :> 5) @@ (y3 :> 3) @@ (y4 :> 5) @@ (u2 :> 6)
=============================================================================
