----------------------------- MODULE MCTxPool -----------------------------
(***************************************************************************)
(* An instance of TxPool.  a and a2 spend the same coin and a signals      *)
(* replacement; b and d spend a; c spends b.  Block k1 confirms a and b,   *)
(* its rival k2 confirms a2.                                               *)
(***************************************************************************)
EXTENDS TxPool, TLC

CONSTANTS a, a2, b, c, d, k1, k2, coin

MCTxs == {a, a2, b, c, d}
T(ins, nouts, fee, rbf, fails) ==
    [ins |-> ins, nouts |-> nouts, fee |-> fee, size |-> 1000, rbf |-> rbf,
     prio |-> TRUE, fails |-> fails]
MCCoins == {<<coin, 1>>}
MCTx == (a :> T({<<coin, 1>>}, 1, 1, TRUE, "none"))
     @@ (a2 :> T({<<coin, 1>>}, 1, 2, FALSE, "none"))
     @@ (b :> T({<<a, 1>>}, 1, 1, FALSE, "none"))
     @@ (c :> T({<<b, 1>>}, 1, 1, FALSE, "none"))
     @@ (d :> T({<<a, 1>>}, 1, 0, FALSE, "none"))
MCAddrOf == [op \in OutPoints |-> IF op[1] \in {b, c} THEN "x" ELSE "y"]
MCBlocks == {k1, k2}
MCParent == (k1 :> Root) @@ (k2 :> Root)
MCBlockTxs == (k1 :> <<a, b>>) @@ (k2 :> <<a2>>)
=============================================================================
