---------------------------- MODULE MCNtfnManager ----------------------------
(* An instance of NtfnManager: a1 and a2, or b1 and b2, on top of g.  p pays *)
(* to A and s spends it; both branches hold p, only the first one s.        *)
EXTENDS NtfnManager, TLC
CONSTANTS g, a1, a2, b1, b2, p, s, A, H, c1
MCBlocks == {g, a1, a2, b1, b2}
MCParent == (a1 :> g) @@ (a2 :> a1) @@ (b1 :> g) @@ (b2 :> b1)
MCHeight[b \in MCBlocks] == IF b = g THEN 0 ELSE MCHeight[MCParent[b]] + 1
MCAnc[b \in MCBlocks] == IF b = g THEN {g} ELSE MCAnc[MCParent[b]] \cup {b}
MCBlockTxs == (g :> <<>>) @@ (a1 :> <<p>>) @@ (a2 :> <<s>>) @@ (b1 :> <<>>) @@ (b2 :> <<p, s>>)
MCTxIns == (p :> {}) @@ (s :> {p})
MCTxAddr == (p :> A) @@ (s :> H)
MCKeyHash == (A :> H) @@ (H :> H)
MCCommands ==
    {[cmd |-> k, addrs |-> {}, ops |-> {}] :
        k \in {"notifyblocks", "stopnotifyblocks", "notifynewtransactions", "stopnotifynewtransactions"}}
    \cup {[cmd |-> k, addrs |-> {}, ops |-> {p}] : k \in {"notifyspent", "stopnotifyspent"}}
    \cup {[cmd |-> k, addrs |-> {A}, ops |-> {}] : k \in {"notifyreceived", "stopnotifyreceived"}}
    \cup {[cmd |-> "loadtxfilter", addrs |-> {A}, ops |-> {}, reload |-> r] : r \in BOOLEAN}
    \cup {[cmd |-> "rescan", addrs |-> {A}, ops |-> {}, begin |-> g, end |-> NoBlock]}
    \cup {[cmd |-> "rescanblocks", addrs |-> {}, ops |-> {}, blocks |-> <<a1, a2>>]}
=============================================================================
