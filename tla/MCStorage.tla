----------------------------- MODULE MCStorage -----------------------------
(***************************************************************************)
(* Instances of the two modules about what is kept in step with the chain  *)
(* on disk, UtxoCache and Indexers.  They do not share state: `part' says  *)
(* which one moves in a behaviour, and the other keeps its initial state.  *)
(***************************************************************************)
EXTENDS UtxoCache, TLC

(* UtxoCache: a fork three blocks deep, in which one transaction (spending  *)
(* c1, creating c3) is mined on both branches at different heights, a coin  *)
(* (c4) is spent in the block that creates it, and a coin (c2) is spent at  *)
(* different depths of the two branches.                                    *)
CONSTANTS g, a1, a2, a3, b2, b3, b4, c1, c2, c3, c4, NoTip

MCBlocks == {g, a1, a2, a3, b2, b3, b4}
MCParent == (a1 :> g) @@ (a2 :> a1) @@ (a3 :> a2) @@ (b2 :> a1) @@ (b3 :> b2)
            @@ (b4 :> b3)
MCCoins == {c1, c2, c3, c4}
MCCreates == (g :> {}) @@ (a1 :> {c1, c2}) @@ (a2 :> {c3}) @@ (a3 :> {c4})
             @@ (b2 :> {}) @@ (b3 :> {c3}) @@ (b4 :> {})
MCSpends == (g :> {}) @@ (a1 :> {}) @@ (a2 :> {c1}) @@ (a3 :> {c3, c4})
            @@ (b2 :> {c2}) @@ (b3 :> {c1}) @@ (b4 :> {c3})

MCHeight[b \in MCBlocks] == IF b = g THEN 0 ELSE MCHeight[MCParent[b]] + 1
MCAnc[b \in MCBlocks] == IF b = g THEN {g} ELSE MCAnc[MCParent[b]] \cup {b}
MCUtxoAt[b \in MCBlocks] ==
    IF b = g THEN [c \in MCCoins |-> -1]
    ELSE [c \in MCCoins |->
            IF c \in MCCreates[b] \ MCSpends[b] THEN MCHeight[b]
            ELSE IF c \in MCSpends[b] THEN -1
            ELSE MCUtxoAt[MCParent[b]][c]]

ASSUME NoRecreation

(* Indexers: two branches of two blocks; the payment p is mined on both of  *)
(* them, the second blocks spend it.                                        *)
IndexParent == [a1 |-> "g", a2 |-> "a1", b1 |-> "g", b2 |-> "b1"]
IndexBlocks == {"g"} \cup DOMAIN IndexParent
IndexHeight[b \in IndexBlocks] == IF b = "g" THEN 0 ELSE IndexHeight[IndexParent[b]] + 1
IndexAnc[b \in IndexBlocks] == IF b = "g" THEN {"g"} ELSE IndexAnc[IndexParent[b]] \cup {b}
IndexTxsOf == [g |-> <<"cg">>, a1 |-> <<"ca", "p">>, a2 |-> <<"q">>, b1 |-> <<"cb">>, b2 |-> <<"p", "q">>]
IndexAddrsOf == [cg |-> {"x"}, ca |-> {"x", "y"}, cb |-> {"y"}, p |-> {"x"}, q |-> {"x", "y"}]

VARIABLES part, tip, undo, disk, run

indexVars == <<tip, undo, disk, run>>
storageVars == <<part, vars, indexVars>>

I == INSTANCE Indexers WITH Blocks <- IndexBlocks, Genesis <- "g", Parent <- IndexParent, Height <- IndexHeight,
                            Anc <- IndexAnc, Txs <- DOMAIN IndexAddrsOf, TxsOf <- IndexTxsOf, Spending <- {"a2", "b2"},
                            Addrs <- {"x", "y"}, AddrsOf <- IndexAddrsOf, Level0Max <- 1, MaxLevel <- 3, Increment <- 2,
                            MaxStarts <- 3, MaxDrops <- 1, best <- tip, journal <- undo
ASSUME I!IndexAssumption /\ I!LevelAssumption

-----------------------------------------------------------------------------
StorageInit == part \in {"utxos", "indexes"} /\ Init /\ I!Init

InUtxos(A) == part = "utxos" /\ A /\ UNCHANGED <<part, indexVars>>
InIndexes(A) == part = "indexes" /\ A /\ UNCHANGED <<part, vars>>

StorageNext == InUtxos(Next) \/ InIndexes(I!Next)

\* The fairness of the modules.  Conditions of different parts are joined,
\* which weakens none of them: only the actions of one part ever happen.
StorageFairness ==
    /\ WF_storageVars(InUtxos(Start) \/ InIndexes(I!InitStep))
    /\ WF_storageVars(InUtxos(\E b \in NonGenesis : ReplayBlock(b)) \/ InIndexes(I!DropStep))
    /\ WF_storageVars(InUtxos(ReplayDone))

StorageSpec == StorageInit /\ [][StorageNext]_storageVars /\ StorageFairness

-----------------------------------------------------------------------------
(* Properties: those of UtxoCache, and those of Indexers. *)

\* The indexes of a running node have its tip, and those by transaction and of
\* filters hold exactly what its chain holds, whatever was missed, interrupted,
\* rolled back or dropped before (Manager.Init).
IndexesFollow == I!IndexesFollow

\* The address index of a running node lists the transactions of every address
\* in the order of its chain (dbPutAddrIndexEntry, dbRemoveAddrIndexEntries).
AddrIndexExact == I!AddrIndexExact

\* If crashes stop, and as long as no block that a replay needs has been
\* pruned, the utxo cache comes back up (InitConsistentState); and as long as the
\* journal has the blocks by which indexes are taken back and no drop has lost its
\* bucket, a start with indexes ends with the node running unless the process is
\* stopped again (Manager.Init).
ComesUp ==
    /\ <>[][~Crash]_vars /\ []PruneKeepsReplayBlocks => []<>(part = "utxos" => mode = "up")
    /\ I!StartsUp
=============================================================================
