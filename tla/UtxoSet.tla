------------------------------ MODULE UtxoSet ------------------------------
(***************************************************************************)
(* What the chain promises its callers about unspent outputs: the set is   *)
(* always the one produced by the transactions of the current best chain,  *)
(* and it changes only when a block is connected to or disconnected from   *)
(* the tip.  Caching, flushing, crashes and recovery are not visible.      *)
(***************************************************************************)
EXTENDS UtxoModel

VARIABLES
    tip,        \* the block at the end of the best chain
    utxo        \* the coins a caller finds unspent

absVars == <<tip, utxo>>

AbsInit ==
    /\ tip = Genesis
    /\ utxo = EmptyCoinSet

AbsConnect(b) ==
    /\ Parent[b] = tip
    /\ tip' = b
    /\ utxo' = ApplyBlock(utxo, b)

(* Undoing the tip gives back exactly the coins it spent, at the heights   *)
(* they were created, and removes the ones it created.                     *)
AbsDisconnect ==
    /\ tip # Genesis
    /\ tip' = Parent[tip]
    /\ utxo' = UtxoAt[tip']

AbsNext == (\E b \in NonGenesis : AbsConnect(b)) \/ AbsDisconnect

AbsSpec == AbsInit /\ [][AbsNext]_absVars
=============================================================================
