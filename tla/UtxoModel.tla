----------------------------- MODULE UtxoModel -----------------------------
(***************************************************************************)
(* What a block does to the set of unspent transaction outputs.  A coin is *)
(* an outpoint (transaction hash, output index).  A set of unspent outputs *)
(* maps each coin to the height of the block that created it, or to NoCoin *)
(* when the coin is not in the set.  Amount and script travel with the     *)
(* height in the code (UtxoEntry, SpentTxOut) and are represented by it.   *)
(*                                                                         *)
(* The same transaction may be mined on two branches, so a coin can have   *)
(* different heights on different branches.                                *)
(***************************************************************************)
EXTENDS BlockTree

CONSTANTS
    Coins,      \* outpoints
    Spends,     \* Spends[b]: coins spent by the inputs of b's transactions
    Creates,    \* Creates[b]: spendable outputs of b's transactions
    UtxoAt      \* UtxoAt[b]: the reference set after Genesis..b

NoCoin == -1
CoinSets == [Coins -> Nat \cup {NoCoin}]
EmptyCoinSet == [c \in Coins |-> NoCoin]

(* Inputs that refer to outputs of earlier blocks. *)
Inputs(b) == Spends[b] \ Creates[b]
(* Outputs that survive the block itself. *)
Outputs(b) == Creates[b] \ Spends[b]

(* The effect of connecting all the transactions of b. *)
ApplyBlock(u, b) ==
    [c \in Coins |-> IF c \in Outputs(b) THEN Height[b]
                     ELSE IF c \in Spends[b] THEN NoCoin
                     ELSE u[c]]

(* Genesis outputs are never added to the set (the genesis coinbase is not *)
(* spendable), every other block has passed checkConnectBlock: its inputs  *)
(* exist (CheckTransactionInputs) and its outputs do not overwrite an      *)
(* unspent coin (checkBIP0030).                                            *)
ASSUME UtxoAssumption ==
    /\ Spends \in [Blocks -> SUBSET Coins]
    /\ Creates \in [Blocks -> SUBSET Coins]
    /\ UtxoAt \in [Blocks -> CoinSets]
    /\ UtxoAt[Genesis] = EmptyCoinSet
    /\ \A b \in NonGenesis :
        /\ UtxoAt[b] = ApplyBlock(UtxoAt[Parent[b]], b)
        /\ \A c \in Inputs(b) : UtxoAt[Parent[b]][c] # NoCoin
        /\ \A c \in Creates[b] : UtxoAt[Parent[b]][c] = NoCoin

(* Transaction hashes are unique along a branch: no block creates a coin   *)
(* that some ancestor's set already contained.  BIP0034 (the height in the *)
(* coinbase) is what guarantees this; checkBIP0030 alone does not, because *)
(* it allows an output to be created again once it has been spent.         *)
NoRecreation ==
    \A b \in NonGenesis : \A a \in Anc[Parent[b]] :
        \A c \in Creates[b] : UtxoAt[a][c] = NoCoin
=============================================================================
