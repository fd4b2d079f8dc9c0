---------------------------- MODULE TxPoolProofs ----------------------------
(***************************************************************************)
(* Theorems about TxPool, for any transactions, blocks and limits: the     *)
(* pool and its indexes agree at any moment, and once a notification has   *)
(* been handled nothing in the pool is confirmed or spends what is gone,   *)
(* up to the blocks that were passed over while the node was not current.  *)
(*                                                                         *)
(* While the handler is under way the pool may hold what a new block has   *)
(* confirmed or spent, and what spends a block taken out; the invariant    *)
(* says that all of it is still on the handler's list.  That it is not     *)
(* passed by depends on the order of a block's transactions: parents come  *)
(* first, so a confirmed transaction can return to the pool, on top of a   *)
(* parent that has not been removed yet, only when its own turn is to come.*)
(***************************************************************************)
EXTENDS TxPool, FiniteSetTheorems, NaturalsInduction, WellFoundedInduction, TLAPS

-----------------------------------------------------------------------------
(* The inductive invariant. *)

\* what is left of the handler's list from the n-th on
ListFrom(n) == {note.txs[i] : i \in n..Len(note.txs)}

\* confirmed transactions still to be taken out of the pool
ToRemove ==
    IF note.kind = "connected" THEN ListFrom(IF note.call = "remove" THEN 1 ELSE 2) ELSE {}
\* confirmed transactions whose rivals are still to be taken out
Rivals ==
    IF note.kind = "connected" THEN ListFrom(IF note.call \in {"remove", "double"} THEN 1 ELSE 2) ELSE {}
\* transactions of a disconnected block still to be taken back
Returning == IF note.kind = "disconnected" THEN ListFrom(1) ELSE {}

Typed ==
    /\ TypeOK
    /\ note \in [kind : {"none", "connected", "disconnected"}, txs : Seq(Txs),
                 call : {"none", "remove", "double", "orphan", "process", "accept", "drop"}]
    /\ IsFiniteSet(DOMAIN orphans)
    /\ \A t \in DOMAIN orphans : orphans[t] \in [tag : Tags, expired : BOOLEAN]

\* inputs are coins or outputs that their transaction has
InputsReal == \A t \in pool : \A op \in Tx[t].ins : op \in Coins \/ op \in Outs(Prev(op))

\* the coins of the chain, and those that a block passed over has spent
Known == Utxos \cup UNION {Tx[u].ins : u \in MissedTxs}
\* a transaction that is on the handler's list itself excuses its own inputs
\* only as long as it is still to be removed
Found(t, op) ==
    \/ op \in Known
    \/ Prev(op) \in pool \cup lost \cup Returning
    \/ \E u \in Rivals : op \in Tx[u].ins /\ (u # t \/ t \in ToRemove)
InputsFound == \A t \in pool : \A op \in Tx[t].ins : Found(t, op)

\* what is confirmed below the first block that was passed over
Clean == UNION {ToSet(BlockTxs[b]) : b \in {c \in Branch[tip] : Branch[c] \cap missed = {}}}
ConfirmedListed == pool \cap Clean \subseteq ToRemove

\* a block's list: each once, and all that spend one of them come after it
ListInOrder ==
    note.kind = "connected" =>
        /\ IsInjective(note.txs) /\ ToSet(note.txs) \subseteq Confirmed
        /\ \A i \in 1..Len(note.txs) : \A u \in Confirmed :
            Tx[u].ins \cap Outs(note.txs[i]) # {} => \E j \in (i + 1)..Len(note.txs) : note.txs[j] = u

PoolInv ==
    /\ Typed /\ IndexExact /\ OrphanIndexExact
    /\ InputsReal /\ InputsFound /\ ConfirmedListed /\ ListInOrder

-----------------------------------------------------------------------------
(* Transactions, blocks and coins. *)

\* an output tells whose it is, and is no coin of before the first block
LEMMA OutputsOf ==
    ASSUME NEW t \in Txs, NEW op \in Outs(t)
    PROVE  Prev(op) = t /\ op \notin Coins
<1>1. PICK i \in 1..Tx[t].nouts : op = <<t, i>>
    BY DEF Outs
<1>2. Prev(op) = t
    BY <1>1 DEF Prev
<1> QED
    BY <1>2, BlocksValid

LEMMA BranchClosed ==
    ASSUME NEW b \in Blocks \cup {Root}
    PROVE  /\ Branch[b] \subseteq Blocks
           /\ b \in Branch[b] \cup {Root}
           /\ \A c \in Branch[b] : Parent[c] \in Branch[b] \cup {Root}
<1>1. Branch[b] = {c \in Blocks : \A S \in SUBSET Blocks :
                      ({b} \cup {Parent[d] : d \in S}) \ {Root} \subseteq S => c \in S}
    BY DEF Branch
<1>2. Parent \in [Blocks -> Blocks \cup {Root}]
    BY PoolAssumption
<1>3. ASSUME NEW c \in Branch[b], Parent[c] # Root
      PROVE  Parent[c] \in Branch[b]
  <2>1. c \in Blocks /\ Parent[c] \in Blocks
      BY <1>1, <1>2, <1>3
  <2>2. ASSUME NEW S \in SUBSET Blocks, ({b} \cup {Parent[d] : d \in S}) \ {Root} \subseteq S
        PROVE  Parent[c] \in S
    <3>1. c \in S
        BY <1>1, <2>2
    <3> QED
        BY <1>3, <2>2, <3>1
  <2> QED
      BY <1>1, <2>1, <2>2
<1> QED
    BY <1>1, <1>3

LEMMA BranchLeast ==
    ASSUME NEW b \in Blocks \cup {Root}, NEW S \in SUBSET Blocks, b \in S \cup {Root},
           \A c \in S : Parent[c] \in S \cup {Root}
    PROVE  Branch[b] \subseteq S
<1>1. ({b} \cup {Parent[d] : d \in S}) \ {Root} \subseteq S
    OBVIOUS
<1> QED
    BY <1>1 DEF Branch

LEMMA BranchStep ==
    ASSUME NEW b \in Blocks
    PROVE  Branch[b] = Branch[Parent[b]] \cup {b}
<1>1. Parent[b] \in Blocks \cup {Root} /\ b # Root
    BY PoolAssumption
<1>2. Branch[Parent[b]] \subseteq Branch[b]
  <2>1. Branch[b] \in SUBSET Blocks /\ Parent[b] \in Branch[b] \cup {Root}
        /\ \A c \in Branch[b] : Parent[c] \in Branch[b] \cup {Root}
      BY <1>1, BranchClosed
  <2> QED
      BY <1>1, <2>1, BranchLeast
<1>3. Branch[b] \subseteq Branch[Parent[b]] \cup {b}
  <2> DEFINE S == Branch[Parent[b]] \cup {b}
  <2>1. S \in SUBSET Blocks /\ b \in S \cup {Root} /\ \A c \in S : Parent[c] \in S \cup {Root}
      BY <1>1, BranchClosed
  <2> HIDE DEF S
  <2>2. Branch[b] \subseteq S
      BY <2>1, BranchLeast
  <2> QED
      BY <2>2 DEF S
<1>4. b \in Branch[b]
    BY <1>1, BranchClosed
<1> QED
    BY <1>2, <1>3, <1>4

LEMMA ConfirmedTxs ==
    ASSUME NEW b \in Blocks \cup {Root}
    PROVE  ConfirmedAt[b] \subseteq Txs
<1>1. \A c \in Branch[b] : c \in Blocks
    BY BranchClosed
<1> QED
    BY <1>1, PoolAssumption DEF ConfirmedAt, ToSet

LEMMA ConfirmedStep ==
    ASSUME NEW b \in Blocks
    PROVE  /\ ConfirmedAt[b] = ConfirmedAt[Parent[b]] \cup ToSet(BlockTxs[b])
           /\ ConfirmedAt[b] \subseteq Txs
<1>1. Parent[b] \in Blocks \cup {Root}
    BY PoolAssumption
<1>2. /\ ConfirmedAt[b] = UNION {ToSet(BlockTxs[c]) : c \in Branch[b]}
      /\ ConfirmedAt[Parent[b]] = UNION {ToSet(BlockTxs[c]) : c \in Branch[Parent[b]]}
    BY <1>1 DEF ConfirmedAt
<1>3. \A c \in Blocks : ToSet(BlockTxs[c]) \subseteq Txs
    BY PoolAssumption DEF ToSet
<1>4. Branch[b] = Branch[Parent[b]] \cup {b} /\ Branch[b] \subseteq Blocks
    BY BranchStep, BranchClosed
<1> QED
    BY <1>2, <1>3, <1>4

LEMMA ConfirmedBelow ==
    ASSUME NEW b \in Blocks \cup {Root}, NEW c \in Branch[b]
    PROVE  /\ c \in Blocks /\ Parent[c] \in Blocks \cup {Root}
           /\ ToSet(BlockTxs[c]) \subseteq ConfirmedAt[b]
           /\ ConfirmedAt[Parent[c]] \subseteq ConfirmedAt[b]
<1>1. /\ Branch[b] \in SUBSET Blocks /\ Parent[c] \in Branch[b] \cup {Root}
      /\ \A d \in Branch[b] : Parent[d] \in Branch[b] \cup {Root}
    BY BranchClosed
<1>2. c \in Blocks /\ Parent[c] \in Blocks \cup {Root}
    BY <1>1, PoolAssumption
<1>3. Branch[Parent[c]] \subseteq Branch[b]
    BY <1>1, <1>2, BranchLeast
<1> QED
    BY <1>2, <1>3 DEF ConfirmedAt

\* what an unspent output comes from
LEMMA UtxoFrom ==
    ASSUME NEW b \in Blocks \cup {Root}, NEW op \in UtxosAt[b]
    PROVE  op \in Coins \/ \E x \in ConfirmedAt[b] : op \in Outs(x)
  BY DEF UtxosAt

\* a confirmed transaction spends coins and confirmed outputs
LEMMA ConfirmedSpends ==
    ASSUME NEW b \in Blocks \cup {Root}, NEW t \in ConfirmedAt[b], NEW op \in Tx[t].ins
    PROVE  /\ t \in Txs
           /\ \/ op \in Coins
              \/ Prev(op) \in ConfirmedAt[b] /\ op \in Outs(Prev(op))
<1>1. PICK c \in Branch[b] : t \in ToSet(BlockTxs[c])
    BY DEF ConfirmedAt
<1>2. /\ c \in Blocks /\ Parent[c] \in Blocks \cup {Root}
      /\ ToSet(BlockTxs[c]) \subseteq ConfirmedAt[b] /\ ConfirmedAt[Parent[c]] \subseteq ConfirmedAt[b]
    BY ConfirmedBelow
<1>3. BlockTxs[c] \in Seq(Txs)
    BY <1>2, PoolAssumption
<1>4. PICK i \in DOMAIN BlockTxs[c] : t = BlockTxs[c][i]
    BY <1>1 DEF ToSet
<1>5. t \in Txs
    BY <1>3, <1>4
<1>6. \/ op \in UtxosAt[Parent[c]]
      \/ \E j \in 1..(i - 1) : op \in Outs(BlockTxs[c][j])
    BY <1>2, <1>4, BlocksValid
<1>7. ASSUME op \in UtxosAt[Parent[c]], op \notin Coins
      PROVE  Prev(op) \in ConfirmedAt[b] /\ op \in Outs(Prev(op))
  <2>1. PICK x \in ConfirmedAt[Parent[c]] : op \in Outs(x)
      BY <1>2, <1>7, UtxoFrom
  <2>2. x \in Txs
      BY <1>2, <2>1, ConfirmedTxs
  <2> QED
      BY <1>2, <2>1, <2>2, OutputsOf
<1>8. ASSUME NEW j \in 1..(i - 1), op \in Outs(BlockTxs[c][j])
      PROVE  Prev(op) \in ConfirmedAt[b] /\ op \in Outs(Prev(op))
  <2>1. j \in DOMAIN BlockTxs[c] /\ BlockTxs[c][j] \in Txs
      BY <1>3, <1>4
  <2>2. BlockTxs[c][j] \in ToSet(BlockTxs[c])
      BY <2>1 DEF ToSet
  <2> QED
      BY <1>2, <1>8, <2>1, <2>2, OutputsOf
<1> QED
    BY <1>5, <1>6, <1>7, <1>8

LEMMA BranchBelow ==
    ASSUME NEW b \in Blocks \cup {Root}, NEW c \in Branch[b]
    PROVE  c \in Blocks /\ Branch[c] \subseteq Branch[b]
<1>1. /\ Branch[b] \in SUBSET Blocks /\ c \in Branch[b] \cup {Root}
      /\ \A d \in Branch[b] : Parent[d] \in Branch[b] \cup {Root}
    BY BranchClosed
<1>2. c \in Blocks \cup {Root}
    BY <1>1
<1> QED
    BY <1>1, <1>2, BranchLeast

LEMMA CleanConfirmed ==
    ASSUME tip \in Blocks \cup {Root}
    PROVE  Clean \subseteq Confirmed
  BY DEF Clean, Confirmed, ConfirmedAt

\* what such a transaction spends is a coin or an output of another one
LEMMA CleanSpends ==
    ASSUME tip \in Blocks \cup {Root}, NEW t \in Clean, NEW op \in Tx[t].ins, op \notin Coins
    PROVE  Prev(op) \in Clean
<1>1. PICK b \in Branch[tip] : Branch[b] \cap missed = {} /\ t \in ToSet(BlockTxs[b])
    BY DEF Clean
<1>2. b \in Blocks /\ Branch[b] \subseteq Branch[tip]
    BY <1>1, BranchBelow
<1>3. b \in Branch[b]
    BY <1>2, PoolAssumption, BranchClosed
<1>4. t \in ConfirmedAt[b]
    BY <1>1, <1>2, <1>3 DEF ConfirmedAt
<1>5. Prev(op) \in ConfirmedAt[b]
    BY <1>2, <1>4, ConfirmedSpends
<1>6. PICK c \in Branch[b] : Prev(op) \in ToSet(BlockTxs[c])
    BY <1>2, <1>5 DEF ConfirmedAt
<1>7. Branch[c] \subseteq Branch[b]
    BY <1>2, <1>6, BranchBelow
<1> QED
    BY <1>1, <1>2, <1>6, <1>7 DEF Clean

LEMMA UtxoNotSpent ==
    ASSUME NEW b \in Blocks \cup {Root}, NEW t \in ConfirmedAt[b], NEW op \in Tx[t].ins
    PROVE  op \notin UtxosAt[b]
  BY DEF UtxosAt

LEMMA NatMin ==
    ASSUME NEW S, S \subseteq Nat, S # {}
    PROVE  \E m \in S : \A k \in S : m <= k
<1>1. PICK m \in S : \A k \in S : ~ (<<k, m>> \in OpToRel(<, Nat))
    BY NatLessThanWellFounded, WFMin
<1>2. \A k \in S : ~ (k < m)
    BY <1>1 DEF OpToRel
<1> QED
    BY <1>2

\* nothing is confirmed twice: the first of a block that was confirmed below
\* it would find its inputs spent
LEMMA NotConfirmedTwice ==
    ASSUME NEW b \in Blocks, NEW t \in ToSet(BlockTxs[b])
    PROVE  t \notin ConfirmedAt[Parent[b]]
<1> DEFINE twice == {i \in 1..Len(BlockTxs[b]) : BlockTxs[b][i] \in ConfirmedAt[Parent[b]]}
<1>1. /\ BlockTxs[b] \in Seq(Txs) /\ DOMAIN BlockTxs[b] = 1..Len(BlockTxs[b]) /\ Len(BlockTxs[b]) \in Nat
      /\ Parent[b] \in Blocks \cup {Root}
    BY PoolAssumption
<1>2. ASSUME twice # {} PROVE FALSE
  <2>0. twice \subseteq Nat
      BY <1>1
  <2> HIDE DEF twice
  <2>1. PICK i \in twice : \A k \in twice : i <= k
      BY <1>2, <2>0, NatMin
  <2>2. i \in 1..Len(BlockTxs[b]) /\ BlockTxs[b][i] \in ConfirmedAt[Parent[b]] /\ BlockTxs[b][i] \in Txs
      BY <1>1, <2>1 DEF twice
  <2>3. PICK op \in Tx[BlockTxs[b][i]].ins : TRUE
      BY <2>2, PoolAssumption
  <2>4. op \notin UtxosAt[Parent[b]]
      BY <1>1, <2>2, <2>3, UtxoNotSpent
  <2>5. PICK j \in 1..(i - 1) : op \in Outs(BlockTxs[b][j])
      BY <1>1, <2>2, <2>3, <2>4, BlocksValid
  <2>6. j \in 1..Len(BlockTxs[b]) /\ BlockTxs[b][j] \in Txs /\ j < i
      BY <1>1, <2>2, <2>5
  <2>7. Prev(op) = BlockTxs[b][j] /\ op \notin Coins
      BY <2>5, <2>6, OutputsOf
  <2>8. BlockTxs[b][j] \in ConfirmedAt[Parent[b]]
      BY <1>1, <2>2, <2>3, <2>7, ConfirmedSpends
  <2>9. j \in twice
      BY <2>6, <2>8 DEF twice
  <2> QED
      BY <2>1, <2>2, <2>5, <2>6, <2>9
<1>3. PICK i \in 1..Len(BlockTxs[b]) : t = BlockTxs[b][i]
    BY <1>1 DEF ToSet
<1> QED
    BY <1>2, <1>3

-----------------------------------------------------------------------------
(* The pool and its indexes. *)

LEMMA IndexGives ==
    ASSUME IndexExact
    PROVE  /\ \A op \in DOMAIN outpoints : outpoints[op] \in pool /\ op \in Tx[outpoints[op]].ins
           /\ \A u \in pool : \A op \in Tx[u].ins : op \in DOMAIN outpoints /\ outpoints[op] = u
  BY DEF IndexExact

\* with a member of S, everything in the pool that spends it is in S
Closed(S) == S \subseteq pool /\ \A u \in pool : \A op \in Tx[u].ins : Prev(op) \in S => u \in S

LEMMA DescendantsClosed ==
    ASSUME IndexExact, NEW t
    PROVE  /\ Closed(TxDescendants(t))
           /\ \A u \in pool : \A op \in Tx[u].ins : Prev(op) = t => u \in TxDescendants(t)
<1> DEFINE D == TxDescendants(t)
<1>1. D = {u \in pool : \A S \in SUBSET pool : Spenders(outpoints, S \cup {t}) \subseteq S => u \in S}
    BY DEF TxDescendants
<1> HIDE DEF D
<1>2. ASSUME NEW u \in pool, NEW op \in Tx[u].ins, Prev(op) \in D \cup {t}
      PROVE  u \in D
  <2>1. ASSUME NEW S \in SUBSET pool, Spenders(outpoints, S \cup {t}) \subseteq S
        PROVE  u \in S
    <3>1. D \subseteq S
        BY <1>1, <2>1
    <3>2. op \in DOMAIN outpoints /\ outpoints[op] = u
        BY IndexGives
    <3>3. Prev(op) \in S \cup {t}
        BY <1>2, <3>1
    <3>4. u \in Spenders(outpoints, S \cup {t})
        BY <3>2, <3>3 DEF Spenders
    <3> QED
        BY <2>1, <3>4
  <2> QED
      BY <1>1, <2>1
<1>3. D \subseteq pool
    BY <1>1
<1> QED
    BY <1>2, <1>3 DEF Closed, D

LEMMA ConflictsClosed ==
    ASSUME IndexExact, NEW t
    PROVE  /\ Closed(TxConflicts(t))
           /\ \A u \in pool : Tx[u].ins \cap Tx[t].ins # {} => u \in TxConflicts(t)
<1> DEFINE direct == {outpoints[op] : op \in Tx[t].ins \cap DOMAIN outpoints}
           D == UNION {TxDescendants(u) : u \in direct}
<1>1. TxConflicts(t) = direct \cup D
    BY DEF TxConflicts
<1>2. direct \subseteq pool
    BY IndexGives
<1>3. \A u \in pool : Tx[u].ins \cap Tx[t].ins # {} => u \in direct
    BY IndexGives
<1> HIDE DEF direct
<1>4. ASSUME NEW u \in pool, NEW op \in Tx[u].ins, Prev(op) \in direct \cup D
      PROVE  u \in D
  <2>1. CASE Prev(op) \in direct
      BY <2>1, DescendantsClosed
  <2>2. CASE Prev(op) \in D
    <3>1. PICK v \in direct : Prev(op) \in TxDescendants(v)
        BY <2>2
    <3> QED
        BY <3>1, DescendantsClosed DEF Closed
  <2> QED
      BY <1>4, <2>1, <2>2
<1>5. D \subseteq pool
    BY DescendantsClosed DEF Closed
<1> QED
    BY <1>1, <1>2, <1>3, <1>4, <1>5 DEF Closed

LEMMA AncestorsHold ==
    ASSUME NEW t, NEW op \in Tx[t].ins, Prev(op) \in pool
    PROVE  Prev(op) \in TxAncestors(t)
<1>1. ASSUME NEW S \in SUBSET pool, PoolParents(S \cup {t}) \subseteq S
      PROVE  Prev(op) \in S
  <2>1. Prev(op) \in PoolParents(S \cup {t})
      BY DEF PoolParents
  <2> QED
      BY <1>1, <2>1
<1> QED
    BY <1>1 DEF TxAncestors

\* the unconfirmed part of the address index
LEMMA UpdateUnconfirmedOK ==
    ASSUME IndexExact, NEW R, NEW A, A \cap pool = {}, UpdateUnconfirmed(R, A), pool' = (pool \ R) \cup A
    PROVE  /\ addrsByTx' = [t \in pool' |-> AddressesOf(t)]
           /\ txnsByAddr' = [a \in UNION {AddressesOf(t) : t \in pool'}
                              |-> {t \in pool' : a \in AddressesOf(t)}]
<1> DEFINE kept == [a \in DOMAIN txnsByAddr |->
                       txnsByAddr[a] \ {t \in R \cap DOMAIN addrsByTx : a \in addrsByTx[t]}]
           old(a) == {t \in pool \ R : a \in AddressesOf(t)}
           dom == {b \in DOMAIN kept : kept[b] # {}} \cup UNION {AddressesOf(t) : t \in A}
<1>1. /\ addrsByTx = [t \in pool |-> AddressesOf(t)]
      /\ txnsByAddr = [a \in UNION {AddressesOf(t) : t \in pool} |-> {t \in pool : a \in AddressesOf(t)}]
    BY DEF IndexExact
<1>2. /\ addrsByTx' = [t \in (DOMAIN addrsByTx \ R) \cup A |-> IF t \in A THEN AddressesOf(t) ELSE addrsByTx[t]]
      /\ txnsByAddr' = [a \in dom |-> (IF a \in DOMAIN kept THEN kept[a] ELSE {})
                                          \cup {t \in A : a \in AddressesOf(t)}]
    BY DEF UpdateUnconfirmed
<1>3. addrsByTx' = [t \in pool' |-> AddressesOf(t)]
    BY <1>1, <1>2
<1>4. \A a \in DOMAIN kept : kept[a] = old(a)
    BY <1>1
<1>5. DOMAIN kept = UNION {AddressesOf(t) : t \in pool}
    BY <1>1
<1> HIDE DEF kept
<1>6. \A a : a \notin DOMAIN kept => old(a) = {}
    BY <1>5
<1>7. dom = UNION {AddressesOf(t) : t \in pool'}
  <2>1. ASSUME NEW a \in dom PROVE a \in UNION {AddressesOf(t) : t \in pool'}
      BY <1>4
  <2>2. ASSUME NEW t \in pool', NEW a \in AddressesOf(t) PROVE a \in dom
    <3>1. CASE t \in A
        BY <3>1
    <3>2. CASE t \in pool \ R
      <4>1. t \in old(a)
          BY <3>2, <2>2
      <4>2. a \in DOMAIN kept
          BY <3>2, <2>2, <1>5
      <4> QED
          BY <4>1, <4>2, <1>4
    <3> QED
        BY <3>1, <3>2
  <2> QED
      BY <2>1, <2>2
<1>8. \A a \in dom : (IF a \in DOMAIN kept THEN kept[a] ELSE {}) \cup {t \in A : a \in AddressesOf(t)}
                        = {t \in pool' : a \in AddressesOf(t)}
    BY <1>4, <1>6
<1> HIDE DEF dom
<1> QED
    BY <1>2, <1>3, <1>7, <1>8

LEMMA RemoveTransactionsOK ==
    ASSUME IndexExact, NEW S, RemoveTransactions(S)
    PROVE  IndexExact' /\ pool' = pool \ S
<1>1. /\ pool' = pool \ S /\ UpdateUnconfirmed(S \cap pool, {})
      /\ outpoints' = Without(outpoints, UNION {Tx[t].ins : t \in S \cap pool})
    BY DEF RemoveTransactions
<1>2. pool' = (pool \ (S \cap pool)) \cup {}
    BY <1>1
<1>3. /\ addrsByTx' = [t \in pool' |-> AddressesOf(t)]
      /\ txnsByAddr' = [a \in UNION {AddressesOf(t) : t \in pool'} |-> {t \in pool' : a \in AddressesOf(t)}]
    BY <1>1, <1>2, UpdateUnconfirmedOK
<1>4. /\ DOMAIN outpoints' = DOMAIN outpoints \ UNION {Tx[t].ins : t \in S \cap pool}
      /\ \A op \in DOMAIN outpoints' : outpoints'[op] = outpoints[op]
    BY <1>1 DEF Without
<1>5. \A t \in pool' : \A op \in Tx[t].ins : op \in DOMAIN outpoints' /\ outpoints'[op] = t
    BY <1>1, <1>4, IndexGives
<1>6. \A op \in DOMAIN outpoints' : \E t \in pool' : op \in Tx[t].ins
    BY <1>1, <1>4, IndexGives
<1>7. DOMAIN outpoints' = UNION {Tx[t].ins : t \in pool'}
  <2>1. ASSUME NEW op \in DOMAIN outpoints' PROVE op \in UNION {Tx[t].ins : t \in pool'}
      BY <1>6
  <2>2. ASSUME NEW op \in UNION {Tx[t].ins : t \in pool'} PROVE op \in DOMAIN outpoints'
      BY <1>5
  <2> QED
      BY <2>1, <2>2
<1> QED
    BY <1>1, <1>3, <1>5, <1>7 DEF IndexExact

LEMMA AddTransactionOK ==
    ASSUME IndexExact, NEW t, t \notin pool, NEW C, C \subseteq pool,
           \A u \in pool : Tx[u].ins \cap Tx[t].ins # {} => u \in C, AddTransaction(t, C)
    PROVE  IndexExact' /\ pool' = (pool \ C) \cup {t}
<1> DEFINE kept == Without(outpoints, UNION {Tx[u].ins : u \in C})
<1>1. /\ pool' = (pool \ C) \cup {t} /\ UpdateUnconfirmed(C, {t})
      /\ outpoints' = [op \in DOMAIN kept \cup Tx[t].ins |-> IF op \in Tx[t].ins THEN t ELSE kept[op]]
    BY DEF AddTransaction
<1>2. {t} \cap pool = {}
    OBVIOUS
<1>3. /\ addrsByTx' = [u \in pool' |-> AddressesOf(u)]
      /\ txnsByAddr' = [a \in UNION {AddressesOf(u) : u \in pool'} |-> {u \in pool' : a \in AddressesOf(u)}]
    BY <1>1, <1>2, UpdateUnconfirmedOK
<1>4. /\ DOMAIN kept = DOMAIN outpoints \ UNION {Tx[u].ins : u \in C}
      /\ \A op \in DOMAIN kept : kept[op] = outpoints[op]
    BY DEF Without
<1> HIDE DEF kept
<1>5. ASSUME NEW u \in pool', NEW op \in Tx[u].ins
      PROVE  op \in DOMAIN outpoints' /\ outpoints'[op] = u
  <2>1. CASE u = t
      BY <1>1, <2>1
  <2>2. CASE u \in pool \ C
    <3>1. op \in DOMAIN outpoints /\ outpoints[op] = u /\ op \notin Tx[t].ins
        BY <2>2, IndexGives
    <3>2. op \notin UNION {Tx[v].ins : v \in C}
        BY <2>2, <3>1, IndexGives
    <3> QED
        BY <1>1, <1>4, <3>1, <3>2
  <2> QED
      BY <1>1, <2>1, <2>2
<1>6. \A op \in DOMAIN outpoints' : \E u \in pool' : op \in Tx[u].ins
    BY <1>1, <1>4, IndexGives
<1>7. DOMAIN outpoints' = UNION {Tx[u].ins : u \in pool'}
  <2>1. ASSUME NEW op \in DOMAIN outpoints' PROVE op \in UNION {Tx[u].ins : u \in pool'}
      BY <1>6
  <2>2. ASSUME NEW op \in UNION {Tx[u].ins : u \in pool'} PROVE op \in DOMAIN outpoints'
      BY <1>5
  <2> QED
      BY <2>1, <2>2
<1> QED
    BY <1>1, <1>3, <1>5, <1>7 DEF IndexExact

\* what the verdict of checkMempoolAcceptance rests on
LEMMA AcceptanceFacts ==
    ASSUME NEW t \in Txs, NEW isNew, NEW limit, NEW dup \in BOOLEAN
    PROVE  LET v == CheckMempoolAcceptance(t, isNew, limit, dup)
           IN  /\ v.verdict \in {"reject", "missing", "accept"} /\ v.penny \in Nat
               /\ v.verdict # "reject" => t \notin pool /\ (dup => t \notin DOMAIN orphans)
               /\ v.verdict = "accept" =>
                    /\ FetchInputUtxos(t) = Tx[t].ins
                    /\ v.conflicts \in {{}, TxConflicts(t)}
                    /\ v.conflicts = {} => \A op \in Tx[t].ins : op \notin DOMAIN outpoints \/ TxConflicts(t) = {}
                    /\ v.conflicts # {} => TxAncestors(t) \cap v.conflicts = {}
<1> DEFINE double == CheckPoolDoubleSpend(t)
           relay == ValidateRelayFeeMet(t, isNew, limit)
           used == IF relay = "penny" THEN Tx[t].size ELSE 0
           v == CheckMempoolAcceptance(t, isNew, limit, dup)
           bad == \/ ~ValidateSegWitDeployment(t)
                  \/ t \in pool \/ (dup /\ t \in DOMAIN orphans)
                  \/ Tx[t].fails = "small" \/ ~CheckTransactionSanity(t)
                  \/ double = "reject"
                  \/ Outs(t) \cap Utxos # {}
           bad2 == ~CheckTransactionInputs(t) \/ ~ValidateStandardness(t)
                     \/ ~SequenceLockActive(t) \/ ~ValidateSigCost(t) \/ relay = "reject"
<1>1. used \in Nat
    BY PoolAssumption
<1>2. double # "reject" /\ double # "replace" => \A op \in Tx[t].ins : op \notin DOMAIN outpoints
    BY DEF CheckPoolDoubleSpend
<1>3. ValidateReplacement(t) => TxAncestors(t) \cap TxConflicts(t) = {}
    BY DEF ValidateReplacement
<1>4. v = IF bad THEN Verdict("reject", {}, 0)
          ELSE IF FetchInputUtxos(t) # Tx[t].ins THEN Verdict("missing", {}, 0)
          ELSE IF bad2 THEN Verdict("reject", {}, 0)
          ELSE IF double = "replace" /\ ~ValidateReplacement(t) THEN Verdict("reject", {}, used)
          ELSE Verdict("accept", IF double = "replace" THEN TxConflicts(t) ELSE {}, used)
    BY DEF CheckMempoolAcceptance
<1>5. bad \/ (t \notin pool /\ (dup => t \notin DOMAIN orphans) /\ double # "reject")
    OBVIOUS
<1> HIDE DEF double, relay, used, v, bad, bad2
<1>6. \A x, y, z : /\ Verdict(x, y, z).verdict = x /\ Verdict(x, y, z).conflicts = y
                   /\ Verdict(x, y, z).penny = z
    BY DEF Verdict
<1>7. CASE bad
    BY <1>4, <1>6, <1>7 DEF v
<1>8. CASE ~ bad /\ FetchInputUtxos(t) # Tx[t].ins
    BY <1>4, <1>5, <1>6, <1>8 DEF v
<1>9. CASE ~ bad /\ FetchInputUtxos(t) = Tx[t].ins /\ bad2
    BY <1>4, <1>6, <1>9 DEF v
<1>10. CASE ~ bad /\ FetchInputUtxos(t) = Tx[t].ins /\ ~ bad2 /\ double = "replace" /\ ~ ValidateReplacement(t)
    BY <1>1, <1>4, <1>6, <1>10 DEF v
<1>11. CASE ~ bad /\ FetchInputUtxos(t) = Tx[t].ins /\ ~ bad2 /\ double = "replace" /\ ValidateReplacement(t)
    BY <1>1, <1>3, <1>4, <1>5, <1>6, <1>11 DEF v
<1>12. CASE ~ bad /\ FetchInputUtxos(t) = Tx[t].ins /\ ~ bad2 /\ double # "replace"
    BY <1>1, <1>2, <1>4, <1>5, <1>6, <1>12 DEF v
<1> QED
    BY <1>7, <1>8, <1>9, <1>10, <1>11, <1>12

-----------------------------------------------------------------------------
(* What enters and leaves the pool keeps its inputs in order. *)

\* the invariant for a pool P, whatever the handler does in the step
Sound(P) ==
    /\ P \subseteq Txs
    /\ \A u \in P : \A op \in Tx[u].ins : op \in Coins \/ op \in Outs(Prev(op))
    /\ \A u \in P : \A op \in Tx[u].ins :
        \/ op \in Known \/ Prev(op) \in P \cup lost \cup Returning
        \/ \E w \in Rivals : op \in Tx[w].ins /\ (w # u \/ u \in ToRemove)
    /\ P \cap Clean \subseteq ToRemove

LEMMA PoolIsSound ==
    ASSUME PoolInv
    PROVE  /\ Sound(pool) /\ IndexExact /\ tip \in Blocks \cup {Root}
           /\ note.txs \in Seq(Txs) /\ Confirmed \subseteq Txs
           /\ missed \subseteq Branch[tip]
  BY ConfirmedTxs DEF PoolInv, Typed, TypeOK, Sound, InputsReal, InputsFound, Found, ConfirmedListed, Confirmed

\* a confirmed transaction is accepted only when its own turn is to come
LEMMA AcceptedIsListed ==
    ASSUME PoolInv, NEW t \in Txs, FetchInputUtxos(t) = Tx[t].ins, t \in Clean
    PROVE  t \in ToRemove
<1>1. PICK op \in Tx[t].ins : TRUE
    BY PoolAssumption
<1>2. tip \in Blocks \cup {Root} /\ note.txs \in Seq(Txs) /\ pool \subseteq Txs
    BY PoolIsSound DEF Sound
<1>15. t \in Confirmed
    BY <1>2, CleanConfirmed
<1>3. op \notin Utxos
    BY <1>1, <1>2, <1>15, UtxoNotSpent DEF Confirmed, Utxos
<1>4. Prev(op) \in pool /\ op \in Outs(Prev(op))
    BY <1>1, <1>3 DEF FetchInputUtxos
<1>5. op \notin Coins
    BY <1>2, <1>4, OutputsOf
<1>6. Prev(op) \in Clean
    BY <1>1, <1>2, <1>5, CleanSpends
<1>7. Prev(op) \in ToRemove
    BY <1>4, <1>6 DEF PoolInv, ConfirmedListed
<1> DEFINE n == IF note.call = "remove" THEN 1 ELSE 2
<1>8. note.kind = "connected" /\ ToRemove = {note.txs[i] : i \in n..Len(note.txs)}
    BY <1>7 DEF ToRemove, ListFrom
<1>9. PICK i \in n..Len(note.txs) : note.txs[i] = Prev(op)
    BY <1>7, <1>8
<1>10. n \in Nat /\ n > 0 /\ Len(note.txs) \in Nat
    BY <1>2
<1> HIDE DEF n
<1>11. \A k \in 1..Len(note.txs) : \A u \in Confirmed :
         Tx[u].ins \cap Outs(note.txs[k]) # {} => \E j \in (k + 1)..Len(note.txs) : note.txs[j] = u
    BY <1>8 DEF PoolInv, ListInOrder
<1>12. i \in 1..Len(note.txs) /\ Tx[t].ins \cap Outs(note.txs[i]) # {}
    BY <1>1, <1>4, <1>9, <1>10
<1>13. PICK j \in (i + 1)..Len(note.txs) : note.txs[j] = t
    BY <1>11, <1>12, <1>15
<1>14. j \in n..Len(note.txs)
    BY <1>9, <1>10, <1>13
<1> QED
    BY <1>8, <1>13, <1>14

LEMMA MaybeAcceptOK ==
    ASSUME PoolInv, NEW t \in Txs, NEW isNew, NEW limit, NEW dup \in BOOLEAN,
           NEW v, v = CheckMempoolAcceptance(t, isNew, limit, dup), MaybeAcceptTransaction(t, v)
    PROVE  /\ IndexExact' /\ Sound(pool')
           /\ v.verdict \in {"reject", "missing", "accept"} /\ v.penny \in Nat
           /\ v.verdict # "reject" => t \notin pool /\ (dup => t \notin DOMAIN orphans)
           /\ v.verdict # "accept" => UNCHANGED poolVars
           /\ v.verdict = "accept" => t \in pool' /\ pool' \subseteq pool \cup {t}
<1>1. /\ v.verdict \in {"reject", "missing", "accept"} /\ v.penny \in Nat
      /\ v.verdict # "reject" => t \notin pool /\ (dup => t \notin DOMAIN orphans)
      /\ v.verdict = "accept" =>
            /\ FetchInputUtxos(t) = Tx[t].ins
            /\ v.conflicts \in {{}, TxConflicts(t)}
            /\ v.conflicts = {} => \A op \in Tx[t].ins : op \notin DOMAIN outpoints \/ TxConflicts(t) = {}
            /\ v.conflicts # {} => TxAncestors(t) \cap v.conflicts = {}
    BY AcceptanceFacts
<1>2. Sound(pool) /\ IndexExact
    BY PoolIsSound
<1>3. ASSUME v.verdict # "accept"
      PROVE  IndexExact' /\ Sound(pool') /\ UNCHANGED poolVars
  <2>1. UNCHANGED poolVars
      BY <1>3 DEF MaybeAcceptTransaction
  <2> QED
      BY <1>2, <2>1 DEF poolVars, IndexExact
<1>4. ASSUME v.verdict = "accept"
      PROVE  IndexExact' /\ Sound(pool') /\ t \in pool' /\ pool' \subseteq pool \cup {t}
  <2> DEFINE C == v.conflicts
  <2>1. AddTransaction(t, C)
      BY <1>4 DEF MaybeAcceptTransaction
  <2>2. Closed(C) /\ C \subseteq pool
    <3>1. CASE C = {}
        BY <3>1 DEF Closed
    <3>2. CASE C = TxConflicts(t)
        BY <1>2, <3>2, ConflictsClosed DEF Closed
    <3> QED
        BY <1>1, <1>4, <3>1, <3>2
  <2>3. \A u \in pool : Tx[u].ins \cap Tx[t].ins # {} => u \in C
    <3>1. CASE C = TxConflicts(t)
        BY <1>2, <3>1, ConflictsClosed
    <3>2. CASE C = {} /\ C # TxConflicts(t)
      <4>1. \A op \in Tx[t].ins : op \notin DOMAIN outpoints
          BY <1>1, <1>4, <3>2
      <4> QED
          BY <1>2, <4>1, IndexGives
    <3> QED
        BY <1>1, <1>4, <3>1, <3>2
  <2>4. t \notin pool /\ FetchInputUtxos(t) = Tx[t].ins
      BY <1>1, <1>4
  <2>5. C # {} => TxAncestors(t) \cap C = {}
      BY <1>1, <1>4
  <2> HIDE DEF C
  <2>6. IndexExact' /\ pool' = (pool \ C) \cup {t}
      BY <1>2, <2>1, <2>2, <2>3, <2>4, AddTransactionOK
  <2>7. pool' \subseteq Txs
      BY <1>2, <2>6 DEF Sound
  <2>8. ASSUME NEW op \in Tx[t].ins
        PROVE  op \in Utxos \/ (Prev(op) \in pool' /\ op \in Outs(Prev(op)))
    <3>1. op \in Utxos \/ (Prev(op) \in pool /\ op \in Outs(Prev(op)))
        BY <2>4 DEF FetchInputUtxos
    <3>2. ASSUME Prev(op) \in pool PROVE Prev(op) \notin C
      <4>1. Prev(op) \in TxAncestors(t)
          BY <3>2, AncestorsHold
      <4> QED
          BY <2>5, <4>1
    <3> QED
        BY <2>6, <3>1, <3>2
  <2>9. ASSUME NEW u \in pool', NEW op \in Tx[u].ins
        PROVE  op \in Coins \/ op \in Outs(Prev(op))
    <3>1. CASE u \in pool
        BY <1>2, <3>1 DEF Sound
    <3>2. CASE u = t /\ op \in Utxos
      <4>1. tip \in Blocks \cup {Root} /\ Confirmed \subseteq Txs
          BY PoolIsSound
      <4>2. op \in Coins \/ \E x \in Confirmed : op \in Outs(x)
          BY <3>2, <4>1, UtxoFrom DEF Utxos, Confirmed
      <4> QED
          BY <4>1, <4>2, OutputsOf
    <3> QED
        BY <2>6, <2>8, <3>1, <3>2
  <2>10. ASSUME NEW u \in pool', NEW op \in Tx[u].ins
         PROVE  \/ op \in Known \/ Prev(op) \in pool' \cup lost \cup Returning
                \/ \E w \in Rivals : op \in Tx[w].ins /\ (w # u \/ u \in ToRemove)
    <3>1. CASE u = t
        BY <2>8, <3>1 DEF Known
    <3>2. CASE u \in pool \ C
      <4>1. Prev(op) \notin C
          BY <2>2, <3>2 DEF Closed
      <4> QED
          BY <1>2, <2>6, <3>2, <4>1 DEF Sound
    <3> QED
        BY <2>6, <3>1, <3>2
  <2>11. pool' \cap Clean \subseteq ToRemove
    <3>1. t \in Clean => t \in ToRemove
        BY <2>4, AcceptedIsListed
    <3> QED
        BY <1>2, <2>6, <3>1 DEF Sound
  <2>12. Sound(pool')
      BY <2>7, <2>9, <2>10, <2>11 DEF Sound
  <2> QED
      BY <2>6, <2>12
<1> QED
    BY <1>1, <1>3, <1>4

\* a set of transactions leaves together with all that spend it
LEMMA RemoveClosedOK ==
    ASSUME PoolInv, NEW S, Closed(S), RemoveTransactions(S)
    PROVE  IndexExact' /\ pool' = pool \ S /\ Sound(pool')
<1>1. Sound(pool) /\ IndexExact
    BY PoolIsSound
<1>2. IndexExact' /\ pool' = pool \ S
    BY <1>1, RemoveTransactionsOK
<1>3. \A u \in pool \ S : \A op \in Tx[u].ins : Prev(op) \notin S
    BY DEF Closed
<1>4. Sound(pool \ S)
    BY <1>1, <1>3 DEF Sound
<1> QED
    BY <1>2, <1>4

-----------------------------------------------------------------------------
(* The orphan pool. *)

OrphansOK ==
    /\ DOMAIN orphans \subseteq Txs /\ IsFiniteSet(DOMAIN orphans)
    /\ \A t \in DOMAIN orphans : orphans[t] \in [tag : Tags, expired : BOOLEAN]
    /\ DOMAIN orphansByPrev = UNION {Tx[t].ins : t \in DOMAIN orphans}
    /\ \A op \in DOMAIN orphansByPrev : orphansByPrev[op] = {t \in DOMAIN orphans : op \in Tx[t].ins}
    /\ Cardinality(DOMAIN orphans) <= MaxOrphanTxs

LEMMA OrphanParts ==
    ASSUME PoolInv
    PROVE  /\ OrphansOK /\ DOMAIN orphans \cap pool = {}
           /\ UNCHANGED <<orphans, orphansByPrev>> => OrphansOK'
           /\ pennyTotal \in Nat /\ scanDue \in BOOLEAN
  BY DEF PoolInv, Typed, TypeOK, OrphanIndexExact, OrphansOK

LEMMA DropOrphansOK ==
    ASSUME PoolInv, NEW S, DropOrphans(S)
    PROVE  OrphansOK' /\ DOMAIN orphans' = DOMAIN orphans \ S
<1>1. OrphansOK
    BY OrphanParts
<1>2. /\ orphans' = Without(orphans, S)
      /\ orphansByPrev' = [op \in {o \in DOMAIN orphansByPrev : orphansByPrev[o] \ S # {}}
                            |-> orphansByPrev[op] \ S]
    BY DEF DropOrphans
<1>3. DOMAIN orphans' = DOMAIN orphans \ S /\ \A t \in DOMAIN orphans' : orphans'[t] = orphans[t]
    BY <1>2 DEF Without
<1>4. DOMAIN orphans' \in SUBSET DOMAIN orphans
    BY <1>3
<1>5. /\ IsFiniteSet(DOMAIN orphans') /\ Cardinality(DOMAIN orphans') <= Cardinality(DOMAIN orphans)
      /\ Cardinality(DOMAIN orphans) \in Nat /\ Cardinality(DOMAIN orphans') \in Nat
    BY <1>1, <1>4, FS_Subset, FS_CardinalityType DEF OrphansOK
<1>6. Cardinality(DOMAIN orphans') <= MaxOrphanTxs
    BY <1>1, <1>5, PoolAssumption DEF OrphansOK
<1>7. /\ \A op \in DOMAIN orphansByPrev : orphansByPrev[op] \ S = {t \in DOMAIN orphans' : op \in Tx[t].ins}
      /\ \A t \in DOMAIN orphans' : \A op \in Tx[t].ins : op \in DOMAIN orphansByPrev
    BY <1>1, <1>3 DEF OrphansOK
<1>8. /\ DOMAIN orphansByPrev' = {o \in DOMAIN orphansByPrev : orphansByPrev[o] \ S # {}}
      /\ \A op \in DOMAIN orphansByPrev' : orphansByPrev'[op] = orphansByPrev[op] \ S
    BY <1>2
<1>9. DOMAIN orphansByPrev' = UNION {Tx[t].ins : t \in DOMAIN orphans'}
  <2>1. ASSUME NEW op \in DOMAIN orphansByPrev' PROVE op \in UNION {Tx[t].ins : t \in DOMAIN orphans'}
      BY <1>7, <1>8
  <2>2. ASSUME NEW t \in DOMAIN orphans', NEW op \in Tx[t].ins PROVE op \in DOMAIN orphansByPrev'
    <3>1. op \in DOMAIN orphansByPrev /\ t \in orphansByPrev[op] \ S
        BY <1>7
    <3> QED
        BY <1>8, <3>1
  <2> QED
      BY <2>1, <2>2
<1>10. \A op \in DOMAIN orphansByPrev' : orphansByPrev'[op] = {t \in DOMAIN orphans' : op \in Tx[t].ins}
    BY <1>7, <1>8
<1>11. /\ DOMAIN orphans' \subseteq Txs
       /\ \A t \in DOMAIN orphans' : orphans'[t] \in [tag : Tags, expired : BOOLEAN]
    BY <1>1, <1>3 DEF OrphansOK
<1> QED
    BY <1>3, <1>5, <1>6, <1>9, <1>10, <1>11 DEF OrphansOK

LEMMA AddOrphanOK ==
    ASSUME PoolInv, NEW t \in Txs, NEW tag \in Tags, AddOrphan(t, tag)
    PROVE  /\ OrphansOK' /\ DOMAIN orphans' \subseteq DOMAIN orphans \cup {t}
           /\ scanDue' \in BOOLEAN
<1>1. OrphansOK /\ scanDue \in BOOLEAN
    BY OrphanParts
<1>2. ASSUME UNCHANGED orphanVars
      PROVE  OrphansOK' /\ DOMAIN orphans' \subseteq DOMAIN orphans \cup {t} /\ scanDue' \in BOOLEAN
    BY <1>1, <1>2 DEF orphanVars, OrphansOK
<1>3. ASSUME ~ (MaxOrphanTxs <= 0)
      PROVE  OrphansOK' /\ DOMAIN orphans' \subseteq DOMAIN orphans \cup {t} /\ scanDue' \in BOOLEAN
  <2> DEFINE keep(left) == [u \in left \cup {t}
                             |-> IF u = t THEN [tag |-> tag, expired |-> FALSE] ELSE orphans[u]]
  <2>1. PICK left \in LimitNumOrphans :
            /\ orphans' = keep(left)
            /\ orphansByPrev' = [op \in UNION {Tx[u].ins : u \in DOMAIN keep(left)} |->
                                    {u \in DOMAIN keep(left) : op \in Tx[u].ins}]
            /\ scanDue' = FALSE
      BY <1>3 DEF AddOrphan
  <2>2. left \in SUBSET DOMAIN orphans /\ IsFiniteSet(left) /\ Cardinality(left) + 1 <= MaxOrphanTxs
    <3> DEFINE all == DOMAIN orphans \ RemoveOrphans({u \in DOMAIN orphans : scanDue /\ orphans[u].expired})
    <3>1. left \in (IF Cardinality(all) + 1 <= MaxOrphanTxs THEN {all}
                    ELSE IF all = {} THEN {{}} ELSE {all \ {u} : u \in all})
        BY <2>1 DEF LimitNumOrphans
    <3>2. all \in SUBSET DOMAIN orphans
        OBVIOUS
    <3> HIDE DEF all
    <3>3. /\ IsFiniteSet(all) /\ Cardinality(all) \in Nat /\ Cardinality(all) <= MaxOrphanTxs
          /\ MaxOrphanTxs \in Nat
      <4>1. IsFiniteSet(DOMAIN orphans) /\ Cardinality(DOMAIN orphans) <= MaxOrphanTxs
          BY <1>1 DEF OrphansOK
      <4>2. IsFiniteSet(all) /\ Cardinality(all) <= Cardinality(DOMAIN orphans)
          BY <3>2, <4>1, FS_Subset
      <4>3. Cardinality(all) \in Nat /\ Cardinality(DOMAIN orphans) \in Nat
          BY <4>1, <4>2, FS_CardinalityType
      <4> QED
          BY <4>1, <4>2, <4>3, PoolAssumption
    <3>4. CASE Cardinality(all) + 1 <= MaxOrphanTxs
        BY <3>1, <3>2, <3>3, <3>4
    <3>5. CASE ~ (Cardinality(all) + 1 <= MaxOrphanTxs) /\ all # {}
      <4>1. PICK u \in all : left = all \ {u}
          BY <3>1, <3>5
      <4>2. IsFiniteSet(left) /\ Cardinality(left) = Cardinality(all) - 1
          BY <3>3, <4>1, FS_RemoveElement
      <4> QED
          BY <3>2, <3>3, <4>1, <4>2
    <3>6. CASE all = {}
      <4>1. Cardinality(all) = 0
          BY <3>6, FS_EmptySet
      <4> QED
          BY <1>3, <3>3, <3>4, <4>1
    <3> QED
        BY <3>4, <3>5, <3>6
  <2>3. /\ DOMAIN orphans' = left \cup {t}
        /\ \A u \in DOMAIN orphans' : orphans'[u]
                  = IF u = t THEN [tag |-> tag, expired |-> FALSE] ELSE orphans[u]
        /\ orphansByPrev' = [op \in UNION {Tx[u].ins : u \in DOMAIN orphans'}
                                               |-> {u \in DOMAIN orphans' : op \in Tx[u].ins}]
      BY <2>1
  <2>4. IsFiniteSet(DOMAIN orphans') /\ Cardinality(DOMAIN orphans') <= MaxOrphanTxs
    <3>1. /\ IsFiniteSet(left \cup {t})
          /\ Cardinality(left \cup {t}) = IF t \in left THEN Cardinality(left) ELSE Cardinality(left) + 1
        BY <2>2, FS_AddElement
    <3>2. Cardinality(left) \in Nat
        BY <2>2, FS_CardinalityType
    <3> QED
        BY <2>2, <2>3, <3>1, <3>2, PoolAssumption
  <2>5. /\ DOMAIN orphans' \subseteq Txs /\ DOMAIN orphans' \subseteq DOMAIN orphans \cup {t}
      BY <1>1, <2>2, <2>3 DEF OrphansOK
  <2>6. \A u \in DOMAIN orphans' : orphans'[u] \in [tag : Tags, expired : BOOLEAN]
    <3>1. \A u \in left : orphans[u] \in [tag : Tags, expired : BOOLEAN]
        BY <1>1, <2>2 DEF OrphansOK
    <3>2. [tag |-> tag, expired |-> FALSE] \in [tag : Tags, expired : BOOLEAN]
        OBVIOUS
    <3> QED
        BY <2>3, <3>1, <3>2
  <2>7. /\ DOMAIN orphansByPrev' = UNION {Tx[u].ins : u \in DOMAIN orphans'}
        /\ \A op \in DOMAIN orphansByPrev' : orphansByPrev'[op] = {u \in DOMAIN orphans' : op \in Tx[u].ins}
      BY <2>3
  <2> QED
      BY <2>1, <2>4, <2>5, <2>6, <2>7 DEF OrphansOK
<1> QED
    BY <1>2, <1>3 DEF AddOrphan

-----------------------------------------------------------------------------
(* The invariant of the next state, from its parts. *)

LEMMA Assemble ==
    ASSUME IndexExact', OrphansOK', pool' \subseteq Txs, DOMAIN orphans' \cap pool' = {},
           pennyTotal' \in Nat, scanDue' \in BOOLEAN, tip' \in Blocks \cup {Root}, lost' \subseteq Txs, missed' \subseteq Branch[tip'],
           note' \in [kind : {"none", "connected", "disconnected"}, txs : Seq(Txs),
                      call : {"none", "remove", "double", "orphan", "process", "accept", "drop"}],
           InputsReal', InputsFound', ConfirmedListed', ListInOrder'
    PROVE  PoolInv'
<1>1. /\ DOMAIN outpoints' \subseteq OutPoints /\ \A op \in DOMAIN outpoints' : outpoints'[op] \in Txs
  <2>1. /\ DOMAIN outpoints' = UNION {Tx[t].ins : t \in pool'}
        /\ \A t \in pool' : \A op \in Tx[t].ins : outpoints'[op] = t
      BY DEF IndexExact
  <2> QED
      BY <2>1, PoolAssumption
<1>2. /\ DOMAIN orphansByPrev' \subseteq OutPoints
      /\ \A op \in DOMAIN orphansByPrev' : orphansByPrev'[op] \subseteq Txs
  <2>1. /\ DOMAIN orphans' \subseteq Txs
        /\ DOMAIN orphansByPrev' = UNION {Tx[t].ins : t \in DOMAIN orphans'}
        /\ \A op \in DOMAIN orphansByPrev' : orphansByPrev'[op] = {t \in DOMAIN orphans' : op \in Tx[t].ins}
      BY DEF OrphansOK
  <2> QED
      BY <2>1, PoolAssumption
<1>3. Typed'
  <2>1. \A t \in DOMAIN orphans' : orphans'[t].tag \in Tags /\ orphans'[t].expired \in BOOLEAN
      BY DEF OrphansOK
  <2> QED
      BY <1>1, <1>2, <2>1 DEF Typed, TypeOK, OrphansOK
<1>4. OrphanIndexExact'
    BY DEF OrphanIndexExact, OrphansOK
<1> QED
    BY <1>3, <1>4 DEF PoolInv

\* a step that leaves the chain and its handler alone
LEMMA StepOK ==
    ASSUME PoolInv, IndexExact', Sound(pool'), OrphansOK', DOMAIN orphans' \cap pool' = {},
           pennyTotal' \in Nat, scanDue' \in BOOLEAN, UNCHANGED <<tip, note, lost, missed>>
    PROVE  PoolInv'
<1>1. /\ Known' = Known /\ Clean' = Clean /\ Confirmed' = Confirmed /\ Returning' = Returning
      /\ Rivals' = Rivals /\ ToRemove' = ToRemove
    BY DEF Utxos, Known, MissedTxs, Clean, Confirmed, Returning, Rivals, ToRemove, ListFrom
<1>2. InputsReal' /\ InputsFound' /\ ConfirmedListed'
    BY <1>1 DEF Sound, InputsReal, InputsFound, Found, ConfirmedListed
<1>3. ListInOrder'
    BY <1>1 DEF PoolInv, ListInOrder
<1>4. /\ tip' \in Blocks \cup {Root} /\ lost' \subseteq Txs /\ pool' \subseteq Txs
      /\ missed' \subseteq Branch[tip']
      /\ note' \in [kind : {"none", "connected", "disconnected"}, txs : Seq(Txs),
                    call : {"none", "remove", "double", "orphan", "process", "accept", "drop"}]
    BY DEF PoolInv, Typed, TypeOK, Sound
<1> QED
    BY <1>2, <1>3, <1>4, Assemble

LEMMA SameKeeps ==
    ASSUME PoolInv, UNCHANGED poolVars
    PROVE  IndexExact' /\ Sound(pool') /\ pool' = pool
<1>1. Sound(pool) /\ IndexExact
    BY PoolIsSound
<1>2. pool' = pool
    BY DEF poolVars
<1>3. Sound(pool')
    BY <1>1, <1>2
<1> QED
    BY <1>1, <1>2, <1>3 DEF poolVars, IndexExact

-----------------------------------------------------------------------------
(* Callers, processOrphans and time. *)

LEMMA DropStepOK ==
    ASSUME PoolInv, NEW S, DropOrphans(S), UNCHANGED <<poolVars, pennyTotal, scanDue, tip, note, lost, missed>>
    PROVE  PoolInv'
<1>1. OrphansOK' /\ DOMAIN orphans' = DOMAIN orphans \ S
    BY DropOrphansOK
<1>2. IndexExact' /\ Sound(pool') /\ pool' = pool
    BY SameKeeps
<1>3. DOMAIN orphans \cap pool = {} /\ pennyTotal' \in Nat /\ scanDue' \in BOOLEAN
    BY OrphanParts
<1>4. DOMAIN orphans' \cap pool' = {}
    BY <1>1, <1>2, <1>3
<1> QED
    BY <1>1, <1>2, <1>3, <1>4, StepOK

LEMMA RemoveOrphansByTagOK ==
    ASSUME PoolInv, NEW tag \in Tags, RemoveOrphansByTag(tag)
    PROVE  PoolInv'
  BY DropStepOK DEF RemoveOrphansByTag

LEMMA FinishProcessOrphansOK ==
    ASSUME PoolInv, FinishProcessOrphans
    PROVE  PoolInv'
  BY DropStepOK DEF FinishProcessOrphans

\* steps that touch only the clock, the allowance or the work list
LEMMA QuietStepOK ==
    ASSUME PoolInv, UNCHANGED <<poolVars, orphans, orphansByPrev, tip, note, lost, missed>>,
           pennyTotal' \in Nat, scanDue' \in BOOLEAN
    PROVE  PoolInv'
<1>1. OrphansOK' /\ DOMAIN orphans' \cap pool = {}
    BY OrphanParts
<1>2. IndexExact' /\ Sound(pool') /\ pool' = pool
    BY SameKeeps
<1> QED
    BY <1>1, <1>2, StepOK

LEMMA TimeOK ==
    ASSUME PoolInv, Time
    PROVE  PoolInv'
<1>1. ASSUME ScanIntervalPasses PROVE PoolInv'
    BY <1>1, OrphanParts, QuietStepOK DEF ScanIntervalPasses
<1>2. ASSUME PennyDecay PROVE PoolInv'
    BY <1>2, OrphanParts, QuietStepOK DEF PennyDecay
<1>3. ASSUME OrphanTTLPasses PROVE PoolInv'
  <2>1. /\ orphans' = [t \in DOMAIN orphans |-> [orphans[t] EXCEPT !.expired = TRUE]]
        /\ UNCHANGED <<poolVars, orphansByPrev, pennyTotal, tip, note, lost, missed>> /\ scanDue' = TRUE
      BY <1>3 DEF OrphanTTLPasses
  <2>2. OrphansOK /\ DOMAIN orphans \cap pool = {} /\ pennyTotal \in Nat
      BY OrphanParts
  <2>3. /\ DOMAIN orphans' = DOMAIN orphans
        /\ \A t \in DOMAIN orphans : orphans'[t] = [orphans[t] EXCEPT !.expired = TRUE]
      BY <2>1
  <2>4. ASSUME NEW t \in DOMAIN orphans'
        PROVE  orphans'[t] \in [tag : Tags, expired : BOOLEAN]
    <3>1. orphans[t] \in [tag : Tags, expired : BOOLEAN]
        BY <2>2, <2>3 DEF OrphansOK
    <3> QED
        BY <2>3, <3>1
  <2>5. OrphansOK'
      BY <2>1, <2>2, <2>3, <2>4 DEF OrphansOK
  <2>6. IndexExact' /\ Sound(pool') /\ pool' = pool
      BY <2>1, SameKeeps
  <2> QED
      BY <2>1, <2>2, <2>3, <2>5, <2>6, StepOK
<1> QED
    BY <1>1, <1>2, <1>3 DEF Time

LEMMA TestMempoolAcceptOK ==
    ASSUME PoolInv, NEW t \in Txs, TestMempoolAccept(t)
    PROVE  PoolInv'
<1> DEFINE v == CheckMempoolAcceptance(t, TRUE, TRUE, TRUE)
<1>1. v.penny \in Nat
    BY AcceptanceFacts
<1>2. /\ pennyTotal' = pennyTotal + v.penny
      /\ UNCHANGED <<poolVars, orphans, orphansByPrev, scanDue, tip, note, lost, missed>>
    BY DEF TestMempoolAccept, Spend
<1> HIDE DEF v
<1> QED
    BY <1>1, <1>2, OrphanParts, QuietStepOK

LEMMA ProcessTransactionOK ==
    ASSUME PoolInv, NEW t \in Txs, NEW allow \in BOOLEAN, NEW limit \in BOOLEAN, NEW tag \in Tags,
           ProcessTransaction(t, allow, limit, tag)
    PROVE  PoolInv'
<1> DEFINE v == CheckMempoolAcceptance(t, TRUE, limit, TRUE)
<1>1. /\ MaybeAcceptTransaction(t, v) /\ pennyTotal' = pennyTotal + v.penny
      /\ IF v.verdict = "missing" /\ allow THEN AddOrphan(t, tag) ELSE UNCHANGED orphanVars
      /\ UNCHANGED <<tip, note, lost, missed>>
    BY DEF ProcessTransaction, Spend
<1>2. /\ IndexExact' /\ Sound(pool')
      /\ v.verdict \in {"reject", "missing", "accept"} /\ v.penny \in Nat
      /\ v.verdict # "reject" => t \notin pool /\ (TRUE => t \notin DOMAIN orphans)
      /\ v.verdict # "accept" => UNCHANGED poolVars
      /\ v.verdict = "accept" => t \in pool' /\ pool' \subseteq pool \cup {t}
    BY <1>1, MaybeAcceptOK
<1> HIDE DEF v
<1>3. DOMAIN orphans \cap pool = {} /\ pennyTotal \in Nat /\ scanDue \in BOOLEAN
    BY OrphanParts
<1>4. ASSUME v.verdict = "missing" /\ allow
      PROVE  OrphansOK' /\ scanDue' \in BOOLEAN /\ DOMAIN orphans' \cap pool' = {}
  <2>1. AddOrphan(t, tag)
      BY <1>1, <1>4
  <2>2. /\ OrphansOK' /\ DOMAIN orphans' \subseteq DOMAIN orphans \cup {t}
        /\ scanDue' \in BOOLEAN
      BY <2>1, AddOrphanOK
  <2>3. pool' = pool
      BY <1>2, <1>4 DEF poolVars
  <2> QED
      BY <1>2, <1>3, <1>4, <2>2, <2>3
<1>5. ASSUME ~ (v.verdict = "missing" /\ allow)
      PROVE  OrphansOK' /\ scanDue' \in BOOLEAN /\ DOMAIN orphans' \cap pool' = {}
  <2>1. UNCHANGED <<orphans, orphansByPrev, scanDue>>
      BY <1>1, <1>5 DEF orphanVars
  <2>2. OrphansOK'
      BY <2>1, OrphanParts
  <2>3. v.verdict # "accept" => pool' = pool
      BY <1>2 DEF poolVars
  <2>4. DOMAIN orphans \cap pool' = {}
      BY <1>2, <1>3, <2>3
  <2> QED
      BY <1>3, <2>1, <2>2, <2>4
<1>6. pennyTotal' \in Nat
    BY <1>1, <1>2, <1>3
<1> QED
    BY <1>1, <1>2, <1>4, <1>5, <1>6, StepOK

LEMMA TryOrphanOK ==
    ASSUME PoolInv, NEW t \in Txs, TryOrphan(t)
    PROVE  PoolInv'
<1> DEFINE v == CheckMempoolAcceptance(t, TRUE, TRUE, FALSE)
<1>1. /\ MaybeAcceptTransaction(t, v) /\ pennyTotal' = pennyTotal + v.penny
      /\ UNCHANGED <<scanDue, tip, note, lost, missed>>
      /\ v.verdict = "missing" => UNCHANGED <<orphans, orphansByPrev>>
      /\ v.verdict = "reject" => DropOrphans(RemoveOrphan(t, TRUE))
      /\ v.verdict = "accept" => DropOrphans(RemoveOrphan(t, FALSE))
    BY DEF TryOrphan, Spend
<1>2. /\ IndexExact' /\ Sound(pool')
      /\ v.verdict \in {"reject", "missing", "accept"} /\ v.penny \in Nat
      /\ v.verdict # "accept" => UNCHANGED poolVars
      /\ v.verdict = "accept" => t \in pool' /\ pool' \subseteq pool \cup {t}
    BY <1>1, MaybeAcceptOK
<1> HIDE DEF v
<1>3. DOMAIN orphans \cap pool = {} /\ pennyTotal \in Nat /\ scanDue \in BOOLEAN
    BY OrphanParts
<1>4. ASSUME v.verdict = "missing" PROVE OrphansOK' /\ DOMAIN orphans' \cap pool' = {}
    BY <1>1, <1>2, <1>3, <1>4, OrphanParts DEF poolVars
<1>5. ASSUME v.verdict = "reject" PROVE OrphansOK' /\ DOMAIN orphans' \cap pool' = {}
  <2>1. OrphansOK' /\ DOMAIN orphans' \subseteq DOMAIN orphans
      BY <1>1, <1>5, DropOrphansOK
  <2>2. pool' = pool
      BY <1>2, <1>5 DEF poolVars
  <2> QED
      BY <1>3, <2>1, <2>2
<1>6. ASSUME v.verdict = "accept" PROVE OrphansOK' /\ DOMAIN orphans' \cap pool' = {}
  <2>1. OrphansOK' /\ DOMAIN orphans' = DOMAIN orphans \ RemoveOrphan(t, FALSE)
      BY <1>1, <1>6, DropOrphansOK
  <2>2. t \in DOMAIN orphans => t \in RemoveOrphan(t, FALSE)
      BY DEF RemoveOrphan
  <2> QED
      BY <1>2, <1>3, <1>6, <2>1, <2>2
<1>7. pennyTotal' \in Nat /\ scanDue' \in BOOLEAN
    BY <1>1, <1>2, <1>3
<1> QED
    BY <1>1, <1>2, <1>4, <1>5, <1>6, <1>7, StepOK

LEMMA WorkListOK ==
    ASSUME PoolInv, PopItem \/ NextOutput
    PROVE  PoolInv'
<1>1. UNCHANGED <<poolVars, orphans, orphansByPrev, pennyTotal, scanDue, tip, note, lost, missed>>
    BY DEF PopItem, NextOutput
<1> QED
    BY <1>1, OrphanParts, QuietStepOK

-----------------------------------------------------------------------------
(* The chain and its handler. *)

NoteType ==
    [kind : {"none", "connected", "disconnected"}, txs : Seq(Txs),
     call : {"none", "remove", "double", "orphan", "process", "accept", "drop"}]

LEMMA NoteTyped ==
    ASSUME PoolInv
    PROVE  note \in NoteType /\ note.txs \in Seq(Txs) /\ Len(note.txs) \in Nat /\ lost \subseteq Txs
  BY DEF PoolInv, Typed, TypeOK, NoteType

\* the next call for the same transaction
LEMMA AfterOK ==
    ASSUME PoolInv, NEW call \in {"remove", "double", "orphan", "process", "accept", "drop"}, After(call)
    PROVE  note' \in NoteType /\ note'.kind = note.kind /\ note'.txs = note.txs /\ note'.call = call
<1>1. note \in NoteType
    BY NoteTyped
<1>2. note' = [note EXCEPT !.call = call]
    BY DEF After
<1> QED
    BY <1>1, <1>2 DEF NoteType

\* the first call for the next transaction
LEMMA NextTxOK ==
    ASSUME PoolInv, NEW call \in {"remove", "accept"}, NextTx(call), note.txs # <<>>
    PROVE  /\ note' \in NoteType /\ note'.kind = note.kind /\ note'.call = call
           /\ Len(note'.txs) = Len(note.txs) - 1 /\ Len(note.txs) \in Nat \ {0}
           /\ Len(note'.txs) \in Nat
           /\ \A i \in 1..Len(note'.txs) : note'.txs[i] = note.txs[i + 1]
           /\ Head(note.txs) = note.txs[1] /\ Head(note.txs) \in Txs
           /\ ListFrom(1)' = ListFrom(2) /\ ListFrom(1) = ListFrom(2) \cup {Head(note.txs)}
<1>1. note \in NoteType /\ note.txs \in Seq(Txs)
    BY NoteTyped
<1>2. note' = [note EXCEPT !.call = call, !.txs = Tail(note.txs)]
    BY DEF NextTx
<1>3. Tail(note.txs) \in Seq(Txs)
    BY <1>1
<1>4. note' \in NoteType /\ note'.kind = note.kind /\ note'.call = call /\ note'.txs = Tail(note.txs)
    BY <1>1, <1>2, <1>3 DEF NoteType
<1>5. /\ Len(note'.txs) = Len(note.txs) - 1 /\ Len(note.txs) \in Nat \ {0} /\ Len(note'.txs) \in Nat
      /\ \A i \in 1..Len(note'.txs) : note'.txs[i] = note.txs[i + 1]
      /\ Head(note.txs) = note.txs[1] /\ Head(note.txs) \in Txs
    BY <1>1, <1>4
<1>6. ListFrom(1)' = ListFrom(2)
  <2>1. ListFrom(1)' = {note'.txs[i] : i \in 1..Len(note'.txs)}
      BY DEF ListFrom
  <2>2. ASSUME NEW x \in ListFrom(1)' PROVE x \in ListFrom(2)
    <3>1. PICK i \in 1..Len(note'.txs) : x = note'.txs[i]
        BY <2>1, <2>2
    <3>2. i + 1 \in 2..Len(note.txs) /\ x = note.txs[i + 1]
        BY <1>5, <3>1
    <3> QED
        BY <3>2 DEF ListFrom
  <2>3. ASSUME NEW x \in ListFrom(2) PROVE x \in ListFrom(1)'
    <3>1. PICK i \in 2..Len(note.txs) : x = note.txs[i]
        BY <2>3 DEF ListFrom
    <3>2. i - 1 \in 1..Len(note'.txs) /\ x = note'.txs[i - 1]
        BY <1>5, <3>1
    <3> QED
        BY <2>1, <3>2
  <2> QED
      BY <2>2, <2>3
<1>7. ListFrom(1) = ListFrom(2) \cup {Head(note.txs)}
    BY <1>5 DEF ListFrom
<1> QED
    BY <1>4, <1>5, <1>6, <1>7

LEMMA FirstOfList ==
    ASSUME PoolInv, note.txs # <<>>
    PROVE  /\ Head(note.txs) = note.txs[1] /\ Head(note.txs) \in Txs /\ 1 \in 1..Len(note.txs)
           /\ ListFrom(1) = ListFrom(2) \cup {Head(note.txs)} /\ ListFrom(1) = ToSet(note.txs)
<1>1. note.txs \in Seq(Txs)
    BY NoteTyped
<1>2. Head(note.txs) = note.txs[1] /\ Head(note.txs) \in Txs /\ Len(note.txs) \in Nat \ {0}
      /\ DOMAIN note.txs = 1..Len(note.txs)
    BY <1>1
<1> QED
    BY <1>2 DEF ListFrom, ToSet

\* a step of the handler of a connected block that leaves nothing undone
LEMMA ListedStep ==
    ASSUME PoolInv, note' \in NoteType, UNCHANGED <<tip, lost, missed>>, IndexExact', OrphansOK',
           DOMAIN orphans' \cap pool' = {}, pennyTotal' \in Nat, scanDue' \in BOOLEAN, Sound(pool'),
           ListInOrder', Rivals \subseteq Rivals', ToRemove \subseteq ToRemove', Returning \subseteq Returning'
    PROVE  PoolInv'
<1>1. Known' = Known /\ Clean' = Clean /\ Confirmed' = Confirmed /\ Utxos' = Utxos
    BY DEF Known, Utxos, MissedTxs, Clean, Confirmed
<1>2. InputsReal' /\ pool' \subseteq Txs
    BY DEF Sound, InputsReal
<1>3. InputsFound'
    BY <1>1 DEF Sound, InputsFound, Found
<1>4. ConfirmedListed'
    BY <1>1 DEF Sound, ConfirmedListed
<1>5. tip' \in Blocks \cup {Root} /\ lost' \subseteq Txs /\ missed' \subseteq Branch[tip']
    BY PoolIsSound, NoteTyped
<1> QED
    BY <1>2, <1>3, <1>4, <1>5, Assemble DEF NoteType

LEMMA AfterInOrder ==
    ASSUME PoolInv, note'.kind = note.kind, note'.txs = note.txs, tip' = tip
    PROVE  ListInOrder'
<1>1. Confirmed' = Confirmed
    BY DEF Confirmed
<1> QED
    BY <1>1 DEF PoolInv, ListInOrder

LEMMA OutputSpent ==
    ASSUME NEW b \in Blocks \cup {Root}, NEW x \in ConfirmedAt[b], NEW op \in Outs(x), op \notin UtxosAt[b]
    PROVE  \E w \in ConfirmedAt[b] : op \in Tx[w].ins
  BY DEF UtxosAt

LEMMA NoteRemoveTransactionOK ==
    ASSUME PoolInv, NoteRemoveTransaction
    PROVE  PoolInv'
<1> DEFINE h == Head(note.txs)
<1>1. /\ note.kind = "connected" /\ note.txs # <<>> /\ note.call = "remove"
      /\ RemoveTransactions(Removed(h, FALSE)) /\ After("double")
      /\ UNCHANGED <<orphans, orphansByPrev, pennyTotal, scanDue, tip, lost, missed>>
    BY DEF NoteRemoveTransaction, Handling
<1>2. /\ h = note.txs[1] /\ h \in Txs /\ 1 \in 1..Len(note.txs)
      /\ ListFrom(1) = ListFrom(2) \cup {h} /\ ListFrom(1) = ToSet(note.txs)
    BY <1>1, FirstOfList
<1>3. note' \in NoteType /\ note'.kind = "connected" /\ note'.txs = note.txs /\ note'.call = "double"
    BY <1>1, AfterOK
<1>4. Sound(pool) /\ IndexExact /\ tip \in Blocks \cup {Root} /\ lost \subseteq Txs /\ pool \subseteq Txs
      /\ missed \subseteq Branch[tip]
    BY PoolIsSound, NoteTyped DEF Sound
<1>5. Removed(h, FALSE) = {h} \cap pool
    BY DEF Removed
<1> HIDE DEF h
<1>6. IndexExact' /\ pool' = pool \ {h}
  <2>1. IndexExact' /\ pool' = pool \ Removed(h, FALSE)
      BY <1>1, <1>4, RemoveTransactionsOK
  <2> QED
      BY <1>5, <2>1
<1>7. /\ ToRemove = ListFrom(1) /\ Rivals = ListFrom(1) /\ Returning = {}
      /\ ToRemove' = ListFrom(2) /\ Rivals' = ListFrom(1) /\ Returning' = {}
    BY <1>1, <1>3 DEF ToRemove, Rivals, Returning, ListFrom
<1>8. Known' = Known /\ Clean' = Clean /\ Confirmed' = Confirmed /\ Utxos' = Utxos
    BY <1>1 DEF Known, Utxos, MissedTxs, Clean, Confirmed
<1>9. InputsReal' /\ pool' \subseteq Txs
    BY <1>4, <1>6 DEF Sound, InputsReal
<1>10. ConfirmedListed'
    BY <1>2, <1>4, <1>6, <1>7, <1>8 DEF Sound, ConfirmedListed
<1>11. ASSUME NEW u \in pool', NEW op \in Tx[u].ins, Prev(op) = h, op \notin Utxos
       PROVE  \E w \in Rivals' : op \in Tx[w].ins /\ w \in ToRemove'
  <2>1. op \in Outs(h)
    <3>1. op \in Coins \/ op \in Outs(h)
        BY <1>4, <1>6, <1>11 DEF Sound
    <3> QED
        BY <1>2, <1>11, <3>1, BlocksValid
  <2>2. h \in Confirmed
    <3>1. ToSet(note.txs) \subseteq Confirmed
        BY <1>1 DEF PoolInv, ListInOrder
    <3> QED
        BY <1>2, <3>1
  <2>3. PICK w \in Confirmed : op \in Tx[w].ins
      BY <1>4, <1>11, <2>1, <2>2, OutputSpent DEF Confirmed, Utxos
  <2>4. \A i \in 1..Len(note.txs) : \A v \in Confirmed :
          Tx[v].ins \cap Outs(note.txs[i]) # {} => \E j \in (i + 1)..Len(note.txs) : note.txs[j] = v
      BY <1>1 DEF PoolInv, ListInOrder
  <2>5. \E j \in (1 + 1)..Len(note.txs) : note.txs[j] = w
      BY <1>2, <2>1, <2>3, <2>4
  <2>6. w \in ListFrom(2)
      BY <2>5 DEF ListFrom
  <2> QED
      BY <1>2, <1>7, <2>3, <2>6
<1>12. InputsFound'
  <2>1. ASSUME NEW u \in pool', NEW op \in Tx[u].ins
        PROVE  \/ op \in Known \/ Prev(op) \in pool' \cup lost
               \/ \E w \in Rivals' : op \in Tx[w].ins /\ (w # u \/ u \in ToRemove')
    <3>1. \/ op \in Known \/ Prev(op) \in pool \cup lost \cup Returning
          \/ \E w \in Rivals : op \in Tx[w].ins /\ (w # u \/ u \in ToRemove)
        BY <1>4, <1>6 DEF Sound
    <3>2. CASE Prev(op) = h
        BY <1>11, <3>2 DEF Known
    <3>3. CASE Prev(op) # h
        BY <1>2, <1>6, <1>7, <3>1, <3>3
    <3> QED
        BY <3>2, <3>3
  <2> QED
      BY <1>1, <1>7, <1>8, <2>1 DEF InputsFound, Found
<1>13. ListInOrder'
    BY <1>1, <1>3, AfterInOrder
<1>14. OrphansOK' /\ DOMAIN orphans' \cap pool' = {} /\ pennyTotal' \in Nat /\ scanDue' \in BOOLEAN
    BY <1>1, <1>6, OrphanParts
<1> QED
    BY <1>1, <1>3, <1>4, <1>6, <1>9, <1>10, <1>12, <1>13, <1>14, Assemble DEF NoteType

LEMMA NoteRemoveDoubleSpendsOK ==
    ASSUME PoolInv, NoteRemoveDoubleSpends
    PROVE  PoolInv'
<1> DEFINE h == Head(note.txs)
           direct == {outpoints[op] : op \in Tx[h].ins \cap DOMAIN outpoints} \ {h}
           S == UNION {Removed(u, TRUE) : u \in direct}
<1>1. /\ note.kind = "connected" /\ note.txs # <<>> /\ note.call = "double"
      /\ RemoveTransactions(S) /\ After("orphan")
      /\ UNCHANGED <<orphans, orphansByPrev, pennyTotal, scanDue, tip, lost, missed>>
    BY DEF NoteRemoveDoubleSpends, Handling, RemoveDoubleSpends
<1>2. /\ h = note.txs[1] /\ h \in Txs /\ 1 \in 1..Len(note.txs)
      /\ ListFrom(1) = ListFrom(2) \cup {h} /\ ListFrom(1) = ToSet(note.txs)
    BY <1>1, FirstOfList
<1>3. note' \in NoteType /\ note'.kind = "connected" /\ note'.txs = note.txs /\ note'.call = "orphan"
    BY <1>1, AfterOK
<1>4. Sound(pool) /\ IndexExact /\ tip \in Blocks \cup {Root} /\ lost \subseteq Txs
      /\ missed \subseteq Branch[tip]
    BY PoolIsSound, NoteTyped
<1>5. /\ ToRemove = ListFrom(2) /\ Rivals = ListFrom(1) /\ Returning = {}
      /\ ToRemove' = ListFrom(2) /\ Rivals' = ListFrom(2) /\ Returning' = {}
    BY <1>1, <1>3 DEF ToRemove, Rivals, Returning, ListFrom
<1>6. h \notin ListFrom(2)
  <2>1. IsInjective(note.txs)
      BY <1>1 DEF PoolInv, ListInOrder
  <2>2. ASSUME NEW j \in 2..Len(note.txs), note.txs[j] = h PROVE FALSE
    <3>1. DOMAIN note.txs = 1..Len(note.txs) /\ Len(note.txs) \in Nat
        BY NoteTyped
    <3> QED
        BY <1>2, <2>1, <2>2, <3>1 DEF IsInjective
  <2> QED
      BY <2>2 DEF ListFrom
<1>7. \A u \in direct : u \in pool
    BY <1>4, IndexGives
<1>8. \A u \in pool : \A op \in Tx[u].ins : op \in Tx[h].ins => u \in direct \/ u = h
    BY <1>4, IndexGives
<1> HIDE DEF direct
<1>9. \A u \in direct : u \in S
    BY <1>7 DEF Removed
<1>10. Closed(S)
  <2>1. S \subseteq pool
      BY DEF Removed
  <2>2. ASSUME NEW u \in pool, NEW op \in Tx[u].ins, Prev(op) \in S
        PROVE  u \in S
    <3>1. PICK w \in direct : Prev(op) \in Removed(w, TRUE)
        BY <2>2
    <3>2. Prev(op) = w \/ Prev(op) \in TxDescendants(w)
        BY <3>1 DEF Removed
    <3>3. u \in TxDescendants(w)
        BY <1>4, <3>2, DescendantsClosed DEF Closed
    <3>4. u \in Removed(w, TRUE)
        BY <3>3 DEF Removed
    <3> QED
        BY <3>4
  <2> QED
      BY <2>1, <2>2 DEF Closed
<1> HIDE DEF S, h
<1>11. IndexExact' /\ pool' = pool \ S /\ Sound(pool')
    BY <1>1, <1>10, RemoveClosedOK
<1>12. Known' = Known /\ Clean' = Clean /\ Confirmed' = Confirmed /\ Utxos' = Utxos
    BY <1>1 DEF Known, Utxos, MissedTxs, Clean, Confirmed
<1>13. InputsReal' /\ ConfirmedListed' /\ pool' \subseteq Txs
    BY <1>5, <1>11, <1>12 DEF Sound, InputsReal, ConfirmedListed
<1>14. InputsFound'
  <2>1. ASSUME NEW u \in pool', NEW op \in Tx[u].ins
        PROVE  \/ op \in Known \/ Prev(op) \in pool' \cup lost
               \/ \E w \in Rivals' : op \in Tx[w].ins /\ (w # u \/ u \in ToRemove')
    <3>1. \/ op \in Known \/ Prev(op) \in pool' \cup lost
          \/ \E w \in ListFrom(1) : op \in Tx[w].ins /\ (w # u \/ u \in ListFrom(2))
        BY <1>5, <1>11 DEF Sound
    <3>2. op \in Tx[h].ins => u = h
        BY <1>8, <1>9, <1>11
    <3> QED
        BY <1>2, <1>5, <1>6, <3>1, <3>2
  <2> QED
      BY <1>1, <1>5, <1>12, <2>1 DEF InputsFound, Found
<1>15. ListInOrder'
    BY <1>1, <1>3, AfterInOrder
<1>16. OrphansOK' /\ DOMAIN orphans' \cap pool' = {} /\ pennyTotal' \in Nat /\ scanDue' \in BOOLEAN
    BY <1>1, <1>11, OrphanParts
<1> QED
    BY <1>1, <1>3, <1>4, <1>11, <1>13, <1>14, <1>15, <1>16, Assemble DEF NoteType

LEMMA NoteRemoveOrphanOK ==
    ASSUME PoolInv, NoteRemoveOrphan
    PROVE  PoolInv'
<1>1. /\ note.kind = "connected" /\ note.call = "orphan" /\ After("process")
      /\ DropOrphans(RemoveOrphan(Head(note.txs), FALSE))
      /\ UNCHANGED <<poolVars, pennyTotal, scanDue, tip, lost, missed>>
    BY DEF NoteRemoveOrphan, Handling
<1>2. note' \in NoteType /\ note'.kind = "connected" /\ note'.txs = note.txs /\ note'.call = "process"
    BY <1>1, AfterOK
<1>3. ToRemove' = ToRemove /\ Rivals' = Rivals /\ Returning' = Returning
    BY <1>1, <1>2 DEF ToRemove, Rivals, Returning, ListFrom
<1>4. OrphansOK' /\ DOMAIN orphans' \subseteq DOMAIN orphans
    BY <1>1, DropOrphansOK
<1>5. IndexExact' /\ Sound(pool') /\ pool' = pool
    BY <1>1, SameKeeps
<1>6. DOMAIN orphans' \cap pool' = {} /\ pennyTotal' \in Nat /\ scanDue' \in BOOLEAN
    BY <1>1, <1>4, <1>5, OrphanParts
<1>7. ListInOrder'
    BY <1>1, <1>2, AfterInOrder
<1> QED
    BY <1>1, <1>2, <1>3, <1>4, <1>5, <1>6, <1>7, ListedStep

LEMMA NoteProcessOrphansOK ==
    ASSUME PoolInv, NoteProcessOrphans
    PROVE  PoolInv'
<1>1. /\ note.kind = "connected" /\ note.call = "process" /\ note.txs # <<>> /\ NextTx("remove")
      /\ UNCHANGED <<poolVars, orphans, orphansByPrev, pennyTotal, scanDue, tip, lost, missed>>
    BY DEF NoteProcessOrphans, Handling
<1>2. /\ note' \in NoteType /\ note'.kind = "connected" /\ note'.call = "remove"
      /\ Len(note'.txs) = Len(note.txs) - 1 /\ Len(note.txs) \in Nat \ {0}
      /\ Len(note'.txs) \in Nat
      /\ \A i \in 1..Len(note'.txs) : note'.txs[i] = note.txs[i + 1]
      /\ ListFrom(1)' = ListFrom(2)
    BY <1>1, NextTxOK
<1>3. ToRemove' = ToRemove /\ Rivals' = Rivals /\ Returning' = Returning
  <2>1. ToRemove = ListFrom(2) /\ Rivals = ListFrom(2) /\ Returning = {}
      BY <1>1 DEF ToRemove, Rivals, Returning
  <2>2. ToRemove' = ListFrom(1)' /\ Rivals' = ListFrom(1)' /\ Returning' = {}
      BY <1>2 DEF ToRemove, Rivals, Returning, ListFrom
  <2> QED
      BY <1>2, <2>1, <2>2
<1>4. IndexExact' /\ Sound(pool') /\ pool' = pool
    BY <1>1, SameKeeps
<1>5. OrphansOK' /\ DOMAIN orphans' \cap pool' = {} /\ pennyTotal' \in Nat /\ scanDue' \in BOOLEAN
    BY <1>1, <1>4, OrphanParts
<1>6. ListInOrder'
  <2>1. /\ IsInjective(note.txs) /\ ToSet(note.txs) \subseteq Confirmed
        /\ \A i \in 1..Len(note.txs) : \A u \in Confirmed :
            Tx[u].ins \cap Outs(note.txs[i]) # {} => \E j \in (i + 1)..Len(note.txs) : note.txs[j] = u
      BY <1>1 DEF PoolInv, ListInOrder
  <2>2. note.txs \in Seq(Txs) /\ note'.txs \in Seq(Txs)
      BY <1>2, NoteTyped DEF NoteType
  <2>3. DOMAIN note.txs = 1..Len(note.txs) /\ DOMAIN note'.txs = 1..Len(note'.txs)
      BY <2>2
  <2>4. IsInjective(note'.txs)
    <3>1. ASSUME NEW i \in 1..Len(note'.txs), NEW k \in 1..Len(note'.txs), note'.txs[i] = note'.txs[k]
          PROVE  i = k
      <4>1. i + 1 \in DOMAIN note.txs /\ k + 1 \in DOMAIN note.txs
          BY <1>2, <2>3
      <4>2. note.txs[i + 1] = note.txs[k + 1]
          BY <1>2, <3>1
      <4>3. i + 1 = k + 1
          BY <2>1, <4>1, <4>2 DEF IsInjective
      <4> QED
          BY <4>3
    <3> QED
        BY <2>3, <3>1 DEF IsInjective
  <2>5. ToSet(note'.txs) \subseteq ToSet(note.txs)
    <3>1. ASSUME NEW i \in 1..Len(note'.txs) PROVE note'.txs[i] \in ToSet(note.txs)
      <4>1. i + 1 \in DOMAIN note.txs /\ note'.txs[i] = note.txs[i + 1]
          BY <1>2, <2>3
      <4> QED
          BY <4>1 DEF ToSet
    <3> QED
        BY <2>3, <3>1 DEF ToSet
  <2>6. Confirmed' = Confirmed
      BY <1>1 DEF Confirmed
  <2>7. ASSUME NEW i \in 1..Len(note'.txs), NEW u \in Confirmed, Tx[u].ins \cap Outs(note'.txs[i]) # {}
        PROVE  \E j \in (i + 1)..Len(note'.txs) : note'.txs[j] = u
    <3>1. i + 1 \in 1..Len(note.txs) /\ note'.txs[i] = note.txs[i + 1]
        BY <1>2
    <3>2. PICK k \in ((i + 1) + 1)..Len(note.txs) : note.txs[k] = u
        BY <2>1, <2>7, <3>1
    <3>3. k - 1 \in (i + 1)..Len(note'.txs) /\ note'.txs[k - 1] = u
        BY <1>2, <3>2
    <3> QED
        BY <3>3
  <2> QED
      BY <2>1, <2>4, <2>5, <2>6, <2>7 DEF ListInOrder
<1> QED
    BY <1>1, <1>2, <1>3, <1>4, <1>5, <1>6, ListedStep

\* the handler of a disconnected block is done with the first of its list
LEMMA ReturnedStep ==
    ASSUME PoolInv, note.kind = "disconnected", note.txs # <<>>, NextTx("accept"),
           UNCHANGED <<tip, orphans, orphansByPrev, scanDue, missed>>,
           IndexExact', Sound(pool'), pennyTotal' \in Nat, lost' \subseteq Txs,
           DOMAIN orphans \cap pool' = {}, lost \ {Head(note.txs)} \subseteq lost',
           \/ Head(note.txs) \in pool' \cup lost'
           \/ \A u \in pool' : \A op \in Tx[u].ins : Prev(op) # Head(note.txs)
    PROVE  PoolInv'
<1> DEFINE h == Head(note.txs)
<1>1. /\ note' \in NoteType /\ note'.kind = "disconnected" /\ h \in Txs
      /\ ListFrom(1)' = ListFrom(2) /\ ListFrom(1) = ListFrom(2) \cup {h}
    BY NextTxOK
<1>2. /\ Returning = ListFrom(2) \cup {h} /\ Rivals = {} /\ ToRemove = {}
      /\ Returning' = ListFrom(2) /\ Rivals' = {} /\ ToRemove' = {}
    BY <1>1 DEF Returning, Rivals, ToRemove
<1>3. Known' = Known /\ Clean' = Clean /\ Confirmed' = Confirmed /\ Utxos' = Utxos
    BY DEF Known, Utxos, MissedTxs, Clean, Confirmed
<1>4. InputsReal' /\ ConfirmedListed' /\ pool' \subseteq Txs
    BY <1>2, <1>3 DEF Sound, InputsReal, ConfirmedListed
<1>5. InputsFound'
  <2>1. ASSUME NEW u \in pool', NEW op \in Tx[u].ins
        PROVE  op \in Known \/ Prev(op) \in pool' \cup lost' \cup Returning'
    <3>1. op \in Known \/ Prev(op) \in pool' \cup lost \cup Returning
        BY <1>2 DEF Sound
    <3> QED
        BY <1>2, <3>1
  <2> QED
      BY <1>3, <2>1 DEF InputsFound, Found
<1>6. ListInOrder'
    BY <1>1 DEF ListInOrder
<1>7. OrphansOK' /\ DOMAIN orphans' \cap pool' = {} /\ scanDue' \in BOOLEAN /\ tip' \in Blocks \cup {Root}
      /\ missed' \subseteq Branch[tip']
    BY OrphanParts, PoolIsSound
<1> QED
    BY <1>1, <1>4, <1>5, <1>6, <1>7, Assemble DEF NoteType

LEMMA NoteReacceptOK ==
    ASSUME PoolInv, NoteReaccept
    PROVE  PoolInv'
<1> DEFINE t == Head(note.txs)
           v == CheckMempoolAcceptance(t, FALSE, FALSE, TRUE)
<1>1. /\ note.kind = "disconnected" /\ note.txs # <<>>
      /\ MaybeAcceptTransaction(t, v) /\ pennyTotal' = pennyTotal + v.penny
      /\ IF v.verdict = "reject" THEN After("drop") ELSE NextTx("accept")
      /\ lost' = IF v.verdict = "missing" THEN lost \cup {t} ELSE lost \ {t}
      /\ UNCHANGED <<orphans, orphansByPrev, scanDue, tip, missed>>
    BY DEF NoteReaccept, Handling, Spend
<1>2. /\ t \in Txs /\ ListFrom(1) = ListFrom(2) \cup {t}
    BY <1>1, FirstOfList
<1>3. /\ IndexExact' /\ Sound(pool')
      /\ v.verdict \in {"reject", "missing", "accept"} /\ v.penny \in Nat
      /\ v.verdict # "reject" => t \notin pool /\ (TRUE => t \notin DOMAIN orphans)
      /\ v.verdict # "accept" => UNCHANGED poolVars
      /\ v.verdict = "accept" => t \in pool' /\ pool' \subseteq pool \cup {t}
    BY <1>1, <1>2, MaybeAcceptOK
<1> HIDE DEF v
<1>4. DOMAIN orphans \cap pool = {} /\ pennyTotal \in Nat /\ scanDue \in BOOLEAN
    BY OrphanParts
<1>5. lost' \subseteq Txs /\ lost \ {t} \subseteq lost' /\ pennyTotal' \in Nat
    BY <1>1, <1>2, <1>3, <1>4, NoteTyped
<1>6. DOMAIN orphans \cap pool' = {}
  <2>1. v.verdict # "accept" => pool' = pool
      BY <1>3 DEF poolVars
  <2> QED
      BY <1>3, <1>4, <2>1
<1>7. CASE v.verdict # "reject"
  <2>1. t \in pool' \cup lost'
      BY <1>1, <1>3, <1>7
  <2> QED
      BY <1>1, <1>3, <1>5, <1>6, <1>7, <2>1, ReturnedStep
<1>8. CASE v.verdict = "reject"
  <2>1. After("drop") /\ pool' = pool
      BY <1>1, <1>3, <1>8 DEF poolVars
  <2>2. note' \in NoteType /\ note'.kind = "disconnected" /\ note'.txs = note.txs
      BY <1>1, <2>1, AfterOK
  <2>3. /\ Returning = ListFrom(1) /\ Rivals = {} /\ ToRemove = {}
        /\ Returning' = ListFrom(1) /\ Rivals' = {} /\ ToRemove' = {}
      BY <1>1, <2>2 DEF Returning, Rivals, ToRemove, ListFrom
  <2>4. Known' = Known /\ Clean' = Clean /\ Confirmed' = Confirmed /\ Utxos' = Utxos
      BY <1>1 DEF Known, Utxos, MissedTxs, Clean, Confirmed
  <2>5. InputsReal' /\ ConfirmedListed' /\ pool' \subseteq Txs
      BY <1>3, <2>3, <2>4 DEF Sound, InputsReal, ConfirmedListed
  <2>6. InputsFound'
    <3>1. ASSUME NEW u \in pool', NEW op \in Tx[u].ins
          PROVE  op \in Known \/ Prev(op) \in pool' \cup lost' \cup Returning'
      <4>1. op \in Known \/ Prev(op) \in pool' \cup lost \cup Returning
          BY <1>3, <2>3 DEF Sound
      <4> QED
          BY <1>2, <1>5, <2>3, <4>1
    <3> QED
        BY <2>4, <3>1 DEF InputsFound, Found
  <2>7. ListInOrder'
      BY <2>2 DEF ListInOrder
  <2>8. OrphansOK' /\ DOMAIN orphans' \cap pool' = {} /\ scanDue' \in BOOLEAN /\ tip' \in Blocks \cup {Root}
        /\ missed' \subseteq Branch[tip']
      BY <1>1, <1>6, OrphanParts, PoolIsSound
  <2> QED
      BY <1>3, <1>5, <2>2, <2>5, <2>6, <2>7, <2>8, Assemble DEF NoteType
<1> QED
    BY <1>7, <1>8

LEMMA NoteDropOK ==
    ASSUME PoolInv, NoteDrop
    PROVE  PoolInv'
<1> DEFINE t == Head(note.txs)
           S == Removed(t, TRUE)
<1>1. /\ note.kind = "disconnected" /\ note.txs # <<>>
      /\ RemoveTransactions(S) /\ NextTx("accept")
      /\ UNCHANGED <<orphans, orphansByPrev, pennyTotal, scanDue, tip, lost, missed>>
    BY DEF NoteDrop, Handling
<1>2. IndexExact
    BY PoolIsSound
<1>3. S = ({t} \cup TxDescendants(t)) \cap pool
    BY DEF Removed
<1>4. \A u \in pool : \A op \in Tx[u].ins : Prev(op) \in {t} \cup TxDescendants(t) => u \in TxDescendants(t)
    BY <1>2, DescendantsClosed DEF Closed
<1> HIDE DEF S
<1>5. Closed(S)
    BY <1>3, <1>4 DEF Closed
<1>6. IndexExact' /\ pool' = pool \ S /\ Sound(pool')
    BY <1>1, <1>5, RemoveClosedOK
<1>7. \A u \in pool' : \A op \in Tx[u].ins : Prev(op) # t
    BY <1>3, <1>4, <1>6
<1>8. DOMAIN orphans \cap pool' = {} /\ pennyTotal' \in Nat /\ lost' \subseteq Txs
    BY <1>1, <1>6, OrphanParts, NoteTyped
<1> QED
    BY <1>1, <1>6, <1>7, <1>8, ReturnedStep

LEMMA NoteDoneOK ==
    ASSUME PoolInv, NoteDone
    PROVE  PoolInv'
<1>1. /\ note.txs = <<>> /\ note' = Quiet
      /\ UNCHANGED <<poolVars, orphans, orphansByPrev, pennyTotal, scanDue, tip, lost, missed>>
    BY DEF NoteDone
<1>2. ListFrom(1) = {} /\ ListFrom(2) = {}
    BY <1>1 DEF ListFrom
<1>3. Rivals = {} /\ ToRemove = {} /\ Returning = {}
    BY <1>2 DEF Rivals, ToRemove, Returning
<1>4. note' \in NoteType /\ note'.kind = "none"
    BY <1>1 DEF Quiet, NoteType
<1>5. ListInOrder'
    BY <1>4 DEF ListInOrder
<1>6. IndexExact' /\ Sound(pool') /\ pool' = pool
    BY <1>1, SameKeeps
<1>7. OrphansOK' /\ DOMAIN orphans' \cap pool' = {} /\ pennyTotal' \in Nat /\ scanDue' \in BOOLEAN
    BY <1>1, <1>6, OrphanParts
<1> QED
    BY <1>1, <1>3, <1>4, <1>5, <1>6, <1>7, ListedStep

LEMMA ConnectHeardOK ==
    ASSUME PoolInv, NEW b \in Blocks, ConnectBlock(b), note' # note
    PROVE  PoolInv'
<1>1. /\ note = Quiet /\ Parent[b] = tip /\ tip' = b /\ missed' = missed
      /\ note' = [kind |-> "connected", txs |-> BlockTxs[b], call |-> "remove"]
      /\ UNCHANGED <<poolVars, orphans, orphansByPrev, pennyTotal, scanDue, lost>>
    BY DEF ConnectBlock
<1>2. BlockTxs[b] \in Seq(Txs) /\ DOMAIN BlockTxs[b] = 1..Len(BlockTxs[b]) /\ Len(BlockTxs[b]) \in Nat
    BY PoolAssumption
<1>3. /\ note' \in NoteType /\ note'.kind = "connected" /\ note'.txs = BlockTxs[b] /\ note'.call = "remove"
    BY <1>1, <1>2 DEF NoteType
<1>4. /\ Rivals = {} /\ ToRemove = {} /\ Returning = {}
      /\ Rivals' = ToSet(BlockTxs[b]) /\ ToRemove' = ToSet(BlockTxs[b]) /\ Returning' = {}
  <2>1. Rivals = {} /\ ToRemove = {} /\ Returning = {}
      BY <1>1 DEF Rivals, ToRemove, Returning, Quiet
  <2>2. ListFrom(1)' = ToSet(BlockTxs[b])
      BY <1>2, <1>3 DEF ListFrom, ToSet
  <2>3. Rivals' = ListFrom(1)' /\ ToRemove' = ListFrom(1)' /\ Returning' = {}
      BY <1>3 DEF Rivals, ToRemove, Returning, ListFrom
  <2> QED
      BY <2>1, <2>2, <2>3
<1>5. Confirmed' = Confirmed \cup ToSet(BlockTxs[b]) /\ Confirmed' \subseteq Txs
    BY <1>1, ConfirmedStep DEF Confirmed
<1>6. \A op \in Utxos : op \in Utxos' \/ \E w \in ToSet(BlockTxs[b]) : op \in Tx[w].ins
  <2>1. /\ Utxos = (Coins \cup UNION {Outs(t) : t \in Confirmed}) \ UNION {Tx[t].ins : t \in Confirmed}
        /\ Utxos' = (Coins \cup UNION {Outs(t) : t \in Confirmed'}) \ UNION {Tx[t].ins : t \in Confirmed'}
      BY <1>1, PoolAssumption DEF Utxos, UtxosAt, Confirmed
  <2> QED
      BY <1>5, <2>1
<1>7. IndexExact' /\ Sound(pool) /\ pool' = pool
    BY <1>1, SameKeeps, PoolIsSound
<1>13. Branch[b] = Branch[tip] \cup {b}
    BY <1>1, BranchStep
<1>14. Clean' \subseteq Clean \cup ToSet(BlockTxs[b])
    BY <1>1, <1>13 DEF Clean
<1>15. MissedTxs' = MissedTxs
    BY <1>1 DEF MissedTxs
<1>16. missed' \subseteq Branch[tip']
    BY <1>1, <1>13, PoolIsSound
<1>8. InputsReal' /\ ConfirmedListed' /\ pool' \subseteq Txs
    BY <1>4, <1>7, <1>14 DEF Sound, InputsReal, ConfirmedListed
<1>9. InputsFound'
  <2>1. ASSUME NEW u \in pool, NEW op \in Tx[u].ins
        PROVE  op \in Known' \/ Prev(op) \in pool \cup lost \/ \E w \in ToSet(BlockTxs[b]) : op \in Tx[w].ins
    <3>1. op \in Known \/ Prev(op) \in pool \cup lost
        BY <1>4, <1>7 DEF Sound
    <3> QED
        BY <1>6, <1>15, <3>1 DEF Known
  <2> QED
      BY <1>1, <1>4, <1>7, <2>1 DEF InputsFound, Found
<1>10. ASSUME NEW i \in 1..Len(BlockTxs[b]), NEW u \in Confirmed',
       NEW op \in Tx[u].ins, op \in Outs(BlockTxs[b][i])
       PROVE  \E j \in (i + 1)..Len(BlockTxs[b]) : BlockTxs[b][j] = u
  <2> DEFINE h == BlockTxs[b][i]
  <2>1. h \in Txs /\ h \in ToSet(BlockTxs[b])
      BY <1>2 DEF ToSet
  <2>2. Prev(op) = h /\ op \notin Coins
      BY <1>10, <2>1, OutputsOf
  <2>3. h \notin Confirmed
      BY <1>1, <2>1, NotConfirmedTwice DEF Confirmed
  <2>4. u \notin Confirmed
      BY <2>2, <2>3, PoolIsSound, ConfirmedSpends DEF Confirmed
  <2>5. PICK j \in 1..Len(BlockTxs[b]) : BlockTxs[b][j] = u
      BY <1>2, <1>5, <2>4 DEF ToSet
  <2>6. op \notin UtxosAt[tip]
    <3>1. ASSUME op \in UtxosAt[tip] PROVE FALSE
      <4>1. tip \in Blocks \cup {Root} /\ Confirmed \subseteq Txs
          BY PoolIsSound
      <4>2. PICK x \in Confirmed : op \in Outs(x)
          BY <2>2, <3>1, <4>1, UtxoFrom DEF Confirmed
      <4> QED
          BY <2>2, <2>3, <4>1, <4>2, OutputsOf
    <3> QED
        BY <3>1
  <2>7. PICK k \in 1..(j - 1) : op \in Outs(BlockTxs[b][k])
    <3>1. op \in UtxosAt[Parent[b]] \/ \E k \in 1..(j - 1) : op \in Outs(BlockTxs[b][k])
        BY <1>2, <1>10, <2>5, BlocksValid
    <3> QED
        BY <1>1, <2>6, <3>1
  <2>8. k \in DOMAIN BlockTxs[b] /\ i \in DOMAIN BlockTxs[b] /\ BlockTxs[b][k] \in Txs
      BY <1>2, <2>5, <2>7
  <2>9. BlockTxs[b][k] = BlockTxs[b][i]
      BY <2>2, <2>7, <2>8, OutputsOf
  <2>10. k = i
      BY <2>8, <2>9, BlocksValid DEF IsInjective
  <2>11. j \in (i + 1)..Len(BlockTxs[b])
      BY <1>2, <2>5, <2>7, <2>10
  <2> QED
      BY <2>5, <2>11
<1>11. ListInOrder'
  <2>1. IsInjective(BlockTxs[b]) /\ ToSet(BlockTxs[b]) \subseteq Confirmed'
      BY <1>5, BlocksValid
  <2>2. \A i \in 1..Len(BlockTxs[b]) : \A u \in Confirmed' :
            Tx[u].ins \cap Outs(BlockTxs[b][i]) # {} => \E j \in (i + 1)..Len(BlockTxs[b]) : BlockTxs[b][j] = u
      BY <1>10
  <2> QED
      BY <1>3, <2>1, <2>2 DEF ListInOrder
<1>12. OrphansOK' /\ DOMAIN orphans' \cap pool' = {} /\ pennyTotal' \in Nat
          /\ scanDue' \in BOOLEAN /\ lost' \subseteq Txs
    BY <1>1, <1>7, OrphanParts, NoteTyped
<1> QED
    BY <1>1, <1>3, <1>7, <1>8, <1>9, <1>11, <1>12, <1>16, Assemble DEF NoteType

LEMMA ConnectPassedOverOK ==
    ASSUME PoolInv, NEW b \in Blocks, ConnectBlock(b), note' = note
    PROVE  PoolInv'
<1>1. /\ note = Quiet /\ Parent[b] = tip /\ tip' = b /\ missed' = missed \cup {b}
      /\ UNCHANGED <<poolVars, orphans, orphansByPrev, pennyTotal, scanDue, note, lost>>
    BY DEF ConnectBlock, Quiet
<1>2. /\ Rivals = {} /\ ToRemove = {} /\ Returning = {}
      /\ Rivals' = {} /\ ToRemove' = {} /\ Returning' = {}
    BY <1>1 DEF Rivals, ToRemove, Returning, Quiet
<1>3. Confirmed' = Confirmed \cup ToSet(BlockTxs[b]) /\ Confirmed' \subseteq Txs
    BY <1>1, ConfirmedStep DEF Confirmed
<1>4. \A op \in Utxos : op \in Utxos' \/ \E w \in ToSet(BlockTxs[b]) : op \in Tx[w].ins
  <2>1. /\ Utxos = (Coins \cup UNION {Outs(t) : t \in Confirmed}) \ UNION {Tx[t].ins : t \in Confirmed}
        /\ Utxos' = (Coins \cup UNION {Outs(t) : t \in Confirmed'}) \ UNION {Tx[t].ins : t \in Confirmed'}
      BY <1>1, PoolAssumption DEF Utxos, UtxosAt, Confirmed
  <2> QED
      BY <1>3, <2>1
<1>5. MissedTxs' = MissedTxs \cup ToSet(BlockTxs[b])
    BY <1>1 DEF MissedTxs
<1>6. Known \subseteq Known'
    BY <1>4, <1>5 DEF Known
<1>7. Branch[b] = Branch[tip] \cup {b} /\ b \in Branch[b]
    BY <1>1, BranchStep
<1>8. Clean' \subseteq Clean
    BY <1>1, <1>7 DEF Clean
<1>9. IndexExact' /\ Sound(pool) /\ pool' = pool /\ note \in NoteType
    BY <1>1, SameKeeps, PoolIsSound, NoteTyped
<1>10. InputsReal' /\ ConfirmedListed' /\ pool' \subseteq Txs
    BY <1>2, <1>8, <1>9 DEF Sound, InputsReal, ConfirmedListed
<1>11. InputsFound'
    BY <1>1, <1>2, <1>6, <1>9 DEF Sound, InputsFound, Found
<1>12. ListInOrder'
    BY <1>1 DEF ListInOrder, Quiet
<1>13. OrphansOK' /\ DOMAIN orphans' \cap pool' = {} /\ pennyTotal' \in Nat
          /\ scanDue' \in BOOLEAN /\ lost' \subseteq Txs /\ missed' \subseteq Branch[tip']
    BY <1>1, <1>7, <1>9, OrphanParts, NoteTyped, PoolIsSound
<1> QED
    BY <1>1, <1>9, <1>10, <1>11, <1>12, <1>13, Assemble DEF NoteType

LEMMA DisconnectBlockOK ==
    ASSUME PoolInv, DisconnectBlock
    PROVE  PoolInv'
<1> DEFINE b == tip
<1>1. /\ note = Quiet /\ b \in Blocks /\ tip' = Parent[b] /\ missed' = missed \ {b}
      /\ note' = [kind |-> "disconnected", txs |-> BlockTxs[b], call |-> "accept"]
      /\ UNCHANGED <<poolVars, orphans, orphansByPrev, pennyTotal, scanDue, lost>>
    BY PoolIsSound DEF DisconnectBlock
<1>2. BlockTxs[b] \in Seq(Txs) /\ DOMAIN BlockTxs[b] = 1..Len(BlockTxs[b]) /\ Len(BlockTxs[b]) \in Nat
      /\ Parent[b] \in Blocks \cup {Root}
    BY <1>1, PoolAssumption
<1>3. note' \in NoteType /\ note'.kind = "disconnected" /\ note'.txs = BlockTxs[b]
    BY <1>1, <1>2 DEF NoteType
<1>4. /\ Rivals = {} /\ ToRemove = {} /\ Returning = {}
      /\ Rivals' = {} /\ ToRemove' = {} /\ Returning' = ToSet(BlockTxs[b])
  <2>1. Rivals = {} /\ ToRemove = {} /\ Returning = {}
      BY <1>1 DEF Rivals, ToRemove, Returning, Quiet
  <2>2. ListFrom(1)' = ToSet(BlockTxs[b])
      BY <1>2, <1>3 DEF ListFrom, ToSet
  <2>3. Rivals' = {} /\ ToRemove' = {} /\ Returning' = ListFrom(1)'
      BY <1>3 DEF Rivals, ToRemove, Returning, ListFrom
  <2> QED
      BY <2>1, <2>2, <2>3
<1>5. Confirmed = Confirmed' \cup ToSet(BlockTxs[b]) /\ Confirmed \subseteq Txs
    BY <1>1, ConfirmedStep DEF Confirmed
<1>6. \A op \in Utxos : op \in Utxos' \/ Prev(op) \in ToSet(BlockTxs[b])
  <2>1. /\ Utxos = (Coins \cup UNION {Outs(t) : t \in Confirmed}) \ UNION {Tx[t].ins : t \in Confirmed}
        /\ Utxos' = (Coins \cup UNION {Outs(t) : t \in Confirmed'}) \ UNION {Tx[t].ins : t \in Confirmed'}
      BY <1>1, <1>2 DEF Utxos, UtxosAt, Confirmed
  <2>2. \A t \in ToSet(BlockTxs[b]) : \A op \in Outs(t) : Prev(op) = t
      BY <1>5, OutputsOf
  <2> QED
      BY <1>5, <2>1, <2>2
<1>7. IndexExact' /\ Sound(pool) /\ pool' = pool
    BY <1>1, SameKeeps, PoolIsSound
<1>12. Branch[b] = Branch[Parent[b]] \cup {b} /\ b \notin Branch[Parent[b]]
    BY <1>1, BranchStep, BlocksValid
<1>13. Clean' \subseteq Clean
  <2>1. ASSUME NEW c \in Branch[Parent[b]], Branch[c] \cap missed' = {}
        PROVE  c \in Branch[b] /\ Branch[c] \cap missed = {}
    <3>1. Branch[c] \subseteq Branch[Parent[b]]
        BY <1>2, BranchBelow
    <3> QED
        BY <1>1, <1>12, <2>1, <3>1
  <2> QED
      BY <1>1, <2>1 DEF Clean
<1>14. ASSUME NEW op \in Known
       PROVE  op \in Known' \/ Prev(op) \in ToSet(BlockTxs[b])
  <2>1. CASE op \in Utxos
      BY <1>6, <2>1 DEF Known
  <2>2. CASE \E c \in missed : c # b /\ \E u \in ToSet(BlockTxs[c]) : op \in Tx[u].ins
    <3>1. \E u \in MissedTxs' : op \in Tx[u].ins
        BY <1>1, <2>2 DEF MissedTxs
    <3> QED
        BY <3>1 DEF Known
  <2>3. CASE \E u \in ToSet(BlockTxs[b]) : op \in Tx[u].ins
    <3>1. PICK i \in DOMAIN BlockTxs[b] : op \in Tx[BlockTxs[b][i]].ins
        BY <2>3 DEF ToSet
    <3>2. \/ op \in UtxosAt[Parent[b]]
          \/ \E j \in 1..(i - 1) : op \in Outs(BlockTxs[b][j])
        BY <1>1, <3>1, BlocksValid
    <3>3. UtxosAt[Parent[b]] = Utxos'
        BY <1>1 DEF Utxos
    <3>4. ASSUME NEW j \in 1..(i - 1), op \in Outs(BlockTxs[b][j])
          PROVE  Prev(op) \in ToSet(BlockTxs[b])
      <4>1. j \in DOMAIN BlockTxs[b] /\ BlockTxs[b][j] \in Txs
          BY <1>2, <3>1
      <4> QED
          BY <3>4, <4>1, OutputsOf DEF ToSet
    <3> QED
        BY <3>2, <3>3, <3>4 DEF Known
  <2> QED
      BY <2>1, <2>2, <2>3 DEF Known, MissedTxs
<1>15. missed' \subseteq Branch[tip']
    BY <1>1, <1>12, PoolIsSound
<1>8. InputsReal' /\ ConfirmedListed' /\ pool' \subseteq Txs
    BY <1>4, <1>7, <1>13 DEF Sound, InputsReal, ConfirmedListed
<1>9. InputsFound'
  <2>1. ASSUME NEW u \in pool, NEW op \in Tx[u].ins
        PROVE  op \in Known' \/ Prev(op) \in pool \cup lost \cup ToSet(BlockTxs[b])
    <3>1. op \in Known \/ Prev(op) \in pool \cup lost
        BY <1>4, <1>7 DEF Sound
    <3> QED
        BY <1>14, <3>1
  <2> QED
      BY <1>1, <1>4, <1>7, <2>1 DEF InputsFound, Found
<1>10. ListInOrder'
    BY <1>3 DEF ListInOrder
<1>11. OrphansOK' /\ DOMAIN orphans' \cap pool' = {} /\ pennyTotal' \in Nat
          /\ scanDue' \in BOOLEAN /\ lost' \subseteq Txs
    BY <1>1, <1>7, OrphanParts, NoteTyped
<1> QED
    BY <1>1, <1>2, <1>3, <1>7, <1>8, <1>9, <1>10, <1>11, <1>15, Assemble DEF NoteType

-----------------------------------------------------------------------------
(* The theorem. *)

LEMMA InitOK ==
    ASSUME Init
    PROVE  PoolInv
<1>1. /\ pool = {} /\ outpoints = <<>> /\ addrsByTx = <<>> /\ txnsByAddr = <<>>
      /\ orphans = <<>> /\ orphansByPrev = <<>> /\ pennyTotal = 0 /\ scanDue = FALSE
      /\ tip = Root /\ note = Quiet /\ lost = {} /\ missed = {}
    BY DEF Init
<1>2. DOMAIN outpoints = {} /\ DOMAIN orphans = {} /\ DOMAIN orphansByPrev = {}
    BY <1>1
<1>3. note \in NoteType /\ note.kind = "none" /\ note.txs \in Seq(Txs)
    BY <1>1 DEF Quiet, NoteType
<1>4. IsFiniteSet(DOMAIN orphans) /\ Cardinality(DOMAIN orphans) = 0
    BY <1>2, FS_EmptySet
<1>5. Typed
    BY <1>1, <1>2, <1>3, <1>4 DEF Typed, TypeOK, NoteType, Quiet
<1>6. IndexExact
  <2>1. UNION {AddressesOf(t) : t \in pool} = {} /\ UNION {Tx[t].ins : t \in pool} = {}
      BY <1>1
  <2>2. addrsByTx = [t \in pool |-> AddressesOf(t)]
      BY <1>1
  <2>3. txnsByAddr = [a \in {} |-> {t \in pool : a \in AddressesOf(t)}]
      BY <1>1
  <2> QED
      BY <1>1, <1>2, <2>1, <2>2, <2>3 DEF IndexExact
<1>7. OrphanIndexExact
    BY <1>1, <1>2, <1>4, PoolAssumption DEF OrphanIndexExact
<1> QED
    BY <1>1, <1>3, <1>5, <1>6, <1>7 DEF PoolInv, InputsReal, InputsFound, ConfirmedListed, ListInOrder

LEMMA NextOK ==
    ASSUME PoolInv, [Next]_vars
    PROVE  PoolInv'
<1>1. ASSUME UNCHANGED vars PROVE PoolInv'
  <2>1. UNCHANGED <<poolVars, orphans, orphansByPrev, pennyTotal, scanDue, tip, note, lost, missed>>
      BY <1>1 DEF vars, poolVars
  <2> QED
      BY <2>1, OrphanParts, QuietStepOK
<1>2. ASSUME Callers PROVE PoolInv'
    BY <1>2, ProcessTransactionOK, TestMempoolAcceptOK, RemoveOrphansByTagOK DEF Callers
<1>3. ASSUME Orphaning PROVE PoolInv'
    BY <1>3, WorkListOK, TryOrphanOK, FinishProcessOrphansOK DEF Orphaning
<1>4. ASSUME Handler PROVE PoolInv'
    BY <1>4, NoteRemoveTransactionOK, NoteRemoveDoubleSpendsOK, NoteRemoveOrphanOK, NoteProcessOrphansOK,
       NoteReacceptOK, NoteDropOK, NoteDoneOK DEF Handler
<1> QED
    BY <1>1, <1>2, <1>3, <1>4, TimeOK, ConnectHeardOK, ConnectPassedOverOK, DisconnectBlockOK DEF Next

LEMMA InvSound ==
    ASSUME PoolInv
    PROVE  PoolSound
<1>1. TypeOK /\ IndexExact /\ OrphanIndexExact
    BY DEF PoolInv, Typed
<1>2. ASSUME note = Quiet
      PROVE  Rivals = {} /\ ToRemove = {} /\ Returning = {}
    BY <1>2 DEF Rivals, ToRemove, Returning, Quiet
<1>3. PoolSpendable
    BY <1>2 DEF PoolInv, InputsFound, Found, PoolSpendable, Known
<1>4. NothingConfirmed
    BY <1>2 DEF PoolInv, ConfirmedListed, NothingConfirmed, Clean
<1> QED
    BY <1>1, <1>3, <1>4 DEF PoolSound

(* PoolSound holds at any moment: before and after every call to the pool, *)
(* between the calls of the handler of chain notifications, and while      *)
(* processOrphans is under way, whatever the chain and the peers do        *)
(* meanwhile.                                                              *)
THEOREM PoolAlwaysSound == Spec => []PoolSound
<1>1. Init => PoolInv
    BY InitOK
<1>2. PoolInv /\ [Next]_vars => PoolInv'
    BY NextOK
<1>3. PoolInv => PoolSound
    BY InvSound
<1> QED
    BY <1>1, <1>2, <1>3, PTL DEF Spec

-----------------------------------------------------------------------------
(* What a replacement pays. *)

LEMMA FeeOfOne ==
    ASSUME NEW t \in Txs
    PROVE  IsFiniteSet(FeeUnits({t})) /\ Fees({t}) = Tx[t].fee
<1> DEFINE n == Tx[t].fee
<1>1. n \in Nat /\ FeeUnits({t}) = {t} \X (1..n)
    BY PoolAssumption DEF FeeUnits
<1> HIDE DEF n
<1>2. IsFiniteSet(1..n) /\ Cardinality(1..n) = n
    BY <1>1, FS_Interval
<1>3. IsFiniteSet({t}) /\ Cardinality({t}) = 1
    BY FS_Singleton
<1>4. IsFiniteSet({t} \X (1..n)) /\ Cardinality({t} \X (1..n)) = 1 * n
    BY <1>2, <1>3, FS_Product, ZenonT(30)
<1>5. 1 * n = n
    BY <1>1
<1>6. Fees({t}) = n /\ IsFiniteSet(FeeUnits({t}))
    BY <1>1, <1>4, <1>5 DEF Fees
<1> QED
    BY <1>6 DEF n

\* disjoint sets of transactions pay the sum of what each pays
LEMMA FeesAdd ==
    ASSUME NEW P, NEW Q, P \cap Q = {}, IsFiniteSet(FeeUnits(P)), IsFiniteSet(FeeUnits(Q))
    PROVE  /\ IsFiniteSet(FeeUnits(P \cup Q)) /\ Fees(P \cup Q) = Fees(P) + Fees(Q)
           /\ Fees(P) \in Nat /\ Fees(Q) \in Nat
<1>1. FeeUnits(P \cup Q) = FeeUnits(P) \cup FeeUnits(Q)
    BY DEF FeeUnits
<1>2. FeeUnits(P) \cap FeeUnits(Q) = {}
  <2>1. ASSUME NEW x \in FeeUnits(P), x \in FeeUnits(Q) PROVE FALSE
    <3>1. PICK t \in P : x \in {t} \X (1..Tx[t].fee)
        BY DEF FeeUnits
    <3>2. PICK u \in Q : x \in {u} \X (1..Tx[u].fee)
        BY <2>1 DEF FeeUnits
    <3> QED
        BY <3>1, <3>2
  <2> QED
      BY <2>1
<1>3. Cardinality(FeeUnits(P)) \in Nat /\ Cardinality(FeeUnits(Q)) \in Nat
    BY FS_CardinalityType
<1>4. Cardinality({}) = 0
    BY FS_EmptySet
<1> DEFINE U == FeeUnits(P)
           V == FeeUnits(Q)
<1>5. /\ IsFiniteSet(U) /\ IsFiniteSet(V) /\ U \cap V = {} /\ FeeUnits(P \cup Q) = U \cup V
      /\ Fees(P) = Cardinality(U) /\ Fees(Q) = Cardinality(V) /\ Fees(P \cup Q) = Cardinality(U \cup V)
      /\ Cardinality(U) \in Nat /\ Cardinality(V) \in Nat
    BY <1>1, <1>2, <1>3 DEF Fees
<1> HIDE DEF U, V
<1>6. IsFiniteSet(U \cup V) /\ Cardinality(U \cup V) = Cardinality(U) + Cardinality(V) - Cardinality(U \cap V)
    BY <1>5, FS_Union
<1>7. Cardinality(U \cap V) = 0
    BY <1>4, <1>5
<1>8. Cardinality(U \cup V) = Cardinality(U) + Cardinality(V)
    BY <1>5, <1>6, <1>7
<1> QED
    BY <1>5, <1>6, <1>8

LEMMA FeesOfPart ==
    ASSUME NEW P, NEW Q \in SUBSET P, IsFiniteSet(FeeUnits(P))
    PROVE  IsFiniteSet(FeeUnits(Q))
<1>1. FeeUnits(Q) \subseteq FeeUnits(P)
    BY DEF FeeUnits
<1> QED
    BY <1>1, FS_Subset

LEMMA MinFeeType ==
    ASSUME NEW t \in Txs
    PROVE  CalcMinRequiredTxRelayFee(Tx[t].size) \in Nat
<1> DEFINE s == Tx[t].size
<1>1. s \in Nat /\ MinRelayTxFee \in Nat
    BY PoolAssumption
<1> HIDE DEF s
<1>2. s * MinRelayTxFee \in Nat
    BY <1>1
<1>3. \A x \in Nat : x \div 1000 \in Nat
    OBVIOUS
<1> QED
    BY <1>1, <1>2, <1>3 DEF CalcMinRequiredTxRelayFee, s

\* what is accepted either conflicts with nothing or outbids all it evicts
LEMMA AcceptedPays ==
    ASSUME PoolInv, NEW t \in Txs, NEW isNew, NEW limit, NEW dup \in BOOLEAN,
           NEW v, v = CheckMempoolAcceptance(t, isNew, limit, dup), v.verdict = "accept"
    PROVE  /\ t \notin pool /\ v.conflicts \subseteq pool
           /\ v.conflicts = {} \/ Tx[t].fee >= Fees(v.conflicts) + CalcMinRequiredTxRelayFee(Tx[t].size)
<1>1. t \notin pool /\ v.conflicts \in {{}, TxConflicts(t)}
    BY AcceptanceFacts
<1>2. TxConflicts(t) \subseteq pool
    BY PoolIsSound, IndexGives DEF TxConflicts, TxDescendants, IndexExact
<1>3. ASSUME v.conflicts # {} PROVE ValidateReplacement(t)
  <2>1. Verdict("reject", {}, 0).verdict = "reject" /\ Verdict("missing", {}, 0).verdict = "missing"
      BY DEF Verdict
  <2>2. \A x, y, z : Verdict(x, y, z).verdict = x /\ Verdict(x, y, z).conflicts = y
      BY DEF Verdict
  <2> QED
      BY <1>3, <2>2 DEF CheckMempoolAcceptance
<1>4. ValidateReplacement(t) => Tx[t].fee >= Fees(TxConflicts(t)) + CalcMinRequiredTxRelayFee(Tx[t].size)
    BY DEF ValidateReplacement
<1> QED
    BY <1>1, <1>2, <1>3, <1>4

\* such a step leaves the pool no poorer, and its fees countable
LEMMA ReplacementStep ==
    ASSUME PoolInv, IsFiniteSet(FeeUnits(pool)), NEW t \in Txs, NEW isNew, NEW limit, NEW dup \in BOOLEAN,
           NEW v, v = CheckMempoolAcceptance(t, isNew, limit, dup), MaybeAcceptTransaction(t, v)
    PROVE  IsFiniteSet(FeeUnits(pool')) /\ (pool' = pool \/ Fees(pool') >= Fees(pool))
<1>1. CASE v.verdict # "accept"
    BY <1>1 DEF MaybeAcceptTransaction, poolVars
<1>2. CASE v.verdict = "accept"
  <2> DEFINE C == v.conflicts
             K == pool \ C
             m == CalcMinRequiredTxRelayFee(Tx[t].size)
  <2>1. t \notin pool /\ C \subseteq pool /\ (C = {} \/ Tx[t].fee >= Fees(C) + m)
      BY <1>2, AcceptedPays
  <2>2. pool' = K \cup {t}
      BY <1>2 DEF MaybeAcceptTransaction, AddTransaction
  <2>3. m \in Nat /\ Tx[t].fee \in Nat
      BY MinFeeType, PoolAssumption
  <2> HIDE DEF C, m
  <2>4. IsFiniteSet(FeeUnits(K)) /\ IsFiniteSet(FeeUnits(C)) /\ pool = K \cup C /\ K \cap C = {}
      BY <2>1, FeesOfPart
  <2>5. K \cap {t} = {}
      BY <2>1
  <2> HIDE DEF K
  <2>6. Fees(pool) = Fees(K) + Fees(C) /\ Fees(K) \in Nat /\ Fees(C) \in Nat
      BY <2>4, FeesAdd
  <2>7. IsFiniteSet(FeeUnits(K \cup {t})) /\ Fees(K \cup {t}) = Fees(K) + Tx[t].fee
      BY <2>4, <2>5, FeesAdd, FeeOfOne
  <2>8. Tx[t].fee >= Fees(C)
    <3>1. CASE C = {}
      <4>1. Fees(C) = 0
          BY <3>1, FS_EmptySet DEF Fees, FeeUnits
      <4> QED
          BY <2>3, <4>1
    <3> QED
        BY <2>1, <2>3, <2>6, <3>1
  <2> QED
      BY <2>2, <2>3, <2>6, <2>7, <2>8
<1> QED
    BY <1>1, <1>2

\* what is shown of one step
Pays == note' = note /\ pool' \ pool # {} => Fees(pool') >= Fees(pool)
PaysStep == IsFiniteSet(FeeUnits(pool')) /\ Pays

LEMMA PaysOK ==
    ASSUME PoolInv, IsFiniteSet(FeeUnits(pool)), [Next]_vars
    PROVE  PaysStep
<1>1. ASSUME pool' \subseteq pool PROVE PaysStep
    BY <1>1, FeesOfPart DEF PaysStep, Pays
<1>2. ASSUME NEW t \in Txs, NEW isNew, NEW limit, NEW dup \in BOOLEAN,
             MaybeAcceptTransaction(t, CheckMempoolAcceptance(t, isNew, limit, dup))
      PROVE  PaysStep
    BY <1>2, ReplacementStep DEF PaysStep, Pays
<1>3. ASSUME UNCHANGED poolVars PROVE PaysStep
    BY <1>1, <1>3 DEF poolVars
<1>4. ASSUME NEW S, RemoveTransactions(S) PROVE PaysStep
    BY <1>1, <1>4 DEF RemoveTransactions
<1>5. CASE Callers
  <2>1. ASSUME NEW t \in Txs, NEW allow \in BOOLEAN, NEW limit \in BOOLEAN, NEW tag \in Tags,
               ProcessTransaction(t, allow, limit, tag)
        PROVE  PaysStep
      BY <1>2, <2>1 DEF ProcessTransaction
  <2>2. ASSUME NEW t \in Txs, TestMempoolAccept(t) PROVE PaysStep
      BY <1>3, <2>2 DEF TestMempoolAccept
  <2>3. ASSUME NEW tag \in Tags, RemoveOrphansByTag(tag) PROVE PaysStep
      BY <1>3, <2>3 DEF RemoveOrphansByTag
  <2> QED
      BY <1>5, <2>1, <2>2, <2>3 DEF Callers
<1>6. CASE Orphaning
  <2>1. ASSUME NEW t \in Txs, TryOrphan(t) PROVE PaysStep
      BY <1>2, <2>1 DEF TryOrphan
  <2>2. CASE PopItem \/ NextOutput \/ FinishProcessOrphans
      BY <1>3, <2>2 DEF PopItem, NextOutput, FinishProcessOrphans
  <2> QED
      BY <1>6, <2>1, <2>2 DEF Orphaning
<1>7. CASE Handler
  <2>1. CASE NoteReaccept
    <3>1. Head(note.txs) \in Txs
        BY <2>1 DEF PoolInv, Typed, TypeOK, NoteReaccept, Handling
    <3> QED
        BY <1>2, <2>1, <3>1 DEF NoteReaccept
  <2>2. CASE NoteRemoveTransaction \/ NoteDrop \/ NoteRemoveDoubleSpends
      BY <1>4, <2>2 DEF NoteRemoveTransaction, NoteDrop, NoteRemoveDoubleSpends, RemoveDoubleSpends
  <2>3. CASE NoteRemoveOrphan \/ NoteProcessOrphans \/ NoteDone
      BY <1>3, <2>3 DEF NoteRemoveOrphan, NoteProcessOrphans, NoteDone
  <2> QED
      BY <1>7, <2>1, <2>2, <2>3 DEF Handler
<1>8. CASE Time
    BY <1>3, <1>8 DEF Time, ScanIntervalPasses, OrphanTTLPasses, PennyDecay
<1>9. ASSUME NEW b \in Blocks, ConnectBlock(b) PROVE PaysStep
    BY <1>3, <1>9 DEF ConnectBlock
<1>10. CASE DisconnectBlock
    BY <1>3, <1>10 DEF DisconnectBlock
<1>11. CASE UNCHANGED vars
    BY <1>3, <1>11 DEF vars, poolVars
<1> QED
    BY <1>5, <1>6, <1>7, <1>8, <1>9, <1>10, <1>11 DEF Next

(* Whatever comes in from peers and RPC callers, and whatever orphans are  *)
(* adopted on the way, a transaction enters the pool only if the pool's    *)
(* fees do not fall (validateReplacement): a replacement outbids all that  *)
(* it evicts, descendants included.  The pool's index has to be exact for  *)
(* this, since the evicted are found through it, and the pool finite, or   *)
(* it would have no sum of fees.                                           *)
THEOREM ReplacementAlwaysPays == Spec => ReplacementPays
<1> DEFINE Inv == PoolInv /\ IsFiniteSet(FeeUnits(pool))
<1>1. Init => Inv
  <2>1. Init => FeeUnits(pool) = {}
      BY DEF Init, FeeUnits
  <2> QED
      BY <2>1, InitOK, FS_EmptySet
<1>2. Inv /\ [Next]_vars => Inv'
    BY NextOK, PaysOK DEF PaysStep
<1>3. Inv /\ [Next]_vars => [Pays]_vars
    BY PaysOK DEF PaysStep
<1> QED
    BY <1>1, <1>2, <1>3, PTL DEF Spec, ReplacementPays, Pays

=============================================================================
