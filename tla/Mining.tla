------------------------------- MODULE Mining -------------------------------
(***************************************************************************)
(* mining/mining.go, NewBlockTemplate: transactions of the memory pool are *)
(* chosen for a block.  The generator holds no lock: the pool is copied at *)
(* the start, then the chain is asked for the coins of each transaction    *)
(* and the pool for its parents, while blocks are connected and            *)
(* disconnected and transactions leave the pool.  CheckConnectBlockTemplate *)
(* checks the result under the lock of the chain.                          *)
(*                                                                         *)
(* A chain is the sequence of its blocks, each the set of transactions it  *)
(* confirms; coins that older blocks made are BaseCoins.  A transaction    *)
(* makes the coins <<t, 1>> .. <<t, outs>>.  What CalcPriority and the size *)
(* functions return is a number of each transaction; the value of the      *)
(* coinbase is the subject of Ledger, and the pool's orphans and relative  *)
(* locks in seconds are left out.  Median times grow by one with each      *)
(* block.                                                                  *)
(***************************************************************************)
EXTENDS Integers, Sequences, FiniteSets, FiniteSetsExt, SequencesExt

CONSTANTS
    Txs,
    TxOf,               \* [ins, outs, weight, feePerKB, priority, sigops, witness, lock, lockTime, relative]
    Pooled,             \* transactions in the pool at the start
    Chain,              \* the chain at the start
    AdjustedTime,       \* the clock of the generator
    CsvActive,          \* whether the CSV deployment is active
    BaseCoins,          \* coin -> height from which it may be spent
    BlockMaxWeight, BlockMinWeight, BlockPrioritySize, TxMinFreeFee, MinHighPriority,
    MaxBlockSigOpsCost,
    Overhead,           \* weight of the header and the coinbase
    CommitmentWeight,   \* what a witness commitment adds
    WeightRange,        \* weights are counted modulo this (uint32)
    MaxMoves            \* bound: blocks connected and disconnected, evictions

VARIABLES
    chain,
    note,       \* chain notification that the pool has not handled: the blocks before and after
    pool,
    gen,        \* the generation that is under way
    went,       \* history: a block has been disconnected
    moves

vars == <<chain, note, pool, gen, went, moves>>

OutsOf(t) == {<<t, i>> : i \in 1..TxOf[t].outs}
ConfirmedBy(c) == UNION Range(c)

\* the coins that are unspent at the end of a chain
Coins(c) ==
    (DOMAIN BaseCoins \cup UNION {OutsOf(t) : t \in ConfirmedBy(c)}) \ UNION {TxOf[t].ins : t \in ConfirmedBy(c)}

Spendable(coin, height) == coin \in DOMAIN BaseCoins => BaseCoins[coin] <= height

\* IsFinalizedTransaction: a lock is a height or a time, 0 if there is none
IsFinal(t, height, time) == (TxOf[t].lock = 0 \/ TxOf[t].lock < height) /\ (TxOf[t].lockTime = 0 \/ TxOf[t].lockTime < time)

MedianTime(c) == Len(c)

\* the height at which a coin was made; of one that is not in the chain, the
\* height of the next block
CoinHeight(coin, c) ==
    LET at == {i \in DOMAIN c : coin[1] \in c[i]}
    IN  IF coin \in DOMAIN BaseCoins THEN 0 ELSE IF at = {} THEN Len(c) + 1 ELSE Max(at)

\* calcSequenceLock and SequenceLockActive, for the block after c
SequenceLockActive(t, c) == \A x \in TxOf[t].ins : CoinHeight(x, c) + TxOf[t].relative - 1 < Len(c) + 1

\* what checkBlockContext and checkConnectBlock ask of the locks
Unlocked(t, c) ==
    /\ IsFinal(t, Len(c) + 1, IF CsvActive THEN MedianTime(c) ELSE AdjustedTime)
    /\ CsvActive => SequenceLockActive(t, c)

Idle == [at |-> "idle"]

-----------------------------------------------------------------------------
(* Start and scan of the pool *)

\* the tip that is extended, the transactions that are there; segregated
\* witness may be active or not
Start(segwitActive) ==
    /\ gen.at = "idle"
    /\ gen' = [at |-> "scan", best |-> chain, moved |-> FALSE, segwitActive |-> segwitActive,
               source |-> pool, left |-> pool, unpriced |-> {}, skipped |-> {},
               dependsOn |-> [t \in pool |-> {}], queue |-> {}, view |-> {},
               block |-> <<>>, weight |-> Overhead, sigops |-> 0,
               sortedByFee |-> BlockPrioritySize = 0, witnessIncluded |-> FALSE]
    /\ UNCHANGED <<chain, note, pool, went, moves>>

\* transactions whose coins the transaction spends and the view has not
Parents(t, coins) == {c[1] : c \in TxOf[t].ins \ coins}

\* the clock counts, and relative locks are not looked at
Eligible(t) == IsFinal(t, Len(gen.best) + 1, AdjustedTime)

\* One transaction of mempoolLoop.  When an origin is neither in the chain nor
\* in the pool the transaction is passed over, but the dependencies of the
\* inputs before that one stay noted, and its fee is not.
ScanTx(t) ==
    /\ gen.at = "scan" /\ t \in gen.left
    /\ \E coins \in {TxOf[t].ins \cap Coins(chain)} :
        \E deps \in {Parents(t, coins)} :
            \/ /\ ~ Eligible(t)
               /\ gen' = [gen EXCEPT !.left = @ \ {t}, !.skipped = @ \cup {t}]
            \/ /\ Eligible(t) /\ deps \subseteq pool
               /\ gen' = [gen EXCEPT !.left = @ \ {t}, !.dependsOn[t] = deps,
                                     !.queue = IF deps = {} THEN @ \cup {t} ELSE @,
                                     !.view = @ \cup coins]
            \/ /\ Eligible(t) /\ ~ deps \subseteq pool
               /\ \E noted \in SUBSET (deps \cap pool) :
                    gen' = [gen EXCEPT !.left = @ \ {t}, !.skipped = @ \cup {t}, !.unpriced = @ \cup {t},
                                       !.dependsOn[t] = noted]
    /\ UNCHANGED <<chain, note, pool, went, moves>>

\* all of it has been seen
ScanDone ==
    /\ gen.at = "scan" /\ gen.left = {}
    /\ gen' = [gen EXCEPT !.at = "select"]
    /\ UNCHANGED <<chain, note, pool, went, moves>>

-----------------------------------------------------------------------------
(* Selection *)

\* an item's fee and priority, zero until they are set
FeePerKB(t) == IF t \in gen.unpriced THEN 0 ELSE TxOf[t].feePerKB
Priority(t) == IF t \in gen.unpriced THEN 0 ELSE TxOf[t].priority

\* txPQByFee and txPQByPriority: nothing in the queue goes before t
ByFee(t, u) == IF FeePerKB(t) = FeePerKB(u) THEN Priority(t) > Priority(u) ELSE FeePerKB(t) > FeePerKB(u)
ByPriority(t, u) == IF Priority(t) = Priority(u) THEN FeePerKB(t) > FeePerKB(u) ELSE Priority(t) > Priority(u)
IsFirst(t) == \A u \in gen.queue : IF gen.sortedByFee THEN ~ ByFee(u, t) ELSE ~ ByPriority(u, t)

\* the weight of the block once the commitment that a transaction with a
\* witness calls for is in it
WitnessWeight(t) ==
    IF TxOf[t].witness /\ ~ gen.witnessIncluded THEN (gen.weight + CommitmentWeight) % WeightRange ELSE gen.weight

Plus(t) == (WitnessWeight(t) + TxOf[t].weight) % WeightRange

\* the transaction fits
Fits(t) ==
    /\ Plus(t) >= WitnessWeight(t) /\ Plus(t) < BlockMaxWeight
    /\ gen.sigops + TxOf[t].sigops <= MaxBlockSigOpsCost

\* it is free, and the block large enough without it
TooFree(t) == gen.sortedByFee /\ FeePerKB(t) < TxMinFreeFee /\ Plus(t) >= BlockMinWeight

\* the area of high priority ends before or after it
EndsPriority(t) == ~ gen.sortedByFee /\ (Plus(t) >= BlockPrioritySize \/ Priority(t) <= MinHighPriority)
PutBack(t) == EndsPriority(t) /\ (Plus(t) > BlockPrioritySize \/ Priority(t) < MinHighPriority)

CheckTransactionInputs(t) ==
    TxOf[t].ins \subseteq gen.view /\ \A c \in TxOf[t].ins : Spendable(c, Len(gen.best) + 1)

\* mutant: dependencies are counted before this one is taken off
Released_Before(t) == {u \in DOMAIN gen.dependsOn : t \in gen.dependsOn[u] /\ gen.dependsOn[u] = {}}

\* transactions that waited for this one only.  One that was passed over in
\* the scan may be among them.
Released(t) == {u \in DOMAIN gen.dependsOn : gen.dependsOn[u] = {t}}

\* the order of the queue after the transaction
Sorted(t) == gen.sortedByFee \/ EndsPriority(t)

\* spendTransaction, and the transactions that depend on it
Include(t) ==
    [gen EXCEPT !.queue = (@ \ {t}) \cup Released(t),
                !.dependsOn = [u \in DOMAIN @ |-> @[u] \ {t}],
                !.view = (@ \ TxOf[t].ins) \cup OutsOf(t),
                !.block = Append(@, t), !.weight = Plus(t),
                !.sigops = @ + TxOf[t].sigops,
                !.witnessIncluded = @ \/ TxOf[t].witness,
                !.sortedByFee = Sorted(t)]

\* the transaction is passed over: the commitment it called for stays
PassOver(t) ==
    [gen EXCEPT !.queue = @ \ {t}, !.skipped = @ \cup {t}, !.weight = WitnessWeight(t),
                !.witnessIncluded = @ \/ TxOf[t].witness,
                !.sortedByFee = IF Fits(t) /\ ~ TooFree(t) THEN Sorted(t) ELSE @]

\* mutant: the order is not changed when a transaction is put back
SortIn_SameOrder(t) == [gen EXCEPT !.weight = WitnessWeight(t), !.witnessIncluded = @ \/ TxOf[t].witness]

\* it is sorted in again
SortIn(t) ==
    [gen EXCEPT !.weight = WitnessWeight(t), !.witnessIncluded = @ \/ TxOf[t].witness, !.sortedByFee = Sorted(t)]

Select(t) ==
    /\ gen.at = "select" /\ t \in gen.queue /\ IsFirst(t)
    /\ gen' = IF TxOf[t].witness /\ ~ gen.segwitActive
              THEN [gen EXCEPT !.queue = @ \ {t}, !.skipped = @ \cup {t}]
              ELSE IF ~ Fits(t) \/ TooFree(t) THEN PassOver(t)
              ELSE IF PutBack(t) THEN SortIn(t)
              ELSE IF CheckTransactionInputs(t) THEN Include(t) ELSE PassOver(t)
    /\ UNCHANGED <<chain, note, pool, went, moves>>

-----------------------------------------------------------------------------
(* The end *)

BlockTxs == Range(gen.block)

\* the transactions before position i have made or left the coins it spends
CoinsBefore(c, i) ==
    (Coins(c) \cup UNION {OutsOf(gen.block[j]) : j \in 1..(i - 1)}) \ UNION {TxOf[gen.block[j]].ins : j \in 1..(i - 1)}
SpendsRight(c) ==
    \A i \in 1..Len(gen.block) : /\ TxOf[gen.block[i]].ins \subseteq CoinsBefore(c, i)
                                 /\ \A x \in TxOf[gen.block[i]].ins : Spendable(x, Len(c) + 1)

\* checkBlockContext and checkConnectBlock
Connects(c) == SpendsRight(c) /\ \A t \in BlockTxs : Unlocked(t, c)

\* the block is on the tip and is valid
CheckConnectBlockTemplate == chain = gen.best /\ Connects(chain)

Finish ==
    /\ gen.at = "select" /\ gen.queue = {}
    /\ gen' = [gen EXCEPT !.at = IF CheckConnectBlockTemplate THEN "done" ELSE "failed"]
    /\ UNCHANGED <<chain, note, pool, went, moves>>

Again ==
    /\ gen.at \in {"done", "failed"}
    /\ gen' = Idle
    /\ UNCHANGED <<chain, note, pool, went, moves>>

-----------------------------------------------------------------------------
(* The chain and the pool meanwhile *)

Moved == IF gen.at \in {"idle", "done", "failed"} THEN gen ELSE [gen EXCEPT !.moved = TRUE]

\* the transactions of p that spend coins of S, directly or not, and S
RECURSIVE Redeemers(_, _)
Redeemers(S, p) ==
    LET more == {t \in p : \E u \in S : TxOf[t].ins \cap OutsOf(u) # {}} \cup S
    IN  IF more = S THEN S ELSE Redeemers(more, p)

\* a block of another miner, with transactions of the pool or rivals of them
ConnectBlock(S) ==
    /\ moves < MaxMoves /\ moves' = moves + 1 /\ note = <<>>
    /\ UNION {TxOf[t].ins : t \in S} \subseteq Coins(chain) \cup UNION {OutsOf(t) : t \in S}
    /\ \A t, u \in S : t # u => TxOf[t].ins \cap TxOf[u].ins = {}
    /\ \A t \in S : Unlocked(t, chain) /\ \A c \in TxOf[t].ins : Spendable(c, Len(chain) + 1)
    /\ chain' = Append(chain, S)
    /\ note' = <<[kind |-> "connected", txs |-> S]>>
    /\ gen' = Moved
    /\ UNCHANGED <<pool, went>>

DisconnectBlock ==
    /\ moves < MaxMoves /\ moves' = moves + 1 /\ note = <<>> /\ chain # <<>>
    /\ chain' = Front(chain)
    /\ note' = <<[kind |-> "disconnected", txs |-> Last(chain)]>>
    /\ gen' = Moved /\ went' = TRUE
    /\ UNCHANGED pool

\* RemoveTransaction without redeemers and RemoveDoubleSpends, for each
\* transaction of a block
Cleaned(S) ==
    LET rivals == {t \in pool \ S : \E u \in S : TxOf[t].ins \cap TxOf[u].ins # {}}
    IN  pool \ (S \cup Redeemers(rivals, pool \ S))

\* MaybeAcceptTransaction, of a transaction whose inputs are there; what the
\* pool takes is final by the median time and has its relative locks met
Accepts(t, p) ==
    /\ t \notin p /\ \A u \in p : TxOf[t].ins \cap TxOf[u].ins = {}
    /\ IsFinal(t, Len(chain) + 1, MedianTime(chain)) /\ SequenceLockActive(t, chain)
    /\ \A c \in TxOf[t].ins : Spendable(c, Len(chain) + 1)
Missing(t, p) == ~ TxOf[t].ins \subseteq Coins(chain) \cup UNION {OutsOf(u) : u \in p}

\* The transactions of a disconnected block go back, parents first.  One that is
\* refused, because the pool still has it also, goes with its redeemers; one
\* whose parents are missing is let be.
RECURSIVE Reinserted(_, _)
Reinserted(S, p) ==
    IF S = {} THEN p
    ELSE LET t == CHOOSE t \in S : \A u \in S : TxOf[t].ins \cap OutsOf(u) = {}
         IN  Reinserted(S \ {t}, IF t \notin p /\ Missing(t, p) THEN p
                                 ELSE IF Accepts(t, p) THEN p \cup {t}
                                 ELSE p \ Redeemers({t}, p))

\* handleBlockchainNotification: the pool is cleaned only while the node is
\* current
PoolHears ==
    /\ note # <<>>
    /\ \/ note[1].kind = "connected" /\ pool' = Cleaned(note[1].txs)
       \/ note[1].kind = "connected" /\ pool' = pool
       \/ note[1].kind = "disconnected" /\ pool' = Reinserted(note[1].txs, pool)
    /\ note' = <<>>
    /\ UNCHANGED <<chain, gen, went, moves>>

\* a transaction is replaced or given up, with all that spend its coins
PoolRemoves(t) ==
    /\ moves < MaxMoves /\ moves' = moves + 1 /\ t \in pool
    /\ pool' = pool \ Redeemers({t}, pool)
    /\ UNCHANGED <<chain, note, gen, went>>

-----------------------------------------------------------------------------
Init ==
    /\ chain = Chain /\ note = <<>> /\ moves = 0 /\ gen = Idle
    /\ pool = Pooled /\ went = FALSE

Generate == (\E b \in BOOLEAN : Start(b)) \/ ScanDone \/ Finish \/ Again \/ \E t \in Txs : ScanTx(t) \/ Select(t)

Next ==
    \/ Generate
    \/ DisconnectBlock \/ PoolHears
    \/ \E S \in SUBSET Txs : ConnectBlock(S)
    \/ \E t \in Txs : PoolRemoves(t)

Spec == Init /\ [][Next]_vars

\* The generation goes on as soon as it can.
FairSpec == Spec /\ WF_vars(Generate)

-----------------------------------------------------------------------------
(* Properties. *)

RECURSIVE SumWeights(_)
SumWeights(s) == IF s = <<>> THEN 0 ELSE TxOf[Head(s)].weight + SumWeights(Tail(s))

\* While the chain stands still the block, as far as it has been chosen, spends
\* coins that are there: parents first, no coin twice, none too young, though
\* transactions leave the pool and half registered ones are released
\* (NewBlockTemplate).
BlockFeasible == gen.at \in {"select", "done"} /\ ~ gen.moved => SpendsRight(gen.best)

\* The weight that is kept is that of the block, the commitment included, and
\* the limit is not passed by anything but the commitment.
WeightRight ==
    gen.at \in {"select", "done"} =>
        /\ gen.weight = Overhead + SumWeights(gen.block) + (IF gen.witnessIncluded THEN CommitmentWeight ELSE 0)
        /\ Overhead + SumWeights(gen.block) < BlockMaxWeight

\* Generation fails only because the chain has moved meanwhile, or because of a
\* lock: a transaction was chosen by the clock that is not final by the median
\* time, or its relative lock is not met, which NewBlockTemplate does not look at
\* and CheckConnectBlockTemplate refuses.  The latter takes a disconnected block,
\* however long ago: the pool takes no such transaction.
FailsForCause ==
    gen.at = "failed" => gen.moved \/ (went /\ \E t \in BlockTxs : ~ Unlocked(t, gen.best))

\* No transaction is lost in the counting of dependencies: one that is not in
\* the block was passed over itself or needs one that is not in the block.
NoneForgotten ==
    gen.at = "done" =>
        \A t \in gen.source \ (BlockTxs \cup gen.skipped) : \E u \in Txs \ BlockTxs : TxOf[t].ins \cap OutsOf(u) # {}

\* A template that is handed out can be mined (NewBlockTemplate).
MiningSound == BlockFeasible /\ WeightRight /\ FailsForCause /\ NoneForgotten

\* Each generation ends, though transactions are put back into the queue.
GenerationEnds == (gen.at = "select") ~> (gen.at # "select")
=============================================================================
