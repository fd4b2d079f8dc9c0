------------------------------- MODULE Ledger -------------------------------
(***************************************************************************)
(* blockchain/validate.go with the view of blockchain/utxoviewpoint.go:    *)
(* what a block has to satisfy to be connected to the tip, and what        *)
(* connecting and disconnecting it do to the unspent outputs.              *)
(*                                                                         *)
(* A transaction id stands for the contents Tx[id]; the same id may come   *)
(* up in two blocks.  Proof of work and the merkle root are not part of    *)
(* this module, scripts are not run by the code.  Blocks that break a rule *)
(* are refused and change nothing, so only accepted blocks are steps.      *)
(***************************************************************************)
EXTENDS Integers, Sequences, SequencesExt, FiniteSetsExt

CONSTANTS
    TxIds, Tx,      \* Tx[id]: ins, outs, lock, script, weight, version
    Null,           \* the null outpoint of a coinbase input
    Networks,       \* bip34, bip66, bip65 (heights), known (BIP0034Hash is on the chain), csv and segwit (active)
    Times, Versions, MaxTxs,    \* of the blocks that are offered; no time is past the limit
    Subsidy,        \* CalcBlockSubsidy by height
    MaxMoney, Maturity, MaxWeight, ReenableBIP30,
    MedianTimeBlocks, Granularity,
    MaxHeight, MaxUndo          \* bounds

VARIABLES
    net,
    chain,      \* the blocks above genesis: txs, time, version
    view,       \* the unspent outputs: outpoint -> amount, height, coinbase
    journal,    \* journal[h]: what block h spent
    undone,     \* blocks disconnected so far
    torn        \* a block that passed its checks could not be connected

vars == <<net, chain, view, journal, undone, torn>>

Headers == [time : Times, version : Versions]

ValueOf(t) == FoldLeft(LAMBDA s, o : s + o.value, 0, t.outs)

-----------------------------------------------------------------------------
(* Rules without context *)

IsCoinBase(t) == Len(t.ins) = 1 /\ t.ins[1].op = Null

\* mutant: inputs are not compared with one another
CheckTransactionSanity_Twice(t) ==
    /\ t.ins # <<>> /\ t.outs # <<>>
    /\ \A i \in DOMAIN t.outs : t.outs[i].value \in 0..MaxMoney
    /\ ValueOf(t) <= MaxMoney
    /\ IF IsCoinBase(t) THEN t.script.length \in 2..100
       ELSE \A i \in DOMAIN t.ins : t.ins[i].op # Null

CheckTransactionSanity(t) ==
    /\ t.ins # <<>> /\ t.outs # <<>>
    /\ \A i \in DOMAIN t.outs : t.outs[i].value \in 0..MaxMoney
    /\ ValueOf(t) <= MaxMoney
    /\ \A i, j \in DOMAIN t.ins : t.ins[i].op = t.ins[j].op => i = j
    /\ IF IsCoinBase(t) THEN t.script.length \in 2..100
       ELSE \A i \in DOMAIN t.ins : t.ins[i].op # Null

CheckBlockSanity(txs) ==
    /\ txs # <<>> /\ IsCoinBase(Tx[txs[1]])
    /\ \A i \in DOMAIN txs : i > 1 => ~ IsCoinBase(Tx[txs[i]])
    /\ \A i \in DOMAIN txs : CheckTransactionSanity(Tx[txs[i]])
    /\ IsInjective(txs)

\* the lists of transactions that get past checkBlockSanity
SaneTxs ==
    LET lists == {<<id>> \o rest : id \in TxIds, rest \in UNION {[1..n -> TxIds] : n \in 0..(MaxTxs - 1)}}
    IN  {txs \in lists : CheckBlockSanity(txs)}

-----------------------------------------------------------------------------
(* Times.  c is a chain: times of its blocks; genesis has time 0. *)

TimesOf(c) == <<0>> \o [h \in DOMAIN c |-> c[h].time]

\* the upper one of the two middle elements, when the number is even
CalcPastMedianTime(c) ==
    LET ts == TimesOf(c)
        n == IF Len(ts) < MedianTimeBlocks THEN Len(ts) ELSE MedianTimeBlocks
        w == SubSeq(ts, Len(ts) - n + 1, Len(ts))
    IN  SortSeq(w, <)[(n \div 2) + 1]

IsFinalizedTransaction(t, height, time) ==
    \/ t.lock.kind = "none"
    \/ t.lock.kind = "height" /\ t.lock.n < height
    \/ t.lock.kind = "time" /\ t.lock.n < time
    \/ \A i \in DOMAIN t.ins : t.ins[i].seq.kind = "max"

-----------------------------------------------------------------------------
(* Rules that depend on the chain below the block *)

GetBlockWeight(b) == FoldLeft(LAMBDA s, id : s + Tx[id].weight, 0, b.txs)

ShouldHaveSerializedBlockHeight(b) == b.version >= 2

CheckSerializedHeight(t, height) == t.script.height = height

VersionTooOld(version, height) ==
    \/ version < 2 /\ height >= net.bip34
    \/ version < 3 /\ height >= net.bip66
    \/ version < 4 /\ height >= net.bip65

\* The difficulty and the checkpoints are not part of this module.
CheckBlockHeaderContext(c, b) ==
    /\ b.time > CalcPastMedianTime(c)
    /\ ~ VersionTooOld(b.version, Len(c) + 1)

\* after CheckBlockHeaderContext; median: the past median time of c
CheckBlockContext(c, b, median) ==
    LET height == Len(c) + 1
        time == IF net.csv THEN median ELSE b.time
    IN  /\ \A i \in DOMAIN b.txs : IsFinalizedTransaction(Tx[b.txs[i]], height, time)
        /\ (ShouldHaveSerializedBlockHeight(b) /\ height >= net.bip34) =>
                CheckSerializedHeight(Tx[b.txs[1]], height)
        /\ net.segwit => GetBlockWeight(b) <= MaxWeight

-----------------------------------------------------------------------------
(* The view *)

OutsOf(id) == {<<id, i>> : i \in {j \in DOMAIN Tx[id].outs : Tx[id].outs[j].spendable}}

AddTxOuts(v, id, height) ==
    [op \in OutsOf(id) |-> [amount |-> Tx[id].outs[op[2]].value, height |-> height,
                            coinbase |-> IsCoinBase(Tx[id])]] @@ v

Spend(v, ops) == Restrict(v, DOMAIN v \ ops)

InputsOf(id) == [i \in DOMAIN Tx[id].ins |-> Tx[id].ins[i].op]

\* of a transaction that is not a coinbase
CheckTransactionInputs(id, height, v) ==
    LET ops == InputsOf(id)
        amounts == FoldLeft(LAMBDA s, op : s + v[op].amount, 0, ops)
    IN  /\ ToSet(ops) \subseteq DOMAIN v
        /\ \A op \in ToSet(ops) : v[op].coinbase => height - v[op].height >= Maturity
        /\ amounts <= MaxMoney
        /\ amounts >= ValueOf(Tx[id])

FeeOf(id, v) == FoldLeft(LAMBDA s, op : s + v[op].amount, 0, InputsOf(id)) - ValueOf(Tx[id])

\* The view that checkConnectBlock starts from: the unspent outputs, and those
\* of each transaction that a later one of the block spends from.  An input
\* that names a later transaction is looked up in the cache, which hides such
\* an output, unless checkBIP0030 has put the outpoint into the view before.
FetchInputUtxos(v, b, height, looked) ==
    LET Before(i) == {b.txs[j] : j \in 1..(i - 1)}
        Inputs(i) == ToSet(InputsOf(b.txs[i]))
        early == {id \in ToSet(b.txs) : \E i \in DOMAIN b.txs : \E op \in Inputs(i) :
                                            op # Null /\ op[1] = id /\ id \in Before(i)}
        needed == IF looked THEN {}
                  ELSE UNION {{op \in Inputs(i) \ {Null} : op[1] \notin Before(i)} : i \in DOMAIN b.txs}
        added == FoldSet(LAMBDA id, e : AddTxOuts(e, id, height), <<>>, early)
    IN  Restrict(added, DOMAIN added \ needed) @@ v

\* One transaction of the loop of checkConnectBlock
ConnectTransaction(s, id, height) ==
    IF ~ s.ok THEN s
    ELSE IF IsCoinBase(Tx[id]) THEN [s EXCEPT !.view = AddTxOuts(@, id, height)]
    ELSE IF ~ CheckTransactionInputs(id, height, s.view) THEN [s EXCEPT !.ok = FALSE]
    ELSE [ok |-> TRUE, fees |-> s.fees + FeeOf(id, s.view),
          view |-> AddTxOuts(Spend(s.view, ToSet(InputsOf(id))), id, height)]

ConnectTransactions(v, b, height) ==
    FoldLeft(LAMBDA s, id : ConnectTransaction(s, id, height),
             [ok |-> TRUE, fees |-> 0, view |-> v], b.txs)

-----------------------------------------------------------------------------
(* BIP0030 and the sequence locks *)

\* net.known: the block at height bip34 is the one the parameters name
Bip0030CheckNeeded(height) ==
    ~ (net.bip34 < height /\ height < ReenableBIP30 /\ net.known)

CheckBIP0030(b, v) == \A i \in DOMAIN b.txs : OutsOf(b.txs[i]) \cap DOMAIN v = {}

\* height of the block an output of the chain c comes from; outputs of b itself
HeightOf(op, c, b) ==
    LET made == {h \in DOMAIN c : op[1] \in ToSet(c[h].txs)}
    IN  IF op[1] \in ToSet(b.txs) THEN Len(c) + 1 ELSE Max(made)

\* The lock counts from the block before the one that holds the output.
CalcSequenceLock(id, c, b) ==
    LET t == Tx[id]
        ins == IF t.version >= 2 /\ ~ IsCoinBase(t) THEN DOMAIN t.ins ELSE {}
        HeightLock(i) == HeightOf(t.ins[i].op, c, b) + t.ins[i].seq.n - 1
        TimeLock(i) ==
            CalcPastMedianTime(SubSeq(c, 1, HeightOf(t.ins[i].op, c, b) - 1))
                + (t.ins[i].seq.n * Granularity) - 1
    IN  [blockHeight |-> Max({-1} \cup {HeightLock(i) : i \in {j \in ins : t.ins[j].seq.kind = "blocks"}}),
         seconds |-> Max({-1} \cup {TimeLock(i) : i \in {j \in ins : t.ins[j].seq.kind = "time"}})]

SequenceLockActive(lock, height, median) == lock.seconds < median /\ lock.blockHeight < height

-----------------------------------------------------------------------------
(* Connecting and disconnecting the tip *)

SequenceLocksMet(c, b, median) ==
    net.csv => \A i \in DOMAIN b.txs :
        SequenceLockActive(CalcSequenceLock(b.txs[i], c, b), Len(c) + 1, median)

\* checkConnectBlock.  Signature operations are not counted by the code.
CheckConnectBlock(c, b, v, median) ==
    LET height == Len(c) + 1
        bip30 == Bip0030CheckNeeded(height)
        done == ConnectTransactions(FetchInputUtxos(v, b, height, bip30), b, height)
    IN  /\ bip30 => CheckBIP0030(b, v)
        /\ done.ok
        /\ ValueOf(Tx[b.txs[1]]) <= Subsidy[height] + done.fees
        /\ SequenceLocksMet(c, b, median)

\* utxoCache.connectTransactions: one transaction after the other, on the cache
\* itself; it stops at a missing input and keeps what it did up to there.
CacheConnect(v, b, height) ==
    LET Step(s, id) ==
            LET ops == IF IsCoinBase(Tx[id]) THEN <<>> ELSE InputsOf(id)
            IN  IF s.ok /\ ToSet(ops) \subseteq DOMAIN s.view
                THEN [ok |-> TRUE, view |-> AddTxOuts(Spend(s.view, ToSet(ops)), id, height),
                      spent |-> s.spent \o [i \in DOMAIN ops |-> s.view[ops[i]]]]
                ELSE [s EXCEPT !.ok = FALSE]
    IN  FoldLeft(Step, [ok |-> TRUE, view |-> v, spent |-> <<>>], b.txs)

BlocksOf(header) ==
    {[txs |-> txs, time |-> header.time, version |-> header.version] : txs \in SaneTxs}

ConnectBlock(header) ==
    /\ ~ torn /\ Len(chain) < MaxHeight
    /\ CheckBlockHeaderContext(chain, header)
    /\ \E median \in {CalcPastMedianTime(chain)}, b \in BlocksOf(header) :
            /\ CheckBlockContext(chain, b, median)
            /\ CheckConnectBlock(chain, b, view, median)
            /\ LET done == CacheConnect(view, b, Len(chain) + 1)
               IN  /\ view' = done.view
                   /\ torn' = ~ done.ok
                   /\ IF done.ok
                      THEN chain' = Append(chain, b) /\ journal' = Append(journal, done.spent)
                      ELSE UNCHANGED <<chain, journal>>
    /\ UNCHANGED <<net, undone>>

\* disconnectTransactions: last transaction first, so that an output made and
\* spent in the block is gone in the end
DisconnectTransactions(v, b, spent) ==
    LET Undo(s, id) ==
            LET ops == IF IsCoinBase(Tx[id]) THEN <<>> ELSE InputsOf(id)
                k == Len(s.spent) - Len(ops)
                back == [op \in ToSet(ops) |-> s.spent[k + SelectInSeq(ops, LAMBDA x : x = op)]]
            IN  [view |-> back @@ Spend(s.view, OutsOf(id)), spent |-> SubSeq(s.spent, 1, k)]
    IN  FoldLeft(Undo, [view |-> v, spent |-> spent], Reverse(b.txs)).view

DisconnectBlock ==
    /\ ~ torn /\ chain # <<>> /\ undone < MaxUndo
    /\ view' = DisconnectTransactions(view, Last(chain), Last(journal))
    /\ chain' = Front(chain) /\ journal' = Front(journal)
    /\ undone' = undone + 1
    /\ UNCHANGED <<net, torn>>

-----------------------------------------------------------------------------
Init ==
    /\ net \in Networks
    /\ chain = <<>> /\ journal = <<>> /\ undone = 0 /\ torn = FALSE
    /\ view = [op \in {} |-> [amount |-> 0, height |-> 0, coinbase |-> FALSE]]

Next == (\E header \in Headers : ConnectBlock(header)) \/ DisconnectBlock

Spec == Init /\ [][Next]_vars

-----------------------------------------------------------------------------
(* Properties. *)

TypeOK ==
    /\ net \in Networks /\ Len(chain) <= MaxHeight /\ Len(journal) = Len(chain)
    /\ \A h \in DOMAIN chain : [time |-> chain[h].time, version |-> chain[h].version] \in Headers
    /\ \A op \in DOMAIN view : view[op].height \in 1..(Len(chain) + (IF torn THEN 1 ELSE 0)) /\ view[op].amount \in 0..MaxMoney

\* No sequence of blocks makes more money than the subsidies of its heights
\* (CheckTransactionInputs, the coinbase rule and the view together).
SupplyBounded ==
    ~ torn => MapThenSumSet(LAMBDA op : view[op].amount, DOMAIN view)
        <= MapThenSumSet(LAMBDA h : Subsidy[h], DOMAIN chain)

\* How often the blocks make and spend an output.
Created(op) == Cardinality({h \in DOMAIN chain : op[1] \in ToSet(chain[h].txs)})
Spent(op) ==
    Cardinality({<<h, i>> \in (DOMAIN chain) \X (1..MaxTxs) :
        i \in DOMAIN chain[h].txs /\ op \in ToSet(InputsOf(chain[h].txs[i]))})

\* The view holds exactly the outputs that the blocks of the chain made and did
\* not spend, each made once more than spent at most: no double spend, no
\* overwritten output (BIP0030), and nothing left behind by a disconnect.
ViewIsHistory ==
    ~ torn => \A op \in UNION {OutsOf(id) : id \in TxIds} :
        Created(op) - Spent(op) = (IF op \in DOMAIN view THEN 1 ELSE 0)

\* the block of the chain below height h that made op last
Origin(op, h) == Max({0} \cup {k \in 1..h : op[1] \in ToSet(chain[k].txs)})

\* Every coinbase output that the chain spends had its maturity, counted on the
\* chain itself and not on what the view says.
SpendsMature ==
    \A h \in DOMAIN chain : \A i \in DOMAIN chain[h].txs :
        \A op \in ToSet(InputsOf(chain[h].txs[i])) \ {Null} :
            IsCoinBase(Tx[op[1]]) => h - Origin(op, h) >= Maturity

Median(h) == CalcPastMedianTime(SubSeq(chain, 1, h))

\* The median time, which lock times are compared with, never goes back as the
\* chain grows, whatever times the blocks claim.
MedianNeverDecreases == \A h \in DOMAIN chain : Median(h - 1) <= Median(h)

\* A relative lock of n blocks or n units of time keeps a transaction out for
\* that long after its input, by the definition of BIP0068 and not by the
\* "last height that is too low" that the code computes.
RelativeLocksKept ==
    net.csv => \A h \in DOMAIN chain : \A i \in DOMAIN chain[h].txs :
        LET t == Tx[chain[h].txs[i]]
        IN  t.version >= 2 /\ ~ IsCoinBase(t) => \A k \in DOMAIN t.ins :
                LET from == Origin(t.ins[k].op, h)
                IN  /\ t.ins[k].seq.kind = "blocks" => h >= from + t.ins[k].seq.n
                    /\ t.ins[k].seq.kind = "time" =>
                            Median(h - 1) >= Median(from - 1) + (t.ins[k].seq.n * Granularity)

\* A transaction that is in the chain was final when it came in, and still is
\* for a block on top of the chain.
FinalForGood ==
    \A h \in DOMAIN chain : \A i \in DOMAIN chain[h].txs :
        net.csv => IsFinalizedTransaction(Tx[chain[h].txs[i]], Len(chain) + 1, CalcPastMedianTime(chain))
=============================================================================
