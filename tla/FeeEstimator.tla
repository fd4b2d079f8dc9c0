---------------------------- MODULE FeeEstimator ----------------------------
(***************************************************************************)
(* The fee estimator (mempool/estimatefee.go) and the way it is used: the  *)
(* pool reports the transactions it accepts, the sync manager's handler of *)
(* chain notifications registers connected blocks and rolls back           *)
(* disconnected ones, and estimatesmartfee reads the estimates.            *)
(*                                                                         *)
(* The server, the pool and the sync manager share one estimator until     *)
(* RegisterBlock fails; the sync manager then goes on with a new one of    *)
(* its own (sync), which the pool and the RPC server never see.            *)
(*                                                                         *)
(* An estimator is a record.  Fee rates are integers and an observed       *)
(* transaction is known by its hash.                                       *)
(***************************************************************************)
EXTENDS Integers, Sequences, FiniteSets, FiniteSetsExt, SequencesExt

CONSTANTS
    Txs,
    Rate,               \* Rate[t]: fee rate of t
    Depth,              \* estimateFeeDepth
    BinSize,            \* estimateFeeBinSize
    MaxReplacements,    \* estimateFeeMaxReplacements
    MaxRollback,
    MinRegisteredBlocks,
    MaxHeight,          \* bound on the height of the chain
    MaxBlockTxs,        \* bound on the transactions of a block
    MaxForks            \* bound on blocks disconnected

Unmined == 1000         \* mining.UnminedHeight
NoEstimator == <<>>

EstimatorAssumption ==
    /\ Rate \in [Txs -> Nat]
    /\ Depth \in Nat \ {0} /\ BinSize \in Nat /\ MaxReplacements \in Nat
    /\ MaxReplacements < BinSize
    /\ MaxRollback \in Nat /\ MaxHeight < Unmined

VARIABLES
    shared,     \* the estimator of the server, the pool and the RPC server
    sync,       \* the sync manager's own one, NoEstimator while it is shared
    chain,      \* blocks of the best chain: <<[id, txs], ...>>
    inPool,     \* transactions in the pool
    forks,      \* blocks disconnected so far; gives blocks their names
    before      \* history: bin contents before each block that can be rolled back

vars == <<shared, sync, chain, inPool, forks, before>>

----------------------------------------------------------------------------
NewFeeEstimator ==
    [observed |-> <<>>, bins |-> [i \in 1..Depth |-> <<>>], dropped |-> <<>>,
     last |-> Unmined, num |-> 0, cached |-> <<>>]

ObserveTransaction(e, t, height) ==
    IF e.last = Unmined \/ t \in DOMAIN e.observed THEN e
    ELSE [e EXCEPT !.observed = [u \in DOMAIN @ \cup {t} |->
            IF u = t THEN [rate |-> Rate[t], observed |-> height, mined |-> Unmined] ELSE @[u]]]

(* The bin of a transaction: blocks to confirm, from 0; bins start at 1. *)
BlocksToConfirm(o, height) == height - o.observed - 1

(***************************************************************************)
(* One transaction of a block: w is the estimator, the replacements made   *)
(* per bin, what was dropped and whether an error ended the loop; pick is  *)
(* rand.Intn's choice.                                                     *)
(***************************************************************************)
RegisterTx(w, t, height, pick) ==
    IF w.err \/ t \notin DOMAIN w.e.observed THEN w
    ELSE LET o == w.e.observed[t]
             i == BlocksToConfirm(o, height) + 1
             bin == w.e.bins[i]
             n == w.count[i] + 1
             l == BinSize - n
             drop == (pick % l) + 1
             mined == [w.e EXCEPT !.observed[t].mined = height]
         IN  IF o.mined # Unmined THEN [w EXCEPT !.err = TRUE]
             ELSE IF i > Depth \/ i < 1 THEN w
             ELSE IF w.count[i] = MaxReplacements THEN w
             ELSE IF Len(bin) = BinSize
             THEN [w EXCEPT !.count[i] = n, !.drops = Append(@, bin[drop]),
                    !.e = [mined EXCEPT !.bins[i] = [bin EXCEPT ![drop] = bin[l], ![l] = t]]]
             ELSE [w EXCEPT !.count[i] = n, !.e = [mined EXCEPT !.bins[i] = Append(bin, t)]]

(* What has not been mined within the depth of the bins is forgotten. *)
ForgetOld(observed, height) ==
    LET old == {t \in DOMAIN observed :
                    observed[t].mined = Unmined /\ height - observed[t].observed >= Depth}
    IN  [t \in DOMAIN observed \ old |-> observed[t]]

PushDropped(dropped, entry) ==
    IF MaxRollback = 0 THEN dropped
    ELSE IF Len(dropped) = MaxRollback THEN Append(Tail(dropped), entry)
    ELSE Append(dropped, entry)

(* RegisterBlock: the estimator after it and whether it returned an error. *)
RegisterBlock(e, id, height, order, pick) ==
    LET start == [e EXCEPT !.cached = <<>>, !.last = height, !.num = @ + 1]
        w == FoldLeft(LAMBDA acc, t : RegisterTx(acc, t, height, pick),
                [e |-> start, count |-> [i \in 1..Depth |-> 0], drops |-> <<>>, err |-> FALSE],
                order)
    IN  IF height # e.last + 1 /\ e.last # Unmined
        THEN [err |-> TRUE, e |-> [e EXCEPT !.cached = <<>>]]
        ELSE IF w.err THEN [err |-> TRUE, e |-> w.e]
        ELSE [err |-> FALSE,
              e |-> [w.e EXCEPT !.observed = ForgetOld(@, height),
                                !.dropped = PushDropped(@, [id |-> id, txs |-> w.drops])]]

----------------------------------------------------------------------------
(***************************************************************************)
(* rollback.  Each dropped transaction goes back into its bin, in place of *)
(* the next one of that bin that the block brought; what the block brought *)
(* without replacing anything is then taken out.                           *)
(***************************************************************************)
FromBlock(e, t) == e.observed[t].mined = e.last

(* The first place of a bin, from place c on, with a transaction of the block. *)
NextPlace(e, bin, c) ==
    LET places == {p \in c..Len(bin) : FromBlock(e, bin[p])}
    IN  IF places = {} THEN 0 ELSE Min(places)

PutBack(w, o) ==
    LET i == BlocksToConfirm(w.e.observed[o], w.e.observed[o].mined) + 1
        p == NextPlace(w.e, w.e.bins[i], w.counter[i])
    IN  IF w.panic THEN w
        ELSE IF p = 0 THEN [w EXCEPT !.panic = TRUE]
        ELSE [panic |-> FALSE,
              counter |-> [w.counter EXCEPT ![i] = p + 1],
              e |-> [w.e EXCEPT !.observed[w.e.bins[i][p]].mined = Unmined,
                                !.bins[i] = [@ EXCEPT ![p] = o]]]

(* Mutant: what the block brought without replacing anything stays. *)
TakeOut_Nothing(w, i) == w

TakeOut(w, i) ==
    LET bin == w.e.bins[i]
        out == {p \in w.counter[i]..Len(bin) : FromBlock(w.e, bin[p])}
        keep == SelectSeq([p \in 1..Len(bin) |-> [at |-> p, tx |-> bin[p]]], LAMBDA x : x.at \notin out)
    IN  [w EXCEPT !.e = [w.e EXCEPT
            !.observed = [t \in DOMAIN @ |->
                IF t \in {bin[p] : p \in out} THEN [@[t] EXCEPT !.mined = Unmined] ELSE @[t]],
            !.bins[i] = [p \in 1..Len(keep) |-> keep[p].tx]]]

(* The last block is undone; the cached estimates go with it. *)
RollbackOne(e) ==
    LET put == FoldLeft(PutBack,
                [e |-> [e EXCEPT !.cached = <<>>], counter |-> [i \in 1..Depth |-> 1], panic |-> FALSE],
                Last(e.dropped).txs)
        out == FoldLeft(TakeOut, put, [i \in 1..Depth |-> i])
    IN  [panic |-> put.panic,
         e |-> [out.e EXCEPT !.dropped = Front(@), !.num = @ - 1, !.last = @ - 1]]

(* Rollback: every block down to id, or nothing when id is not known. *)
Rollback(e, id) ==
    LET at == {n \in 1..Len(e.dropped) : e.dropped[Len(e.dropped) - n + 1].id = id}
    IN  IF at = {} THEN e
        ELSE FoldLeft(LAMBDA acc, n : RollbackOne(acc).e, e, [n \in 1..Min(at) |-> n])

----------------------------------------------------------------------------
(* newEstimateFeeSet, estimateFee and estimates. *)
FeeRates(e) ==
    SortSeq(FlattenSeq([i \in 1..Depth |-> [p \in 1..Len(e.bins[i]) |-> e.observed[e.bins[i][p]].rate]]),
            LAMBDA x, y : x > y)

(* The median of the bin for conf blocks, by the place it has among all rates. *)
EstimateFeeAt(e, rates, conf) ==
    LET size(n) == Len(e.bins[n])
        lo == MapThenSumSet(size, 1..(conf - 1))
        hi == Max({lo, lo + size(conf) - 1})
        index == Min({(lo + hi) \div 2, Len(rates) - 1})
    IN  IF rates = <<>> THEN 0 ELSE rates[index + 1]

Estimates(e) == [conf \in 1..Depth |-> EstimateFeeAt(e, FeeRates(e), conf)]

(***************************************************************************)
(* Save writes bins and dropped lists as positions in the sorted list of   *)
(* observed transactions; a transaction that is not in it is written as    *)
(* position 0 (Go's zero value).  Restore reads them back and refuses a    *)
(* bin position it does not know.                                          *)
(***************************************************************************)
SortedTxs == SetToSeq(Txs)
Save(e) ==
    LET list == SelectSeq(SortedTxs, LAMBDA t : t \in DOMAIN e.observed)
        pos(t) == IF Contains(list, t) THEN SelectInSeq(list, LAMBDA u : u = t) - 1 ELSE 0
        refs(s) == [p \in 1..Len(s) |-> pos(s[p])]
    IN  [last |-> e.last, num |-> e.num,
         txs |-> [p \in 1..Len(list) |-> <<list[p], e.observed[list[p]]>>],
         bins |-> [i \in 1..Depth |-> refs(e.bins[i])],
         dropped |-> [k \in 1..Len(e.dropped) |->
            [id |-> e.dropped[k].id, txs |-> refs(e.dropped[k].txs)]]]
RestoreFeeEstimator(s) ==
    LET tx(p) == s.txs[p + 1][1]
        txs(refs) == [p \in 1..Len(refs) |-> tx(refs[p])]
    IN  IF \E i \in 1..Depth : \E p \in ToSet(s.bins[i]) : p >= Len(s.txs)
        THEN NewFeeEstimator
        ELSE [observed |-> [t \in {s.txs[p][1] : p \in 1..Len(s.txs)} |->
                    (CHOOSE p \in ToSet(s.txs) : p[1] = t)[2]],
              bins |-> [i \in 1..Depth |-> txs(s.bins[i])],
              dropped |-> [k \in 1..Len(s.dropped) |->
                    [id |-> s.dropped[k].id, txs |-> txs(s.dropped[k].txs)]],
              last |-> s.last, num |-> s.num, cached |-> <<>>]

----------------------------------------------------------------------------
(* The estimator the sync manager talks to. *)
SyncEstimator == IF sync = NoEstimator THEN shared ELSE sync
BinSets(e) == [i \in 1..Depth |-> ToSet(e.bins[i])]
OnChain == UNION {b.txs : b \in ToSet(chain)}
Height == Len(chain)

(* addTransaction reports what the pool accepts. *)
Accept(t) ==
    /\ t \notin inPool /\ t \notin OnChain
    /\ inPool' = inPool \cup {t}
    /\ shared' = ObserveTransaction(shared, t, Height)
    /\ UNCHANGED <<sync, chain, forks, before>>

(* NTBlockConnected: on an error a new estimator takes over.  A node that  *)
(* is not current returns before it registers the block.                   *)
BlockConnected(txs, current) ==
    LET id == <<Height + 1, forks>>
    IN  /\ Height < MaxHeight
        /\ chain' = Append(chain, [id |-> id, txs |-> txs])
        /\ inPool' = IF current THEN inPool \ txs ELSE inPool
        /\ UNCHANGED forks
        /\ IF ~current THEN UNCHANGED <<shared, sync, before>>
           ELSE \E order \in SetToSeqs(txs), pick \in 0..(BinSize - 1) :
                LET r == RegisterBlock(SyncEstimator, id, Height + 1, order, pick)
                IN  IF r.err
                    THEN /\ sync' = NewFeeEstimator /\ before' = <<>>
                         /\ shared' = IF sync = NoEstimator THEN r.e ELSE shared
                    ELSE /\ IF sync = NoEstimator
                            THEN shared' = r.e /\ UNCHANGED sync
                            ELSE sync' = r.e /\ UNCHANGED shared
                         /\ before' = PushDropped(before, BinSets(SyncEstimator))

(* NTBlockDisconnected: an unknown block is ignored. *)
BlockDisconnected ==
    LET b == Last(chain)
        e == Rollback(SyncEstimator, b.id)
        n == Len(SyncEstimator.dropped) - Len(e.dropped)
    IN  /\ chain # <<>> /\ forks < MaxForks
        /\ chain' = Front(chain) /\ forks' = forks + 1
        /\ inPool' = inPool \cup b.txs
        /\ before' = SubSeq(before, 1, Len(before) - n)
        /\ IF sync = NoEstimator
           THEN shared' = FoldSet(LAMBDA t, acc : ObserveTransaction(acc, t, Height - 1), e, b.txs)
                /\ UNCHANGED sync
           ELSE sync' = e
                /\ shared' = FoldSet(LAMBDA t, acc : ObserveTransaction(acc, t, Height - 1), shared, b.txs)

(* EstimateFee: the RPC server fills the cache of the shared estimator. *)
EstimateFee ==
    /\ shared.num >= MinRegisteredBlocks /\ shared.cached = <<>>
    /\ shared' = [shared EXCEPT !.cached = Estimates(shared)]
    /\ UNCHANGED <<sync, chain, inPool, forks, before>>

Init ==
    /\ shared = NewFeeEstimator /\ sync = NoEstimator
    /\ chain = <<>> /\ inPool = {} /\ forks = 0 /\ before = <<>>

Next ==
    \/ \E t \in Txs : Accept(t)
    \/ \E txs \in SUBSET (Txs \ OnChain) :
        /\ Cardinality(txs) <= MaxBlockTxs
        /\ \E current \in BOOLEAN : BlockConnected(txs, current)
    \/ BlockDisconnected
    \/ EstimateFee

Spec == Init /\ [][Next]_vars

----------------------------------------------------------------------------
TypeOK ==
    /\ chain \in Seq([id : Seq(Nat), txs : SUBSET Txs]) /\ inPool \subseteq Txs
    /\ forks \in 0..MaxForks
    /\ \A e \in {shared, SyncEstimator} :
        /\ DOMAIN e.observed \subseteq Txs
        /\ e.bins \in [1..Depth -> Seq(Txs)] /\ e.num \in Nat

(* What a bin or a dropped list refers to is still observed, sits in the   *)
(* bin its confirmation time says, at most once, and bins keep to their    *)
(* size.  Save turns the references into positions and rollback finds the  *)
(* bin of a dropped transaction through them.                              *)
BinsExact ==
    LET e == SyncEstimator
        held == UNION {ToSet(e.bins[i]) : i \in 1..Depth}
                    \cup UNION {ToSet(e.dropped[k].txs) : k \in 1..Len(e.dropped)}
    IN  /\ held \subseteq DOMAIN e.observed
        /\ \A i \in 1..Depth :
            /\ Len(e.bins[i]) <= BinSize
            /\ IsInjective(e.bins[i])
            /\ \A p \in 1..Len(e.bins[i]) :
                LET o == e.observed[e.bins[i][p]]
                IN  o.mined # Unmined /\ BlocksToConfirm(o, o.mined) + 1 = i

(* Rolling back the last registered block never meets the illegal state    *)
(* that panics, and gives every bin the transactions it had before the     *)
(* block was registered.                                                   *)
RollbackRestores ==
    LET e == SyncEstimator
    IN  e.dropped # <<>> =>
        LET r == RollbackOne(e)
        IN  ~r.panic /\ BinSets(r.e) = Last(before)

(* Cached estimates are the estimates of the bins as they are now. *)
CacheFresh == shared.cached # <<>> => shared.cached = Estimates(shared)

(* Waiting longer never costs more. *)
EstimatesMonotone ==
    LET est == Estimates(shared)
    IN  \A i, j \in 1..Depth : i <= j => est[i] >= est[j]

(* What Save writes, RestoreFeeEstimator reads back: the same bins, dropped *)
(* lists, heights and observations.                                        *)
SaveRestores ==
    RestoreFeeEstimator(Save(shared)) = [shared EXCEPT !.cached = <<>>]
=============================================================================
