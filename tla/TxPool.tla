------------------------------- MODULE TxPool -------------------------------
(***************************************************************************)
(* The transaction memory pool (mempool/mempool.go, mempool/policy.go)     *)
(* next to the chain that feeds it: netsync's handler of the chain's       *)
(* connect and disconnect notifications removes what a block confirmed and *)
(* returns what a reorganization took out.                                 *)
(*                                                                         *)
(* The pool has one lock, taken anew by every exported call.  The handler  *)
(* makes four calls per transaction of a block, so a caller of             *)
(* ProcessTransaction (a peer's message, sendrawtransaction) can run       *)
(* between any two of them, and between the chain's own step and its       *)
(* notification.  processOrphans runs under the lock but reads the chain   *)
(* anew for every orphan it tries.                                         *)
(*                                                                         *)
(* A transaction is a model value; Tx gives what the checks look at.       *)
(* Coinbases and the transactions that spend them are left out.            *)
(***************************************************************************)
EXTENDS Integers, Sequences, FiniteSets, FiniteSetsExt, SequencesExt

CONSTANTS
    Txs,        \* transactions
    Tx,         \* Tx[t]: [ins, nouts, fee, size, rbf, prio, fails]
    Coins,      \* outpoints unspent before the first block
    AddrOf,     \* AddrOf[op]: the address an output pays to
    Blocks,     \* blocks above the start of the model
    Root,       \* the tip the model starts from
    Parent,     \* Parent[b]: block below b
    BlockTxs,   \* BlockTxs[b]: transactions of b without its coinbase
    Tags,       \* peers that hand in orphans
    MaxOrphanTxs,
    MaxReplacementEvictions,
    MinRelayTxFee,
    FreeTxRelayLimit,   \* in units of transaction size
    FreeAreaSize,       \* DefaultBlockPrioritySize - 1000
    AcceptNonStd, RejectReplacement, DisableRelayPriority

(* What checkMempoolAcceptance can find wrong with a transaction. *)
Checks == {"none", "witness", "small", "insane", "inputs", "nonstd", "seqlock", "sigcost"}

OutPoints == Coins \cup {<<t, i>> : t \in Txs, i \in 1..2}

ASSUME PoolAssumption ==
    /\ \A t \in Txs :
        /\ Tx[t].ins \subseteq OutPoints /\ Tx[t].ins # {}
        /\ Tx[t].nouts \in 1..2
        /\ Tx[t].fee \in Nat /\ Tx[t].size \in Nat \ {0}
        /\ Tx[t].rbf \in BOOLEAN /\ Tx[t].prio \in BOOLEAN
        /\ Tx[t].fails \in Checks
    /\ Parent \in [Blocks -> Blocks \cup {Root}] /\ Root \notin Blocks
    /\ \A b \in Blocks : BlockTxs[b] \in Seq(Txs)
    /\ MaxOrphanTxs \in Nat /\ FreeTxRelayLimit \in Nat /\ MinRelayTxFee \in Nat

VARIABLES
    pool,           \* pool: transactions in the main pool
    outpoints,      \* outpoints: outpoint -> pool transaction that spends it
    addrsByTx,      \* AddrIndex.addrsByTx: transaction -> addresses
    txnsByAddr,     \* AddrIndex.txnsByAddr: address -> transactions
    orphans,        \* orphans: orphan -> [tag, expired]
    orphansByPrev,  \* orphansByPrev: outpoint -> orphans that spend it
    pennyTotal,     \* recent free transactions, by size
    scanDue,        \* now is after nextExpireScan
    po,             \* processOrphans in progress; it holds the lock
    tip,            \* the best chain's tip
    note,           \* the notification being handled
    lost,           \* history: disconnected transactions whose inputs were missing
    missed          \* history: blocks of the best chain whose notification was passed over

poolVars == <<pool, outpoints, addrsByTx, txnsByAddr>>
orphanVars == <<orphans, orphansByPrev, scanDue>>
vars == <<pool, outpoints, addrsByTx, txnsByAddr, orphans, orphansByPrev, pennyTotal, scanDue, po, tip, note, lost, missed>>

----------------------------------------------------------------------------
(* Small helpers. *)
Prev(op) == op[1]
Outs(t) == {<<t, i>> : i \in 1..Tx[t].nouts}
Without(f, S) == [x \in DOMAIN f \ S |-> f[x]]

(* The blocks from b down to Root (the least set that holds b and the      *)
(* parents of its members), and the coins they leave.                      *)
Branch == [b \in Blocks \cup {Root} |->
            {c \in Blocks : \A S \in SUBSET Blocks :
                ({b} \cup {Parent[d] : d \in S}) \ {Root} \subseteq S => c \in S}]
ConfirmedAt == [b \in Blocks \cup {Root} |-> UNION {ToSet(BlockTxs[c]) : c \in Branch[b]}]
UtxosAt == [b \in Blocks \cup {Root} |->
            (Coins \cup UNION {Outs(t) : t \in ConfirmedAt[b]})
                \ UNION {Tx[t].ins : t \in ConfirmedAt[b]}]
Confirmed == ConfirmedAt[tip]
Utxos == UtxosAt[tip]

(* The chain connects valid blocks only: no block is its own ancestor or   *)
(* has a transaction twice, and every input is a coin left below the block *)
(* or an output of a transaction that comes earlier in it.                 *)
ASSUME BlocksValid ==
    /\ \A op \in Coins : Prev(op) \notin Txs
    /\ \A b \in Blocks :
        /\ b \notin Branch[Parent[b]]
        /\ IsInjective(BlockTxs[b])
        /\ \A i \in DOMAIN BlockTxs[b] : \A op \in Tx[BlockTxs[b][i]].ins :
                \/ op \in UtxosAt[Parent[b]]
                \/ \E j \in 1..(i - 1) : op \in Outs(BlockTxs[b][j])

(* The pool transactions that spend t, those that spend them, and so on. *)
Spenders(index, ts) == {index[op] : op \in {o \in DOMAIN index : Prev(o) \in ts}}
TxDescendants(t) ==
    {u \in pool : \A S \in SUBSET pool : Spenders(outpoints, S \cup {t}) \subseteq S => u \in S}
PoolParents(ts) == {Prev(op) : op \in UNION {Tx[u].ins : u \in ts}} \cap pool
TxAncestors(t) == {u \in pool : \A S \in SUBSET pool : PoolParents(S \cup {t}) \subseteq S => u \in S}

----------------------------------------------------------------------------
(* The orphan pool. *)
DropOrphans(S) ==
    /\ orphans' = Without(orphans, S)
    /\ orphansByPrev' =
        [op \in {o \in DOMAIN orphansByPrev : orphansByPrev[o] \ S # {}} |->
            orphansByPrev[op] \ S]

(* The orphans that removeOrphan(t, redeemers) takes out. *)
OrphanSpenders(ts) ==
    UNION {orphansByPrev[op] : op \in {o \in DOMAIN orphansByPrev : Prev(o) \in ts}}
OrphanRedeemers(t) ==
    {u \in DOMAIN orphans : \A S \in SUBSET DOMAIN orphans :
        OrphanSpenders(S \cup {t}) \subseteq S => u \in S}
RemoveOrphan(t, redeemers) ==
    IF t \notin DOMAIN orphans THEN {}
    ELSE {t} \cup (IF redeemers THEN OrphanRedeemers(t) ELSE {})
RemoveOrphans(S) == UNION {RemoveOrphan(t, TRUE) : t \in S}

(* A peer has gone: its orphans are dropped, with the orphans that spend them. *)
RemoveOrphansByTag(tag) ==
    /\ po = <<>>
    /\ \E t \in DOMAIN orphans : orphans[t].tag = tag
    /\ DropOrphans(RemoveOrphans({t \in DOMAIN orphans : orphans[t].tag = tag}))
    /\ UNCHANGED <<poolVars, pennyTotal, scanDue, po, tip, note, lost, missed>>

(* The orphans left after limitNumOrphans, one set per random eviction. *)
LimitNumOrphans ==
    LET expired == {t \in DOMAIN orphans : scanDue /\ orphans[t].expired}
        left == DOMAIN orphans \ RemoveOrphans(expired)
    IN  IF Cardinality(left) + 1 <= MaxOrphanTxs THEN {left}
        ELSE IF left = {} THEN {{}} ELSE {left \ {t} : t \in left}

AddOrphan(t, tag) ==
    IF MaxOrphanTxs <= 0 THEN UNCHANGED orphanVars
    ELSE \E left \in LimitNumOrphans :
        LET keep == [u \in left \cup {t} |-> IF u = t THEN [tag |-> tag, expired |-> FALSE]
                                                     ELSE orphans[u]]
            spenders(op) == {u \in DOMAIN keep : op \in Tx[u].ins}
        IN  /\ orphans' = keep
            /\ orphansByPrev' = [op \in UNION {Tx[u].ins : u \in DOMAIN keep} |-> spenders(op)]
            /\ scanDue' = FALSE

(* Time: the scan interval has passed; every orphan of now outlives its TTL. *)
ScanIntervalPasses ==
    /\ ~scanDue /\ scanDue' = TRUE
    /\ UNCHANGED <<poolVars, orphans, orphansByPrev, pennyTotal, po, tip, note, lost, missed>>
OrphanTTLPasses ==
    /\ \E t \in DOMAIN orphans : ~orphans[t].expired
    /\ scanDue' = TRUE
    /\ orphans' = [t \in DOMAIN orphans |-> [orphans[t] EXCEPT !.expired = TRUE]]
    /\ UNCHANGED <<poolVars, orphansByPrev, pennyTotal, po, tip, note, lost, missed>>

----------------------------------------------------------------------------
(* The main pool.  A call works on p, the pool and its index. *)
Removed(t, redeemers) ==
    ({t} \cup (IF redeemers THEN TxDescendants(t) ELSE {})) \cap pool
(* The unconfirmed part of the address index (indexers/addrindex.go). *)
AddressesOf(t) == {AddrOf[op] : op \in Tx[t].ins \cup Outs(t)}

UpdateUnconfirmed(removed, added) ==
    LET kept == [a \in DOMAIN txnsByAddr |->
                    txnsByAddr[a] \ {t \in removed \cap DOMAIN addrsByTx : a \in addrsByTx[t]}]
    IN  /\ addrsByTx' = [t \in (DOMAIN addrsByTx \ removed) \cup added |->
                            IF t \in added THEN AddressesOf(t) ELSE addrsByTx[t]]
        /\ txnsByAddr' = [a \in {b \in DOMAIN kept : kept[b] # {}}
                                  \cup UNION {AddressesOf(t) : t \in added} |->
                            (IF a \in DOMAIN kept THEN kept[a] ELSE {})
                                \cup {t \in added : a \in AddressesOf(t)}]

(* removeTransaction, for all transactions that are to go *)
RemoveTransactions(S) ==
    /\ pool' = pool \ S
    /\ UpdateUnconfirmed(S \cap pool, {})
    /\ outpoints' = Without(outpoints, UNION {Tx[t].ins : t \in S \cap pool})

(* Mutant: the transactions that depend on a double spend stay. *)
RemoveDoubleSpends_NotRedeemers(t) ==
    RemoveTransactions({outpoints[op] : op \in Tx[t].ins \cap DOMAIN outpoints} \ {t})

RemoveDoubleSpends(t) ==
    RemoveTransactions(UNION {Removed(u, TRUE) :
        u \in {outpoints[op] : op \in Tx[t].ins \cap DOMAIN outpoints} \ {t}})

(* conflicts leave, t enters; addTransaction. *)
AddTransaction(t, conflicts) ==
    LET kept == Without(outpoints, UNION {Tx[u].ins : u \in conflicts})
    IN  /\ pool' = (pool \ conflicts) \cup {t}
        /\ UpdateUnconfirmed(conflicts, {t})
        /\ outpoints' = [op \in DOMAIN kept \cup Tx[t].ins |->
                            IF op \in Tx[t].ins THEN t ELSE kept[op]]

CalcMinRequiredTxRelayFee(size) ==
    LET minFee == (size * MinRelayTxFee) \div 1000
    IN  IF minFee = 0 /\ MinRelayTxFee > 0 THEN MinRelayTxFee ELSE minFee
FeePerKB(t) == (Tx[t].fee * 1000) \div Tx[t].size
(* What the transactions of P pay together: the units of their fees, counted. *)
FeeUnits(P) == UNION {{t} \X (1..Tx[t].fee) : t \in P}
Fees(P) == Cardinality(FeeUnits(P))

SignalsReplacement(t) == Tx[t].rbf \/ \E u \in TxAncestors(t) : Tx[u].rbf

(* "reject", "replace" or "ok" *)
CheckPoolDoubleSpend(t) ==
    LET conflicts == {outpoints[op] : op \in Tx[t].ins \cap DOMAIN outpoints}
    IN  IF \E u \in conflicts : RejectReplacement \/ ~SignalsReplacement(u) THEN "reject"
        ELSE IF conflicts # {} THEN "replace" ELSE "ok"

TxConflicts(t) ==
    LET direct == {outpoints[op] : op \in Tx[t].ins \cap DOMAIN outpoints}
    IN  direct \cup UNION {TxDescendants(u) : u \in direct}

(* Mutant: only the conflicts themselves must be outbid, not their sum. *)
ValidateReplacement_BestFee(t) ==
    LET conflicts == TxConflicts(t)
    IN  /\ TxAncestors(t) \cap conflicts = {}
        /\ \A u \in conflicts : FeePerKB(t) > FeePerKB(u) /\ Tx[t].fee > Tx[u].fee

ValidateReplacement(t) ==
    LET conflicts == TxConflicts(t)
        parents == {Prev(op) : op \in UNION {Tx[u].ins : u \in conflicts}}
    IN  /\ Cardinality(conflicts) <= MaxReplacementEvictions
        /\ TxAncestors(t) \cap conflicts = {}
        /\ \A u \in conflicts : FeePerKB(t) > FeePerKB(u)
        /\ Tx[t].fee >= Fees(conflicts) + CalcMinRequiredTxRelayFee(Tx[t].size)
        /\ \A op \in Tx[t].ins : Prev(op) \in parents \/ Prev(op) \notin pool

(* The inputs found on the chain or among the pool's outputs. *)
FetchInputUtxos(t) ==
    {op \in Tx[t].ins : op \in Utxos \/ (Prev(op) \in pool /\ op \in Outs(Prev(op)))}

ValidateSegWitDeployment(t) == Tx[t].fails # "witness"
CheckTransactionSanity(t) == Tx[t].fails # "insane"
CheckTransactionInputs(t) == Tx[t].fails # "inputs"
ValidateStandardness(t) == AcceptNonStd \/ Tx[t].fails # "nonstd"
SequenceLockActive(t) == Tx[t].fails # "seqlock"
ValidateSigCost(t) == Tx[t].fails # "sigcost"

(* "ok", "reject", or "penny" when it uses up some of the free limit. *)
ValidateRelayFeeMet(t, isNew, rateLimit) ==
    LET minFee == CalcMinRequiredTxRelayFee(Tx[t].size)
    IN  IF Tx[t].size >= FreeAreaSize /\ Tx[t].fee < minFee THEN "reject"
        ELSE IF Tx[t].fee >= minFee \/ (~isNew /\ ~rateLimit) THEN "ok"
        ELSE IF isNew /\ ~DisableRelayPriority /\ ~Tx[t].prio THEN "reject"
        ELSE IF pennyTotal >= FreeTxRelayLimit THEN "reject"
        ELSE "penny"

(***************************************************************************)
(* checkMempoolAcceptance: the verdict ("reject", "missing" or "accept"),  *)
(* the conflicts to remove, and the free relay allowance it uses, which is *)
(* also used when a later check rejects.                                   *)
(***************************************************************************)
Verdict(v, conflicts, penny) == [verdict |-> v, conflicts |-> conflicts, penny |-> penny]
CheckMempoolAcceptance(t, isNew, rateLimit, rejectDupOrphans) ==
    LET double == CheckPoolDoubleSpend(t)
        relay == ValidateRelayFeeMet(t, isNew, rateLimit)
        used == IF relay = "penny" THEN Tx[t].size ELSE 0
    IN  IF \/ ~ValidateSegWitDeployment(t)
           \/ t \in pool \/ (rejectDupOrphans /\ t \in DOMAIN orphans)
           \/ Tx[t].fails = "small" \/ ~CheckTransactionSanity(t)
           \/ double = "reject"
           \/ Outs(t) \cap Utxos # {}
        THEN Verdict("reject", {}, 0)
        ELSE IF FetchInputUtxos(t) # Tx[t].ins THEN Verdict("missing", {}, 0)
        ELSE IF ~CheckTransactionInputs(t) \/ ~ValidateStandardness(t)
                \/ ~SequenceLockActive(t) \/ ~ValidateSigCost(t) \/ relay = "reject"
        THEN Verdict("reject", {}, 0)
        ELSE IF double = "replace" /\ ~ValidateReplacement(t) THEN Verdict("reject", {}, used)
        ELSE Verdict("accept", IF double = "replace" THEN TxConflicts(t) ELSE {}, used)

Spend(v) == pennyTotal' = pennyTotal + v.penny

(* maybeAcceptTransaction: conflicts leave and t enters, or nothing happens. *)
MaybeAcceptTransaction(t, v) ==
    IF v.verdict = "accept" THEN AddTransaction(t, v.conflicts) ELSE UNCHANGED poolVars

(* The ten minute window of the rate limiter moves on. *)
PennyDecay ==
    /\ pennyTotal > 0
    /\ pennyTotal' = 0
    /\ UNCHANGED <<poolVars, orphans, orphansByPrev, scanDue, po, tip, note, lost, missed>>

----------------------------------------------------------------------------
(***************************************************************************)
(* processOrphans: list is the work list, cand the orphans still to be     *)
(* tried for the output at hand, outs its outputs still to be looked at,   *)
(* done what was accepted.  po = <<>> when it is not running.              *)
(***************************************************************************)
StartProcessOrphans(t) == po' = [list |-> <<t>>, outs |-> {}, cand |-> {}, done |-> {t}]

PopItem ==
    /\ po # <<>> /\ po.cand = {} /\ po.outs = {} /\ po.list # <<>>
    /\ po' = [po EXCEPT !.list = Tail(po.list), !.outs = Outs(Head(po.list))]
    /\ UNCHANGED <<poolVars, orphans, orphansByPrev, pennyTotal, scanDue, tip, note, lost, missed>>

NextOutput ==
    /\ po # <<>> /\ po.cand = {} /\ po.outs # {}
    /\ LET op == CHOOSE o \in po.outs : \A p \in po.outs : o[2] <= p[2]
       IN  po' = [po EXCEPT !.outs = @ \ {op},
                    !.cand = IF op \in DOMAIN orphansByPrev THEN orphansByPrev[op] ELSE {}]
    /\ UNCHANGED <<poolVars, orphans, orphansByPrev, pennyTotal, scanDue, tip, note, lost, missed>>

TryOrphan(t) ==
    LET v == CheckMempoolAcceptance(t, TRUE, TRUE, FALSE)
    IN  /\ po # <<>> /\ t \in po.cand
        /\ MaybeAcceptTransaction(t, v) /\ Spend(v)
        /\ CASE v.verdict = "missing" ->
                    /\ po' = [po EXCEPT !.cand = @ \ {t}]
                    /\ UNCHANGED <<orphans, orphansByPrev>>
             [] v.verdict = "reject" ->
                    /\ po' = [po EXCEPT !.cand = {}]
                    /\ DropOrphans(RemoveOrphan(t, TRUE))
             [] v.verdict = "accept" ->
                    /\ po' = [po EXCEPT !.cand = {}, !.list = Append(@, t), !.done = @ \cup {t}]
                    /\ DropOrphans(RemoveOrphan(t, FALSE))
        /\ UNCHANGED <<scanDue, tip, note, lost, missed>>

(* removeOrphanDoubleSpends for everything accepted; the lock is released. *)
FinishProcessOrphans ==
    /\ po # <<>> /\ po.cand = {} /\ po.outs = {} /\ po.list = <<>>
    /\ DropOrphans(RemoveOrphans({u \in DOMAIN orphans :
            \E t \in po.done : Tx[u].ins \cap Tx[t].ins # {}}))
    /\ po' = <<>>
    /\ UNCHANGED <<poolVars, pennyTotal, scanDue, tip, note, lost, missed>>

----------------------------------------------------------------------------
(* ProcessTransaction: a peer (orphans allowed, rate limited) or an RPC. *)
ProcessTransaction(t, allowOrphan, rateLimit, tag) ==
    LET v == CheckMempoolAcceptance(t, TRUE, rateLimit, TRUE)
    IN  /\ po = <<>>
        /\ MaybeAcceptTransaction(t, v) /\ Spend(v)
        /\ IF v.verdict = "accept" THEN StartProcessOrphans(t) ELSE UNCHANGED po
        /\ IF v.verdict = "missing" /\ allowOrphan THEN AddOrphan(t, tag)
           ELSE UNCHANGED orphanVars
        /\ UNCHANGED <<tip, note, lost, missed>>

(* testmempoolaccept: checks under the read lock, and still uses allowance. *)
TestMempoolAccept(t) ==
    LET v == CheckMempoolAcceptance(t, TRUE, TRUE, TRUE)
    IN  /\ po = <<>> /\ v.penny > 0
        /\ Spend(v)
        /\ UNCHANGED <<poolVars, orphans, orphansByPrev, scanDue, po, tip, note, lost, missed>>

----------------------------------------------------------------------------
(***************************************************************************)
(* The chain and handleBlockchainNotification.  The chain moves, then its  *)
(* caller runs the handler; note holds what is left of it: the kind, the   *)
(* transactions still to be handled, and the next call for the first one.  *)
(* A block that connects while the node is not current (its sync peer has  *)
(* announced a higher one, or its tip is a day old) is passed over: the    *)
(* handler returns at once, whatever the pool holds.                       *)
(***************************************************************************)
Quiet == [kind |-> "none", txs |-> <<>>, call |-> "none"]

ConnectBlock(b) ==
    /\ note = Quiet /\ b \in Blocks /\ Parent[b] = tip
    /\ tip' = b
    /\ \/ /\ note' = [kind |-> "connected", txs |-> BlockTxs[b], call |-> "remove"]
          /\ UNCHANGED missed
       \/ missed' = missed \cup {b} /\ UNCHANGED note
    /\ UNCHANGED <<poolVars, orphans, orphansByPrev, pennyTotal, scanDue, po, lost>>

DisconnectBlock ==
    /\ note = Quiet /\ tip # Root
    /\ tip' = Parent[tip]
    /\ note' = [kind |-> "disconnected", txs |-> BlockTxs[tip], call |-> "accept"]
    /\ missed' = missed \ {tip}
    /\ UNCHANGED <<poolVars, orphans, orphansByPrev, pennyTotal, scanDue, po, lost>>

Handling(kind, call) ==
    note.kind = kind /\ note.txs # <<>> /\ note.call = call /\ po = <<>>
After(call) == note' = [note EXCEPT !.call = call]
(* Mutant: the loop does not advance. *)
NextTx_Again(first) == note' = [note EXCEPT !.call = first]
NextTx(first) == note' = [note EXCEPT !.call = first, !.txs = Tail(note.txs)]

NoteRemoveTransaction ==
    /\ Handling("connected", "remove")
    /\ RemoveTransactions(Removed(Head(note.txs), FALSE))
    /\ After("double")
    /\ UNCHANGED <<orphans, orphansByPrev, pennyTotal, scanDue, po, tip, lost, missed>>

NoteRemoveDoubleSpends ==
    /\ Handling("connected", "double")
    /\ RemoveDoubleSpends(Head(note.txs))
    /\ After("orphan")
    /\ UNCHANGED <<orphans, orphansByPrev, pennyTotal, scanDue, po, tip, lost, missed>>

NoteRemoveOrphan ==
    /\ Handling("connected", "orphan")
    /\ DropOrphans(RemoveOrphan(Head(note.txs), FALSE))
    /\ After("process")
    /\ UNCHANGED <<poolVars, pennyTotal, scanDue, po, tip, lost, missed>>

NoteProcessOrphans ==
    /\ Handling("connected", "process")
    /\ StartProcessOrphans(Head(note.txs))
    /\ NextTx("remove")
    /\ UNCHANGED <<poolVars, orphans, orphansByPrev, pennyTotal, scanDue, tip, lost, missed>>

(* A transaction that is not taken back is removed, with its redeemers, by *)
(* a second call; one whose inputs are missing is not an error.            *)
NoteReaccept ==
    /\ Handling("disconnected", "accept")
    /\ LET t == Head(note.txs)
           v == CheckMempoolAcceptance(t, FALSE, FALSE, TRUE)
       IN  /\ MaybeAcceptTransaction(t, v) /\ Spend(v)
           /\ IF v.verdict = "reject" THEN After("drop") ELSE NextTx("accept")
           /\ lost' = IF v.verdict = "missing" THEN lost \cup {t} ELSE lost \ {t}
    /\ UNCHANGED <<orphans, orphansByPrev, scanDue, po, tip, missed>>

NoteDrop ==
    /\ Handling("disconnected", "drop")
    /\ RemoveTransactions(Removed(Head(note.txs), TRUE))
    /\ NextTx("accept")
    /\ UNCHANGED <<orphans, orphansByPrev, pennyTotal, scanDue, po, tip, lost, missed>>

NoteDone ==
    /\ note # Quiet /\ note.txs = <<>> /\ po = <<>>
    /\ note' = Quiet
    /\ UNCHANGED <<poolVars, orphans, orphansByPrev, pennyTotal, scanDue, po, tip, lost, missed>>

----------------------------------------------------------------------------
Init ==
    /\ pool = {} /\ outpoints = <<>> /\ addrsByTx = <<>> /\ txnsByAddr = <<>>
    /\ orphans = <<>> /\ orphansByPrev = <<>>
    /\ pennyTotal = 0 /\ scanDue = FALSE
    /\ po = <<>> /\ tip = Root /\ note = Quiet /\ lost = {} /\ missed = {}

Handler ==
    \/ NoteRemoveTransaction \/ NoteRemoveDoubleSpends \/ NoteRemoveOrphan
    \/ NoteProcessOrphans \/ NoteReaccept \/ NoteDrop \/ NoteDone
Orphaning == PopItem \/ NextOutput \/ (\E t \in Txs : TryOrphan(t)) \/ FinishProcessOrphans
Callers ==
    \/ \E t \in Txs, tag \in Tags : ProcessTransaction(t, TRUE, TRUE, tag)
    \/ \E t \in Txs, tag \in Tags : ProcessTransaction(t, FALSE, FALSE, tag)
    \/ \E t \in Txs : TestMempoolAccept(t)
    \/ \E tag \in Tags : RemoveOrphansByTag(tag)
Time == ScanIntervalPasses \/ OrphanTTLPasses \/ PennyDecay

Next ==
    \/ Callers \/ Orphaning \/ Handler \/ Time
    \/ \E b \in Blocks : ConnectBlock(b)
    \/ DisconnectBlock

Spec == Init /\ [][Next]_vars
(* The goroutine that holds the pool's lock, and the one that runs the     *)
(* handler, keep running; the lock is handed over fairly (sync.RWMutex).   *)
FairSpec == Spec /\ WF_vars(Orphaning) /\ SF_vars(Handler)

----------------------------------------------------------------------------
TypeOK ==
    /\ pool \subseteq Txs
    /\ DOMAIN outpoints \subseteq OutPoints /\ \A op \in DOMAIN outpoints : outpoints[op] \in Txs
    /\ DOMAIN orphans \subseteq Txs
    /\ \A t \in DOMAIN orphans : orphans[t].tag \in Tags /\ orphans[t].expired \in BOOLEAN
    /\ DOMAIN orphansByPrev \subseteq OutPoints
    /\ \A op \in DOMAIN orphansByPrev : orphansByPrev[op] \subseteq Txs
    /\ pennyTotal \in Nat /\ scanDue \in BOOLEAN
    /\ tip \in Blocks \cup {Root} /\ lost \subseteq Txs /\ missed \subseteq Branch[tip]
    /\ note.kind \in {"none", "connected", "disconnected"} /\ note.txs \in Seq(Txs)
    /\ note.call \in {"none", "remove", "double", "orphan", "process", "accept", "drop"}

(* The spent-outpoint index is exact, so no two transactions of the pool   *)
(* spend the same coin: checkPoolDoubleSpend, txConflicts and the redeemer *)
(* walk of removeTransaction all look the pool up through it.  The         *)
(* unconfirmed address index lists exactly the pool's transactions.        *)
IndexExact ==
    /\ DOMAIN outpoints = UNION {Tx[t].ins : t \in pool}
    /\ \A t \in pool : \A op \in Tx[t].ins : outpoints[op] = t
    /\ addrsByTx = [t \in pool |-> AddressesOf(t)]
    /\ txnsByAddr = [a \in UNION {AddressesOf(t) : t \in pool} |->
                        {t \in pool : a \in AddressesOf(t)}]

(* The previous-output index of the orphan pool is exact and the pool      *)
(* keeps to its limit, whatever is evicted, expired, adopted or dropped    *)
(* with a peer; no orphan is also in the main pool.                        *)
OrphanIndexExact ==
    /\ DOMAIN orphansByPrev = UNION {Tx[t].ins : t \in DOMAIN orphans}
    /\ \A op \in DOMAIN orphansByPrev :
            orphansByPrev[op] = {t \in DOMAIN orphans : op \in Tx[t].ins}
    /\ Cardinality(DOMAIN orphans) <= MaxOrphanTxs
    /\ DOMAIN orphans \cap pool = {}

(* Once the handler is through with a notification, every input of a pool  *)
(* transaction is a coin of the best chain or an output of the pool, or    *)
(* belongs to a transaction that a reorganization took out and whose own   *)
(* inputs were gone by then (the handler does not treat that as an error), *)
(* or was spent by a block that was passed over: the handler's comment     *)
(* (netsync/manager.go:1403-1405) has the mempool empty at that time, and  *)
(* nothing in the code makes it so.                                        *)
MissedTxs == UNION {ToSet(BlockTxs[b]) : b \in missed}
PoolSpendable ==
    note = Quiet => \A t \in pool : \A op \in Tx[t].ins :
        \/ op \in Utxos
        \/ Prev(op) \in pool
        \/ Prev(op) \in lost
        \/ \E u \in MissedTxs : op \in Tx[u].ins

(* Once the handler is through, nothing in the pool is confirmed by the    *)
(* best chain below the first block that was passed over; that block and   *)
(* those above it may confirm what is still in the pool.                   *)
NothingConfirmed ==
    note = Quiet => \A b \in Branch[tip] :
        Branch[b] \cap missed = {} => pool \cap ToSet(BlockTxs[b]) = {}

(* All of this holds at any moment: before and after every call, and       *)
(* between the calls of the handler (mempool.go, mempool/policy.go).       *)
PoolSound == TypeOK /\ IndexExact /\ OrphanIndexExact /\ PoolSpendable /\ NothingConfirmed

(* A replacement pays the pool more than everything it evicts             *)
(* (validateReplacement): only the chain's handler makes the pool poorer.  *)
ReplacementPays == [][note' = note /\ pool' \ pool # {} => Fees(pool') >= Fees(pool)]_vars

(* The handler gets through every notification although it needs the lock  *)
(* once per call, and processOrphans, which it waits for, comes to an end. *)
Settles == []<>(note = Quiet)
=============================================================================
