------------------------------ MODULE Indexers ------------------------------
(***************************************************************************)
(* blockchain/indexers: the optional indexes by transaction, by address    *)
(* and of committed filters, and the manager that keeps them in step with  *)
(* the chain.  What a database transaction writes is one step; the process *)
(* may stop between two of them.  An index that is not enabled when the    *)
(* process runs misses what the chain does, and Init has to catch up.      *)
(*                                                                         *)
(* The chain connects and disconnects blocks as it likes (module           *)
(* BlockChain says when); it removes the spend journal entry of a block it *)
(* disconnects.                                                            *)
(***************************************************************************)
EXTENDS BlockTree, AddrLevels

CONSTANTS
    Txs,          \* transactions, coinbases included
    TxsOf,        \* TxsOf[b]: the transactions of b, in order
    Spending,     \* blocks with transactions that have inputs
    Addrs,        \* address keys
    AddrsOf,      \* AddrsOf[t]: the addresses that t pays to or spends from
    Increment,    \* the gap of the forward scan in TxIndex.Init
    MaxStarts,    \* bound on the number of process starts
    MaxDrops,     \* bound on the number of dropped indexes
    NoTip         \* an index without an entry among the tips

Indexes == {"tx", "addr", "cf"}
Order == <<"tx", "addr", "cf">>
IDs == 0..(Cardinality(Blocks) + 1)

\* No transaction is on a branch twice (checkBIP0030, and the height in every
\* coinbase).
IndexAssumption ==
    /\ IsFiniteSet(Blocks) /\ TxsOf \in [Blocks -> Seq(Txs)] /\ AddrsOf \in [Txs -> SUBSET Addrs]
    /\ Spending \subseteq Blocks \ {Genesis} /\ NoTip \notin Blocks \cup {NoBlock}
    /\ \A b \in Blocks : \A a \in Anc[b] \ {b} : ToSet(TxsOf[a]) \cap ToSet(TxsOf[b]) = {}
    /\ Increment \in Nat \ {0} /\ MaxStarts \in Nat /\ MaxDrops \in Nat

VARIABLES
    best,     \* tip of the main chain
    journal,  \* blocks with a spend journal entry
    disk,     \* the indexes (see TypeOK)
    run       \* the process: its phase, and what it keeps in memory

vars == <<best, journal, disk, run>>

Phases == {"stopped", "drops", "create", "rollback", "catchup", "running", "failed",
           "dropKeys", "dropBucket", "dropIDs", "dropTip"}

TypeOK ==
    /\ best \in Blocks /\ journal \subseteq Blocks
    /\ disk.tip \in [Indexes -> Blocks \cup {NoBlock, NoTip}]
    /\ disk.drop \subseteq Indexes /\ disk.bucket \subseteq Indexes
    /\ disk.ids \in BOOLEAN
    /\ disk.tx \in [Txs -> IDs] /\ disk.idOf \in [Blocks -> IDs]
    /\ disk.hashOf \in [IDs \ {0} -> Blocks \cup {NoBlock}]
    /\ disk.header \in [Blocks -> SUBSET Blocks]
    /\ run.phase \in Phases /\ run.enabled \subseteq Indexes
    /\ run.cur \in IDs
    /\ run.height \in [Indexes -> {-1} \cup {Height[b] : b \in Blocks}]
    /\ run.dropping \in Seq(Indexes) /\ run.starts \in 0..MaxStarts /\ run.drops \in 0..MaxDrops

-----------------------------------------------------------------------------
(* The three indexers.  d is a state of disk, m of run. *)

\* TxIndex.Init: a forward scan for an unused block ID, then a binary search
\* for the highest used one.
HighestID(hashOf) ==
    LET used(i) == i \in DOMAIN hashOf /\ hashOf[i] # NoBlock
        unknown == Min({i \in {1 + k * Increment : k \in IDs} : ~ used(i)})
        search[r \in Nat \X Nat] ==  \* from <<highestKnown, nextUnknown>>
            IF r[1] + 1 = r[2] THEN r[1]
            ELSE LET mid == (r[1] + r[2]) \div 2
                 IN  IF used(mid) THEN search[<<mid, r[2]>>] ELSE search[<<r[1], mid>>]
    IN  IF unknown = 1 THEN 0 ELSE search[<<unknown - Increment, unknown>>]

AddTxIndexEntries(d, b, id) ==
    [d EXCEPT !.tx = [t \in Txs |-> IF t \in ToSet(TxsOf[b]) THEN id ELSE @[t]]]
PutBlockIDIndexEntry(d, b, id) == [d EXCEPT !.idOf[b] = id, !.hashOf[id] = b]

\* mutant: the entries of the transactions stay
RemoveTxIndexEntries_Keep(d, b) == d

RemoveTxIndexEntries(d, b) == AddTxIndexEntries(d, b, 0)

RemoveBlockIDIndexEntry(d, b) == [d EXCEPT !.idOf[b] = 0, !.hashOf[d.idOf[b]] = NoBlock]

TxConnectBlock(d, m, b) ==
    PutBlockIDIndexEntry(AddTxIndexEntries(d, b, m.cur + 1), b, m.cur + 1)

TxDisconnectBlock(d, b) == RemoveBlockIDIndexEntry(RemoveTxIndexEntries(d, b), b)

\* indexBlock: the transactions of b that involve the address, in order
IndexBlock(b, a) == SelectSeq(TxsOf[b], LAMBDA t : a \in AddrsOf[t])

AddrConnectBlock(d, b) ==
    [d EXCEPT !.addr = [a \in Addrs |->
        FoldLeft(LAMBDA lv, t : PutAddrIndexEntry(lv, <<d.idOf[b], t>>), @[a], IndexBlock(b, a))]]

AddrDisconnectBlock(d, b) ==
    [d EXCEPT !.addr = [a \in Addrs |-> RemoveAddrIndexEntries(@[a], Len(IndexBlock(b, a)))]]

\* storeFilter: the header of a filter commits to the one of the block before,
\* and so to all the blocks under it.
CfConnectBlock(d, b) ==
    [d EXCEPT !.header[b] = {b} \cup (IF b = Genesis THEN {} ELSE d.header[Parent[b]])]

CfDisconnectBlock(d, b) == [d EXCEPT !.header[b] = {}]

Prev(b) == IF b = Genesis THEN NoBlock ELSE Parent[b]

\* dbIndexConnectBlock, for one index; cur is a field of TxIndex in memory.
IndexConnect(s, i, b) ==
    [d |-> [CASE i = "tx" -> TxConnectBlock(s.d, s.m, b)
              [] i = "addr" -> AddrConnectBlock(s.d, b)
              [] i = "cf" -> CfConnectBlock(s.d, b) EXCEPT !.tip[i] = b],
     m |-> IF i = "tx" THEN [s.m EXCEPT !.cur = @ + 1] ELSE s.m]

IndexDisconnect(s, i, b) ==
    [d |-> [CASE i = "tx" -> TxDisconnectBlock(s.d, b)
              [] i = "addr" -> AddrDisconnectBlock(s.d, b)
              [] i = "cf" -> CfDisconnectBlock(s.d, b) EXCEPT !.tip[i] = Prev(b)],
     m |-> IF i = "tx" THEN [s.m EXCEPT !.cur = @ - 1] ELSE s.m]

\* The assertions at the head of the two functions, and what the address
\* index looks up.
CanConnect(s, i, b) ==
    s.d.tip[i] = Prev(b) /\ (i = "addr" => s.d.idOf[b] # 0)
CanDisconnect(s, i, b) == s.d.tip[i] = b

\* Manager.ConnectBlock and DisconnectBlock: the enabled indexes in order, so
\* that the address index finds the number that the transaction index gives.
ConnectEnabled(s, i, b) == IF i \in s.m.enabled THEN IndexConnect(s, i, b) ELSE s
ConnectAll(s, b) == ConnectEnabled(ConnectEnabled(ConnectEnabled(s, "tx", b), "addr", b), "cf", b)

DisconnectEnabled(s, i, b) == IF i \in s.m.enabled THEN IndexDisconnect(s, i, b) ELSE s
DisconnectAll(s, b) == DisconnectEnabled(DisconnectEnabled(DisconnectEnabled(s, "tx", b), "addr", b), "cf", b)

\* FetchSpendJournal fails for a block with inputs that has no entry.
JournalThere(b) == b \in Spending => b \in journal

-----------------------------------------------------------------------------
(* Manager.Init, one database transaction per step. *)

Fail == run' = [run EXCEPT !.phase = "failed"] /\ UNCHANGED <<best, journal, disk>>

Start(on) ==
    /\ run.phase = "stopped" /\ run.starts < MaxStarts
    /\ "addr" \in on => "tx" \in on
    /\ run' = [run EXCEPT !.phase = IF on = {} THEN "running" ELSE "drops",
                          !.enabled = on, !.starts = @ + 1]
    /\ UNCHANGED <<best, journal, disk>>

ToDrop == {k \in 1..3 : Order[k] \in run.enabled \cap disk.drop}

\* maybeFinishDrops: the enabled indexes with a drop in progress.  dropIndex
\* opens the bucket it is to empty: there is none if the drop got that far.
MaybeFinishDrops ==
    /\ run.phase = "drops"
    /\ IF ToDrop = {} THEN run' = [run EXCEPT !.phase = "create"] /\ UNCHANGED <<best, journal, disk>>
       ELSE LET i == Order[Min(ToDrop)]
            IN  IF i \notin disk.bucket THEN Fail
                ELSE run' = [run EXCEPT !.phase = "dropKeys", !.dropping = <<i>>]
                     /\ UNCHANGED <<best, journal, disk>>

\* maybeCreateIndexes, and Init of every indexer
MaybeCreateIndexes ==
    /\ run.phase = "create"
    /\ LET new == {i \in run.enabled : disk.tip[i] = NoTip}
       IN  /\ disk' = [disk EXCEPT
                !.tip = [i \in Indexes |-> IF i \in new THEN NoBlock ELSE @[i]],
                !.bucket = @ \cup new, !.ids = @ \/ "tx" \in new]
           /\ run' = [run EXCEPT !.phase = "rollback", !.cur = HighestID(disk.hashOf)]
    /\ UNCHANGED <<best, journal>>

Orphaned == {k \in 1..3 : /\ Order[k] \in run.enabled
                          /\ disk.tip[Order[k]] # NoBlock
                          /\ disk.tip[Order[k]] \notin Anc[best]}

TipHeight(i) == IF disk.tip[i] \in Blocks THEN Height[disk.tip[i]] ELSE -1

\* Tips that are not on the main chain are taken back, last index first.
\* Then the heights are read that the catch-up starts from.
RollbackOrphaned ==
    /\ run.phase = "rollback"
    /\ IF Orphaned = {}
       THEN /\ run' = [run EXCEPT !.phase = "catchup", !.height = [i \in Indexes |-> TipHeight(i)]]
            /\ UNCHANGED disk
       ELSE LET i == Order[Max(Orphaned)]
                s == IndexDisconnect([d |-> disk, m |-> run], i, disk.tip[i])
            IN  IF JournalThere(disk.tip[i]) THEN disk' = s.d /\ run' = s.m
                ELSE run' = [run EXCEPT !.phase = "failed"] /\ UNCHANGED disk
    /\ UNCHANGED <<best, journal>>

Behind(h) == {k \in 1..3 : Order[k] \in run.enabled /\ run.height[Order[k]] < h}

Missing == {h \in 0..Height[best] : Behind(h) # {}}

NextBehind(h) == Order[Min(Behind(h))]

\* The catch-up loop: the lowest height some index lacks, in index order.
CatchUp ==
    /\ run.phase = "catchup"
    /\ IF Missing = {} THEN run' = [run EXCEPT !.phase = "running"] /\ UNCHANGED disk
       ELSE LET h == Min(Missing)
                i == NextBehind(h)
                b == CHOOSE a \in Anc[best] : Height[a] = h
                s == IndexConnect([d |-> disk, m |-> run], i, b)
            IN  IF CanConnect([d |-> disk, m |-> run], i, b) /\ (i = "tx" \/ JournalThere(b))
                THEN disk' = s.d /\ run' = [s.m EXCEPT !.height[i] = h]
                ELSE run' = [run EXCEPT !.phase = "failed"] /\ UNCHANGED disk
    /\ UNCHANGED <<best, journal>>

-----------------------------------------------------------------------------
(* The running node. *)

Before == [d |-> disk, m |-> run]

\* Manager.ConnectBlock and DisconnectBlock, in the database transaction of
\* BlockChain.connectBlock and disconnectBlock.
ConnectBlock(b) ==
    /\ run.phase = "running" /\ b # Genesis /\ Parent[b] = best
    /\ disk' = ConnectAll(Before, b).d /\ run' = ConnectAll(Before, b).m
    /\ best' = b /\ journal' = journal \cup {b}

DisconnectBlock ==
    /\ run.phase = "running" /\ best # Genesis
    /\ \A i \in run.enabled : CanDisconnect(Before, i, best)
    /\ disk' = DisconnectAll(Before, best).d /\ run' = DisconnectAll(Before, best).m
    /\ best' = Parent[best] /\ journal' = journal \ {best}

\* A crash, an interrupt or a shutdown; what is in memory is lost.
Halt ==
    /\ run.phase \notin {"stopped", "failed"}
    /\ run' = [run EXCEPT !.phase = "stopped", !.enabled = {}, !.cur = 0,
                          !.height = [i \in Indexes |-> -1], !.dropping = <<>>]
    /\ UNCHANGED <<best, journal, disk>>

-----------------------------------------------------------------------------
(* dropIndex: mark, empty the bucket, delete it, forget the tip. *)

\* DropTxIndex drops the address index, which relies on it, first.
DropIndex(i) ==
    /\ run.phase = "stopped" /\ run.drops < MaxDrops
    /\ run.starts < MaxStarts
    /\ LET there == (IF i = "tx" /\ disk.tip["addr"] # NoTip THEN <<"addr">> ELSE <<>>)
                    \o (IF disk.tip[i] # NoTip THEN <<i>> ELSE <<>>)
       IN  /\ there # <<>>
           /\ IF \E j \in ToSet(there) : j \notin disk.bucket
              THEN run' = [run EXCEPT !.phase = "failed"] /\ UNCHANGED disk
              ELSE /\ run' = [run EXCEPT !.phase = "dropKeys", !.dropping = there, !.drops = @ + 1]
                   /\ disk' = [disk EXCEPT !.drop = @ \cup {Head(there)}]
    /\ UNCHANGED <<best, journal>>

DropKeys ==
    /\ run.phase = "dropKeys"
    /\ LET i == Head(run.dropping)
       IN  disk' = CASE i = "tx" -> [disk EXCEPT !.tx = [t \in Txs |-> 0]]
                     [] i = "addr" -> [disk EXCEPT !.addr = [a \in Addrs |-> NoEntries]]
                     [] i = "cf" -> [disk EXCEPT !.header = [b \in Blocks |-> {}]]
    /\ run' = [run EXCEPT !.phase = "dropBucket"]
    /\ UNCHANGED <<best, journal>>

DropBucket ==
    /\ run.phase = "dropBucket"
    /\ disk' = [disk EXCEPT !.bucket = @ \ {Head(run.dropping)}]
    /\ run' = [run EXCEPT !.phase = IF Head(run.dropping) = "tx" THEN "dropIDs" ELSE "dropTip"]
    /\ UNCHANGED <<best, journal>>

DropBlockIDIndex ==
    /\ run.phase = "dropIDs"
    /\ disk' = [disk EXCEPT !.ids = FALSE, !.idOf = [b \in Blocks |-> 0],
                            !.hashOf = [i \in IDs \ {0} |-> NoBlock]]
    /\ run' = [run EXCEPT !.phase = "dropTip"]
    /\ UNCHANGED <<best, journal>>

DropTip ==
    /\ run.phase = "dropTip"
    /\ LET rest == Tail(run.dropping)
       IN  /\ disk' = [disk EXCEPT !.tip[Head(run.dropping)] = NoTip,
                          !.drop = (@ \ {Head(run.dropping)}) \cup (IF rest = <<>> THEN {} ELSE {Head(rest)})]
           /\ run' = [run EXCEPT !.dropping = rest,
                        !.phase = IF rest # <<>> THEN "dropKeys"
                                  ELSE IF run.enabled # {} THEN "drops" ELSE "stopped"]
    /\ UNCHANGED <<best, journal>>

-----------------------------------------------------------------------------
Init ==
    /\ best = Genesis /\ journal = {}
    /\ disk = [tip |-> [i \in Indexes |-> NoTip], drop |-> {}, bucket |-> {}, ids |-> FALSE,
               tx |-> [t \in Txs |-> 0], idOf |-> [b \in Blocks |-> 0],
               hashOf |-> [i \in IDs \ {0} |-> NoBlock],
               addr |-> [a \in Addrs |-> NoEntries], header |-> [b \in Blocks |-> {}]]
    /\ run = [phase |-> "stopped", enabled |-> {}, cur |-> 0, height |-> [i \in Indexes |-> -1],
              dropping |-> <<>>, starts |-> 0, drops |-> 0]

InitStep == MaybeFinishDrops \/ MaybeCreateIndexes \/ RollbackOrphaned \/ CatchUp
DropStep == DropKeys \/ DropBucket \/ DropBlockIDIndex \/ DropTip

Next ==
    \/ \E on \in SUBSET Indexes : Start(on)
    \/ MaybeFinishDrops \/ MaybeCreateIndexes \/ RollbackOrphaned \/ CatchUp
    \/ \E b \in Blocks : ConnectBlock(b)
    \/ DisconnectBlock
    \/ Halt
    \/ \E i \in Indexes : DropIndex(i)
    \/ DropKeys \/ DropBucket \/ DropBlockIDIndex \/ DropTip

Spec == Init /\ [][Next]_vars

\* A start that is not interrupted gets to its end.
FairSpec == Spec /\ WF_vars(InitStep) /\ WF_vars(DropStep)

-----------------------------------------------------------------------------
(* Properties. *)

Serving(i) == run.phase = "running" /\ i \in run.enabled

\* Whatever was missed, interrupted, rolled back or dropped before: an index
\* of a running node has the tip of the chain.
TipsAtBest == \A i \in Indexes : Serving(i) => disk.tip[i] = best

\* The transaction index leads from every transaction of the main chain to
\* the block it is in, and from no other transaction anywhere
\* (dbFetchTxIndexEntry).
TxIndexExact ==
    Serving("tx") =>
        \A t \in Txs :
            LET holders == {b \in Anc[best] : t \in ToSet(TxsOf[b])}
            IN  IF disk.tx[t] = 0 THEN holders = {} ELSE holders = {disk.hashOf[disk.tx[t]]}

\* The block numbers in use have no gap and end at curBlockID: the binary
\* search of TxIndex.Init finds the highest one only then.
IDsDense ==
    Serving("tx") =>
        \A i \in IDs \ {0} : (disk.hashOf[i] # NoBlock) <=> (i <= run.cur)

\* The address index lists the transactions of every address in the order of
\* the main chain, each with the number of its block, and follows the rules of
\* the level scheme.
AddrIndexExact ==
    Serving("addr") =>
        \A a \in Addrs :
            LET chain == SetToSortSeq(Anc[best], LAMBDA x, y : Height[x] < Height[y])
                listed == FlattenSeq([k \in DOMAIN chain |->
                    LET own == IndexBlock(chain[k], a)
                    IN  [j \in DOMAIN own |-> <<disk.idOf[chain[k]], own[j]>>]])
            IN  Entries(disk.addr[a]) = listed /\ LevelRules(disk.addr[a])

\* A filter header commits to the filters of all blocks under it: those of
\* the main chain are complete, and no orphaned block has one.
FilterHeadersExact ==
    Serving("cf") =>
        \A b \in Blocks : disk.header[b] = IF b \in Anc[best] THEN Anc[b] ELSE {}

\* The indexes follow the chain (Manager.Init, ConnectBlock, DisconnectBlock).
IndexesFollow == TypeOK /\ TipsAtBest /\ TxIndexExact /\ IDsDense /\ FilterHeadersExact

\* What a start needs: the journal has the blocks by which an enabled index has
\* to be taken back, and a drop that is to be finished finds its bucket.
Resumable ==
    \A i \in run.enabled :
        /\ i \in disk.drop => i \in disk.bucket
        /\ disk.tip[i] \in Blocks => \A b \in Anc[disk.tip[i]] \ Anc[best] : JournalThere(b)

\* If it has what it needs, a start ends with the node running, unless the
\* process is stopped again (Manager.Init).
StartsUp == run.phase \in {"drops", "create", "rollback", "catchup"} /\ Resumable ~> run.phase \in {"running", "stopped"}

\* What the comments of the code promise: orphaned tips are rolled back
\* (manager.go:273-276), a drop that was stopped is resumed (549-551), whenever
\* that was.  The code does not keep it, and no run checks it: disconnecting a
\* block removes its journal entry, and the bucket is deleted in a transaction
\* before the one that forgets the tip.
StartsAlways == run.phase # "failed"

\* These are the only ways in which StartsAlways is broken: the tip of an index is
\* on a branch the chain has left, and the journal no longer has its block; or a
\* drop was interrupted between its last two transactions.
FailureExplained ==
    run.phase = "failed" =>
        \/ \E i \in Indexes : /\ disk.tip[i] \in Spending \ Anc[best]
                              /\ disk.tip[i] \notin journal
        \/ \E i \in Indexes : disk.tip[i] # NoTip /\ i \notin disk.bucket
=============================================================================
