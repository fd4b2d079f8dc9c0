----------------------------- MODULE ChainStore -----------------------------
(***************************************************************************)
(* The rows of the chain database while it is brought to its current       *)
(* version (blockchain/upgrade.go) and used: the utxo set, one row for     *)
(* each transaction in the old format and one for each output in the new   *)
(* one, moved over in batches that an interrupt or a crash may end; the    *)
(* block index, moved over in one database transaction; the spend journal. *)
(***************************************************************************)
EXTENDS RowFormats

CONSTANTS
    TxIds,          \* transactions: numbers, ordered as their hashes are
    BitmapBits,     \* bits of a byte of the unspentness bitmap
    MaxUtxos,       \* outputs after which a batch ends
    OldSets,        \* utxo sets to start from: outpoint -> entry
    Outpoints,      \* all outpoints there may be
    Slots,          \* outpoints that are written once the database is open
    Entries,        \* entries that are stored once the database is open
    Journals,       \* spent outputs of a block
    Trees,          \* old block indexes: [parent |-> [hash -> hash], tip |-> hash]
    ZeroHash,
    MaxStops, MaxPuts   \* bounds: interrupts and crashes, writes when open

VARIABLES
    v1,             \* old bucket: transaction -> row
    v2,             \* new bucket: outpoint key -> row
    version,        \* version of the utxo set, 0 when there is none
    phase,          \* what the process does
    utxos,          \* the outputs that are stored: outpoint -> entry
    tree,           \* old block index
    blockIndex,     \* new block index: hash -> [height, valid]
    journal,        \* row of the spend journal, with what was put there
    stops, puts

vars == <<v1, v2, version, phase, utxos, tree, blockIndex, journal, stops, puts>>

NoRows == [x \in {} |-> 0]

-----------------------------------------------------------------------------
(* The old format: version, height, header code, bitmap, outputs *)

\* output i of a transaction that is in the bitmap: byte and bit
BitmapByte(outs, b) == SumSet({2^j : j \in {k \in 0..(BitmapBits - 1) : 2 + b * BitmapBits + k \in outs}})

BitmapLen(outs) ==
    LET last == Max(outs) IN IF last < 2 THEN 0 ELSE (last - 2) \div BitmapBits + 1

\* how earlier versions wrote the unspent outputs of a transaction
SerializeUtxoEntryV0(t, set) ==
    LET ops == {op \in DOMAIN set : op[1] = t}
        outs == {op[2] : op \in ops}
        any == set[CHOOSE op \in ops : TRUE]
        low == (IF 0 \in outs THEN 2 ELSE 0) + (IF 1 \in outs THEN 4 ELSE 0)
        bytes == BitmapLen(outs)
        code == (IF any.coinbase THEN 1 ELSE 0) + low + 8 * (IF low = 0 THEN bytes - 1 ELSE bytes)
        order == SetToSortSeq(outs, <)
    IN  PutVLQ(1) \o PutVLQ(any.height) \o PutVLQ(code)
        \o [b \in 1..bytes |-> BitmapByte(outs, b - 1)]
        \o FlattenSeq([i \in DOMAIN order |-> PutCompressedTxOut(OutOf(set[<<t, order[i]>>]))])

\* number of bytes of the bitmap
BitmapBytes(code) == code \div 8 + (IF (code \div 2) % 4 = 0 THEN 1 ELSE 0)

\* indexes of the unspent outputs in ascending order
OutputIndexes(code, bitmap) ==
    SelectSeq(<<0, 1>>, LAMBDA i : (code \div 2^(i + 1)) % 2 = 1)
    \o SetToSortSeq({2 + (b - 1) * BitmapBits + j : <<b, j>> \in
            {x \in (DOMAIN bitmap) \X (0..(BitmapBits - 1)) : (bitmap[x[1]] \div 2^x[2]) % 2 = 1}}, <)

\* count outputs that follow each other
RECURSIVE DecodeTxOuts(_, _)
DecodeTxOuts(count, bytes) ==
    IF count = 0 THEN <<>>
    ELSE LET first == DecodeCompressedTxOut(bytes)
         IN  IF first.err THEN <<>> ELSE <<first.out>> \o DecodeTxOuts(count - 1, first.rest)

\* the entries of a row: output index -> entry
EntriesOf(header, idx, outs) ==
    [i \in ToSet(idx) |-> EntryOf(header, outs[SelectInSeq(idx, LAMBDA j : j = i)])]

IndexedEntries(header, idx, rest) == EntriesOf(header, idx, DecodeTxOuts(Len(idx), rest))

AfterHeights(height, code, rest) ==
    IndexedEntries(height * 2 + (code % 2), OutputIndexes(code, SubSeq(rest, 1, BitmapBytes(code))),
                   Rest(rest, BitmapBytes(code)))

AfterVersion(bytes) ==
    AfterHeights(DeserializeVLQ(bytes), DeserializeVLQ(AfterVLQ(bytes)), AfterVLQ(AfterVLQ(bytes)))

DeserializeUtxoEntryV0(row) == AfterVersion(AfterVLQ(row))

-----------------------------------------------------------------------------
(* The upgrade *)

Rows1 == SetToSortSeq(DOMAIN v1, <)

\* how many rows a batch takes when nothing interrupts it
BatchRows ==
    LET size == [t \in DOMAIN v1 |-> Cardinality(DOMAIN DeserializeUtxoEntryV0(v1[t]))]
        order == Rows1
    IN  Max({0} \cup {k \in DOMAIN order : MapThenSumSet(LAMBDA i : size[order[i]], 1..(k - 1)) < MaxUtxos})

\* the rows of the new format for an old row
NewRows(t) ==
    LET entries == DeserializeUtxoEntryV0(v1[t])
    IN  [key \in {OutpointKey(<<t, i>>) : i \in DOMAIN entries} |->
            SerializeUtxoEntry(entries[CHOOSE i \in DOMAIN entries : OutpointKey(<<t, i>>) = key])]

\* mutant: the old rows go before the new ones are there
Migrate_DeleteFirst(k) ==
    /\ v2' = v2
    /\ v1' = [t \in DOMAIN v1 \ {Rows1[i] : i \in 1..k} |-> v1[t]]

\* one database transaction
Migrate(k) ==
    /\ v2' = FoldSet(LAMBDA i, rows : NewRows(Rows1[i]) @@ rows, v2, 1..k)
    /\ v1' = [t \in DOMAIN v1 \ {Rows1[i] : i \in 1..k} |-> v1[t]]

\* maybeUpgradeDbBuckets
Open ==
    /\ phase = "loaded"
    /\ version' = IF version = 0 THEN 1 ELSE version
    /\ phase' = IF version' < 2 THEN "upgrading" ELSE "open"
    /\ UNCHANGED <<v1, v2, utxos, tree, blockIndex, journal, stops, puts>>

\* doBatch to its end; a batch without outputs is the last one
Batch ==
    /\ phase = "upgrading"
    /\ Migrate(BatchRows)
    /\ phase' = IF BatchRows = 0 THEN "finishing" ELSE "upgrading"
    /\ UNCHANGED <<version, utxos, tree, blockIndex, journal, stops, puts>>

\* the interrupt is seen after a row, what is done is committed
Interrupt ==
    /\ phase = "upgrading"
    /\ stops < MaxStops
    /\ \E k \in {Min({1, BatchRows})} \cup 1..BatchRows : Migrate(k)
    /\ phase' = "down"
    /\ stops' = stops + 1
    /\ UNCHANGED <<version, utxos, tree, blockIndex, journal, puts>>

Crash ==
    /\ phase # "down"
    /\ stops < MaxStops
    /\ phase' = "down"
    /\ stops' = stops + 1
    /\ UNCHANGED <<v1, v2, version, utxos, tree, blockIndex, journal, puts>>

Finish ==
    /\ phase = "finishing"
    /\ v1' = NoRows
    /\ version' = 2
    /\ phase' = "open"
    /\ UNCHANGED <<v2, utxos, tree, blockIndex, journal, stops, puts>>

-----------------------------------------------------------------------------
(* migrateBlockIndex *)

\* readBlockTree and determineBlockHeights: level by level from the zero hash,
\* -1 for what is not reached
HeightsFrom(parent) ==
    LET level[h \in Nat] == IF h = 0 THEN {b \in DOMAIN parent : parent[b] = ZeroHash}
                            ELSE {b \in DOMAIN parent : parent[b] \in level[h - 1]}
    IN  [b \in DOMAIN parent |->
            LET hs == {h \in 0..Cardinality(DOMAIN parent) : b \in level[h]}
            IN  IF hs = {} THEN -1 ELSE Max(hs)]

\* determineMainChainBlocks
MainChain(parent, tip) ==
    LET down[b \in DOMAIN parent] == IF parent[b] = ZeroHash THEN {b} ELSE {b} \cup down[parent[b]]
    IN  down[tip]

\* initChainState: migrateBlockIndex when the new bucket is missing.  A block
\* without a way back to genesis is an error; nothing is changed then, and the
\* error is not passed on.
InitChainState ==
    /\ phase = "down"
    /\ phase' = "loaded"
    /\ \E heights \in {HeightsFrom(tree.parent)}, main \in {MainChain(tree.parent, tree.tip)} :
            blockIndex' = IF blockIndex # NoRows \/ -1 \in {heights[b] : b \in DOMAIN heights} THEN blockIndex
                          ELSE [b \in DOMAIN tree.parent |-> [height |-> heights[b], valid |-> b \in main]]
    /\ UNCHANGED <<v1, v2, version, utxos, tree, journal, stops, puts>>

-----------------------------------------------------------------------------
(* The open database *)

DbPutUtxoEntry(op, e) ==
    /\ phase = "open" /\ puts < MaxPuts
    /\ v2' = (OutpointKey(op) :> SerializeUtxoEntry(e)) @@ v2
    /\ utxos' = (op :> e) @@ utxos
    /\ puts' = puts + 1
    /\ UNCHANGED <<v1, version, phase, tree, blockIndex, journal, stops>>

DbDeleteUtxoEntry(op) ==
    /\ phase = "open" /\ puts < MaxPuts
    /\ v2' = [k \in DOMAIN v2 \ {OutpointKey(op)} |-> v2[k]]
    /\ utxos' = [o \in DOMAIN utxos \ {op} |-> utxos[o]]
    /\ puts' = puts + 1
    /\ UNCHANGED <<v1, version, phase, tree, blockIndex, journal, stops>>

DbPutSpendJournalEntry(stxos) ==
    /\ phase = "open" /\ puts < MaxPuts
    /\ journal' = [row |-> SerializeSpendJournalEntry(stxos), stxos |-> stxos]
    /\ puts' = puts + 1
    /\ UNCHANGED <<v1, v2, version, phase, utxos, tree, blockIndex, stops>>

\* the entry a cursor finds from the key of output zero on
DbFetchUtxoEntryByHash(t) ==
    LET seek == {k \in DOMAIN v2 : ~ KeyBefore(k, OutpointKey(<<t, 0>>))}
        first == CHOOSE k \in seek : \A l \in seek : l = k \/ KeyBefore(k, l)
    IN  IF seek = {} \/ (seek # {} /\ first[1] # t) THEN Error ELSE DeserializeUtxoEntry(v2[first])

-----------------------------------------------------------------------------
Init ==
    /\ utxos \in OldSets
    /\ v1 = [t \in {op[1] : op \in DOMAIN utxos} |-> SerializeUtxoEntryV0(t, utxos)]
    /\ v2 = NoRows
    /\ version = 0 /\ phase = "down"
    /\ tree \in Trees /\ blockIndex = NoRows
    /\ journal = [row |-> <<>>, stxos |-> <<>>]
    /\ stops = 0 /\ puts = 0

Next ==
    \/ InitChainState \/ Open \/ Batch \/ Interrupt \/ Crash \/ Finish
    \/ \E op \in Slots : DbDeleteUtxoEntry(op) \/ \E e \in Entries : DbPutUtxoEntry(op, e)
    \/ \E stxos \in Journals : DbPutSpendJournalEntry(stxos)

Spec == Init /\ [][Next]_vars

-----------------------------------------------------------------------------
(* Properties. *)

\* the utxo set as the rows of a bucket give it
Decoded1 ==
    FoldSet(LAMBDA t, set : LET entries == DeserializeUtxoEntryV0(v1[t])
                            IN  [op \in {<<t, i>> : i \in DOMAIN entries} |-> entries[op[2]]] @@ set,
            NoRows, DOMAIN v1)
Decoded2 ==
    LET entries == [key \in DOMAIN v2 |-> DeserializeUtxoEntry(v2[key])]
    IN  [op \in {o \in Outpoints : OutpointKey(o) \in DOMAIN v2 /\ ~ entries[OutpointKey(o)].err} |->
            entries[OutpointKey(op)].entry]

\* Both buckets together are the utxo set, whatever interrupts the upgrade and
\* whatever is written later: no output is lost, made twice or changed by the
\* formats (upgradeUtxoSetToV2, serializeUtxoEntry).
StoreExact ==
    /\ Decoded1 @@ Decoded2 = utxos
    /\ {OutpointKey(op) : op \in DOMAIN utxos} = DOMAIN v2 \cup {OutpointKey(op) : op \in DOMAIN Decoded1}
    /\ DOMAIN Decoded1 \cap DOMAIN Decoded2 = {}

\* A cursor at output zero of a transaction finds an output of it whenever
\* there is one (dbFetchUtxoEntryByHash), because keys sort like outpoints.
FoundByHash ==
    \A t \in TxIds :
        LET idx == {op[2] : op \in {o \in DOMAIN utxos : o[1] = t /\ OutpointKey(o) \in DOMAIN v2}}
            found == DbFetchUtxoEntryByHash(t)
        IN  IF idx = {} THEN found.err ELSE ~ found.err /\ found.entry = utxos[<<t, Min(idx)>>]

\* The journal of a block gives back what the block spent, in its order
\* (deserializeSpendJournalEntry), and fills the space computed for it.
JournalExact ==
    /\ DeserializeSpendJournalEntry(journal.row, Len(journal.stxos)) = [err |-> FALSE, stxos |-> journal.stxos]
    /\ Len(journal.row) = MapThenSumSet(LAMBDA i : SpentTxOutSerializeSize(journal.stxos[i]), DOMAIN journal.stxos)

\* The new block index has the height of every block, and marks the blocks of
\* the chain of the tip as valid (migrateBlockIndex); a restart does not redo it.
IndexMigrated ==
    blockIndex # NoRows =>
        /\ DOMAIN blockIndex = DOMAIN tree.parent
        /\ \A b \in DOMAIN blockIndex : tree.parent[b] # ZeroHash =>
                /\ blockIndex[b].height = blockIndex[tree.parent[b]].height + 1
                /\ blockIndex[b].valid => blockIndex[tree.parent[b]].valid
        /\ blockIndex[tree.tip].valid
        /\ \A b, c \in DOMAIN blockIndex : blockIndex[b].valid /\ blockIndex[c].valid
                                           /\ blockIndex[b].height = blockIndex[c].height => b = c
=============================================================================
