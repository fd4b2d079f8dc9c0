----------------------------- MODULE UtxoCache -----------------------------
(***************************************************************************)
(* blockchain/utxocache.go and the parts of chain.go that use it: a write- *)
(* back cache of unspent outputs over the database, flushed only now and   *)
(* then, with a marker on disk (the utxo state consistency hash) saying up *)
(* to which block the flushed set is complete, and a replay of the blocks  *)
(* after the marker when the node starts.                                  *)
(*                                                                         *)
(* One step is one stretch of the code that ends in a database commit or   *)
(* in the release of the chain lock, because those are the points at which *)
(* a crash or another goroutine can observe the state.  Which blocks are   *)
(* connected or disconnected is chosen freely (module BlockChain models    *)
(* the selection).                                                         *)
(***************************************************************************)
EXTENDS UtxoModel

CONSTANTS
    PruneDepth, \* blocks kept below the tip by a prune; above every
                \* height of the tree when the node does not prune
    Concurrent  \* TRUE: another goroutine may run a chain operation while
                \* connectBlock has released the chain lock to notify

ASSUME CacheAssumption ==
    /\ PruneDepth \in Nat
    /\ Concurrent \in BOOLEAN

VARIABLES
    \* On disk.
    db,         \* the utxo set bucket
    dbState,    \* utxo state consistency hash; NoBlock: never written
    best,       \* the best chain state; also the in-memory tip
    journal,    \* spend journal: heights of the coins each block spent
    pruned,     \* blocks whose data has been deleted
    \* In memory.
    cache,      \* cachedEntries
    lastFlush,  \* lastFlushHash
    due,        \* blocks whose connectBlock has yet to run its last flush
    mode,       \* "down", "replay" (InitConsistentState) or "up"
    pos         \* last block replayed

diskVars == <<db, dbState, best, journal, pruned>>
memVars == <<cache, lastFlush, due, mode, pos>>
vars == <<db, dbState, best, journal, pruned, cache, lastFlush, due, mode, pos>>

----------------------------------------------------------------------------
(* A cache slot: no entry in the map, an explicit nil ("the database does  *)
(* not have it"), or an unspent or spent entry with its flags.             *)

Flags == {"fresh", "modified"}
Slots == [state : {"uncached", "nil", "live", "spent"},
          height : Nat \cup {NoCoin}, flags : SUBSET Flags]

Uncached == [state |-> "uncached", height |-> NoCoin, flags |-> {}]
NilEntry == [state |-> "nil", height |-> NoCoin, flags |-> {}]
LiveEntry(h, f) == [state |-> "live", height |-> h, flags |-> f]

EmptyCache == [c \in Coins |-> Uncached]

(* What a lookup through the cache finds (fetchEntries, then IsSpent). *)
ViewOf(ca, d) ==
    [c \in Coins |-> IF ca[c].state = "uncached" THEN d[c]
                     ELSE IF ca[c].state = "live" THEN ca[c].height
                     ELSE NoCoin]

View == ViewOf(cache, db)

(* fetchEntries: a miss is filled from the database, with a nil entry when *)
(* the database does not have the coin.                                    *)
FetchEntry(c) ==
    IF cache[c].state # "uncached" THEN cache[c]
    ELSE IF db[c] = NoCoin THEN NilEntry
    ELSE LiveEntry(db[c], {})

(* addTxOut: always fresh and modified, whatever the cache held. *)
AddTxOut(b) == LiveEntry(Height[b], Flags)

(* Mutant: every spent entry is dropped, also one the database holds. *)
AddTxIn_AlwaysDropped(e) == Uncached

(* addTxIn: a fresh entry is simply dropped, any other is kept as spent so *)
(* that the next flush deletes it from the database.                       *)
AddTxIn(e) ==
    IF "fresh" \in e.flags THEN Uncached
    ELSE [state |-> "spent", height |-> e.height, flags |-> e.flags \cup {"modified"}]

(* connectTransactions.  An output spent inside its own block is added as  *)
(* fresh and then dropped.                                                 *)
ConnectTransactions(b) ==
    [c \in Coins |-> IF c \in Outputs(b) THEN AddTxOut(b)
                     ELSE IF c \in Creates[b] THEN AddTxIn(AddTxOut(b))
                     ELSE IF c \in Spends[b] THEN AddTxIn(FetchEntry(c))
                     ELSE cache[c]]

(* addTxIn fails on a nil entry. *)
InputsFound(b) == \A c \in Inputs(b) : FetchEntry(c).state # "nil"

(* The spent outputs recorded while connecting b (stxos). *)
SpentTxOuts(b) ==
    [c \in Coins |-> IF c \in Inputs(b) THEN FetchEntry(c).height ELSE NoCoin]

(* writeCache: nil and spent entries are deleted from the database,        *)
(* unmodified ones are left alone and the others are put.                  *)
WriteCache(ca) ==
    [c \in Coins |-> CASE ca[c].state = "uncached" -> db[c]
                       [] ca[c].state \in {"nil", "spent"} -> NoCoin
                       [] "modified" \notin ca[c].flags -> db[c]
                       [] OTHER -> ca[c].height]

(* The memory side and the disk side of writing cache ca for block s. *)
Flush(ca, s) ==
    /\ db' = WriteCache(ca)
    /\ dbState' = s
    /\ cache' = EmptyCache
    /\ lastFlush' = s

NoFlush(ca) ==
    /\ cache' = ca
    /\ UNCHANGED <<db, dbState, lastFlush>>

(* FlushIfNeeded: nothing when the last flush was for s; otherwise a flush *)
(* when the cache has grown past its limit, which is left open.            *)
FlushIfNeeded(ca, s) ==
    \/ lastFlush # s /\ Flush(ca, s)
    \/ NoFlush(ca)

----------------------------------------------------------------------------
(* dbTx.PruneBlocks (external): the oldest blocks go, never the newest. *)
PruneBlocks(b) ==
    {{}} \cup { {p \in Blocks \ pruned : Height[p] <= Height[b] - k} :
                  k \in PruneDepth .. Height[b] }

(* Mutant: only blocks well past the last flush count. *)
FlushNeededAfterPrune_Late(deleted) ==
    \/ lastFlush = NoBlock
    \/ \E p \in deleted : Height[p] > Height[lastFlush] + 1

(* flushNeededAfterPrune. *)
FlushNeededAfterPrune(deleted) ==
    \/ lastFlush = NoBlock
    \/ \E p \in deleted : Height[p] >= Height[lastFlush]

(* connectTransactions and connectBlock up to the notification.  The best  *)
(* state, the journal row, the prune and the flush it may need are one     *)
(* database transaction; the trailing FlushIfNeeded comes after the chain  *)
(* lock has been released and taken again.                                 *)
ConnectBlock(b) ==
    /\ mode = "up"
    /\ due = {} \/ Concurrent
    /\ Parent[b] = best
    /\ InputsFound(b)
    /\ best' = b
    /\ due' = due \cup {b}
    /\ \E deleted \in PruneBlocks(b) :
        /\ pruned' = pruned \cup deleted
        /\ journal' = [a \in Blocks |->
                          IF a = b THEN SpentTxOuts(b)
                          ELSE IF a \in deleted THEN EmptyCoinSet
                          ELSE journal[a]]
        /\ IF deleted # {} /\ FlushNeededAfterPrune(deleted)
           THEN Flush(ConnectTransactions(b), b)
           ELSE NoFlush(ConnectTransactions(b))
    /\ UNCHANGED <<mode, pos>>

(* The end of connectBlock, with the state snapshot it took before it      *)
(* released the lock.                                                      *)
ConnectBlockFlush(b) ==
    /\ mode = "up"
    /\ b \in due
    /\ due' = due \ {b}
    /\ FlushIfNeeded(cache, b)
    /\ UNCHANGED <<best, journal, pruned, mode, pos>>

(* Mutant: the flush is recorded under the block being disconnected. *)
DisconnectBlock_OldMarker ==
    /\ mode = "up"
    /\ due = {} \/ Concurrent
    /\ best # Genesis
    /\ {best, Parent[best]} \cap pruned = {}
    /\ LET n == best IN
        /\ best' = Parent[n]
        /\ db' = [c \in Coins |-> IF c \in Creates[n] THEN NoCoin
                                  ELSE IF c \in Spends[n] THEN journal[n][c]
                                  ELSE WriteCache(cache)[c]]
        /\ dbState' = n
        /\ lastFlush' = n
        /\ journal' = [journal EXCEPT ![n] = EmptyCoinSet]
    /\ cache' = EmptyCache
    /\ UNCHANGED <<pruned, due, mode, pos>>

(* disconnectTransactions and disconnectBlock: in one transaction the      *)
(* cache is flushed under the parent's hash and the block is undone in the *)
(* database from its journal row.  The block and its parent are loaded     *)
(* from disk first, which fails when they have been pruned.                *)
DisconnectBlock ==
    /\ mode = "up"
    /\ due = {} \/ Concurrent
    /\ best # Genesis
    /\ {best, Parent[best]} \cap pruned = {}
    /\ LET n == best IN
        /\ best' = Parent[n]
        /\ db' = [c \in Coins |-> IF c \in Creates[n] THEN NoCoin
                                  ELSE IF c \in Spends[n] THEN journal[n][c]
                                  ELSE WriteCache(cache)[c]]
        /\ dbState' = Parent[n]
        /\ lastFlush' = Parent[n]
        /\ journal' = [journal EXCEPT ![n] = EmptyCoinSet]
    /\ cache' = EmptyCache
    /\ UNCHANGED <<pruned, due, mode, pos>>

(* A lookup from the mempool, an RPC handler or block validation, under    *)
(* the read lock; it fills the cache.                                      *)
FetchUtxoEntry(c) ==
    /\ mode = "up"
    /\ cache' = [cache EXCEPT ![c] = FetchEntry(c)]
    /\ UNCHANGED <<db, dbState, best, journal, pruned, lastFlush, due, mode, pos>>

(* FlushUtxoCache: periodic, and required at shutdown. *)
FlushUtxoCache ==
    /\ mode = "up"
    /\ Flush(cache, best)
    /\ UNCHANGED <<best, journal, pruned, due, mode, pos>>

----------------------------------------------------------------------------
(* The process dies (or is told to stop) at any point. *)
Crash ==
    /\ mode # "down"
    /\ mode' = "down"
    /\ cache' = EmptyCache
    /\ lastFlush' = NoBlock
    /\ due' = {}
    /\ pos' = NoBlock
    /\ UNCHANGED diskVars

(* bestChain.FindFork *)
FindFork(b) ==
    CHOOSE f \in Anc[b] \cap Anc[best] :
        \A a \in Anc[b] \cap Anc[best] : Height[a] <= Height[f]

(* Mutant: the best chain is cut back to the marker instead of replayed. *)
Start_Truncate ==
    /\ mode = "down"
    /\ mode' = "up"
    /\ dbState' = IF dbState = NoBlock THEN best ELSE dbState
    /\ best' = dbState'
    /\ lastFlush' = dbState'
    /\ pos' = NoBlock
    /\ UNCHANGED <<db, journal, pruned, cache, due>>

(* InitConsistentState up to its replay loop: adopt the best state when no *)
(* marker was ever written, be done when the marker is the tip, otherwise  *)
(* replay from the fork of the marker with the best chain.                 *)
Start ==
    /\ mode = "down"
    /\ IF dbState \in {NoBlock, best}
       THEN /\ mode' = "up"
            /\ dbState' = best
            /\ lastFlush' = best
            /\ pos' = NoBlock
       ELSE /\ mode' = "replay"
            /\ pos' = FindFork(dbState)
            /\ UNCHANGED <<dbState, lastFlush>>
    /\ UNCHANGED <<db, best, journal, pruned, cache, due>>

(* Mutant: the replay stops short of the tip. *)
ReplayBlock_NotTip(b) ==
    /\ mode = "replay"
    /\ b \in Anc[best] \ {best}
    /\ Parent[b] = pos
    /\ b \notin pruned
    /\ InputsFound(b)
    /\ pos' = b
    /\ FlushIfNeeded(ConnectTransactions(b), b)
    /\ UNCHANGED <<best, journal, pruned, due, mode>>

(* One iteration of InitConsistentState's loop. *)
ReplayBlock(b) ==
    /\ mode = "replay"
    /\ b \in Anc[best]
    /\ Parent[b] = pos
    /\ b \notin pruned
    /\ InputsFound(b)
    /\ pos' = b
    /\ FlushIfNeeded(ConnectTransactions(b), b)
    /\ UNCHANGED <<best, journal, pruned, due, mode>>

(* The tip is recorded as flushed even when the replayed blocks are still  *)
(* only in the cache.                                                      *)
ReplayDone ==
    /\ mode = "replay"
    /\ pos = best
    /\ mode' = "up"
    /\ lastFlush' = best
    /\ pos' = NoBlock
    /\ UNCHANGED <<db, dbState, best, journal, pruned, cache, due>>

----------------------------------------------------------------------------
(* createChainState has written the genesis block and no marker. *)
Init ==
    /\ db = EmptyCoinSet
    /\ dbState = NoBlock
    /\ best = Genesis
    /\ journal = [b \in Blocks |-> EmptyCoinSet]
    /\ pruned = {}
    /\ cache = EmptyCache
    /\ lastFlush = NoBlock
    /\ due = {}
    /\ mode = "down"
    /\ pos = NoBlock

Next ==
    \/ \E b \in NonGenesis : ConnectBlock(b)
    \/ \E b \in NonGenesis : ConnectBlockFlush(b)
    \/ DisconnectBlock
    \/ \E c \in Coins : FetchUtxoEntry(c)
    \/ FlushUtxoCache
    \/ Crash
    \/ Start
    \/ \E b \in NonGenesis : ReplayBlock(b)
    \/ ReplayDone

Spec == Init /\ [][Next]_vars

(* A stopped node is started again, and InitConsistentState runs on until  *)
(* it returns: nothing but another crash can hold it up.                   *)
FairSpec ==
    /\ Spec
    /\ WF_vars(Start)
    /\ WF_vars(\E b \in NonGenesis : ReplayBlock(b))
    /\ WF_vars(ReplayDone)

----------------------------------------------------------------------------
(* The values each variable may take. *)
TypeOK ==
    /\ db \in CoinSets
    /\ dbState \in Blocks \cup {NoBlock}
    /\ best \in Blocks
    /\ journal \in [Blocks -> CoinSets]
    /\ pruned \subseteq Blocks
    /\ cache \in [Coins -> Slots]
    /\ lastFlush \in Blocks \cup {NoBlock}
    /\ due \subseteq NonGenesis
    /\ mode \in {"down", "replay", "up"}
    /\ pos \in Blocks \cup {NoBlock}

(* Whatever was connected, disconnected, cached, flushed, lost in a crash  *)
(* and replayed, a lookup (FetchUtxoEntry, FetchUtxoView, block            *)
(* validation) finds exactly the coins of the current best chain, each at  *)
(* the height it was created on that chain.                                *)
ViewIsUtxo == mode = "up" => View = UtxoAt[best]

(* The consistency hash written by writeCache tells the truth: the bucket  *)
(* is the complete set as of that block, never a mixture of two blocks,    *)
(* and that block is on the best chain, so that a replay can start there.  *)
DiskConsistent ==
    IF dbState = NoBlock THEN db = EmptyCoinSet /\ best = Genesis
    ELSE db = UtxoAt[dbState] /\ dbState \in Anc[best]

(* A slot that agrees with what the database holds for its coin. *)
SlotCoherent(e, onDisk) ==
    /\ "fresh" \in e.flags => /\ e.state = "live"
                              /\ "modified" \in e.flags
                              /\ onDisk = NoCoin
    /\ e.state = "nil" => onDisk = NoCoin
    /\ e.state = "spent" => "modified" \in e.flags
    /\ e.state = "live" => e.height # NoCoin
    /\ e.state = "live" /\ "modified" \notin e.flags => onDisk = e.height

(* What the flags of a cached entry promise about the database: a fresh    *)
(* coin and a nil entry are not on disk, an unmodified one is there with   *)
(* the same contents, and a spent one is marked so that a flush deletes    *)
(* it.  addTxIn and writeCache act on these promises without looking.      *)
CacheCoherent == \A c \in Coins : SlotCoherent(cache[c], db[c])

(* The spend journal gives back what a block spent: as long as a block of  *)
(* the best chain has not been pruned its row holds the heights its inputs *)
(* had before it, also when a row was rewritten by a later reorganization. *)
JournalExact ==
    \A b \in (Anc[best] \ {Genesis}) \ pruned : \A c \in Inputs(b) :
        journal[b][c] = UtxoAt[Parent[b]][c]

(* The set InitConsistentState has rebuilt so far is the one of the last   *)
(* block it replayed, between the marker on disk and the tip.              *)
ReplayExact ==
    mode = "replay" => /\ pos \in Anc[best]
                       /\ dbState # NoBlock
                       /\ dbState \in Anc[pos]
                       /\ View = UtxoAt[pos]

(* The cache flags, the spend journal and every stage of a replay are      *)
(* exact, so that the coins on disk are those of the block the marker      *)
(* names (utxocache.go, dbPutSpendJournalEntry, InitConsistentState).      *)
RowsExact == TypeOK /\ DiskConsistent /\ CacheCoherent /\ JournalExact /\ ReplayExact

(* flushNeededAfterPrune's comment: "we always need to have the blocks     *)
(* since the utxo cache flush last happened".  No block after the marker   *)
(* on disk is ever deleted.                                                *)
PruneKeepsReplayBlocks ==
    dbState # NoBlock => pruned \cap (Anc[best] \ Anc[dbState]) = {}

(* The same, for as long as the marker on disk is the block that the cache *)
(* believes it last flushed.                                               *)
FlushCoversPrune ==
    mode = "up" /\ lastFlush = dbState => PruneKeepsReplayBlocks

(* If crashes stop, and as long as no block that a replay needs has been   *)
(* pruned, the node comes back up.                                         *)
Recovers ==
    <>[][~Crash]_vars /\ []PruneKeepsReplayBlocks => []<>(mode = "up")

(* A caller sees the abstract utxo set of module UtxoSet: only connecting  *)
(* and disconnecting the tip change it; caching, flushing, crashing and    *)
(* replaying do not.                                                       *)
Abs == INSTANCE UtxoSet WITH
    tip <- best,
    utxo <- IF mode = "up" THEN View ELSE UtxoAt[best]

ImplementsUtxoSet == Abs!AbsSpec
=============================================================================
