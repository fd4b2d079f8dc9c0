-------------------------- MODULE UtxoCacheProofs --------------------------
(***************************************************************************)
(* The utxo cache is correct for every tree of blocks and every set of     *)
(* coins, as long as no coin is created twice on one branch (NoRecreation) *)
(* and chain operations do not overlap (~Concurrent): lookups always find  *)
(* the set of the best chain, the marker on disk is always true, and the   *)
(* whole implements the abstract set of module UtxoSet.                    *)
(*                                                                         *)
(* The optional indexes follow the chain (module Indexers), for every tree *)
(* in which no transaction is on a branch twice.                           *)
(***************************************************************************)
EXTENDS UtxoCache, OrderingProofs, TLAPS

(* What must hold between steps for the next step to be right: the marker  *)
(* exists once the node is up, memory is empty while it is down, and the   *)
(* flush that connectBlock still owes is for the current tip.              *)
Bookkeeping ==
    /\ mode # "down" => dbState # NoBlock
    /\ mode = "down" => cache = EmptyCache
    /\ mode # "up" => due = {}
    /\ due \subseteq {best}

(* The inductive invariant: the checked invariants and Bookkeeping. *)
IInv ==
    /\ TypeOK
    /\ ViewIsUtxo
    /\ DiskConsistent
    /\ CacheCoherent
    /\ JournalExact
    /\ ReplayExact
    /\ Bookkeeping

-----------------------------------------------------------------------------
(* A flush writes exactly what lookups were finding (writeCache). *)
LEMMA WriteIsView ==
    ASSUME NEW ca \in [Coins -> Slots], db \in CoinSets,
           \A c \in Coins : SlotCoherent(ca[c], db[c])
    PROVE  WriteCache(ca) = ViewOf(ca, db)
  <1>1. SUFFICES ASSUME NEW c \in Coins
                 PROVE  WriteCache(ca)[c] = ViewOf(ca, db)[c]
    BY DEF WriteCache, ViewOf
  <1>2. ca[c] \in Slots /\ SlotCoherent(ca[c], db[c])
    OBVIOUS
  <1> QED
    BY <1>2 DEF WriteCache, ViewOf, Slots, SlotCoherent

(* A miss is filled with what the database holds (fetchEntries). *)
LEMMA FetchCoherent ==
    ASSUME TypeOK, CacheCoherent, NEW c \in Coins
    PROVE  /\ FetchEntry(c) \in Slots
           /\ FetchEntry(c).state # "uncached"
           /\ SlotCoherent(FetchEntry(c), db[c])
           /\ View[c] = IF FetchEntry(c).state = "live" THEN FetchEntry(c).height
                        ELSE NoCoin
           /\ FetchEntry(c).state = "live" => FetchEntry(c).height = View[c]
  BY DEF TypeOK, CacheCoherent, FetchEntry, SlotCoherent, Slots, CoinSets, NilEntry,
         LiveEntry, View, ViewOf, Flags, NoCoin

(* Connecting a block to the cache moves the view to that block and keeps  *)
(* every flag truthful (connectTransactions), provided that none of the    *)
(* block's outputs is on disk already.                                     *)
LEMMA ConnectMovesView ==
    ASSUME TypeOK, CacheCoherent, NEW b \in NonGenesis,
           View = UtxoAt[Parent[b]],
           \A c \in Creates[b] : db[c] = NoCoin
    PROVE  /\ ConnectTransactions(b) \in [Coins -> Slots]
           /\ \A c \in Coins : SlotCoherent(ConnectTransactions(b)[c], db[c])
           /\ ViewOf(ConnectTransactions(b), db) = UtxoAt[b]
  <1> DEFINE ca == ConnectTransactions(b)
  <1>0. b \in Blocks /\ Height[b] \in Nat /\ Parent[b] \in Blocks
    BY TreeAssumption DEF NonGenesis
  <1>1. AddTxOut(b) \in Slots /\ AddTxOut(b).state = "live"
        /\ AddTxOut(b).height = Height[b] /\ AddTxOut(b).flags = Flags
    BY <1>0 DEF AddTxOut, LiveEntry, Slots, Flags, NoCoin
  <1>2. AddTxIn(AddTxOut(b)) = Uncached
    BY <1>1 DEF AddTxIn, Flags
  <1>3. UtxoAt[b] = ApplyBlock(UtxoAt[Parent[b]], b)
    BY UtxoAssumption
  <1>4. ASSUME NEW c \in Coins
        PROVE  /\ ca[c] \in Slots
               /\ SlotCoherent(ca[c], db[c])
               /\ ViewOf(ca, db)[c] = UtxoAt[b][c]
    <2>0. /\ UtxoAt[b][c] = IF c \in Outputs(b) THEN Height[b]
                            ELSE IF c \in Spends[b] THEN NoCoin
                            ELSE UtxoAt[Parent[b]][c]
          /\ ViewOf(ca, db)[c] = IF ca[c].state = "uncached" THEN db[c]
                                 ELSE IF ca[c].state = "live" THEN ca[c].height
                                 ELSE NoCoin
          /\ View[c] = IF cache[c].state = "uncached" THEN db[c]
                       ELSE IF cache[c].state = "live" THEN cache[c].height
                       ELSE NoCoin
          /\ cache[c] \in Slots /\ SlotCoherent(cache[c], db[c])
      BY <1>3 DEF ApplyBlock, ViewOf, View, TypeOK, CacheCoherent
    <2>1. CASE c \in Outputs(b)
      <3>1. ca[c] = AddTxOut(b) /\ db[c] = NoCoin
        BY <2>1 DEF ConnectTransactions, Outputs
      <3> QED
        BY <1>0, <1>1, <2>0, <2>1, <3>1 DEF SlotCoherent, Flags, NoCoin
    <2>2. CASE c \notin Outputs(b) /\ c \in Creates[b]
      <3>1. ca[c] = Uncached /\ db[c] = NoCoin /\ c \in Spends[b]
        BY <1>2, <2>2 DEF ConnectTransactions, Outputs
      <3> QED
        BY <2>0, <2>2, <3>1 DEF SlotCoherent, Uncached, Slots, Flags, NoCoin
    <2>3. CASE c \notin Creates[b] /\ c \in Spends[b]
      <3>1. ca[c] = AddTxIn(FetchEntry(c)) /\ c \notin Outputs(b)
        BY <2>3 DEF ConnectTransactions, Outputs
      <3>2. FetchEntry(c) \in Slots /\ SlotCoherent(FetchEntry(c), db[c])
        BY FetchCoherent
      <3>3. CASE "fresh" \in FetchEntry(c).flags
        <4>1. ca[c] = Uncached /\ db[c] = NoCoin
          BY <3>1, <3>2, <3>3 DEF AddTxIn, SlotCoherent
        <4> QED
          BY <2>0, <2>3, <3>1, <4>1 DEF SlotCoherent, Uncached, Slots, Flags, NoCoin
      <3>4. CASE "fresh" \notin FetchEntry(c).flags
        <4>1. ca[c] = [state |-> "spent", height |-> FetchEntry(c).height,
                       flags |-> FetchEntry(c).flags \cup {"modified"}]
          BY <3>1, <3>4 DEF AddTxIn
        <4> QED
          BY <2>0, <2>3, <3>1, <3>2, <3>4, <4>1 DEF SlotCoherent, Slots, Flags, NoCoin
      <3> QED
        BY <3>3, <3>4
    <2>4. CASE c \notin Creates[b] /\ c \notin Spends[b]
      <3>1. ca[c] = cache[c] /\ c \notin Outputs(b)
        BY <2>4 DEF ConnectTransactions, Outputs
      <3> QED
        BY <2>0, <2>4, <3>1
    <2> QED
      BY <2>1, <2>2, <2>3, <2>4
  <1>5. ca = [c \in Coins |-> ca[c]]
    BY DEF ConnectTransactions
  <1>6. UtxoAt[b] = [c \in Coins |-> UtxoAt[b][c]]
    BY <1>3 DEF ApplyBlock
  <1>7. ViewOf(ca, db) = [c \in Coins |-> ViewOf(ca, db)[c]]
    BY DEF ViewOf
  <1>8. ca \in [Coins -> Slots]
    BY <1>4, <1>5
  <1>9. ViewOf(ca, db) = UtxoAt[b]
    BY <1>4, <1>6, <1>7
  <1> QED
    BY <1>4, <1>8, <1>9

(* An empty cache is coherent with any disk and shows the disk. *)
LEMMA EmptyCacheShowsDisk ==
    ASSUME NEW d \in CoinSets
    PROVE  /\ EmptyCache \in [Coins -> Slots]
           /\ \A c \in Coins : SlotCoherent(EmptyCache[c], d[c])
           /\ ViewOf(EmptyCache, d) = d
  <1>1. Uncached \in Slots /\ Uncached.state = "uncached" /\ Uncached.flags = {}
    BY DEF Uncached, Slots, NoCoin, Flags
  <1>2. \A c \in Coins : EmptyCache[c] = Uncached
    BY DEF EmptyCache
  <1>3. EmptyCache \in [Coins -> Slots]
    BY <1>1 DEF EmptyCache
  <1>4. \A c \in Coins : SlotCoherent(EmptyCache[c], d[c])
    BY <1>1, <1>2 DEF SlotCoherent
  <1>5. ViewOf(EmptyCache, d) = d
    BY <1>1, <1>2 DEF ViewOf, CoinSets
  <1> QED
    BY <1>3, <1>4, <1>5

(* Facts about the tree that every step needs. *)
LEMMA TreeFacts ==
    ASSUME NEW b \in NonGenesis
    PROVE  /\ b \in Blocks /\ Parent[b] \in Blocks
           /\ b \in Anc[b] /\ Parent[b] \in Anc[b]
           /\ Anc[b] = Anc[Parent[b]] \cup {b}
           /\ UtxoAt[b] \in CoinSets /\ UtxoAt[Parent[b]] \in CoinSets
  <1>1. b \in Blocks /\ Parent[b] \in Blocks /\ Anc[b] = Anc[Parent[b]] \cup {b}
    BY TreeAssumption DEF NonGenesis
  <1>2. Parent[b] \in Anc[Parent[b]]
    BY <1>1, TreeAssumption DEF NonGenesis
  <1> QED
    BY <1>1, <1>2, UtxoAssumption

(* A block is its own ancestor. *)
LEMMA SelfAncestor == \A b \in Blocks : b \in Anc[b] /\ Anc[b] \subseteq Blocks
  BY TreeAssumption DEF NonGenesis

(* After the cache ca, showing the set of block s, has been written to     *)
(* disk or kept in memory, lookups still find the set of s and the marker  *)
(* on disk is still true.                                                  *)
LEMMA FlushOrNot ==
    ASSUME db \in CoinSets, lastFlush \in Blocks \cup {NoBlock},
           NEW s \in Blocks, NEW ca \in [Coins -> Slots],
           \A c \in Coins : SlotCoherent(ca[c], db[c]),
           ViewOf(ca, db) = UtxoAt[s],
           dbState # NoBlock, dbState \in Anc[s], db = UtxoAt[dbState],
           Flush(ca, s) \/ NoFlush(ca)
    PROVE  /\ db' \in CoinSets
           /\ dbState' \in Anc[s] /\ dbState' # NoBlock
           /\ db' = UtxoAt[dbState']
           /\ cache' \in [Coins -> Slots]
           /\ CacheCoherent'
           /\ View' = UtxoAt[s]
           /\ lastFlush' \in Blocks \cup {NoBlock}
  <1>1. CASE Flush(ca, s)
    <2>1. db' = UtxoAt[s]
      BY <1>1, WriteIsView DEF Flush
    <2>2. UtxoAt[s] \in CoinSets /\ s \in Anc[s] /\ s # NoBlock
      BY UtxoAssumption, TreeAssumption, SelfAncestor
    <2>3. /\ cache' \in [Coins -> Slots]
          /\ \A c \in Coins : SlotCoherent(cache'[c], db'[c])
          /\ ViewOf(cache', db') = db'
      BY <1>1, <2>1, <2>2, EmptyCacheShowsDisk DEF Flush
    <2> QED
      BY <1>1, <2>1, <2>2, <2>3 DEF Flush, CacheCoherent, View
  <1>2. CASE NoFlush(ca)
    BY <1>2 DEF NoFlush, CacheCoherent, View
  <1> QED
    BY <1>1, <1>2

-----------------------------------------------------------------------------
(* createChainState establishes the invariant. *)
LEMMA InitInv == Init => IInv
  <1> SUFFICES ASSUME Init PROVE IInv
    OBVIOUS
  <1>1. EmptyCoinSet \in CoinSets
    BY DEF EmptyCoinSet, CoinSets
  <1>2. TypeOK
    BY <1>1, EmptyCacheShowsDisk, TreeAssumption DEF Init, TypeOK
  <1>3. CacheCoherent
    BY <1>1, EmptyCacheShowsDisk DEF Init, CacheCoherent
  <1>4. JournalExact
    BY TreeAssumption DEF Init, JournalExact
  <1> QED
    BY <1>2, <1>3, <1>4 DEF Init, IInv, ViewIsUtxo, DiskConsistent, ReplayExact, Bookkeeping

(* connectBlock: with no coin created twice, none of the block's outputs   *)
(* can be on disk, whose set is that of some ancestor.                     *)
LEMMA ConnectInv ==
    ASSUME NoRecreation, ~Concurrent, IInv, NEW b \in NonGenesis, ConnectBlock(b)
    PROVE  IInv'
  <1> USE DEF IInv
  <1>1. /\ mode = "up" /\ due = {} /\ Parent[b] = best /\ InputsFound(b)
        /\ best' = b /\ due' = {b} /\ mode' = mode /\ pos' = pos
    BY DEF ConnectBlock
  <1>2. PICK deleted \in PruneBlocks(b) :
            /\ pruned' = pruned \cup deleted
            /\ journal' = [a \in Blocks |->
                              IF a = b THEN SpentTxOuts(b)
                              ELSE IF a \in deleted THEN EmptyCoinSet
                              ELSE journal[a]]
            /\ Flush(ConnectTransactions(b), b) \/ NoFlush(ConnectTransactions(b))
    BY DEF ConnectBlock
  <1>3. deleted \subseteq Blocks
    BY <1>2 DEF PruneBlocks
  <1>4. /\ View = UtxoAt[Parent[b]]
        /\ dbState # NoBlock /\ dbState \in Anc[Parent[b]] /\ db = UtxoAt[dbState]
    BY <1>1 DEF ViewIsUtxo, DiskConsistent, Bookkeeping
  <1>5. \A c \in Creates[b] : db[c] = NoCoin
    BY <1>4 DEF NoRecreation
  <1>6. /\ ConnectTransactions(b) \in [Coins -> Slots]
        /\ \A c \in Coins : SlotCoherent(ConnectTransactions(b)[c], db[c])
        /\ ViewOf(ConnectTransactions(b), db) = UtxoAt[b]
    BY <1>4, <1>5, ConnectMovesView
  <1>7. b \in Blocks /\ dbState \in Anc[b]
    BY <1>4, TreeFacts
  <1>8. /\ db' \in CoinSets
        /\ dbState' \in Anc[b] /\ dbState' # NoBlock
        /\ db' = UtxoAt[dbState']
        /\ cache' \in [Coins -> Slots]
        /\ CacheCoherent'
        /\ View' = UtxoAt[b]
        /\ lastFlush' \in Blocks \cup {NoBlock}
    <2>1. db \in CoinSets /\ lastFlush \in Blocks \cup {NoBlock}
      BY DEF TypeOK
    <2> QED
      BY <1>2, <1>4, <1>6, <1>7, <2>1, FlushOrNot
  <1>9. \A c \in Inputs(b) : c \in Coins /\ SpentTxOuts(b)[c] = UtxoAt[Parent[b]][c]
    <2> SUFFICES ASSUME NEW c \in Inputs(b)
                 PROVE  c \in Coins /\ SpentTxOuts(b)[c] = UtxoAt[Parent[b]][c]
      OBVIOUS
    <2>1. c \in Coins
      BY <1>7, UtxoAssumption DEF Inputs
    <2>2. UtxoAt[Parent[b]][c] # NoCoin
      BY UtxoAssumption
    <2>3. FetchEntry(c).state = "live" => FetchEntry(c).height = View[c]
      BY <2>1, FetchCoherent
    <2>4. FetchEntry(c).state = "live"
      BY <1>4, <2>1, <2>2, FetchCoherent
    <2> QED
      BY <1>4, <2>1, <2>3, <2>4 DEF SpentTxOuts
  <1>10. SpentTxOuts(b) \in CoinSets
    <2> SUFFICES ASSUME NEW c \in Coins
                 PROVE  SpentTxOuts(b)[c] \in Nat \cup {NoCoin}
      BY DEF SpentTxOuts, CoinSets
    <2>1. FetchEntry(c).height \in Nat \cup {NoCoin}
      BY FetchCoherent DEF Slots
    <2> QED
      BY <2>1 DEF SpentTxOuts
  <1>11. EmptyCoinSet \in CoinSets
    BY DEF EmptyCoinSet, CoinSets
  <1>12. TypeOK'
    <2>1. journal' \in [Blocks -> CoinSets]
      BY <1>2, <1>10, <1>11 DEF TypeOK
    <2>2. dbState' \in Blocks
      BY <1>7, <1>8, SelfAncestor
    <2> QED
      BY <1>1, <1>2, <1>3, <1>7, <1>8, <2>1, <2>2 DEF TypeOK
  <1>13. JournalExact'
    <2> SUFFICES ASSUME NEW a \in (Anc[b] \ {Genesis}) \ pruned', NEW c \in Inputs(a)
                 PROVE  journal'[a][c] = UtxoAt[Parent[a]][c]
      BY <1>1 DEF JournalExact
    <2>1. CASE a = b
      BY <1>2, <1>7, <1>9, <2>1
    <2>2. CASE a # b
      <3>1. a \in (Anc[best] \ {Genesis}) \ pruned /\ a \notin deleted /\ a \in Blocks
        BY <1>1, <1>2, <2>2, TreeFacts, SelfAncestor
      <3> QED
        BY <1>2, <2>2, <3>1 DEF JournalExact
    <2> QED
      BY <2>1, <2>2
  <1>14. DiskConsistent'
    BY <1>1, <1>8 DEF DiskConsistent
  <1>15. ViewIsUtxo' /\ ReplayExact' /\ Bookkeeping'
    BY <1>1, <1>8 DEF ViewIsUtxo, ReplayExact, Bookkeeping
  <1> QED
    BY <1>8, <1>12, <1>13, <1>14, <1>15

(* A flush of the unchanged cache for the current tip: FlushUtxoCache and  *)
(* the end of connectBlock.                                                *)
LEMMA FlushInv ==
    ASSUME IInv, mode = "up", Flush(cache, best) \/ NoFlush(cache),
           due' \subseteq due, UNCHANGED <<best, journal, pruned, mode, pos>>
    PROVE  IInv'
  <1> USE DEF IInv
  <1>1. /\ dbState # NoBlock /\ dbState \in Anc[best] /\ db = UtxoAt[dbState]
        /\ ViewOf(cache, db) = UtxoAt[best]
        /\ \A c \in Coins : SlotCoherent(cache[c], db[c])
    BY DEF ViewIsUtxo, DiskConsistent, Bookkeeping, CacheCoherent, View
  <1>2. /\ db \in CoinSets /\ lastFlush \in Blocks \cup {NoBlock}
        /\ best \in Blocks /\ cache \in [Coins -> Slots]
    BY DEF TypeOK
  <1>3. /\ db' \in CoinSets
        /\ dbState' \in Anc[best] /\ dbState' # NoBlock
        /\ db' = UtxoAt[dbState']
        /\ cache' \in [Coins -> Slots]
        /\ CacheCoherent'
        /\ View' = UtxoAt[best]
        /\ lastFlush' \in Blocks \cup {NoBlock}
    BY <1>1, <1>2, FlushOrNot
  <1>4. TypeOK'
    BY <1>2, <1>3, SelfAncestor DEF TypeOK
  <1>5. DiskConsistent' /\ JournalExact'
    BY <1>3 DEF DiskConsistent, JournalExact
  <1>6. ViewIsUtxo' /\ ReplayExact' /\ Bookkeeping'
    BY <1>3 DEF ViewIsUtxo, ReplayExact, Bookkeeping
  <1> QED
    BY <1>3, <1>4, <1>5, <1>6

(* disconnectBlock: the flush writes the set of the tip, and the journal   *)
(* row turns it into the set of the parent in the same transaction.        *)
LEMMA DisconnectInv ==
    ASSUME ~Concurrent, IInv, DisconnectBlock
    PROVE  IInv'
  <1> USE DEF IInv
  <1> DEFINE n == best
  <1>1. /\ mode = "up" /\ due = {} /\ n # Genesis /\ n \notin pruned
        /\ best' = Parent[n] /\ dbState' = Parent[n] /\ lastFlush' = Parent[n]
        /\ db' = [c \in Coins |-> IF c \in Creates[n] THEN NoCoin
                                  ELSE IF c \in Spends[n] THEN journal[n][c]
                                  ELSE WriteCache(cache)[c]]
        /\ journal' = [journal EXCEPT ![n] = EmptyCoinSet]
        /\ cache' = EmptyCache
        /\ pruned' = pruned /\ due' = due /\ mode' = mode /\ pos' = pos
    BY DEF DisconnectBlock
  <1>2. n \in NonGenesis
    BY <1>1 DEF TypeOK, NonGenesis
  <1>3. /\ n \in Blocks /\ Parent[n] \in Blocks /\ Parent[n] # NoBlock
        /\ n \in Anc[n] /\ Parent[n] \in Anc[Parent[n]]
        /\ Anc[n] = Anc[Parent[n]] \cup {n}
        /\ UtxoAt[Parent[n]] \in CoinSets
    BY <1>2, TreeFacts, SelfAncestor, TreeAssumption
  <1>4. WriteCache(cache) = UtxoAt[n]
    BY <1>1, WriteIsView DEF TypeOK, CacheCoherent, ViewIsUtxo, View
  <1>5. ASSUME NEW c \in Coins
        PROVE  db'[c] = UtxoAt[Parent[n]][c]
    <2>1. CASE c \in Creates[n]
      BY <1>1, <1>2, <2>1, UtxoAssumption
    <2>2. CASE c \notin Creates[n] /\ c \in Spends[n]
      <3>1. c \in Inputs(n) /\ n \in (Anc[best] \ {Genesis}) \ pruned
        BY <1>1, <1>3, <2>2 DEF Inputs
      <3> QED
        BY <1>1, <2>2, <3>1 DEF JournalExact
    <2>3. CASE c \notin Creates[n] /\ c \notin Spends[n]
      <3>1. UtxoAt[n] = ApplyBlock(UtxoAt[Parent[n]], n)
        BY <1>2, UtxoAssumption
      <3>2. UtxoAt[n][c] = UtxoAt[Parent[n]][c]
        BY <2>3, <3>1 DEF ApplyBlock, Outputs
      <3> QED
        BY <1>1, <1>4, <2>3, <3>2
    <2> QED
      BY <2>1, <2>2, <2>3
  <1>6. db' = UtxoAt[Parent[n]]
    <2>1. db' = [c \in Coins |-> db'[c]]
      BY <1>1
    <2>2. UtxoAt[Parent[n]] = [c \in Coins |-> UtxoAt[Parent[n]][c]]
      BY <1>3 DEF CoinSets
    <2> QED
      BY <1>5, <2>1, <2>2
  <1>7. /\ cache' \in [Coins -> Slots]
        /\ \A c \in Coins : SlotCoherent(cache'[c], db'[c])
        /\ ViewOf(cache', db') = db'
    BY <1>1, <1>3, <1>6, EmptyCacheShowsDisk
  <1>8. EmptyCoinSet \in CoinSets
    BY DEF EmptyCoinSet, CoinSets
  <1>9. TypeOK'
    BY <1>1, <1>3, <1>6, <1>7, <1>8 DEF TypeOK
  <1>10. JournalExact'
    <2> SUFFICES ASSUME NEW a \in (Anc[Parent[n]] \ {Genesis}) \ pruned,
                        NEW c \in Inputs(a)
                 PROVE  journal'[a][c] = UtxoAt[Parent[a]][c]
      BY <1>1 DEF JournalExact
    <2>1. a \in Blocks /\ a # n
      <3>1. Height[n] = Height[Parent[n]] + 1 /\ Height[Parent[n]] \in Nat
        BY <1>2, <1>3, TreeAssumption
      <3>2. a \in Blocks /\ Height[a] \in Nat /\ Height[a] <= Height[Parent[n]]
        BY <1>3, <3>1, TreeAssumption, SelfAncestor
      <3> QED
        BY <3>1, <3>2
    <2>2. journal'[a] = journal[a]
      BY <1>1, <2>1 DEF TypeOK
    <2> QED
      BY <1>3, <2>2 DEF JournalExact
  <1>11. CacheCoherent' /\ DiskConsistent'
    BY <1>1, <1>3, <1>6, <1>7 DEF CacheCoherent, DiskConsistent
  <1>12. ViewIsUtxo' /\ ReplayExact' /\ Bookkeeping'
    BY <1>1, <1>3, <1>6, <1>7 DEF ViewIsUtxo, View, ReplayExact, Bookkeeping
  <1> QED
    BY <1>9, <1>10, <1>11, <1>12

(* A lookup changes what is cached and nothing that can be seen. *)
LEMMA FetchInv ==
    ASSUME IInv, NEW c \in Coins, FetchUtxoEntry(c)
    PROVE  IInv' /\ View' = View
  <1> USE DEF IInv
  <1>1. /\ cache' = [cache EXCEPT ![c] = FetchEntry(c)] /\ db' = db /\ mode = "up"
        /\ UNCHANGED <<dbState, best, journal, pruned, lastFlush, due, mode, pos>>
    BY DEF FetchUtxoEntry
  <1>2. /\ FetchEntry(c) \in Slots
        /\ FetchEntry(c).state # "uncached"
        /\ SlotCoherent(FetchEntry(c), db[c])
        /\ View[c] = IF FetchEntry(c).state = "live" THEN FetchEntry(c).height
                     ELSE NoCoin
    BY FetchCoherent
  <1>3. cache \in [Coins -> Slots]
    BY DEF TypeOK
  <1>4. \A x \in Coins : cache'[x] = IF x = c THEN FetchEntry(c) ELSE cache[x]
    BY <1>1, <1>3
  <1>5. cache' \in [Coins -> Slots]
    BY <1>1, <1>2, <1>3
  <1>6. View' = View
    <2>1. \A x \in Coins : ViewOf(cache', db)[x] = View[x]
      BY <1>2, <1>4 DEF ViewOf, View
    <2> QED
      BY <1>1, <2>1 DEF ViewOf, View
  <1>7. CacheCoherent'
    BY <1>1, <1>2, <1>4 DEF CacheCoherent
  <1>8. TypeOK' /\ DiskConsistent' /\ JournalExact'
    BY <1>1, <1>5 DEF TypeOK, DiskConsistent, JournalExact
  <1>9. ViewIsUtxo' /\ ReplayExact' /\ Bookkeeping'
    BY <1>1, <1>6 DEF ViewIsUtxo, ReplayExact, Bookkeeping
  <1> QED
    BY <1>6, <1>7, <1>8, <1>9

(* A crash loses memory only. *)
LEMMA CrashInv ==
    ASSUME IInv, Crash
    PROVE  IInv'
  <1> USE DEF IInv
  <1>1. /\ mode' = "down" /\ cache' = EmptyCache /\ lastFlush' = NoBlock
        /\ due' = {} /\ pos' = NoBlock
        /\ db' = db /\ dbState' = dbState /\ best' = best
        /\ journal' = journal /\ pruned' = pruned
    BY DEF Crash, diskVars
  <1>2. cache' \in [Coins -> Slots] /\ CacheCoherent'
    BY <1>1, EmptyCacheShowsDisk DEF TypeOK, CacheCoherent
  <1>3. TypeOK' /\ DiskConsistent' /\ JournalExact'
    BY <1>1, <1>2 DEF TypeOK, DiskConsistent, JournalExact
  <1> QED
    BY <1>1, <1>2, <1>3 DEF ViewIsUtxo, ReplayExact, Bookkeeping

(* A marker on the best chain is its own fork with it. *)
LEMMA MarkerIsFork ==
    ASSUME best \in Blocks, dbState \in Anc[best]
    PROVE  FindFork(dbState) = dbState
  <1> DEFINE common == Anc[dbState] \cap Anc[best]
             top(f) == \A a \in common : Height[a] <= Height[f]
  <1>1. dbState \in Blocks /\ dbState \in common
    BY SelfAncestor
  <1>2. \A a \in common : a \in Blocks /\ Height[a] \in Nat /\ Height[dbState] \in Nat
    BY <1>1, SelfAncestor, TreeAssumption
  <1>3. \A a \in common : a # dbState => Height[a] < Height[dbState]
    BY <1>1, TreeAssumption
  <1>4. top(dbState)
    BY <1>2, <1>3
  <1>5. \A f \in common : top(f) => f = dbState
    BY <1>1, <1>2, <1>3
  <1>6. FindFork(dbState) = CHOOSE f \in common : top(f)
    BY DEF FindFork
  <1> QED
    BY <1>1, <1>4, <1>5, <1>6

(* InitConsistentState begins with the set that the marker names. *)
LEMMA StartInv ==
    ASSUME IInv, Start
    PROVE  IInv'
  <1> USE DEF IInv
  <1>1. /\ mode = "down" /\ cache = EmptyCache /\ due = {} /\ best \in Blocks
        /\ db' = db /\ best' = best /\ journal' = journal /\ pruned' = pruned
        /\ cache' = cache /\ due' = due
    BY DEF Start, Bookkeeping, TypeOK
  <1>2. ViewOf(cache, db) = db /\ View' = db
    BY <1>1, EmptyCacheShowsDisk DEF TypeOK, View
  <1>3. CacheCoherent' /\ JournalExact'
    BY <1>1 DEF CacheCoherent, JournalExact
  <1>4. best \in Anc[best] /\ best # NoBlock
    BY <1>1, SelfAncestor, TreeAssumption
  <1>5. CASE dbState \in {NoBlock, best}
    <2>1. mode' = "up" /\ dbState' = best /\ lastFlush' = best /\ pos' = NoBlock
      BY <1>5 DEF Start
    <2>2. db = UtxoAt[best]
      BY <1>4, <1>5, UtxoAssumption DEF DiskConsistent
    <2>3. TypeOK'
      BY <1>1, <2>1 DEF TypeOK
    <2> QED
      BY <1>1, <1>2, <1>3, <1>4, <2>1, <2>2, <2>3
         DEF DiskConsistent, ViewIsUtxo, ReplayExact, Bookkeeping
  <1>6. CASE dbState \notin {NoBlock, best}
    <2>1. /\ mode' = "replay" /\ pos' = FindFork(dbState)
          /\ dbState' = dbState /\ lastFlush' = lastFlush
      BY <1>6 DEF Start
    <2>2. dbState \in Anc[best] /\ db = UtxoAt[dbState] /\ dbState \in Blocks
      BY <1>6 DEF DiskConsistent, TypeOK
    <2>3. pos' = dbState
      BY <1>1, <2>1, <2>2, MarkerIsFork
    <2>4. TypeOK'
      BY <1>1, <2>1, <2>2, <2>3 DEF TypeOK
    <2> QED
      BY <1>1, <1>2, <1>3, <1>6, <2>1, <2>2, <2>3, <2>4, SelfAncestor
         DEF DiskConsistent, ViewIsUtxo, ReplayExact, Bookkeeping
  <1> QED
    BY <1>5, <1>6

(* One replayed block, flushed or not. *)
LEMMA ReplayInv ==
    ASSUME NoRecreation, IInv, NEW b \in NonGenesis, ReplayBlock(b)
    PROVE  IInv'
  <1> USE DEF IInv
  <1>1. /\ mode = "replay" /\ b \in Anc[best] /\ Parent[b] = pos /\ pos' = b
        /\ Flush(ConnectTransactions(b), b) \/ NoFlush(ConnectTransactions(b))
        /\ best' = best /\ journal' = journal /\ pruned' = pruned
        /\ due' = due /\ mode' = mode
    BY DEF ReplayBlock, FlushIfNeeded
  <1>2. /\ View = UtxoAt[Parent[b]]
        /\ dbState # NoBlock /\ dbState \in Anc[Parent[b]] /\ db = UtxoAt[dbState]
    BY <1>1 DEF ReplayExact, DiskConsistent
  <1>3. \A c \in Creates[b] : db[c] = NoCoin
    BY <1>2 DEF NoRecreation
  <1>4. /\ ConnectTransactions(b) \in [Coins -> Slots]
        /\ \A c \in Coins : SlotCoherent(ConnectTransactions(b)[c], db[c])
        /\ ViewOf(ConnectTransactions(b), db) = UtxoAt[b]
    BY <1>2, <1>3, ConnectMovesView
  <1>5. b \in Blocks /\ dbState \in Anc[b]
    BY <1>2, TreeFacts
  <1>6. db \in CoinSets /\ lastFlush \in Blocks \cup {NoBlock} /\ best \in Blocks
    BY DEF TypeOK
  <1>7. /\ db' \in CoinSets
        /\ dbState' \in Anc[b] /\ dbState' # NoBlock
        /\ db' = UtxoAt[dbState']
        /\ cache' \in [Coins -> Slots]
        /\ CacheCoherent'
        /\ View' = UtxoAt[b]
        /\ lastFlush' \in Blocks \cup {NoBlock}
    BY <1>1, <1>2, <1>4, <1>5, <1>6, FlushOrNot
  <1>8. dbState' \in Anc[best]
    BY <1>1, <1>6, <1>7, TreeAssumption
  <1>9. TypeOK'
    BY <1>1, <1>5, <1>7, SelfAncestor DEF TypeOK
  <1>10. DiskConsistent' /\ JournalExact'
    BY <1>1, <1>7, <1>8 DEF DiskConsistent, JournalExact
  <1>11. ViewIsUtxo' /\ ReplayExact' /\ Bookkeeping'
    BY <1>1, <1>7 DEF ViewIsUtxo, ReplayExact, Bookkeeping
  <1> QED
    BY <1>7, <1>9, <1>10, <1>11

(* The replay has reached the tip. *)
LEMMA ReplayDoneInv ==
    ASSUME IInv, ReplayDone
    PROVE  IInv' /\ View' = UtxoAt[best]
  <1> USE DEF IInv
  <1>1. /\ mode = "replay" /\ pos = best /\ mode' = "up" /\ lastFlush' = best
        /\ pos' = NoBlock
        /\ UNCHANGED <<db, dbState, best, journal, pruned, cache, due>>
    BY DEF ReplayDone
  <1>2. View' = View /\ View = UtxoAt[best]
    BY <1>1 DEF View, ReplayExact
  <1>3. TypeOK' /\ CacheCoherent' /\ DiskConsistent' /\ JournalExact'
    BY <1>1 DEF TypeOK, CacheCoherent, DiskConsistent, JournalExact
  <1>4. ViewIsUtxo' /\ ReplayExact' /\ Bookkeeping'
    BY <1>1, <1>2 DEF ViewIsUtxo, ReplayExact, Bookkeeping
  <1> QED
    BY <1>2, <1>3, <1>4

(* Every step keeps the invariant. *)
LEMMA StepInv ==
    ASSUME NoRecreation, ~Concurrent, IInv, [Next]_vars
    PROVE  IInv'
  <1>1. ASSUME NEW b \in NonGenesis, ConnectBlock(b) PROVE IInv'
    BY <1>1, ConnectInv
  <1>2. ASSUME NEW b \in NonGenesis, ConnectBlockFlush(b) PROVE IInv'
    <2>1. /\ mode = "up" /\ b = best /\ due' \subseteq due
          /\ Flush(cache, b) \/ NoFlush(cache)
          /\ UNCHANGED <<best, journal, pruned, mode, pos>>
      BY <1>2 DEF ConnectBlockFlush, FlushIfNeeded, IInv, Bookkeeping
    <2> QED
      BY <2>1, FlushInv
  <1>3. CASE DisconnectBlock
    BY <1>3, DisconnectInv
  <1>4. ASSUME NEW c \in Coins, FetchUtxoEntry(c) PROVE IInv'
    BY <1>4, FetchInv
  <1>5. CASE FlushUtxoCache
    BY <1>5, FlushInv DEF FlushUtxoCache
  <1>6. CASE Crash
    BY <1>6, CrashInv
  <1>7. CASE Start
    BY <1>7, StartInv
  <1>8. ASSUME NEW b \in NonGenesis, ReplayBlock(b) PROVE IInv'
    BY <1>8, ReplayInv
  <1>9. CASE ReplayDone
    BY <1>9, ReplayDoneInv
  <1>10. CASE UNCHANGED vars
    BY <1>10 DEF vars, IInv, TypeOK, ViewIsUtxo, DiskConsistent, CacheCoherent,
                 JournalExact, ReplayExact, Bookkeeping, View
  <1> QED
    BY <1>1, <1>2, <1>3, <1>4, <1>5, <1>6, <1>7, <1>8, <1>9, <1>10 DEF Next

-----------------------------------------------------------------------------
(* For every tree of blocks on which no coin is created twice, and with    *)
(* chain operations that do not overlap: lookups find the set of the best  *)
(* chain, through every mixture of connects, disconnects, flushes, prunes, *)
(* crashes and replays.                                                    *)
THEOREM UtxoCacheCorrect ==
    NoRecreation /\ ~Concurrent => (Spec => []ViewIsUtxo)
  <1> SUFFICES ASSUME NoRecreation, ~Concurrent
               PROVE  Spec => []ViewIsUtxo
    OBVIOUS
  <1>1. Init => IInv
    BY InitInv
  <1>2. IInv /\ [Next]_vars => IInv'
    BY StepInv
  <1>3. IInv => ViewIsUtxo
    BY DEF IInv
  <1> QED
    BY <1>1, <1>2, <1>3, PTL DEF Spec

(* Under the same conditions every row is exact: the marker on disk names  *)
(* the block whose set the disk holds, the flags of cached entries are     *)
(* true, the spend journal restores what was spent, and what a replay has  *)
(* rebuilt is the set of the block it has come to.                         *)
THEOREM RowsAlwaysExact ==
    NoRecreation /\ ~Concurrent => (Spec => []RowsExact)
  <1> SUFFICES ASSUME NoRecreation, ~Concurrent
               PROVE  Spec => []RowsExact
    OBVIOUS
  <1>1. Init => IInv
    BY InitInv
  <1>2. IInv /\ [Next]_vars => IInv'
    BY StepInv
  <1>3. IInv => RowsExact
    BY DEF IInv, RowsExact
  <1> QED
    BY <1>1, <1>2, <1>3, PTL DEF Spec

-----------------------------------------------------------------------------
(* The set a caller sees, as the refinement mapping gives it. *)
Seen == IF mode = "up" THEN View ELSE UtxoAt[best]

(* While the node is down the mapping shows the set of the best chain, and *)
(* ViewIsUtxo says that lookups show the same once it is up.               *)
LEMMA SeenIsUtxo ==
    ASSUME IInv
    PROVE  Seen = UtxoAt[best]
  BY DEF IInv, ViewIsUtxo, Seen

(* A step that leaves the best chain alone is invisible. *)
LEMMA Invisible ==
    ASSUME IInv, IInv', best' = best
    PROVE  UNCHANGED <<best, Seen>>
  <1>1. Seen' = UtxoAt[best]
    BY DEF IInv, ViewIsUtxo, Seen
  <1> QED
    BY <1>1, SeenIsUtxo

(* Every step is a connect or a disconnect of the abstract set, or is not  *)
(* visible there.                                                          *)
LEMMA StepRefines ==
    ASSUME NoRecreation, ~Concurrent, IInv, IInv', [Next]_vars
    PROVE  [Abs!AbsNext]_(Abs!absVars)
  <1>0. Seen = UtxoAt[best] /\ Seen' = UtxoAt[best']
    BY DEF IInv, ViewIsUtxo, Seen
  <1>1. ASSUME NEW b \in NonGenesis, ConnectBlock(b) PROVE Abs!AbsNext
    <2>1. Parent[b] = best /\ best' = b
      BY <1>1 DEF ConnectBlock
    <2>2. UtxoAt[b] = Abs!ApplyBlock(UtxoAt[Parent[b]], b)
      BY UtxoAssumption DEF ApplyBlock, Outputs, NoCoin,
                            Abs!ApplyBlock, Abs!Outputs, Abs!NoCoin
    <2>3. Abs!AbsConnect(b)
      BY <1>0, <2>1, <2>2 DEF Abs!AbsConnect, Seen
    <2> QED
      BY <2>3 DEF Abs!AbsNext, NonGenesis, Abs!NonGenesis
  <1>2. CASE DisconnectBlock
    <2>1. best # Genesis /\ best' = Parent[best]
      BY <1>2 DEF DisconnectBlock
    <2>2. Abs!AbsDisconnect
      BY <1>0, <2>1 DEF Abs!AbsDisconnect, Seen
    <2> QED
      BY <2>2 DEF Abs!AbsNext
  <1>3. ASSUME best' = best PROVE UNCHANGED Abs!absVars
    BY <1>3, Invisible DEF Abs!absVars, Seen
  <1>4. ASSUME NEW b \in NonGenesis, ConnectBlockFlush(b) PROVE best' = best
    BY <1>4 DEF ConnectBlockFlush
  <1>5. ASSUME NEW c \in Coins, FetchUtxoEntry(c) PROVE best' = best
    BY <1>5 DEF FetchUtxoEntry
  <1>6. ASSUME NEW b \in NonGenesis, ReplayBlock(b) PROVE best' = best
    BY <1>6 DEF ReplayBlock
  <1>7. CASE FlushUtxoCache \/ Crash \/ Start \/ ReplayDone \/ UNCHANGED vars
    <2>1. best' = best
      BY <1>7 DEF FlushUtxoCache, Crash, diskVars, Start, ReplayDone, vars
    <2> QED
      BY <1>3, <2>1
  <1> QED
    BY <1>1, <1>2, <1>3, <1>4, <1>5, <1>6, <1>7 DEF Next

(* For every tree of blocks on which no coin is created twice, and with    *)
(* chain operations that do not overlap, the cache over the database       *)
(* implements the abstract set of module UtxoSet: a caller can tell        *)
(* neither when the cache is flushed or pruned nor that the node has       *)
(* crashed and replayed.                                                   *)
THEOREM UtxoCacheImplementsUtxoSet ==
    NoRecreation /\ ~Concurrent => (Spec => ImplementsUtxoSet)
  <1> SUFFICES ASSUME NoRecreation, ~Concurrent
               PROVE  Spec => ImplementsUtxoSet
    OBVIOUS
  <1>1. Init => IInv
    BY InitInv
  <1>2. IInv /\ [Next]_vars => IInv'
    BY StepInv
  <1>3. Init => Abs!AbsInit
    <2> SUFFICES ASSUME Init PROVE Abs!AbsInit
      OBVIOUS
    <2>1. best = Genesis /\ mode = "down" /\ UtxoAt[Genesis] = EmptyCoinSet
      BY UtxoAssumption DEF Init
    <2> QED
      BY <2>1 DEF Abs!AbsInit, EmptyCoinSet, NoCoin, Abs!EmptyCoinSet, Abs!NoCoin
  <1>4. IInv /\ IInv' /\ [Next]_vars => [Abs!AbsNext]_(Abs!absVars)
    BY StepRefines
  <1> QED
    BY <1>1, <1>2, <1>3, <1>4, PTL DEF Spec, ImplementsUtxoSet, Abs!AbsSpec

-----------------------------------------------------------------------------
(* Pruning takes the oldest blocks: what is deleted is everything up to    *)
(* some height, and that height is not above the tip.  The second part     *)
(* survives a reorganization because disconnectBlock needs the block and   *)
(* its parent.                                                             *)
PrunedOldest ==
    /\ \A p \in pruned : \A q \in Blocks : Height[q] <= Height[p] => q \in pruned
    /\ \A p \in pruned : Height[p] <= Height[best]

PInv == PrunedOldest /\ FlushCoversPrune

(* The prune inside connectBlock and the flush it may need. *)
LEMMA ConnectPrune ==
    ASSUME IInv, PInv, NEW b \in NonGenesis, ConnectBlock(b)
    PROVE  PInv'
  <1>1. PICK deleted \in PruneBlocks(b) :
            /\ pruned' = pruned \cup deleted
            /\ \/ Flush(ConnectTransactions(b), b)
               \/ /\ deleted # {} => ~FlushNeededAfterPrune(deleted)
                  /\ NoFlush(ConnectTransactions(b))
    BY DEF ConnectBlock
  <1>2. /\ mode = "up" /\ Parent[b] = best /\ best' = b /\ mode' = mode
        /\ pruned \subseteq Blocks /\ best \in Blocks
    BY DEF ConnectBlock, IInv, TypeOK
  <1>3. /\ b \in Blocks /\ Anc[b] = Anc[best] \cup {b} /\ Anc[b] \subseteq Blocks
        /\ Height[b] = Height[best] + 1
        /\ \A q \in Blocks : Height[q] \in Nat
    BY <1>2, TreeFacts, SelfAncestor, TreeAssumption DEF NonGenesis
  <1>4. \/ deleted = {}
        \/ \E k \in PruneDepth .. Height[b] :
               deleted = {p \in Blocks \ pruned : Height[p] <= Height[b] - k}
    BY DEF PruneBlocks
  <1>5. /\ \A p \in deleted : p \in Blocks /\ Height[p] <= Height[b]
        /\ \A p \in deleted : \A q \in Blocks :
              Height[q] <= Height[p] => q \in pruned \cup deleted
    BY <1>3, <1>4, CacheAssumption
  <1>6. PrunedOldest'
    BY <1>1, <1>2, <1>3, <1>5 DEF PInv, PrunedOldest
  <1>7. FlushCoversPrune'
    <2>1. CASE Flush(ConnectTransactions(b), b)
      BY <1>2, <2>1 DEF Flush, FlushCoversPrune, PruneKeepsReplayBlocks
    <2>2. CASE NoFlush(ConnectTransactions(b)) /\ (deleted # {} => ~FlushNeededAfterPrune(deleted))
      <3> SUFFICES ASSUME lastFlush = dbState, dbState # NoBlock,
                          NEW x \in pruned \cup deleted, x \in Anc[b], x \notin Anc[dbState]
                   PROVE  FALSE
        BY <1>1, <1>2, <2>2 DEF NoFlush, FlushCoversPrune, PruneKeepsReplayBlocks
      <3>1. dbState \in Anc[best] /\ dbState \in Anc[b] /\ dbState \in Blocks
        BY <1>2, <1>3 DEF IInv, DiskConsistent
      <3>2. CASE x \in pruned
        <4>1. x # b
          BY <1>3, <1>2, <3>2 DEF PInv, PrunedOldest
        <4> QED
          BY <1>2, <1>3, <3>2, <4>1 DEF PInv, FlushCoversPrune, PruneKeepsReplayBlocks
      <3>3. CASE x \in deleted
        <4>1. Height[x] < Height[dbState]
          BY <1>3, <1>5, <2>2, <3>1, <3>3 DEF FlushNeededAfterPrune
        <4> QED
          BY <1>3, <1>5, <3>1, <3>3, <4>1, TreeAssumption
      <3> QED
        BY <3>2, <3>3
    <2> QED
      BY <1>1, <2>1, <2>2
  <1> QED
    BY <1>6, <1>7 DEF PInv

(* Every step keeps PInv. *)
LEMMA StepPrune ==
    ASSUME ~Concurrent, IInv, PInv, [Next]_vars
    PROVE  PInv'
  <1>1. ASSUME NEW b \in NonGenesis, ConnectBlock(b) PROVE PInv'
    BY <1>1, ConnectPrune
  <1>2. ASSUME UNCHANGED <<best, pruned>>,
               mode' # "up" \/ (lastFlush' = dbState' => dbState' = best)
                            \/ (mode = "up" /\ UNCHANGED <<dbState, lastFlush>>)
        PROVE  PInv'
    BY <1>2 DEF PInv, PrunedOldest, FlushCoversPrune, PruneKeepsReplayBlocks
  <1>3. ASSUME NEW b \in NonGenesis, ConnectBlockFlush(b) PROVE PInv'
    <2>1. b = best /\ mode = "up" /\ UNCHANGED <<best, pruned>>
      BY <1>3 DEF ConnectBlockFlush, IInv, Bookkeeping
    <2>2. dbState' = best \/ UNCHANGED <<dbState, lastFlush>>
      BY <1>3, <2>1 DEF ConnectBlockFlush, FlushIfNeeded, Flush, NoFlush
    <2> QED
      BY <1>2, <2>1, <2>2
  <1>4. CASE DisconnectBlock
    <2>1. /\ best \in NonGenesis /\ best' = Parent[best] /\ dbState' = Parent[best]
          /\ pruned' = pruned /\ best \notin pruned /\ pruned \subseteq Blocks
      BY <1>4 DEF DisconnectBlock, IInv, TypeOK, NonGenesis
    <2>2. /\ Height[best] = Height[Parent[best]] + 1
          /\ best \in Blocks /\ Parent[best] \in Blocks
          /\ \A q \in Blocks : Height[q] \in Nat
      BY <2>1, TreeFacts, TreeAssumption DEF NonGenesis
    <2>3. \A p \in pruned : Height[p] < Height[best]
      BY <2>1, <2>2 DEF PInv, PrunedOldest
    <2>4. \A p \in pruned : Height[p] <= Height[Parent[best]]
      BY <2>1, <2>2, <2>3
    <2>5. PrunedOldest'
      BY <2>1, <2>4 DEF PInv, PrunedOldest
    <2> QED
      BY <2>1, <2>5 DEF PInv, FlushCoversPrune, PruneKeepsReplayBlocks
  <1>5. ASSUME NEW c \in Coins, FetchUtxoEntry(c) PROVE PInv'
    BY <1>2, <1>5 DEF FetchUtxoEntry
  <1>6. CASE FlushUtxoCache
    BY <1>2, <1>6 DEF FlushUtxoCache, Flush
  <1>7. CASE Crash
    BY <1>2, <1>7 DEF Crash, diskVars
  <1>8. CASE Start
    BY <1>2, <1>8 DEF Start
  <1>9. ASSUME NEW b \in NonGenesis, ReplayBlock(b) PROVE PInv'
    BY <1>2, <1>9 DEF ReplayBlock
  <1>10. CASE ReplayDone
    BY <1>2, <1>10 DEF ReplayDone
  <1>11. CASE UNCHANGED vars
    BY <1>11 DEF vars, PInv, PrunedOldest, FlushCoversPrune, PruneKeepsReplayBlocks
  <1> QED
    BY <1>1, <1>3, <1>4, <1>5, <1>6, <1>7, <1>8, <1>9, <1>10, <1>11 DEF Next

(* Under the same assumptions the rule of flushNeededAfterPrune is enough  *)
(* for as long as the cache knows which block it last flushed: no block    *)
(* that a replay would need has been deleted.  (After a start that had to  *)
(* replay, the cache does not know it, see PruneKeepsReplayBlocks.)        *)
THEOREM PruneRuleSufficient ==
    NoRecreation /\ ~Concurrent => (Spec => []FlushCoversPrune)
  <1> SUFFICES ASSUME NoRecreation, ~Concurrent
               PROVE  Spec => []FlushCoversPrune
    OBVIOUS
  <1>1. Init => IInv /\ PInv
    BY InitInv DEF Init, PInv, PrunedOldest, FlushCoversPrune
  <1>2. IInv /\ PInv /\ [Next]_vars => IInv' /\ PInv'
    BY StepInv, StepPrune
  <1>3. PInv => FlushCoversPrune
    BY DEF PInv
  <1> QED
    BY <1>1, <1>2, <1>3, PTL DEF Spec

-----------------------------------------------------------------------------
(* Indexers, over a chain, a spend journal, rows and a process of their own *)

CONSTANTS Txs, TxsOf, Spending, Addrs, AddrsOf, Increment, MaxStarts, MaxDrops, NoTip, Level0Max, MaxLevel
VARIABLES tip, undo, disk, run

I == INSTANCE Indexers WITH best <- tip, journal <- undo

(* An index with tip t covers the branch of t; the transaction index has   *)
(* numbered its blocks from 1 on.                                          *)
Covered(t) == IF t \in Blocks THEN Anc[t] ELSE {}
Count(t) == IF t \in Blocks THEN Height[t] + 1 ELSE 0

HashesDense(hashOf, n) == \A k \in I!IDs \ {0} : hashOf[k] # NoBlock <=> k <= n

TxRowsExact(d, t) ==
    /\ \A b \in Blocks : d.idOf[b] = IF b \in Covered(t) THEN Height[b] + 1 ELSE 0
    /\ \A k \in I!IDs \ {0} : d.hashOf[k] # NoBlock => d.hashOf[k] \in Covered(t) /\ Height[d.hashOf[k]] + 1 = k
    /\ HashesDense(d.hashOf, Count(t))
    /\ \A x \in Txs :
        IF d.tx[x] = 0 THEN \A b \in Covered(t) : x \notin I!ToSet(TxsOf[b])
        ELSE \E b \in Covered(t) : x \in I!ToSet(TxsOf[b]) /\ d.tx[x] = Height[b] + 1

CfRowsExact(d, t) == \A b \in Blocks : d.header[b] = IF b \in Covered(t) THEN Anc[b] ELSE {}

(* Records that have their fields. *)
Rows(d) == d = [tip |-> d.tip, drop |-> d.drop, bucket |-> d.bucket, ids |-> d.ids, tx |-> d.tx, idOf |-> d.idOf,
                hashOf |-> d.hashOf, addr |-> d.addr, header |-> d.header]
Memory(m) == m = [phase |-> m.phase, enabled |-> m.enabled, cur |-> m.cur, height |-> m.height,
                  dropping |-> m.dropping, starts |-> m.starts, drops |-> m.drops]

RowsOK(d) ==
    /\ Rows(d)
    /\ d.tip \in [I!Indexes -> Blocks \cup {NoBlock, NoTip}]
    /\ d.drop \subseteq I!Indexes /\ d.bucket \subseteq I!Indexes
    /\ d.ids \in BOOLEAN
    /\ d.tx \in [Txs -> I!IDs] /\ d.idOf \in [Blocks -> I!IDs]
    /\ d.hashOf \in [I!IDs \ {0} -> Blocks \cup {NoBlock}]
    /\ d.header \in [Blocks -> SUBSET Blocks]

MemoryOK(m) ==
    /\ Memory(m)
    /\ m.phase \in I!Phases /\ m.enabled \subseteq I!Indexes
    /\ m.cur \in I!IDs
    /\ m.height \in [I!Indexes -> {-1} \cup {Height[b] : b \in Blocks}]
    /\ m.dropping \in Seq(I!Indexes) /\ m.starts \in 0..MaxStarts /\ m.drops \in 0..MaxDrops

Dropping == {"dropKeys", "dropBucket", "dropIDs", "dropTip"}

(* An index that is not being dropped has the rows of its tip. *)
RowsOfTips(d) ==
    /\ d.drop \subseteq {i \in I!Indexes : d.tip[i] # NoTip}
    /\ "tx" \notin d.drop => TxRowsExact(d, d.tip["tx"])
    /\ "cf" \notin d.drop => CfRowsExact(d, d.tip["cf"])
    /\ \E n \in 0..Cardinality(Blocks) : HashesDense(d.hashOf, n)

(* What a drop has done so far. *)
DropsInv ==
    run.phase \in Dropping =>
        /\ Len(run.dropping) \in 1..2
        /\ \A k \in 1..Len(run.dropping) : run.dropping[k] \in I!Indexes /\ disk.tip[run.dropping[k]] # NoTip
        /\ Len(run.dropping) = 2 => run.dropping[1] # run.dropping[2]
        /\ run.dropping[1] \in disk.drop
        /\ run.phase = "dropIDs" => run.dropping[1] = "tx"
        /\ run.phase # "dropKeys" =>
            /\ run.dropping[1] = "tx" => \A x \in Txs : disk.tx[x] = 0
            /\ run.dropping[1] = "cf" => \A b \in Blocks : disk.header[b] = {}
        /\ run.phase = "dropTip" /\ run.dropping[1] = "tx" =>
            /\ \A b \in Blocks : disk.idOf[b] = 0
            /\ \A k \in I!IDs \ {0} : disk.hashOf[k] = NoBlock

(* How far a start has come. *)
IndexStartInv ==
    /\ "addr" \in run.enabled => "tx" \in run.enabled
    /\ run.phase \in {"create", "rollback", "catchup", "running"} => run.enabled \cap disk.drop = {}
    /\ run.phase \in {"rollback", "catchup", "running"} =>
        /\ \A i \in run.enabled : disk.tip[i] # NoTip
        /\ "tx" \in run.enabled => run.cur = Count(disk.tip["tx"])
    /\ run.phase = "catchup" => \A i \in run.enabled :
        disk.tip[i] \in Anc[tip] \cup {NoBlock} /\ run.height[i] = Count(disk.tip[i]) - 1
    /\ run.phase = "running" => \A i \in run.enabled : disk.tip[i] = tip

(* The inductive invariant *)
IndexInv ==
    /\ tip \in Blocks /\ undo \subseteq Blocks /\ RowsOK(disk) /\ MemoryOK(run)
    /\ Anc[tip] \ {Genesis} \subseteq undo
    /\ RowsOfTips(disk) /\ DropsInv /\ IndexStartInv /\ I!FailureExplained

-----------------------------------------------------------------------------
(* The tree *)

LEMMA SameCounts == ASSUME NEW S PROVE I!Cardinality(S) = Cardinality(S) /\ I!IsFiniteSet(S) = IsFiniteSet(S)
  BY DEF I!Cardinality, Cardinality, I!IsFiniteSet, IsFiniteSet

LEMMA BranchFacts ==
    ASSUME NEW b \in Blocks
    PROVE  /\ Height[b] \in Nat
           /\ \A a \in Anc[b] : a \in Blocks /\ Height[a] \in 0..Height[b] /\ Anc[a] \subseteq Anc[b]
           /\ \A a, d \in Anc[b] : Height[a] = Height[d] => a = d
           /\ b # Genesis => /\ Parent[b] \in Blocks /\ Height[b] = Height[Parent[b]] + 1
                             /\ Anc[b] = Anc[Parent[b]] \cup {b} /\ b \notin Anc[Parent[b]]
  <1>1. Height[b] \in Nat /\ Anc[b] \subseteq Blocks /\ b \in Anc[b]
    BY TreeAssumption, SelfAncestor
  <1>2. ASSUME NEW a \in Anc[b] PROVE a \in Blocks /\ Height[a] \in 0..Height[b] /\ Anc[a] \subseteq Anc[b]
    <2>1. a \in Blocks /\ Height[a] \in Nat /\ Anc[a] \subseteq Anc[b]
      BY <1>1, TreeAssumption
    <2>2. a # b => Height[a] < Height[b]
      BY TreeAssumption
    <2> QED
      BY <1>1, <2>1, <2>2
  <1>3. ASSUME NEW a \in Anc[b], NEW d \in Anc[b], Height[a] = Height[d] PROVE a = d
    <2>1. a \in Anc[d] /\ Height[a] \in Nat /\ d \in Blocks
      BY <1>2, <1>3, TreeAssumption
    <2>2. a # d => Height[a] < Height[d]
      BY <2>1, TreeAssumption
    <2> QED
      BY <1>3, <2>1, <2>2
  <1>4. ASSUME b # Genesis
        PROVE  /\ Parent[b] \in Blocks /\ Height[b] = Height[Parent[b]] + 1
               /\ Anc[b] = Anc[Parent[b]] \cup {b} /\ b \notin Anc[Parent[b]]
    <2>1. b \in NonGenesis
      BY <1>4 DEF NonGenesis
    <2>2. /\ Parent[b] \in Blocks /\ Height[b] = Height[Parent[b]] + 1 /\ Height[Parent[b]] \in Nat
          /\ Anc[b] = Anc[Parent[b]] \cup {b}
      BY <2>1, TreeAssumption
    <2>3. b # Parent[b]
      BY <2>2
    <2>4. b \in Anc[Parent[b]] => Height[b] < Height[Parent[b]]
      BY <2>2, <2>3, TreeAssumption
    <2> QED
      BY <2>2, <2>4
  <1> QED
    BY <1>1, <1>2, <1>3, <1>4

(* Every height up to that of a block is that of an ancestor. *)
LEMMA AncestorAtHeight ==
    ASSUME NEW b \in Blocks, NEW h \in 0..Height[b]
    PROVE  \E a \in Anc[b] : Height[a] = h
  <1> DEFINE Above == {k \in Nat : k >= h /\ \E a \in Anc[b] : Height[a] = k}
  <1>1. Height[b] \in Above
    BY SelfAncestor, BranchFacts
  <1>2. PICK k \in Above : \A j \in Above : k <= j
    BY <1>1, NatMin
  <1>3. PICK a \in Anc[b] : Height[a] = k
    BY <1>2
  <1>4. CASE k = h
    BY <1>3, <1>4
  <1>5. CASE k > h
    <2>1. a \in Blocks /\ a # Genesis
      BY <1>3, <1>5, BranchFacts, TreeAssumption
    <2>2. Parent[a] \in Anc[b] /\ Height[Parent[a]] = k - 1
      <3>1. Parent[a] \in Blocks /\ Height[a] = Height[Parent[a]] + 1 /\ Anc[a] = Anc[Parent[a]] \cup {a}
        BY <2>1, BranchFacts
      <3>2. Parent[a] \in Anc[a] /\ Anc[a] \subseteq Anc[b] /\ Height[Parent[a]] \in Nat
        BY <2>1, <3>1, SelfAncestor, BranchFacts
      <3> QED
        BY <1>3, <3>1, <3>2
    <2>3. k - 1 \in Above
      BY <1>2, <1>5, <2>2
    <2> QED
      BY <1>2, <2>3
  <1> QED
    BY <1>2, <1>4, <1>5

(* In a finite tree heights stay below the number of blocks. *)
LEMMA HeightBelowCount ==
    ASSUME IsFiniteSet(Blocks)
    PROVE  /\ Cardinality(Blocks) \in Nat
           /\ \A b \in Blocks : Height[b] + 1 \in 1..Cardinality(Blocks)
  <1>1. ASSUME NEW b \in Blocks PROVE IsFiniteSet(Anc[b]) /\ Cardinality(Anc[b]) \in Nat /\ Cardinality(Anc[b]) <= Cardinality(Blocks)
    BY SelfAncestor, FS_Subset, FS_CardinalityType
  <1>2. Cardinality(Blocks) \in Nat
    BY FS_CardinalityType
  <1> DEFINE Wrong == {h \in Nat : \E b \in Blocks : Height[b] = h /\ Cardinality(Anc[b]) # h + 1}
  <1>3. Wrong = {}
    <2> SUFFICES ASSUME Wrong # {} PROVE FALSE
      OBVIOUS
    <2>1. PICK h \in Wrong : \A k \in Wrong : h <= k
      BY NatMin
    <2>2. PICK b \in Blocks : Height[b] = h /\ Cardinality(Anc[b]) # h + 1
      BY <2>1
    <2>3. b # Genesis
      <3>1. Anc[Genesis] = {Genesis} /\ Height[Genesis] = 0
        BY TreeAssumption
      <3>2. Cardinality({Genesis}) = 1
        BY FS_Singleton
      <3>3. b = Genesis => h = 0 /\ Cardinality(Anc[b]) = 1
        BY <2>2, <3>1, <3>2
      <3>4. 1 = 0 + 1
        OBVIOUS
      <3> QED
        BY <2>2, <3>3, <3>4, Zenon
    <2>4. /\ Parent[b] \in Blocks /\ Height[b] = Height[Parent[b]] + 1
          /\ Anc[b] = Anc[Parent[b]] \cup {b} /\ b \notin Anc[Parent[b]]
      BY <2>3, BranchFacts
    <2>5. Cardinality(Anc[b]) = Cardinality(Anc[Parent[b]]) + 1
      BY <1>1, <2>4, FS_AddElement, ZenonT(30)
    <2>6. Height[Parent[b]] \in Nat /\ Cardinality(Anc[Parent[b]]) \in Nat
      BY <1>1, <2>4, BranchFacts
    <2>7. Height[Parent[b]] \in Wrong
      BY <2>2, <2>4, <2>5, <2>6
    <2> QED
      BY <2>1, <2>2, <2>4, <2>6, <2>7
  <1>4. ASSUME NEW b \in Blocks PROVE Height[b] + 1 \in 1..Cardinality(Blocks)
    <2>1. Height[b] \in Nat
      BY BranchFacts
    <2>2. Cardinality(Anc[b]) = Height[b] + 1
      BY <1>3, <2>1
    <2> QED
      BY <1>1, <1>2, <2>1, <2>2
  <1> QED
    BY <1>2, <1>4

-----------------------------------------------------------------------------
(* TxIndex.Init *)

Used(hashOf, i) == i \in DOMAIN hashOf /\ hashOf[i] # NoBlock
Search(hashOf) ==
    CHOOSE s : s = [r \in Nat \X Nat |->
        IF r[1] + 1 = r[2] THEN r[1]
        ELSE IF Used(hashOf, (r[1] + r[2]) \div 2) THEN s[<<(r[1] + r[2]) \div 2, r[2]>>]
        ELSE s[<<r[1], (r[1] + r[2]) \div 2>>]]

(* The binary search ends at the last number in use. *)
LEMMA SearchEnds ==
    ASSUME NEW hashOf, NEW n \in Nat, \A k \in Nat : Used(hashOf, k) <=> 1 <= k /\ k <= n,
           NEW a \in Nat, NEW z \in Nat, a <= n, n < z
    PROVE  Search(hashOf)[<<a, z>>] = n
  <1> DEFINE Mid(r) == (r[1] + r[2]) \div 2
             P(s) == s = [r \in Nat \X Nat |->
                IF r[1] + 1 = r[2] THEN r[1]
                ELSE IF Used(hashOf, (r[1] + r[2]) \div 2) THEN s[<<(r[1] + r[2]) \div 2, r[2]>>]
                ELSE s[<<r[1], (r[1] + r[2]) \div 2>>]]
             S == CHOOSE s : P(s)
             G == [r \in Nat \X Nat |-> IF r[1] >= r[2] THEN 0 ELSE IF r[2] <= n THEN r[2] - 1
                                        ELSE IF r[1] > n THEN r[1] ELSE n]
  <1>1. P(G)
    <2>1. ASSUME NEW lo \in Nat, NEW hi \in Nat, NEW r, r = <<lo, hi>>, NEW mid, mid = (lo + hi) \div 2
          PROVE  G[r] = IF lo + 1 = hi THEN lo ELSE IF Used(hashOf, mid) THEN G[<<mid, hi>>] ELSE G[<<lo, mid>>]
      <3>1. mid \in Nat
        BY <2>1
      <3>2. \A x, y \in Nat : G[<<x, y>>] = IF x >= y THEN 0 ELSE IF y <= n THEN y - 1 ELSE IF x > n THEN x ELSE n
        OBVIOUS
      <3>3. /\ lo < hi => lo <= mid /\ mid < hi
            /\ lo + 1 < hi => lo < mid
            /\ lo >= hi => hi <= mid /\ mid <= lo
        BY <2>1
      <3>4. Used(hashOf, mid) <=> 1 <= mid /\ mid <= n
        BY <3>1
      <3> HIDE DEF G
      <3>5. /\ G[r] = IF lo >= hi THEN 0 ELSE IF hi <= n THEN hi - 1 ELSE IF lo > n THEN lo ELSE n
            /\ G[<<mid, hi>>] = IF mid >= hi THEN 0 ELSE IF hi <= n THEN hi - 1 ELSE IF mid > n THEN mid ELSE n
            /\ G[<<lo, mid>>] = IF lo >= mid THEN 0 ELSE IF mid <= n THEN mid - 1 ELSE IF lo > n THEN lo ELSE n
        BY <2>1, <3>1, <3>2
      <3>6. CASE lo + 1 = hi
        BY <3>5, <3>6
      <3>7. CASE lo + 1 # hi /\ Used(hashOf, mid)
        BY <3>1, <3>3, <3>4, <3>5, <3>7
      <3>8. CASE lo + 1 # hi /\ ~ Used(hashOf, mid)
        BY <3>1, <3>3, <3>4, <3>5, <3>8
      <3> QED
        BY <3>6, <3>7, <3>8
    <2>2. ASSUME NEW r \in Nat \X Nat
          PROVE  G[r] = IF r[1] + 1 = r[2] THEN r[1]
                        ELSE IF Used(hashOf, Mid(r)) THEN G[<<Mid(r), r[2]>>] ELSE G[<<r[1], Mid(r)>>]
      <3> HIDE DEF G
      <3> QED
        BY <2>1
    <2> QED
      BY <2>2
  <1>2. P(S)
    BY <1>1, Zenon
  <1> HIDE DEF S
  <1>3. ASSUME NEW x \in Nat, NEW y \in Nat, NEW m \in Nat, m = (x + y) \div 2
        PROVE  S[<<x, y>>] = IF x + 1 = y THEN x ELSE IF Used(hashOf, m) THEN S[<<m, y>>] ELSE S[<<x, m>>]
    BY <1>2, <1>3
  <1> DEFINE Wrong == {w \in Nat : \E x, y \in Nat : x <= n /\ n < y /\ y - x = w /\ S[<<x, y>>] # n}
  <1>4. Wrong = {}
    <2> SUFFICES ASSUME Wrong # {} PROVE FALSE
      OBVIOUS
    <2>1. PICK w \in Wrong : \A v \in Wrong : w <= v
      BY NatMin
    <2>2. PICK x \in Nat, y \in Nat : x <= n /\ n < y /\ y - x = w /\ S[<<x, y>>] # n
      BY <2>1
    <2>3. PICK m \in Nat : m = (x + y) \div 2
      BY <2>2
    <2>4. S[<<x, y>>] = IF x + 1 = y THEN x ELSE IF Used(hashOf, m) THEN S[<<m, y>>] ELSE S[<<x, m>>]
      BY <1>3, <2>3
    <2>5. x + 1 # y
      BY <2>2, <2>4
    <2>6. x < m /\ m < y
      <3>1. x + 1 < y
        BY <2>2, <2>5
      <3> QED
        BY <2>3, <3>1
    <2>7. CASE m <= n
      <3>1. S[<<m, y>>] # n /\ y - m \in Nat /\ n < y
        BY <2>2, <2>4, <2>5, <2>6, <2>7
      <3>2. y - m \in Wrong
        BY <2>7, <3>1
      <3>3. w <= y - m /\ w = y - x
        BY <2>1, <2>2, <3>2
      <3> QED
        BY <2>6, <3>3
    <2>8. CASE m > n
      <3>1. S[<<x, m>>] # n /\ m - x \in Nat /\ x <= n
        BY <2>2, <2>4, <2>5, <2>6, <2>8
      <3>2. m - x \in Wrong
        BY <2>8, <3>1
      <3>3. w <= m - x /\ w = y - x
        BY <2>1, <2>2, <3>2
      <3> QED
        BY <2>6, <3>3
    <2> QED
      BY <2>7, <2>8
  <1>5. z - a \in Nat
    BY SMT
  <1>6. S[<<a, z>>] = n
    BY <1>4, <1>5
  <1> QED
    BY <1>6 DEF S, Search

(* The forward scan stops beyond the last number in use, at most one gap   *)
(* beyond it, so that TxIndex.Init finds the last number.                  *)
LEMMA HighestIDFound ==
    ASSUME I!IndexAssumption, NEW n \in 0..Cardinality(Blocks), NEW hashOf, DOMAIN hashOf = I!IDs \ {0},
           HashesDense(hashOf, n)
    PROVE  I!HighestID(hashOf) = n
  <1> DEFINE used(i) == i \in DOMAIN hashOf /\ hashOf[i] # NoBlock
             Scanned == {1 + k * Increment : k \in I!IDs}
             Free == {i \in Scanned : ~ used(i)}
             unknown == I!Min(Free)
  <1>1. Cardinality(Blocks) \in Nat /\ Increment \in Nat \ {0} /\ n \in Nat /\ n <= Cardinality(Blocks)
    BY HeightBelowCount, SameCounts DEF I!IndexAssumption
  <1>2. \A k : k \in I!IDs <=> k \in Nat /\ k <= Cardinality(Blocks) + 1
    BY <1>1, SameCounts DEF I!IDs
  <1>3. \A k \in Nat : used(k) <=> 1 <= k /\ k <= n
    BY <1>1, <1>2 DEF HashesDense
  <1>4. \A k \in Nat : k * Increment \in Nat /\ k * Increment >= k
    BY <1>1
  <1>5. Scanned \subseteq Nat
    BY <1>2, <1>4
  <1>6. n \in I!IDs /\ n * Increment \in Nat /\ n * Increment >= n
    BY <1>1, <1>2, <1>4
  <1>7. 1 + n * Increment \in Free
    <2>1. 1 + n * Increment \in Scanned /\ 1 + n * Increment \in Nat /\ ~ (1 + n * Increment <= n)
      BY <1>1, <1>6
    <2> HIDE DEF used
    <2> QED
      BY <1>3, <2>1
  <1>8. unknown \in Free /\ \A i \in Free : unknown <= i
    <2>1. Free \subseteq Nat
      BY <1>5
    <2>2. \E m \in Free : \A i \in Free : m <= i
      BY <1>7, <2>1, NatMin
    <2> HIDE DEF Free
    <2> QED
      BY <2>2 DEF I!Min
  <1> HIDE DEF unknown
  <1>9. unknown \in Nat /\ n < unknown
    <2>1. unknown \in Nat /\ ~ used(unknown) /\ \E k \in I!IDs : unknown = 1 + k * Increment
      BY <1>5, <1>8
    <2>2. 1 <= unknown
      BY <1>2, <1>4, <2>1
    <2> HIDE DEF used
    <2> QED
      BY <1>1, <1>3, <2>1, <2>2
  <1>10. unknown # 1 => unknown - Increment \in Nat /\ unknown - Increment <= n
    <2> SUFFICES ASSUME unknown # 1 PROVE unknown - Increment \in Nat /\ unknown - Increment <= n
      OBVIOUS
    <2>1. PICK k \in I!IDs : unknown = 1 + k * Increment
      BY <1>8
    <2>2. k \in Nat /\ k # 0 /\ k - 1 \in Nat /\ k - 1 \in I!IDs
      BY <1>1, <1>2, <2>1
    <2>3. (k - 1) * Increment = k * Increment - Increment /\ (k - 1) * Increment \in Nat
      BY <1>1, <1>4, <2>2
    <2>4. PICK p \in Nat : p = 1 + (k - 1) * Increment
      BY <2>3
    <2>5. p \in Scanned /\ p = unknown - Increment /\ p < unknown
      BY <1>1, <1>9, <2>1, <2>2, <2>3, <2>4
    <2>6. p \notin Free
      <3> HIDE DEF Free
      <3> QED
        BY <1>8, <1>9, <2>5
    <2>7. used(p)
      BY <2>5, <2>6
    <2> HIDE DEF used
    <2> QED
      BY <1>3, <2>4, <2>5, <2>7
  <1>11. unknown = 1 => n = 0
    BY <1>1, <1>9
  <1> DEFINE S == Search(hashOf)
  <1>12. I!HighestID(hashOf) = IF unknown = 1 THEN 0 ELSE S[<<unknown - Increment, unknown>>]
    BY Zenon DEF I!HighestID, unknown, Search, Used
  <1>13. unknown # 1 => S[<<unknown - Increment, unknown>>] = n
    <2>1. \A k \in Nat : Used(hashOf, k) <=> 1 <= k /\ k <= n
      BY <1>3 DEF Used
    <2> QED
      BY <1>1, <1>9, <1>10, <2>1, SearchEnds
  <1> HIDE DEF S
  <1> QED
    BY <1>11, <1>12, <1>13

-----------------------------------------------------------------------------
(* The indexers *)

LEMMA IDFacts ==
    ASSUME I!IndexAssumption
    PROVE  /\ 0 \in I!IDs /\ I!IDs \subseteq Nat /\ Cardinality(Blocks) \in Nat
           /\ 0..Cardinality(Blocks) \subseteq I!IDs
           /\ \A b \in Blocks : Height[b] \in Nat /\ Height[b] + 1 \in I!IDs \ {0} /\ Height[b] + 1 <= Cardinality(Blocks)
           /\ \A t : Count(t) \in I!IDs /\ Count(t) \in 0..Cardinality(Blocks)
           /\ NoBlock \notin Blocks /\ NoTip \notin Blocks /\ NoTip # NoBlock
  <1>1. IsFiniteSet(Blocks) /\ I!IDs = 0..(Cardinality(Blocks) + 1)
    BY SameCounts DEF I!IndexAssumption, I!IDs
  <1>2. Cardinality(Blocks) \in Nat /\ \A b \in Blocks : Height[b] + 1 \in 1..Cardinality(Blocks)
    BY <1>1, HeightBelowCount
  <1>3. \A b \in Blocks : Height[b] \in Nat
    BY BranchFacts
  <1>4. \A b \in Blocks : Height[b] \in Nat /\ Height[b] + 1 \in I!IDs \ {0} /\ Height[b] + 1 <= Cardinality(Blocks)
    BY <1>1, <1>2, <1>3
  <1>5. 0 \in I!IDs /\ I!IDs \subseteq Nat /\ 0..Cardinality(Blocks) \subseteq I!IDs
    BY <1>1, <1>2
  <1>6. \A t : Count(t) \in I!IDs /\ Count(t) \in 0..Cardinality(Blocks)
    BY <1>2, <1>3, <1>4, <1>5 DEF Count
  <1>7. NoBlock \notin Blocks /\ NoTip \notin Blocks /\ NoTip # NoBlock
    BY TreeAssumption DEF I!IndexAssumption
  <1> QED
    BY <1>2, <1>4, <1>5, <1>6, <1>7

(* Records keep their fields. *)
LEMMA SetTip ==
    ASSUME NEW d, Rows(d), NEW i, NEW b, NEW e, e = [d EXCEPT !.tip[i] = b]
    PROVE  /\ Rows(e) /\ e.tip = [d.tip EXCEPT ![i] = b] /\ e.drop = d.drop /\ e.bucket = d.bucket
           /\ e.ids = d.ids /\ e.tx = d.tx /\ e.idOf = d.idOf /\ e.hashOf = d.hashOf /\ e.header = d.header
  <1>1. e = [tip |-> [d.tip EXCEPT ![i] = b], drop |-> d.drop, bucket |-> d.bucket, ids |-> d.ids, tx |-> d.tx,
             idOf |-> d.idOf, hashOf |-> d.hashOf, addr |-> d.addr, header |-> d.header]
    BY DEF Rows
  <1> QED
    BY <1>1 DEF Rows

ConnectedRows(e, d, m, i, b) ==
    /\ Rows(e) /\ e.tip = [d.tip EXCEPT ![i] = b]
    /\ e.drop = d.drop /\ e.bucket = d.bucket /\ e.ids = d.ids
    /\ i = "tx" =>
         /\ e.tx = [t \in Txs |-> IF t \in I!ToSet(TxsOf[b]) THEN m.cur + 1 ELSE d.tx[t]]
         /\ e.idOf = [d.idOf EXCEPT ![b] = m.cur + 1]
         /\ e.hashOf = [d.hashOf EXCEPT ![m.cur + 1] = b]
    /\ i # "tx" => e.tx = d.tx /\ e.idOf = d.idOf /\ e.hashOf = d.hashOf
    /\ i = "cf" =>
         e.header = [d.header EXCEPT ![b] = {b} \cup (IF b = Genesis THEN {} ELSE d.header[Parent[b]])]
    /\ i # "cf" => e.header = d.header

LEMMA ConnectFields ==
    ASSUME NEW d, NEW m, Rows(d), Memory(m), NEW i \in I!Indexes, NEW b,
           NEW e, e = I!IndexConnect([d |-> d, m |-> m], i, b).d
    PROVE  ConnectedRows(e, d, m, i, b)
  <1> USE DEF ConnectedRows
  <1>1. CASE i = "tx"
    <2>1. e = [I!TxConnectBlock(d, m, b) EXCEPT !.tip[i] = b]
      BY <1>1 DEF I!IndexConnect
    <2>2. PICK x : x = [t \in Txs |-> IF t \in I!ToSet(TxsOf[b]) THEN m.cur + 1 ELSE d.tx[t]]
      OBVIOUS
    <2>3. I!AddTxIndexEntries(d, b, m.cur + 1) = [d EXCEPT !.tx = x]
      BY <2>2 DEF I!AddTxIndexEntries
    <2>4. I!TxConnectBlock(d, m, b) = [[d EXCEPT !.tx = x] EXCEPT !.idOf[b] = m.cur + 1, !.hashOf[m.cur + 1] = b]
      BY <2>3 DEF I!TxConnectBlock, I!PutBlockIDIndexEntry
    <2>5. PICK y : y = I!TxConnectBlock(d, m, b)
      OBVIOUS
    <2>6. y = [tip |-> d.tip, drop |-> d.drop, bucket |-> d.bucket, ids |-> d.ids, tx |-> x,
               idOf |-> [d.idOf EXCEPT ![b] = m.cur + 1], hashOf |-> [d.hashOf EXCEPT ![m.cur + 1] = b],
               addr |-> d.addr, header |-> d.header]
      BY <2>4, <2>5 DEF Rows
    <2>7. /\ Rows(y) /\ y.tip = d.tip /\ y.drop = d.drop /\ y.bucket = d.bucket /\ y.ids = d.ids /\ y.tx = x
          /\ y.idOf = [d.idOf EXCEPT ![b] = m.cur + 1] /\ y.hashOf = [d.hashOf EXCEPT ![m.cur + 1] = b]
          /\ y.header = d.header
      BY <2>6 DEF Rows
    <2> QED
      BY <1>1, <2>1, <2>2, <2>5, <2>7, SetTip, SMTT(30)
  <1>2. CASE i = "addr"
    <2>1. PICK a : I!AddrConnectBlock(d, b) = [d EXCEPT !.addr = a]
      BY DEF I!AddrConnectBlock
    <2>2. e = [I!AddrConnectBlock(d, b) EXCEPT !.tip[i] = b]
      BY <1>2 DEF I!IndexConnect
    <2>3. PICK y : y = [d EXCEPT !.addr = a]
      OBVIOUS
    <2>4. /\ Rows(y) /\ y.tip = d.tip /\ y.drop = d.drop /\ y.bucket = d.bucket /\ y.ids = d.ids /\ y.tx = d.tx
          /\ y.idOf = d.idOf /\ y.hashOf = d.hashOf /\ y.header = d.header
      BY <2>3 DEF Rows
    <2>5. e = [y EXCEPT !.tip[i] = b]
      BY <2>1, <2>2, <2>3
    <2> QED
      BY <1>2, <2>4, <2>5, SetTip
  <1>3. CASE i = "cf"
    <2>1. e = [I!CfConnectBlock(d, b) EXCEPT !.tip[i] = b]
      BY <1>3 DEF I!IndexConnect
    <2>2. PICK h : h = [d.header EXCEPT ![b] = {b} \cup (IF b = Genesis THEN {} ELSE d.header[Parent[b]])]
      OBVIOUS
    <2>3. e = [tip |-> [d.tip EXCEPT ![i] = b], drop |-> d.drop, bucket |-> d.bucket, ids |-> d.ids, tx |-> d.tx,
               idOf |-> d.idOf, hashOf |-> d.hashOf, addr |-> d.addr, header |-> h]
      BY <2>1, <2>2 DEF Rows, I!CfConnectBlock
    <2> QED
      BY <1>3, <2>2, <2>3 DEF Rows
  <1> QED
    BY <1>1, <1>2, <1>3 DEF I!Indexes

LEMMA ConnectMemory ==
    ASSUME NEW d, NEW m, Memory(m), NEW i \in I!Indexes, NEW b,
           NEW n, n = I!IndexConnect([d |-> d, m |-> m], i, b).m
    PROVE  n = [phase |-> m.phase, enabled |-> m.enabled, cur |-> IF i = "tx" THEN m.cur + 1 ELSE m.cur,
                height |-> m.height, dropping |-> m.dropping, starts |-> m.starts, drops |-> m.drops]
  <1>1. I!IndexConnect([d |-> d, m |-> m], i, b).m = IF i = "tx" THEN [m EXCEPT !.cur = m.cur + 1] ELSE m
    BY DEF I!IndexConnect
  <1> QED
    BY <1>1 DEF Memory

DisconnectedRows(e, d, m, i, b) ==
    /\ Rows(e) /\ e.tip = [d.tip EXCEPT ![i] = I!Prev(b)]
    /\ e.drop = d.drop /\ e.bucket = d.bucket /\ e.ids = d.ids
    /\ i = "tx" =>
         /\ e.tx = [t \in Txs |-> IF t \in I!ToSet(TxsOf[b]) THEN 0 ELSE d.tx[t]]
         /\ e.idOf = [d.idOf EXCEPT ![b] = 0]
         /\ e.hashOf = [d.hashOf EXCEPT ![d.idOf[b]] = NoBlock]
    /\ i # "tx" => e.tx = d.tx /\ e.idOf = d.idOf /\ e.hashOf = d.hashOf
    /\ i = "cf" => e.header = [d.header EXCEPT ![b] = {}]
    /\ i # "cf" => e.header = d.header

LEMMA DisconnectFields ==
    ASSUME NEW d, NEW m, Rows(d), Memory(m), NEW i \in I!Indexes, NEW b,
           NEW e, e = I!IndexDisconnect([d |-> d, m |-> m], i, b).d
    PROVE  DisconnectedRows(e, d, m, i, b)
  <1> USE DEF DisconnectedRows
  <1> DEFINE p == I!Prev(b)
  <1> HIDE DEF p
  <1>1. CASE i = "tx"
    <2>1. e = [I!TxDisconnectBlock(d, b) EXCEPT !.tip[i] = p]
      BY <1>1 DEF I!IndexDisconnect, p
    <2>2. PICK x : x = [t \in Txs |-> IF t \in I!ToSet(TxsOf[b]) THEN 0 ELSE d.tx[t]]
      OBVIOUS
    <2>3. I!RemoveTxIndexEntries(d, b) = [d EXCEPT !.tx = x]
      BY <2>2 DEF I!RemoveTxIndexEntries, I!AddTxIndexEntries
    <2>4. I!TxDisconnectBlock(d, b)
            = [[d EXCEPT !.tx = x] EXCEPT !.idOf[b] = 0, !.hashOf[[d EXCEPT !.tx = x].idOf[b]] = NoBlock]
      BY <2>3 DEF I!TxDisconnectBlock, I!RemoveBlockIDIndexEntry
    <2>5. [d EXCEPT !.tx = x].idOf[b] = d.idOf[b]
      BY DEF Rows
    <2>6. PICK y : y = I!TxDisconnectBlock(d, b)
      OBVIOUS
    <2>7. y = [tip |-> d.tip, drop |-> d.drop, bucket |-> d.bucket, ids |-> d.ids, tx |-> x,
               idOf |-> [d.idOf EXCEPT ![b] = 0], hashOf |-> [d.hashOf EXCEPT ![d.idOf[b]] = NoBlock],
               addr |-> d.addr, header |-> d.header]
      BY <2>4, <2>5, <2>6 DEF Rows
    <2>8. /\ Rows(y) /\ y.tip = d.tip /\ y.drop = d.drop /\ y.bucket = d.bucket /\ y.ids = d.ids /\ y.tx = x
          /\ y.idOf = [d.idOf EXCEPT ![b] = 0] /\ y.hashOf = [d.hashOf EXCEPT ![d.idOf[b]] = NoBlock]
          /\ y.header = d.header
      BY <2>7 DEF Rows
    <2> QED
      BY <1>1, <2>1, <2>2, <2>6, <2>8, SetTip DEF p
  <1>2. CASE i = "addr"
    <2>1. PICK a : I!AddrDisconnectBlock(d, b) = [d EXCEPT !.addr = a]
      BY DEF I!AddrDisconnectBlock
    <2>2. e = [I!AddrDisconnectBlock(d, b) EXCEPT !.tip[i] = p]
      BY <1>2 DEF I!IndexDisconnect, p
    <2>3. PICK y : y = [d EXCEPT !.addr = a]
      OBVIOUS
    <2>4. /\ Rows(y) /\ y.tip = d.tip /\ y.drop = d.drop /\ y.bucket = d.bucket /\ y.ids = d.ids /\ y.tx = d.tx
          /\ y.idOf = d.idOf /\ y.hashOf = d.hashOf /\ y.header = d.header
      BY <2>3 DEF Rows
    <2>5. e = [y EXCEPT !.tip[i] = p]
      BY <2>1, <2>2, <2>3
    <2> QED
      BY <1>2, <2>4, <2>5, SetTip DEF p
  <1>3. CASE i = "cf"
    <2>1. e = [I!CfDisconnectBlock(d, b) EXCEPT !.tip[i] = p]
      BY <1>3 DEF I!IndexDisconnect, p
    <2>2. PICK y : y = I!CfDisconnectBlock(d, b)
      OBVIOUS
    <2>3. /\ Rows(y) /\ y.tip = d.tip /\ y.drop = d.drop /\ y.bucket = d.bucket /\ y.ids = d.ids /\ y.tx = d.tx
          /\ y.idOf = d.idOf /\ y.hashOf = d.hashOf /\ y.header = [d.header EXCEPT ![b] = {}]
      BY <2>2 DEF Rows, I!CfDisconnectBlock
    <2> QED
      BY <1>3, <2>1, <2>2, <2>3, SetTip DEF p
  <1> QED
    BY <1>1, <1>2, <1>3 DEF I!Indexes

LEMMA DisconnectMemory ==
    ASSUME NEW d, NEW m, Memory(m), NEW i \in I!Indexes, NEW b,
           NEW n, n = I!IndexDisconnect([d |-> d, m |-> m], i, b).m
    PROVE  n = [phase |-> m.phase, enabled |-> m.enabled, cur |-> IF i = "tx" THEN m.cur - 1 ELSE m.cur,
                height |-> m.height, dropping |-> m.dropping, starts |-> m.starts, drops |-> m.drops]
  <1>1. I!IndexDisconnect([d |-> d, m |-> m], i, b).m = IF i = "tx" THEN [m EXCEPT !.cur = m.cur - 1] ELSE m
    BY DEF I!IndexDisconnect
  <1> QED
    BY <1>1 DEF Memory

LEMMA PrevFacts ==
    ASSUME NEW b \in Blocks
    PROVE  /\ Covered(b) = Covered(I!Prev(b)) \cup {b} /\ b \notin Covered(I!Prev(b))
           /\ Count(b) = Count(I!Prev(b)) + 1 /\ Count(b) = Height[b] + 1 /\ Height[b] \in Nat
           /\ I!Prev(b) \in Blocks \cup {NoBlock}
           /\ b # Genesis => I!Prev(b) = Parent[b] /\ I!Prev(b) \in Blocks
           /\ Covered(b) = Anc[b] /\ Covered(b) \subseteq Blocks
           /\ \A a \in Covered(I!Prev(b)) : a \in Blocks /\ Height[a] \in Nat /\ Height[a] < Height[b]
  <1>1. Height[b] \in Nat /\ Anc[b] \subseteq Blocks
    BY BranchFacts, SelfAncestor
  <1>2. CASE b = Genesis
    <2>1. I!Prev(b) = NoBlock /\ NoBlock \notin Blocks /\ Anc[b] = {b} /\ Height[b] = 0
      BY <1>2, TreeAssumption DEF I!Prev
    <2> QED
      BY <1>1, <1>2, <2>1 DEF Covered, Count
  <1>3. CASE b # Genesis
    <2>1. /\ Parent[b] \in Blocks /\ Height[b] = Height[Parent[b]] + 1 /\ I!Prev(b) = Parent[b]
          /\ Anc[b] = Anc[Parent[b]] \cup {b} /\ b \notin Anc[Parent[b]]
      BY <1>3, BranchFacts DEF I!Prev
    <2>2. Height[Parent[b]] \in Nat /\ \A a \in Anc[Parent[b]] : a \in Blocks /\ Height[a] \in 0..Height[Parent[b]]
      BY <2>1, BranchFacts
    <2>3. \A a \in Anc[Parent[b]] : a \in Blocks /\ Height[a] \in Nat /\ Height[a] < Height[b]
      BY <2>1, <2>2
    <2> QED
      BY <1>1, <1>3, <2>1, <2>2, <2>3 DEF Covered, Count
  <1> QED
    BY <1>2, <1>3

(* A block connected on top of the tip of an index, or disconnected from   *)
(* it, leaves the rows of the new tip.                                     *)
LEMMA TxConnectExact ==
    ASSUME I!IndexAssumption, NEW d, RowsOK(d), NEW e, NEW b \in Blocks, NEW t, t = I!Prev(b), TxRowsExact(d, t),
           NEW c, c = Count(b),
           e.tx = [x \in Txs |-> IF x \in I!ToSet(TxsOf[b]) THEN c ELSE d.tx[x]],
           e.idOf = [d.idOf EXCEPT ![b] = c], e.hashOf = [d.hashOf EXCEPT ![c] = b]
    PROVE  TxRowsExact(e, b)
  <1>1. /\ Covered(b) = Covered(t) \cup {b} /\ b \notin Covered(t) /\ Count(b) = Count(t) + 1 /\ c = Height[b] + 1
        /\ Height[b] \in Nat /\ Covered(b) \subseteq Blocks
        /\ \A a \in Covered(t) : a \in Blocks /\ Height[a] \in Nat /\ Height[a] < Height[b]
    BY PrevFacts
  <1>2. c \in I!IDs \ {0} /\ I!IDs \subseteq Nat /\ NoBlock \notin Blocks /\ Count(t) \in Nat /\ c = Count(t) + 1
    BY <1>1, IDFacts
  <1>3. ASSUME NEW a \in Blocks PROVE e.idOf[a] = IF a \in Covered(b) THEN Height[a] + 1 ELSE 0
    BY <1>1, <1>3 DEF TxRowsExact, RowsOK
  <1>4. ASSUME NEW k \in I!IDs \ {0}
        PROVE  /\ e.hashOf[k] # NoBlock => e.hashOf[k] \in Covered(b) /\ Height[e.hashOf[k]] + 1 = k
               /\ e.hashOf[k] # NoBlock <=> k <= Count(b)
    <2>1. e.hashOf[k] = IF k = c THEN b ELSE d.hashOf[k]
      BY <1>2 DEF RowsOK
    <2>2. d.hashOf[k] # NoBlock <=> k <= Count(t)
      BY DEF TxRowsExact, HashesDense
    <2>3. k \in Nat
      BY <1>2
    <2>4. d.hashOf[k] # NoBlock => d.hashOf[k] \in Covered(t) /\ Height[d.hashOf[k]] + 1 = k
      BY DEF TxRowsExact
    <2> QED
      BY <1>1, <1>2, <2>1, <2>2, <2>3, <2>4
  <1>5. ASSUME NEW x \in Txs
        PROVE  IF e.tx[x] = 0 THEN \A a \in Covered(b) : x \notin I!ToSet(TxsOf[a])
               ELSE \E a \in Covered(b) : x \in I!ToSet(TxsOf[a]) /\ e.tx[x] = Height[a] + 1
    <2>1. e.tx[x] = IF x \in I!ToSet(TxsOf[b]) THEN c ELSE d.tx[x]
      OBVIOUS
    <2>2. IF d.tx[x] = 0 THEN \A a \in Covered(t) : x \notin I!ToSet(TxsOf[a])
          ELSE \E a \in Covered(t) : x \in I!ToSet(TxsOf[a]) /\ d.tx[x] = Height[a] + 1
      BY DEF TxRowsExact
    <2>3. c # 0
      BY <1>2
    <2> QED
      BY <1>1, <2>1, <2>2, <2>3
  <1> QED
    BY <1>3, <1>4, <1>5 DEF TxRowsExact, HashesDense

LEMMA TxDisconnectExact ==
    ASSUME I!IndexAssumption, NEW d, RowsOK(d), NEW e, NEW b \in Blocks, NEW t, t = I!Prev(b), TxRowsExact(d, b),
           e.tx = [x \in Txs |-> IF x \in I!ToSet(TxsOf[b]) THEN 0 ELSE d.tx[x]],
           e.idOf = [d.idOf EXCEPT ![b] = 0], e.hashOf = [d.hashOf EXCEPT ![d.idOf[b]] = NoBlock]
    PROVE  TxRowsExact(e, t)
  <1> DEFINE c == Height[b] + 1
  <1>1. /\ Covered(b) = Covered(t) \cup {b} /\ b \notin Covered(t) /\ Count(b) = Count(t) + 1 /\ Count(b) = c
        /\ Height[b] \in Nat /\ Covered(b) \subseteq Blocks /\ Covered(b) = Anc[b]
        /\ \A a \in Covered(t) : a \in Blocks /\ Height[a] \in Nat /\ Height[a] < Height[b]
    BY PrevFacts
  <1>2. c \in I!IDs \ {0} /\ I!IDs \subseteq Nat /\ NoBlock \notin Blocks /\ Count(t) \in Nat /\ c = Count(t) + 1
    BY <1>1, IDFacts
  <1>3. d.idOf[b] = c
    BY <1>1 DEF TxRowsExact
  <1> HIDE DEF c
  <1>4. ASSUME NEW a \in Blocks PROVE e.idOf[a] = IF a \in Covered(t) THEN Height[a] + 1 ELSE 0
    BY <1>1, <1>4 DEF TxRowsExact, RowsOK
  <1>5. ASSUME NEW k \in I!IDs \ {0}
        PROVE  /\ e.hashOf[k] # NoBlock => e.hashOf[k] \in Covered(t) /\ Height[e.hashOf[k]] + 1 = k
               /\ e.hashOf[k] # NoBlock <=> k <= Count(t)
    <2>1. e.hashOf[k] = IF k = c THEN NoBlock ELSE d.hashOf[k]
      BY <1>2, <1>3 DEF RowsOK
    <2>2. d.hashOf[k] # NoBlock <=> k <= Count(b)
      BY DEF TxRowsExact, HashesDense
    <2>3. k \in Nat
      BY <1>2
    <2>4. d.hashOf[k] # NoBlock => d.hashOf[k] \in Covered(b) /\ Height[d.hashOf[k]] + 1 = k
      BY DEF TxRowsExact
    <2>5. Height[b] + 1 = c
      BY DEF c
    <2> QED
      BY <1>1, <1>2, <2>1, <2>2, <2>3, <2>4, <2>5
  <1>6. ASSUME NEW x \in Txs
        PROVE  IF e.tx[x] = 0 THEN \A a \in Covered(t) : x \notin I!ToSet(TxsOf[a])
               ELSE \E a \in Covered(t) : x \in I!ToSet(TxsOf[a]) /\ e.tx[x] = Height[a] + 1
    <2>1. e.tx[x] = IF x \in I!ToSet(TxsOf[b]) THEN 0 ELSE d.tx[x]
      OBVIOUS
    <2>2. IF d.tx[x] = 0 THEN \A a \in Covered(b) : x \notin I!ToSet(TxsOf[a])
          ELSE \E a \in Covered(b) : x \in I!ToSet(TxsOf[a]) /\ d.tx[x] = Height[a] + 1
      BY DEF TxRowsExact
    <2>3. \A a \in Covered(t) : I!ToSet(TxsOf[a]) \cap I!ToSet(TxsOf[b]) = {}
      BY <1>1 DEF I!IndexAssumption
    <2>4. CASE x \in I!ToSet(TxsOf[b])
      BY <2>1, <2>3, <2>4
    <2>5. CASE x \notin I!ToSet(TxsOf[b])
      BY <1>1, <2>1, <2>2, <2>5
    <2> QED
      BY <2>4, <2>5
  <1> QED
    BY <1>4, <1>5, <1>6 DEF TxRowsExact, HashesDense

LEMMA CfConnectExact ==
    ASSUME NEW d, RowsOK(d), NEW e, NEW b \in Blocks, NEW t, t = I!Prev(b), CfRowsExact(d, t),
           e.header = [d.header EXCEPT ![b] = {b} \cup (IF b = Genesis THEN {} ELSE d.header[Parent[b]])]
    PROVE  CfRowsExact(e, b)
  <1>1. /\ Covered(b) = Covered(t) \cup {b} /\ b \notin Covered(t) /\ Covered(b) = Anc[b]
        /\ b # Genesis => t = Parent[b] /\ t \in Blocks
    BY PrevFacts
  <1>2. {b} \cup (IF b = Genesis THEN {} ELSE d.header[Parent[b]]) = Anc[b]
    <2>1. CASE b = Genesis
      BY <2>1, TreeAssumption
    <2>2. CASE b # Genesis
      <3>1. d.header[t] = Anc[t] /\ Anc[b] = Anc[t] \cup {b}
        BY <1>1, <2>2, SelfAncestor, BranchFacts DEF CfRowsExact, Covered
      <3> QED
        BY <1>1, <2>2, <3>1
    <2> QED
      BY <2>1, <2>2
  <1>3. ASSUME NEW a \in Blocks PROVE e.header[a] = IF a \in Covered(b) THEN Anc[a] ELSE {}
    BY <1>1, <1>2, <1>3 DEF CfRowsExact, RowsOK
  <1> QED
    BY <1>3 DEF CfRowsExact

LEMMA CfDisconnectExact ==
    ASSUME NEW d, RowsOK(d), NEW e, NEW b \in Blocks, NEW t, t = I!Prev(b), CfRowsExact(d, b),
           e.header = [d.header EXCEPT ![b] = {}]
    PROVE  CfRowsExact(e, t)
  <1>1. Covered(b) = Covered(t) \cup {b} /\ b \notin Covered(t)
    BY PrevFacts
  <1>2. ASSUME NEW a \in Blocks PROVE e.header[a] = IF a \in Covered(t) THEN Anc[a] ELSE {}
    BY <1>1, <1>2 DEF CfRowsExact, RowsOK
  <1> QED
    BY <1>2 DEF CfRowsExact

-----------------------------------------------------------------------------
(* The manager.  A pair of rows and memory, one index at a time *)

StateOK(s) == s = [d |-> s.d, m |-> s.m] /\ RowsOK(s.d) /\ MemoryOK(s.m) /\ RowsOfTips(s.d)

SameRun(n, m) ==
    /\ n.phase = m.phase /\ n.enabled = m.enabled /\ n.height = m.height /\ n.dropping = m.dropping
    /\ n.starts = m.starts /\ n.drops = m.drops

LEMMA IndexConnectOK ==
    ASSUME I!IndexAssumption, NEW s, StateOK(s), NEW i \in I!Indexes, NEW b \in Blocks,
           i \notin s.d.drop, s.d.tip[i] = I!Prev(b), i = "tx" => s.m.cur = Count(s.d.tip["tx"]),
           NEW r, r = I!IndexConnect(s, i, b)
    PROVE  /\ StateOK(r) /\ SameRun(r.m, s.m)
           /\ r.d.tip = [s.d.tip EXCEPT ![i] = b] /\ r.d.drop = s.d.drop /\ r.d.bucket = s.d.bucket
           /\ r.m.cur = IF i = "tx" THEN Count(b) ELSE s.m.cur
           /\ i # "tx" => r.d.idOf = s.d.idOf
  <1> DEFINE d == s.d
             m == s.m
             e == r.d
             n == r.m
  <1>1. Rows(d) /\ Memory(m) /\ RowsOK(d) /\ MemoryOK(m) /\ RowsOfTips(d)
    BY DEF StateOK, RowsOK, MemoryOK
  <1>2. s = [d |-> d, m |-> m]
    BY DEF StateOK
  <1>3. r = [d |-> e, m |-> n]
    BY DEF I!IndexConnect
  <1>4. e = I!IndexConnect([d |-> d, m |-> m], i, b).d /\ n = I!IndexConnect([d |-> d, m |-> m], i, b).m
    BY <1>2
  <1> HIDE DEF d, m, e, n
  <1>5. n = [phase |-> m.phase, enabled |-> m.enabled, cur |-> IF i = "tx" THEN m.cur + 1 ELSE m.cur,
             height |-> m.height, dropping |-> m.dropping, starts |-> m.starts, drops |-> m.drops]
    BY <1>1, <1>4, ConnectMemory
  <1>6. /\ Rows(e) /\ e.tip = [d.tip EXCEPT ![i] = b]
        /\ e.drop = d.drop /\ e.bucket = d.bucket /\ e.ids = d.ids
        /\ i = "tx" =>
            /\ e.tx = [t \in Txs |-> IF t \in I!ToSet(TxsOf[b]) THEN m.cur + 1 ELSE d.tx[t]]
            /\ e.idOf = [d.idOf EXCEPT ![b] = m.cur + 1]
            /\ e.hashOf = [d.hashOf EXCEPT ![m.cur + 1] = b]
        /\ i # "tx" => e.tx = d.tx /\ e.idOf = d.idOf /\ e.hashOf = d.hashOf
        /\ i = "cf" =>
            e.header = [d.header EXCEPT ![b] = {b} \cup (IF b = Genesis THEN {} ELSE d.header[Parent[b]])]
        /\ i # "cf" => e.header = d.header
    <2>1. ConnectedRows(e, d, m, i, b)
      BY <1>1, <1>4, ConnectFields
    <2> QED
      BY <2>1 DEF ConnectedRows
  <1>7. i = "tx" => m.cur + 1 = Count(b) /\ Count(b) \in I!IDs \ {0}
    <2>1. Count(b) = Count(I!Prev(b)) + 1 /\ Count(b) = Height[b] + 1 /\ Height[b] \in Nat
      BY PrevFacts
    <2> QED
      BY <2>1, IDFacts DEF d, m
  <1>8. n = [phase |-> m.phase, enabled |-> m.enabled, cur |-> IF i = "tx" THEN Count(b) ELSE m.cur,
             height |-> m.height, dropping |-> m.dropping, starts |-> m.starts, drops |-> m.drops]
    BY <1>5, <1>7
  <1>9. MemoryOK(n) /\ SameRun(n, m) /\ n.cur = IF i = "tx" THEN Count(b) ELSE m.cur
    BY <1>1, <1>7, <1>8 DEF MemoryOK, Memory, SameRun
  <1>10. RowsOK(e)
    <2>1. e.tip \in [I!Indexes -> Blocks \cup {NoBlock, NoTip}]
      BY <1>1, <1>6 DEF RowsOK
    <2>2. e.tx \in [Txs -> I!IDs] /\ e.idOf \in [Blocks -> I!IDs] /\ e.hashOf \in [I!IDs \ {0} -> Blocks \cup {NoBlock}]
      BY <1>1, <1>6, <1>7 DEF RowsOK
    <2>3. e.header \in [Blocks -> SUBSET Blocks]
      <3>1. b # Genesis => Parent[b] \in Blocks
        BY BranchFacts
      <3>2. {b} \cup (IF b = Genesis THEN {} ELSE d.header[Parent[b]]) \in SUBSET Blocks
        BY <1>1, <3>1 DEF RowsOK
      <3> QED
        BY <1>1, <1>6, <3>2 DEF RowsOK
    <2> QED
      BY <1>1, <1>6, <2>1, <2>2, <2>3 DEF RowsOK
  <1>11. RowsOfTips(e)
    <2>1. e.drop \subseteq {j \in I!Indexes : e.tip[j] # NoTip}
      BY <1>1, <1>6, IDFacts DEF RowsOfTips, RowsOK
    <2>2. e.tip[i] = b /\ \A j \in I!Indexes : j # i => e.tip[j] = d.tip[j]
      BY <1>1, <1>6 DEF RowsOK
    <2>3. "tx" \in I!Indexes /\ "cf" \in I!Indexes
      BY DEF I!Indexes
    <2>4. i # "tx" /\ "tx" \notin e.drop => TxRowsExact(e, e.tip["tx"])
      BY <1>1, <1>6, <2>2, <2>3 DEF RowsOfTips, TxRowsExact
    <2>5. i = "tx" => TxRowsExact(e, e.tip["tx"])
      <3> SUFFICES ASSUME i = "tx" PROVE TxRowsExact(e, b)
        BY <2>2
      <3>1. TxRowsExact(d, I!Prev(b))
        BY <1>1 DEF RowsOfTips, d
      <3> QED
        BY <1>1, <1>6, <1>7, <3>1, TxConnectExact
    <2>6. i # "cf" /\ "cf" \notin e.drop => CfRowsExact(e, e.tip["cf"])
      BY <1>1, <1>6, <2>2, <2>3 DEF RowsOfTips, CfRowsExact
    <2>7. i = "cf" => CfRowsExact(e, e.tip["cf"])
      <3> SUFFICES ASSUME i = "cf" PROVE CfRowsExact(e, b)
        BY <2>2
      <3>1. CfRowsExact(d, I!Prev(b))
        BY <1>1 DEF RowsOfTips, d
      <3> QED
        BY <1>1, <1>6, <3>1, CfConnectExact
    <2>8. \E k \in 0..Cardinality(Blocks) : HashesDense(e.hashOf, k)
      <3>1. i # "tx" => e.hashOf = d.hashOf
        BY <1>6
      <3>2. i = "tx" => HashesDense(e.hashOf, Count(e.tip["tx"])) /\ Count(e.tip["tx"]) \in 0..Cardinality(Blocks)
        BY <2>5, IDFacts DEF TxRowsExact
      <3> QED
        BY <1>1, <3>1, <3>2 DEF RowsOfTips
    <2> QED
      BY <2>1, <2>4, <2>5, <2>6, <2>7, <2>8 DEF RowsOfTips
  <1> QED
    BY <1>3, <1>6, <1>9, <1>10, <1>11 DEF StateOK, d, m, e, n

LEMMA IndexDisconnectOK ==
    ASSUME I!IndexAssumption, NEW s, StateOK(s), NEW i \in I!Indexes, NEW b \in Blocks,
           i \notin s.d.drop, s.d.tip[i] = b, i = "tx" => s.m.cur = Count(s.d.tip["tx"]),
           NEW r, r = I!IndexDisconnect(s, i, b)
    PROVE  /\ StateOK(r) /\ SameRun(r.m, s.m)
           /\ r.d.tip = [s.d.tip EXCEPT ![i] = I!Prev(b)] /\ r.d.drop = s.d.drop /\ r.d.bucket = s.d.bucket
           /\ r.m.cur = IF i = "tx" THEN Count(I!Prev(b)) ELSE s.m.cur
  <1> DEFINE d == s.d
             m == s.m
             e == r.d
             n == r.m
             p == I!Prev(b)
  <1>1. Rows(d) /\ Memory(m) /\ RowsOK(d) /\ MemoryOK(m) /\ RowsOfTips(d)
    BY DEF StateOK, RowsOK, MemoryOK
  <1>2. s = [d |-> d, m |-> m]
    BY DEF StateOK
  <1>3. r = [d |-> e, m |-> n]
    BY DEF I!IndexDisconnect
  <1>4. e = I!IndexDisconnect([d |-> d, m |-> m], i, b).d /\ n = I!IndexDisconnect([d |-> d, m |-> m], i, b).m
    BY <1>2
  <1> HIDE DEF d, m, e, n
  <1>5. n = [phase |-> m.phase, enabled |-> m.enabled, cur |-> IF i = "tx" THEN m.cur - 1 ELSE m.cur,
             height |-> m.height, dropping |-> m.dropping, starts |-> m.starts, drops |-> m.drops]
    BY <1>1, <1>4, DisconnectMemory
  <1>6. /\ Rows(e) /\ e.tip = [d.tip EXCEPT ![i] = p]
        /\ e.drop = d.drop /\ e.bucket = d.bucket /\ e.ids = d.ids
        /\ i = "tx" =>
            /\ e.tx = [t \in Txs |-> IF t \in I!ToSet(TxsOf[b]) THEN 0 ELSE d.tx[t]]
            /\ e.idOf = [d.idOf EXCEPT ![b] = 0]
            /\ e.hashOf = [d.hashOf EXCEPT ![d.idOf[b]] = NoBlock]
        /\ i # "tx" => e.tx = d.tx /\ e.idOf = d.idOf /\ e.hashOf = d.hashOf
        /\ i = "cf" => e.header = [d.header EXCEPT ![b] = {}]
        /\ i # "cf" => e.header = d.header
    <2>1. DisconnectedRows(e, d, m, i, b)
      BY <1>1, <1>4, DisconnectFields
    <2> QED
      BY <2>1 DEF DisconnectedRows
  <1>7. i = "tx" => m.cur - 1 = Count(p)
    <2>1. Count(b) = Count(p) + 1 /\ Count(p) \in Nat
      BY PrevFacts, IDFacts
    <2> QED
      BY <2>1 DEF d, m
  <1>7a. Count(p) \in I!IDs /\ 0 \in I!IDs /\ p \in Blocks \cup {NoBlock}
    BY PrevFacts, IDFacts
  <1> HIDE DEF p
  <1>8. n = [phase |-> m.phase, enabled |-> m.enabled, cur |-> IF i = "tx" THEN Count(p) ELSE m.cur,
             height |-> m.height, dropping |-> m.dropping, starts |-> m.starts, drops |-> m.drops]
    BY <1>5, <1>7
  <1>9. MemoryOK(n) /\ SameRun(n, m) /\ n.cur = IF i = "tx" THEN Count(p) ELSE m.cur
    BY <1>1, <1>7a, <1>8 DEF MemoryOK, Memory, SameRun
  <1>10. RowsOK(e)
    <2>1. e.tip \in [I!Indexes -> Blocks \cup {NoBlock, NoTip}]
      BY <1>1, <1>6, <1>7a DEF RowsOK
    <2>2. e.tx \in [Txs -> I!IDs] /\ e.idOf \in [Blocks -> I!IDs] /\ e.hashOf \in [I!IDs \ {0} -> Blocks \cup {NoBlock}]
      BY <1>1, <1>6, <1>7a DEF RowsOK
    <2>3. e.header \in [Blocks -> SUBSET Blocks]
      BY <1>1, <1>6 DEF RowsOK
    <2> QED
      BY <1>1, <1>6, <2>1, <2>2, <2>3 DEF RowsOK
  <1>11. RowsOfTips(e)
    <2>2. e.tip[i] = p /\ \A j \in I!Indexes : j # i => e.tip[j] = d.tip[j]
      BY <1>1, <1>6 DEF RowsOK
    <2>1. e.drop \subseteq {j \in I!Indexes : e.tip[j] # NoTip}
      <3>1. i \notin e.drop
        BY <1>6 DEF d
      <3> QED
        BY <1>1, <1>6, <2>2, <3>1 DEF RowsOfTips
    <2>3. "tx" \in I!Indexes /\ "cf" \in I!Indexes
      BY DEF I!Indexes
    <2>4. i # "tx" /\ "tx" \notin e.drop => TxRowsExact(e, e.tip["tx"])
      BY <1>1, <1>6, <2>2, <2>3 DEF RowsOfTips, TxRowsExact
    <2>5. i = "tx" => TxRowsExact(e, e.tip["tx"])
      <3> SUFFICES ASSUME i = "tx" PROVE TxRowsExact(e, p)
        BY <2>2
      <3>1. TxRowsExact(d, b)
        BY <1>1 DEF RowsOfTips, d
      <3> QED
        BY <1>1, <1>6, <3>1, TxDisconnectExact DEF p
    <2>6. i # "cf" /\ "cf" \notin e.drop => CfRowsExact(e, e.tip["cf"])
      BY <1>1, <1>6, <2>2, <2>3 DEF RowsOfTips, CfRowsExact
    <2>7. i = "cf" => CfRowsExact(e, e.tip["cf"])
      <3> SUFFICES ASSUME i = "cf" PROVE CfRowsExact(e, p)
        BY <2>2
      <3>1. CfRowsExact(d, b)
        BY <1>1 DEF RowsOfTips, d
      <3> QED
        BY <1>1, <1>6, <3>1, CfDisconnectExact DEF p
    <2>8. \E k \in 0..Cardinality(Blocks) : HashesDense(e.hashOf, k)
      <3>1. i # "tx" => e.hashOf = d.hashOf
        BY <1>6
      <3>2. i = "tx" => HashesDense(e.hashOf, Count(e.tip["tx"])) /\ Count(e.tip["tx"]) \in 0..Cardinality(Blocks)
        BY <2>5, IDFacts DEF TxRowsExact
      <3> QED
        BY <1>1, <3>1, <3>2 DEF RowsOfTips
    <2> QED
      BY <2>1, <2>4, <2>5, <2>6, <2>7, <2>8 DEF RowsOfTips
  <1> QED
    BY <1>3, <1>6, <1>9, <1>10, <1>11 DEF StateOK, d, m, e, n, p

LEMMA ConnectEnabledOK ==
    ASSUME I!IndexAssumption, NEW s, StateOK(s), NEW i \in I!Indexes, NEW b \in Blocks,
           i \in s.m.enabled => /\ i \notin s.d.drop /\ s.d.tip[i] = I!Prev(b)
                                /\ i = "tx" => s.m.cur = Count(s.d.tip["tx"]),
           NEW r, r = I!ConnectEnabled(s, i, b)
    PROVE  /\ StateOK(r) /\ SameRun(r.m, s.m) /\ r.d.drop = s.d.drop /\ r.d.bucket = s.d.bucket
           /\ \A j \in I!Indexes : r.d.tip[j] = IF j = i /\ j \in s.m.enabled THEN b ELSE s.d.tip[j]
           /\ r.m.cur = IF i = "tx" /\ i \in s.m.enabled THEN Count(b) ELSE s.m.cur
  <1>1. CASE i \notin s.m.enabled
    <2>1. r = s
      BY <1>1 DEF I!ConnectEnabled
    <2> QED
      BY <1>1, <2>1 DEF SameRun
  <1>2. CASE i \in s.m.enabled
    <2>1. r = I!IndexConnect(s, i, b)
      BY <1>2 DEF I!ConnectEnabled
    <2>2. /\ StateOK(r) /\ SameRun(r.m, s.m)
          /\ r.d.tip = [s.d.tip EXCEPT ![i] = b] /\ r.d.drop = s.d.drop /\ r.d.bucket = s.d.bucket
          /\ r.m.cur = IF i = "tx" THEN Count(b) ELSE s.m.cur
      BY <1>2, <2>1, IndexConnectOK
    <2>3. s.d.tip \in [I!Indexes -> Blocks \cup {NoBlock, NoTip}]
      BY DEF StateOK, RowsOK
    <2> QED
      BY <1>2, <2>2, <2>3
  <1> QED
    BY <1>1, <1>2

LEMMA ConnectAllOK ==
    ASSUME I!IndexAssumption, NEW s, StateOK(s), NEW b \in Blocks,
           \A i \in s.m.enabled : i \notin s.d.drop /\ s.d.tip[i] = I!Prev(b),
           "tx" \in s.m.enabled => s.m.cur = Count(s.d.tip["tx"]),
           NEW r, r = I!ConnectAll(s, b)
    PROVE  /\ StateOK(r) /\ SameRun(r.m, s.m) /\ r.d.drop = s.d.drop
           /\ \A j \in I!Indexes : r.d.tip[j] = IF j \in s.m.enabled THEN b ELSE s.d.tip[j]
           /\ "tx" \in s.m.enabled => r.m.cur = Count(b)
  <1>1. PICK s1 : s1 = I!ConnectEnabled(s, "tx", b)
    OBVIOUS
  <1>2. PICK s2 : s2 = I!ConnectEnabled(s1, "addr", b)
    OBVIOUS
  <1>3. r = I!ConnectEnabled(s2, "cf", b)
    BY <1>1, <1>2 DEF I!ConnectAll
  <1>4. I!Indexes = {"tx", "addr", "cf"}
    BY DEF I!Indexes
  <1>5. /\ StateOK(s1) /\ SameRun(s1.m, s.m) /\ s1.d.drop = s.d.drop
        /\ \A j \in I!Indexes : s1.d.tip[j] = IF j = "tx" /\ j \in s.m.enabled THEN b ELSE s.d.tip[j]
        /\ s1.m.cur = IF "tx" \in s.m.enabled THEN Count(b) ELSE s.m.cur
    BY <1>1, <1>4, ConnectEnabledOK
  <1>6. /\ StateOK(s2) /\ SameRun(s2.m, s1.m) /\ s2.d.drop = s1.d.drop
        /\ \A j \in I!Indexes : s2.d.tip[j] = IF j = "addr" /\ j \in s1.m.enabled THEN b ELSE s1.d.tip[j]
        /\ s2.m.cur = s1.m.cur
    <2>1. "addr" \in s1.m.enabled => "addr" \notin s1.d.drop /\ s1.d.tip["addr"] = I!Prev(b)
      BY <1>4, <1>5 DEF SameRun
    <2> QED
      BY <1>2, <1>4, <1>5, <2>1, ConnectEnabledOK
  <1>7. /\ StateOK(r) /\ SameRun(r.m, s2.m) /\ r.d.drop = s2.d.drop
        /\ \A j \in I!Indexes : r.d.tip[j] = IF j = "cf" /\ j \in s2.m.enabled THEN b ELSE s2.d.tip[j]
        /\ r.m.cur = s2.m.cur
    <2>1. "cf" \in s2.m.enabled => "cf" \notin s2.d.drop /\ s2.d.tip["cf"] = I!Prev(b)
      BY <1>4, <1>5, <1>6 DEF SameRun
    <2> QED
      BY <1>3, <1>4, <1>6, <2>1, ConnectEnabledOK
  <1> QED
    BY <1>4, <1>5, <1>6, <1>7 DEF SameRun

LEMMA DisconnectEnabledOK ==
    ASSUME I!IndexAssumption, NEW s, StateOK(s), NEW i \in I!Indexes, NEW b \in Blocks,
           i \in s.m.enabled => /\ i \notin s.d.drop /\ s.d.tip[i] = b
                                /\ i = "tx" => s.m.cur = Count(s.d.tip["tx"]),
           NEW r, r = I!DisconnectEnabled(s, i, b)
    PROVE  /\ StateOK(r) /\ SameRun(r.m, s.m) /\ r.d.drop = s.d.drop /\ r.d.bucket = s.d.bucket
           /\ \A j \in I!Indexes : r.d.tip[j] = IF j = i /\ j \in s.m.enabled THEN I!Prev(b) ELSE s.d.tip[j]
           /\ r.m.cur = IF i = "tx" /\ i \in s.m.enabled THEN Count(I!Prev(b)) ELSE s.m.cur
  <1>1. CASE i \notin s.m.enabled
    <2>1. r = s
      BY <1>1 DEF I!DisconnectEnabled
    <2> QED
      BY <1>1, <2>1 DEF SameRun
  <1>2. CASE i \in s.m.enabled
    <2>1. r = I!IndexDisconnect(s, i, b)
      BY <1>2 DEF I!DisconnectEnabled
    <2>2. /\ StateOK(r) /\ SameRun(r.m, s.m)
          /\ r.d.tip = [s.d.tip EXCEPT ![i] = I!Prev(b)] /\ r.d.drop = s.d.drop /\ r.d.bucket = s.d.bucket
          /\ r.m.cur = IF i = "tx" THEN Count(I!Prev(b)) ELSE s.m.cur
      BY <1>2, <2>1, IndexDisconnectOK
    <2>3. s.d.tip \in [I!Indexes -> Blocks \cup {NoBlock, NoTip}]
      BY DEF StateOK, RowsOK
    <2> QED
      BY <1>2, <2>2, <2>3
  <1> QED
    BY <1>1, <1>2

LEMMA DisconnectAllOK ==
    ASSUME I!IndexAssumption, NEW s, StateOK(s), NEW b \in Blocks,
           \A i \in s.m.enabled : i \notin s.d.drop /\ s.d.tip[i] = b,
           "tx" \in s.m.enabled => s.m.cur = Count(s.d.tip["tx"]),
           NEW r, r = I!DisconnectAll(s, b)
    PROVE  /\ StateOK(r) /\ SameRun(r.m, s.m) /\ r.d.drop = s.d.drop
           /\ \A j \in I!Indexes : r.d.tip[j] = IF j \in s.m.enabled THEN I!Prev(b) ELSE s.d.tip[j]
           /\ "tx" \in s.m.enabled => r.m.cur = Count(I!Prev(b))
  <1>1. PICK s1 : s1 = I!DisconnectEnabled(s, "tx", b)
    OBVIOUS
  <1>2. PICK s2 : s2 = I!DisconnectEnabled(s1, "addr", b)
    OBVIOUS
  <1>3. r = I!DisconnectEnabled(s2, "cf", b)
    BY <1>1, <1>2 DEF I!DisconnectAll
  <1>4. I!Indexes = {"tx", "addr", "cf"}
    BY DEF I!Indexes
  <1>5. /\ StateOK(s1) /\ SameRun(s1.m, s.m) /\ s1.d.drop = s.d.drop
        /\ \A j \in I!Indexes : s1.d.tip[j] = IF j = "tx" /\ j \in s.m.enabled THEN I!Prev(b) ELSE s.d.tip[j]
        /\ s1.m.cur = IF "tx" \in s.m.enabled THEN Count(I!Prev(b)) ELSE s.m.cur
    BY <1>1, <1>4, DisconnectEnabledOK
  <1>6. /\ StateOK(s2) /\ SameRun(s2.m, s1.m) /\ s2.d.drop = s1.d.drop
        /\ \A j \in I!Indexes : s2.d.tip[j] = IF j = "addr" /\ j \in s1.m.enabled THEN I!Prev(b) ELSE s1.d.tip[j]
        /\ s2.m.cur = s1.m.cur
    <2>1. "addr" \in s1.m.enabled => "addr" \notin s1.d.drop /\ s1.d.tip["addr"] = b
      BY <1>4, <1>5 DEF SameRun
    <2> QED
      BY <1>2, <1>4, <1>5, <2>1, DisconnectEnabledOK
  <1>7. /\ StateOK(r) /\ SameRun(r.m, s2.m) /\ r.d.drop = s2.d.drop
        /\ \A j \in I!Indexes : r.d.tip[j] = IF j = "cf" /\ j \in s2.m.enabled THEN I!Prev(b) ELSE s2.d.tip[j]
        /\ r.m.cur = s2.m.cur
    <2>1. "cf" \in s2.m.enabled => "cf" \notin s2.d.drop /\ s2.d.tip["cf"] = b
      BY <1>4, <1>5, <1>6 DEF SameRun
    <2> QED
      BY <1>3, <1>4, <1>6, <2>1, DisconnectEnabledOK
  <1> QED
    BY <1>4, <1>5, <1>6, <1>7 DEF SameRun

-----------------------------------------------------------------------------
(* Manager.Init and the drops *)

LEMMA OrderFacts ==
    /\ I!Indexes = {"tx", "addr", "cf"}
    /\ \A k \in 1..3 : I!Order[k] \in I!Indexes
    /\ I!Order[1] = "tx" /\ I!Order[2] = "addr" /\ I!Order[3] = "cf"
  BY DEF I!Order, I!Indexes

LEMMA ExtremesOfThree ==
    ASSUME NEW S, S \subseteq 1..3, S # {}
    PROVE  /\ I!Min(S) \in S /\ \A k \in S : I!Min(S) <= k
           /\ I!Max(S) \in S /\ \A k \in S : k <= I!Max(S)
  <1>1. \E x \in S : \A k \in S : x <= k
    <2>1. CASE 1 \in S
      BY <2>1
    <2>2. CASE 1 \notin S /\ 2 \in S
      BY <2>2
    <2>3. CASE 1 \notin S /\ 2 \notin S
      <3>1. \A x \in S : x = 3
        BY <2>3
      <3>2. PICK x : x \in S
        OBVIOUS
      <3>3. x = 3
        BY <3>1, <3>2
      <3> QED
        BY <3>1, <3>2, <3>3
    <2> QED
      BY <2>1, <2>2, <2>3
  <1>2. \E x \in S : \A k \in S : x >= k
    <2>1. CASE 3 \in S
      BY <2>1
    <2>2. CASE 3 \notin S /\ 2 \in S
      BY <2>2
    <2>3. CASE 3 \notin S /\ 2 \notin S
      <3>1. \A x \in S : x = 1
        BY <2>3
      <3>2. PICK x : x \in S
        OBVIOUS
      <3>3. x = 1
        BY <3>1, <3>2
      <3> QED
        BY <3>1, <3>2, <3>3
    <2> QED
      BY <2>1, <2>2, <2>3
  <1> QED
    BY <1>1, <1>2 DEF I!Min, I!Max

(* Another phase, and the rest of the memory as before *)
LEMMA PhaseChanged ==
    ASSUME NEW m, MemoryOK(m), NEW p \in I!Phases, NEW n, n = [m EXCEPT !.phase = p]
    PROVE  /\ MemoryOK(n) /\ n.phase = p /\ n.enabled = m.enabled /\ n.cur = m.cur /\ n.height = m.height
           /\ n.dropping = m.dropping
  <1>1. n = [phase |-> p, enabled |-> m.enabled, cur |-> m.cur, height |-> m.height,
             dropping |-> m.dropping, starts |-> m.starts, drops |-> m.drops]
    BY DEF MemoryOK, Memory
  <1> QED
    BY <1>1 DEF MemoryOK, Memory

LEMMA StartStep ==
    ASSUME I!IndexAssumption, IndexInv, NEW on \in SUBSET I!Indexes, I!Start(on)
    PROVE  IndexInv'
  <1>1. run' = [phase |-> IF on = {} THEN "running" ELSE "drops", enabled |-> on, cur |-> run.cur,
                height |-> run.height, dropping |-> run.dropping, starts |-> run.starts + 1, drops |-> run.drops]
    BY DEF I!Start, IndexInv, MemoryOK, Memory
  <1>2. tip' = tip /\ undo' = undo /\ disk' = disk /\ ("addr" \in on => "tx" \in on) /\ run.starts < MaxStarts
    BY DEF I!Start
  <1>3. MemoryOK(run')
    BY <1>1, <1>2 DEF IndexInv, MemoryOK, Memory, I!Phases, I!IndexAssumption
  <1>4. DropsInv' /\ I!FailureExplained'
    BY <1>1 DEF DropsInv, Dropping, I!FailureExplained
  <1>5. IndexStartInv'
    BY <1>1, <1>2 DEF IndexStartInv
  <1> QED
    BY <1>2, <1>3, <1>4, <1>5 DEF IndexInv

LEMMA HaltStep ==
    ASSUME I!IndexAssumption, IndexInv, I!Halt
    PROVE  IndexInv'
  <1>1. run' = [phase |-> "stopped", enabled |-> {}, cur |-> 0, height |-> [i \in I!Indexes |-> -1],
                dropping |-> <<>>, starts |-> run.starts, drops |-> run.drops]
    BY DEF I!Halt, IndexInv, MemoryOK, Memory
  <1>2. tip' = tip /\ undo' = undo /\ disk' = disk
    BY DEF I!Halt
  <1>3. MemoryOK(run')
    BY <1>1, <1>2, IDFacts DEF IndexInv, MemoryOK, Memory, I!Phases
  <1>4. DropsInv' /\ I!FailureExplained'
    BY <1>1 DEF DropsInv, Dropping, I!FailureExplained
  <1>5. IndexStartInv'
    BY <1>1, <1>2 DEF IndexStartInv
  <1> QED
    BY <1>2, <1>3, <1>4, <1>5 DEF IndexInv

LEMMA FinishDropsStep ==
    ASSUME I!IndexAssumption, IndexInv, I!MaybeFinishDrops
    PROVE  IndexInv'
  <1>1. tip' = tip /\ undo' = undo /\ disk' = disk
    BY DEF I!MaybeFinishDrops, I!Fail
  <1>2. MemoryOK(run) /\ RowsOfTips(disk) /\ IndexStartInv
    BY DEF IndexInv
  <1>3. CASE I!ToDrop = {}
    <2>1. run' = [run EXCEPT !.phase = "create"]
      BY <1>3 DEF I!MaybeFinishDrops
    <2>2. MemoryOK(run') /\ run'.phase = "create" /\ run'.enabled = run.enabled
      BY <1>2, <2>1, PhaseChanged DEF I!Phases
    <2>3. run.enabled \cap disk.drop = {}
      BY <1>2, <1>3, OrderFacts DEF I!ToDrop, MemoryOK
    <2>4. IndexStartInv'
      BY <1>1, <1>2, <2>2, <2>3 DEF IndexStartInv
    <2>5. DropsInv' /\ I!FailureExplained'
      BY <2>2 DEF DropsInv, Dropping, I!FailureExplained
    <2> QED
      BY <1>1, <2>2, <2>4, <2>5 DEF IndexInv
  <1>4. CASE I!ToDrop # {}
    <2> DEFINE i == I!Order[I!Min(I!ToDrop)]
    <2>1. i \in I!Indexes /\ i \in disk.drop /\ disk.tip[i] # NoTip
      <3>1. I!ToDrop \subseteq 1..3
        BY DEF I!ToDrop
      <3>2. I!Min(I!ToDrop) \in I!ToDrop
        BY <1>4, <3>1, ExtremesOfThree
      <3>3. i \in disk.drop /\ i \in I!Indexes
        BY <3>2, OrderFacts DEF I!ToDrop
      <3> QED
        BY <1>2, <3>3 DEF RowsOfTips
    <2>2. CASE i \notin disk.bucket
      <3>1. run' = [run EXCEPT !.phase = "failed"]
        BY <1>4, <2>2 DEF I!MaybeFinishDrops, I!Fail
      <3>2. MemoryOK(run') /\ run'.phase = "failed" /\ run'.enabled = run.enabled
        BY <1>2, <3>1, PhaseChanged DEF I!Phases
      <3>3. I!FailureExplained'
        BY <1>1, <2>1, <2>2 DEF I!FailureExplained
      <3>4. IndexStartInv' /\ DropsInv'
        BY <1>1, <1>2, <3>2 DEF IndexStartInv, DropsInv, Dropping
      <3> QED
        BY <1>1, <3>2, <3>3, <3>4 DEF IndexInv
    <2>3. CASE i \in disk.bucket
      <3>1. run' = [run EXCEPT !.phase = "dropKeys", !.dropping = <<i>>]
        BY <1>4, <2>3 DEF I!MaybeFinishDrops
      <3> HIDE DEF i
      <3>2. run' = [phase |-> "dropKeys", enabled |-> run.enabled, cur |-> run.cur,
                    height |-> run.height, dropping |-> <<i>>, starts |-> run.starts, drops |-> run.drops]
        BY <1>2, <3>1 DEF MemoryOK, Memory
      <3>3. MemoryOK(run')
        BY <1>2, <2>1, <3>2 DEF MemoryOK, Memory, I!Phases
      <3>4. DropsInv'
        BY <1>1, <2>1, <3>2 DEF DropsInv
      <3>5. IndexStartInv' /\ I!FailureExplained'
        BY <1>1, <1>2, <3>2 DEF IndexStartInv, I!FailureExplained
      <3> QED
        BY <1>1, <3>3, <3>4, <3>5 DEF IndexInv
    <2> QED
      BY <2>2, <2>3
  <1> QED
    BY <1>3, <1>4

LEMMA CreateStep ==
    ASSUME I!IndexAssumption, IndexInv, I!MaybeCreateIndexes
    PROVE  IndexInv'
  <1> DEFINE new == {i \in run.enabled : disk.tip[i] = NoTip}
             tips == [i \in I!Indexes |-> IF i \in new THEN NoBlock ELSE disk.tip[i]]
  <1>1. tip' = tip /\ undo' = undo /\ run.phase = "create"
    BY DEF I!MaybeCreateIndexes
  <1>2. RowsOK(disk) /\ MemoryOK(run) /\ RowsOfTips(disk) /\ IndexStartInv
    BY DEF IndexInv
  <1>3. new \subseteq I!Indexes /\ (\A i \in new : disk.tip[i] = NoTip) /\ (\A i \in run.enabled : i \notin new => disk.tip[i] # NoTip)
    BY <1>2 DEF MemoryOK
  <1>4. run' = [run EXCEPT !.phase = "rollback", !.cur = I!HighestID(disk.hashOf)]
    BY DEF I!MaybeCreateIndexes
  <1>5. disk' = [disk EXCEPT !.tip = tips, !.bucket = @ \cup new, !.ids = @ \/ "tx" \in new]
    BY DEF I!MaybeCreateIndexes
  <1>6. PICK n \in 0..Cardinality(Blocks) : HashesDense(disk.hashOf, n)
    BY <1>2 DEF RowsOfTips
  <1>7. I!HighestID(disk.hashOf) = n /\ n \in I!IDs
    <2>1. DOMAIN disk.hashOf = I!IDs \ {0}
      BY <1>2 DEF RowsOK
    <2> QED
      BY <1>6, <2>1, HighestIDFound, IDFacts
  <1>8. run' = [phase |-> "rollback", enabled |-> run.enabled, cur |-> n, height |-> run.height,
                dropping |-> run.dropping, starts |-> run.starts, drops |-> run.drops]
    BY <1>2, <1>4, <1>7 DEF MemoryOK, Memory
  <1> HIDE DEF tips, new
  <1>9. disk' = [tip |-> tips, drop |-> disk.drop, bucket |-> disk.bucket \cup new, ids |-> (disk.ids \/ "tx" \in new),
                 tx |-> disk.tx, idOf |-> disk.idOf, hashOf |-> disk.hashOf, addr |-> disk.addr, header |-> disk.header]
    BY <1>2, <1>5 DEF RowsOK, Rows
  <1>10. MemoryOK(run')
    BY <1>2, <1>7, <1>8 DEF MemoryOK, Memory, I!Phases
  <1>11. tips \in [I!Indexes -> Blocks \cup {NoBlock, NoTip}]
    BY <1>2 DEF RowsOK, tips
  <1>12. RowsOK(disk')
    BY <1>2, <1>3, <1>9, <1>11 DEF RowsOK, Rows
  <1>13. \A i \in I!Indexes : Covered(tips[i]) = Covered(disk.tip[i]) /\ Count(tips[i]) = Count(disk.tip[i])
    BY <1>3, IDFacts DEF Covered, Count, tips
  <1>14. "tx" \in I!Indexes /\ "cf" \in I!Indexes
    BY OrderFacts
  <1>15. RowsOfTips(disk')
    <2>1. disk'.drop \subseteq {i \in I!Indexes : disk'.tip[i] # NoTip}
      <3>1. \A i \in I!Indexes : disk.tip[i] # NoTip => tips[i] # NoTip
        BY IDFacts DEF tips
      <3> QED
        BY <1>2, <1>9, <3>1 DEF RowsOfTips
    <2>2. "tx" \notin disk'.drop => TxRowsExact(disk', disk'.tip["tx"])
      BY <1>2, <1>9, <1>13, <1>14 DEF RowsOfTips, TxRowsExact
    <2>3. "cf" \notin disk'.drop => CfRowsExact(disk', disk'.tip["cf"])
      BY <1>2, <1>9, <1>13, <1>14 DEF RowsOfTips, CfRowsExact
    <2> QED
      BY <1>6, <1>9, <2>1, <2>2, <2>3 DEF RowsOfTips
  <1>16. "tx" \in run.enabled => n = Count(tips["tx"])
    <2> SUFFICES ASSUME "tx" \in run.enabled PROVE n = Count(disk.tip["tx"])
      BY <1>13, <1>14
    <2>1. "tx" \notin disk.drop
      BY <1>1, <1>2 DEF IndexStartInv
    <2>2. HashesDense(disk.hashOf, Count(disk.tip["tx"]))
      BY <1>2, <2>1 DEF RowsOfTips, TxRowsExact
    <2>3. Count(disk.tip["tx"]) \in 0..Cardinality(Blocks) /\ DOMAIN disk.hashOf = I!IDs \ {0}
      BY <1>2, IDFacts DEF RowsOK
    <2> QED
      BY <1>7, <2>2, <2>3, HighestIDFound
  <1>17. IndexStartInv'
    <2>1. \A i \in run.enabled : tips[i] # NoTip
      BY <1>2, <1>3, IDFacts DEF tips, MemoryOK
    <2> QED
      BY <1>1, <1>2, <1>8, <1>9, <1>16, <2>1 DEF IndexStartInv
  <1>18. DropsInv' /\ I!FailureExplained'
    BY <1>8 DEF DropsInv, Dropping, I!FailureExplained
  <1> QED
    BY <1>1, <1>10, <1>12, <1>15, <1>17, <1>18 DEF IndexInv

LEMMA RollbackStep ==
    ASSUME I!IndexAssumption, IndexInv, I!RollbackOrphaned
    PROVE  IndexInv'
  <1>1. tip' = tip /\ undo' = undo /\ run.phase = "rollback" /\ tip \in Blocks
    BY DEF I!RollbackOrphaned, IndexInv
  <1>2. RowsOK(disk) /\ MemoryOK(run) /\ RowsOfTips(disk) /\ IndexStartInv
    BY DEF IndexInv
  <1>3. /\ \A i \in run.enabled : i \in I!Indexes /\ disk.tip[i] # NoTip /\ i \notin disk.drop
        /\ "tx" \in run.enabled => run.cur = Count(disk.tip["tx"])
    BY <1>1, <1>2 DEF IndexStartInv, MemoryOK
  <1>4. CASE I!Orphaned = {}
    <2> DEFINE hs == [i \in I!Indexes |-> I!TipHeight(i)]
    <2>1. run' = [run EXCEPT !.phase = "catchup", !.height = hs] /\ disk' = disk
      BY <1>4 DEF I!RollbackOrphaned
    <2>2. \A i \in I!Indexes : I!TipHeight(i) = Count(disk.tip[i]) - 1 /\ I!TipHeight(i) \in {-1} \cup {Height[b] : b \in Blocks}
      BY IDFacts DEF I!TipHeight, Count
    <2>3. hs \in [I!Indexes -> {-1} \cup {Height[b] : b \in Blocks}] /\ \A i \in I!Indexes : hs[i] = Count(disk.tip[i]) - 1
      BY <2>2
    <2> HIDE DEF hs
    <2>4. run' = [phase |-> "catchup", enabled |-> run.enabled, cur |-> run.cur, height |-> hs,
                  dropping |-> run.dropping, starts |-> run.starts, drops |-> run.drops]
      BY <1>2, <2>1 DEF MemoryOK, Memory
    <2>5. MemoryOK(run')
      BY <1>2, <2>3, <2>4 DEF MemoryOK, Memory, I!Phases
    <2>6. \A i \in run.enabled : disk.tip[i] \in Anc[tip] \cup {NoBlock}
      BY <1>3, <1>4, OrderFacts DEF I!Orphaned
    <2>7. IndexStartInv'
      BY <1>1, <1>2, <1>3, <2>1, <2>3, <2>4, <2>6 DEF IndexStartInv
    <2>8. DropsInv' /\ I!FailureExplained'
      BY <2>4 DEF DropsInv, Dropping, I!FailureExplained
    <2> QED
      BY <1>1, <2>1, <2>5, <2>7, <2>8 DEF IndexInv
  <1>5. CASE I!Orphaned # {}
    <2>1. PICK i : i = I!Order[I!Max(I!Orphaned)]
      OBVIOUS
    <2>2. i \in run.enabled /\ i \in I!Indexes /\ disk.tip[i] # NoBlock /\ disk.tip[i] \notin Anc[tip]
      <3>1. I!Orphaned \subseteq 1..3
        BY DEF I!Orphaned
      <3>2. I!Max(I!Orphaned) \in I!Orphaned
        BY <1>5, <3>1, ExtremesOfThree
      <3> QED
        BY <2>1, <3>2, OrderFacts DEF I!Orphaned
    <2>3. disk.tip[i] \in Blocks
      BY <1>2, <1>3, <2>2 DEF RowsOK
    <2>4. CASE I!JournalThere(disk.tip[i])
      <3>1. PICK s : s = [d |-> disk, m |-> run]
        OBVIOUS
      <3>2. PICK r : r = I!IndexDisconnect(s, i, disk.tip[i])
        OBVIOUS
      <3>3. disk' = r.d /\ run' = r.m
        BY <1>5, <2>1, <2>4, <3>1, <3>2 DEF I!RollbackOrphaned
      <3>4. StateOK(s)
        BY <1>2, <3>1 DEF StateOK
      <3>5. /\ StateOK(r) /\ SameRun(r.m, run)
            /\ r.d.tip = [disk.tip EXCEPT ![i] = I!Prev(disk.tip[i])] /\ r.d.drop = disk.drop
            /\ r.m.cur = IF i = "tx" THEN Count(I!Prev(disk.tip[i])) ELSE run.cur
        BY <1>3, <2>2, <2>3, <3>1, <3>2, <3>4, IndexDisconnectOK
      <3>6. I!Prev(disk.tip[i]) # NoTip
        BY <2>3, PrevFacts, IDFacts
      <3>7. disk.tip \in [I!Indexes -> Blocks \cup {NoBlock, NoTip}]
        BY <1>2 DEF RowsOK
      <3>8. run'.phase = "rollback" /\ run'.enabled = run.enabled
        BY <1>1, <3>3, <3>5 DEF SameRun
      <3>9. \A j \in I!Indexes : disk'.tip[j] = IF j = i THEN I!Prev(disk.tip[i]) ELSE disk.tip[j]
        BY <3>3, <3>5, <3>7
      <3>10. IndexStartInv'
        BY <1>1, <1>2, <1>3, <2>2, <3>3, <3>5, <3>6, <3>8, <3>9, OrderFacts DEF IndexStartInv
      <3>11. DropsInv' /\ I!FailureExplained'
        BY <3>8 DEF DropsInv, Dropping, I!FailureExplained
      <3> QED
        BY <1>1, <3>3, <3>5, <3>10, <3>11 DEF IndexInv, StateOK
    <2>5. CASE ~ I!JournalThere(disk.tip[i])
      <3>1. run' = [run EXCEPT !.phase = "failed"] /\ disk' = disk
        BY <1>5, <2>1, <2>5 DEF I!RollbackOrphaned
      <3>2. MemoryOK(run') /\ run'.phase = "failed" /\ run'.enabled = run.enabled
        BY <1>2, <3>1, PhaseChanged DEF I!Phases
      <3>3. I!FailureExplained'
        BY <1>1, <2>2, <2>5, <3>1 DEF I!FailureExplained, I!JournalThere
      <3>4. IndexStartInv' /\ DropsInv'
        BY <1>1, <1>2, <3>1, <3>2 DEF IndexStartInv, DropsInv, Dropping
      <3> QED
        BY <1>1, <3>1, <3>2, <3>3, <3>4 DEF IndexInv
    <2> QED
      BY <2>4, <2>5
  <1> QED
    BY <1>4, <1>5

(* The catch-up connects, to an index that is behind, the next block of    *)
(* the main chain.                                                         *)
LEMMA NextToConnect ==
    ASSUME I!IndexAssumption, IndexInv, run.phase = "catchup", I!Missing # {},
           NEW h, h = I!Min(I!Missing), NEW i, i = I!NextBehind(h),
           NEW b, b = CHOOSE a \in Anc[tip] : Height[a] = h
    PROVE  /\ i \in run.enabled /\ i \in I!Indexes /\ b \in Anc[tip] /\ Height[b] = h
           /\ disk.tip[i] = I!Prev(b) /\ I!CanConnect([d |-> disk, m |-> run], i, b) /\ I!JournalThere(b)
  <1>1. tip \in Blocks /\ Height[tip] \in Nat /\ Anc[tip] \subseteq Blocks
    BY BranchFacts DEF IndexInv
  <1>2. RowsOK(disk) /\ MemoryOK(run) /\ RowsOfTips(disk) /\ IndexStartInv
    BY DEF IndexInv
  <1>3. \A j \in run.enabled : j \in I!Indexes /\ disk.tip[j] \in Anc[tip] \cup {NoBlock} /\ run.height[j] = Count(disk.tip[j]) - 1
    BY <1>2 DEF IndexStartInv, MemoryOK
  <1>4. h \in I!Missing /\ \A k \in I!Missing : h <= k
    <2>1. I!Missing \subseteq Nat
      BY DEF I!Missing
    <2>2. \E m \in I!Missing : \A k \in I!Missing : m <= k
      BY <2>1, NatMin
    <2> QED
      BY <2>2 DEF I!Min
  <1>5. h \in 0..Height[tip] /\ I!Behind(h) # {} /\ I!Behind(h) \subseteq 1..3
    BY <1>4 DEF I!Missing, I!Behind
  <1>6. PICK k : k = I!Min(I!Behind(h))
    OBVIOUS
  <1>7. k \in I!Behind(h) /\ (\A j \in I!Behind(h) : k <= j) /\ i = I!Order[k]
    BY <1>5, <1>6, ExtremesOfThree DEF I!NextBehind
  <1>8. k \in 1..3 /\ i \in run.enabled /\ i \in I!Indexes /\ run.height[i] < h
    BY <1>7, OrderFacts DEF I!Behind
  <1>9. b \in Anc[tip] /\ Height[b] = h /\ b \in Blocks
    <2>1. \E a \in Anc[tip] : Height[a] = h
      BY <1>1, <1>5, AncestorAtHeight
    <2> QED
      BY <1>1, <2>1
  <1>10. Count(disk.tip[i]) = h
    <2>1. Count(disk.tip[i]) \in Nat
      BY IDFacts
    <2>2. Count(disk.tip[i]) - 1 < h
      BY <1>3, <1>8
    <2>3. SUFFICES ASSUME Count(disk.tip[i]) < h PROVE FALSE
      BY <1>5, <2>1, <2>2
    <2>4. h - 1 \in 0..Height[tip] /\ Count(disk.tip[i]) - 1 < h - 1
      BY <1>1, <1>5, <2>1, <2>3
    <2>5. k \in I!Behind(h - 1)
      BY <1>3, <1>7, <1>8, <2>4 DEF I!Behind
    <2>6. h - 1 \in I!Missing
      BY <2>4, <2>5 DEF I!Missing
    <2> QED
      BY <1>4, <1>5, <2>6
  <1>11. disk.tip[i] = I!Prev(b)
    <2>1. CASE h = 0
      <3>1. disk.tip[i] = NoBlock
        <4>1. disk.tip[i] \notin Blocks
          BY <1>10, <2>1, IDFacts DEF Count
        <4> QED
          BY <1>1, <1>3, <1>8, <4>1
      <3>2. b = Genesis
        <4>1. b # Genesis => Parent[b] \in Blocks /\ Height[b] = Height[Parent[b]] + 1
          BY <1>9, BranchFacts
        <4>2. b # Genesis => Height[Parent[b]] \in Nat
          BY <4>1, BranchFacts
        <4> QED
          BY <1>9, <2>1, <4>1, <4>2
      <3> QED
        BY <3>1, <3>2 DEF I!Prev
    <2>2. CASE h # 0
      <3>1. disk.tip[i] \in Anc[tip] /\ Height[disk.tip[i]] + 1 = h /\ Height[disk.tip[i]] \in Nat
        <4>1. disk.tip[i] \in Blocks
          BY <1>10, <2>2 DEF Count
        <4> QED
          BY <1>3, <1>8, <1>10, <4>1, IDFacts DEF Count
      <3>2. b # Genesis
        BY <1>9, <2>2, TreeAssumption
      <3>3. Parent[b] \in Blocks /\ Height[b] = Height[Parent[b]] + 1 /\ Anc[b] = Anc[Parent[b]] \cup {b}
        BY <1>9, <3>2, BranchFacts
      <3>4. Parent[b] \in Anc[tip] /\ Height[Parent[b]] \in Nat
        BY <1>1, <1>9, <3>3, BranchFacts, SelfAncestor
      <3>5. Height[Parent[b]] = Height[disk.tip[i]]
        <4>1. Height[Parent[b]] + 1 = h
          BY <1>9, <3>3
        <4> QED
          BY <3>1, <3>4, <4>1
      <3>6. Parent[b] = disk.tip[i]
        BY <1>1, <3>1, <3>4, <3>5, BranchFacts
      <3> QED
        BY <3>2, <3>6 DEF I!Prev
    <2> QED
      BY <2>1, <2>2
  <1>12. i = "addr" => disk.idOf[b] # 0
    <2> SUFFICES ASSUME i = "addr" PROVE disk.idOf[b] # 0
      OBVIOUS
    <2>1. k = 2 /\ 1 \notin I!Behind(h) /\ "tx" \in run.enabled
      BY <1>2, <1>7, <1>8, OrderFacts DEF IndexStartInv
    <2>2. ~ (run.height["tx"] < h)
      BY <2>1, OrderFacts DEF I!Behind
    <2>3. Count(disk.tip["tx"]) \in Nat /\ Count(disk.tip["tx"]) >= h + 1 /\ h \in Nat
      BY <1>3, <1>5, <2>1, <2>2, IDFacts
    <2>4. disk.tip["tx"] \in Blocks
      BY <2>3 DEF Count
    <2>5. disk.tip["tx"] \in Anc[tip] /\ h \in 0..Height[disk.tip["tx"]]
      BY <1>3, <2>1, <2>3, <2>4, IDFacts DEF Count
    <2>6. PICK a \in Anc[disk.tip["tx"]] : Height[a] = h
      BY <2>4, <2>5, AncestorAtHeight
    <2>7. a = b
      <3>1. a \in Anc[tip]
        BY <1>1, <2>5, <2>6, BranchFacts
      <3> QED
        BY <1>1, <1>9, <2>6, <3>1, BranchFacts
    <2>8. "tx" \notin disk.drop
      BY <1>2, <2>1 DEF IndexStartInv
    <2>9. disk.idOf[b] = Height[b] + 1
      BY <1>2, <1>9, <2>4, <2>6, <2>7, <2>8 DEF RowsOfTips, TxRowsExact, Covered
    <2> QED
      BY <1>9, <2>3, <2>9
  <1>13. I!JournalThere(b)
    BY <1>9 DEF I!JournalThere, IndexInv, I!IndexAssumption
  <1> QED
    BY <1>8, <1>9, <1>11, <1>12, <1>13 DEF I!CanConnect

LEMMA CatchUpStep ==
    ASSUME I!IndexAssumption, IndexInv, I!CatchUp
    PROVE  IndexInv'
  <1>1. tip' = tip /\ undo' = undo /\ run.phase = "catchup" /\ tip \in Blocks
    BY DEF I!CatchUp, IndexInv
  <1>2. RowsOK(disk) /\ MemoryOK(run) /\ RowsOfTips(disk) /\ IndexStartInv
    BY DEF IndexInv
  <1>3. \A j \in run.enabled : j \in I!Indexes /\ disk.tip[j] \in Anc[tip] \cup {NoBlock} /\ run.height[j] = Count(disk.tip[j]) - 1
    BY <1>1, <1>2 DEF IndexStartInv, MemoryOK
  <1>4. CASE I!Missing = {}
    <2>1. run' = [run EXCEPT !.phase = "running"] /\ disk' = disk
      BY <1>4 DEF I!CatchUp
    <2>2. MemoryOK(run') /\ run'.phase = "running" /\ run'.enabled = run.enabled /\ run'.cur = run.cur
      BY <1>2, <2>1, PhaseChanged DEF I!Phases
    <2>3. \A j \in run.enabled : disk.tip[j] = tip
      <3>1. TAKE j \in run.enabled
      <3>2. Height[tip] \in Nat /\ tip \in Anc[tip]
        BY <1>1, BranchFacts, SelfAncestor
      <3>3. I!Behind(Height[tip]) = {}
        BY <1>4, <3>2 DEF I!Missing
      <3>4. ~ (run.height[j] < Height[tip])
        BY <1>3, <3>3, OrderFacts DEF I!Behind
      <3>5. Count(disk.tip[j]) \in Nat /\ Count(disk.tip[j]) > Height[tip]
        BY <1>3, <3>2, <3>4, IDFacts
      <3>6. disk.tip[j] \in Blocks
        BY <3>2, <3>5 DEF Count
      <3>7. disk.tip[j] \in Anc[tip] /\ Height[disk.tip[j]] >= Height[tip]
        BY <1>3, <3>2, <3>5, <3>6, IDFacts DEF Count
      <3>8. Height[disk.tip[j]] = Height[tip]
        BY <1>1, <3>2, <3>7, BranchFacts
      <3> QED
        BY <1>1, <3>2, <3>7, <3>8, BranchFacts
    <2>4. IndexStartInv'
      BY <1>1, <1>2, <2>1, <2>2, <2>3 DEF IndexStartInv
    <2>5. DropsInv' /\ I!FailureExplained'
      BY <2>2 DEF DropsInv, Dropping, I!FailureExplained
    <2> QED
      BY <1>1, <2>1, <2>2, <2>4, <2>5 DEF IndexInv
  <1>5. CASE I!Missing # {}
    <2>1. PICK h : h = I!Min(I!Missing)
      OBVIOUS
    <2>2. PICK i : i = I!NextBehind(h)
      OBVIOUS
    <2>3. PICK b : b = CHOOSE a \in Anc[tip] : Height[a] = h
      OBVIOUS
    <2>4. PICK s : s = [d |-> disk, m |-> run]
      OBVIOUS
    <2>5. PICK r : r = I!IndexConnect(s, i, b)
      OBVIOUS
    <2>6. /\ i \in run.enabled /\ i \in I!Indexes /\ b \in Anc[tip] /\ Height[b] = h
          /\ disk.tip[i] = I!Prev(b) /\ I!CanConnect(s, i, b) /\ I!JournalThere(b)
      BY <1>1, <1>5, <2>1, <2>2, <2>3, <2>4, NextToConnect
    <2>7. disk' = r.d /\ run' = [r.m EXCEPT !.height[i] = h]
      BY <1>5, <2>1, <2>2, <2>3, <2>4, <2>5, <2>6 DEF I!CatchUp
    <2>8. StateOK(s)
      BY <1>2, <2>4 DEF StateOK
    <2>9. b \in Blocks /\ Count(b) = h + 1 /\ h \in Nat
      BY <1>1, <2>6, BranchFacts DEF Count
    <2>10. i \notin disk.drop /\ ("tx" \in run.enabled => run.cur = Count(disk.tip["tx"]))
      BY <1>1, <1>2, <2>6 DEF IndexStartInv
    <2>11. /\ StateOK(r) /\ SameRun(r.m, run)
           /\ r.d.tip = [disk.tip EXCEPT ![i] = b] /\ r.d.drop = disk.drop
           /\ r.m.cur = IF i = "tx" THEN Count(b) ELSE run.cur
      BY <2>4, <2>5, <2>6, <2>8, <2>9, <2>10, IndexConnectOK
    <2>12. MemoryOK(r.m) /\ r.m.height = run.height
      BY <2>11 DEF StateOK, SameRun
    <2>13. PICK hs : hs = [run.height EXCEPT ![i] = h]
      OBVIOUS
    <2>14. run' = [phase |-> r.m.phase, enabled |-> r.m.enabled, cur |-> r.m.cur, height |-> hs,
                   dropping |-> r.m.dropping, starts |-> r.m.starts, drops |-> r.m.drops]
      BY <2>7, <2>12, <2>13 DEF MemoryOK, Memory
    <2>15. hs \in [I!Indexes -> {-1} \cup {Height[a] : a \in Blocks}]
           /\ \A j \in I!Indexes : hs[j] = IF j = i THEN h ELSE run.height[j]
      BY <1>2, <2>6, <2>9, <2>13 DEF MemoryOK
    <2>16. MemoryOK(run')
      BY <2>12, <2>14, <2>15 DEF MemoryOK, Memory
    <2>17. run'.phase = "catchup" /\ run'.enabled = run.enabled /\ run'.height = hs /\ run'.cur = r.m.cur
      BY <1>1, <2>11, <2>14 DEF SameRun
    <2>18. \A j \in I!Indexes : disk'.tip[j] = IF j = i THEN b ELSE disk.tip[j]
      BY <1>2, <2>7, <2>11 DEF RowsOK
    <2>19. IndexStartInv'
      <3>1. \A j \in run.enabled : disk'.tip[j] \in Anc[tip] \cup {NoBlock} /\ hs[j] = Count(disk'.tip[j]) - 1
        BY <1>3, <2>6, <2>9, <2>15, <2>18
      <3>2. \A j \in run.enabled : disk'.tip[j] # NoTip
        BY <1>1, <3>1, BranchFacts, IDFacts
      <3>3. "tx" \in run.enabled => r.m.cur = Count(disk'.tip["tx"])
        BY <2>10, <2>11, <2>18, OrderFacts
      <3>4. run.enabled \cap disk'.drop = {} /\ ("addr" \in run.enabled => "tx" \in run.enabled)
        BY <1>1, <1>2, <2>7, <2>11 DEF IndexStartInv
      <3> QED
        BY <1>1, <2>17, <3>1, <3>2, <3>3, <3>4 DEF IndexStartInv
    <2>20. DropsInv' /\ I!FailureExplained'
      BY <2>17 DEF DropsInv, Dropping, I!FailureExplained
    <2> QED
      BY <1>1, <2>7, <2>11, <2>16, <2>19, <2>20 DEF IndexInv, StateOK
  <1> QED
    BY <1>4, <1>5

LEMMA ConnectBlockStep ==
    ASSUME I!IndexAssumption, IndexInv, NEW b \in Blocks, I!ConnectBlock(b)
    PROVE  IndexInv'
  <1>1. tip' = b /\ undo' = undo \cup {b} /\ run.phase = "running" /\ b # Genesis /\ Parent[b] = tip
    BY DEF I!ConnectBlock
  <1>2. RowsOK(disk) /\ MemoryOK(run) /\ RowsOfTips(disk) /\ IndexStartInv
    BY DEF IndexInv
  <1>3. PICK s : s = [d |-> disk, m |-> run]
    OBVIOUS
  <1>4. PICK r : r = I!ConnectAll(s, b)
    OBVIOUS
  <1>5. disk' = r.d /\ run' = r.m
    BY <1>3, <1>4 DEF I!ConnectBlock, I!Before
  <1>6. StateOK(s)
    BY <1>2, <1>3 DEF StateOK
  <1>7. \A i \in run.enabled : i \in I!Indexes /\ i \notin disk.drop /\ disk.tip[i] = I!Prev(b)
    BY <1>1, <1>2 DEF IndexStartInv, I!Prev, MemoryOK
  <1>8. "tx" \in run.enabled => run.cur = Count(disk.tip["tx"])
    BY <1>1, <1>2 DEF IndexStartInv
  <1>9. /\ StateOK(r) /\ SameRun(r.m, run) /\ r.d.drop = disk.drop
        /\ \A j \in I!Indexes : r.d.tip[j] = IF j \in run.enabled THEN b ELSE disk.tip[j]
        /\ "tx" \in run.enabled => r.m.cur = Count(b)
    BY <1>3, <1>4, <1>6, <1>7, <1>8, ConnectAllOK
  <1>10. run'.phase = "running" /\ run'.enabled = run.enabled
    BY <1>1, <1>5, <1>9 DEF SameRun
  <1>11. IndexStartInv'
    <2>1. \A i \in run.enabled : disk'.tip[i] = b
      BY <1>5, <1>7, <1>9
    <2>2. run.enabled \cap disk'.drop = {} /\ ("addr" \in run.enabled => "tx" \in run.enabled)
      BY <1>1, <1>2, <1>5, <1>9 DEF IndexStartInv
    <2>3. b # NoTip
      BY IDFacts
    <2> QED
      BY <1>1, <1>5, <1>9, <1>10, <2>1, <2>2, <2>3 DEF IndexStartInv
  <1>12. DropsInv' /\ I!FailureExplained'
    BY <1>10 DEF DropsInv, Dropping, I!FailureExplained
  <1>13. Anc[b] \ {Genesis} \subseteq undo \cup {b}
    <2>1. Anc[b] = Anc[tip] \cup {b}
      BY <1>1, BranchFacts
    <2> QED
      BY <2>1 DEF IndexInv
  <1> QED
    BY <1>1, <1>5, <1>9, <1>11, <1>12, <1>13 DEF IndexInv, StateOK

LEMMA DisconnectBlockStep ==
    ASSUME I!IndexAssumption, IndexInv, I!DisconnectBlock
    PROVE  IndexInv'
  <1>1. tip' = Parent[tip] /\ undo' = undo \ {tip} /\ run.phase = "running" /\ tip # Genesis /\ tip \in Blocks
    BY DEF I!DisconnectBlock, IndexInv
  <1>2. RowsOK(disk) /\ MemoryOK(run) /\ RowsOfTips(disk) /\ IndexStartInv
    BY DEF IndexInv
  <1>3. PICK s : s = [d |-> disk, m |-> run]
    OBVIOUS
  <1>4. PICK r : r = I!DisconnectAll(s, tip)
    OBVIOUS
  <1>5. disk' = r.d /\ run' = r.m
    BY <1>3, <1>4 DEF I!DisconnectBlock, I!Before
  <1>6. StateOK(s)
    BY <1>2, <1>3 DEF StateOK
  <1>7. \A i \in run.enabled : i \in I!Indexes /\ i \notin disk.drop /\ disk.tip[i] = tip
    BY <1>1, <1>2 DEF IndexStartInv, MemoryOK
  <1>8. "tx" \in run.enabled => run.cur = Count(disk.tip["tx"])
    BY <1>1, <1>2 DEF IndexStartInv
  <1>9. /\ StateOK(r) /\ SameRun(r.m, run) /\ r.d.drop = disk.drop
        /\ \A j \in I!Indexes : r.d.tip[j] = IF j \in run.enabled THEN I!Prev(tip) ELSE disk.tip[j]
        /\ "tx" \in run.enabled => r.m.cur = Count(I!Prev(tip))
    BY <1>1, <1>3, <1>4, <1>6, <1>7, <1>8, DisconnectAllOK
  <1>10. run'.phase = "running" /\ run'.enabled = run.enabled
    BY <1>1, <1>5, <1>9 DEF SameRun
  <1>11. I!Prev(tip) = Parent[tip] /\ Parent[tip] \in Blocks
    BY <1>1, BranchFacts DEF I!Prev
  <1>12. IndexStartInv'
    <2>1. \A i \in run.enabled : disk'.tip[i] = Parent[tip]
      BY <1>5, <1>7, <1>9, <1>11
    <2>2. run.enabled \cap disk'.drop = {} /\ ("addr" \in run.enabled => "tx" \in run.enabled)
      BY <1>1, <1>2, <1>5, <1>9 DEF IndexStartInv
    <2>3. Parent[tip] # NoTip
      BY <1>11, IDFacts
    <2> QED
      BY <1>1, <1>5, <1>9, <1>10, <1>11, <2>1, <2>2, <2>3 DEF IndexStartInv
  <1>13. DropsInv' /\ I!FailureExplained'
    BY <1>10 DEF DropsInv, Dropping, I!FailureExplained
  <1>14. Anc[Parent[tip]] \ {Genesis} \subseteq undo \ {tip}
    <2>1. Anc[tip] = Anc[Parent[tip]] \cup {tip} /\ tip \notin Anc[Parent[tip]]
      BY <1>1, BranchFacts
    <2> QED
      BY <2>1 DEF IndexInv
  <1> QED
    BY <1>1, <1>5, <1>9, <1>11, <1>12, <1>13, <1>14 DEF IndexInv, StateOK

LEMMA PairUp ==
    ASSUME NEW x, NEW y
    PROVE  <<x>> \o <<y>> = <<x, y>>
  <1>1. <<x>> \in Seq({x, y}) /\ <<y>> \in Seq({x, y}) /\ <<x, y>> \in Seq({x, y})
    OBVIOUS
  <1>2. PICK s : s = <<x>> \o <<y>>
    OBVIOUS
  <1>3. s \in Seq({x, y}) /\ Len(s) = 2 /\ s[1] = x /\ s[2] = y
    BY <1>1, <1>2
  <1>4. PICK t : t = <<x, y>>
    OBVIOUS
  <1>5. t \in Seq({x, y}) /\ Len(t) = 2 /\ t[1] = x /\ t[2] = y
    BY <1>1, <1>4
  <1>6. \A k \in 1..2 : s[k] = t[k]
    BY <1>3, <1>5
  <1>7. s = t
    BY <1>3, <1>5, <1>6
  <1> QED
    BY <1>2, <1>4, <1>7

LEMMA DropIndexStep ==
    ASSUME I!IndexAssumption, IndexInv, NEW i \in I!Indexes, I!DropIndex(i)
    PROVE  IndexInv'
  <1>1. tip' = tip /\ undo' = undo /\ run.phase = "stopped" /\ run.drops < MaxDrops
    BY DEF I!DropIndex
  <1>2. RowsOK(disk) /\ MemoryOK(run) /\ RowsOfTips(disk) /\ IndexStartInv
    BY DEF IndexInv
  <1>3. PICK there : there = (IF i = "tx" /\ disk.tip["addr"] # NoTip THEN <<"addr">> ELSE <<>>)
                             \o (IF disk.tip[i] # NoTip THEN <<i>> ELSE <<>>)
    OBVIOUS
  <1>4. there # <<>>
    BY <1>3 DEF I!DropIndex
  <1>5. /\ there \in Seq(I!Indexes) /\ Len(there) \in 1..2 /\ Head(there) = there[1]
        /\ \A k \in 1..Len(there) : there[k] \in I!Indexes /\ disk.tip[there[k]] # NoTip
        /\ Len(there) = 2 => there[1] # there[2]
    <2>1. "addr" \in I!Indexes
      BY OrderFacts
    <2>2. CASE (i = "tx" /\ disk.tip["addr"] # NoTip) /\ disk.tip[i] # NoTip
      <3>1. there = <<"addr">> \o <<i>>
        BY <1>3, <2>2
      <3>2. <<"addr">> \o <<i>> = <<"addr", i>>
        BY PairUp
      <3>3. there = <<"addr", i>>
        BY <3>1, <3>2
      <3> QED
        BY <2>1, <2>2, <3>3
    <2>3. CASE (i = "tx" /\ disk.tip["addr"] # NoTip) /\ disk.tip[i] = NoTip
      <3>1. there = <<"addr">>
        BY <1>3, <2>3
      <3> QED
        BY <2>1, <2>3, <3>1
    <2>4. CASE ~ (i = "tx" /\ disk.tip["addr"] # NoTip) /\ disk.tip[i] # NoTip
      <3>1. there = <<>> \o <<i>>
        BY <1>3, <2>4
      <3>2. <<>> \o <<i>> = <<i>>
        OBVIOUS
      <3>3. there = <<i>>
        BY <3>1, <3>2
      <3> QED
        BY <2>1, <2>4, <3>3
    <2>5. CASE ~ (i = "tx" /\ disk.tip["addr"] # NoTip) /\ disk.tip[i] = NoTip
      <3>1. there = <<>>
        BY <1>3, <2>5
      <3> QED
        BY <1>4, <3>1
    <2> QED
      BY <2>2, <2>3, <2>4, <2>5
  <1>6. CASE \E j \in I!ToSet(there) : j \notin disk.bucket
    <2>1. run' = [run EXCEPT !.phase = "failed"] /\ disk' = disk
      BY <1>3, <1>6 DEF I!DropIndex
    <2>2. MemoryOK(run') /\ run'.phase = "failed" /\ run'.enabled = run.enabled
      BY <1>2, <2>1, PhaseChanged DEF I!Phases
    <2>3. \E j \in I!Indexes : disk.tip[j] # NoTip /\ j \notin disk.bucket
      BY <1>5, <1>6 DEF I!ToSet
    <2>4. I!FailureExplained'
      BY <2>1, <2>3 DEF I!FailureExplained
    <2>5. IndexStartInv' /\ DropsInv'
      BY <1>1, <1>2, <2>1, <2>2 DEF IndexStartInv, DropsInv, Dropping
    <2> QED
      BY <1>1, <2>1, <2>2, <2>4, <2>5 DEF IndexInv
  <1>7. CASE ~ \E j \in I!ToSet(there) : j \notin disk.bucket
    <2>1. /\ run' = [run EXCEPT !.phase = "dropKeys", !.dropping = there, !.drops = @ + 1]
          /\ disk' = [disk EXCEPT !.drop = @ \cup {Head(there)}]
      BY <1>3, <1>7 DEF I!DropIndex
    <2>2. run' = [phase |-> "dropKeys", enabled |-> run.enabled, cur |-> run.cur, height |-> run.height,
                  dropping |-> there, starts |-> run.starts, drops |-> run.drops + 1]
      BY <1>2, <2>1 DEF MemoryOK, Memory
    <2>3. disk' = [tip |-> disk.tip, drop |-> disk.drop \cup {there[1]}, bucket |-> disk.bucket, ids |-> disk.ids,
                   tx |-> disk.tx, idOf |-> disk.idOf, hashOf |-> disk.hashOf, addr |-> disk.addr, header |-> disk.header]
      BY <1>2, <1>5, <2>1 DEF RowsOK, Rows
    <2>4. MemoryOK(run')
      BY <1>1, <1>2, <1>5, <2>2 DEF MemoryOK, Memory, I!Phases, I!IndexAssumption
    <2>5. there[1] \in I!Indexes /\ disk.tip[there[1]] # NoTip
      BY <1>5
    <2>6. RowsOK(disk')
      BY <1>2, <2>3, <2>5 DEF RowsOK, Rows
    <2>7. RowsOfTips(disk')
      BY <1>2, <2>3, <2>5 DEF RowsOfTips, TxRowsExact, CfRowsExact
    <2>8. DropsInv'
      BY <1>5, <2>2, <2>3 DEF DropsInv
    <2>9. IndexStartInv' /\ I!FailureExplained'
      BY <1>1, <1>2, <2>2 DEF IndexStartInv, I!FailureExplained
    <2> QED
      BY <1>1, <2>4, <2>6, <2>7, <2>8, <2>9 DEF IndexInv
  <1> QED
    BY <1>6, <1>7

(* What the steps of a drop have in common *)
LEMMA DroppingFacts ==
    ASSUME IndexInv, run.phase \in Dropping
    PROVE  /\ Head(run.dropping) = run.dropping[1] /\ run.dropping[1] \in I!Indexes
           /\ run.dropping[1] \in disk.drop /\ disk.tip[run.dropping[1]] # NoTip
           /\ run.phase # "failed"
  <1>1. DropsInv /\ MemoryOK(run)
    BY DEF IndexInv
  <1>2. Len(run.dropping) \in 1..2 /\ run.dropping \in Seq(I!Indexes)
    BY <1>1 DEF DropsInv, MemoryOK
  <1>3. run.dropping[1] \in I!Indexes /\ disk.tip[run.dropping[1]] # NoTip
    BY <1>1, <1>2 DEF DropsInv
  <1> QED
    BY <1>1, <1>2, <1>3 DEF DropsInv, Dropping

LEMMA DropKeysStep ==
    ASSUME I!IndexAssumption, IndexInv, I!DropKeys
    PROVE  IndexInv'
  <1>1. tip' = tip /\ undo' = undo /\ run.phase = "dropKeys" /\ run.phase \in Dropping
    BY DEF I!DropKeys, Dropping
  <1>2. RowsOK(disk) /\ MemoryOK(run) /\ RowsOfTips(disk) /\ IndexStartInv /\ DropsInv
    BY DEF IndexInv
  <1>3. PICK i : i = run.dropping[1]
    OBVIOUS
  <1>4. Head(run.dropping) = i /\ i \in I!Indexes /\ i \in disk.drop /\ disk.tip[i] # NoTip
    BY <1>1, <1>3, DroppingFacts
  <1>5. run' = [run EXCEPT !.phase = "dropBucket"]
    BY DEF I!DropKeys
  <1>6. MemoryOK(run') /\ run'.phase = "dropBucket" /\ run'.enabled = run.enabled /\ run'.dropping = run.dropping
    BY <1>2, <1>5, PhaseChanged DEF I!Phases
  <1>7. /\ RowsOK(disk') /\ disk'.tip = disk.tip /\ disk'.drop = disk.drop
        /\ disk'.idOf = disk.idOf /\ disk'.hashOf = disk.hashOf
        /\ i = "tx" => \A x \in Txs : disk'.tx[x] = 0
        /\ i # "tx" => disk'.tx = disk.tx
        /\ i = "cf" => \A b \in Blocks : disk'.header[b] = {}
        /\ i # "cf" => disk'.header = disk.header
    <2>1. CASE i = "tx"
      <3>1. disk' = [disk EXCEPT !.tx = [t \in Txs |-> 0]]
        BY <1>4, <2>1 DEF I!DropKeys
      <3>2. disk' = [tip |-> disk.tip, drop |-> disk.drop, bucket |-> disk.bucket, ids |-> disk.ids,
                     tx |-> [t \in Txs |-> 0], idOf |-> disk.idOf, hashOf |-> disk.hashOf, addr |-> disk.addr, header |-> disk.header]
        BY <1>2, <3>1 DEF RowsOK, Rows
      <3> QED
        BY <1>2, <2>1, <3>2, IDFacts DEF RowsOK, Rows
    <2>2. CASE i = "addr"
      <3>1. PICK x : x = [a \in Addrs |-> I!NoEntries]
        OBVIOUS
      <3>2. disk' = [disk EXCEPT !.addr = x]
        BY <1>4, <2>2, <3>1 DEF I!DropKeys
      <3>3. disk' = [tip |-> disk.tip, drop |-> disk.drop, bucket |-> disk.bucket, ids |-> disk.ids,
                     tx |-> disk.tx, idOf |-> disk.idOf, hashOf |-> disk.hashOf, addr |-> x, header |-> disk.header]
        BY <1>2, <3>2 DEF RowsOK, Rows
      <3> QED
        BY <1>2, <2>2, <3>3 DEF RowsOK, Rows
    <2>3. CASE i = "cf"
      <3>1. disk' = [disk EXCEPT !.header = [b \in Blocks |-> {}]]
        BY <1>4, <2>3 DEF I!DropKeys
      <3>2. disk' = [tip |-> disk.tip, drop |-> disk.drop, bucket |-> disk.bucket, ids |-> disk.ids,
                     tx |-> disk.tx, idOf |-> disk.idOf, hashOf |-> disk.hashOf, addr |-> disk.addr, header |-> [b \in Blocks |-> {}]]
        BY <1>2, <3>1 DEF RowsOK, Rows
      <3> QED
        BY <1>2, <2>3, <3>2 DEF RowsOK, Rows
    <2> QED
      BY <1>4, <2>1, <2>2, <2>3, OrderFacts
  <1>8. RowsOfTips(disk')
    <2>1. "tx" \notin disk.drop => TxRowsExact(disk', disk.tip["tx"])
      BY <1>2, <1>4, <1>7 DEF RowsOfTips, TxRowsExact
    <2>2. "cf" \notin disk.drop => CfRowsExact(disk', disk.tip["cf"])
      BY <1>2, <1>4, <1>7 DEF RowsOfTips, CfRowsExact
    <2> QED
      BY <1>2, <1>7, <2>1, <2>2 DEF RowsOfTips
  <1>9. DropsInv'
    BY <1>1, <1>2, <1>3, <1>6, <1>7 DEF DropsInv
  <1>10. IndexStartInv' /\ I!FailureExplained'
    BY <1>2, <1>6 DEF IndexStartInv, I!FailureExplained
  <1> QED
    BY <1>1, <1>6, <1>7, <1>8, <1>9, <1>10 DEF IndexInv

LEMMA DropBucketStep ==
    ASSUME I!IndexAssumption, IndexInv, I!DropBucket
    PROVE  IndexInv'
  <1>1. tip' = tip /\ undo' = undo /\ run.phase = "dropBucket" /\ run.phase \in Dropping
    BY DEF I!DropBucket, Dropping
  <1>2. RowsOK(disk) /\ MemoryOK(run) /\ RowsOfTips(disk) /\ IndexStartInv /\ DropsInv
    BY DEF IndexInv
  <1>3. PICK i : i = run.dropping[1]
    OBVIOUS
  <1>4. Head(run.dropping) = i /\ i \in I!Indexes
    BY <1>1, <1>3, DroppingFacts
  <1>5. PICK p : p = IF i = "tx" THEN "dropIDs" ELSE "dropTip"
    OBVIOUS
  <1>6. run' = [run EXCEPT !.phase = p] /\ p \in I!Phases
    BY <1>4, <1>5 DEF I!DropBucket, I!Phases
  <1>7. MemoryOK(run') /\ run'.phase = p /\ run'.enabled = run.enabled /\ run'.dropping = run.dropping
    BY <1>2, <1>6, PhaseChanged
  <1>8. disk' = [tip |-> disk.tip, drop |-> disk.drop, bucket |-> disk.bucket \ {i}, ids |-> disk.ids,
                 tx |-> disk.tx, idOf |-> disk.idOf, hashOf |-> disk.hashOf, addr |-> disk.addr, header |-> disk.header]
    BY <1>2, <1>4 DEF I!DropBucket, RowsOK, Rows
  <1>9. RowsOK(disk')
    BY <1>2, <1>8 DEF RowsOK, Rows
  <1>10. RowsOfTips(disk')
    BY <1>2, <1>8 DEF RowsOfTips, TxRowsExact, CfRowsExact
  <1>11. DropsInv'
    BY <1>1, <1>2, <1>3, <1>5, <1>7, <1>8 DEF DropsInv, Dropping
  <1>12. IndexStartInv' /\ I!FailureExplained'
    BY <1>2, <1>5, <1>7 DEF IndexStartInv, I!FailureExplained
  <1> QED
    BY <1>1, <1>7, <1>9, <1>10, <1>11, <1>12 DEF IndexInv

LEMMA DropIDsStep ==
    ASSUME I!IndexAssumption, IndexInv, I!DropBlockIDIndex
    PROVE  IndexInv'
  <1>1. tip' = tip /\ undo' = undo /\ run.phase = "dropIDs" /\ run.phase \in Dropping
    BY DEF I!DropBlockIDIndex, Dropping
  <1>2. RowsOK(disk) /\ MemoryOK(run) /\ RowsOfTips(disk) /\ IndexStartInv /\ DropsInv
    BY DEF IndexInv
  <1>3. run.dropping[1] = "tx" /\ "tx" \in disk.drop
    BY <1>1, <1>2 DEF DropsInv
  <1>4. run' = [run EXCEPT !.phase = "dropTip"]
    BY DEF I!DropBlockIDIndex
  <1>5. MemoryOK(run') /\ run'.phase = "dropTip" /\ run'.enabled = run.enabled /\ run'.dropping = run.dropping
    BY <1>2, <1>4, PhaseChanged DEF I!Phases
  <1>6. disk' = [tip |-> disk.tip, drop |-> disk.drop, bucket |-> disk.bucket, ids |-> FALSE,
                 tx |-> disk.tx, idOf |-> [b \in Blocks |-> 0], hashOf |-> [k \in I!IDs \ {0} |-> NoBlock],
                 addr |-> disk.addr, header |-> disk.header]
    BY <1>2 DEF I!DropBlockIDIndex, RowsOK, Rows
  <1>7. RowsOK(disk')
    BY <1>2, <1>6, IDFacts DEF RowsOK, Rows
  <1>8. RowsOfTips(disk')
    <2>1. \A k \in I!IDs \ {0} : ~ (k <= 0)
      BY IDFacts
    <2>2. HashesDense(disk'.hashOf, 0)
      BY <1>6, <2>1 DEF HashesDense
    <2>3. 0 \in 0..Cardinality(Blocks)
      BY IDFacts
    <2>4. "cf" \notin disk.drop => CfRowsExact(disk', disk.tip["cf"])
      BY <1>2, <1>6 DEF RowsOfTips, CfRowsExact
    <2>5. disk'.drop = disk.drop /\ disk'.tip = disk.tip
      BY <1>6
    <2> QED
      BY <1>2, <1>3, <2>2, <2>3, <2>4, <2>5 DEF RowsOfTips
  <1>9. DropsInv'
    BY <1>1, <1>2, <1>3, <1>5, <1>6 DEF DropsInv
  <1>10. IndexStartInv' /\ I!FailureExplained'
    BY <1>2, <1>5 DEF IndexStartInv, I!FailureExplained
  <1> QED
    BY <1>1, <1>5, <1>7, <1>8, <1>9, <1>10 DEF IndexInv

LEMMA DropTipStep ==
    ASSUME I!IndexAssumption, IndexInv, I!DropTip
    PROVE  IndexInv'
  <1>1. tip' = tip /\ undo' = undo /\ run.phase = "dropTip" /\ run.phase \in Dropping
    BY DEF I!DropTip, Dropping
  <1>2. RowsOK(disk) /\ MemoryOK(run) /\ RowsOfTips(disk) /\ IndexStartInv /\ DropsInv
    BY DEF IndexInv
  <1>3. PICK i : i = run.dropping[1]
    OBVIOUS
  <1>4. Head(run.dropping) = i /\ i \in I!Indexes /\ i \in disk.drop
    BY <1>1, <1>3, DroppingFacts
  <1>5. PICK rest : rest = Tail(run.dropping)
    OBVIOUS
  <1>6. /\ rest \in Seq(I!Indexes)
        /\ rest = <<>> \/ /\ Len(rest) = 1 /\ Head(rest) = rest[1] /\ rest[1] = run.dropping[2]
                          /\ rest[1] \in I!Indexes /\ disk.tip[rest[1]] # NoTip /\ rest[1] # i
    <2>1. Len(run.dropping) \in 1..2 /\ run.dropping \in Seq(I!Indexes)
      BY <1>1, <1>2 DEF DropsInv, MemoryOK
    <2>2. CASE Len(run.dropping) = 1
      BY <1>5, <2>1, <2>2, SMTT(30)
    <2>3. CASE Len(run.dropping) = 2
      <3>1. rest \in Seq(I!Indexes) /\ Len(rest) = 1 /\ Head(rest) = rest[1] /\ rest[1] = run.dropping[2]
        BY <1>5, <2>1, <2>3
      <3>2. run.dropping[2] \in I!Indexes /\ disk.tip[run.dropping[2]] # NoTip /\ run.dropping[2] # i
        BY <1>1, <1>2, <1>3, <2>3 DEF DropsInv
      <3> QED
        BY <3>1, <3>2
    <2> QED
      BY <2>1, <2>2, <2>3
  <1>7. PICK p : p = IF rest # <<>> THEN "dropKeys" ELSE IF run.enabled # {} THEN "drops" ELSE "stopped"
    OBVIOUS
  <1>8. run' = [phase |-> p, enabled |-> run.enabled, cur |-> run.cur, height |-> run.height,
                dropping |-> rest, starts |-> run.starts, drops |-> run.drops]
    BY <1>2, <1>5, <1>7 DEF I!DropTip, MemoryOK, Memory
  <1>9. MemoryOK(run')
    BY <1>2, <1>6, <1>7, <1>8 DEF MemoryOK, Memory, I!Phases
  <1>10. PICK marked : marked = (disk.drop \ {i}) \cup (IF rest = <<>> THEN {} ELSE {Head(rest)})
    OBVIOUS
  <1>11. PICK tips : tips = [disk.tip EXCEPT ![i] = NoTip]
    OBVIOUS
  <1>12. disk' = [tip |-> tips, drop |-> marked, bucket |-> disk.bucket, ids |-> disk.ids,
                  tx |-> disk.tx, idOf |-> disk.idOf, hashOf |-> disk.hashOf, addr |-> disk.addr, header |-> disk.header]
    BY <1>2, <1>4, <1>5, <1>10, <1>11 DEF I!DropTip, RowsOK, Rows
  <1>13. /\ tips \in [I!Indexes -> Blocks \cup {NoBlock, NoTip}]
         /\ \A j \in I!Indexes : tips[j] = IF j = i THEN NoTip ELSE disk.tip[j]
    BY <1>2, <1>11 DEF RowsOK
  <1>14. /\ marked \subseteq I!Indexes
         /\ \A j \in marked : j # i /\ disk.tip[j] # NoTip
         /\ \A j \in disk.drop : j # i => j \in marked
    BY <1>2, <1>6, <1>10 DEF RowsOK, RowsOfTips
  <1>15. RowsOK(disk')
    BY <1>2, <1>12, <1>13, <1>14 DEF RowsOK, Rows
  <1>16. RowsOfTips(disk')
    <2>1. "tx" \in I!Indexes /\ "cf" \in I!Indexes
      BY OrderFacts
    <2>2. "tx" \notin marked => TxRowsExact(disk', tips["tx"])
      <3>1. CASE i = "tx"
        <4>1. /\ \A x \in Txs : disk'.tx[x] = 0
              /\ \A b \in Blocks : disk'.idOf[b] = 0
              /\ \A k \in I!IDs \ {0} : disk'.hashOf[k] = NoBlock
          BY <1>1, <1>2, <1>3, <1>12, <3>1 DEF DropsInv
        <4>2. tips["tx"] = NoTip /\ Covered(NoTip) = {} /\ Count(NoTip) = 0
          BY <1>13, <2>1, <3>1, IDFacts DEF Covered, Count
        <4>3. HashesDense(disk'.hashOf, 0)
          BY <4>1, IDFacts DEF HashesDense
        <4> QED
          BY <4>1, <4>2, <4>3 DEF TxRowsExact
      <3>2. CASE i # "tx"
        <4>1. "tx" \notin marked => "tx" \notin disk.drop
          BY <1>14, <3>2
        <4>2. tips["tx"] = disk.tip["tx"]
          BY <1>13, <2>1, <3>2
        <4> QED
          BY <1>2, <1>12, <4>1, <4>2 DEF RowsOfTips, TxRowsExact
      <3> QED
        BY <3>1, <3>2
    <2>3. "cf" \notin marked => CfRowsExact(disk', tips["cf"])
      <3>1. CASE i = "cf"
        <4>1. \A b \in Blocks : disk'.header[b] = {}
          BY <1>1, <1>2, <1>3, <1>12, <3>1 DEF DropsInv
        <4>2. tips["cf"] = NoTip /\ Covered(NoTip) = {}
          BY <1>13, <2>1, <3>1, IDFacts DEF Covered
        <4> QED
          BY <4>1, <4>2 DEF CfRowsExact
      <3>2. CASE i # "cf"
        <4>1. "cf" \notin marked => "cf" \notin disk.drop
          BY <1>14, <3>2
        <4>2. tips["cf"] = disk.tip["cf"]
          BY <1>13, <2>1, <3>2
        <4> QED
          BY <1>2, <1>12, <4>1, <4>2 DEF RowsOfTips, CfRowsExact
      <3> QED
        BY <3>1, <3>2
    <2>4. marked \subseteq {j \in I!Indexes : tips[j] # NoTip}
      BY <1>13, <1>14
    <2>5. disk'.drop = marked /\ disk'.tip = tips /\ disk'.hashOf = disk.hashOf
      BY <1>12
    <2> QED
      BY <1>2, <2>2, <2>3, <2>4, <2>5 DEF RowsOfTips
  <1>17. DropsInv'
    <2>1. CASE rest = <<>>
      BY <1>7, <1>8, <2>1 DEF DropsInv, Dropping
    <2>2. CASE rest # <<>>
      <3>1. run'.phase = "dropKeys" /\ run'.dropping = rest /\ disk'.tip = tips /\ disk'.drop = marked
        BY <1>7, <1>8, <1>12, <2>2
      <3>2. rest[1] \in marked /\ Len(rest) = 1 /\ rest[1] \in I!Indexes /\ tips[rest[1]] # NoTip
        BY <1>6, <1>10, <1>13, <2>2
      <3> QED
        BY <3>1, <3>2 DEF DropsInv
    <2> QED
      BY <2>1, <2>2
  <1>18. IndexStartInv' /\ I!FailureExplained'
    BY <1>2, <1>7, <1>8 DEF IndexStartInv, I!FailureExplained
  <1> QED
    BY <1>1, <1>9, <1>15, <1>16, <1>17, <1>18 DEF IndexInv

LEMMA IndexInvInit ==
    ASSUME I!IndexAssumption, I!Init
    PROVE  IndexInv
  <1>1. PICK levels : levels = [a \in Addrs |-> I!NoEntries]
    OBVIOUS
  <1>2. disk = [tip |-> [i \in I!Indexes |-> NoTip], drop |-> {}, bucket |-> {}, ids |-> FALSE,
                tx |-> [t \in Txs |-> 0], idOf |-> [b \in Blocks |-> 0],
                hashOf |-> [k \in I!IDs \ {0} |-> NoBlock], addr |-> levels, header |-> [b \in Blocks |-> {}]]
    BY <1>1 DEF I!Init
  <1>3. run = [phase |-> "stopped", enabled |-> {}, cur |-> 0, height |-> [i \in I!Indexes |-> -1],
               dropping |-> <<>>, starts |-> 0, drops |-> 0]
    BY DEF I!Init
  <1>4. tip \in Blocks /\ undo \subseteq Blocks /\ Anc[tip] \ {Genesis} \subseteq undo
    BY TreeAssumption DEF I!Init
  <1>5. RowsOK(disk)
    BY <1>2, IDFacts DEF RowsOK, Rows
  <1>6. MemoryOK(run)
    BY <1>3, IDFacts DEF MemoryOK, Memory, I!Phases, I!IndexAssumption
  <1>7. RowsOfTips(disk)
    <2>1. Covered(NoTip) = {} /\ Count(NoTip) = 0
      BY IDFacts DEF Covered, Count
    <2>2. HashesDense(disk.hashOf, 0)
      BY <1>2, IDFacts DEF HashesDense
    <2>3. disk.tip["tx"] = NoTip /\ disk.tip["cf"] = NoTip
      BY <1>2, OrderFacts
    <2>4. TxRowsExact(disk, NoTip)
      BY <1>2, <2>1, <2>2 DEF TxRowsExact
    <2>5. CfRowsExact(disk, NoTip)
      BY <1>2, <2>1 DEF CfRowsExact
    <2>6. disk.drop = {} /\ 0 \in 0..Cardinality(Blocks)
      BY <1>2, IDFacts
    <2> QED
      BY <2>2, <2>3, <2>4, <2>5, <2>6 DEF RowsOfTips
  <1>8. DropsInv /\ IndexStartInv /\ I!FailureExplained
    BY <1>3 DEF DropsInv, Dropping, IndexStartInv, I!FailureExplained
  <1> QED
    BY <1>4, <1>5, <1>6, <1>7, <1>8 DEF IndexInv

LEMMA IndexInvNext ==
    ASSUME I!IndexAssumption, IndexInv, [I!Next]_(I!vars)
    PROVE  IndexInv'
  <1>1. CASE UNCHANGED I!vars
    BY <1>1 DEF I!vars, IndexInv, DropsInv, IndexStartInv, I!FailureExplained
  <1>2. CASE I!Next
    BY <1>2, StartStep, FinishDropsStep, CreateStep, RollbackStep, CatchUpStep, ConnectBlockStep,
       DisconnectBlockStep, HaltStep, DropIndexStep, DropKeysStep, DropBucketStep, DropIDsStep, DropTipStep DEF I!Next
  <1> QED
    BY <1>1, <1>2

(* Of two blocks of a branch one is an ancestor of the other. *)
LEMMA OnOneBranch ==
    ASSUME NEW t \in Blocks, NEW a \in Anc[t], NEW b \in Anc[t], Height[a] <= Height[b]
    PROVE  a \in Anc[b]
  <1>1. b \in Blocks /\ Height[a] \in 0..Height[b] /\ Anc[b] \subseteq Anc[t]
    BY BranchFacts
  <1>2. PICK c \in Anc[b] : Height[c] = Height[a]
    BY <1>1, AncestorAtHeight
  <1>3. c = a
    BY <1>1, <1>2, BranchFacts
  <1> QED
    BY <1>2, <1>3

(* What the rows of the tips mean while the node serves the indexes *)
LEMMA ServedRows ==
    ASSUME I!IndexAssumption, IndexInv
    PROVE  I!TypeOK /\ I!TipsAtBest /\ I!TxIndexExact /\ I!IDsDense /\ I!FilterHeadersExact
  <1>1. tip \in Blocks /\ RowsOK(disk) /\ MemoryOK(run) /\ RowsOfTips(disk) /\ IndexStartInv
    BY DEF IndexInv
  <1>2. I!TypeOK
    BY <1>1 DEF IndexInv, I!TypeOK, RowsOK, MemoryOK
  <1>3. I!TipsAtBest
    BY <1>1 DEF I!TipsAtBest, I!Serving, IndexStartInv
  <1>4. Covered(tip) = Anc[tip] /\ Count(tip) = Height[tip] + 1
    BY <1>1 DEF Covered, Count
  <1>5. ASSUME I!Serving("tx") PROVE TxRowsExact(disk, tip) /\ run.cur = Count(tip)
    BY <1>1, <1>5 DEF I!Serving, IndexStartInv, RowsOfTips
  <1>6. ASSUME I!Serving("cf") PROVE CfRowsExact(disk, tip)
    BY <1>1, <1>6 DEF I!Serving, IndexStartInv, RowsOfTips
  <1>7. I!IDsDense
    BY <1>5 DEF I!IDsDense, TxRowsExact, HashesDense
  <1>8. I!FilterHeadersExact
    BY <1>4, <1>6 DEF I!FilterHeadersExact, CfRowsExact
  <1>9. I!TxIndexExact
    <2> SUFFICES ASSUME I!Serving("tx"), NEW t \in Txs, NEW H, H = {b \in Anc[tip] : t \in I!ToSet(TxsOf[b])}
                 PROVE  IF disk.tx[t] = 0 THEN H = {} ELSE H = {disk.hashOf[disk.tx[t]]}
      BY DEF I!TxIndexExact
    <2>1. TxRowsExact(disk, tip)
      BY <1>5
    <2>2. CASE disk.tx[t] = 0
      BY <1>4, <2>1, <2>2 DEF TxRowsExact
    <2>3. CASE disk.tx[t] # 0
      <3>1. PICK b \in Anc[tip] : t \in I!ToSet(TxsOf[b]) /\ disk.tx[t] = Height[b] + 1
        BY <1>4, <2>1, <2>3 DEF TxRowsExact
      <3>2. PICK k : k = Height[b] + 1
        OBVIOUS
      <3>3. b \in Blocks /\ Height[b] \in 0..Height[tip] /\ Height[tip] \in Nat
        BY <1>1, BranchFacts
      <3>4. k \in I!IDs \ {0} /\ k <= Count(tip)
        BY <1>4, <3>2, <3>3, IDFacts
      <3>5. disk.hashOf[k] \in Anc[tip] /\ Height[disk.hashOf[k]] + 1 = k
        BY <1>4, <2>1, <3>4 DEF TxRowsExact, HashesDense
      <3>6. disk.hashOf[k] = b
        <4>1. Height[disk.hashOf[k]] \in Nat /\ Height[b] \in Nat
          BY <1>1, <3>3, <3>5, BranchFacts
        <4>2. Height[disk.hashOf[k]] = Height[b]
          BY <3>2, <3>5, <4>1
        <4> QED
          BY <1>1, <3>1, <3>5, <4>2, BranchFacts
      <3>7. ASSUME NEW a \in Anc[tip], t \in I!ToSet(TxsOf[a]) PROVE a = b
        <4>1. a \in Blocks /\ (a \in Anc[b] \/ b \in Anc[a])
          <5>1. a \in Blocks /\ Height[a] \in Nat /\ Height[b] \in Nat
            BY <1>1, <3>3, BranchFacts
          <5>2. Height[a] <= Height[b] \/ Height[b] <= Height[a]
            BY <5>1
          <5> QED
            BY <1>1, <5>1, <5>2, OnOneBranch
        <4>2. \A x \in Blocks : \A y \in Anc[x] \ {x} : I!ToSet(TxsOf[y]) \cap I!ToSet(TxsOf[x]) = {}
          BY DEF I!IndexAssumption
        <4> QED
          BY <3>1, <3>3, <3>7, <4>1, <4>2
      <3> QED
        BY <2>3, <3>1, <3>2, <3>6, <3>7
    <2> QED
      BY <2>2, <2>3
  <1> QED
    BY <1>2, <1>3, <1>7, <1>8, <1>9

(* The indexes of a running node follow the chain, whatever was missed,    *)
(* interrupted, rolled back or dropped before (Manager.Init, ConnectBlock, *)
(* DisconnectBlock and dropIndex): their tips are its tip, the transaction *)
(* index leads from every transaction of the main chain to its block and   *)
(* from no other anywhere, block numbers have no gap, filter headers       *)
(* commit to the blocks under theirs and to no others.  And a start fails  *)
(* only in two ways, neither of which the comments of the code admit: the  *)
(* spend journal entry of an orphaned tip is gone, or a drop was           *)
(* interrupted between its last two transactions.                          *)
THEOREM IndexesFollowChain ==
    ASSUME I!IndexAssumption
    PROVE  I!Spec => [](I!IndexesFollow /\ I!FailureExplained)
  <1>1. I!Init => IndexInv
    BY IndexInvInit
  <1>2. IndexInv /\ [I!Next]_(I!vars) => IndexInv'
    BY IndexInvNext
  <1>3. IndexInv => I!IndexesFollow /\ I!FailureExplained
    BY ServedRows DEF IndexInv, I!IndexesFollow
  <1> QED
    BY <1>1, <1>2, <1>3, PTL DEF I!Spec
=============================================================================
