---------------------------- MODULE NtfnManager ----------------------------
(***************************************************************************)
(* rpcwebsocket.go: what the notification manager and the rescan commands  *)
(* tell a client. The manager takes the events of the chain and of the     *)
(* pool, and the registrations of the clients, from one queue; a rescan    *)
(* runs beside it in a goroutine of its own and, when it has caught up     *)
(* with the chain, asks the block handler to pause and registers for what  *)
(* follows. SyncManager.Pause only puts a message in the block handler's   *)
(* queue: the handler may be busy with a block, or have others before it.  *)
(* A reorganization is one step here (module BlockChain takes it apart);   *)
(* its notifications follow when the chain is unlocked. How a notification *)
(* travels on from QueueNotification is in module WsClient. A transaction  *)
(* has one output, named by the transaction; rescanprogress notifications, *)
(* which a ticker adds, are left out.                                      *)
(***************************************************************************)
EXTENDS Integers, Sequences, SequencesExt, FiniteSets, BlockTree

CONSTANTS
    Clients,
    Addrs,        \* addresses that decode
    KeyHash,      \* KeyHash[a]: for a public key its hash's address, else a
    Txs, TxAddr,  \* TxAddr[t]: the address the output of t pays to
    TxIns,        \* TxIns[t]: the outputs that t spends
    Plain,        \* outputs whose address an input spending them shows
    Loaded,       \* tips that the chain may have at the start
    BlockTxs,     \* BlockTxs[b]: the transactions of b, in order
    MaxInv,       \* wire.MaxInvPerMsg: heights fetched at once
    Commands,     \* what clients ask for
    MaxCommands,  \* bound on the commands of a client
    MaxEvents,    \* bound on the changes of chain and pool
    NoFilter, None

ASSUME NtfnAssumption ==
    /\ KeyHash \in [Addrs -> Addrs] /\ TxIns \in [Txs -> SUBSET Txs] /\ Plain \subseteq Txs
    /\ TxAddr \in [Txs -> Addrs] /\ BlockTxs \in [Blocks -> Seq(Txs)]
    /\ Loaded \subseteq Blocks
    /\ MaxInv \in Nat \ {0} /\ MaxCommands \in Nat /\ MaxEvents \in Nat
    /\ NoFilter \notin {None} \cup [addrs : SUBSET Addrs, unspent : SUBSET Txs]

VARIABLES
    best, mempool,   \* the chain and the pool
    late,            \* late[w]: what w has changed in the chain and not yet notified
    queue,           \* queueNotification
    reg,             \* the maps of notificationHandler
    wsc,             \* wsc[c]: the client's own maps, its filter, is it connected
    scan,            \* scan[c]: its rescan goroutine
    paused,          \* who holds the block handler
    pauses,          \* pauseMsgs in the handler's queue, but for those closed already
    events,          \* bound: changes so far
    reorged,         \* history: a block has left the chain
    got,             \* history: what QueueNotification was given, per client
    scanned          \* history: the rescan through the best block that registered

chain == <<best, mempool, late, events, reorged>>
handler == <<paused, pauses>>
vars == <<best, mempool, late, queue, reg, wsc, scan, paused, pauses, events, reorged, got, scanned>>

-----------------------------------------------------------------------------
(* The chain. *)

MaxInt32 == 2147483647
AtHeight(h) == CHOOSE x \in Anc[best] : Height[x] = h
SmallerOf(i, j) == IF i < j THEN i ELSE j

HeightRange(start, end) ==
    [i \in 1..(SmallerOf(end, Height[best] + 1) - start) |-> AtHeight(start + i - 1)]

-----------------------------------------------------------------------------
(* The manager: operators on S = [reg, wsc, got].                          *)

\* QueueNotification for each of cs
QueueNotification(S, cs, n) ==
    [S EXCEPT !.got = [c \in Clients |->
        IF c \in cs /\ ~ S.wsc[c].quit THEN Append(S.got[c], n) ELSE S.got[c]]]

RemoveSpentRequests(S, c, ops) ==
    [S EXCEPT !.wsc[c].spent = @ \ ops,
              !.reg.ops = [t \in Txs |-> IF t \in ops THEN S.reg.ops[t] \ {c} ELSE S.reg.ops[t]]]

RemoveAddrRequests(S, c, addrs) ==
    [S EXCEPT !.wsc[c].addrs = @ \ addrs,
              !.reg.addrs = [a \in Addrs |-> IF a \in addrs THEN S.reg.addrs[a] \ {c} ELSE S.reg.addrs[a]]]

AddAddrRequests(S, c, addrs) ==
    [S EXCEPT !.wsc[c].addrs = @ \cup addrs,
              !.reg.addrs = [a \in Addrs |-> IF a \in addrs THEN S.reg.addrs[a] \cup {c} ELSE S.reg.addrs[a]]]

\* A client gets one redeemingtx however many inputs it watches; in a block
\* the requests have then done their work.
NotifyForTxIns(S, t, b) ==
    LET watching == UNION {S.reg.ops[o] : o \in TxIns[t]}
        removed == FoldLeft(LAMBDA X, c : RemoveSpentRequests(X, c, {o \in TxIns[t] : c \in X.reg.ops[o]}),
                            S, SetToSeq(watching))
    IN  QueueNotification(IF b = NoBlock THEN S ELSE removed, watching, <<"redeemingtx", t, b>>)

\* The pool's spends of the new requests are told to every client that watches.
AddSpentRequests(S, c, ops) ==
    LET added == [S EXCEPT !.wsc[c].spent = @ \cup ops,
                           !.reg.ops = [t \in Txs |-> IF t \in ops THEN S.reg.ops[t] \cup {c}
                                                                   ELSE S.reg.ops[t]]]
        spends == {t \in mempool : TxIns[t] \cap ops # {}}
    IN  FoldLeft(LAMBDA X, t : NotifyForTxIns(X, t, NoBlock), added, SetToSeq(spends))

\* order: the order in which Go visits a map of clients
NotifyForTxOuts(S, t, b, order) ==
    FoldLeft(LAMBDA X, c : QueueNotification(AddSpentRequests(X, c, {t}), {c}, <<"recvtx", t, b>>),
             S, SelectSeq(order, LAMBDA c : c \in S.reg.addrs[TxAddr[t]]))

NotifyForTx(S, t, b, order) == NotifyForTxOuts(NotifyForTxIns(S, t, b), t, b, order)

\* existsAddress: the filter knows a public key by its hash, not the reverse.
ExistsAddress(filter, a) == a \in filter.addrs \/ KeyHash[a] \in filter.addrs

PaysTo(filter, t) == ExistsAddress(filter, TxAddr[t])
Matches(filter, t) == TxIns[t] \cap filter.unspent # {} \/ PaysTo(filter, t)
HasFilter(S, c) == S.wsc[c].filter # NoFilter

SubscribedClients(S, t, clients) ==
    {c \in clients : HasFilter(S, c) /\ Matches(S.wsc[c].filter, t)}

\* subscribedClients adds the outputs that pay to a filter's addresses.
WatchOutputs(S, t, clients) ==
    [S EXCEPT !.wsc = [c \in Clients |->
        IF c \in clients /\ HasFilter(S, c) /\ PaysTo(S.wsc[c].filter, t)
        THEN [S.wsc[c] EXCEPT !.filter.unspent = @ \cup {t}] ELSE S.wsc[c]]]

\* notifyFilteredBlockConnected: to every client the transactions it wants
NotifyFiltered(S, b) ==
    LET step(X, t) == [S |-> WatchOutputs(X.S, t, S.reg.blocks),
                       txs |-> [c \in Clients |->
                            IF c \in SubscribedClients(X.S, t, S.reg.blocks)
                            THEN Append(X.txs[c], t) ELSE X.txs[c]]]
        found == FoldLeft(step, [S |-> S, txs |-> [c \in Clients |-> <<>>]], BlockTxs[b])
    IN  FoldLeft(LAMBDA X, c : QueueNotification(X, {c}, <<"filteredblockconnected", found.txs[c], b>>),
                 found.S, SetToSeq(S.reg.blocks))

BlockConnected(S, b, order) ==
    LET told == FoldLeft(LAMBDA X, t : NotifyForTx(X, t, b, order), S, BlockTxs[b])
    IN  NotifyFiltered(QueueNotification(told, S.reg.blocks, <<"blockconnected", None, b>>), b)

NotifyFilteredDisconnected(S, b) ==
    QueueNotification(S, S.reg.blocks, <<"filteredblockdisconnected", None, b>>)

BlockDisconnected(S, b) ==
    NotifyFilteredDisconnected(QueueNotification(S, S.reg.blocks, <<"blockdisconnected", None, b>>), b)

NotifyForNewTx(S, t) == QueueNotification(S, S.reg.txs, <<"txaccepted", t, NoBlock>>)

NotifyRelevantTx(S, t) ==
    QueueNotification(WatchOutputs(S, t, S.reg.clients),
                      SubscribedClients(S, t, S.reg.clients), <<"relevanttxaccepted", t, NoBlock>>)

TxAccepted(S, t, isNew, order) ==
    NotifyRelevantTx(NotifyForTx(IF isNew THEN NotifyForNewTx(S, t) ELSE S, t, NoBlock, order), t)

UnregisterClient(S, c) ==
    LET gone == [S EXCEPT !.reg.blocks = @ \ {c}, !.reg.txs = @ \ {c}, !.reg.clients = @ \ {c}]
    IN  RemoveAddrRequests(RemoveSpentRequests(gone, c, S.wsc[c].spent), c, S.wsc[c].addrs)

\* one entry of the queue: <<kind, client or block or transaction, argument>>
Handle(S, n, order) ==
    LET x == n[2]
    IN  CASE n[1] = "connected" -> BlockConnected(S, x, order)
          [] n[1] = "disconnected" -> BlockDisconnected(S, x)
          [] n[1] = "tx" -> TxAccepted(S, x, n[3], order)
          [] n[1] = "client" -> [S EXCEPT !.reg.clients = @ \cup {x}]
          [] n[1] = "gone" -> UnregisterClient(S, x)
          [] n[1] = "blocks" -> [S EXCEPT !.reg.blocks = @ \cup {x}]
          [] n[1] = "noblocks" -> [S EXCEPT !.reg.blocks = @ \ {x}]
          [] n[1] = "newtxs" -> [S EXCEPT !.reg.txs = @ \cup {x}]
          [] n[1] = "nonewtxs" -> [S EXCEPT !.reg.txs = @ \ {x}]
          [] n[1] = "spent" -> AddSpentRequests(S, x, n[3])
          [] n[1] = "nospent" -> RemoveSpentRequests(S, x, n[3])
          [] n[1] = "addr" -> AddAddrRequests(S, x, n[3])
          [] n[1] = "noaddr" -> RemoveAddrRequests(S, x, n[3])

NotificationHandler ==
    /\ queue # <<>>
    /\ \E order \in SetToSeqs(Clients) :
        LET S == Handle([reg |-> reg, wsc |-> wsc, got |-> got], Head(queue), order)
        IN  reg' = S.reg /\ wsc' = S.wsc /\ got' = S.got
    /\ queue' = Tail(queue)
    /\ UNCHANGED <<scan, handler, scanned>> /\ UNCHANGED chain

-----------------------------------------------------------------------------
(* What happens to the chain and the pool. *)

\* The block handler connects b, after a reorganization if b's branch is the
\* longer one now.
ProcessBlock(b) ==
    LET detach == {x \in Anc[best] : x \notin Anc[b]}
        attach == {x \in Anc[b] : x \notin Anc[best]}
        down == SetToSortSeq(detach, LAMBDA x, y : Height[x] > Height[y])
        up == SetToSortSeq(attach, LAMBDA x, y : Height[x] < Height[y])
    IN  /\ events < MaxEvents /\ paused = None /\ late["handler"] = <<>>
        /\ Height[b] > Height[best] /\ (detach = {} => Parent[b] = best)
        /\ best' = b
        /\ late' = [late EXCEPT !["handler"] = [i \in DOMAIN down |-> <<"disconnected", down[i]>>]
                                              \o [i \in DOMAIN up |-> <<"connected", up[i]>>]]
        /\ events' = events + 1
        /\ reorged' = (reorged \/ detach # {})
        /\ UNCHANGED <<mempool, queue, reg, wsc, scan, handler, got, scanned>>

\* The invalidateblock command, which a pause does not hold up.
InvalidateBlock ==
    /\ events < MaxEvents /\ best # Genesis /\ late["rpc"] = <<>>
    /\ best' = Parent[best]
    /\ late' = [late EXCEPT !["rpc"] = <<<<"disconnected", best>>>>]
    /\ events' = events + 1 /\ reorged' = TRUE
    /\ UNCHANGED <<mempool, queue, reg, wsc, scan, handler, got, scanned>>

Connected(notifications) ==
    {n[2] : n \in {m \in ToSet(notifications) : m[1] = "connected"}}

\* NotifyBlockConnected, NotifyBlockDisconnected: the chain lock is free when
\* the notification is sent; a block's transactions leave the pool.
ChainNotifies(w) ==
    /\ late[w] # <<>>
    /\ queue' = queue \o late[w]
    /\ mempool' = mempool \ UNION {ToSet(BlockTxs[x]) : x \in Connected(late[w])}
    /\ late' = [late EXCEPT ![w] = <<>>]
    /\ UNCHANGED <<best, reg, wsc, scan, handler, events, reorged, got, scanned>>

\* The block handler comes to the pauseMsg of c.  (One that is closed by then
\* does not hold it up.)
TakePause(c) ==
    /\ c \in pauses /\ paused = None /\ late["handler"] = <<>>
    /\ paused' = c /\ pauses' = pauses \ {c}
    /\ UNCHANGED <<queue, reg, wsc, scan, got, scanned>> /\ UNCHANGED chain

\* NotifyMempoolTx: with isNew only when the transaction is not one that a
\* reorganization put back
AcceptTx(t, isNew) ==
    /\ events < MaxEvents /\ (isNew \/ reorged)
    /\ t \notin mempool \cup UNION {ToSet(BlockTxs[x]) : x \in Anc[best]}
    /\ mempool' = mempool \cup {t}
    /\ queue' = Append(queue, <<"tx", t, isNew>>)
    /\ events' = events + 1
    /\ UNCHANGED <<best, late, reorged, reg, wsc, scan, handler, got, scanned>>

-----------------------------------------------------------------------------
(* The commands of a client. *)

NoScan == [pc |-> "idle", min |-> 0, max |-> 0, last |-> NoBlock, addrs |-> {}, unspent |-> {},
           hashes |-> <<>>, begin |-> NoBlock, held |-> FALSE]

NotScanned == [begin |-> NoBlock, addrs |-> {}, held |-> FALSE]

\* what the handlers put in the manager's queue
Requests(c, m) ==
    CASE m.cmd = "notifyblocks" -> <<<<"blocks", c>>>>
      [] m.cmd = "stopnotifyblocks" -> <<<<"noblocks", c>>>>
      [] m.cmd = "notifynewtransactions" -> <<<<"newtxs", c>>>>
      [] m.cmd = "stopnotifynewtransactions" -> <<<<"nonewtxs", c>>>>
      [] m.cmd = "notifyspent" -> <<<<"spent", c, m.ops>>>>
      [] m.cmd = "stopnotifyspent" -> [i \in 1..Cardinality(m.ops) |-> <<"nospent", c, {SetToSeq(m.ops)[i]}>>]
      [] m.cmd = "notifyreceived" -> <<<<"addr", c, m.addrs>>>>
      [] m.cmd = "stopnotifyreceived" ->
            [i \in 1..Cardinality(m.addrs) |-> <<"noaddr", c, {SetToSeq(m.addrs)[i]}>>]
      [] OTHER -> <<>>

\* addresses that do not decode are dropped
AddToFilter(f, addrs, ops) == [addrs |-> f.addrs \cup (addrs \cap Addrs), unspent |-> f.unspent \cup ops]

NewFilter(addrs, ops) == AddToFilter([addrs |-> {}, unspent |-> {}], addrs, ops)

LoadTxFilter(w, m) ==
    [w EXCEPT !.filter = IF m.reload \/ @ = NoFilter THEN NewFilter(m.addrs, m.ops)
                         ELSE AddToFilter(@, m.addrs, m.ops)]

\* handleRescan up to the scan.  An empty request is answered at once.
StartRescan(c, m) ==
    /\ m.begin \in Anc[best] /\ m.end \in Anc[best] \cup {NoBlock}
    /\ scan[c].pc = "idle"
    /\ IF m.addrs = {} /\ m.ops = {}
       THEN got' = [got EXCEPT ![c] = Append(@, <<"rescanfinished", None, best>>)] /\ UNCHANGED scan
       ELSE /\ scan' = [scan EXCEPT ![c] =
                [NoScan EXCEPT !.pc = "range", !.min = Height[m.begin], !.begin = m.begin,
                               !.max = IF m.end = NoBlock THEN MaxInt32 ELSE Height[m.end],
                               !.addrs = m.addrs, !.unspent = m.ops]]
            /\ UNCHANGED got

\* A command with an address that does not decode, or a rescan from a block
\* that is not in the chain, is refused and changes nothing.
Command(c, m) ==
    /\ ~ wsc[c].quit /\ wsc[c].commands < MaxCommands
    /\ m.cmd \in {"notifyreceived", "stopnotifyreceived"} => m.addrs \subseteq Addrs
    /\ LET w == [wsc[c] EXCEPT !.commands = @ + 1]
       IN  wsc' = [wsc EXCEPT ![c] = IF m.cmd = "loadtxfilter" THEN LoadTxFilter(w, m) ELSE w]
    /\ queue' = queue \o Requests(c, m)
    /\ IF m.cmd = "rescan" THEN StartRescan(c, m)
       ELSE /\ got' = IF m.cmd = "loadtxfilter"
                      THEN [got EXCEPT ![c] = Append(@, <<"loadtxfilter", m.reload, NoBlock>>)] ELSE got
            /\ UNCHANGED scan
    /\ scanned' = IF m.cmd = "stopnotifyreceived" THEN [scanned EXCEPT ![c] = NotScanned] ELSE scanned
    /\ UNCHANGED <<reg, handler>> /\ UNCHANGED chain

\* handleRescanBlocks, block by block; the reply lists what was found.  What
\* was found before a block that is refused stays in the filter.
RescanBlocks(c, bs) ==
    LET fits(i) == bs[i] \in Anc[best] /\ (i > 1 => Parent[bs[i]] = bs[i - 1])
        good == SelectInSeq(Append(bs, NoBlock), LAMBDA b : b \notin Anc[best]) - 1
        n == CHOOSE k \in 0..good : /\ \A i \in 1..k : fits(i)
                                    /\ k = good \/ ~ fits(k + 1)
        step(X, t) == [f |-> IF PaysTo(X.f, t) THEN [X.f EXCEPT !.unspent = @ \cup {t}] ELSE X.f,
                       found |-> IF Matches(X.f, t) THEN Append(X.found, t) ELSE X.found]
        end == FoldLeft(step, [f |-> wsc[c].filter, found |-> <<>>],
                        FlattenSeq([i \in 1..n |-> BlockTxs[bs[i]]]))
    IN  /\ ~ wsc[c].quit /\ wsc[c].commands < MaxCommands /\ wsc[c].filter # NoFilter
        /\ wsc' = [wsc EXCEPT ![c].filter = end.f, ![c].commands = @ + 1]
        /\ got' = IF n < Len(bs) THEN got
                  ELSE [got EXCEPT ![c] = Append(@, <<"rescannedblocks", end.found, Last(bs)>>)]
        /\ UNCHANGED <<queue, reg, scan, handler, scanned>> /\ UNCHANGED chain

\* WebsocketHandler: AddClient before the client can send anything; then, when
\* the client has gone, RemoveClient.
Connect(c) ==
    /\ wsc[c].quit /\ wsc[c].commands = 0
    /\ wsc' = [wsc EXCEPT ![c].quit = FALSE]
    /\ queue' = Append(queue, <<"client", c>>)
    /\ UNCHANGED <<reg, scan, handler, got, scanned>> /\ UNCHANGED chain

Disconnect(c) ==
    /\ ~ wsc[c].quit
    /\ wsc' = [wsc EXCEPT ![c].quit = TRUE, ![c].commands = MaxCommands + 1]
    /\ queue' = Append(queue, <<"gone", c>>)
    /\ UNCHANGED <<reg, scan, handler, got, scanned>> /\ UNCHANGED chain

-----------------------------------------------------------------------------
(* scanBlockChunks *)

Finish(c) ==
    /\ scan' = [scan EXCEPT ![c] = NoScan]
    /\ got' = IF wsc[c].quit \/ scan[c].last = NoBlock THEN got
              ELSE [got EXCEPT ![c] = Append(@, <<"rescanfinished", None, scan[c].last>>)]

NextChunk(r) == HeightRange(r.min, SmallerOf(r.max, r.min + MaxInv))

ScanRange(c) ==
    /\ scan[c].pc = "range"
    /\ LET r == scan[c]
           hashes == NextChunk(r)
       IN  IF r.min >= r.max \/ (hashes = <<>> /\ r.max # MaxInt32) THEN Finish(c)
           ELSE /\ scan' = [scan EXCEPT ![c].pc = IF hashes = <<>> THEN "pause" ELSE "blocks",
                                        ![c].hashes = hashes, ![c].min = @ + Len(hashes)]
                /\ UNCHANGED got
    /\ UNCHANGED <<queue, reg, wsc, handler, scanned>> /\ UNCHANGED chain

\* rescanBlock: one notification of each kind for a transaction
RescanBlock(r, b) ==
    LET spends(X, t) == \/ TxIns[t] \cap X.unspent # {}
                        \/ \E o \in TxIns[t] \cap Plain : TxAddr[o] \in r.addrs
        pays(t) == TxAddr[t] \in r.addrs
        step(X, t) ==
            [unspent |-> (X.unspent \ TxIns[t]) \cup (IF pays(t) THEN {t} ELSE {}),
             out |-> X.out \o (IF spends(X, t) THEN <<<<"redeemingtx", t, b>>>> ELSE <<>>)
                           \o (IF pays(t) THEN <<<<"recvtx", t, b>>>> ELSE <<>>)]
    IN  FoldLeft(step, [unspent |-> r.unspent, out |-> <<>>], BlockTxs[b])


\* The block was taken off the chain (BlockByHash fails), or a new chunk does
\* not continue the last one.  min is already past the chunk.
Reorged(r, b) ==
    \/ b \notin Anc[best]
    \/ Height[b] = r.min - Len(r.hashes) /\ r.last # NoBlock /\ Parent[b] # r.last

ScanBlock(c) ==
    /\ scan[c].pc = "blocks"
    /\ LET r == scan[c]
           b == Head(r.hashes)
           f == RescanBlock(r, b)
       IN  IF Reorged(r, b) \/ wsc[c].quit
           THEN scan' = [scan EXCEPT ![c] = NoScan] /\ UNCHANGED got
           ELSE /\ scan' = [scan EXCEPT ![c].unspent = f.unspent, ![c].last = b,
                                        ![c].hashes = Tail(@),
                                        ![c].pc = IF Len(r.hashes) = 1 THEN "range" ELSE "blocks"]
                /\ got' = [got EXCEPT ![c] = @ \o f.out]
    /\ UNCHANGED <<queue, reg, wsc, handler, scanned>> /\ UNCHANGED chain

\* SyncManager.Pause: the channel to the block handler is buffered
ScanPause(c) ==
    /\ scan[c].pc = "pause"
    /\ pauses' = pauses \cup {c}
    /\ scan' = [scan EXCEPT ![c].pc = "snapshot"]
    /\ UNCHANGED <<queue, reg, wsc, paused, got, scanned>> /\ UNCHANGED chain

\* close(pauseGuard)
Unpause(c) ==
    /\ paused' = IF paused = c THEN None ELSE paused
    /\ pauses' = pauses \ {c}

\* mutant: the last block is not compared with the best one
ScanSnapshot_Again(c) ==
    /\ scan[c].pc = "snapshot"
    /\ IF scan[c].last = NoBlock
       THEN /\ scan' = [scan EXCEPT ![c].pc = "spent", ![c].held = paused = c] /\ UNCHANGED handler
       ELSE /\ scan' = [scan EXCEPT ![c].pc = "range"] /\ Unpause(c)
    /\ UNCHANGED <<queue, reg, wsc, got, scanned>> /\ UNCHANGED chain

\* BestSnapshot: the scan goes on if the chain has moved meanwhile.
ScanSnapshot(c) ==
    /\ scan[c].pc = "snapshot"
    /\ IF scan[c].last \in {NoBlock, best}
       THEN /\ scan' = [scan EXCEPT ![c].pc = "spent", ![c].held = paused = c] /\ UNCHANGED handler
       ELSE /\ scan' = [scan EXCEPT ![c].pc = "range"] /\ Unpause(c)
    /\ UNCHANGED <<queue, reg, wsc, got, scanned>> /\ UNCHANGED chain

\* RegisterSpentRequests with unspentSlice
ScanRegisterSpent(c) ==
    /\ scan[c].pc = "spent"
    /\ queue' = Append(queue, <<"spent", c, scan[c].unspent>>)
    /\ scan' = [scan EXCEPT ![c].pc = "addrs"]
    /\ UNCHANGED <<reg, wsc, handler, got, scanned>> /\ UNCHANGED chain

\* RegisterTxOutAddressRequests, and the end of the pause
ScanRegisterAddrs(c) ==
    /\ scan[c].pc = "addrs"
    /\ queue' = Append(queue, <<"addr", c, scan[c].addrs>>)
    /\ scanned' = [scanned EXCEPT ![c] =
            [begin |-> scan[c].begin, addrs |-> scan[c].addrs, held |-> scan[c].held]]
    /\ Unpause(c) /\ Finish(c)
    /\ UNCHANGED <<reg, wsc>> /\ UNCHANGED chain

-----------------------------------------------------------------------------
Init ==
    /\ best \in Loaded /\ mempool = {} /\ late = [w \in {"handler", "rpc"} |-> <<>>]
    /\ queue = <<>> /\ paused = None /\ pauses = {} /\ events = 0
    /\ reorged = FALSE
    /\ reg = [clients |-> {}, blocks |-> {}, txs |-> {}, ops |-> [t \in Txs |-> {}],
              addrs |-> [a \in Addrs |-> {}]]
    /\ wsc = [c \in Clients |-> [quit |-> TRUE, spent |-> {}, addrs |-> {}, filter |-> NoFilter,
                                 commands |-> 0]]
    /\ scan = [c \in Clients |-> NoScan]
    /\ got = [c \in Clients |-> <<>>]
    /\ scanned = [c \in Clients |-> NotScanned]

ScanSteps(c) == \/ ScanRange(c) \/ ScanBlock(c) \/ ScanPause(c) \/ ScanSnapshot(c)
                \/ ScanRegisterSpent(c) \/ ScanRegisterAddrs(c)

Next ==
    \/ \E b \in Blocks : ProcessBlock(b)
    \/ InvalidateBlock
    \/ \E w \in DOMAIN late : ChainNotifies(w)
    \/ \E t \in Txs, isNew \in BOOLEAN : AcceptTx(t, isNew)
    \/ NotificationHandler
    \/ \E c \in Clients :
        \/ Connect(c) \/ Disconnect(c) \/ TakePause(c)
        \/ \E m \in {x \in Commands : x.cmd # "rescanblocks"} : Command(c, m)
        \/ \E m \in {x \in Commands : x.cmd = "rescanblocks"} : RescanBlocks(c, m.blocks)
        \/ ScanRange(c) \/ ScanBlock(c) \/ ScanPause(c) \/ ScanSnapshot(c)
        \/ ScanRegisterSpent(c) \/ ScanRegisterAddrs(c)

Spec == Init /\ [][Next]_vars

(* A rescan's goroutine is scheduled; no other progress is asked for. *)
FairSpec == Spec /\ \A c \in Clients : WF_vars(ScanSteps(c))

-----------------------------------------------------------------------------
(* Properties. *)

Pcs == {"idle", "range", "blocks", "pause", "snapshot", "spent", "addrs"}

TypeOK ==
    /\ best \in Blocks /\ mempool \subseteq Txs /\ paused \in Clients \cup {None} /\ pauses \subseteq Clients
    /\ events \in 0..MaxEvents
    /\ reg.clients \cup reg.blocks \cup reg.txs \subseteq Clients
    /\ reg.ops \in [Txs -> SUBSET Clients] /\ reg.addrs \in [Addrs -> SUBSET Clients]
    /\ \A c \in Clients :
        /\ wsc[c].spent \subseteq Txs /\ wsc[c].addrs \subseteq Addrs
        /\ scan[c].pc \in Pcs /\ scan[c].unspent \subseteq Txs
        /\ ToSet(scan[c].hashes) \subseteq Blocks
        /\ c \in pauses \/ paused = c <=> scan[c].pc \in {"snapshot", "spent", "addrs"}

\* The manager's maps and the maps that each client carries so that all its
\* requests can be removed agree (addSpentRequests, removeSpentRequest and
\* their kin): nothing watched is forgotten when the client goes.
RequestsMirrored ==
    \A c \in Clients : /\ \A t \in Txs : c \in reg.ops[t] <=> t \in wsc[c].spent
                       /\ \A a \in Addrs : c \in reg.addrs[a] <=> a \in wsc[c].addrs

Received(c, k, t, b) == Len(SelectSeq(got[c], LAMBDA n : n = <<k, t, b>>))
Coming(b) == b \in Connected(queue \o late["handler"])
Scanned(c) == {b \in Anc[best] : ~ Coming(b) /\ Height[b] >= Height[scanned[c].begin]}
Registered(c) == scanned[c].begin # NoBlock /\ ~ wsc[c].quit
Gapless(c) ==
    \A b \in Scanned(c) : \A t \in ToSet(BlockTxs[b]) :
        TxAddr[t] \in scanned[c].addrs => Received(c, "recvtx", t, b) >= 1

\* What the comment at rpcwebsocket.go:2617-2625 says: a rescan through the best
\* block leaves no gap between what it looked at and what the client is
\* notified of afterwards, whatever the chain did in between: every payment in
\* the blocks from its first one on is reported.
RescanLeavesNoGap == \A c \in Clients : Registered(c) => Gapless(c)

\* The code keeps it when the block handler was in the pause by the time of
\* BestSnapshot; when it was not, a block that it connects between the snapshot
\* and the registrations is never reported.
PauseLeavesNoGap == \A c \in Clients : (Registered(c) /\ scanned[c].held) => Gapless(c)

\* With such a pause and without a reorganization nothing is reported twice
\* either, and the spends of what was paid are reported once, if the rescan was
\* all the client asked for.
RescanExact ==
    \A c \in Clients : (Registered(c) /\ scanned[c].held /\ wsc[c].commands = 1 /\ ~ reorged) =>
        \A b \in Scanned(c) : \A t \in ToSet(BlockTxs[b]) :
            /\ TxAddr[t] \in scanned[c].addrs => Received(c, "recvtx", t, b) = 1
            /\ (\E o \in TxIns[t] : /\ TxAddr[o] \in scanned[c].addrs
                                    /\ \E x \in Scanned(c) : o \in ToSet(BlockTxs[x]))
                    => Received(c, "redeemingtx", t, b) = 1

\* Once a transaction is reported to a client because it pays to its filter,
\* the blocks that are reported later, until the filter is loaded anew, list
\* what spends it.
FilterFollows ==
    \A c \in Clients : \A i, j \in DOMAIN got[c] :
        (/\ i < j /\ got[c][i][1] = "filteredblockconnected" /\ got[c][j][1] = "filteredblockconnected"
         /\ \A k \in (i + 1)..(j - 1) : got[c][k][1] # "loadtxfilter")
        => \A t \in ToSet(got[c][i][2]), u \in ToSet(BlockTxs[got[c][j][3]]) :
                (t \in TxIns[u] /\ PaysTo(wsc[c].filter, t)) => u \in ToSet(got[c][j][2])


\* The block that was scanned last has left the chain and no block of its
\* height or above has come: HeightRange is empty and BestSnapshot another block,
\* so the loop goes round, pausing the block handler each time, until one does.
Spins(c) ==
    scan[c].pc \in {"range", "pause", "snapshot"} /\ scan[c].last # best /\ Height[best] < scan[c].min

\* A rescan ends, or else it is in that loop (the comments at
\* rpcwebsocket.go:2623-2625 and 2758-2764 say that it meets new blocks or ends
\* with an error).
RescanEnds == \A c \in Clients : [](scan[c].pc # "idle" => <>(scan[c].pc = "idle" \/ Spins(c)))
=============================================================================
