------------------------------ MODULE P2pServer ------------------------------
(***************************************************************************)
(* server.go: the goroutines of the peer-to-peer server and the channels   *)
(* between them.  The peers' input handlers run the callbacks OnTx,        *)
(* OnBlock, ...; peerLifecycleHandler owns the peer maps and the bans;     *)
(* rebroadcastHandler owns the pending inventories; the block handler of   *)
(* the sync manager (netsync/manager.go) takes messages from msgChan; RPC  *)
(* calls send queries, blocks and transactions.                            *)
(*                                                                         *)
(* No code sends a peerAdd event, so the peer maps of peerState stay empty *)
(* and are left out, with handleAddPeerMsg and the loops over the maps:    *)
(* what is relayed reaches nobody, and handleDonePeerMsg ends by closing   *)
(* the connection.                                                         *)
(***************************************************************************)
EXTENDS Integers, Sequences, SequencesExt, FiniteSets

CONSTANTS
    Peers,          \* connections, each used once
    HostOf,         \* [Peers -> hosts]
    Whitelisted,    \* the peers isWhitelisted holds for
    Callers,        \* goroutines of the RPC server
    Txs,            \* transactions that are submitted, mined, or orphans
    MaxPeers,       \* cfg.MaxPeers: room in the channels
    MsgRoom,        \* room in msgChan
    BanThreshold,   \* cfg.BanThreshold
    Transient,      \* what addBanScore adds for each kind of message
    MaxMsgs,        \* bound: messages of peers
    MaxCalls        \* bound: calls

ServerAssumption ==
    /\ MaxPeers \in Nat /\ MsgRoom \in Nat /\ BanThreshold \in Nat
    /\ Transient \in [{"mempool", "tx", "getdata", "addrv2"} -> Nat]

VARIABLES
    bloom,          \* whether the services include SFNodeBloom
    link,           \* of each peer: "none", "open", "closed"
    verack,         \* peers whose verAckCh is closed
    score,          \* banScore
    inHandler,      \* what the callback of each peer waits for
    doneHandler,    \* peerDoneHandler of each peer
    processed,      \* of each peer: the channels txProcessed, blockProcessed that are full
    peerLifecycle, banPeers, relayInv, msgChan,
    banned,         \* hosts
    quit, smQuit,   \* closed by Stop and by the Stop of the sync manager
    handler,        \* peerLifecycleHandler
    blockHandler,
    rebroadcast,    \* rebroadcastHandler
    pendingInvs,
    caller,         \* what each call waits for
    msgs, calls     \* numbers of messages and calls so far

peerVars == <<bloom, link, verack, score, inHandler, doneHandler, processed, msgs>>
callVars == <<caller, calls>>
vars == <<bloom, link, verack, score, inHandler, doneHandler, processed, peerLifecycle, banPeers, relayInv,
          msgChan, banned, quit, smQuit, handler, blockHandler, rebroadcast, pendingInvs, caller, msgs, calls>>

Idle == [at |-> "idle"]

\* room in a buffered channel
Room(chan, n) == Len(chan) < n

-----------------------------------------------------------------------------
(* Peers *)

\* inboundPeerConnected and outboundPeerConnected
PeerConnected(p) ==
    /\ link[p] = "none" /\ ~ quit
    /\ link' = [link EXCEPT ![p] = "open"]
    /\ doneHandler' = [doneHandler EXCEPT ![p] = "wait"]
    /\ UNCHANGED <<bloom, verack, score, inHandler, processed, peerLifecycle, banPeers, relayInv, msgChan,
                   banned, quit, smQuit, handler, blockHandler, rebroadcast, pendingInvs, caller, msgs, calls>>

\* the remote side closes the connection
RemoteCloses(p) ==
    /\ link[p] = "open"
    /\ link' = [link EXCEPT ![p] = "closed"]
    /\ UNCHANGED <<bloom, verack, score, inHandler, doneHandler, processed, peerLifecycle, banPeers, relayInv,
                   msgChan, banned, quit, smQuit, handler, blockHandler, rebroadcast, pendingInvs, caller, msgs, calls>>

\* mutant: the threshold is compared with the score before the message.
AddBanScore_Before(p, kind) ==
    IF p \in Whitelisted THEN [score |-> score[p], ban |-> FALSE]
    ELSE [score |-> score[p] + Transient[kind], ban |-> score[p] > BanThreshold]

AddBanScore(p, kind) ==
    IF p \in Whitelisted THEN [score |-> score[p], ban |-> FALSE]
    ELSE [score |-> score[p] + Transient[kind], ban |-> score[p] + Transient[kind] > BanThreshold]

\* the callback of peer p goes on to wait for next
Waits(p, next) == inHandler' = [inHandler EXCEPT ![p] = next]

\* A callback that adds to the score; it goes on to next unless the peer is
\* banned.
Scored(p, kind, next) ==
    LET s == AddBanScore(p, kind)
    IN  /\ score' = [score EXCEPT ![p] = s.score]
        /\ Waits(p, IF s.ban THEN [at |-> "ban"] ELSE next)

\* the callback waits for room in msgChan
Queues(p, kind) == Waits(p, [at |-> "queue", msg |-> [kind |-> kind, peer |-> p]])

Closes(p) == link' = [link EXCEPT ![p] = "closed"]

\* OnVersion refuses an outbound peer that lacks the services wanted; the peer
\* package then disconnects.
OnVersion(p) == Closes(p) /\ UNCHANGED <<verack, score, inHandler>>

OnVerAck(p) == verack' = verack \cup {p} /\ UNCHANGED <<link, score, inHandler>>

\* without bloom filtering the peer is disconnected
OnMemPool(p) ==
    /\ IF bloom THEN Scored(p, "mempool", Idle) /\ UNCHANGED link ELSE Closes(p) /\ UNCHANGED <<score, inHandler>>
    /\ UNCHANGED verack

OnInv(p) ==
    /\ IF bloom THEN Queues(p, "inv") /\ UNCHANGED link ELSE Closes(p) /\ UNCHANGED inHandler
    /\ UNCHANGED <<verack, score>>

\* the mempool has accepted the transaction, or refused it
OnTx(p) ==
    /\ (Queues(p, "tx") /\ UNCHANGED score) \/ Scored(p, "tx", Idle)
    /\ UNCHANGED <<link, verack>>

OnBlock(p) == Queues(p, "block") /\ UNCHANGED <<link, verack, score>>

\* IsCurrent comes first
OnGetHeaders(p) == Queues(p, "current") /\ UNCHANGED <<link, verack, score>>

\* see PeerRequests for the rest
OnGetData(p) == Scored(p, "getdata", Idle) /\ UNCHANGED <<link, verack>>

OnAddrV2(p) == Scored(p, "addrv2", Idle) /\ UNCHANGED <<link, verack>>

\* the input handler of a peer takes the next message
Message(p) ==
    /\ link[p] = "open" /\ inHandler[p] = Idle /\ msgs < MaxMsgs
    /\ msgs' = msgs + 1
    /\ \/ OnVersion(p) \/ OnVerAck(p) \/ OnMemPool(p) \/ OnInv(p) \/ OnTx(p)
       \/ OnBlock(p) \/ OnGetHeaders(p) \/ OnGetData(p) \/ OnAddrV2(p)
    /\ UNCHANGED <<bloom, doneHandler, processed, peerLifecycle, banPeers, relayInv, msgChan, banned, quit, smQuit,
                   handler, blockHandler, rebroadcast, pendingInvs, caller, calls>>

\* BanPeer, then Disconnect
BanPeer(p) ==
    /\ inHandler[p].at = "ban" /\ Room(banPeers, MaxPeers)
    /\ banPeers' = Append(banPeers, p)
    /\ link' = [link EXCEPT ![p] = "closed"]
    /\ Waits(p, Idle)
    /\ UNCHANGED <<bloom, verack, score, doneHandler, processed, peerLifecycle, relayInv, msgChan, banned, quit,
                   smQuit, handler, blockHandler, rebroadcast, pendingInvs, caller, msgs, calls>>

\* QueueTx, QueueBlock, QueueInv and IsCurrent of the sync manager.  Once that
\* is shutting down, done is sent at once for a block or transaction.
Queue(p) ==
    /\ inHandler[p].at = "queue"
    /\ \E msg \in {inHandler[p].msg} :
        IF smQuit /\ msg.kind # "current"
        THEN /\ msg.kind = "inv" \/ msg.kind \notin processed[p]
             /\ processed' = IF msg.kind = "inv" THEN processed ELSE [processed EXCEPT ![p] = @ \cup {msg.kind}]
             /\ Waits(p, Idle)
             /\ UNCHANGED msgChan
        ELSE /\ Room(msgChan, MsgRoom)
             /\ msgChan' = Append(msgChan, msg)
             /\ Waits(p, IF msg.kind = "current" THEN [at |-> "answer"] ELSE Idle)
             /\ UNCHANGED processed
    /\ UNCHANGED <<bloom, link, verack, score, doneHandler, peerLifecycle, banPeers, relayInv, banned, quit, smQuit,
                   handler, blockHandler, rebroadcast, pendingInvs, caller, msgs, calls>>

\* What peerDoneHandler does after it has sent peerDone: it sends the event
\* once more when verAckCh is closed.  (Its comment says that without verack
\* peerDone is skipped; only the second one is.)
PeerDone(p) == IF doneHandler[p] = "wait" /\ p \in verack THEN "second" ELSE "gone"

PeerDoneHandler(p) ==
    /\ link[p] = "closed" /\ doneHandler[p] \in {"wait", "second"}
    /\ Room(peerLifecycle, 2 * MaxPeers)
    /\ peerLifecycle' = Append(peerLifecycle, p)
    /\ doneHandler' = [doneHandler EXCEPT ![p] = PeerDone(p)]
    /\ UNCHANGED <<bloom, link, verack, score, inHandler, processed, banPeers, relayInv, msgChan, banned, quit,
                   smQuit, handler, blockHandler, rebroadcast, pendingInvs, caller, msgs, calls>>

-----------------------------------------------------------------------------
(* peerLifecycleHandler: one action for each case of its select *)

HandleLifecycle ==
    /\ handler = "run" /\ peerLifecycle # <<>>
    /\ peerLifecycle' = Tail(peerLifecycle)
    /\ link' = [link EXCEPT ![Head(peerLifecycle)] = "closed"]
    /\ UNCHANGED <<bloom, verack, score, inHandler, doneHandler, processed, banPeers, relayInv, msgChan, banned,
                   quit, smQuit, handler, blockHandler, rebroadcast, pendingInvs, caller, msgs, calls>>

\* handleBanPeerMsg
HandleBan ==
    /\ handler = "run" /\ banPeers # <<>>
    /\ banPeers' = Tail(banPeers)
    /\ banned' = banned \cup {HostOf[Head(banPeers)]}
    /\ UNCHANGED <<peerVars, peerLifecycle, relayInv, msgChan, quit, smQuit, handler, blockHandler, rebroadcast,
                   pendingInvs, callVars>>

HandleRelay ==
    /\ handler = "run" /\ relayInv # <<>>
    /\ relayInv' = Tail(relayInv)
    /\ UNCHANGED <<peerVars, peerLifecycle, banPeers, msgChan, banned, quit, smQuit, handler, blockHandler,
                   rebroadcast, pendingInvs, callVars>>

\* handleQuery: the query is taken and answered at once
HandleQuery(c) ==
    /\ handler = "run" /\ caller[c].at = "query"
    /\ caller' = [caller EXCEPT ![c] = Idle]
    /\ UNCHANGED <<peerVars, peerLifecycle, banPeers, relayInv, msgChan, banned, quit, smQuit, handler, blockHandler,
                   rebroadcast, pendingInvs, calls>>

\* the case of quit; the sync manager is told to stop
HandleQuit ==
    /\ handler = "run" /\ quit
    /\ handler' = "stopSync"
    /\ smQuit' = TRUE
    /\ UNCHANGED <<peerVars, peerLifecycle, banPeers, relayInv, msgChan, banned, quit, blockHandler, rebroadcast,
                   pendingInvs, callVars>>

\* The block handler has ended: the channels are drained once.  A query that
\* waits to be sent is taken, and not answered.
Drain ==
    /\ handler = "stopSync" /\ blockHandler.at = "ended"
    /\ handler' = "done"
    /\ peerLifecycle' = <<>> /\ relayInv' = <<>>
    /\ caller' = [c \in Callers |-> IF caller[c].at = "query" THEN [at |-> "noanswer"] ELSE caller[c]]
    /\ UNCHANGED <<peerVars, banPeers, msgChan, banned, quit, smQuit, blockHandler, rebroadcast, pendingInvs, calls>>

-----------------------------------------------------------------------------
(* The block handler of the sync manager *)

\* A message of a peer: the peer is not known, so nothing comes of it.  A
\* block or transaction is then answered on the channel of the peer.  A block
\* of a call is processed: txs are the transactions of the block if it is
\* connected and the node is current, found the orphans that one of them has
\* made fit for the mempool.
TakeMessage ==
    /\ blockHandler.at = "idle" /\ msgChan # <<>>
    /\ msgChan' = Tail(msgChan)
    /\ \E msg \in {Head(msgChan)} :
        \/ /\ msg.kind = "inv" /\ UNCHANGED <<blockHandler, inHandler>>
        \/ /\ msg.kind = "current"
           /\ Waits(msg.peer, Idle) /\ UNCHANGED blockHandler
        \/ /\ msg.kind \in {"block", "tx"}
           /\ blockHandler' = [at |-> "reply", kind |-> msg.kind, peer |-> msg.peer]
           /\ UNCHANGED inHandler
        \/ /\ msg.kind = "process"
           /\ \E ts \in SUBSET Txs :
                blockHandler' = [at |-> "connected", caller |-> msg.peer, txs |-> ts, found |-> {}]
           /\ UNCHANGED inHandler
    /\ UNCHANGED <<bloom, link, verack, score, doneHandler, processed, peerLifecycle, banPeers, relayInv, banned,
                   quit, smQuit, handler, rebroadcast, pendingInvs, caller, msgs, calls>>

\* txProcessed and blockProcessed have room for one value, and no code
\* receives from them.
Reply ==
    /\ blockHandler.at = "reply" /\ blockHandler.kind \notin processed[blockHandler.peer]
    /\ processed' = [processed EXCEPT ![blockHandler.peer] = @ \cup {blockHandler.kind}]
    /\ blockHandler' = Idle
    /\ UNCHANGED <<bloom, link, verack, score, inHandler, doneHandler, peerLifecycle, banPeers, relayInv, msgChan,
                   banned, quit, smQuit, handler, rebroadcast, pendingInvs, caller, msgs, calls>>

Handled(t) == pendingInvs \ {t}

\* mutant: TransactionConfirmed does not look at quit
TransactionConfirmed_Deaf ==
    /\ blockHandler.at = "connected" /\ blockHandler.found = {}
    /\ \E t \in blockHandler.txs, found \in SUBSET Txs :
        /\ rebroadcast.at = "idle" /\ pendingInvs' = Handled(t)
        /\ blockHandler' = [blockHandler EXCEPT !.txs = @ \ {t}, !.found = found]
    /\ UNCHANGED <<peerVars, peerLifecycle, banPeers, relayInv, msgChan, banned, quit, smQuit, handler, rebroadcast,
                   callVars>>

\* The next transaction of a block that was connected: TransactionConfirmed,
\* taken by the rebroadcast handler or given up once quit is closed, and
\* ProcessOrphans.
TransactionConfirmed ==
    /\ blockHandler.at = "connected" /\ blockHandler.found = {}
    /\ \E t \in blockHandler.txs, found \in SUBSET Txs :
        /\ \/ rebroadcast.at = "idle" /\ pendingInvs' = Handled(t)
           \/ quit /\ UNCHANGED pendingInvs
        /\ blockHandler' = [blockHandler EXCEPT !.txs = @ \ {t}, !.found = found]
    /\ UNCHANGED <<peerVars, peerLifecycle, banPeers, relayInv, msgChan, banned, quit, smQuit, handler, rebroadcast,
                   callVars>>

\* AnnounceNewTransactions of the orphans, one by one
AnnounceOrphan ==
    /\ blockHandler.at = "connected" /\ Room(relayInv, MaxPeers)
    /\ \E t \in blockHandler.found :
        /\ relayInv' = Append(relayInv, t)
        /\ blockHandler' = [blockHandler EXCEPT !.found = @ \ {t}]
    /\ UNCHANGED <<peerVars, peerLifecycle, banPeers, msgChan, banned, quit, smQuit, handler, rebroadcast,
                   pendingInvs, callVars>>

\* The block was accepted, after it was connected: it is relayed if the node is
\* current.
BlockAccepted ==
    /\ blockHandler.at = "connected" /\ blockHandler.txs = {} /\ blockHandler.found = {}
    /\ \E at \in {"relay", "answer"} : blockHandler' = [at |-> at, caller |-> blockHandler.caller]
    /\ UNCHANGED <<peerVars, peerLifecycle, banPeers, relayInv, msgChan, banned, quit, smQuit, handler, rebroadcast,
                   pendingInvs, callVars>>

\* RelayInventory
RelayBlock ==
    /\ blockHandler.at = "relay" /\ Room(relayInv, MaxPeers)
    /\ relayInv' = Append(relayInv, "block")
    /\ blockHandler' = [blockHandler EXCEPT !.at = "answer"]
    /\ UNCHANGED <<peerVars, peerLifecycle, banPeers, msgChan, banned, quit, smQuit, handler, rebroadcast,
                   pendingInvs, callVars>>

\* the answer to ProcessBlock
AnswerProcess ==
    /\ blockHandler.at = "answer"
    /\ caller' = [caller EXCEPT ![blockHandler.caller] = Idle]
    /\ blockHandler' = Idle
    /\ UNCHANGED <<peerVars, peerLifecycle, banPeers, relayInv, msgChan, banned, quit, smQuit, handler, rebroadcast,
                   pendingInvs, calls>>

BlockHandlerQuit ==
    /\ blockHandler.at = "idle" /\ smQuit
    /\ blockHandler' = [at |-> "ended"]
    /\ UNCHANGED <<peerVars, peerLifecycle, banPeers, relayInv, msgChan, banned, quit, smQuit, handler, rebroadcast,
                   pendingInvs, callVars>>

-----------------------------------------------------------------------------
(* rebroadcastHandler *)

\* the timer: all pending inventories are to be sent
RebroadcastTimer ==
    /\ rebroadcast.at = "idle" /\ pendingInvs # {}
    /\ rebroadcast' = [at |-> "send", left |-> pendingInvs]
    /\ UNCHANGED <<peerVars, peerLifecycle, banPeers, relayInv, msgChan, banned, quit, smQuit, handler, blockHandler,
                   pendingInvs, callVars>>

RebroadcastSend ==
    /\ rebroadcast.at = "send" /\ Room(relayInv, MaxPeers)
    /\ \E t \in rebroadcast.left :
        /\ relayInv' = Append(relayInv, t)
        /\ rebroadcast' = IF rebroadcast.left = {t} THEN Idle ELSE [rebroadcast EXCEPT !.left = @ \ {t}]
    /\ UNCHANGED <<peerVars, peerLifecycle, banPeers, msgChan, banned, quit, smQuit, handler, blockHandler,
                   pendingInvs, callVars>>

\* both selects look at quit
SeesQuit == quit /\ rebroadcast.at \in {"idle", "send"}

RebroadcastQuit ==
    /\ SeesQuit
    /\ rebroadcast' = [at |-> "ended"]
    /\ UNCHANGED <<peerVars, peerLifecycle, banPeers, relayInv, msgChan, banned, quit, smQuit, handler, blockHandler,
                   pendingInvs, callVars>>

-----------------------------------------------------------------------------
(* RPC calls and the end of the program *)

\* what the call goes on to wait for
NextOf(c) == IF caller[c].at = "announce" THEN [caller[c] EXCEPT !.at = "add"] ELSE Idle

\* ConnectedCount and the like; submitblock; sendrawtransaction
Call(c) ==
    /\ caller[c] = Idle /\ calls < MaxCalls /\ ~ quit
    /\ calls' = calls + 1
    /\ \E next \in {[at |-> "query"], [at |-> "process"]} \cup [at : {"announce"}, tx : Txs] :
            caller' = [caller EXCEPT ![c] = next]
    /\ UNCHANGED <<peerVars, peerLifecycle, banPeers, relayInv, msgChan, banned, quit, smQuit, handler, blockHandler,
                   rebroadcast, pendingInvs>>

\* ProcessBlock of the sync manager
CallProcess(c) ==
    /\ caller[c].at = "process" /\ Room(msgChan, MsgRoom)
    /\ msgChan' = Append(msgChan, [kind |-> "process", peer |-> c])
    /\ caller' = [caller EXCEPT ![c] = [at |-> "answer"]]
    /\ UNCHANGED <<peerVars, peerLifecycle, banPeers, relayInv, banned, quit, smQuit, handler, blockHandler,
                   rebroadcast, pendingInvs, calls>>

\* AnnounceNewTransactions
CallAnnounce(c) ==
    /\ caller[c].at = "announce" /\ Room(relayInv, MaxPeers)
    /\ relayInv' = Append(relayInv, caller[c].tx)
    /\ caller' = [caller EXCEPT ![c] = NextOf(c)]
    /\ UNCHANGED <<peerVars, peerLifecycle, banPeers, msgChan, banned, quit, smQuit, handler, blockHandler,
                   rebroadcast, pendingInvs, calls>>

\* AddRebroadcastInventory
CallAdd(c) ==
    /\ caller[c].at = "add"
    /\ \/ rebroadcast.at = "idle" /\ pendingInvs' = pendingInvs \cup {caller[c].tx}
       \/ quit /\ UNCHANGED pendingInvs
    /\ caller' = [caller EXCEPT ![c] = NextOf(c)]
    /\ UNCHANGED <<peerVars, peerLifecycle, banPeers, relayInv, msgChan, banned, quit, smQuit, handler, blockHandler,
                   rebroadcast, calls>>

Stop ==
    /\ ~ quit
    /\ quit' = TRUE
    /\ UNCHANGED <<peerVars, peerLifecycle, banPeers, relayInv, msgChan, banned, smQuit, handler, blockHandler,
                   rebroadcast, pendingInvs, callVars>>

-----------------------------------------------------------------------------
Init ==
    /\ bloom \in BOOLEAN
    /\ link = [p \in Peers |-> "none"] /\ verack = {} /\ score = [p \in Peers |-> 0]
    /\ inHandler = [p \in Peers |-> Idle] /\ doneHandler = [p \in Peers |-> "none"]
    /\ processed = [p \in Peers |-> {}] /\ msgs = 0
    /\ peerLifecycle = <<>> /\ banPeers = <<>> /\ relayInv = <<>> /\ msgChan = <<>> /\ banned = {}
    /\ quit = FALSE /\ smQuit = FALSE /\ handler = "run"
    /\ blockHandler = Idle /\ rebroadcast = Idle /\ pendingInvs = {}
    /\ caller = [c \in Callers |-> Idle] /\ calls = 0

PeerSteps == \E p \in Peers : BanPeer(p) \/ Queue(p) \/ PeerDoneHandler(p)
BlockSteps ==
    \/ TakeMessage \/ Reply \/ TransactionConfirmed \/ AnnounceOrphan \/ BlockAccepted \/ RelayBlock
    \/ AnswerProcess
CallSteps == \E c \in Callers : CallProcess(c) \/ CallAnnounce(c) \/ CallAdd(c)
HandlerSteps == HandleLifecycle \/ HandleBan \/ HandleRelay \/ \E c \in Callers : HandleQuery(c)

Next ==
    \/ \E p \in Peers : PeerConnected(p) \/ RemoteCloses(p) \/ Message(p)
    \/ PeerSteps \/ BlockSteps \/ CallSteps \/ HandlerSteps
    \/ HandleQuit \/ Drain \/ BlockHandlerQuit
    \/ RebroadcastTimer \/ RebroadcastSend \/ RebroadcastQuit
    \/ \E c \in Callers : Call(c)
    \/ Stop

Spec == Init /\ [][Next]_vars

\* Every goroutine that can go on does; the select statement of the handler
\* chooses among the cases that are ready at random, so that neither the
\* relayed inventory, which may come again and again, nor the other channels
\* nor quit is passed over for ever.
HandlesPeers == HandleLifecycle \/ HandleBan \/ \E c \in Callers : HandleQuery(c)
Fairness ==
    /\ \A p \in Peers : WF_vars(BanPeer(p) \/ Queue(p)) /\ WF_vars(PeerDoneHandler(p))
    /\ WF_vars(HandlesPeers) /\ WF_vars(HandleRelay) /\ WF_vars(HandleQuit \/ Drain)
    /\ WF_vars(BlockSteps \/ BlockHandlerQuit) /\ WF_vars(RebroadcastSend \/ RebroadcastQuit)

FairSpec == Spec /\ Fairness

-----------------------------------------------------------------------------
(* Properties. *)

TypeOK ==
    /\ link \in [Peers -> {"none", "open", "closed"}] /\ verack \subseteq Peers
    /\ doneHandler \in [Peers -> {"none", "wait", "second", "gone"}]
    /\ processed \in [Peers -> SUBSET {"block", "tx"}]
    /\ Len(peerLifecycle) <= 2 * MaxPeers /\ Len(banPeers) <= MaxPeers /\ Len(relayInv) <= MaxPeers
    /\ Len(msgChan) <= MsgRoom
    /\ banned \subseteq {HostOf[p] : p \in Peers \ Whitelisted}
    /\ handler \in {"run", "stopSync", "done"}

\* A peer whose score is over the threshold is banned or about to be, and
\* takes no further message, whatever became of the connection meanwhile
\* (addBanScore).
BannedForScore ==
    \A p \in Peers : score[p] > BanThreshold =>
        inHandler[p].at = "ban" \/ (link[p] = "closed" /\ (Contains(banPeers, p) \/ HostOf[p] \in banned))

\* Channels keep to their room, and misbehaving peers are cut off and banned.
ServerSound == TypeOK /\ BannedForScore

\* A block handler that waits for room in a channel which nobody empties: the
\* second block or transaction of a peer, and a relay into a full channel while
\* peerLifecycleHandler waits for the block handler to end.
Relays == blockHandler.at = "relay" \/ (blockHandler.at = "connected" /\ blockHandler.found # {})
Stuck ==
    \/ blockHandler.at = "reply" /\ blockHandler.kind \in processed[blockHandler.peer]
    \/ Relays /\ ~ Room(relayInv, MaxPeers) /\ handler = "stopSync"

\* Stop brings both handlers to their end, and with them WaitForShutdown,
\* unless the block handler is stuck.  That it can be is not what the comment
\* at server.go:1435-1436 says, "drain channels before exiting so nothing is
\* left waiting around to send": the draining begins when the block handler has
\* ended.  The property says that there is no other way to hang.
ShutdownCompletes == quit ~> (handler = "done" /\ rebroadcast.at = "ended") \/ Stuck

\* Until the server stops, a ban, a query and the report of a closed
\* connection, with verack or without, all get through.
Served ==
    /\ \A p \in Peers : inHandler[p].at = "ban" ~> HostOf[p] \in banned \/ quit
    /\ \A p \in Peers : link[p] = "closed" ~> doneHandler[p] = "gone" \/ quit
    /\ \A c \in Callers : caller[c].at = "query" ~> caller[c] = Idle \/ quit
=============================================================================
