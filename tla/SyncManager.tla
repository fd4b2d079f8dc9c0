---------------------------- MODULE SyncManager ----------------------------
(***************************************************************************)
(* netsync/manager.go: how the node learns headers and blocks from its     *)
(* peers.  One goroutine (blockHandler) runs the handlers, so every        *)
(* handler is one action; what races are the handlers' messages: answers   *)
(* of peers, disconnections, the stall ticker.                             *)
(*                                                                         *)
(* The chain is one line of heights 1..MaxHeight (branches are the subject *)
(* of module BlockChain); `have' holds the heights whose block data is     *)
(* known, the tip being the longest prefix and the rest orphans.           *)
(* inbox[p] is the connection to p: what p still has to send, in order.    *)
(* Honest peers hold the network's chain and answer everything; a limited  *)
(* peer holds only the last Window blocks; a silent peer never answers and *)
(* claims MaxHeight blocks.                                                *)
(*                                                                         *)
(* blockHandler answers every block and every transaction on a channel of  *)
(* the connection that has room for one answer and that nobody reads from  *)
(* (serverPeer.blockProcessed, txProcessed): at the second one it waits    *)
(* for ever, and with it every handler.                                    *)
(***************************************************************************)
EXTENDS Integers, Sequences, FiniteSets, SequencesExt, FiniteSetsExt, Ordering

CONSTANTS
    Full, Limited, Silent,  \* the peers, by what they serve
    Txs,                    \* transactions that peers announce
    Witness,                \* the peers that serve witness data
    MaxHeight,              \* bound on the network's chain
    StartHeight,            \* the network's height when the node starts
    Recent,                 \* first height whose timestamp is less than a day old
    Batch,                  \* headers in one headers message
    Window,                 \* wire.NodeNetworkLimitedBlockThreshold
    MinInFlight,            \* minInFlightBlocks
    MaxInv,                 \* wire.MaxInvPerMsg, maxRequestedBlocks, maxRequestedTxns
    MaxFaults,              \* bound: lost connections and stalls of peers that were only slow
    None

Peers == Full \cup Limited \cup Silent
Honest == Full \cup Limited
Blocks == 1..MaxHeight

ASSUME SyncAssumption ==
    /\ {MaxHeight, StartHeight, Recent, Batch, Window, MinInFlight, MaxInv, MaxFaults} \subseteq Nat
    /\ StartHeight <= MaxHeight /\ Batch > 0 /\ MaxInv > 0
    /\ Silent \cap Honest = {} /\ Full \cap Limited = {}
    /\ Witness \subseteq Peers /\ None \notin Peers /\ Txs \cap Blocks = {}

VARIABLES
    sm,      \* the manager's fields and its peers (see TypeOK)
    header,  \* height of the best header
    have,    \* heights whose block data the chain holds, orphans included
    pool,    \* transactions in the memory pool
    net,     \* height of the network's chain
    faults,  \* lost connections and early stalls so far
    replied, \* the full channels of each connection, blockProcessed and txProcessed
    hung     \* blockHandler waits at a channel that is full

replies == <<replied, hung>>
vars == <<sm, header, have, pool, net, faults, replied, hung>>

Messages ==
    [kind : {"headers", "getblocks", "block", "tx"}, at : 0..MaxHeight \cup Txs]
        \cup [kind : {"inv"}, from : Blocks, to : Blocks] \cup [kind : {"invtx"}, at : Txs]

\* The fields of the manager and of its peers: conn is the state of the
\* connection (a peer is in peerStates while it is up or closing), last is
\* peer.LastBlock(), own the peer's requested maps, req the manager's.
TypeOK ==
    /\ sm.conn \in [Peers -> {"off", "up", "closing", "gone"}]
    /\ sm.cand \in [Peers -> BOOLEAN]
    /\ sm.last \in [Peers -> 0..MaxHeight]
    /\ sm.own \in [Peers -> SUBSET (Blocks \cup Txs)]
    /\ sm.req \subseteq Blocks \cup Txs
    /\ sm.rejected \subseteq Txs
    /\ sm.syncPeer \in Peers \cup {None}
    /\ sm.ibd \in BOOLEAN
    /\ \A p \in Peers : \A i \in DOMAIN sm.inbox[p] : sm.inbox[p][i] \in Messages
    /\ header \in 0..net /\ have \subseteq 1..net /\ pool \subseteq Txs
    /\ net \in StartHeight..MaxHeight /\ faults \in 0..MaxFaults
    /\ replied \in [Peers -> SUBSET {"block", "tx"}] /\ hung \in BOOLEAN

-----------------------------------------------------------------------------
(* The chain, as the manager sees it. *)

\* BestSnapshot().Height
Best(hv) == Max({h \in 0..MaxHeight : 1..h \subseteq hv})

\* chain.IsCurrent: the tip is less than a day old
IsCurrent(hv) == Best(hv) >= Recent

\* GetOrphanRoot: the lowest orphan of the run that ends in h
OrphanRoot(hv, h) == Min({g \in 1..h : g..h \subseteq hv})

\* chain.ProcessBlock: the block is a duplicate, an orphan or accepted
IsOrphan(hv, h) == h - 1 > Best(hv)

BestHeaderAfter(hv, bh) == Max({Best(hv), bh})

-----------------------------------------------------------------------------
(* The manager's helpers: from a state s of sm to its successor, or to the *)
(* set of its possible successors where the code draws a random peer.      *)

Known(s) == {p \in Peers : s.conn[p] \in {"up", "closing"}}

\* What is queued on a connection that is being closed is never sent.
Push(s, p, msgs) == IF s.conn[p] = "up" THEN [s EXCEPT !.inbox[p] = @ \o msgs] ELSE s

Hangup(s, p) == IF s.conn[p] = "up" THEN [s EXCEPT !.conn[p] = "closing"] ELSE s

FetchHigherPeers(s, height) == {p \in Known(s) : s.cand[p] /\ s.last[p] > height}

IsInIBDMode(s, hv) == ~ (IsCurrent(hv) /\ FetchHigherPeers(s, Best(hv)) = {})

Current(s, hv) ==
    IsCurrent(hv) /\ (s.syncPeer # None => Best(hv) >= s.last[s.syncPeer])

\* isSyncCandidate: an archival peer, or a pruned one that still has our next block
IsSyncCandidate(p, hv, last) ==
    \/ p \in Full \cup Silent
    \/ p \in Limited /\ Best(hv) + 1 > last - Window

\* The blocks above the tip that are on the header chain, not at hand and
\* not in flight, the lowest MaxInv of them.
BuildBlockRequest(s, hv, bh) ==
    LET wanted == ((Best(hv) + 1)..bh) \ (hv \cup s.req)
    IN  {h \in wanted : Rank(wanted, h) < MaxInv}

Request(s, p, items) == [s EXCEPT !.own[p] = @ \cup items, !.req = @ \cup items]

FetchHeaderBlocks(s, p, hv, bh) ==
    IF p = None THEN s
    ELSE LET wanted == BuildBlockRequest(s, hv, bh)
             ordered == Ascending(wanted)
         IN  Push(Request(s, p, wanted), p,
                  [i \in DOMAIN ordered |-> [kind |-> "block", at |-> ordered[i]]])

FetchHeaders(s, bh) ==
    {Push([s EXCEPT !.ibd = TRUE, !.syncPeer = p], p, <<[kind |-> "headers", at |-> bh]>>)
        : p \in FetchHigherPeers(s, bh)}

StartSync(s, hv, bh) ==
    IF s.syncPeer # None \/ ~ IsInIBDMode(s, hv) THEN {s}
    ELSE IF FetchHigherPeers(s, bh) # {} THEN FetchHeaders(s, bh)
    ELSE IF FetchHigherPeers(s, Best(hv)) = {} THEN {s}
    ELSE {FetchHeaderBlocks([s EXCEPT !.ibd = TRUE, !.syncPeer = p], p, hv, bh)
            : p \in FetchHigherPeers(s, Best(hv))}

\* mutant: keeps a sync peer that is gone
UpdateSyncPeer_Keep(s, dc, hv, bh) ==
    StartSync(IF dc THEN Hangup(s, s.syncPeer) ELSE s, hv, bh)

UpdateSyncPeer(s, dc, hv, bh) ==
    StartSync([(IF dc THEN Hangup(s, s.syncPeer) ELSE s) EXCEPT !.syncPeer = None], hv, bh)

\* Only the manager's maps are cleared: the peer's own stay as they are.
ClearRequestedState(s, p) == [s EXCEPT !.req = @ \ s.own[p]]

ShouldDCStalledSyncPeer(s, hv) == s.last[s.syncPeer] > Best(hv)

\* mutant: only the manager's map is updated
RemoveRequest_Global(s, p, item) == [s EXCEPT !.req = @ \ {item}]

RemoveRequest(s, p, item) == [s EXCEPT !.own[p] = @ \ {item}, !.req = @ \ {item}]

UpdateLastBlockHeight(s, p, h) == [s EXCEPT !.last[p] = Max({@, h})]

-----------------------------------------------------------------------------
(* Connections. *)

HandleNewPeerMsg(p) ==
    /\ ~ hung /\ sm.conn[p] = "off"
    /\ replied' = [replied EXCEPT ![p] = {}]
    /\ LET last == IF p \in Silent THEN MaxHeight ELSE net
           cand == IsSyncCandidate(p, have, last)
           s == [sm EXCEPT !.conn[p] = "up", !.last[p] = last, !.own[p] = {}, !.cand[p] = cand]
       IN  sm' \in IF cand THEN StartSync(s, have, header) ELSE {s}
    /\ UNCHANGED <<header, have, pool, net, faults, hung>>

\* The server reports a closed connection; a peer that never answers is not
\* connected to twice.
HandleDonePeerMsg(p) ==
    /\ ~ hung /\ sm.conn[p] = "closing"
    /\ LET s == [ClearRequestedState(sm, p) EXCEPT
                    !.conn[p] = IF p \in Silent THEN "gone" ELSE "off",
                    !.last[p] = 0, !.own[p] = {}, !.cand[p] = FALSE, !.inbox[p] = <<>>]
       IN  sm' \in IF p = sm.syncPeer THEN UpdateSyncPeer(s, FALSE, have, header) ELSE {s}
    /\ UNCHANGED <<header, have, pool, net, faults, replies>>

LoseConnection(p) ==
    /\ sm.conn[p] = "up" /\ faults < MaxFaults
    /\ sm' = Hangup(sm, p) /\ faults' = faults + 1
    /\ UNCHANGED <<header, have, pool, net, replies>>

\* No block or header is on its way from the sync peer.
NothingComes ==
    \/ sm.syncPeer \in Silent \/ sm.conn[sm.syncPeer] = "closing"
    \/ \A i \in DOMAIN sm.inbox[sm.syncPeer] :
          sm.inbox[sm.syncPeer][i].kind \notin {"headers", "block"}

\* Three minutes without progress: because nothing comes any more, or
\* because the peer was slow.
HandleStallSample ==
    /\ ~ hung /\ sm.syncPeer # None
    /\ NothingComes \/ faults < MaxFaults
    /\ faults' = IF NothingComes THEN faults ELSE faults + 1
    /\ sm' \in UpdateSyncPeer(ClearRequestedState(sm, sm.syncPeer),
                              ShouldDCStalledSyncPeer(sm, have), have, header)
    /\ UNCHANGED <<header, have, pool, net, replies>>

-----------------------------------------------------------------------------
(* Messages of peers.  s is the state after the message left inbox[p].     *)

HandleHeadersMsg(s, p, from) ==
    LET top == Min({net, from + Batch})
        bh == Max({header, top})
        next ==
            IF top = from THEN s
            ELSE IF s.ibd /\ s.syncPeer = None THEN s
            ELSE IF s.ibd /\ bh < s.last[s.syncPeer]
            THEN Push(s, s.syncPeer, <<[kind |-> "headers", at |-> bh]>>)
            ELSE FetchHeaderBlocks(s, p, have, bh)
    IN  /\ header' = bh /\ sm' = next
        /\ UNCHANGED <<have, pool>>

\* The block is accepted or becomes an orphan: what follows ProcessBlock.
BlockProcessed(s, p, h) ==
    LET hv == have \cup {h}
        orphan == IsOrphan(have, h)
        bh == BestHeaderAfter(hv, header)
        told == IF orphan
                THEN Push(s, p, <<[kind |-> "getblocks", at |-> Best(have)]>>)
                ELSE [s EXCEPT !.rejected = {}]
        upd == UpdateLastBlockHeight(told, p, IF orphan THEN h ELSE Best(hv))
        below == orphan \/ h < bh
        few == Cardinality(upd.own[p] \cap Blocks) < MinInFlight
    IN  /\ have' = hv /\ header' = bh
        /\ sm' = IF ~ upd.ibd THEN upd
                 ELSE IF below /\ few THEN FetchHeaderBlocks(upd, upd.syncPeer, hv, bh)
                 ELSE IF below THEN upd
                 ELSE [upd EXCEPT !.ibd = FALSE]

HandleBlockMsg(s, p, h) ==
    /\ IF h \notin s.own[p]
       THEN sm' = Hangup(s, p) /\ UNCHANGED <<header, have>>
       ELSE IF h \in have
       THEN sm' = RemoveRequest(s, p, h) /\ UNCHANGED <<header, have>>
       ELSE BlockProcessed(RemoveRequest(s, p, h), p, h)
    /\ UNCHANGED pool

HandleNotFoundMsg(s, p, h) ==
    /\ sm' = IF h \in s.own[p] THEN RemoveRequest(s, p, h) ELSE s
    /\ UNCHANGED <<header, have, pool>>

\* The last loop of handleInvMsg: what is not yet in flight is requested.  An
\* inventory has at most MaxInvPerMsg entries (wire refuses a longer one), so
\* the loop ends with requestQueue empty and nothing is left for the next one.
RequestQueued(s, p, items, kind) ==
    LET new == items \ s.req
        ordered == SetToSeq(new)
    IN  Push(Request(s, p, new), p,
             [i \in DOMAIN ordered |-> [kind |-> kind, at |-> ordered[i]]])

\* An inventory of the blocks lo..hi.
HandleInvMsg(s, p, lo, hi) ==
    LET known == IF Current(s, have) /\ hi <= Best(have)
                 THEN UpdateLastBlockHeight(s, p, hi) ELSE s
        missing == IF p \in Witness THEN (lo..hi) \ have ELSE {}
        orphans == {h \in lo..hi : h \in have /\ h > Best(have)}
        more == IF orphans # {}
                THEN Push(known, p, <<[kind |-> "getblocks", at |-> Best(have)]>>)
                ELSE IF hi \in have
                THEN Push(known, p, <<[kind |-> "getblocks", at |-> hi]>>)
                ELSE known
    IN  /\ sm' = IF s.syncPeer # None /\ p # s.syncPeer /\ ~ Current(s, have) THEN s
                 ELSE IF s.ibd THEN known
                 ELSE RequestQueued(more, p, missing, "block")
        /\ UNCHANGED <<header, have, pool>>

HandleInvTx(s, p, t) ==
    /\ sm' = IF \/ s.syncPeer # None /\ p # s.syncPeer /\ ~ Current(s, have)
                \/ s.ibd
                \/ t \in pool \cup s.rejected
             THEN s
             ELSE RequestQueued(s, p, {t}, "tx")
    /\ UNCHANGED <<header, have, pool>>

\* A transaction that the pool took in OnTx (module TxPool): the handler hands
\* it to the pool once more, which now has it, or takes it again if it has left.
HandleTxMsg(s, p, t) ==
    /\ sm' \in IF t \in s.rejected THEN {s}
               ELSE {RemoveRequest(s, p, t), [RemoveRequest(s, p, t) EXCEPT !.rejected = @ \cup {t}]}
    /\ pool' = pool \cup {t}
    /\ UNCHANGED <<header, have>>

\* The peer's chain answers getblocks with an inventory, if it has more blocks.
Announce(s, p, from) ==
    IF from >= net THEN sm' = s /\ UNCHANGED <<header, have, pool>>
    ELSE HandleInvMsg(s, p, from + 1, net)

\* msg.reply <- struct{}{}
Reply(p, kind) ==
    IF kind \in replied[p] THEN hung' = TRUE /\ UNCHANGED replied
    ELSE replied' = [replied EXCEPT ![p] = @ \cup {kind}] /\ UNCHANGED hung

\* blockHandler: the next message of p, in the order p sends them.
Receive(p) ==
    /\ ~ hung /\ p \in Honest /\ p \in Known(sm) /\ sm.inbox[p] # <<>>
    /\ LET m == Head(sm.inbox[p])
           s == [sm EXCEPT !.inbox[p] = Tail(@)]
           pruned == m.kind = "block" /\ p \in Limited /\ m.at <= net - Window
       IN  /\ CASE m.kind = "headers" -> HandleHeadersMsg(s, p, m.at)
                 [] pruned -> HandleNotFoundMsg(s, p, m.at)
                 [] m.kind = "block" /\ ~ pruned -> HandleBlockMsg(s, p, m.at)
                 [] m.kind = "getblocks" -> Announce(s, p, m.at)
                 [] m.kind = "inv" -> HandleInvMsg(s, p, m.from, m.to)
                 [] m.kind = "invtx" -> HandleInvTx(s, p, m.at)
                 [] m.kind = "tx" -> HandleTxMsg(s, p, m.at)
           /\ IF m.kind \in {"block", "tx"} /\ ~ pruned THEN Reply(p, m.kind) ELSE UNCHANGED replies
    /\ UNCHANGED <<net, faults>>

\* OnTx: the pool refuses the transaction or keeps it as an orphan, and the
\* manager does not hear of it: what it was asked for stays requested.
OnTx(p) ==
    /\ p \in Known(sm) /\ sm.inbox[p] # <<>> /\ Head(sm.inbox[p]).kind = "tx"
    /\ sm' = [sm EXCEPT !.inbox[p] = Tail(@)]
    /\ UNCHANGED <<header, have, pool, net, faults, replies>>

-----------------------------------------------------------------------------
(* The world. *)

\* Somebody finds a block; the peers that are connected announce it.
Mine ==
    /\ net < MaxHeight
    /\ net' = net + 1
    /\ sm' = [sm EXCEPT !.inbox = [p \in Peers |->
                IF p \in Honest /\ sm.conn[p] = "up"
                THEN Append(@[p], [kind |-> "inv", from |-> net + 1, to |-> net + 1]) ELSE @[p]]]
    /\ UNCHANGED <<header, have, pool, faults, replies>>

\* At the bound of the model, the blocks that would follow: a peer announces
\* its tip once more.
AnnounceTip(p) ==
    /\ p \in Honest /\ sm.conn[p] = "up" /\ sm.inbox[p] = <<>>
    /\ net = MaxHeight /\ Best(have) < net
    /\ sm' = Push(sm, p, <<[kind |-> "inv", from |-> net, to |-> net]>>)
    /\ UNCHANGED <<header, have, pool, net, faults, replies>>

\* processBlockMsg: the node's own miner submits the next block.
ProcessBlock ==
    /\ ~ hung /\ Best(have) = net /\ net < MaxHeight
    /\ net' = net + 1 /\ have' = have \cup {net + 1}
    /\ header' = BestHeaderAfter(have', header)
    /\ UNCHANGED <<sm, pool, faults, replies>>

AnnounceTx(p, t) ==
    /\ p \in Honest /\ sm.conn[p] = "up" /\ t \notin pool \cup sm.rejected
    /\ sm.inbox[p] = <<>>  \* bound: a transaction is announced on an idle connection,
    /\ t \notin sm.req /\ ~ hung /\ ~ sm.ibd  \* and when somebody listens
    /\ sm' = Push(sm, p, <<[kind |-> "invtx", at |-> t]>>)
    /\ UNCHANGED <<header, have, pool, net, faults, replies>>

Init ==
    /\ sm = [conn |-> [p \in Peers |-> "off"], cand |-> [p \in Peers |-> FALSE],
             last |-> [p \in Peers |-> 0], own |-> [p \in Peers |-> {}], req |-> {},
             rejected |-> {}, syncPeer |-> None, ibd |-> FALSE,
             inbox |-> [p \in Peers |-> <<>>]]
    /\ header = 0 /\ have = {} /\ pool = {}
    /\ net = StartHeight /\ faults = 0
    /\ replied = [p \in Peers |-> {}] /\ hung = FALSE

PeerStep(p) == HandleNewPeerMsg(p) \/ HandleDonePeerMsg(p) \/ Receive(p) \/ OnTx(p) \/ AnnounceTip(p)

Next ==
    \/ \E p \in Peers : HandleNewPeerMsg(p)
    \/ \E p \in Peers : HandleDonePeerMsg(p)
    \/ \E p \in Peers : LoseConnection(p)
    \/ \E p \in Peers : Receive(p)
    \/ \E p \in Peers : OnTx(p)
    \/ \E p \in Peers : AnnounceTip(p)
    \/ HandleStallSample
    \/ Mine
    \/ ProcessBlock
    \/ \E p \in Peers, t \in Txs : AnnounceTx(p, t)

Spec == Init /\ [][Next]_vars

\* The handler goroutine takes every message and every tick, connections to
\* honest peers are made again, closed ones are reported, and a peer does not
\* hold back its next block for ever in favour of transactions.
FairSpec ==
    /\ Spec /\ WF_vars(HandleStallSample)
    /\ \A p \in Peers : WF_vars(PeerStep(p)) /\ SF_vars(AnnounceTip(p))

-----------------------------------------------------------------------------
(* Properties. *)

\* The peer the manager syncs from is one it still has state for: the code
\* dereferences peerStates[syncPeer] without a check (buildBlockRequest).
SyncPeerKnown == sm.syncPeer # None => sm.syncPeer \in Known(sm)

\* Whatever the manager waits for, some peer it knows was asked for: a hash
\* that is in requestedBlocks or requestedTxns and with no peer would never
\* be fetched again (buildBlockRequest and handleInvMsg skip it).
RequestsOwned == \A i \in sm.req : \E p \in Known(sm) : i \in sm.own[p]

\* A block the manager believes to be on its way from an honest peer really
\* is, whatever stalls and disconnections of other peers happened since: the
\* peer's queue still holds it.
RequestsSent ==
    \A p \in Honest : sm.conn[p] = "up" =>
        \A i \in sm.own[p] \cap Blocks : \E k \in DOMAIN sm.inbox[p] :
            sm.inbox[p][k] = [kind |-> "block", at |-> i]

\* What the manager keeps about peers and requests agrees with what peers were
\* asked for and still have to send (startSync, updateSyncPeer,
\* clearRequestedState, handleBlockMsg).
RequestsTracked == TypeOK /\ SyncPeerKnown /\ RequestsOwned /\ RequestsSent

\* The package's promise (netsync/doc.go): the manager downloads the blocks of
\* its peers until the node has caught up, and keeps it so.
KeepsInSync == []<>(Best(have) = net)

\* The code keeps it with two exceptions.  A node that is left in the initial
\* download without a peer to download from ignores the blocks that peers
\* announce (the comment at manager.go:1125-1127 says that it accepts them),
\* until a new connection gets it out of there.  And blockHandler hangs once a
\* peer has sent its second block or transaction.
Abandoned == sm.ibd /\ sm.syncPeer = None
FollowsOrStuck == []<>(Best(have) = net \/ Abandoned \/ hung)
=============================================================================
