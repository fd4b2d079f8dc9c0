---------------------------- MODULE ServerProofs ----------------------------
(***************************************************************************)
(* For any number of peers, calls and messages and any room in the         *)
(* channels: the goroutines of server.go keep to the room of the channels  *)
(* and ban whom they should (P2pServer), what a peer is answered is what   *)
(* it asked for (PeerRequests), and getblocktemplate serves one call at a  *)
(* time and no template that was stale when the call began                 *)
(* (BlockTemplates).                                                       *)
(***************************************************************************)
EXTENDS P2pServer, OrderingProofs

-----------------------------------------------------------------------------
(* P2pServer *)

(* What a callback, the block handler, the rebroadcast handler and a call  *)
(* can wait for.                                                           *)
PeerMsgs == [kind : {"inv", "tx", "block", "current"}, peer : Peers]
CallerMsgs == [kind : {"process"}, peer : Callers]
Waiting == {Idle, [at |-> "ban"], [at |-> "answer"]} \cup [at : {"queue"}, msg : PeerMsgs]
Connecting == [at : {"connected"}, caller : Callers, txs : SUBSET Txs, found : SUBSET Txs]
Handling ==
    {Idle, [at |-> "ended"]} \cup [at : {"reply"}, kind : {"block", "tx"}, peer : Peers]
    \cup Connecting \cup [at : {"relay", "answer"}, caller : Callers]
Sending == {Idle, [at |-> "ended"]} \cup [at : {"send"}, left : SUBSET Txs]
Calling ==
    {Idle, [at |-> "query"], [at |-> "process"], [at |-> "answer"], [at |-> "noanswer"]}
    \cup [at : {"announce", "add"}, tx : Txs]

PeersInv ==
    /\ link \in [Peers -> {"none", "open", "closed"}] /\ verack \subseteq Peers
    /\ score \in [Peers -> Nat] /\ inHandler \in [Peers -> Waiting]
    /\ doneHandler \in [Peers -> {"none", "wait", "second", "gone"}]
    /\ processed \in [Peers -> SUBSET {"block", "tx"}]

ChannelsInv ==
    /\ peerLifecycle \in Seq(Peers) /\ Len(peerLifecycle) <= 2 * MaxPeers
    /\ banPeers \in Seq(Peers \ Whitelisted) /\ Len(banPeers) <= MaxPeers
    /\ relayInv \in Seq(Txs \cup {"block"}) /\ Len(relayInv) <= MaxPeers
    /\ msgChan \in Seq(PeerMsgs \cup CallerMsgs) /\ Len(msgChan) <= MsgRoom
    /\ banned \subseteq {HostOf[p] : p \in Peers \ Whitelisted}

HandlersInv ==
    /\ handler \in {"run", "stopSync", "done"}
    /\ blockHandler \in Handling /\ rebroadcast \in Sending /\ pendingInvs \subseteq Txs
    /\ caller \in [Callers -> Calling]

(* The callback of a peer that asks IsCurrent waits for the one answer     *)
(* that msgChan holds for it: no other callback is woken by it.            *)
AnswersInv ==
    /\ \A p \in Peers : inHandler[p].at = "queue" => inHandler[p].msg.peer = p
    /\ \A i \in DOMAIN msgChan : msgChan[i].kind = "current" => inHandler[msgChan[i].peer].at = "answer"
    /\ \A i, j \in DOMAIN msgChan :
            msgChan[i].kind = "current" /\ msgChan[j].kind = "current" /\ msgChan[i].peer = msgChan[j].peer => i = j

(* Peer p is banned, or about to be, when its score is over the threshold. *)
Banned(p) == link[p] = "closed" /\ (Contains(banPeers, p) \/ HostOf[p] \in banned)
BansInv ==
    \A p \in Peers : /\ inHandler[p].at = "ban" => p \notin Whitelisted
                     /\ score[p] > BanThreshold => inHandler[p].at = "ban" \/ Banned(p)

(* The inductive invariant of P2pServer. *)
ServerInv == PeersInv /\ ChannelsInv /\ HandlersInv /\ AnswersInv /\ BansInv

-----------------------------------------------------------------------------
LEMMA AppendIn ==
    ASSUME NEW S, NEW q \in Seq(S), NEW e \in S, NEW n \in Nat, Room(q, n)
    PROVE  /\ Append(q, e) \in Seq(S) /\ Len(Append(q, e)) <= n /\ Len(Append(q, e)) = Len(q) + 1
           /\ \A i \in DOMAIN q : Append(q, e)[i] = q[i]
           /\ Append(q, e)[Len(q) + 1] = e
           /\ DOMAIN Append(q, e) = DOMAIN q \cup {Len(q) + 1} /\ Len(q) + 1 \notin DOMAIN q
  BY DEF Room

LEMMA TailIn ==
    ASSUME NEW S, NEW q \in Seq(S), q # <<>>, NEW n \in Nat, Len(q) <= n
    PROVE  /\ Head(q) \in S /\ Head(q) = q[1] /\ 1 \in DOMAIN q
           /\ Tail(q) \in Seq(S) /\ Len(Tail(q)) <= n /\ Len(Tail(q)) = Len(q) - 1
           /\ \A i \in DOMAIN Tail(q) : i + 1 \in DOMAIN q /\ i \in Nat \ {0} /\ Tail(q)[i] = q[i + 1]
           /\ \A i \in DOMAIN q : i = 1 \/ (i - 1 \in DOMAIN Tail(q) /\ Tail(q)[i - 1] = q[i])
  OBVIOUS

LEMMA ContainsAppend ==
    ASSUME NEW S, NEW q \in Seq(S), NEW e \in S
    PROVE  /\ Contains(Append(q, e), e)
           /\ \A p \in S : Contains(q, p) => Contains(Append(q, e), p)
  <1>1. Append(q, e)[Len(q) + 1] = e /\ Len(Append(q, e)) = Len(q) + 1 /\ Len(q) \in Nat
    OBVIOUS
  <1>2. \A i \in 1..Len(q) : Append(q, e)[i] = q[i]
    OBVIOUS
  <1> QED
    BY <1>1, <1>2 DEF Contains

LEMMA ContainsTail ==
    ASSUME NEW S, NEW q \in Seq(S), q # <<>>, NEW p \in S, Contains(q, p)
    PROVE  p = Head(q) \/ Contains(Tail(q), p)
  <1>1. PICK i \in 1..Len(q) : q[i] = p
    BY DEF Contains
  <1>2. CASE i = 1
    BY <1>1, <1>2
  <1>3. CASE i # 1
    <2>1. i - 1 \in 1..Len(Tail(q)) /\ Tail(q)[i - 1] = q[i]
      BY <1>3
    <2> QED
      BY <1>1, <2>1 DEF Contains
  <1> QED
    BY <1>2, <1>3

LEMMA ContainsIn ==
    ASSUME NEW S, NEW q \in Seq(S), NEW e, Contains(q, e)
    PROVE  e \in S
  BY DEF Contains

(* The callback that an answer in msgChan is for waits for it. *)
LEMMA CurrentOfPeer ==
    ASSUME ChannelsInv, AnswersInv, NEW i \in DOMAIN msgChan, msgChan[i].kind = "current"
    PROVE  msgChan[i].peer \in Peers /\ inHandler[msgChan[i].peer].at = "answer"
  <1>1. msgChan[i] \in PeerMsgs \cup CallerMsgs
    BY DEF ChannelsInv
  <1>2. msgChan[i] \in PeerMsgs
    BY <1>1 DEF CallerMsgs
  <1> QED
    BY <1>2 DEF PeerMsgs, AnswersInv

-----------------------------------------------------------------------------
LEMMA ConnectStep ==
    ASSUME ServerInv, NEW p \in Peers, PeerConnected(p) \/ RemoteCloses(p)
    PROVE  ServerInv'
  <1> USE DEF ServerInv
  <1>1. link' = [link EXCEPT ![p] = link'[p]] /\ link'[p] \in {"open", "closed"} /\ link[p] # "closed"
        /\ (doneHandler' = doneHandler \/ doneHandler' = [doneHandler EXCEPT ![p] = "wait"])
    BY DEF PeerConnected, RemoteCloses, PeersInv
  <1>2. UNCHANGED <<verack, score, inHandler, processed, peerLifecycle, banPeers, relayInv, msgChan,
                   banned, quit, smQuit, handler, blockHandler, rebroadcast, pendingInvs, caller>>
    BY DEF PeerConnected, RemoteCloses
  <1>3. PeersInv'
    BY <1>1, <1>2 DEF PeersInv
  <1>4. ChannelsInv' /\ HandlersInv' /\ AnswersInv'
    BY <1>2 DEF ChannelsInv, HandlersInv, AnswersInv
  <1>5. BansInv'
    BY <1>1, <1>2 DEF BansInv, Banned, PeersInv
  <1> QED
    BY <1>3, <1>4, <1>5

(* A callback of a peer that was idle goes on to wait for something else,  *)
(* and for the ban when the score is over the threshold.                   *)
LEMMA MessageKeeps ==
    ASSUME ServerInv, NEW p \in Peers, link[p] = "open", inHandler[p] = Idle,
           NEW s \in Nat, NEW w \in Waiting, NEW l \in {"open", "closed"},
           w.at = "ban" => p \notin Whitelisted, w.at = "queue" => w.msg.peer = p,
           s > BanThreshold => w.at = "ban" \/ s = score[p],
           score' = [score EXCEPT ![p] = s], inHandler' = [inHandler EXCEPT ![p] = w],
           link' = [link EXCEPT ![p] = l], verack' \subseteq Peers,
           UNCHANGED <<doneHandler, processed, peerLifecycle, banPeers, relayInv, msgChan, banned,
                       handler, blockHandler, rebroadcast, pendingInvs, caller>>
    PROVE  ServerInv'
  <1> USE DEF ServerInv
  <1>1. PeersInv'
    BY DEF PeersInv
  <1>2. ChannelsInv' /\ HandlersInv'
    BY DEF ChannelsInv, HandlersInv
  <1>3. \A q \in Peers : q # p => score'[q] = score[q] /\ inHandler'[q] = inHandler[q] /\ link'[q] = link[q]
    BY DEF PeersInv
  <1>4. score'[p] = s /\ inHandler'[p] = w /\ link'[p] = l
    BY DEF PeersInv
  <1>5. \A i \in DOMAIN msgChan : msgChan[i].kind = "current" => msgChan[i].peer \in Peers /\ msgChan[i].peer # p
    BY CurrentOfPeer DEF Idle
  <1>6. AnswersInv'
    BY <1>3, <1>4, <1>5 DEF AnswersInv
  <1>7. score[p] > BanThreshold => FALSE
    BY DEF BansInv, Banned, Idle
  <1>8. BansInv'
    BY <1>3, <1>4, <1>7 DEF BansInv, Banned
  <1> QED
    BY <1>1, <1>2, <1>6, <1>8

LEMMA MessageStep ==
    ASSUME ServerAssumption, ServerInv, NEW p \in Peers, Message(p)
    PROVE  ServerInv'
  <1>1. /\ link[p] = "open" /\ inHandler[p] = Idle
        /\ UNCHANGED <<doneHandler, processed, peerLifecycle, banPeers, relayInv, msgChan, banned,
                       handler, blockHandler, rebroadcast, pendingInvs, caller>>
    BY DEF Message
  <1>2. link \in [Peers -> {"none", "open", "closed"}] /\ score \in [Peers -> Nat] /\ inHandler \in [Peers -> Waiting]
        /\ verack \subseteq Peers
    BY DEF ServerInv, PeersInv
  <1>3. /\ link = [link EXCEPT ![p] = "open"] /\ score = [score EXCEPT ![p] = score[p]]
        /\ inHandler = [inHandler EXCEPT ![p] = Idle]
    BY <1>1, <1>2
  <1>4. Idle \in Waiting /\ Idle.at = "idle" /\ score[p] \in Nat
    BY <1>2 DEF Waiting, Idle
  <1>5. ASSUME NEW kind \in {"inv", "tx", "block", "current"}, Queues(p, kind), UNCHANGED <<link, verack, score>>
        PROVE  ServerInv'
    <2> DEFINE w == [at |-> "queue", msg |-> [kind |-> kind, peer |-> p]]
    <2>1. w \in Waiting /\ w.at = "queue" /\ w.msg.peer = p /\ inHandler' = [inHandler EXCEPT ![p] = w]
      BY <1>5 DEF Waiting, PeerMsgs, Queues, Waits
    <2> HIDE DEF w
    <2> QED
      BY <1>1, <1>2, <1>3, <1>4, <1>5, <2>1, MessageKeeps
  <1>6. ASSUME Closes(p), UNCHANGED <<verack, score, inHandler>> PROVE ServerInv'
    <2>1. /\ link' = [link EXCEPT ![p] = "closed"] /\ score' = [score EXCEPT ![p] = score[p]]
          /\ inHandler' = [inHandler EXCEPT ![p] = Idle] /\ verack' \subseteq Peers
      BY <1>2, <1>3, <1>6 DEF Closes
    <2> QED
      BY <1>1, <1>4, <2>1, MessageKeeps
  <1>7. ASSUME NEW kind \in {"mempool", "tx", "getdata", "addrv2"}, Scored(p, kind, Idle), UNCHANGED <<link, verack>>
        PROVE  ServerInv'
    <2> DEFINE s == AddBanScore(p, kind)
               w == IF s.ban THEN [at |-> "ban"] ELSE Idle
    <2>1. Transient[kind] \in Nat /\ BanThreshold \in Nat
      BY DEF ServerAssumption
    <2>2. s.score \in Nat /\ s.ban \in BOOLEAN /\ (s.ban => p \notin Whitelisted)
          /\ (s.score > BanThreshold => s.ban \/ s.score = score[p])
      <3>1. CASE p \in Whitelisted
        <4>1. s = [score |-> score[p], ban |-> FALSE]
          BY <3>1 DEF AddBanScore
        <4> QED
          BY <1>4, <4>1
      <3>2. CASE p \notin Whitelisted
        <4> DEFINE over == score[p] + Transient[kind] > BanThreshold
        <4>1. s = [score |-> score[p] + Transient[kind], ban |-> over]
          BY <3>2 DEF AddBanScore
        <4>3. over \in BOOLEAN /\ (over <=> score[p] + Transient[kind] > BanThreshold)
          OBVIOUS
        <4> HIDE DEF s, over
        <4>2. s.score = score[p] + Transient[kind] /\ s.ban \in BOOLEAN
              /\ (s.ban <=> score[p] + Transient[kind] > BanThreshold)
          BY <4>1, <4>3
        <4> QED
          BY <1>4, <2>1, <3>2, <4>2
      <3> QED
        BY <3>1, <3>2
    <2>3. score' = [score EXCEPT ![p] = s.score] /\ inHandler' = [inHandler EXCEPT ![p] = w]
      BY <1>7 DEF Scored, Waits
    <2> HIDE DEF s
    <2>4. w \in Waiting /\ w.at \in {"ban", "idle"} /\ (w.at = "ban" <=> s.ban)
      BY <2>2 DEF Waiting, Idle
    <2> HIDE DEF w
    <2> QED
      BY <1>1, <1>2, <1>3, <1>7, <2>2, <2>3, <2>4, MessageKeeps
  <1>8. CASE OnVerAck(p)
    BY <1>1, <1>2, <1>3, <1>4, <1>8, MessageKeeps DEF OnVerAck
  <1>9. CASE OnMemPool(p)
    BY <1>6, <1>7, <1>9 DEF OnMemPool
  <1>10. CASE OnInv(p)
    BY <1>5, <1>6, <1>10 DEF OnInv
  <1>11. CASE OnTx(p)
    BY <1>5, <1>7, <1>11 DEF OnTx
  <1> QED
    BY <1>5, <1>6, <1>7, <1>8, <1>9, <1>10, <1>11
       DEF Message, OnVersion, OnBlock, OnGetHeaders, OnGetData, OnAddrV2

(* BanPeer: what was over the threshold is now in the channel. *)
LEMMA BanPeerStep ==
    ASSUME ServerAssumption, ServerInv, NEW p \in Peers, BanPeer(p)
    PROVE  ServerInv'
  <1> USE DEF ServerInv
  <1>1. /\ inHandler[p].at = "ban" /\ Room(banPeers, MaxPeers) /\ banPeers' = Append(banPeers, p)
        /\ link' = [link EXCEPT ![p] = "closed"] /\ inHandler' = [inHandler EXCEPT ![p] = Idle]
        /\ UNCHANGED <<verack, score, doneHandler, processed, peerLifecycle, relayInv, msgChan, banned, handler,
                       blockHandler, rebroadcast, pendingInvs, caller>>
    BY DEF BanPeer, Waits
  <1>2. p \in Peers \ Whitelisted /\ banPeers \in Seq(Peers \ Whitelisted) /\ MaxPeers \in Nat
    BY <1>1 DEF BansInv, ChannelsInv, ServerAssumption
  <1>3. banPeers' \in Seq(Peers \ Whitelisted) /\ Len(banPeers') <= MaxPeers
    BY <1>1, <1>2, AppendIn
  <1>4. Contains(banPeers', p) /\ \A q \in Peers \ Whitelisted : Contains(banPeers, q) => Contains(banPeers', q)
    BY <1>1, <1>2, ContainsAppend
  <1>5. PeersInv'
    BY <1>1 DEF PeersInv, Waiting
  <1>6. ChannelsInv' /\ HandlersInv'
    BY <1>1, <1>3 DEF ChannelsInv, HandlersInv
  <1>7. \A q \in Peers : q # p => inHandler'[q] = inHandler[q] /\ link'[q] = link[q]
    BY <1>1 DEF PeersInv
  <1>8. inHandler'[p] = Idle /\ link'[p] = "closed" /\ Idle.at = "idle"
    BY <1>1 DEF PeersInv, Idle
  <1>9. AnswersInv'
    <2>1. \A i \in DOMAIN msgChan : msgChan[i].kind = "current" => msgChan[i].peer \in Peers /\ msgChan[i].peer # p
      BY <1>1, CurrentOfPeer
    <2> QED
      BY <1>1, <1>7, <1>8, <2>1 DEF AnswersInv
  <1>10. BansInv'
    <2> SUFFICES ASSUME NEW q \in Peers
                 PROVE  /\ inHandler'[q].at = "ban" => q \notin Whitelisted
                        /\ score'[q] > BanThreshold => inHandler'[q].at = "ban" \/ Banned(q)'
      BY DEF BansInv
    <2>1. CASE q = p
      BY <1>1, <1>4, <1>8, <2>1 DEF Banned
    <2>2. CASE q # p
      <3>1. ASSUME Contains(banPeers, q) PROVE Contains(banPeers', q)
        BY <1>2, <1>4, <3>1, ContainsIn
      <3> QED
        BY <1>1, <1>7, <2>2, <3>1 DEF BansInv, Banned
    <2> QED
      BY <2>1, <2>2
  <1> QED
    BY <1>5, <1>6, <1>9, <1>10

(* A callback hands its message to the sync manager. *)
LEMMA QueueStep ==
    ASSUME ServerAssumption, ServerInv, NEW p \in Peers, Queue(p)
    PROVE  ServerInv'
  <1> USE DEF ServerInv
  <1> DEFINE msg == inHandler[p].msg
  <1>1. /\ inHandler[p].at = "queue"
        /\ UNCHANGED <<link, verack, score, doneHandler, peerLifecycle, banPeers, relayInv, banned, handler,
                       blockHandler, rebroadcast, pendingInvs, caller>>
        /\ \/ /\ msgChan' = msgChan /\ inHandler' = [inHandler EXCEPT ![p] = Idle]
              /\ msg.kind # "current"
              /\ \/ processed' = processed
                 \/ msg.kind # "inv" /\ processed' = [processed EXCEPT ![p] = @ \cup {msg.kind}]
           \/ /\ Room(msgChan, MsgRoom) /\ msgChan' = Append(msgChan, msg) /\ processed' = processed
              /\ inHandler' = [inHandler EXCEPT ![p] = IF msg.kind = "current" THEN [at |-> "answer"] ELSE Idle]
    BY DEF Queue, Waits
  <1>2. msg \in PeerMsgs /\ inHandler \in [Peers -> Waiting]
    <2>1. inHandler[p] \in Waiting
      BY DEF PeersInv
    <2> QED
      BY <1>1, <2>1 DEF PeersInv, Waiting, Idle
  <1>3. inHandler[p].at \notin {"answer", "ban"} /\ Idle \in Waiting /\ Idle.at = "idle"
        /\ [at |-> "answer"] \in Waiting
    BY <1>1 DEF Waiting, Idle
  <1>4. \A q \in Peers : q # p => inHandler'[q] = inHandler[q]
    BY <1>1, <1>2
  <1>5. inHandler' \in [Peers -> Waiting] /\ inHandler'[p].at \in {"idle", "answer"}
    BY <1>1, <1>2, <1>3
  <1>6. \A i \in DOMAIN msgChan : msgChan[i].kind = "current" => msgChan[i].peer \in Peers /\ msgChan[i].peer # p
    BY <1>3, CurrentOfPeer
  <1>7. BansInv'
    BY <1>1, <1>3, <1>4, <1>5 DEF BansInv, Banned
  <1>8. HandlersInv'
    BY <1>1 DEF HandlersInv
  <1>9. PeersInv'
    <2>1. processed' \in [Peers -> SUBSET {"block", "tx"}]
      <3>1. CASE processed' = processed
        BY <3>1 DEF PeersInv
      <3>2. CASE msg.kind \in {"block", "tx"} /\ processed' = [processed EXCEPT ![p] = @ \cup {msg.kind}]
        BY <3>2 DEF PeersInv
      <3> QED
        BY <1>1, <1>2, <3>1, <3>2 DEF PeerMsgs
    <2> QED
      BY <1>1, <1>5, <2>1 DEF PeersInv
  <1>10. CASE msgChan' = msgChan
    <2>1. ChannelsInv'
      BY <1>1, <1>10 DEF ChannelsInv
    <2>2. AnswersInv'
      BY <1>4, <1>5, <1>6, <1>10 DEF AnswersInv
    <2> QED
      BY <1>7, <1>8, <1>9, <2>1, <2>2
  <1>11. CASE /\ Room(msgChan, MsgRoom) /\ msgChan' = Append(msgChan, msg)
              /\ inHandler' = [inHandler EXCEPT ![p] = IF msg.kind = "current" THEN [at |-> "answer"] ELSE Idle]
    <2> HIDE DEF msg
    <2>1. msgChan \in Seq(PeerMsgs \cup CallerMsgs) /\ MsgRoom \in Nat /\ msg \in PeerMsgs \cup CallerMsgs
      BY <1>2 DEF ChannelsInv, ServerAssumption
    <2>2. /\ msgChan' \in Seq(PeerMsgs \cup CallerMsgs) /\ Len(msgChan') <= MsgRoom
          /\ \A i \in DOMAIN msgChan : msgChan'[i] = msgChan[i]
          /\ DOMAIN msgChan' = DOMAIN msgChan \cup {Len(msgChan) + 1} /\ msgChan'[Len(msgChan) + 1] = msg
      BY <1>11, <2>1, AppendIn
    <2>3. ChannelsInv'
      BY <1>1, <2>2 DEF ChannelsInv
    <2>4. msg.peer \in Peers /\ (msg.kind = "current" => inHandler'[p].at = "answer")
      BY <1>2, <1>11 DEF PeerMsgs
    <2>5. msg.peer = p
      BY <1>1 DEF AnswersInv, msg
    <2>6. AnswersInv'
      BY <1>4, <1>5, <1>6, <2>2, <2>4, <2>5 DEF AnswersInv
    <2> QED
      BY <1>7, <1>8, <1>9, <2>3, <2>6
  <1> QED
    BY <1>1, <1>10, <1>11

LEMMA PeerDoneStep ==
    ASSUME ServerAssumption, ServerInv, NEW p \in Peers, PeerDoneHandler(p)
    PROVE  ServerInv'
  <1> USE DEF ServerInv
  <1>1. /\ Room(peerLifecycle, 2 * MaxPeers) /\ peerLifecycle' = Append(peerLifecycle, p)
        /\ doneHandler' = [doneHandler EXCEPT ![p] = PeerDone(p)]
        /\ UNCHANGED <<link, verack, score, inHandler, processed, banPeers, relayInv, msgChan, banned, handler,
                       blockHandler, rebroadcast, pendingInvs, caller>>
    BY DEF PeerDoneHandler
  <1>2. peerLifecycle \in Seq(Peers) /\ 2 * MaxPeers \in Nat
    BY DEF ChannelsInv, ServerAssumption
  <1>3. peerLifecycle' \in Seq(Peers) /\ Len(peerLifecycle') <= 2 * MaxPeers
    BY <1>1, <1>2, AppendIn
  <1>4. PeersInv'
    BY <1>1 DEF PeersInv, PeerDone
  <1>5. ChannelsInv' /\ HandlersInv' /\ AnswersInv'
    BY <1>1, <1>3 DEF ChannelsInv, HandlersInv, AnswersInv
  <1>6. BansInv'
    BY <1>1 DEF BansInv, Banned
  <1> QED
    BY <1>4, <1>5, <1>6

-----------------------------------------------------------------------------
(* peerLifecycleHandler *)

LEMMA LifecycleStep ==
    ASSUME ServerAssumption, ServerInv, HandleLifecycle
    PROVE  ServerInv'
  <1> USE DEF ServerInv
  <1>1. /\ peerLifecycle # <<>> /\ peerLifecycle' = Tail(peerLifecycle)
        /\ link' = [link EXCEPT ![Head(peerLifecycle)] = "closed"]
        /\ UNCHANGED <<verack, score, inHandler, doneHandler, processed, banPeers, relayInv, msgChan, banned, handler,
                       blockHandler, rebroadcast, pendingInvs, caller>>
    BY DEF HandleLifecycle
  <1>2. peerLifecycle \in Seq(Peers) /\ 2 * MaxPeers \in Nat /\ Len(peerLifecycle) <= 2 * MaxPeers
    BY DEF ChannelsInv, ServerAssumption
  <1>3. Head(peerLifecycle) \in Peers /\ peerLifecycle' \in Seq(Peers) /\ Len(peerLifecycle') <= 2 * MaxPeers
    BY <1>1, <1>2, TailIn
  <1>4. PeersInv'
    BY <1>1, <1>3 DEF PeersInv
  <1>5. ChannelsInv' /\ HandlersInv' /\ AnswersInv'
    BY <1>1, <1>3 DEF ChannelsInv, HandlersInv, AnswersInv
  <1>6. \A p \in Peers : link[p] = "closed" => link'[p] = "closed"
    BY <1>1, <1>3 DEF PeersInv
  <1>7. BansInv'
    BY <1>1, <1>6 DEF BansInv, Banned
  <1> QED
    BY <1>4, <1>5, <1>7

(* handleBanPeerMsg: whom it takes off the channel is banned then. *)
LEMMA BanStep ==
    ASSUME ServerAssumption, ServerInv, HandleBan
    PROVE  ServerInv'
  <1> USE DEF ServerInv
  <1>1. /\ banPeers # <<>> /\ banPeers' = Tail(banPeers) /\ banned' = banned \cup {HostOf[Head(banPeers)]}
        /\ UNCHANGED <<link, verack, score, inHandler, doneHandler, processed, peerLifecycle, relayInv, msgChan,
                       handler, blockHandler, rebroadcast, pendingInvs, caller>>
    BY DEF HandleBan, peerVars, callVars
  <1>2. banPeers \in Seq(Peers \ Whitelisted) /\ MaxPeers \in Nat /\ Len(banPeers) <= MaxPeers
    BY DEF ChannelsInv, ServerAssumption
  <1>3. /\ Head(banPeers) \in Peers \ Whitelisted
        /\ banPeers' \in Seq(Peers \ Whitelisted) /\ Len(banPeers') <= MaxPeers
    BY <1>1, <1>2, TailIn
  <1>4. PeersInv' /\ HandlersInv' /\ AnswersInv'
    BY <1>1 DEF PeersInv, HandlersInv, AnswersInv
  <1>5. ChannelsInv'
    BY <1>1, <1>3 DEF ChannelsInv
  <1>6. \A p \in Peers : Contains(banPeers, p) => Contains(banPeers', p) \/ HostOf[p] \in banned'
    BY <1>1, <1>2, ContainsIn, ContainsTail
  <1>7. BansInv'
    BY <1>1, <1>6 DEF BansInv, Banned
  <1> QED
    BY <1>4, <1>5, <1>7

(* What the other steps change has no part in the bans. *)
LEMMA QuietStep ==
    ASSUME ServerAssumption, ServerInv,
           UNCHANGED <<link, verack, score, inHandler, doneHandler, banPeers, banned>>,
           processed' \in [Peers -> SUBSET {"block", "tx"}],
           peerLifecycle' \in {peerLifecycle, <<>>},
           relayInv' \in Seq(Txs \cup {"block"}), Len(relayInv') <= MaxPeers,
           \/ msgChan' = msgChan
           \/ \E c \in Callers : Room(msgChan, MsgRoom) /\ msgChan' = Append(msgChan, [kind |-> "process", peer |-> c])
           \/ msgChan # <<>> /\ msgChan' = Tail(msgChan),
           HandlersInv'
    PROVE  ServerInv'
  <1> USE DEF ServerInv
  <1>1. PeersInv' /\ BansInv'
    BY DEF PeersInv, BansInv, Banned
  <1>2. peerLifecycle' \in Seq(Peers) /\ Len(peerLifecycle') <= 2 * MaxPeers
    <2>1. CASE peerLifecycle' = peerLifecycle
      BY <2>1 DEF ChannelsInv
    <2>2. CASE peerLifecycle' = <<>>
      BY <2>2 DEF ServerAssumption
    <2> QED
      BY <2>1, <2>2
  <1> DEFINE M == PeerMsgs \cup CallerMsgs
  <1>3. msgChan \in Seq(M) /\ MsgRoom \in Nat /\ Len(msgChan) <= MsgRoom
    BY DEF ChannelsInv, ServerAssumption
  <1>4. msgChan' \in Seq(M) /\ Len(msgChan') <= MsgRoom /\ AnswersInv'
    <2>1. CASE msgChan' = msgChan
      BY <1>3, <2>1 DEF AnswersInv
    <2>2. ASSUME NEW c \in Callers, Room(msgChan, MsgRoom), msgChan' = Append(msgChan, [kind |-> "process", peer |-> c])
          PROVE  msgChan' \in Seq(M) /\ Len(msgChan') <= MsgRoom /\ AnswersInv'
      <3>1. [kind |-> "process", peer |-> c] \in M
        BY DEF CallerMsgs
      <3> HIDE DEF M
      <3>2. /\ msgChan' \in Seq(M) /\ Len(msgChan') <= MsgRoom
            /\ \A i \in DOMAIN msgChan : msgChan'[i] = msgChan[i]
            /\ DOMAIN msgChan' = DOMAIN msgChan \cup {Len(msgChan) + 1}
            /\ msgChan'[Len(msgChan) + 1] = [kind |-> "process", peer |-> c]
        BY <1>3, <2>2, <3>1, AppendIn
      <3>3. msgChan'[Len(msgChan) + 1].kind # "current"
        BY <3>2
      <3> QED
        BY <3>2, <3>3 DEF AnswersInv
    <2>3. CASE msgChan # <<>> /\ msgChan' = Tail(msgChan)
      <3> HIDE DEF M
      <3>1. /\ msgChan' \in Seq(M) /\ Len(msgChan') <= MsgRoom
            /\ \A i \in DOMAIN msgChan' : i + 1 \in DOMAIN msgChan /\ i \in Nat \ {0} /\ msgChan'[i] = msgChan[i + 1]
        BY <1>3, <2>3, TailIn
      <3>2. \A i, j \in DOMAIN msgChan' : i + 1 = j + 1 => i = j
        BY <3>1
      <3> QED
        BY <3>1, <3>2 DEF AnswersInv
    <2> QED
      BY <2>1, <2>2, <2>3
  <1>5. ChannelsInv'
    BY <1>2, <1>4 DEF ChannelsInv
  <1> QED
    BY <1>1, <1>4, <1>5

LEMMA HandlerStep ==
    ASSUME ServerAssumption, ServerInv,
           HandleRelay \/ (\E c \in Callers : HandleQuery(c)) \/ HandleQuit \/ Drain \/ Stop
    PROVE  ServerInv'
  <1>1. processed \in [Peers -> SUBSET {"block", "tx"}]
        /\ relayInv \in Seq(Txs \cup {"block"}) /\ Len(relayInv) <= MaxPeers /\ MaxPeers \in Nat
        /\ caller \in [Callers -> Calling] /\ HandlersInv
    BY DEF ServerInv, PeersInv, ChannelsInv, HandlersInv, ServerAssumption
  <1>2. CASE HandleRelay
    <2>1. relayInv' \in Seq(Txs \cup {"block"}) /\ Len(relayInv') <= MaxPeers
      BY <1>1, <1>2, TailIn DEF HandleRelay
    <2>2. HandlersInv'
      BY <1>1, <1>2 DEF HandleRelay, HandlersInv, peerVars, callVars
    <2> QED
      BY <1>1, <1>2, <2>1, <2>2, QuietStep DEF HandleRelay, peerVars, callVars
  <1>3. ASSUME NEW c \in Callers, HandleQuery(c) PROVE ServerInv'
    <2>1. HandlersInv'
      BY <1>1, <1>3 DEF HandleQuery, HandlersInv, Calling
    <2> QED
      BY <1>1, <1>3, <2>1, QuietStep DEF HandleQuery, peerVars
  <1>4. CASE HandleQuit \/ Stop
    <2>1. HandlersInv'
      BY <1>1, <1>4 DEF HandleQuit, Stop, HandlersInv, callVars
    <2> QED
      BY <1>1, <1>4, <2>1, QuietStep DEF HandleQuit, Stop, peerVars
  <1>5. CASE Drain
    <2>1. HandlersInv'
      <3>1. caller' \in [Callers -> Calling]
        BY <1>1, <1>5 DEF Drain, Calling
      <3> QED
        BY <1>1, <1>5, <3>1 DEF Drain, HandlersInv
    <2>2. relayInv' \in Seq(Txs \cup {"block"}) /\ Len(relayInv') <= MaxPeers
      BY <1>1, <1>5 DEF Drain
    <2> QED
      BY <1>1, <1>5, <2>1, <2>2, QuietStep DEF Drain, peerVars
  <1> QED
    BY <1>2, <1>3, <1>4, <1>5

-----------------------------------------------------------------------------
(* The block handler of the sync manager *)

LEMMA TakeStep ==
    ASSUME ServerAssumption, ServerInv, TakeMessage
    PROVE  ServerInv'
  <1> DEFINE msg == Head(msgChan)
             M == PeerMsgs \cup CallerMsgs
  <1>1. /\ msgChan # <<>> /\ msgChan' = Tail(msgChan)
        /\ UNCHANGED <<link, verack, score, doneHandler, processed, peerLifecycle, banPeers, relayInv, banned,
                       handler, rebroadcast, pendingInvs, caller>>
    BY DEF TakeMessage
  <1>2. msgChan \in Seq(M) /\ MsgRoom \in Nat /\ Len(msgChan) <= MsgRoom
    BY DEF ServerInv, ChannelsInv, ServerAssumption
  <1>3. /\ msg \in M /\ msg = msgChan[1] /\ 1 \in DOMAIN msgChan /\ msgChan' \in Seq(M) /\ Len(msgChan') <= MsgRoom
        /\ \A i \in DOMAIN msgChan' : i + 1 \in DOMAIN msgChan /\ i \in Nat \ {0} /\ msgChan'[i] = msgChan[i + 1]
    <2> HIDE DEF M
    <2> QED
      BY <1>1, <1>2, TailIn
  <1>4. /\ processed' \in [Peers -> SUBSET {"block", "tx"}] /\ peerLifecycle' = peerLifecycle
        /\ relayInv' \in Seq(Txs \cup {"block"}) /\ Len(relayInv') <= MaxPeers
    BY <1>1 DEF ServerInv, PeersInv, ChannelsInv
  <1>5. ASSUME blockHandler' \in Handling PROVE HandlersInv'
    BY <1>1, <1>5 DEF ServerInv, HandlersInv
  <1>6. ASSUME inHandler' = inHandler, blockHandler' \in Handling PROVE ServerInv'
    BY <1>1, <1>4, <1>5, <1>6, QuietStep
  <1>7. CASE msg.kind = "inv" /\ UNCHANGED <<blockHandler, inHandler>>
    BY <1>6, <1>7 DEF ServerInv, HandlersInv
  <1>8. CASE /\ msg.kind \in {"block", "tx"} /\ UNCHANGED inHandler
             /\ blockHandler' = [at |-> "reply", kind |-> msg.kind, peer |-> msg.peer]
    <2>1. msg.peer \in Peers
      BY <1>3, <1>8 DEF PeerMsgs, CallerMsgs
    <2>2. blockHandler' \in Handling
      BY <1>8, <2>1 DEF Handling
    <2> QED
      BY <1>6, <1>8, <2>2
  <1>9. ASSUME msg.kind = "process", inHandler' = inHandler, NEW ts \in SUBSET Txs,
               blockHandler' = [at |-> "connected", caller |-> msg.peer, txs |-> ts, found |-> {}]
        PROVE  ServerInv'
    <2>1. msg.peer \in Callers
      BY <1>3, <1>9 DEF PeerMsgs, CallerMsgs
    <2>2. blockHandler' \in Handling
      BY <1>9, <2>1 DEF Handling, Connecting
    <2> QED
      BY <1>6, <1>9, <2>2
  <1>10. CASE msg.kind = "current" /\ Waits(msg.peer, Idle) /\ UNCHANGED blockHandler
    <2> DEFINE p == msg.peer
    <2>1. p \in Peers /\ inHandler[p].at = "answer"
      BY <1>3, <1>10, CurrentOfPeer DEF ServerInv
    <2>2. inHandler' = [inHandler EXCEPT ![p] = Idle] /\ inHandler \in [Peers -> Waiting] /\ Idle \in Waiting
      BY <1>10 DEF Waits, ServerInv, PeersInv, Waiting
    <2>3. \A i \in DOMAIN msgChan' : msgChan'[i].kind = "current" => msgChan'[i].peer \in Peers /\ msgChan'[i].peer # p
      <3> SUFFICES ASSUME NEW i \in DOMAIN msgChan', msgChan'[i].kind = "current"
                   PROVE  msgChan'[i].peer \in Peers /\ msgChan'[i].peer # p
        OBVIOUS
      <3>1. i + 1 \in DOMAIN msgChan /\ msgChan'[i] = msgChan[i + 1] /\ i + 1 # 1
        BY <1>3
      <3>2. msgChan[i + 1].peer \in Peers
        BY <3>1, CurrentOfPeer DEF ServerInv
      <3>3. msgChan[1].kind = "current" /\ msgChan[1].peer = p
        BY <1>3, <1>10
      <3> QED
        BY <1>3, <3>1, <3>2, <3>3 DEF ServerInv, AnswersInv
    <2> HIDE DEF p, msg, M
    <2>4. inHandler'[p] = Idle /\ Idle.at = "idle" /\ \A q \in Peers : q # p => inHandler'[q] = inHandler[q]
      BY <2>1, <2>2 DEF Idle
    <2>5. PeersInv'
      BY <1>1, <2>1, <2>2 DEF ServerInv, PeersInv
    <2>6. ChannelsInv'
      BY <1>1, <1>3 DEF ServerInv, ChannelsInv, M
    <2>7. HandlersInv'
      BY <1>5, <1>10 DEF ServerInv, HandlersInv
    <2>8. AnswersInv'
      <3>1. \A i \in DOMAIN msgChan' : msgChan'[i].kind = "current" => inHandler'[msgChan'[i].peer].at = "answer"
        BY <1>3, <2>3, <2>4 DEF ServerInv, AnswersInv
      <3>2. \A i, j \in DOMAIN msgChan' : i + 1 = j + 1 => i = j
        BY <1>3
      <3>3. \A i, j \in DOMAIN msgChan' :
                msgChan'[i].kind = "current" /\ msgChan'[j].kind = "current" /\ msgChan'[i].peer = msgChan'[j].peer => i = j
        BY <1>3, <3>2 DEF ServerInv, AnswersInv
      <3>4. \A q \in Peers : inHandler'[q].at = "queue" => inHandler'[q].msg.peer = q
        BY <2>1, <2>4 DEF ServerInv, AnswersInv
      <3> QED
        BY <3>1, <3>3, <3>4 DEF AnswersInv
    <2>9. BansInv'
      BY <1>1, <2>1, <2>4 DEF ServerInv, BansInv, Banned
    <2> QED
      BY <2>5, <2>6, <2>7, <2>8, <2>9 DEF ServerInv
  <1> HIDE DEF M
  <1> QED
    BY <1>7, <1>8, <1>9, <1>10 DEF TakeMessage

LEMMA BlockHandlerStep ==
    ASSUME ServerAssumption, ServerInv,
           Reply \/ TransactionConfirmed \/ AnnounceOrphan \/ BlockAccepted \/ RelayBlock \/ AnswerProcess
           \/ BlockHandlerQuit
    PROVE  ServerInv'
  <1>1. processed \in [Peers -> SUBSET {"block", "tx"}]
        /\ relayInv \in Seq(Txs \cup {"block"}) /\ Len(relayInv) <= MaxPeers /\ MaxPeers \in Nat
        /\ HandlersInv /\ blockHandler \in Handling /\ pendingInvs \subseteq Txs /\ caller \in [Callers -> Calling]
    BY DEF ServerInv, PeersInv, ChannelsInv, HandlersInv, ServerAssumption
  <1>2. CASE Reply
    <2>1. blockHandler.peer \in Peers /\ blockHandler.kind \in {"block", "tx"}
      <3>1. blockHandler.at = "reply"
        BY <1>2 DEF Reply
      <3> QED
        BY <1>1, <3>1 DEF Handling, Connecting, Idle
    <2>2. processed' \in [Peers -> SUBSET {"block", "tx"}]
      BY <1>1, <1>2, <2>1 DEF Reply
    <2>3. HandlersInv'
      BY <1>1, <1>2 DEF Reply, HandlersInv, Handling
    <2> QED
      BY <1>1, <1>2, <2>2, <2>3, QuietStep DEF Reply
  <1>3. CASE RelayBlock
    <2>1. blockHandler \in [at : {"relay", "answer"}, caller : Callers]
      BY <1>1, <1>3 DEF RelayBlock, Handling, Connecting, Idle
    <2>2. blockHandler' \in Handling
      BY <1>3, <2>1 DEF RelayBlock, Handling
    <2>3. HandlersInv'
      BY <1>1, <1>3, <2>2 DEF RelayBlock, HandlersInv, callVars
    <2>4. relayInv' \in Seq(Txs \cup {"block"}) /\ Len(relayInv') <= MaxPeers
      <3>1. "block" \in Txs \cup {"block"} /\ Room(relayInv, MaxPeers) /\ relayInv' = Append(relayInv, "block")
        BY <1>3 DEF RelayBlock
      <3> QED
        BY ONLY <1>1, <3>1, AppendIn
    <2> QED
      BY <1>1, <1>3, <2>3, <2>4, QuietStep DEF RelayBlock, peerVars
  <1>4. CASE TransactionConfirmed
    <2>1. blockHandler \in Connecting
      <3>1. blockHandler.at = "connected"
        BY <1>4 DEF TransactionConfirmed
      <3> QED
        BY <1>1, <3>1 DEF Handling, Idle
    <2>2. blockHandler' \in Connecting /\ pendingInvs' \subseteq Txs
      BY <1>1, <1>4, <2>1 DEF TransactionConfirmed, Handled, Connecting
    <2>3. HandlersInv'
      BY <1>1, <1>4, <2>2 DEF TransactionConfirmed, HandlersInv, Handling, callVars
    <2> QED
      BY <1>1, <1>4, <2>3, QuietStep DEF TransactionConfirmed, peerVars
  <1>4a. CASE AnnounceOrphan
    <2>1. blockHandler \in Connecting
      BY <1>1, <1>4a DEF AnnounceOrphan, Handling, Idle
    <2>2. PICK t \in blockHandler.found :
                relayInv' = Append(relayInv, t) /\ blockHandler' = [blockHandler EXCEPT !.found = @ \ {t}]
      BY <1>4a DEF AnnounceOrphan
    <2>3. t \in Txs /\ blockHandler' \in Connecting
      BY <2>1, <2>2 DEF Connecting
    <2>4. HandlersInv'
      BY <1>1, <1>4a, <2>3 DEF AnnounceOrphan, HandlersInv, Handling, callVars
    <2>5. relayInv' \in Seq(Txs \cup {"block"}) /\ Len(relayInv') <= MaxPeers
      <3>1. t \in Txs \cup {"block"} /\ Room(relayInv, MaxPeers) /\ relayInv' = Append(relayInv, t)
        BY <1>4a, <2>2, <2>3 DEF AnnounceOrphan
      <3> QED
        BY ONLY <1>1, <3>1, AppendIn
    <2> QED
      BY <1>1, <1>4a, <2>4, <2>5, QuietStep DEF AnnounceOrphan, peerVars
  <1>4b. CASE BlockAccepted
    <2>1. blockHandler \in Connecting
      BY <1>1, <1>4b DEF BlockAccepted, Handling, Idle
    <2>2. blockHandler' \in Handling
      BY <1>4b, <2>1 DEF BlockAccepted, Handling, Connecting
    <2>3. HandlersInv'
      BY <1>1, <1>4b, <2>2 DEF BlockAccepted, HandlersInv, callVars
    <2> QED
      BY <1>1, <1>4b, <2>3, QuietStep DEF BlockAccepted, peerVars
  <1>5. CASE AnswerProcess
    <2>1. HandlersInv'
      BY <1>1, <1>5 DEF AnswerProcess, HandlersInv, Handling, Calling
    <2> QED
      BY <1>1, <1>5, <2>1, QuietStep DEF AnswerProcess, peerVars
  <1>6. CASE BlockHandlerQuit
    <2>1. HandlersInv'
      BY <1>1, <1>6 DEF BlockHandlerQuit, HandlersInv, Handling, callVars
    <2> QED
      BY <1>1, <1>6, <2>1, QuietStep DEF BlockHandlerQuit, peerVars
  <1> QED
    BY <1>2, <1>3, <1>4, <1>4a, <1>4b, <1>5, <1>6

-----------------------------------------------------------------------------
(* rebroadcastHandler and the RPC calls *)

LEMMA RebroadcastStep ==
    ASSUME ServerAssumption, ServerInv, RebroadcastTimer \/ RebroadcastSend \/ RebroadcastQuit
    PROVE  ServerInv'
  <1>1. processed \in [Peers -> SUBSET {"block", "tx"}]
        /\ relayInv \in Seq(Txs \cup {"block"}) /\ Len(relayInv) <= MaxPeers /\ MaxPeers \in Nat
        /\ HandlersInv /\ rebroadcast \in Sending /\ pendingInvs \subseteq Txs
    BY DEF ServerInv, PeersInv, ChannelsInv, HandlersInv, ServerAssumption
  <1>2. CASE RebroadcastTimer \/ RebroadcastQuit
    <2>1. rebroadcast' \in Sending
      BY <1>1, <1>2 DEF RebroadcastTimer, RebroadcastQuit, Sending
    <2>2. HandlersInv'
      BY <1>1, <1>2, <2>1 DEF RebroadcastTimer, RebroadcastQuit, HandlersInv, callVars
    <2> QED
      BY <1>1, <1>2, <2>2, QuietStep DEF RebroadcastTimer, RebroadcastQuit, peerVars
  <1>3. CASE RebroadcastSend
    <2>1. rebroadcast \in [at : {"send"}, left : SUBSET Txs]
      BY <1>1, <1>3 DEF RebroadcastSend, Sending, Idle
    <2>2. PICK t \in rebroadcast.left :
                /\ relayInv' = Append(relayInv, t)
                /\ rebroadcast' = IF rebroadcast.left = {t} THEN Idle ELSE [rebroadcast EXCEPT !.left = @ \ {t}]
      BY <1>3 DEF RebroadcastSend
    <2>3. rebroadcast' \in Sending
      BY <2>1, <2>2 DEF Sending
    <2>4. HandlersInv'
      BY <1>1, <1>3, <2>3 DEF RebroadcastSend, HandlersInv, callVars
    <2>5. relayInv' \in Seq(Txs \cup {"block"}) /\ Len(relayInv') <= MaxPeers
      BY <1>1, <1>3, <2>1, <2>2, AppendIn DEF RebroadcastSend
    <2> QED
      BY <1>1, <1>3, <2>4, <2>5, QuietStep DEF RebroadcastSend, peerVars
  <1> QED
    BY <1>2, <1>3

LEMMA CallStep ==
    ASSUME ServerAssumption, ServerInv, NEW c \in Callers,
           Call(c) \/ CallProcess(c) \/ CallAnnounce(c) \/ CallAdd(c)
    PROVE  ServerInv'
  <1>1. processed \in [Peers -> SUBSET {"block", "tx"}]
        /\ relayInv \in Seq(Txs \cup {"block"}) /\ Len(relayInv) <= MaxPeers /\ MaxPeers \in Nat
        /\ HandlersInv /\ caller \in [Callers -> Calling] /\ pendingInvs \subseteq Txs /\ caller[c] \in Calling
    BY DEF ServerInv, PeersInv, ChannelsInv, HandlersInv, ServerAssumption
  <1>2. ASSUME NEW next \in Calling, caller' = [caller EXCEPT ![c] = next] PROVE caller' \in [Callers -> Calling]
    BY <1>1, <1>2
  <1>3. CASE Call(c)
    <2>1. caller' \in [Callers -> Calling]
      BY <1>2, <1>3 DEF Call, Calling
    <2>2. HandlersInv'
      BY <1>1, <1>3, <2>1 DEF Call, HandlersInv
    <2> QED
      BY <1>1, <1>3, <2>2, QuietStep DEF Call, peerVars
  <1>4. CASE CallProcess(c)
    <2>1. caller' \in [Callers -> Calling]
      BY <1>2, <1>4 DEF CallProcess, Calling
    <2>2. HandlersInv'
      BY <1>1, <1>4, <2>1 DEF CallProcess, HandlersInv
    <2> QED
      BY <1>1, <1>4, <2>2, QuietStep DEF CallProcess, peerVars
  <1>5. ASSUME caller[c].at \in {"announce", "add"}
        PROVE  caller[c] \in [at : {"announce", "add"}, tx : Txs] /\ NextOf(c) \in Calling
    <2>1. caller[c] \in [at : {"announce", "add"}, tx : Txs]
      BY <1>1, <1>5 DEF Calling, Idle
    <2>2. [caller[c] EXCEPT !.at = "add"] \in [at : {"announce", "add"}, tx : Txs]
      BY <2>1
    <2> QED
      BY <2>1, <2>2 DEF NextOf, Calling
  <1>6. CASE CallAnnounce(c)
    <2>1. caller[c].tx \in Txs /\ caller' \in [Callers -> Calling]
      BY <1>2, <1>5, <1>6 DEF CallAnnounce
    <2>2. HandlersInv'
      BY <1>1, <1>6, <2>1 DEF CallAnnounce, HandlersInv
    <2>3. relayInv' \in Seq(Txs \cup {"block"}) /\ Len(relayInv') <= MaxPeers
      BY <1>1, <1>6, <2>1, AppendIn DEF CallAnnounce
    <2> QED
      BY <1>1, <1>6, <2>2, <2>3, QuietStep DEF CallAnnounce, peerVars
  <1>7. CASE CallAdd(c)
    <2>1. caller[c].tx \in Txs /\ caller' \in [Callers -> Calling]
      BY <1>2, <1>5, <1>7 DEF CallAdd
    <2>2. HandlersInv'
      BY <1>1, <1>7, <2>1 DEF CallAdd, HandlersInv
    <2> QED
      BY <1>1, <1>7, <2>2, QuietStep DEF CallAdd, peerVars
  <1> QED
    BY <1>3, <1>4, <1>6, <1>7

LEMMA ServerInit ==
    ASSUME ServerAssumption, Init
    PROVE  ServerInv
  <1>1. PeersInv
    BY DEF Init, PeersInv, Waiting
  <1>2. ChannelsInv /\ HandlersInv /\ AnswersInv
    BY DEF Init, ChannelsInv, HandlersInv, AnswersInv, ServerAssumption, Handling, Sending, Calling, Idle
  <1>3. BansInv
    BY DEF Init, BansInv, ServerAssumption, Idle
  <1> QED
    BY <1>1, <1>2, <1>3 DEF ServerInv

LEMMA ServerStep ==
    ASSUME ServerAssumption, ServerInv, [Next]_vars
    PROVE  ServerInv'
  <1>1. CASE UNCHANGED vars
    BY <1>1 DEF vars, ServerInv, PeersInv, ChannelsInv, HandlersInv, AnswersInv, BansInv, Banned
  <1>2. CASE Next
    BY <1>2, ConnectStep, MessageStep, BanPeerStep, QueueStep, PeerDoneStep, LifecycleStep, BanStep, HandlerStep,
       TakeStep, BlockHandlerStep, RebroadcastStep, CallStep
       DEF Next, PeerSteps, BlockSteps, CallSteps, HandlerSteps
  <1> QED
    BY <1>1, <1>2

(* For any number of peers, whitelisted or not, of calls and of messages:  *)
(* no channel is filled beyond its room, a peer whose score is over the    *)
(* threshold is banned or about to be and its connection is closed by      *)
(* then, and nobody who is whitelisted is ever banned (addBanScore,        *)
(* peerLifecycleHandler, rebroadcastHandler).                              *)
THEOREM ServerAlwaysSound ==
    ServerAssumption => (Spec => []ServerSound)
  <1> SUFFICES ASSUME ServerAssumption
               PROVE  Spec => []ServerSound
    OBVIOUS
  <1>1. Init => ServerInv
    BY ServerInit
  <1>2. ServerInv /\ [Next]_vars => ServerInv'
    BY ServerStep
  <1>3. ServerInv => ServerSound
    BY DEF ServerInv, PeersInv, ChannelsInv, HandlersInv, BansInv, Banned, ServerSound, TypeOK, BannedForScore
  <1> QED
    BY <1>1, <1>2, <1>3, PTL DEF Spec

-----------------------------------------------------------------------------
(* PeerRequests: the mempool and the chain hold anything, getdata messages *)
(* have any length.                                                        *)
CONSTANTS Pool, Blocks, NumBuffered, Requests, MaxRequests
VARIABLES filter, connected, outQueue, sent, request, item, at, open, signalled, failed, requests

R == INSTANCE PeerRequests WITH Txs <- Pool

-----------------------------------------------------------------------------
LEMMA TimesFar ==
    ASSUME NEW k \in Nat \ {0}, NEW d \in Int
    PROVE  (d >= 2 => k * d >= 2 * k) /\ (d <= -1 => k * d <= -k)
  OBVIOUS

LEMMA TimesMinus ==
    ASSUME NEW k \in Int, NEW a \in Int, NEW b \in Int
    PROVE  k * (a - b) = k * a - k * b
  OBVIOUS

LEMMA DivMod ==
    ASSUME NEW k \in Nat \ {0}, NEW n \in Nat
    PROVE  n % k \in 0..(k - 1) /\ n \div k \in Int /\ n = k * (n \div k) + (n % k)
  OBVIOUS

LEMMA ModNext ==
    ASSUME NEW k \in Nat \ {0}, NEW n \in Nat
    PROVE  n % k \in 0..(k - 1) /\ ((n + 1) % k = 0 \/ (n + 1) % k = (n % k) + 1)
  <1> DEFINE r == n % k
             s == (n + 1) % k
             q == n \div k
             u == (n + 1) \div k
             d == u - q
  <1>1. r \in 0..(k - 1) /\ s \in 0..(k - 1) /\ q \in Int /\ u \in Int /\ n = k * q + r /\ n + 1 = k * u + s
    BY DivMod
  <1> HIDE DEF r, s, q, u
  <1>2. d \in Int /\ k * d = k * u - k * q /\ k * u \in Int /\ k * q \in Int
    BY <1>1, TimesMinus
  <1>3. k * d = 1 + r - s
    BY <1>1, <1>2
  <1> HIDE DEF d
  <1>4. d = 0 \/ d = 1
    BY <1>1, <1>2, <1>3, TimesFar
  <1>5. CASE d = 0
    BY <1>1, <1>3, <1>5
  <1>6. CASE d = 1
    BY <1>1, <1>3, <1>6
  <1> QED
    BY <1>1, <1>4, <1>5, <1>6 DEF r, s

-----------------------------------------------------------------------------
(* The messages of OnGetData; the matched transactions of a filtered block *)
(* come without a done channel.                                            *)
Messages ==
    [kind : {"data"}, what : R!Inventory, done : {TRUE}] \cup [kind : {"matched"}, what : R!Inventory, done : {FALSE}]
    \cup [kind : {"notfound"}, what : Seq(R!Inventory), done : {TRUE}]

(* The messages of a list that go with a done channel. *)
DonePlaces(q) == {i \in DOMAIN q : q[i].done}
Dones(q) == Cardinality(DonePlaces(q))

LEMMA PlacesFinite ==
    ASSUME NEW S, NEW q \in Seq(S), NEW I, I \subseteq DOMAIN q
    PROVE  I \subseteq Nat /\ IsFiniteSet(I) /\ Cardinality(I) \in Nat
  <1>1. DOMAIN q = 1..Len(q) /\ Len(q) \in Nat
    OBVIOUS
  <1>2. IsFiniteSet(1..Len(q))
    BY <1>1, FS_Interval
  <1> QED
    BY <1>1, <1>2, FS_Subset, FS_CardinalityType

LEMMA DonesAppend ==
    ASSUME NEW q \in Seq(Messages), NEW m \in Messages
    PROVE  Dones(q) \in Nat /\ Dones(Append(q, m)) = Dones(q) + (IF m.done THEN 1 ELSE 0)
  <1> DEFINE n == Len(q) + 1
             r == Append(q, m)
  <1>1. DOMAIN r = DOMAIN q \cup {n} /\ n \notin DOMAIN q /\ r[n] = m /\ \A i \in DOMAIN q : r[i] = q[i]
    OBVIOUS
  <1> HIDE DEF n, r
  <1>2. DonePlaces(r) = DonePlaces(q) \cup (IF m.done THEN {n} ELSE {}) /\ n \notin DonePlaces(q)
    BY <1>1 DEF DonePlaces
  <1>3. DonePlaces(q) \subseteq DOMAIN q
    BY DEF DonePlaces
  <1>4. IsFiniteSet(DonePlaces(q)) /\ Dones(q) \in Nat
    BY <1>3, PlacesFinite DEF Dones
  <1>5. CASE m.done
    <2>1. DonePlaces(r) = DonePlaces(q) \cup {n}
      BY <1>2, <1>5
    <2>2. Cardinality(DonePlaces(q) \cup {n}) = Cardinality(DonePlaces(q)) + 1
      BY <1>2, <1>4, FS_AddElement
    <2> QED
      BY <1>4, <1>5, <2>1, <2>2 DEF Dones, r
  <1>6. CASE ~ m.done
    <2>1. DonePlaces(r) = DonePlaces(q)
      BY <1>2, <1>6
    <2> QED
      BY <1>4, <1>6, <2>1 DEF Dones, r
  <1> QED
    BY <1>5, <1>6

LEMMA DonesZero ==
    ASSUME NEW q \in Seq(Messages)
    PROVE  Dones(q) = 0 <=> \A i \in DOMAIN q : ~ q[i].done
  <1>1. DonePlaces(q) \subseteq DOMAIN q
    BY DEF DonePlaces
  <1>2. IsFiniteSet(DonePlaces(q))
    BY <1>1, PlacesFinite
  <1>3. Dones(q) = 0 <=> DonePlaces(q) = {}
    BY <1>2, FS_EmptySet DEF Dones
  <1> QED
    BY <1>3 DEF DonePlaces

LEMMA DonesTail ==
    ASSUME NEW q \in Seq(Messages), q # <<>>
    PROVE  Dones(q) = Dones(Tail(q)) + (IF Head(q).done THEN 1 ELSE 0)
  <1> DEFINE t == Tail(q)
             P == DonePlaces(t)
             Q == DonePlaces(q) \ {1}
             f == [i \in Q |-> i - 1]
  <1>1. t \in Seq(Messages) /\ 1 \in DOMAIN q /\ Head(q) = q[1]
    OBVIOUS
  <1>2. \A i \in DOMAIN t : i + 1 \in DOMAIN q /\ i \in Nat \ {0} /\ t[i] = q[i + 1]
    OBVIOUS
  <1>3. \A i \in DOMAIN q : i \in Nat /\ (i = 1 \/ (i - 1 \in DOMAIN t /\ t[i - 1] = q[i]))
    OBVIOUS
  <1> HIDE DEF t
  <1>4. f \in [Q -> P]
    BY <1>3 DEF DonePlaces
  <1>5. \A i, j \in Q : f[i] = f[j] => i = j
    <2>1. \A i, j \in Q : i \in Nat /\ j \in Nat
      BY <1>3 DEF DonePlaces
    <2> QED
      BY <2>1
  <1>6. \A p \in P : \E i \in Q : f[i] = p
    <2> SUFFICES ASSUME NEW p \in P PROVE \E i \in Q : f[i] = p
      OBVIOUS
    <2>1. p + 1 \in Q /\ p \in Nat
      BY <1>2 DEF DonePlaces
    <2>2. f[p + 1] = p
      BY <2>1
    <2> QED
      BY <2>1, <2>2
  <1>7. P \subseteq DOMAIN t /\ Q \subseteq DOMAIN q /\ DonePlaces(q) \subseteq DOMAIN q
    BY DEF DonePlaces
  <1>8. IsFiniteSet(P) /\ IsFiniteSet(Q) /\ IsFiniteSet(DonePlaces(q))
    BY <1>1, <1>7, PlacesFinite
  <1>8a. Cardinality(P) \in Nat /\ Cardinality(Q) \in Nat
    BY <1>1, <1>7, PlacesFinite
  <1> HIDE DEF f
  <1>9. f \in Bijection(Q, P)
    BY <1>4, <1>5, <1>6 DEF Bijection, Injection, Surjection, IsInjective
  <1> HIDE DEF P, Q
  <1>10. Cardinality(Q) = Cardinality(P)
    BY <1>8, <1>9, FS_Bijection DEF ExistsBijection
  <1>11. CASE Head(q).done
    <2>1. DonePlaces(q) = Q \cup {1} /\ 1 \notin Q
      BY <1>1, <1>11 DEF DonePlaces, Q
    <2>2. Cardinality(DonePlaces(q)) = Cardinality(Q) + 1
      BY <1>8, <2>1, FS_AddElement
    <2> QED
      BY <1>10, <1>11, <2>2, <1>8a DEF Dones, P, t
  <1>12. CASE ~ Head(q).done
    <2>1. DonePlaces(q) = Q
      BY <1>1, <1>12 DEF DonePlaces, Q
    <2> QED
      BY <1>8a, <1>10, <1>12, <2>1 DEF Dones, P, t
  <1> QED
    BY <1>11, <1>12

-----------------------------------------------------------------------------
(* The instance and OrderingProofs speak of the same operators. *)
LEMMA SameCardinality ==
    ASSUME NEW S
    PROVE  R!Cardinality(S) = Cardinality(S)
  BY DEF R!Cardinality, Cardinality

LEMMA SamePicked ==
    ASSUME NEW q, NEW I
    PROVE  R!Picked(q, I) = Picked(q, I)
  <1>1. \A h : R!Rank(I, h) = Rank(I, h)
    BY SameCardinality DEF R!Rank, Rank
  <1>2. R!Ascending(I) = Ascending(I)
    BY <1>1, SameCardinality DEF R!Ascending, Ascending
  <1> QED
    BY <1>2, SameCardinality DEF R!Picked, Picked

LEMMA OfKindIn ==
    ASSUME NEW q \in Seq(Messages), NEW k
    PROVE  R!OfKind(q, k) \in Seq(Messages)
  <1> DEFINE I == {i \in DOMAIN q : q[i].kind = k}
  <1>1. I \subseteq DOMAIN q
    OBVIOUS
  <1>2. I \subseteq Nat /\ IsFiniteSet(I)
    BY <1>1, PlacesFinite
  <1>3. \A i \in I : q[i] \in Messages
    BY <1>1
  <1> HIDE DEF I
  <1>4. Picked(q, I) \in Seq(Messages)
    BY <1>2, <1>3, PickedIs
  <1> QED
    BY <1>4, SamePicked DEF R!OfKind, I

LEMMA OfKindNone ==
    ASSUME NEW q \in Seq(Messages), NEW k, \A i \in DOMAIN q : q[i].kind # k
    PROVE  R!OfKind(q, k) = <<>>
  <1> DEFINE I == {i \in DOMAIN q : q[i].kind = k}
  <1>1. I = {} /\ I \subseteq DOMAIN q
    OBVIOUS
  <1>2. I \subseteq Nat /\ IsFiniteSet(I)
    BY <1>1, PlacesFinite
  <1>3. \A i \in I : q[i] \in Messages
    BY <1>1
  <1> HIDE DEF I
  <1>4. Picked(q, I) = <<>>
    BY <1>1, <1>2, <1>3, PickedIs
  <1> QED
    BY <1>4, SamePicked DEF R!OfKind, I

LEMMA OfKindAppend ==
    ASSUME NEW q \in Seq(Messages), NEW m \in Messages, NEW k
    PROVE  R!OfKind(Append(q, m), k) = IF m.kind = k THEN Append(R!OfKind(q, k), m) ELSE R!OfKind(q, k)
  <1> DEFINE I == {i \in DOMAIN q : q[i].kind = k}
             n == Len(q) + 1
             r == Append(q, m)
             J == {i \in DOMAIN r : r[i].kind = k}
  <1>1. DOMAIN r = DOMAIN q \cup {n} /\ n \notin DOMAIN q /\ r[n] = m /\ n \in Nat
    OBVIOUS
  <1>1a. \A i \in DOMAIN q : r[i] = q[i] /\ i < n /\ q[i] \in Messages
    OBVIOUS
  <1> HIDE DEF n, r
  <1>2. J = I \cup (IF m.kind = k THEN {n} ELSE {}) /\ I \subseteq DOMAIN q
    BY <1>1, <1>1a
  <1>3. I \subseteq Nat /\ IsFiniteSet(I)
    BY <1>2, PlacesFinite
  <1>4. \A i \in I : q[i] = r[i] /\ i < n /\ r[i] \in Messages
    BY <1>1a, <1>2
  <1> HIDE DEF I, J
  <1>5. Picked(q, I) = Picked(r, I)
    BY <1>3, <1>4, PickedSame
  <1>6. CASE m.kind = k
    <2>1. J = I \cup {n}
      BY <1>2, <1>6
    <2>2. Picked(r, I \cup {n}) = Append(Picked(r, I), r[n])
      BY <1>1, <1>3, <1>4, PickedNext
    <2>3. Picked(r, J) = Append(Picked(q, I), m)
      BY <1>1, <1>5, <2>1, <2>2
    <2> QED
      BY <1>6, <2>3, SamePicked DEF R!OfKind, I, J, r
  <1>7. CASE m.kind # k
    <2>1. J = I
      BY <1>2, <1>7
    <2> QED
      BY <1>5, <1>7, <2>1, SamePicked DEF R!OfKind, I, J, r
  <1> QED
    BY <1>6, <1>7

(* A part without messages of the kind does not count. *)
LEMMA OfKindFirst ==
    ASSUME NEW q \in Seq(Messages), NEW r \in Seq(Messages), NEW k, \A i \in DOMAIN r : r[i].kind # k
    PROVE  R!OfKind(q \o r, k) = R!OfKind(q, k)
  <1> DEFINE t == q \o r
             I == {i \in DOMAIN q : q[i].kind = k}
             J == {i \in DOMAIN t : t[i].kind = k}
  <1>1. Len(t) = Len(q) + Len(r) /\ t \in Seq(Messages)
    OBVIOUS
  <1>2. \A i \in DOMAIN q : i \in DOMAIN t /\ t[i] = q[i]
    OBVIOUS
  <1>3. \A i \in DOMAIN t : i \notin DOMAIN q => i - Len(q) \in DOMAIN r /\ t[i] = r[i - Len(q)]
    OBVIOUS
  <1> HIDE DEF t
  <1>4. I = J /\ I \subseteq DOMAIN q
    BY <1>2, <1>3
  <1>5. I \subseteq Nat /\ IsFiniteSet(I)
    BY <1>4, PlacesFinite
  <1>6. \A i \in I : q[i] = t[i]
    BY <1>2, <1>4
  <1> HIDE DEF I, J
  <1>7. Picked(q, I) = Picked(t, I)
    BY <1>5, <1>6, PickedSame
  <1> QED
    BY <1>4, <1>7, SamePicked DEF R!OfKind, I, J, t

-----------------------------------------------------------------------------
(* What is sent and what is queued, in the order of the messages. *)
LEMMA SendSame ==
    ASSUME NEW S, NEW q \in Seq(S), NEW r \in Seq(S), r # <<>>
    PROVE  Append(q, Head(r)) \o Tail(r) = q \o r
  <1> DEFINE a == Append(q, Head(r)) \o Tail(r)
             b == q \o r
  <1>1. a \in Seq(S) /\ b \in Seq(S) /\ Len(a) = Len(q) + Len(r) /\ Len(b) = Len(q) + Len(r)
    OBVIOUS
  <1>2. ASSUME NEW i \in 1..(Len(q) + Len(r)) PROVE a[i] = b[i]
    <2>1. CASE i <= Len(q)
      BY <2>1
    <2>2. CASE i = Len(q) + 1
      BY <2>2
    <2>3. CASE i > Len(q) + 1
      <3>1. b[i] = r[i - Len(q)]
        BY <2>3
      <3>2. a[i] = Tail(r)[i - (Len(q) + 1)]
        BY <2>3
      <3>3. Tail(r)[i - (Len(q) + 1)] = r[i - Len(q)]
        BY <2>3
      <3> QED
        BY <3>1, <3>2, <3>3
    <2> QED
      BY <2>1, <2>2, <2>3
  <1> HIDE DEF a, b
  <1>3. a = b
    BY <1>1, <1>2
  <1> QED
    BY <1>3 DEF a, b

LEMMA ConcatAppend ==
    ASSUME NEW S, NEW q \in Seq(S), NEW r \in Seq(S), NEW e \in S
    PROVE  q \o Append(r, e) = Append(q \o r, e) /\ r \o <<e>> = Append(r, e) /\ q \o <<>> = q /\ <<>> \o q = q
           /\ q \o r \in Seq(S)
  OBVIOUS

What(q) == [i \in DOMAIN q |-> q[i].what]

LEMMA WhatAppend ==
    ASSUME NEW q \in Seq(Messages), NEW m \in Messages, NEW S, What(q) \in Seq(S)
    PROVE  What(Append(q, m)) = Append(What(q), m.what)
  <1> DEFINE w == What(q)
             r == Append(q, m)
  <1>1. Len(w) = Len(q) /\ DOMAIN w = 1..Len(q) /\ \A i \in 1..Len(q) : w[i] = q[i].what
    BY DEF What
  <1>2. DOMAIN r = 1..(Len(q) + 1) /\ r[Len(q) + 1] = m /\ \A i \in 1..Len(q) : r[i] = q[i]
    OBVIOUS
  <1>3. Append(w, m.what) = [i \in 1..(Len(w) + 1) |-> IF i <= Len(w) THEN w[i] ELSE m.what]
    OBVIOUS
  <1> HIDE DEF w, r
  <1>4. What(r) = [i \in 1..(Len(q) + 1) |-> r[i].what]
    BY <1>2 DEF What
  <1>5. ASSUME NEW i \in 1..(Len(q) + 1) PROVE r[i].what = IF i <= Len(q) THEN w[i] ELSE m.what
    BY <1>1, <1>2
  <1> QED
    BY <1>1, <1>3, <1>4, <1>5 DEF w, r

-----------------------------------------------------------------------------
(* Of the first n items: those whose data is sent, and those that are lost. *)
WantedTo(n) == {i \in 1..n : ~ R!Skipped(request[i]) /\ ~ R!Missing(request[i])}
LostTo(n) == {i \in 1..n : ~ R!Skipped(request[i]) /\ R!Missing(request[i])}

DataInv ==
    /\ outQueue \in Seq(Messages) /\ sent \in Seq(Messages)
    /\ request \in Seq(R!Inventory) /\ item \in 0..Len(request) /\ failed \in Seq(R!Inventory)
    /\ at \in {"idle", "push", "wait", "last"} /\ open \in Nat /\ signalled \in Nat
    /\ connected /\ at \in {"idle", "last"} => item = Len(request)

(* Each done channel that is waited for has its message in the queue or    *)
(* has got its value; the slots fill with the items and are empty after    *)
(* each batch.                                                             *)
SlotsInv ==
    /\ open <= NumBuffered /\ Dones(outQueue) <= NumBuffered
    /\ connected \/ at # "idle" => Dones(outQueue) + signalled = open
    /\ at = "idle" => open = 0
    /\ at = "push" => open = item % NumBuffered
    /\ at = "wait" => item % NumBuffered = 0

(* What was sent and queued answers the items handled, in their order. *)
RepliesInv ==
    connected =>
        /\ What(R!OfKind(sent \o outQueue, "data")) = Picked(request, WantedTo(item))
        /\ failed = Picked(request, LostTo(item))
        /\ R!OfKind(sent \o outQueue, "notfound") =
               IF at \in {"idle", "last"} /\ failed # <<>> THEN <<R!Message("notfound", failed, TRUE)>> ELSE <<>>

(* The inductive invariant of PeerRequests. *)
RequestsInv == DataInv /\ SlotsInv /\ RepliesInv

-----------------------------------------------------------------------------
LEMMA EmptyMessages == <<>> \in Seq(Messages) /\ Dones(<<>>) = 0
  <1>1. <<>> \in Seq(Messages) /\ \A i \in DOMAIN <<>> : FALSE
    OBVIOUS
  <1> QED
    BY <1>1, DonesZero

LEMMA ItemMessages ==
    ASSUME NEW iv \in R!Inventory
    PROVE  /\ R!Message("data", iv, TRUE) \in Messages /\ R!Message("matched", iv, FALSE) \in Messages
           /\ R!Message("data", iv, TRUE).kind = "data" /\ R!Message("data", iv, TRUE).what = iv
           /\ R!Message("matched", iv, FALSE).kind = "matched"
           /\ R!Message("data", iv, TRUE).done /\ ~ R!Message("matched", iv, FALSE).done
  BY DEF R!Message, Messages

LEMMA NotFoundMessage ==
    ASSUME NEW f \in Seq(R!Inventory)
    PROVE  /\ R!Message("notfound", f, TRUE) \in Messages
           /\ R!Message("notfound", f, TRUE).kind = "notfound" /\ R!Message("notfound", f, TRUE).done
  BY DEF R!Message, Messages

(* The three things that can become of an item. *)
LEMMA PushCases ==
    ASSUME NEW iv
    PROVE  \/ /\ ~ R!Skipped(iv) /\ ~ R!Missing(iv) /\ ~ R!PushInventory(iv).err
              /\ \/ R!PushInventory(iv).msgs = <<R!Message("data", iv, TRUE)>>
                 \/ R!PushInventory(iv).msgs = <<R!Message("data", iv, TRUE), R!Message("matched", iv, FALSE)>>
           \/ R!Skipped(iv) /\ ~ R!PushInventory(iv).err /\ R!PushInventory(iv).msgs = <<>>
           \/ ~ R!Skipped(iv) /\ R!Missing(iv) /\ R!PushInventory(iv).err /\ R!PushInventory(iv).msgs = <<>>
  BY DEF R!PushInventory, R!Have, R!Skipped, R!Missing

LEMMA GivenDones ==
    ASSUME NEW q
    PROVE  R!Given(q) = IF connected THEN 0 ELSE Dones(q)
  BY SameCardinality DEF R!Given, Dones, DonePlaces

(* The places of the items grow with the items. *)
LEMMA PlacesNext ==
    ASSUME DataInv, NEW n \in 0..(Len(request) - 1)
    PROVE  /\ WantedTo(n + 1) = IF ~ R!Skipped(request[n + 1]) /\ ~ R!Missing(request[n + 1])
                                THEN WantedTo(n) \cup {n + 1} ELSE WantedTo(n)
           /\ LostTo(n + 1) = IF ~ R!Skipped(request[n + 1]) /\ R!Missing(request[n + 1])
                              THEN LostTo(n) \cup {n + 1} ELSE LostTo(n)
  <1>1. Len(request) \in Nat
    BY DEF DataInv
  <1>2. 1..(n + 1) = 1..n \cup {n + 1}
    BY <1>1
  <1> QED
    BY <1>2 DEF WantedTo, LostTo

LEMMA PlacesOK ==
    ASSUME DataInv, NEW n \in 0..Len(request), NEW I, I = WantedTo(n) \/ I = LostTo(n)
    PROVE  /\ I \subseteq Nat /\ IsFiniteSet(I) /\ (\A i \in I : i < n + 1 /\ request[i] \in R!Inventory)
           /\ Picked(request, I) \in Seq(R!Inventory)
  <1>1. Len(request) \in Nat /\ DOMAIN request = 1..Len(request)
    BY DEF DataInv
  <1>2. I \subseteq DOMAIN request /\ \A i \in I : i < n + 1
    BY <1>1 DEF WantedTo, LostTo
  <1>3. request \in Seq(R!Inventory)
    BY DEF DataInv
  <1>4. \A i \in I : request[i] \in R!Inventory
    BY <1>2, <1>3
  <1>5. I \subseteq Nat /\ IsFiniteSet(I)
    BY <1>2, <1>3, PlacesFinite
  <1> QED
    BY <1>2, <1>4, <1>5, PickedIs

LEMMA PickNextItem ==
    ASSUME DataInv, NEW n \in 0..(Len(request) - 1), NEW I, I = WantedTo(n) \/ I = LostTo(n)
    PROVE  Picked(request, I \cup {n + 1}) = Append(Picked(request, I), request[n + 1])
  <1>1. Len(request) \in Nat
    BY DEF DataInv
  <1>2. n \in 0..Len(request) /\ n + 1 \in Nat
    BY <1>1
  <1>3. I \subseteq Nat /\ IsFiniteSet(I) /\ (\A i \in I : i < n + 1 /\ request[i] \in R!Inventory)
    BY <1>2, PlacesOK
  <1> QED
    BY <1>2, <1>3, PickedNext

-----------------------------------------------------------------------------
LEMMA RequestsInit ==
    ASSUME R!RequestAssumption, R!Init
    PROVE  RequestsInv
  <1> USE DEF R!Init
  <1>1. <<>> \in Seq(Messages) /\ <<>> \in Seq(R!Inventory) /\ Len(<<>>) = 0
    OBVIOUS
  <1>2. DataInv
    BY <1>1 DEF DataInv
  <1>3. SlotsInv
    <2>1. NumBuffered \in Nat
      BY DEF R!RequestAssumption
    <2> QED
      BY <2>1, EmptyMessages DEF SlotsInv
  <1>4. RepliesInv
    <2>1. sent \o outQueue = <<>>
      OBVIOUS
    <2>2. R!OfKind(<<>>, "data") = <<>> /\ R!OfKind(<<>>, "notfound") = <<>>
      <3>1. \A i \in DOMAIN <<>> : FALSE
        OBVIOUS
      <3> QED
        BY <1>1, <3>1, OfKindNone
    <2>3. What(<<>>) = <<>>
      BY DEF What
    <2>4. WantedTo(0) = {} /\ LostTo(0) = {}
      BY DEF WantedTo, LostTo
    <2>5. Picked(<<>>, {}) = <<>>
      BY PickedIs, FS_EmptySet
    <2> QED
      BY <2>1, <2>2, <2>3, <2>4, <2>5 DEF RepliesInv
  <1> QED
    BY <1>2, <1>3, <1>4 DEF RequestsInv

(* Between two getdata messages only matched transactions are left. *)
LEMMA IdleQueue ==
    ASSUME RequestsInv, at = "idle", connected
    PROVE  Dones(outQueue) = 0 /\ outQueue \in Seq(Messages) /\ \A i \in DOMAIN outQueue : outQueue[i].kind = "matched"
  <1>1. Dones(outQueue) + signalled = 0 /\ signalled \in Nat /\ outQueue \in Seq(Messages)
    BY DEF RequestsInv, SlotsInv, DataInv
  <1>2. Dones(outQueue) \in Nat
    BY <1>1, PlacesFinite DEF Dones, DonePlaces
  <1>3. Dones(outQueue) = 0
    BY <1>1, <1>2
  <1>4. \A i \in DOMAIN outQueue : outQueue[i] \in Messages /\ ~ outQueue[i].done
    BY <1>1, <1>3, DonesZero
  <1> QED
    BY <1>1, <1>3, <1>4 DEF Messages

LEMMA AskStep ==
    ASSUME R!RequestAssumption, RequestsInv, NEW list \in Requests, R!OnGetData(list)
    PROVE  RequestsInv'
  <1> USE DEF RequestsInv
  <1>1. /\ at = "idle" /\ connected /\ connected' = connected /\ request' = list /\ item' = 0 /\ at' = "push"
        /\ open' = 0 /\ signalled' = 0 /\ failed' = <<>> /\ sent' = <<>>
        /\ UNCHANGED <<filter, outQueue>>
    BY DEF R!OnGetData
  <1>2. list \in Seq(R!Inventory) /\ NumBuffered \in Nat \ {0}
    BY DEF R!RequestAssumption
  <1>3. Dones(outQueue) = 0 /\ outQueue \in Seq(Messages) /\ \A i \in DOMAIN outQueue : outQueue[i].kind = "matched"
    BY <1>1, IdleQueue
  <1>4. DataInv'
    <2>1. <<>> \in Seq(Messages) /\ <<>> \in Seq(R!Inventory) /\ 0 \in 0..Len(list)
      BY <1>2
    <2> QED
      BY <1>1, <1>2, <1>3, <2>1 DEF DataInv
  <1>5. SlotsInv'
    <2>1. 0 % NumBuffered = 0
      BY <1>2
    <2> QED
      BY <1>1, <1>2, <1>3, <2>1 DEF SlotsInv
  <1>6. RepliesInv'
    <2>2. R!OfKind(outQueue, "data") = <<>> /\ R!OfKind(outQueue, "notfound") = <<>>
      BY <1>3, OfKindNone
    <2>3. sent' \o outQueue' = outQueue
      BY <1>1, <1>3
    <2>4. What(<<>>) = <<>>
      BY DEF What
    <2>5. WantedTo(item)' = {} /\ LostTo(item)' = {}
      BY <1>1 DEF WantedTo, LostTo
    <2>6. Picked(list, {}) = <<>>
      BY PickedIs, FS_EmptySet
    <2> QED
      BY <1>1, <2>2, <2>3, <2>4, <2>5, <2>6 DEF RepliesInv
  <1> QED
    BY <1>4, <1>5, <1>6

-----------------------------------------------------------------------------
(* Each item takes a slot, and its done channel has its message in the     *)
(* queue or has got its value.                                             *)
LEMMA PushSlots ==
    ASSUME DataInv, NEW iv \in R!Inventory, NEW msgsOf, msgsOf = R!PushInventory(iv).msgs,
           outQueue' = R!Queued(msgsOf),
           signalled' = signalled + (IF msgsOf = <<>> THEN 1 ELSE R!Given(msgsOf))
    PROVE  /\ outQueue' \in Seq(Messages) /\ signalled' \in Nat
           /\ Dones(outQueue') + signalled' = Dones(outQueue) + signalled + 1
           /\ Dones(outQueue) \in Nat /\ Dones(outQueue') \in Nat
  <1> DEFINE d == R!Message("data", iv, TRUE)
             m == R!Message("matched", iv, FALSE)
  <1>1. d \in Messages /\ m \in Messages /\ d.done /\ ~ m.done
    BY ItemMessages
  <1>2. outQueue \in Seq(Messages) /\ signalled \in Nat
    BY DEF DataInv
  <1>3. Dones(outQueue) \in Nat
    BY <1>1, <1>2, DonesAppend
  <1>4. outQueue' = (IF connected THEN outQueue \o msgsOf ELSE outQueue)
    BY DEF R!Queued
  <1> HIDE DEF d, m
  <1>5. msgsOf = <<d>> \/ msgsOf = <<d, m>> \/ msgsOf = <<>>
    BY PushCases DEF d, m
  <1> DEFINE o == Append(outQueue, d)
  <1>6. o \in Seq(Messages) /\ Dones(o) = Dones(outQueue) + 1
    BY <1>1, <1>2, DonesAppend
  <1>7. Append(o, m) \in Seq(Messages) /\ Dones(Append(o, m)) = Dones(outQueue) + 1
    <2> HIDE DEF o
    <2>1. Append(o, m) \in Seq(Messages)
      BY <1>1, <1>6
    <2>2. Dones(Append(o, m)) = Dones(o) + (IF m.done THEN 1 ELSE 0) /\ Dones(o) \in Nat
      BY <1>1, <1>6, DonesAppend
    <2> QED
      BY <1>1, <1>6, <2>1, <2>2
  <1>8. Dones(<<d>>) = 1 /\ <<d>> # <<>> /\ <<d>> \in Seq(Messages)
    <2>1. Append(<<>>, d) = <<d>> /\ <<d>> # <<>> /\ <<d>> \in Seq(Messages)
      BY <1>1
    <2>2. Dones(Append(<<>>, d)) = Dones(<<>>) + (IF d.done THEN 1 ELSE 0)
      BY <1>1, EmptyMessages, DonesAppend
    <2> QED
      BY <1>1, <2>1, <2>2, EmptyMessages
  <1>9. Dones(<<d, m>>) = 1 /\ <<d, m>> # <<>>
    <2>1. Append(<<d>>, m) = <<d, m>> /\ <<d, m>> # <<>>
      <3> DEFINE a == Append(<<d>>, m)
                 b == <<d, m>>
      <3>1. a \in Seq(Messages) /\ Len(a) = 2 /\ a[1] = d /\ a[2] = m
        BY <1>1, <1>8
      <3>2. b \in Seq(Messages) /\ Len(b) = 2 /\ b[1] = d /\ b[2] = m /\ b # <<>>
        BY <1>1
      <3> HIDE DEF a, b
      <3>3. \A i \in 1..2 : a[i] = b[i]
        BY <3>1, <3>2
      <3>4. a = b
        BY <3>1, <3>2, <3>3
      <3> QED
        BY <3>2, <3>4 DEF a, b
    <2>2. Dones(Append(<<d>>, m)) = Dones(<<d>>) + (IF m.done THEN 1 ELSE 0)
      BY <1>1, <1>8, DonesAppend
    <2>3. (IF m.done THEN 1 ELSE 0) = 0
      BY <1>1
    <2>4. Dones(Append(<<d>>, m)) = 1
      BY <1>8, <2>2, <2>3
    <2> QED
      BY <2>1, <2>4
  <1>10. outQueue \o <<d>> = o /\ outQueue \o <<d, m>> = Append(o, m) /\ outQueue \o <<>> = outQueue
    BY <1>1, <1>2
  <1> HIDE DEF o
  <1>11. CASE msgsOf = <<>>
    <2>1. outQueue' = outQueue /\ signalled' = signalled + 1
      BY <1>4, <1>10, <1>11
    <2> QED
      BY <1>2, <1>3, <2>1
  <1>12. CASE msgsOf # <<>> /\ connected
    <2>1. signalled' = signalled
      BY <1>2, <1>12, GivenDones
    <2>2. outQueue' = o \/ outQueue' = Append(o, m)
      BY <1>4, <1>5, <1>10, <1>12
    <2>3. outQueue' \in Seq(Messages) /\ Dones(outQueue') = Dones(outQueue) + 1
      BY <1>6, <1>7, <2>2
    <2> QED
      BY <1>2, <1>3, <2>1, <2>3
  <1>13. CASE msgsOf # <<>> /\ ~ connected
    <2>1. signalled' = signalled + 1 /\ outQueue' = outQueue
      BY <1>2, <1>4, <1>5, <1>8, <1>9, <1>13, GivenDones
    <2> QED
      BY <1>2, <1>3, <2>1
  <1> QED
    BY <1>11, <1>12, <1>13

(* The next item is answered after the others, or in the notfound message. *)
LEMMA PushReplies ==
    ASSUME DataInv, RepliesInv, connected, at = "push", NEW n \in 0..(Len(request) - 1), n = item,
           NEW iv, iv = request[n + 1], NEW q, q = outQueue \o R!PushInventory(iv).msgs,
           NEW f, f = IF R!PushInventory(iv).err THEN Append(failed, iv) ELSE failed
    PROVE  /\ What(R!OfKind(sent \o q, "data")) = Picked(request, WantedTo(n + 1))
           /\ f = Picked(request, LostTo(n + 1))
           /\ R!OfKind(sent \o q, "notfound") = <<>>
  <1> DEFINE t == sent \o outQueue
             d == R!Message("data", iv, TRUE)
             m == R!Message("matched", iv, FALSE)
             W == WantedTo(n)
             L == LostTo(n)
  <1>1. outQueue \in Seq(Messages) /\ sent \in Seq(Messages) /\ t \in Seq(Messages) /\ request \in Seq(R!Inventory)
    BY DEF DataInv
  <1>2. iv \in R!Inventory
    BY <1>1
  <1>3. d \in Messages /\ m \in Messages /\ d.kind = "data" /\ d.what = iv /\ m.kind = "matched"
    BY <1>2, ItemMessages
  <1>4. What(R!OfKind(t, "data")) = Picked(request, W) /\ failed = Picked(request, L) /\ R!OfKind(t, "notfound") = <<>>
    BY DEF RepliesInv
  <1>5. W \subseteq Nat /\ Picked(request, W) \in Seq(R!Inventory)
    BY PlacesOK DEF DataInv
  <1>6. /\ WantedTo(n + 1) = IF ~ R!Skipped(iv) /\ ~ R!Missing(iv) THEN W \cup {n + 1} ELSE W
        /\ LostTo(n + 1) = IF ~ R!Skipped(iv) /\ R!Missing(iv) THEN L \cup {n + 1} ELSE L
    BY PlacesNext
  <1>7. /\ Picked(request, W \cup {n + 1}) = Append(Picked(request, W), iv)
        /\ Picked(request, L \cup {n + 1}) = Append(Picked(request, L), iv)
    BY PickNextItem
  <1> HIDE DEF d, m, W, L
  <1>8. CASE /\ ~ R!Skipped(iv) /\ ~ R!Missing(iv) /\ ~ R!PushInventory(iv).err
             /\ R!PushInventory(iv).msgs = <<d>> \/ R!PushInventory(iv).msgs = <<d, m>>
    <2>1. sent \o q = Append(t, d) \/ sent \o q = Append(Append(t, d), m)
      <3>1. outQueue \o <<d>> = Append(outQueue, d) /\ outQueue \o <<d, m>> = Append(Append(outQueue, d), m)
            /\ Append(outQueue, d) \in Seq(Messages)
        BY <1>1, <1>3
      <3>2. sent \o Append(outQueue, d) = Append(t, d)
        BY <1>1, <1>3, ConcatAppend
      <3>3. sent \o Append(Append(outQueue, d), m) = Append(sent \o Append(outQueue, d), m)
        BY <1>1, <1>3, <3>1, ConcatAppend, SMTT(30)
      <3> QED
        BY <1>8, <3>1, <3>2, <3>3
    <2> HIDE DEF t
    <2>2. Append(t, d) \in Seq(Messages)
      BY <1>1, <1>3
    <2>3. R!OfKind(Append(t, d), "data") = Append(R!OfKind(t, "data"), d) /\ R!OfKind(Append(t, d), "notfound") = <<>>
      BY <1>1, <1>3, <1>4, OfKindAppend
    <2>4. /\ R!OfKind(Append(Append(t, d), m), "data") = R!OfKind(Append(t, d), "data")
          /\ R!OfKind(Append(Append(t, d), m), "notfound") = R!OfKind(Append(t, d), "notfound")
      BY <1>3, <2>2, OfKindAppend
    <2>5. What(Append(R!OfKind(t, "data"), d)) = Append(What(R!OfKind(t, "data")), iv)
      BY <1>1, <1>3, <1>4, <1>5, WhatAppend, OfKindIn
    <2>6. What(R!OfKind(sent \o q, "data")) = Append(Picked(request, W), iv) /\ R!OfKind(sent \o q, "notfound") = <<>>
      BY <1>4, <2>1, <2>3, <2>4, <2>5
    <2> QED
      BY <1>4, <1>6, <1>7, <1>8, <2>6
  <1>9. CASE /\ R!PushInventory(iv).msgs = <<>>
             /\ \/ R!Skipped(iv) /\ ~ R!PushInventory(iv).err
                \/ ~ R!Skipped(iv) /\ R!Missing(iv) /\ R!PushInventory(iv).err
    <2>1. q = outQueue
      BY <1>1, <1>9
    <2> QED
      BY <1>4, <1>6, <1>7, <1>9, <2>1
  <1> QED
    BY <1>8, <1>9, PushCases DEF d, m

LEMMA PushStep ==
    ASSUME R!RequestAssumption, RequestsInv, R!Push
    PROVE  RequestsInv'
  <1> USE DEF RequestsInv
  <1> DEFINE iv == request[item + 1]
             p == R!PushInventory(iv)
  <1>1. /\ at = "push" /\ item < Len(request) /\ item' = item + 1 /\ open' = open + 1
        /\ at' = (IF item' % NumBuffered = 0 THEN "wait" ELSE "push")
        /\ UNCHANGED <<filter, connected, sent, request>>
    BY DEF R!Push, R!Batch
  <1>2. /\ outQueue' = R!Queued(p.msgs)
        /\ signalled' = signalled + (IF p.msgs = <<>> THEN 1 ELSE R!Given(p.msgs))
        /\ failed' = IF p.err THEN Append(failed, iv) ELSE failed
    BY DEF R!Push
  <1>3. /\ item \in 0..(Len(request) - 1) /\ item \in 0..Len(request) /\ Len(request) \in Nat /\ item \in Nat
        /\ iv \in R!Inventory
    BY <1>1 DEF DataInv
  <1>4. NumBuffered \in Nat \ {0}
    BY DEF R!RequestAssumption
  <1> HIDE DEF iv, p
  <1>5. /\ outQueue' \in Seq(Messages) /\ signalled' \in Nat
        /\ Dones(outQueue') + signalled' = Dones(outQueue) + signalled + 1
        /\ Dones(outQueue) \in Nat /\ Dones(outQueue') \in Nat
    BY <1>2, <1>3, PushSlots DEF p
  <1>6. DataInv'
    <2>1. failed' \in Seq(R!Inventory)
      BY <1>2, <1>3 DEF DataInv
    <2>2. item' \in 0..Len(request') /\ open' \in Nat /\ at' \in {"push", "wait"}
      BY <1>1, <1>3 DEF DataInv
    <2> QED
      BY <1>1, <1>5, <2>1, <2>2 DEF DataInv
  <1>7. SlotsInv'
    <2>1. item % NumBuffered \in 0..(NumBuffered - 1)
          /\ ((item + 1) % NumBuffered = 0 \/ (item + 1) % NumBuffered = (item % NumBuffered) + 1)
      BY <1>3, <1>4, ModNext
    <2>2. open = item % NumBuffered /\ Dones(outQueue) + signalled = open
      BY <1>1 DEF SlotsInv
    <2>3. open' \in 1..NumBuffered /\ Dones(outQueue') + signalled' = open'
      BY <1>1, <1>4, <1>5, <2>1, <2>2
    <2>4. open' <= NumBuffered /\ Dones(outQueue') <= NumBuffered
      BY <1>4, <1>5, <2>3
    <2>5. at' = "push" => open' = item' % NumBuffered
      BY <1>1, <2>1, <2>2
    <2>6. at' = "wait" => item' % NumBuffered = 0
      BY <1>1
    <2>7. at' # "idle"
      BY <1>1
    <2> QED
      BY <2>3, <2>4, <2>5, <2>6, <2>7 DEF SlotsInv
  <1>8. RepliesInv'
    <2> SUFFICES ASSUME connected PROVE RepliesInv'
      BY <1>1 DEF RepliesInv
    <2>1. outQueue' = outQueue \o p.msgs
      BY <1>2 DEF R!Queued
    <2>2. /\ What(R!OfKind(sent \o outQueue', "data")) = Picked(request, WantedTo(item + 1))
          /\ failed' = Picked(request, LostTo(item + 1))
          /\ R!OfKind(sent \o outQueue', "notfound") = <<>>
      BY <1>1, <1>2, <1>3, <2>1, PushReplies DEF p, iv
    <2>3. WantedTo(item)' = WantedTo(item + 1) /\ LostTo(item)' = LostTo(item + 1)
      BY <1>1 DEF WantedTo, LostTo, R!Skipped
    <2> QED
      BY <1>1, <2>2, <2>3 DEF RepliesInv
  <1> QED
    BY <1>6, <1>7, <1>8

LEMMA SlotTaken ==
    ASSUME NEW a \in Nat, NEW b \in Nat, NEW s \in Nat, NEW t \in Nat, NEW o \in Nat, NEW p \in Nat, NEW n \in Nat,
           p <= o + 1, b + t - p = a + s - o, a + s = o, o \in 0..(n - 1)
    PROVE  b + t = p /\ p <= n
  OBVIOUS

LEMMA FinishStep ==
    ASSUME R!RequestAssumption, RequestsInv, R!Finish
    PROVE  RequestsInv'
  <1> USE DEF RequestsInv
  <1> DEFINE m == R!Message("notfound", failed, TRUE)
             list == IF failed = <<>> THEN <<>> ELSE <<m>>
             t == sent \o outQueue
  <1>1. /\ at = "push" /\ item = Len(request) /\ at' = "last"
        /\ UNCHANGED <<filter, connected, sent, request, item, failed>>
    BY DEF R!Finish
  <1>2. outQueue' = R!Queued(list) /\ signalled' = signalled + R!Given(list) /\ open' = open + Len(list)
    BY DEF R!Finish, R!NotFound
  <1>3. outQueue \in Seq(Messages) /\ sent \in Seq(Messages) /\ failed \in Seq(R!Inventory) /\ open \in Nat /\ signalled \in Nat
        /\ item \in Nat /\ t \in Seq(Messages)
    BY DEF DataInv
  <1>4. m \in Messages /\ m.kind = "notfound" /\ m.done
    BY <1>3, NotFoundMessage
  <1>5. NumBuffered \in Nat \ {0}
    BY DEF R!RequestAssumption
  <1> HIDE DEF m, t
  <1>6. Dones(Append(outQueue, m)) = Dones(outQueue) + 1 /\ Dones(outQueue) \in Nat
    BY <1>3, <1>4, DonesAppend
  <1>7. Dones(<<m>>) = 1 /\ Len(<<m>>) = 1 /\ <<m>> \in Seq(Messages)
    <2>1. Append(<<>>, m) = <<m>> /\ Len(<<m>>) = 1 /\ <<m>> \in Seq(Messages)
      BY <1>4
    <2>2. Dones(Append(<<>>, m)) = Dones(<<>>) + (IF m.done THEN 1 ELSE 0)
      BY <1>4, EmptyMessages, DonesAppend
    <2> QED
      BY <1>4, <2>1, <2>2, EmptyMessages
  <1>8. /\ outQueue' \in Seq(Messages) /\ signalled' \in Nat /\ open' \in Nat /\ open' <= open + 1
        /\ Dones(outQueue') \in Nat
        /\ Dones(outQueue') + signalled' - open' = Dones(outQueue) + signalled - open
    <2>1. CASE failed = <<>>
      <3>1. outQueue \o <<>> = outQueue /\ Len(<<>>) = 0
        BY <1>3
      <3>2. outQueue' = outQueue /\ signalled' = signalled /\ open' = open
        BY <1>2, <1>3, <2>1, <3>1, GivenDones, EmptyMessages DEF R!Queued
      <3> QED
        BY <1>3, <1>6, <3>2
    <2>2. CASE failed # <<>> /\ connected
      <3>1. outQueue \o <<m>> = Append(outQueue, m) /\ Append(outQueue, m) \in Seq(Messages)
        BY <1>3, <1>4
      <3>2. outQueue' = Append(outQueue, m) /\ signalled' = signalled /\ open' = open + 1
        BY <1>2, <1>3, <1>7, <2>2, <3>1, GivenDones DEF R!Queued
      <3>3. Dones(outQueue') = Dones(outQueue) + 1
        BY <1>6, <3>2
      <3>4. signalled \in Nat /\ open \in Nat /\ Dones(outQueue) \in Nat
        BY <1>3, <1>6
      <3>5. outQueue' \in Seq(Messages)
        BY <3>1, <3>2
      <3> QED
        BY ONLY <3>2, <3>3, <3>4, <3>5
    <2>3. CASE failed # <<>> /\ ~ connected
      <3>1. outQueue' = outQueue /\ signalled' = signalled + 1 /\ open' = open + 1
        BY <1>2, <1>3, <1>7, <2>3, GivenDones DEF R!Queued
      <3> QED
        BY <1>3, <1>6, <3>1
    <2> QED
      BY <2>1, <2>2, <2>3
  <1>9. DataInv'
    BY <1>1, <1>8 DEF DataInv
  <1>10. SlotsInv'
    <2>1. item % NumBuffered \in 0..(NumBuffered - 1)
      BY <1>3, <1>5, ModNext
    <2>2. open = item % NumBuffered /\ Dones(outQueue) + signalled = open
      BY <1>1 DEF SlotsInv
    <2>3. open' <= NumBuffered /\ Dones(outQueue') + signalled' = open'
      <3>1. open \in 0..(NumBuffered - 1) /\ Dones(outQueue) + signalled = open /\ NumBuffered \in Nat
        BY <1>5, <2>1, <2>2
      <3>2. /\ Dones(outQueue) \in Nat /\ Dones(outQueue') \in Nat /\ signalled \in Nat /\ signalled' \in Nat
            /\ open \in Nat /\ open' \in Nat /\ open' <= open + 1
            /\ Dones(outQueue') + signalled' - open' = Dones(outQueue) + signalled - open
        BY <1>3, <1>6, <1>8
      <3> QED
        BY <3>1, <3>2, SlotTaken
    <2>4. Dones(outQueue') <= NumBuffered
      BY <1>5, <1>8, <2>3, SMTT(30)
    <2> QED
      BY <1>1, <2>3, <2>4 DEF SlotsInv
  <1>11. RepliesInv'
    <2> SUFFICES ASSUME connected PROVE RepliesInv'
      BY <1>1 DEF RepliesInv
    <2>1. What(R!OfKind(t, "data")) = Picked(request, WantedTo(item)) /\ failed = Picked(request, LostTo(item))
          /\ R!OfKind(t, "notfound") = <<>>
      BY <1>1 DEF RepliesInv, t
    <2>2. WantedTo(item)' = WantedTo(item) /\ LostTo(item)' = LostTo(item)
      BY <1>1 DEF WantedTo, LostTo, R!Skipped
    <2>3. sent' \o outQueue' = IF failed = <<>> THEN t ELSE Append(t, m)
      <3>1. outQueue \o <<>> = outQueue /\ outQueue \o <<m>> = Append(outQueue, m)
        BY <1>3, <1>4
      <3>2. sent \o Append(outQueue, m) = Append(t, m)
        BY <1>3, <1>4, ConcatAppend DEF t
      <3> QED
        BY <1>1, <1>2, <3>1, <3>2 DEF R!Queued, t
    <2>4. R!OfKind(Append(t, m), "data") = R!OfKind(t, "data") /\ R!OfKind(Append(t, m), "notfound") = Append(<<>>, m)
      <3>1. \A k : R!OfKind(Append(t, m), k) = IF m.kind = k THEN Append(R!OfKind(t, k), m) ELSE R!OfKind(t, k)
        BY <1>3, <1>4, OfKindAppend
      <3>2. "notfound" # "data"
        OBVIOUS
      <3> QED
        BY <1>4, <2>1, <3>1, <3>2
    <2>5. Append(<<>>, m) = <<m>>
      BY <1>4
    <2>6. m = R!Message("notfound", failed', TRUE)
      BY <1>1 DEF m
    <2> QED
      BY <1>1, <2>1, <2>2, <2>3, <2>4, <2>5, <2>6 DEF RepliesInv
  <1> QED
    BY <1>9, <1>10, <1>11

LEMMA WaitStep ==
    ASSUME R!RequestAssumption, RequestsInv, R!Await \/ R!Disconnect
    PROVE  RequestsInv'
  <1> USE DEF RequestsInv
  <1>1. UNCHANGED <<filter, outQueue, sent, request, item, failed>>
    BY DEF R!Await, R!Disconnect
  <1>2. WantedTo(item)' = WantedTo(item) /\ LostTo(item)' = LostTo(item)
    BY <1>1 DEF WantedTo, LostTo, R!Skipped
  <1>4. NumBuffered \in Nat /\ outQueue \in Seq(Messages)
    BY DEF R!RequestAssumption, DataInv
  <1>5. Dones(outQueue) \in Nat
    BY <1>4, PlacesFinite DEF Dones, DonePlaces
  <1>6. CASE R!Await
    <2>1. at \in {"wait", "last"} /\ signalled = open /\ at' = (IF at = "wait" THEN "push" ELSE "idle")
          /\ open' = 0 /\ signalled' = 0 /\ connected' = connected
      BY <1>6 DEF R!Await
    <2>2. DataInv'
      BY <1>1, <2>1 DEF DataInv
    <2>3. SlotsInv'
      <3>1. Dones(outQueue) = 0
        BY <1>5, <2>1 DEF SlotsInv, DataInv
      <3> QED
        BY <1>1, <1>4, <2>1, <3>1 DEF SlotsInv
    <2>4. RepliesInv'
      BY <1>1, <1>2, <2>1 DEF RepliesInv
    <2> QED
      BY <2>2, <2>3, <2>4
  <1>8. CASE R!Disconnect
    <2>1. connected /\ ~ connected' /\ UNCHANGED <<at, open, signalled>>
      BY <1>8 DEF R!Disconnect
    <2> QED
      BY <1>1, <1>2, <2>1 DEF DataInv, SlotsInv, RepliesInv
  <1> QED
    BY <1>6, <1>8

LEMMA SendStep ==
    ASSUME R!RequestAssumption, RequestsInv, R!Send
    PROVE  RequestsInv'
  <1> USE DEF RequestsInv
  <1>1. /\ outQueue # <<>> /\ outQueue' = Tail(outQueue)
        /\ sent' = (IF connected THEN Append(sent, Head(outQueue)) ELSE sent)
        /\ signalled' = (IF Head(outQueue).done THEN signalled + 1 ELSE signalled)
        /\ UNCHANGED <<filter, connected, request, item, at, open, failed>>
    BY DEF R!Send
  <1>2. outQueue \in Seq(Messages) /\ sent \in Seq(Messages) /\ signalled \in Nat /\ open \in Nat
    BY DEF DataInv
  <1>3. Head(outQueue) \in Messages /\ Tail(outQueue) \in Seq(Messages)
    BY <1>1, <1>2
  <1>4. Dones(outQueue) = Dones(Tail(outQueue)) + (IF Head(outQueue).done THEN 1 ELSE 0)
    BY <1>1, <1>2, DonesTail
  <1>5. Dones(Tail(outQueue)) \in Nat
    BY <1>3, PlacesFinite DEF Dones, DonePlaces
  <1>6. DataInv'
    <2>1. sent' \in Seq(Messages) /\ signalled' \in Nat
      BY <1>1, <1>2, <1>3
    <2> QED
      BY <1>1, <1>3, <2>1 DEF DataInv
  <1>7. SlotsInv'
    <2>1. Dones(outQueue') <= Dones(outQueue) /\ Dones(outQueue') + signalled' = Dones(outQueue) + signalled
      <3>1. CASE Head(outQueue).done
        <4> DEFINE a == Dones(outQueue)
                   b == Dones(Tail(outQueue))
        <4>1. a = b + 1 /\ b \in Nat /\ signalled \in Nat
          BY <1>2, <1>4, <1>5, <3>1
        <4>2. outQueue' = Tail(outQueue) /\ signalled' = signalled + 1
          BY <1>1, <3>1
        <4> HIDE DEF a, b
        <4>3. b <= a /\ b + (signalled + 1) = a + signalled
          BY ONLY <4>1
        <4> QED
          BY <4>2, <4>3 DEF a, b
      <3>2. CASE ~ Head(outQueue).done
        BY <1>1, <1>2, <1>4, <1>5, <3>2
      <3> QED
        BY <3>1, <3>2
    <2>2. NumBuffered \in Nat /\ Dones(outQueue) \in Nat
      BY <1>4, <1>5 DEF R!RequestAssumption
    <2>3. Dones(outQueue') <= NumBuffered
      BY <1>1, <1>5, <2>1, <2>2 DEF SlotsInv
    <2> QED
      BY <1>1, <2>1, <2>3 DEF SlotsInv
  <1>8. RepliesInv'
    <2> SUFFICES ASSUME connected PROVE RepliesInv'
      BY <1>1 DEF RepliesInv
    <2>1. sent' \o outQueue' = sent \o outQueue
      BY <1>1, <1>2, SendSame
    <2>2. WantedTo(item)' = WantedTo(item) /\ LostTo(item)' = LostTo(item)
      BY <1>1 DEF WantedTo, LostTo, R!Skipped
    <2> QED
      BY <1>1, <2>1, <2>2 DEF RepliesInv
  <1> QED
    BY <1>6, <1>7, <1>8

-----------------------------------------------------------------------------
LEMMA RequestsStep ==
    ASSUME R!RequestAssumption, RequestsInv, [R!Next]_R!vars
    PROVE  RequestsInv'
  <1>1. CASE \E list \in Requests : R!OnGetData(list)
    BY <1>1, AskStep
  <1>2. CASE R!Push
    BY <1>2, PushStep
  <1>3. CASE R!Finish
    BY <1>3, FinishStep
  <1>4. CASE R!Await \/ R!Disconnect
    BY <1>4, WaitStep
  <1>5. CASE R!Send
    BY <1>5, SendStep
  <1>7. CASE UNCHANGED R!vars
    BY <1>7 DEF R!vars, RequestsInv, DataInv, SlotsInv, RepliesInv, WantedTo, LostTo,
                R!Skipped
  <1>8. CASE R!Next
    BY <1>1, <1>2, <1>3, <1>4, <1>5, <1>8 DEF R!Next
  <1> QED
    BY <1>7, <1>8

LEMMA RequestsAnswered ==
    ASSUME RequestsInv
    PROVE  R!AnswersSound
  <1>1. R!SlotsBounded
    BY SameCardinality DEF RequestsInv, SlotsInv, R!SlotsBounded, Dones, DonePlaces
  <1>3. ASSUME at = "idle", connected PROVE R!AnsweredOnce
    <2> DEFINE wanted == {i \in DOMAIN request : ~ R!Skipped(request[i]) /\ ~ R!Missing(request[i])}
               missing == {i \in DOMAIN request : ~ R!Skipped(request[i]) /\ R!Missing(request[i])}
    <2>1. sent \in Seq(Messages) /\ request \in Seq(R!Inventory) /\ item = Len(request) /\ DataInv
      BY <1>3 DEF RequestsInv, DataInv
    <2>2. wanted = WantedTo(item) /\ missing = LostTo(item)
      BY <2>1 DEF WantedTo, LostTo
    <2>3. \A k : k # "matched" => R!OfKind(sent \o outQueue, k) = R!OfKind(sent, k)
      BY <1>3, <2>1, IdleQueue, OfKindFirst
    <2>4. /\ What(R!OfKind(sent, "data")) = Picked(request, wanted)
          /\ failed = Picked(request, missing)
          /\ R!OfKind(sent, "notfound") = IF failed # <<>> THEN <<R!Message("notfound", failed, TRUE)>> ELSE <<>>
      BY <1>3, <2>2, <2>3 DEF RequestsInv, RepliesInv
    <2>5. missing = {} <=> failed = <<>>
      <3>1. missing \subseteq Nat /\ IsFiniteSet(missing) /\ \A i \in missing : request[i] \in R!Inventory
        BY <2>1, <2>2, PlacesOK DEF DataInv
      <3> QED
        BY <2>4, <3>1, PickedIs
    <2> HIDE DEF wanted, missing
    <2> DEFINE data == R!OfKind(sent, "data")
    <2>6. [i \in DOMAIN data |-> data[i].what] = R!Picked(request, wanted)
      BY <2>4, SamePicked DEF What
    <2>7. R!OfKind(sent, "notfound")
            = IF missing = {} THEN <<>> ELSE <<R!Message("notfound", R!Picked(request, missing), TRUE)>>
      BY <2>4, <2>5, SamePicked
    <2> QED
      BY <2>6, <2>7 DEF R!AnsweredOnce, wanted, missing
  <1>4. R!AnsweredOnce
    BY <1>3 DEF R!AnsweredOnce
  <1> QED
    BY <1>1, <1>4 DEF R!AnswersSound

(* Whatever is asked for, in messages of any length: every item of a       *)
(* getdata message is answered once and in order, in at most numBuffered   *)
(* slots (OnGetData, pushTxMsg, pushBlockMsg and pushMerkleBlockMsg).      *)
THEOREM AnswersAlwaysSound == R!RequestAssumption => (R!Spec => []R!AnswersSound)
  <1> SUFFICES ASSUME R!RequestAssumption PROVE R!Spec => []R!AnswersSound
    OBVIOUS
  <1>1. R!Init => RequestsInv
    BY RequestsInit
  <1>2. RequestsInv /\ [R!Next]_R!vars => RequestsInv'
    BY RequestsStep
  <1>3. RequestsInv => R!AnswersSound
    BY RequestsAnswered
  <1> QED
    BY <1>1, <1>2, <1>3, PTL DEF R!Spec

-----------------------------------------------------------------------------
(* BlockTemplates: any clients, and a chain and a clock of any length. *)
CONSTANTS MaxBlock, Clients, GbtRegenerateSeconds, MaxTime, None
VARIABLES best, now, lastUpdated, template, prevHash, lastGenerated, lastTxUpdate, notifyMap, lock, blockNtfns,
          txNtfns, call, lastID, seen, served

B == INSTANCE BlockTemplates WITH requests <- served

Templates == [prev : 0..MaxBlock, payee : {"anyone", "configured", "text"}]

SharedInv ==
    /\ best \in 0..MaxBlock /\ now \in 1..MaxTime /\ lock \in Clients \cup {None}
    /\ prevHash \in 0..MaxBlock \cup {None} /\ seen \in [Clients -> SUBSET Nat]
    /\ template # None => template \in Templates
    /\ call = [c \in Clients |-> call[c]] /\ \A c \in Clients : "at" \in DOMAIN call[c]

(* prevHash is read before the template is generated: it names a block     *)
(* that is not above the one the template builds on, so that a template    *)
(* whose prevHash is still the best block builds on it.                    *)
PrevInv == prevHash # None => template \in Templates /\ prevHash <= template.prev /\ template.prev <= best

(* The call of client c. *)
CallInv(c) ==
    /\ lock = c <=> call[c].at \in {"generate", "result"}
    /\ call[c].at = "generate" => best \in seen[c] /\ call[c].hash \in 0..best
    /\ call[c].at = "wait" => call[c].key \in notifyMap
    /\ call[c].at = "result" => /\ template \in Templates /\ template.prev \in seen[c]
                                /\ ~ call[c].value => template.payee # "anyone"

(* The inductive invariant of BlockTemplates. *)
TemplatesInv == SharedInv /\ PrevInv /\ \A c \in Clients : CallInv(c)

-----------------------------------------------------------------------------
LEMMA TemplatesInit ==
    ASSUME B!TemplateAssumption, B!Init
    PROVE  TemplatesInv
  <1> USE DEF B!Init, B!TemplateAssumption
  <1>1. \A c \in Clients : call[c] = [at |-> "idle"] /\ lock # c
    BY DEF B!Idle
  <1>2. SharedInv
    BY <1>1 DEF SharedInv
  <1>3. PrevInv
    BY DEF PrevInv
  <1>4. \A c \in Clients : CallInv(c)
    BY <1>1 DEF CallInv
  <1> QED
    BY <1>2, <1>3, <1>4 DEF TemplatesInv

(* The chain, the memory pool and the clock. *)
LEMMA WorldStep ==
    ASSUME B!TemplateAssumption, TemplatesInv, B!Connect \/ B!AcceptSideBlock \/ B!MempoolTx \/ B!Tick
    PROVE  TemplatesInv'
  <1> USE DEF TemplatesInv, B!TemplateAssumption
  <1>1. UNCHANGED <<template, prevHash, notifyMap, lock, call>>
    BY DEF B!Connect, B!AcceptSideBlock, B!MempoolTx, B!Tick, B!stateVars
  <1>2. /\ best' \in 0..MaxBlock /\ best <= best' /\ now' \in 1..MaxTime /\ seen' \in [Clients -> SUBSET Nat]
        /\ \A c \in Clients : seen[c] \subseteq seen'[c] /\ (best \in seen[c] /\ lock = c => best' \in seen'[c])
    <2>1. CASE B!Connect
      <3>1. best' = best + 1 /\ best < MaxBlock /\ now' = now
            /\ seen' = [c \in Clients |-> IF lock = c THEN seen[c] \cup {best'} ELSE seen[c]]
        BY <2>1 DEF B!Connect
      <3>2. best' \in 0..MaxBlock /\ best <= best' /\ best' \in Nat
        BY <3>1 DEF SharedInv
      <3>3. seen' \in [Clients -> SUBSET Nat]
        BY <3>1, <3>2 DEF SharedInv
      <3>4. \A c \in Clients : seen[c] \subseteq seen'[c] /\ (lock = c => best' \in seen'[c])
        BY <3>1 DEF SharedInv
      <3> QED
        BY <3>1, <3>2, <3>3, <3>4 DEF SharedInv
    <2>2. CASE B!AcceptSideBlock \/ B!MempoolTx \/ B!Tick
      <3>1. best' = best /\ seen' = seen /\ now' \in 1..MaxTime
        BY <2>2 DEF B!AcceptSideBlock, B!MempoolTx, B!Tick, SharedInv
      <3> QED
        BY <3>1 DEF SharedInv
    <2> QED
      BY <2>1, <2>2
  <1>3. SharedInv'
    BY <1>1, <1>2 DEF SharedInv
  <1>4. PrevInv'
    BY <1>1, <1>2 DEF PrevInv, SharedInv, Templates
  <1>5. ASSUME NEW c \in Clients PROVE CallInv(c)'
    <2>1. CallInv(c)
      OBVIOUS
    <2>2. call[c].at = "generate" => best' \in seen'[c] /\ call[c].hash \in 0..best'
      <3> SUFFICES ASSUME call[c].at = "generate" PROVE best' \in seen'[c] /\ call[c].hash \in 0..best'
        OBVIOUS
      <3>1. lock = c /\ best \in seen[c] /\ call[c].hash \in 0..best
        BY <2>1 DEF CallInv
      <3> QED
        BY <1>2, <3>1 DEF SharedInv
    <2>3. call[c].at = "result" => template.prev \in seen'[c]
      BY <1>2, <2>1 DEF CallInv
    <2> QED
      BY <1>1, <2>1, <2>2, <2>3 DEF CallInv
  <1> QED
    BY <1>3, <1>4, <1>5

(* Whoever is woken had its channel closed; the others are still reached. *)
LEMMA WokenOK ==
    ASSUME SharedInv, NEW K, K \subseteq notifyMap, NEW c \in Clients, CallInv(c)
    PROVE  /\ B!Woken(K)[c].at = (IF call[c].at = "wait" /\ call[c].key \in K THEN "woken" ELSE call[c].at)
           /\ "at" \in DOMAIN B!Woken(K)[c]
           /\ ~ (call[c].at = "wait" /\ call[c].key \in K) => B!Woken(K)[c] = call[c]
           /\ B!Woken(K)[c].at = "wait" => B!Woken(K)[c].key \in notifyMap \ K
  <1> DEFINE w == B!Woken(K)[c]
  <1>1. w = IF call[c].at = "wait" /\ call[c].key \in K THEN [call[c] EXCEPT !.at = "woken"] ELSE call[c]
    BY DEF B!Woken
  <1>2. "at" \in DOMAIN call[c]
    BY DEF SharedInv
  <1> HIDE DEF w
  <1>3. CASE call[c].at = "wait" /\ call[c].key \in K
    <2>1. w = [call[c] EXCEPT !.at = "woken"]
      BY <1>1, <1>3
    <2>2. w.at = "woken" /\ "at" \in DOMAIN w
      BY <1>2, <2>1
    <2> QED
      BY <1>3, <2>2 DEF w
  <1>4. CASE ~ (call[c].at = "wait" /\ call[c].key \in K)
    <2>1. w = call[c]
      BY <1>1, <1>4
    <2> QED
      BY <1>2, <1>4, <2>1 DEF w, CallInv
  <1> QED
    BY <1>3, <1>4

(* Channels are closed and nothing else changes. *)
LEMMA ClosedKeeps ==
    ASSUME TemplatesInv, NEW K, K \subseteq notifyMap, notifyMap' = notifyMap \ K, call' = B!Woken(K),
           UNCHANGED <<best, now, template, prevHash, lock, seen>>
    PROVE  TemplatesInv'
  <1> USE DEF TemplatesInv
  <1>1. \A c \in Clients : "at" \in DOMAIN call'[c]
    BY WokenOK
  <1>2. call' = [c \in Clients |-> call'[c]]
    BY DEF B!Woken
  <1>3. SharedInv' /\ PrevInv'
    BY <1>1, <1>2 DEF SharedInv, PrevInv
  <1>4. ASSUME NEW c \in Clients PROVE CallInv(c)'
    <2>1. /\ call'[c].at = (IF call[c].at = "wait" /\ call[c].key \in K THEN "woken" ELSE call[c].at)
          /\ ~ (call[c].at = "wait" /\ call[c].key \in K) => call'[c] = call[c]
          /\ call'[c].at = "wait" => call'[c].key \in notifyMap \ K
      BY WokenOK
    <2>2. CallInv(c)
      OBVIOUS
    <2>3. CASE call[c].at = "wait" /\ call[c].key \in K
      <3>1. call'[c].at = "woken" /\ lock # c
        BY <2>1, <2>2, <2>3 DEF CallInv
      <3> QED
        BY <3>1 DEF CallInv
    <2>4. CASE ~ (call[c].at = "wait" /\ call[c].key \in K)
      BY <2>1, <2>2, <2>4 DEF CallInv
    <2> QED
      BY <2>3, <2>4
  <1> QED
    BY <1>3, <1>4

LEMMA NotifyStep ==
    ASSUME TemplatesInv, NEW b, B!NotifyBlockConnected(b) \/ B!NotifyMempoolTx(b)
    PROVE  TemplatesInv'
  <1>1. UNCHANGED <<best, now, template, prevHash, lock, seen>>
    BY DEF B!NotifyBlockConnected, B!NotifyMempoolTx, B!stateVars
  <1>2. ASSUME NEW h, NEW g, B!NotifyLongPollers(h, g) PROVE TemplatesInv'
    <2>1. B!Closed(h, g) \subseteq notifyMap
      BY DEF B!Closed
    <2> QED
      BY <1>1, <1>2, <2>1, ClosedKeeps DEF B!NotifyLongPollers
  <1>3. CASE UNCHANGED <<notifyMap, call>>
    BY <1>1, <1>3 DEF TemplatesInv, SharedInv, PrevInv, CallInv
  <1> QED
    BY <1>2, <1>3 DEF B!NotifyBlockConnected, B!NotifyMempoolTx

(* The call of client c goes on while nobody else has the lock. *)
LEMMA CallKeeps ==
    ASSUME B!TemplateAssumption, TemplatesInv, NEW c \in Clients, NEW r, "at" \in DOMAIN r,
           call' = [call EXCEPT ![c] = r], UNCHANGED <<best, now>>,
           lock \in {c, None} \/ (lock' = lock /\ template' = template), lock' \in {lock, c, None},
           template' # None => template' \in Templates, prevHash' \in 0..MaxBlock \cup {None}, PrevInv',
           notifyMap \subseteq notifyMap', NEW s, s \subseteq Nat, seen' = [seen EXCEPT ![c] = s],
           (CallInv(c)')
    PROVE  TemplatesInv'
  <1> USE DEF TemplatesInv, B!TemplateAssumption
  <1>1. call'[c] = r /\ seen'[c] = s /\ \A d \in Clients \ {c} : call'[d] = call[d] /\ seen'[d] = seen[d]
    BY DEF SharedInv
  <1>2. call' = [d \in Clients |-> call'[d]] /\ seen' \in [Clients -> SUBSET Nat]
    BY DEF SharedInv
  <1>3. SharedInv'
    BY <1>1, <1>2 DEF SharedInv
  <1>4. ASSUME NEW d \in Clients \ {c} PROVE CallInv(d)'
    <2>1. CallInv(d) /\ call'[d] = call[d] /\ seen'[d] = seen[d] /\ d # c /\ d # None
      BY <1>1
    <2>2. CASE lock \in {c, None}
      BY <2>1, <2>2 DEF CallInv
    <2>3. CASE lock' = lock /\ template' = template
      BY <2>1, <2>3 DEF CallInv
    <2> QED
      BY <2>2, <2>3
  <1> QED
    BY <1>3, <1>4

LEMMA RequestStep ==
    ASSUME B!TemplateAssumption, TemplatesInv, NEW c \in Clients, NEW v, NEW id, B!GetBlockTemplate(c, v, id)
    PROVE  TemplatesInv'
  <1> DEFINE r == [at |-> "start", value |-> v, id |-> id]
  <1>1. /\ call[c] = [at |-> "idle"] /\ call' = [call EXCEPT ![c] = r]
        /\ UNCHANGED <<best, now, template, prevHash, notifyMap, lock, seen>>
    BY DEF B!GetBlockTemplate, B!Idle, B!stateVars
  <1>2. "at" \in DOMAIN r /\ r.at = "start"
    OBVIOUS
  <1> HIDE DEF r
  <1>3. seen' = [seen EXCEPT ![c] = seen[c]] /\ seen[c] \subseteq Nat /\ call'[c] = r
    BY <1>1 DEF TemplatesInv, SharedInv
  <1>4. CallInv(c)'
    <2>1. lock # c
      BY <1>1 DEF TemplatesInv, CallInv
    <2> QED
      BY <1>1, <1>2, <1>3, <2>1 DEF CallInv
  <1>5. PrevInv' /\ prevHash' \in 0..MaxBlock \cup {None} /\ (template' # None => template' \in Templates)
    BY <1>1 DEF TemplatesInv, PrevInv, SharedInv
  <1> QED
    BY <1>1, <1>2, <1>3, <1>4, <1>5, CallKeeps

(* The call of client c ends. *)
LEMMA EndStep ==
    ASSUME B!TemplateAssumption, TemplatesInv, NEW c \in Clients,
           B!BlockTemplateResult(c) \/ B!CallFails(c) \/ B!ClientQuits(c)
    PROVE  TemplatesInv'
  <1> DEFINE r == [at |-> "idle"]
  <1>1. /\ call' = [call EXCEPT ![c] = r] /\ seen' = [seen EXCEPT ![c] = {}]
        /\ UNCHANGED <<best, now, template, prevHash, notifyMap>>
    BY DEF B!BlockTemplateResult, B!CallFails, B!ClientQuits, B!Idle, B!stateVars
  <1>2. (call[c].at \in {"generate", "result"} /\ lock' = None) \/ (call[c].at = "wait" /\ lock' = lock)
    BY DEF B!BlockTemplateResult, B!CallFails, B!ClientQuits
  <1>3. lock = c <=> call[c].at \in {"generate", "result"}
    BY DEF TemplatesInv, CallInv
  <1>4. (lock = c /\ lock' = None) \/ (lock # c /\ lock' = lock)
    BY <1>2, <1>3
  <1>5. "at" \in DOMAIN r /\ r.at = "idle" /\ c # None
    BY DEF B!TemplateAssumption
  <1> HIDE DEF r
  <1>6. call'[c] = r /\ {} \subseteq Nat
    BY <1>1 DEF TemplatesInv, SharedInv
  <1>7. CallInv(c)'
    BY <1>4, <1>5, <1>6 DEF CallInv
  <1>8. PrevInv' /\ prevHash' \in 0..MaxBlock \cup {None} /\ (template' # None => template' \in Templates)
    BY <1>1 DEF TemplatesInv, PrevInv, SharedInv
  <1> DEFINE s == {}
  <1>9. s \subseteq Nat /\ seen' = [seen EXCEPT ![c] = s] /\ notifyMap \subseteq notifyMap'
    BY <1>1
  <1>10. (lock \in {c, None} \/ (lock' = lock /\ template' = template)) /\ lock' \in {lock, c, None}
    BY <1>1, <1>4
  <1> HIDE DEF s
  <1> QED
    BY <1>1, <1>5, <1>7, <1>8, <1>9, <1>10, CallKeeps

LEMMA LongPollStep ==
    ASSUME B!TemplateAssumption, TemplatesInv, NEW c \in Clients, B!LongPoll(c)
    PROVE  TemplatesInv'
  <1> DEFINE r == [at |-> "wait", value |-> call[c].value, id |-> call[c].id, key |-> call[c].id]
  <1>1. /\ call[c].at = "result" /\ call' = [call EXCEPT ![c] = r] /\ seen' = [seen EXCEPT ![c] = {}]
        /\ lock' = None /\ notifyMap' = notifyMap \cup {call[c].id}
        /\ UNCHANGED <<best, now, template, prevHash>>
    BY DEF B!LongPoll, B!stateVars
  <1>2. "at" \in DOMAIN r /\ r.at = "wait" /\ r.key = call[c].id /\ c # None
    BY DEF B!TemplateAssumption
  <1> HIDE DEF r
  <1>3. call'[c] = r /\ {} \subseteq Nat /\ lock = c
    BY <1>1 DEF TemplatesInv, SharedInv, CallInv
  <1>4. CallInv(c)'
    BY <1>1, <1>2, <1>3 DEF CallInv
  <1>5. PrevInv' /\ prevHash' \in 0..MaxBlock \cup {None} /\ (template' # None => template' \in Templates)
    BY <1>1 DEF TemplatesInv, PrevInv, SharedInv
  <1> DEFINE s == {}
  <1>6. s \subseteq Nat /\ seen' = [seen EXCEPT ![c] = s] /\ notifyMap \subseteq notifyMap'
    BY <1>1
  <1> HIDE DEF s
  <1> QED
    BY <1>1, <1>2, <1>3, <1>4, <1>5, <1>6, CallKeeps

LEMMA UpdateStep ==
    ASSUME B!TemplateAssumption, TemplatesInv, NEW c \in Clients, B!UpdateBlockTemplate(c)
    PROVE  TemplatesInv'
  <1> DEFINE v == call[c].value
  <1>1. lock = None /\ lock' = c /\ seen' = [seen EXCEPT ![c] = {best}] /\ UNCHANGED <<best, now, notifyMap>> /\ c # None
    BY DEF B!UpdateBlockTemplate, B!TemplateAssumption
  <1>2. best \in Nat /\ best \in 0..best /\ best \in 0..MaxBlock /\ {best} \subseteq Nat /\ seen'[c] = {best}
    BY <1>1 DEF TemplatesInv, SharedInv, B!TemplateAssumption
  <1>3. PICK tx : IF B!Stale(tx)
                  THEN /\ prevHash' = None /\ template' = template
                       /\ call' = [call EXCEPT ![c] = [at |-> "generate", value |-> v, tx |-> tx, hash |-> best,
                                                       id |-> call[c].id, polled |-> call[c].at = "woken"]]
                  ELSE /\ template' = B!Repaid(v) /\ prevHash' = prevHash
                       /\ call' = [call EXCEPT ![c] = [at |-> "result", value |-> v, id |-> call[c].id,
                                                       polled |-> call[c].at = "woken"]]
    BY DEF B!UpdateBlockTemplate
  <1>4. CASE B!Stale(tx)
    <2> DEFINE r == [at |-> "generate", value |-> v, tx |-> tx, hash |-> best, id |-> call[c].id,
                     polled |-> call[c].at = "woken"]
    <2>1. prevHash' = None /\ template' = template /\ call' = [call EXCEPT ![c] = r]
      BY <1>3, <1>4
    <2>2. "at" \in DOMAIN r /\ r.at = "generate" /\ r.hash = best
      OBVIOUS
    <2> HIDE DEF r
    <2>3. call'[c] = r
      BY <2>1 DEF TemplatesInv, SharedInv
    <2>4. CallInv(c)'
      BY <1>1, <1>2, <2>2, <2>3 DEF CallInv
    <2>5. PrevInv' /\ prevHash' \in 0..MaxBlock \cup {None} /\ (template' # None => template' \in Templates)
      BY <2>1 DEF TemplatesInv, PrevInv, SharedInv
    <2> QED
      BY <1>1, <1>2, <2>1, <2>2, <2>4, <2>5, CallKeeps
  <1>5. CASE ~ B!Stale(tx)
    <2> DEFINE r == [at |-> "result", value |-> v, id |-> call[c].id, polled |-> call[c].at = "woken"]
    <2>1. prevHash' = prevHash /\ template' = B!Repaid(v) /\ call' = [call EXCEPT ![c] = r]
      BY <1>3, <1>5
    <2>2. "at" \in DOMAIN r /\ r.at = "result" /\ r.value = v
      OBVIOUS
    <2> HIDE DEF r
    <2>3. call'[c] = r
      BY <2>1 DEF TemplatesInv, SharedInv
    <2>4. prevHash # None /\ prevHash = best
      BY <1>5 DEF B!Stale
    <2>5. template \in Templates /\ template.prev = best
      BY <1>2, <2>4 DEF TemplatesInv, PrevInv, Templates
    <2>6. template' \in Templates /\ template'.prev = best
      BY <2>1, <2>5 DEF B!Repaid, Templates
    <2>7. ~ v => template'.payee # "anyone"
      BY <2>1, <2>5 DEF B!Repaid, Templates
    <2> HIDE DEF v
    <2>8. CallInv(c)'
      BY <1>1, <1>2, <2>2, <2>3, <2>6, <2>7 DEF CallInv
    <2>9. PrevInv' /\ prevHash' \in 0..MaxBlock \cup {None}
      BY <1>1, <1>2, <2>1, <2>4, <2>6 DEF PrevInv
    <2> QED
      BY <1>1, <1>2, <2>1, <2>2, <2>6, <2>8, <2>9, CallKeeps
  <1> QED
    BY <1>4, <1>5

LEMMA GenerateStep ==
    ASSUME B!TemplateAssumption, TemplatesInv, NEW c \in Clients, B!NewBlockTemplate(c)
    PROVE  TemplatesInv'
  <1> USE DEF TemplatesInv
  <1> DEFINE K == B!Closed(call[c].hash, call[c].tx)
             r == [at |-> "result", value |-> call[c].value, id |-> call[c].id, polled |-> call[c].polled]
  <1>1. /\ call[c].at = "generate" /\ prevHash' = call[c].hash /\ notifyMap' = notifyMap \ K
        /\ call' = [B!Woken(K) EXCEPT ![c] = r] /\ UNCHANGED <<best, now, lock, seen>>
    BY DEF B!NewBlockTemplate
  <1>2. template' = [prev |-> best, payee |-> IF call[c].value THEN "anyone" ELSE "text"]
    BY DEF B!NewBlockTemplate
  <1>3. K \subseteq notifyMap
    BY DEF B!Closed
  <1>4. r.at = "result" /\ "at" \in DOMAIN r /\ r.value = call[c].value
    OBVIOUS
  <1>5. lock = c /\ best \in seen[c] /\ call[c].hash \in 0..best
    BY <1>1 DEF CallInv
  <1>6. best \in 0..MaxBlock /\ MaxBlock \in Nat
    BY DEF SharedInv, B!TemplateAssumption
  <1>7. template' \in Templates /\ template'.prev = best
    BY <1>2, <1>6 DEF Templates
  <1>8. ~ call[c].value => template'.payee # "anyone"
    BY <1>2
  <1>9. DOMAIN B!Woken(K) = Clients
    BY DEF B!Woken
  <1> HIDE DEF K, r
  <1>10. call'[c] = r /\ \A d \in Clients \ {c} : call'[d] = B!Woken(K)[d]
    BY <1>1, <1>9
  <1>11. call' = [d \in Clients |-> call'[d]]
    BY <1>1, <1>9
  <1>12. PrevInv' /\ prevHash' \in 0..MaxBlock \cup {None}
    BY <1>1, <1>5, <1>6, <1>7 DEF PrevInv
  <1>13. SharedInv'
    <2>1. \A d \in Clients : "at" \in DOMAIN call'[d]
      BY <1>3, <1>4, <1>10, WokenOK
    <2> QED
      BY <1>1, <1>7, <1>11, <1>12, <2>1 DEF SharedInv
  <1>14. CallInv(c)'
    BY <1>1, <1>4, <1>5, <1>7, <1>8, <1>10 DEF CallInv
  <1>15. ASSUME NEW d \in Clients \ {c} PROVE CallInv(d)'
    <2>1. call[d].at \notin {"generate", "result"} /\ lock' # d
      BY <1>1, <1>5 DEF CallInv
    <2>2. /\ call'[d].at = (IF call[d].at = "wait" /\ call[d].key \in K THEN "woken" ELSE call[d].at)
          /\ call'[d].at = "wait" => call'[d].key \in notifyMap \ K
      BY <1>3, <1>10, WokenOK
    <2>3. call'[d].at \notin {"generate", "result"}
      BY <2>1, <2>2
    <2> QED
      BY <1>1, <2>1, <2>2, <2>3 DEF CallInv
  <1> QED
    BY <1>12, <1>13, <1>14, <1>15

-----------------------------------------------------------------------------
LEMMA TemplatesStep ==
    ASSUME B!TemplateAssumption, TemplatesInv, [B!Next]_B!vars
    PROVE  TemplatesInv'
  <1>1. CASE B!Connect \/ B!AcceptSideBlock \/ B!MempoolTx \/ B!Tick
    BY <1>1, WorldStep
  <1>2. CASE \E b : B!NotifyBlockConnected(b) \/ B!NotifyMempoolTx(b)
    BY <1>2, NotifyStep
  <1>3. ASSUME NEW c \in Clients, B!Serve(c) \/ B!ClientQuits(c) PROVE TemplatesInv'
    BY <1>3, UpdateStep, GenerateStep, LongPollStep, EndStep DEF B!Serve
  <1>4. ASSUME NEW c \in Clients, NEW v, NEW id, B!GetBlockTemplate(c, v, id) PROVE TemplatesInv'
    BY <1>4, RequestStep
  <1>5. CASE UNCHANGED B!vars
    BY <1>5 DEF B!vars, TemplatesInv, SharedInv, PrevInv, CallInv
  <1>6. CASE B!Next
    BY <1>1, <1>2, <1>3, <1>4, <1>6 DEF B!Next
  <1> QED
    BY <1>5, <1>6

(* For any number of clients and any order of the notifications: the lock  *)
(* of the template is held by the call that is served, a client that waits *)
(* can be reached, no reply builds on a block that was no longer the best  *)
(* one when the call got the lock, and who asks for a whole coinbase is    *)
(* not given one that anybody can redeem (gbtWorkState).                   *)
THEOREM TemplatesAlwaysSound == B!TemplateAssumption => (B!Spec => []B!TemplatesSound)
  <1> SUFFICES ASSUME B!TemplateAssumption PROVE B!Spec => []B!TemplatesSound
    OBVIOUS
  <1>1. B!Init => TemplatesInv
    BY TemplatesInit
  <1>2. TemplatesInv /\ [B!Next]_B!vars => TemplatesInv'
    BY TemplatesStep
  <1>3. TemplatesInv => B!TemplatesSound
    <2> SUFFICES ASSUME TemplatesInv PROVE B!TemplatesSound
      OBVIOUS
    <2> USE DEF TemplatesInv
    <2>1. B!TypeOK
      BY DEF SharedInv, CallInv, B!TypeOK, Templates
    <2>2. B!WaitersReachable /\ B!ReplyCurrent /\ B!NotForAnyone
      BY DEF CallInv, B!WaitersReachable, B!ReplyCurrent, B!NotForAnyone
    <2> QED
      BY <2>1, <2>2 DEF B!TemplatesSound
  <1> QED
    BY <1>1, <1>2, <1>3, PTL DEF B!Spec
=============================================================================
