------------------------- MODULE SyncManagerProofs -------------------------
(***************************************************************************)
(* Theorems about SyncManager, for any peers, heights, batches and bounds: *)
(* what the manager believes to be in flight is in flight.                 *)
(*                                                                         *)
(* Good says of a state of the manager that it agrees with the connections *)
(* to its peers.  Every helper of the manager keeps it; a handler begins   *)
(* with a message leaving the connection, and GoodBut allows for the       *)
(* request which that message answers until the handler has struck it off. *)
(***************************************************************************)
EXTENDS SyncManager, OrderingProofs, FiniteSetTheorems, NaturalsInduction, WellFoundedInduction, TLAPS

-----------------------------------------------------------------------------
(* The inductive invariant. *)

\* what peers send when the network's chain has n blocks
Sendable(n) ==
    [kind : {"headers", "getblocks"}, at : 0..n] \cup [kind : {"block"}, at : 1..n]
        \cup [kind : {"tx"}, at : Txs] \cup [kind : {"inv"}, from : 1..n, to : 1..n]
        \cup [kind : {"invtx"}, at : Txs]

Items(n) == (1..n) \cup Txs

ManagerType(n) ==
    [conn : [Peers -> {"off", "up", "closing", "gone"}], cand : [Peers -> BOOLEAN],
     last : [Peers -> 0..MaxHeight], own : [Peers -> SUBSET Items(n)], req : SUBSET Items(n),
     rejected : SUBSET Txs, syncPeer : Peers \cup {None}, ibd : BOOLEAN,
     inbox : [Peers -> Seq(Sendable(n))]]

\* the sync peer is known, and every request is some known peer's
Tracked(s) ==
    /\ s.syncPeer # None => s.syncPeer \in Known(s)
    /\ \A i \in s.req : \E p \in Known(s) : i \in s.own[p]

\* block i is still to come from p
ToCome(s, p, i) == \E k \in DOMAIN s.inbox[p] : s.inbox[p][k] = [kind |-> "block", at |-> i]

\* every block that is asked of p is to come from p, but for block h
SentBut(s, p, h) == s.conn[p] = "up" => \A i \in s.own[p] \cap Blocks : i = h \/ ToCome(s, p, i)
Sent(s, p) == s.conn[p] = "up" => \A i \in s.own[p] \cap Blocks : ToCome(s, p, i)

Good(s, n) == s \in ManagerType(n) /\ Tracked(s) /\ \A p \in Peers : Sent(s, p)

GoodBut(s, n, p, h) ==
    s \in ManagerType(n) /\ Tracked(s) /\ (\A q \in Peers \ {p} : Sent(s, q)) /\ SentBut(s, p, h)

ChainOK(hd, hv, n) == n \in 0..MaxHeight /\ hd \in 0..n /\ hv \subseteq 1..n

SyncInv ==
    /\ Good(sm, net) /\ ChainOK(header, have, net)
    /\ net \in StartHeight..MaxHeight /\ pool \subseteq Txs /\ faults \in 0..MaxFaults

\* the reply channels of the connections
RepliesOK == replied \in [Peers -> SUBSET {"block", "tx"}] /\ hung \in BOOLEAN

LEMMA Numbers ==
    /\ MaxHeight \in Nat /\ StartHeight \in Nat /\ Batch \in Nat /\ MaxFaults \in Nat /\ Window \in Nat
    /\ StartHeight <= MaxHeight /\ Batch > 0
  BY SyncAssumption

LEMMA Names == None \notin Peers /\ Txs \cap Blocks = {}
  BY SyncAssumption

LEMMA InvImplies == SyncInv /\ RepliesOK => RequestsTracked
<1> SUFFICES ASSUME SyncInv, RepliesOK PROVE RequestsTracked
    OBVIOUS
<1>1. sm \in ManagerType(net) /\ Tracked(sm) /\ (\A p \in Peers : Sent(sm, p)) /\ ChainOK(header, have, net)
    BY DEF SyncInv, Good
<1>2. net \in Nat /\ net <= MaxHeight /\ net \in 0..MaxHeight
    BY <1>1, Numbers DEF ChainOK
<1>3. Items(net) \subseteq Blocks \cup Txs
    BY <1>2, Numbers DEF Items, Blocks
<1>4. Sendable(net) \subseteq Messages
  <2>1. (0..net) \subseteq 0..MaxHeight /\ 1..net \subseteq 0..MaxHeight /\ 1..net \subseteq Blocks
      BY <1>2, Numbers DEF Blocks
  <2> QED
      BY <2>1 DEF Sendable, Messages
<1>5. TypeOK
  <2>1. \A p \in Peers : \A i \in DOMAIN sm.inbox[p] : sm.inbox[p][i] \in Messages
    <3> SUFFICES ASSUME NEW p \in Peers, NEW i \in DOMAIN sm.inbox[p]
                 PROVE  sm.inbox[p][i] \in Messages
        OBVIOUS
    <3>1. sm.inbox[p] \in Seq(Sendable(net))
        BY <1>1 DEF ManagerType
    <3>2. sm.inbox[p][i] \in Sendable(net)
        BY <3>1
    <3> QED
        BY <1>4, <3>2
  <2>2. /\ sm.conn \in [Peers -> {"off", "up", "closing", "gone"}] /\ sm.cand \in [Peers -> BOOLEAN]
        /\ sm.last \in [Peers -> 0..MaxHeight] /\ sm.own \in [Peers -> SUBSET (Blocks \cup Txs)]
        /\ sm.req \subseteq Blocks \cup Txs /\ sm.rejected \subseteq Txs
        /\ sm.syncPeer \in Peers \cup {None} /\ sm.ibd \in BOOLEAN
    <3>1. sm.own \in [Peers -> SUBSET Items(net)] /\ sm.req \in SUBSET Items(net)
        BY <1>1 DEF ManagerType
    <3>2. sm.own \in [Peers -> SUBSET (Blocks \cup Txs)] /\ sm.req \subseteq Blocks \cup Txs
        BY <1>3, <3>1
    <3> QED
        BY <1>1, <3>2 DEF ManagerType
  <2> QED
      BY <1>1, <2>1, <2>2 DEF TypeOK, SyncInv, ChainOK, RepliesOK
<1>6. SyncPeerKnown /\ RequestsOwned
    BY <1>1 DEF SyncPeerKnown, RequestsOwned, Tracked
<1>7. RequestsSent
    BY <1>1 DEF RequestsSent, Sent, ToCome, Peers, Honest
<1> QED
    BY <1>5, <1>6, <1>7 DEF RequestsTracked

-----------------------------------------------------------------------------
(* Numbers: greatest and least members, the best block. *)

LEMMA MaxOfTwo ==
    ASSUME NEW a \in Nat, NEW b \in Nat
    PROVE  Max({a, b}) \in {a, b} /\ Max({a, b}) >= a /\ Max({a, b}) >= b
<1>1. \E x \in {a, b} : \A y \in {a, b} : x >= y
    OBVIOUS
<1> QED
    BY <1>1 DEF Max

LEMMA MinOfTwo ==
    ASSUME NEW a \in Nat, NEW b \in Nat
    PROVE  Min({a, b}) \in {a, b} /\ Min({a, b}) <= a /\ Min({a, b}) <= b
<1>1. \E x \in {a, b} : \A y \in {a, b} : x =< y
    OBVIOUS
<1> QED
    BY <1>1 DEF Min

\* the tip is at a height of the network's chain
LEMMA BestInChain ==
    ASSUME NEW n \in 0..MaxHeight, NEW hv, hv \subseteq 1..n
    PROVE  Best(hv) \in 0..n
<1> DEFINE H == {h \in 0..MaxHeight : 1..h \subseteq hv}
           G == {MaxHeight - h : h \in H}
<1>1. n \in Nat /\ n <= MaxHeight /\ MaxHeight \in Nat
    BY Numbers
<1>2. 0 \in H
    BY <1>1
<1>3. G \subseteq Nat /\ G # {}
    BY <1>1, <1>2
<1>4. PICK m \in G : \A k \in G : m <= k
    BY <1>3, NatMin
<1>5. PICK x \in H : m = MaxHeight - x
    BY <1>4
<1>6. ASSUME NEW y \in H PROVE x >= y
  <2>1. m <= MaxHeight - y
      BY <1>4
  <2> QED
      BY <1>1, <1>5, <2>1
<1>7. Best(hv) \in H
    BY <1>6 DEF Best, Max
<1>8. ASSUME NEW h \in H PROVE h \in 0..n
  <2>1. h \in 0..MaxHeight /\ 1..h \subseteq 1..n
      OBVIOUS
  <2>2. CASE h = 0
      BY <1>1, <2>2
  <2>3. CASE h # 0
    <3>1. h \in 1..h
        BY <1>1, <2>1, <2>3
    <3> QED
        BY <1>1, <2>1, <3>1
  <2> QED
      BY <2>2, <2>3
<1> QED
    BY <1>7, <1>8

LEMMA HeaderInChain ==
    ASSUME NEW n \in 0..MaxHeight, NEW hv, hv \subseteq 1..n, NEW hd \in 0..n
    PROVE  BestHeaderAfter(hv, hd) \in 0..n
<1>4. n \in Nat
    BY Numbers
<1>1. Best(hv) \in 0..n
    BY BestInChain
<1>2. Best(hv) \in Nat /\ hd \in Nat
    BY <1>1, <1>4
<1>3. Max({Best(hv), hd}) \in {Best(hv), hd}
    BY <1>2, MaxOfTwo
<1> QED
    BY <1>1, <1>3 DEF BestHeaderAfter

-----------------------------------------------------------------------------
(* The order of a request: what is asked for is asked for once. *)

LEMMA SetToSeqRuns ==
    ASSUME NEW S, IsFiniteSet(S)
    PROVE  /\ SetToSeq(S) \in [1..Cardinality(S) -> S]
           /\ \A h \in S : \E i \in 1..Cardinality(S) : SetToSeq(S)[i] = h
<1> DEFINE N == Cardinality(S)
<1>1. N \in Nat /\ ExistsBijection(1..N, S)
    BY FS_CardinalityType
<1>2. PICK f \in Bijection(1..N, S) : TRUE
    BY <1>1 DEF ExistsBijection
<1>3. f \in [1..N -> S] /\ IsInjective(f)
    BY <1>2 DEF Bijection, Injection, IsInjective
<1>4. SetToSeq(S) \in [1..N -> S] /\ IsInjective(SetToSeq(S))
    BY <1>3 DEF SetToSeq
<1>5. SetToSeq(S) \in Injection(1..N, S)
    BY <1>4 DEF Injection
<1>6. IsFiniteSet(1..N) /\ Cardinality(1..N) = N
    BY <1>1, FS_Interval
<1>7. SetToSeq(S) \in Surjection(1..N, S)
    BY <1>5, <1>6, FS_Injection
<1> QED
    BY <1>4, <1>7 DEF Surjection
-----------------------------------------------------------------------------
(* Connections. *)

LEMMA Parts ==
    ASSUME NEW n, NEW s \in ManagerType(n)
    PROVE  /\ s.conn \in [Peers -> {"off", "up", "closing", "gone"}] /\ s.cand \in [Peers -> BOOLEAN]
           /\ s.last \in [Peers -> 0..MaxHeight] /\ s.own \in [Peers -> SUBSET Items(n)]
           /\ s.req \in SUBSET Items(n) /\ s.rejected \in SUBSET Txs /\ s.syncPeer \in Peers \cup {None}
           /\ s.ibd \in BOOLEAN /\ s.inbox \in [Peers -> Seq(Sendable(n))]
  BY DEF ManagerType

LEMMA Joined ==
    ASSUME NEW M, NEW a \in Seq(M), NEW b \in Seq(M)
    PROVE  /\ a \o b \in Seq(M)
           /\ \A k \in DOMAIN a : k \in DOMAIN (a \o b) /\ (a \o b)[k] = a[k]
           /\ \A k \in DOMAIN b : Len(a) + k \in DOMAIN (a \o b) /\ (a \o b)[Len(a) + k] = b[k]
  OBVIOUS

\* the fields of a state to which a message was added
LEMMA PushFields ==
    ASSUME NEW n, NEW s \in ManagerType(n), NEW p \in Peers, NEW msgs \in Seq(Sendable(n))
    PROVE  /\ Push(s, p, msgs) \in ManagerType(n)
           /\ Push(s, p, msgs).conn = s.conn /\ Push(s, p, msgs).own = s.own /\ Push(s, p, msgs).req = s.req
           /\ Push(s, p, msgs).syncPeer = s.syncPeer /\ Push(s, p, msgs).ibd = s.ibd
           /\ Push(s, p, msgs).last = s.last /\ Push(s, p, msgs).cand = s.cand
           /\ Push(s, p, msgs).rejected = s.rejected
           /\ \A q \in Peers \ {p} : Push(s, p, msgs).inbox[q] = s.inbox[q]
           /\ s.conn[p] = "up" => Push(s, p, msgs).inbox[p] = s.inbox[p] \o msgs
<1> DEFINE box == [s.inbox EXCEPT ![p] = @ \o msgs]
           r == [s EXCEPT !.inbox = box]
<1>1. s.inbox \in [Peers -> Seq(Sendable(n))]
    BY Parts
<1>2. s.inbox[p] \in Seq(Sendable(n))
    BY <1>1
<1>3. s.inbox[p] \o msgs \in Seq(Sendable(n))
    BY <1>2, Joined
<1>4. /\ box \in [Peers -> Seq(Sendable(n))] /\ box[p] = s.inbox[p] \o msgs
      /\ \A q \in Peers \ {p} : box[q] = s.inbox[q]
    BY <1>1, <1>3
<1>5. s.conn[p] = "up" => Push(s, p, msgs) = r
    BY DEF Push
<1>6. s.conn[p] # "up" => Push(s, p, msgs) = s
    BY DEF Push
<1> HIDE DEF box
<1>7. /\ r \in ManagerType(n) /\ r.inbox = box
      /\ r.conn = s.conn /\ r.own = s.own /\ r.req = s.req /\ r.syncPeer = s.syncPeer /\ r.ibd = s.ibd
      /\ r.last = s.last /\ r.cand = s.cand /\ r.rejected = s.rejected
    BY <1>4 DEF ManagerType
<1> HIDE DEF r
<1>8. CASE s.conn[p] = "up"
    BY <1>4, <1>5, <1>7, <1>8
<1>9. CASE s.conn[p] # "up"
    BY <1>6, <1>9
<1> QED
    BY <1>8, <1>9

\* what was to come is still to come, and so is what was added
LEMMA PushToCome ==
    ASSUME NEW n, NEW s \in ManagerType(n), NEW p \in Peers, NEW msgs \in Seq(Sendable(n)),
           NEW q \in Peers, NEW i
    PROVE  /\ ToCome(s, q, i) => ToCome(Push(s, p, msgs), q, i)
           /\ s.conn[p] = "up" /\ (\E k \in DOMAIN msgs : msgs[k] = [kind |-> "block", at |-> i])
                 => ToCome(Push(s, p, msgs), p, i)
<1> DEFINE r == Push(s, p, msgs)
           a == s.inbox[p]
<1>1. /\ \A x \in Peers \ {p} : r.inbox[x] = s.inbox[x]
      /\ s.conn[p] = "up" => r.inbox[p] = a \o msgs
    BY PushFields
<1>2. s.conn[p] # "up" => r = s
    BY DEF Push
<1>3. a \in Seq(Sendable(n))
    BY Parts
<1> HIDE DEF r, a
<1>4. /\ \A k \in DOMAIN a : k \in DOMAIN (a \o msgs) /\ (a \o msgs)[k] = a[k]
      /\ \A k \in DOMAIN msgs : Len(a) + k \in DOMAIN (a \o msgs) /\ (a \o msgs)[Len(a) + k] = msgs[k]
    BY <1>3, Joined
<1>5. ASSUME ToCome(s, q, i) PROVE ToCome(r, q, i)
  <2>1. PICK k \in DOMAIN s.inbox[q] : s.inbox[q][k] = [kind |-> "block", at |-> i]
      BY <1>5 DEF ToCome
  <2>2. CASE q # p
      BY <1>1, <2>1, <2>2 DEF ToCome
  <2>3. CASE q = p /\ s.conn[p] = "up"
    <3>1. k \in DOMAIN (a \o msgs) /\ (a \o msgs)[k] = [kind |-> "block", at |-> i]
        BY <1>4, <2>1, <2>3 DEF a
    <3> QED
        BY <1>1, <2>3, <3>1 DEF ToCome
  <2>4. CASE s.conn[p] # "up"
      BY <1>2, <1>5, <2>4
  <2> QED
      BY <2>2, <2>3, <2>4
<1>6. ASSUME s.conn[p] = "up", NEW k \in DOMAIN msgs, msgs[k] = [kind |-> "block", at |-> i]
      PROVE  ToCome(r, p, i)
  <2>1. Len(a) + k \in DOMAIN (a \o msgs) /\ (a \o msgs)[Len(a) + k] = msgs[k]
      BY <1>4
  <2> QED
      BY <1>1, <1>6, <2>1 DEF ToCome
<1> QED
    BY <1>5, <1>6 DEF r

LEMMA PushGood ==
    ASSUME NEW n, NEW s, Good(s, n), NEW p \in Peers, NEW msgs \in Seq(Sendable(n))
    PROVE  Good(Push(s, p, msgs), n)
<1> DEFINE r == Push(s, p, msgs)
<1>1. s \in ManagerType(n) /\ Tracked(s) /\ \A q \in Peers : Sent(s, q)
    BY DEF Good
<1>2. r \in ManagerType(n) /\ r.conn = s.conn /\ r.own = s.own /\ r.req = s.req /\ r.syncPeer = s.syncPeer
    BY <1>1, PushFields
<1>3. \A q \in Peers : \A i : ToCome(s, q, i) => ToCome(r, q, i)
    BY <1>1, PushToCome
<1> HIDE DEF r
<1>4. Tracked(r)
    BY <1>1, <1>2 DEF Tracked, Known
<1>5. \A q \in Peers : Sent(r, q)
    BY <1>1, <1>2, <1>3 DEF Sent
<1> QED
    BY <1>2, <1>4, <1>5 DEF Good, r

\* a peer is hung up on
LEMMA HangupFields ==
    ASSUME NEW n, NEW s \in ManagerType(n), NEW p \in Peers
    PROVE  /\ Hangup(s, p) \in ManagerType(n)
           /\ Hangup(s, p).own = s.own /\ Hangup(s, p).req = s.req /\ Hangup(s, p).syncPeer = s.syncPeer
           /\ Hangup(s, p).inbox = s.inbox /\ Hangup(s, p).conn[p] # "up"
           /\ \A q \in Peers \ {p} : Hangup(s, p).conn[q] = s.conn[q]
           /\ Known(Hangup(s, p)) = Known(s)
<1> DEFINE cn == [s.conn EXCEPT ![p] = "closing"]
           r == [s EXCEPT !.conn = cn]
<1>1. s.conn \in [Peers -> {"off", "up", "closing", "gone"}]
    BY Parts
<1>2. /\ cn \in [Peers -> {"off", "up", "closing", "gone"}] /\ cn[p] = "closing"
      /\ \A q \in Peers \ {p} : cn[q] = s.conn[q]
    BY <1>1
<1>3. s.conn[p] = "up" => Hangup(s, p) = r
    BY DEF Hangup
<1>4. s.conn[p] # "up" => Hangup(s, p) = s
    BY DEF Hangup
<1> HIDE DEF cn
<1>5. /\ r \in ManagerType(n) /\ r.conn = cn /\ r.own = s.own /\ r.req = s.req /\ r.syncPeer = s.syncPeer
      /\ r.inbox = s.inbox
    BY <1>2 DEF ManagerType
<1> HIDE DEF r
<1>6. CASE s.conn[p] = "up"
  <2>1. Known(r) = Known(s)
      BY <1>2, <1>5, <1>6 DEF Known
  <2> QED
      BY <1>2, <1>3, <1>5, <1>6, <2>1
<1>7. CASE s.conn[p] # "up"
    BY <1>4, <1>7
<1> QED
    BY <1>6, <1>7

LEMMA HangupGoodBut ==
    ASSUME NEW n, NEW s, NEW p \in Peers, NEW h, GoodBut(s, n, p, h)
    PROVE  Good(Hangup(s, p), n)
<1> DEFINE r == Hangup(s, p)
<1>1. s \in ManagerType(n) /\ Tracked(s) /\ \A q \in Peers \ {p} : Sent(s, q)
    BY DEF GoodBut
<1>2. /\ r \in ManagerType(n) /\ r.own = s.own /\ r.req = s.req /\ r.syncPeer = s.syncPeer
      /\ r.inbox = s.inbox /\ r.conn[p] # "up" /\ Known(r) = Known(s)
      /\ \A q \in Peers \ {p} : r.conn[q] = s.conn[q]
    BY <1>1, HangupFields
<1> HIDE DEF r
<1>3. Tracked(r)
    BY <1>1, <1>2 DEF Tracked
<1>4. \A q \in Peers : Sent(r, q)
    BY <1>1, <1>2 DEF Sent, ToCome
<1> QED
    BY <1>2, <1>3, <1>4 DEF Good, r

LEMMA GoodIsGoodBut ==
    ASSUME NEW n, NEW s, NEW p \in Peers, NEW h, Good(s, n)
    PROVE  GoodBut(s, n, p, h)
  BY DEF Good, GoodBut, Sent, SentBut

LEMMA HangupGood ==
    ASSUME NEW n, NEW s, NEW p \in Peers, Good(s, n)
    PROVE  Good(Hangup(s, p), n)
  BY GoodIsGoodBut, HangupGoodBut
-----------------------------------------------------------------------------
(* Requests. *)

\* a known peer is asked, and what it is asked for is put on its connection
LEMMA AskGood ==
    ASSUME NEW n, NEW s, Good(s, n), NEW p \in Known(s), NEW items \in SUBSET Items(n),
           NEW msgs \in Seq(Sendable(n)),
           \A i \in items \cap Blocks : \E k \in DOMAIN msgs : msgs[k] = [kind |-> "block", at |-> i]
    PROVE  Good(Push(Request(s, p, items), p, msgs), n)
<1> DEFINE ow == [s.own EXCEPT ![p] = @ \cup items]
           rq == s.req \cup items
           r == [s EXCEPT !.own = ow, !.req = rq]
           t == Push(r, p, msgs)
<1>1. s \in ManagerType(n) /\ Tracked(s) /\ (\A q \in Peers : Sent(s, q)) /\ p \in Peers
    BY DEF Good, Known
<1>2. s.own \in [Peers -> SUBSET Items(n)] /\ s.req \in SUBSET Items(n)
    BY <1>1, Parts
<1>3. /\ ow \in [Peers -> SUBSET Items(n)] /\ ow[p] = s.own[p] \cup items
      /\ (\A q \in Peers \ {p} : ow[q] = s.own[q]) /\ rq \in SUBSET Items(n)
    BY <1>1, <1>2
<1>4. Request(s, p, items) = r
    BY DEF Request
<1> HIDE DEF ow, rq
<1>5. /\ r \in ManagerType(n) /\ r.own = ow /\ r.req = rq /\ r.conn = s.conn /\ r.syncPeer = s.syncPeer
      /\ r.inbox = s.inbox
    BY <1>1, <1>3 DEF ManagerType
<1> HIDE DEF r
<1>6. t \in ManagerType(n) /\ t.conn = r.conn /\ t.own = r.own /\ t.req = r.req /\ t.syncPeer = r.syncPeer
    BY <1>1, <1>5, PushFields
<1>7. \A q \in Peers : \A i : ToCome(r, q, i) => ToCome(t, q, i)
    BY <1>1, <1>5, PushToCome
<1>8. \A i : r.conn[p] = "up" /\ (\E k \in DOMAIN msgs : msgs[k] = [kind |-> "block", at |-> i])
                => ToCome(t, p, i)
    BY <1>1, <1>5, PushToCome
<1> HIDE DEF t
<1>9. Tracked(t)
  <2>1. Known(t) = Known(s)
      BY <1>5, <1>6 DEF Known
  <2>2. ASSUME NEW i \in t.req PROVE \E q \in Known(t) : i \in t.own[q]
    <3>1. CASE i \in items
        BY <1>3, <1>5, <1>6, <2>1, <3>1
    <3>2. CASE i \in s.req
      <4>1. PICK q \in Known(s) : i \in s.own[q]
          BY <1>1, <3>2 DEF Tracked
      <4>2. q \in Peers
          BY <4>1 DEF Known
      <4>3. i \in ow[q]
          BY <1>3, <4>1, <4>2
      <4> QED
          BY <1>5, <1>6, <2>1, <4>1, <4>3
    <3> QED
        BY <1>5, <1>6, <2>2, <3>1, <3>2 DEF rq
  <2> QED
      BY <1>1, <1>5, <1>6, <2>1, <2>2 DEF Tracked
<1>10. ASSUME NEW q \in Peers PROVE Sent(t, q)
  <2> SUFFICES ASSUME t.conn[q] = "up", NEW i \in t.own[q] \cap Blocks PROVE ToCome(t, q, i)
      BY DEF Sent
  <2>1. CASE i \in s.own[q]
    <3>1. ToCome(s, q, i)
        BY <1>1, <1>5, <1>6, <2>1 DEF Sent
    <3>2. ToCome(r, q, i)
        BY <1>5, <3>1 DEF ToCome
    <3> QED
        BY <1>7, <3>2
  <2>2. CASE i \notin s.own[q]
    <3>1. q = p /\ i \in items
        BY <1>3, <1>5, <1>6, <2>2
    <3> QED
        BY <1>6, <1>8, <3>1
  <2> QED
      BY <2>1, <2>2
<1> QED
    BY <1>4, <1>6, <1>9, <1>10 DEF Good, t

\* a request is struck off: then the state is good again
LEMMA RemoveGood ==
    ASSUME NEW n, NEW s, NEW p \in Peers, NEW h, GoodBut(s, n, p, h)
    PROVE  Good(RemoveRequest(s, p, h), n)
<1> DEFINE ow == [s.own EXCEPT ![p] = @ \ {h}]
           rq == s.req \ {h}
           r == [s EXCEPT !.own = ow, !.req = rq]
<1>1. s \in ManagerType(n) /\ Tracked(s) /\ (\A q \in Peers \ {p} : Sent(s, q)) /\ SentBut(s, p, h)
    BY DEF GoodBut
<1>2. s.own \in [Peers -> SUBSET Items(n)] /\ s.req \in SUBSET Items(n)
    BY <1>1, Parts
<1>3. /\ ow \in [Peers -> SUBSET Items(n)] /\ ow[p] = s.own[p] \ {h}
      /\ (\A q \in Peers \ {p} : ow[q] = s.own[q]) /\ rq \in SUBSET Items(n)
    BY <1>2
<1>4. RemoveRequest(s, p, h) = r
    BY DEF RemoveRequest
<1> HIDE DEF ow, rq
<1>5. /\ r \in ManagerType(n) /\ r.own = ow /\ r.req = rq /\ r.conn = s.conn /\ r.syncPeer = s.syncPeer
      /\ r.inbox = s.inbox
    BY <1>1, <1>3 DEF ManagerType
<1> HIDE DEF r
<1>6. Tracked(r)
  <2>1. Known(r) = Known(s)
      BY <1>5 DEF Known
  <2>2. ASSUME NEW i \in r.req PROVE \E q \in Known(r) : i \in r.own[q]
    <3>1. i \in s.req /\ i # h
        BY <1>5 DEF rq
    <3>2. PICK q \in Known(s) : i \in s.own[q]
        BY <1>1, <3>1 DEF Tracked
    <3>3. q \in Peers
        BY <3>2 DEF Known
    <3> QED
        BY <1>3, <1>5, <2>1, <3>1, <3>2, <3>3
  <2> QED
      BY <1>1, <1>5, <2>1, <2>2 DEF Tracked
<1>7. ASSUME NEW q \in Peers PROVE Sent(r, q)
  <2> SUFFICES ASSUME r.conn[q] = "up", NEW i \in r.own[q] \cap Blocks PROVE ToCome(r, q, i)
      BY DEF Sent
  <2>1. CASE q = p
    <3>1. i \in s.own[p] \cap Blocks /\ i # h
        BY <1>3, <1>5, <2>1
    <3>2. ToCome(s, q, i)
        BY <1>1, <1>5, <2>1, <3>1 DEF SentBut
    <3> QED
        BY <1>5, <3>2 DEF ToCome
  <2>2. CASE q # p
    <3>1. ToCome(s, q, i)
        BY <1>1, <1>3, <1>5, <2>2 DEF Sent
    <3> QED
        BY <1>5, <3>1 DEF ToCome
  <2> QED
      BY <2>1, <2>2
<1> QED
    BY <1>4, <1>5, <1>6, <1>7 DEF Good

LEMMA ClearGood ==
    ASSUME NEW n, NEW s, NEW p \in Peers, Good(s, n)
    PROVE  /\ Good(ClearRequestedState(s, p), n)
           /\ ClearRequestedState(s, p).syncPeer = s.syncPeer /\ ClearRequestedState(s, p).own = s.own
           /\ ClearRequestedState(s, p).req = s.req \ s.own[p] /\ ClearRequestedState(s, p).conn = s.conn
           /\ ClearRequestedState(s, p).inbox = s.inbox
<1> DEFINE rq == s.req \ s.own[p]
           r == [s EXCEPT !.req = rq]
<1>1. s \in ManagerType(n) /\ Tracked(s) /\ \A q \in Peers : Sent(s, q)
    BY DEF Good
<1>2. rq \in SUBSET Items(n)
    BY <1>1, Parts
<1>3. ClearRequestedState(s, p) = r
    BY DEF ClearRequestedState
<1>4. rq \subseteq s.req
    OBVIOUS
<1> HIDE DEF rq
<1>5. /\ r \in ManagerType(n) /\ r.own = s.own /\ r.req = rq /\ r.conn = s.conn /\ r.syncPeer = s.syncPeer
      /\ r.inbox = s.inbox
    BY <1>1, <1>2 DEF ManagerType
<1> HIDE DEF r
<1>6. Tracked(r)
    BY <1>1, <1>4, <1>5 DEF Tracked, Known
<1>7. \A q \in Peers : Sent(r, q)
    BY <1>1, <1>5 DEF Sent, ToCome
<1> QED
    BY <1>3, <1>5, <1>6, <1>7 DEF Good, rq

\* the other fields of the manager
LEMMA SameRequests ==
    ASSUME NEW n, NEW s, Good(s, n), NEW r \in ManagerType(n), r.conn = s.conn, r.own = s.own,
           r.req = s.req, r.inbox = s.inbox, r.syncPeer \in Known(s) \cup {None, s.syncPeer}
    PROVE  Good(r, n) /\ Known(r) = Known(s)
<1>1. Tracked(s) /\ \A q \in Peers : Sent(s, q)
    BY DEF Good
<1>2. Known(r) = Known(s)
    BY DEF Known
<1>3. Tracked(r)
    BY <1>1, <1>2 DEF Tracked
<1>4. \A q \in Peers : Sent(r, q)
    BY <1>1 DEF Sent, ToCome
<1> QED
    BY <1>2, <1>3, <1>4 DEF Good

LEMMA OtherFields ==
    ASSUME NEW n, NEW s, Good(s, n)
    PROVE  /\ \A p \in Known(s) : /\ Good([s EXCEPT !.ibd = TRUE, !.syncPeer = p], n)
                                  /\ Known([s EXCEPT !.ibd = TRUE, !.syncPeer = p]) = Known(s)
           /\ Good([s EXCEPT !.syncPeer = None], n)
           /\ Good([s EXCEPT !.ibd = FALSE], n)
           /\ \A t \in SUBSET Txs : Good([s EXCEPT !.rejected = t], n)
<1>1. s \in ManagerType(n)
    BY DEF Good
<1>2. ASSUME NEW p \in Known(s)
      PROVE  /\ Good([s EXCEPT !.ibd = TRUE, !.syncPeer = p], n)
             /\ Known([s EXCEPT !.ibd = TRUE, !.syncPeer = p]) = Known(s)
  <2> DEFINE r == [s EXCEPT !.ibd = TRUE, !.syncPeer = p]
  <2>1. p \in Peers \cup {None}
      BY DEF Known
  <2>2. /\ r \in ManagerType(n) /\ r.conn = s.conn /\ r.own = s.own /\ r.req = s.req /\ r.inbox = s.inbox
        /\ r.syncPeer = p
      BY <1>1, <2>1 DEF ManagerType
  <2> HIDE DEF r
  <2>3. Good(r, n) /\ Known(r) = Known(s)
      BY <2>2, SameRequests
  <2> QED
      BY <2>3 DEF r
<1>3. Good([s EXCEPT !.syncPeer = None], n)
  <2> DEFINE r == [s EXCEPT !.syncPeer = None]
  <2>1. None \in Peers \cup {None}
      OBVIOUS
  <2>2. /\ r \in ManagerType(n) /\ r.conn = s.conn /\ r.own = s.own /\ r.req = s.req /\ r.inbox = s.inbox
        /\ r.syncPeer = None
      BY <1>1, <2>1 DEF ManagerType
  <2> HIDE DEF r
  <2>3. Good(r, n)
      BY <2>2, SameRequests
  <2> QED
      BY <2>3 DEF r
<1>4. Good([s EXCEPT !.ibd = FALSE], n)
  <2> DEFINE r == [s EXCEPT !.ibd = FALSE]
  <2>1. /\ r \in ManagerType(n) /\ r.conn = s.conn /\ r.own = s.own /\ r.req = s.req /\ r.inbox = s.inbox
        /\ r.syncPeer = s.syncPeer
      BY <1>1 DEF ManagerType
  <2> HIDE DEF r
  <2>2. Good(r, n)
      BY <2>1, SameRequests
  <2> QED
      BY <2>2 DEF r
<1>5. ASSUME NEW t \in SUBSET Txs PROVE Good([s EXCEPT !.rejected = t], n)
  <2> DEFINE r == [s EXCEPT !.rejected = t]
  <2>1. /\ r \in ManagerType(n) /\ r.conn = s.conn /\ r.own = s.own /\ r.req = s.req /\ r.inbox = s.inbox
        /\ r.syncPeer = s.syncPeer
      BY <1>1 DEF ManagerType
  <2> HIDE DEF r
  <2>2. Good(r, n)
      BY <2>1, SameRequests
  <2> QED
      BY <2>2 DEF r
<1> QED
    BY <1>2, <1>3, <1>4, <1>5

LEMMA LastGood ==
    ASSUME NEW n, NEW s, Good(s, n), NEW p \in Peers, NEW h \in 0..MaxHeight
    PROVE  Good(UpdateLastBlockHeight(s, p, h), n) /\ UpdateLastBlockHeight(s, p, h).conn = s.conn
<1> DEFINE ls == [s.last EXCEPT ![p] = Max({@, h})]
           r == [s EXCEPT !.last = ls]
<1>1. s \in ManagerType(n) /\ s.last \in [Peers -> 0..MaxHeight]
    BY Parts DEF Good
<1>2. Max({s.last[p], h}) \in 0..MaxHeight
  <2>1. s.last[p] \in 0..MaxHeight
      BY <1>1
  <2>2. s.last[p] \in Nat /\ h \in Nat
      BY <2>1, Numbers
  <2>3. Max({s.last[p], h}) \in {s.last[p], h}
      BY <2>2, MaxOfTwo
  <2> QED
      BY <2>1, <2>3
<1>3. ls \in [Peers -> 0..MaxHeight]
    BY <1>1, <1>2
<1>4. UpdateLastBlockHeight(s, p, h) = r
    BY DEF UpdateLastBlockHeight
<1> HIDE DEF ls
<1>5. /\ r \in ManagerType(n) /\ r.conn = s.conn /\ r.own = s.own /\ r.req = s.req /\ r.inbox = s.inbox
      /\ r.syncPeer = s.syncPeer
    BY <1>1, <1>3 DEF ManagerType
<1> HIDE DEF r
<1>6. Good(r, n)
    BY <1>5, SameRequests
<1> QED
    BY <1>4, <1>5, <1>6

-----------------------------------------------------------------------------
(* Choosing a sync peer and asking it for headers and blocks. *)

LEMMA FetchBlocksGood ==
    ASSUME NEW n \in 0..MaxHeight, NEW s, Good(s, n), NEW p, p # None => p \in Known(s),
           NEW hv, hv \subseteq 1..n, NEW bh \in 0..n
    PROVE  Good(FetchHeaderBlocks(s, p, hv, bh), n)
<1>1. CASE p = None
    BY <1>1 DEF FetchHeaderBlocks
<1>2. CASE p # None
  <2> DEFINE W == BuildBlockRequest(s, hv, bh)
             o == Ascending(W)
             msgs == [i \in DOMAIN o |-> [kind |-> "block", at |-> o[i]]]
  <2>13. n \in Nat
      BY Numbers
  <2>1. n \in Nat /\ Best(hv) \in 0..n
      BY <2>13, BestInChain
  <2>2. W \subseteq (Best(hv) + 1)..bh
      BY DEF BuildBlockRequest
  <2>3. (Best(hv) + 1)..bh \subseteq 1..n
      BY <2>1
  <2> HIDE DEF W
  <2>4. W \in SUBSET (1..n) /\ W \subseteq Nat /\ W \in SUBSET Items(n)
      BY <2>1, <2>2, <2>3 DEF Items
  <2>5. IsFiniteSet(W)
    <3>1. 1 \in Int /\ n \in Int
        BY <2>1
    <3>2. IsFiniteSet(1..n)
        BY <3>1, FS_Interval
    <3> QED
        BY <2>4, <3>2, FS_Subset
  <2>6. o \in [1..Cardinality(W) -> W] /\ \A h \in W : \E i \in 1..Cardinality(W) : o[i] = h
      BY <2>4, <2>5, AscendingRuns
  <2>7. Cardinality(W) \in Nat
      BY <2>5, FS_CardinalityType
  <2> HIDE DEF o
  <2>8. \A i \in 1..Cardinality(W) : [kind |-> "block", at |-> o[i]] \in Sendable(n)
      BY <2>4, <2>6 DEF Sendable
  <2>9. msgs \in Seq(Sendable(n)) /\ DOMAIN msgs = 1..Cardinality(W)
    <3> DEFINE c == Cardinality(W)
    <3>1. DOMAIN o = 1..c
        BY <2>6
    <3>2. msgs \in [1..c -> Sendable(n)]
        BY <2>8, <3>1
    <3>3. c \in Nat
        BY <2>7
    <3> HIDE DEF msgs, c
    <3>4. \A N \in Nat : \A f : f \in [1..N -> Sendable(n)] => f \in Seq(Sendable(n))
        OBVIOUS
    <3>5. msgs \in Seq(Sendable(n)) /\ DOMAIN msgs = 1..c
        BY <3>2, <3>3, <3>4
    <3> QED
        BY <3>5 DEF c
  <2>10. \A i \in W \cap Blocks : \E k \in DOMAIN msgs : msgs[k] = [kind |-> "block", at |-> i]
    <3> SUFFICES ASSUME NEW i \in W PROVE \E k \in DOMAIN msgs : msgs[k] = [kind |-> "block", at |-> i]
        OBVIOUS
    <3>1. PICK k \in 1..Cardinality(W) : o[k] = i
        BY <2>6
    <3>2. k \in DOMAIN msgs /\ msgs[k] = [kind |-> "block", at |-> i]
        BY <2>6, <3>1
    <3> QED
        BY <3>2
  <2>11. FetchHeaderBlocks(s, p, hv, bh) = Push(Request(s, p, W), p, msgs)
      BY <1>2 DEF FetchHeaderBlocks, W, o
  <2> HIDE DEF msgs
  <2>12. p \in Known(s)
      BY <1>2
  <2>14. Good(Push(Request(s, p, W), p, msgs), n)
      BY <2>4, <2>9, <2>10, <2>12, AskGood
  <2> QED
      BY <2>11, <2>14
<1> QED
    BY <1>1, <1>2

\* one message
LEMMA OneMessage ==
    ASSUME NEW n, NEW m \in Sendable(n)
    PROVE  <<m>> \in Seq(Sendable(n))
  OBVIOUS

LEMMA StartSyncGood ==
    ASSUME NEW n \in 0..MaxHeight, NEW s, Good(s, n), NEW hv, hv \subseteq 1..n, NEW bh \in 0..n,
           NEW r \in StartSync(s, hv, bh)
    PROVE  Good(r, n)
<1>1. FetchHigherPeers(s, bh) \subseteq Known(s) /\ FetchHigherPeers(s, Best(hv)) \subseteq Known(s)
    BY DEF FetchHigherPeers
<1>2. ASSUME NEW p \in FetchHigherPeers(s, bh),
             r = Push([s EXCEPT !.ibd = TRUE, !.syncPeer = p], p, <<[kind |-> "headers", at |-> bh]>>)
      PROVE  Good(r, n)
  <2> DEFINE q == [s EXCEPT !.ibd = TRUE, !.syncPeer = p]
  <2>1. Good(q, n) /\ p \in Peers
      BY <1>1, OtherFields DEF Known
  <2>2. [kind |-> "headers", at |-> bh] \in Sendable(n)
      BY DEF Sendable
  <2>3. <<[kind |-> "headers", at |-> bh]>> \in Seq(Sendable(n))
      BY <2>2, OneMessage
  <2> HIDE DEF q
  <2>4. Good(Push(q, p, <<[kind |-> "headers", at |-> bh]>>), n)
      BY <2>1, <2>3, PushGood
  <2> QED
      BY <1>2, <2>4 DEF q
<1>3. ASSUME NEW p \in FetchHigherPeers(s, Best(hv)),
             r = FetchHeaderBlocks([s EXCEPT !.ibd = TRUE, !.syncPeer = p], p, hv, bh)
      PROVE  Good(r, n)
  <2> DEFINE q == [s EXCEPT !.ibd = TRUE, !.syncPeer = p]
  <2>1. Good(q, n) /\ Known(q) = Known(s) /\ p \in Known(s)
      BY <1>1, OtherFields
  <2> HIDE DEF q
  <2>2. Good(FetchHeaderBlocks(q, p, hv, bh), n)
      BY <2>1, FetchBlocksGood
  <2> QED
      BY <1>3, <2>2 DEF q
<1> QED
    BY <1>2, <1>3 DEF StartSync, FetchHeaders

LEMMA UpdateSyncPeerGood ==
    ASSUME NEW n \in 0..MaxHeight, NEW s, Good(s, n), NEW dc, s.syncPeer # None,
           NEW hv, hv \subseteq 1..n, NEW bh \in 0..n, NEW r \in UpdateSyncPeer(s, dc, hv, bh)
    PROVE  Good(r, n)
<1> DEFINE q == IF dc THEN Hangup(s, s.syncPeer) ELSE s
<1>1. s.syncPeer \in Peers \cup {None}
    BY Parts DEF Good
<1>2. Good(q, n)
    BY <1>1, HangupGood
<1> HIDE DEF q
<1>3. Good([q EXCEPT !.syncPeer = None], n)
    BY <1>2, OtherFields
<1>4. r \in StartSync([q EXCEPT !.syncPeer = None], hv, bh)
    BY DEF UpdateSyncPeer, q
<1> QED
    BY <1>3, <1>4, StartSyncGood
-----------------------------------------------------------------------------
(* The handlers: connections and the stall ticker. *)

LEMMA HandleNewPeerMsgOK ==
    ASSUME SyncInv, NEW p \in Peers, HandleNewPeerMsg(p)
    PROVE  SyncInv'
<1> DEFINE l == IF p \in Silent THEN MaxHeight ELSE net
           cn == [sm.conn EXCEPT ![p] = "up"]
           ls == [sm.last EXCEPT ![p] = l]
           ow == [sm.own EXCEPT ![p] = {}]
           cd == IsSyncCandidate(p, have, l)
           ca == [sm.cand EXCEPT ![p] = cd]
           s == [sm EXCEPT !.conn = cn, !.last = ls, !.own = ow, !.cand = ca]
<1>1. /\ sm \in ManagerType(net) /\ Tracked(sm) /\ (\A q \in Peers : Sent(sm, q))
      /\ net \in 0..MaxHeight /\ header \in 0..net /\ have \subseteq 1..net
    BY DEF SyncInv, Good, ChainOK
<1>2. /\ sm.conn[p] = "off" /\ UNCHANGED <<header, have, pool, net, faults>>
      /\ sm' \in StartSync(s, have, header) \cup {s}
    BY DEF HandleNewPeerMsg
<1>3. l \in 0..MaxHeight /\ cd \in BOOLEAN
    BY <1>1, Numbers DEF IsSyncCandidate
<1>4. /\ cn \in [Peers -> {"off", "up", "closing", "gone"}] /\ cn[p] = "up"
      /\ (\A q \in Peers \ {p} : cn[q] = sm.conn[q])
      /\ ls \in [Peers -> 0..MaxHeight] /\ ca \in [Peers -> BOOLEAN]
      /\ ow \in [Peers -> SUBSET Items(net)] /\ ow[p] = {} /\ (\A q \in Peers \ {p} : ow[q] = sm.own[q])
  <2> HIDE DEF l, cd
  <2> QED
      BY <1>1, <1>3, Parts
<1> HIDE DEF cn, ls, ow, ca
<1>5. /\ s \in ManagerType(net) /\ s.conn = cn /\ s.own = ow /\ s.req = sm.req /\ s.inbox = sm.inbox
      /\ s.syncPeer = sm.syncPeer
    BY <1>1, <1>4 DEF ManagerType
<1> HIDE DEF s
<1>6. Tracked(s)
  <2>1. \A q \in Known(sm) : q \in Peers \ {p} /\ q \in Known(s)
      BY <1>2, <1>4, <1>5 DEF Known
  <2>2. \A q \in Known(sm) : s.own[q] = sm.own[q]
      BY <1>4, <1>5, <2>1
  <2> QED
      BY <1>1, <1>5, <2>1, <2>2 DEF Tracked
<1>7. \A q \in Peers : Sent(s, q)
    BY <1>1, <1>4, <1>5 DEF Sent, ToCome
<1>8. Good(s, net)
    BY <1>5, <1>6, <1>7 DEF Good
<1>9. Good(sm', net)
    BY <1>1, <1>2, <1>8, StartSyncGood
<1> QED
    BY <1>2, <1>9 DEF SyncInv, ChainOK

LEMMA HandleDonePeerMsgOK ==
    ASSUME SyncInv, NEW p \in Peers, HandleDonePeerMsg(p)
    PROVE  SyncInv'
<1> DEFINE c == ClearRequestedState(sm, p)
           new == IF p \in Silent THEN "gone" ELSE "off"
           s == [c EXCEPT !.conn[p] = new, !.last[p] = 0, !.own[p] = {}, !.cand[p] = FALSE, !.inbox[p] = <<>>]
           out == [s EXCEPT !.syncPeer = None]
<1>1. /\ Good(sm, net) /\ net \in 0..MaxHeight /\ header \in 0..net /\ have \subseteq 1..net
    BY DEF SyncInv, ChainOK
<1>2. /\ UNCHANGED <<header, have, pool, net, faults>>
      /\ (p = sm.syncPeer => sm' \in UpdateSyncPeer(s, FALSE, have, header))
      /\ (p # sm.syncPeer => sm' = s)
    BY DEF HandleDonePeerMsg
<1>12. s = [c EXCEPT !.conn = [c.conn EXCEPT ![p] = new], !.last = [c.last EXCEPT ![p] = 0],
                     !.own = [c.own EXCEPT ![p] = {}], !.cand = [c.cand EXCEPT ![p] = FALSE],
                     !.inbox = [c.inbox EXCEPT ![p] = <<>>]]
    OBVIOUS
<1> HIDE DEF s
<1> HIDE DEF out
<1>3. /\ Good(c, net) /\ c.syncPeer = sm.syncPeer /\ c.own = sm.own /\ c.req = sm.req \ sm.own[p]
  <2>1. Good(sm, net)
      BY <1>1
  <2>2. Good(c, net) /\ c.syncPeer = sm.syncPeer /\ c.own = sm.own
      BY <2>1, ClearGood
  <2>3. c.req = sm.req \ sm.own[p]
      BY <2>1 DEF Good, ManagerType, ClearRequestedState
  <2> QED
      BY <2>2, <2>3
<1> DEFINE cn == [c.conn EXCEPT ![p] = new]
           ls == [c.last EXCEPT ![p] = 0]
           ow == [c.own EXCEPT ![p] = {}]
           ca == [c.cand EXCEPT ![p] = FALSE]
           bx == [c.inbox EXCEPT ![p] = <<>>]
<1>13. s = [c EXCEPT !.conn = cn, !.last = ls, !.own = ow, !.cand = ca, !.inbox = bx]
    BY <1>12
<1>4. c \in ManagerType(net) /\ Tracked(c) /\ \A q \in Peers : Sent(c, q)
    BY <1>3 DEF Good
<1>5. 0 \in 0..MaxHeight /\ <<>> \in Seq(Sendable(net)) /\ new \in {"off", "gone"}
    BY Numbers
<1> HIDE DEF c, new
<1>6. /\ cn \in [Peers -> {"off", "up", "closing", "gone"}] /\ cn[p] \in {"off", "gone"}
      /\ (\A q \in Peers \ {p} : cn[q] = c.conn[q])
      /\ ls \in [Peers -> 0..MaxHeight] /\ ca \in [Peers -> BOOLEAN]
      /\ ow \in [Peers -> SUBSET Items(net)] /\ ow[p] = {} /\ (\A q \in Peers \ {p} : ow[q] = c.own[q])
      /\ bx \in [Peers -> Seq(Sendable(net))] /\ (\A q \in Peers \ {p} : bx[q] = c.inbox[q])
    BY <1>4, <1>5, Parts
<1> HIDE DEF cn, ls, ow, ca, bx
<1>7. /\ s \in ManagerType(net) /\ s.conn = cn /\ s.own = ow /\ s.req = c.req /\ s.inbox = bx
      /\ s.syncPeer = c.syncPeer
    BY <1>4, <1>6, <1>13 DEF ManagerType
<1>8. ASSUME NEW q \in Peers PROVE Sent(s, q)
  <2>1. CASE q = p
      BY <1>6, <1>7, <2>1 DEF Sent
  <2>2. CASE q # p
    <3>1. s.conn[q] = c.conn[q] /\ s.own[q] = c.own[q] /\ s.inbox[q] = c.inbox[q]
        BY <1>6, <1>7, <2>2
    <3>2. Sent(c, q)
        BY <1>4
    <3> QED
        BY <3>1, <3>2 DEF Sent, ToCome
  <2> QED
      BY <2>1, <2>2
<1>9. \A i \in s.req : \E q \in Known(s) : i \in s.own[q]
  <2> SUFFICES ASSUME NEW i \in s.req PROVE \E q \in Known(s) : i \in s.own[q]
      OBVIOUS
  <2>1. PICK q \in Known(c) : i \in c.own[q]
      BY <1>4, <1>7 DEF Tracked
  <2>2. q # p /\ q \in Peers
      BY <1>3, <1>7, <2>1 DEF Known
  <2> QED
      BY <1>6, <1>7, <2>1, <2>2 DEF Known
<1>10. CASE p # sm.syncPeer
  <2>1. Tracked(s)
      BY <1>3, <1>4, <1>6, <1>7, <1>9, <1>10 DEF Tracked, Known
  <2>2. Good(sm', net)
      BY <1>2, <1>7, <1>8, <1>10, <2>1 DEF Good
  <2> QED
      BY <1>2, <2>2 DEF SyncInv, ChainOK
<1>11. CASE p = sm.syncPeer
  <2> USE DEF out
  <2>1. None \in Peers \cup {None}
      OBVIOUS
  <2>2. /\ out \in ManagerType(net) /\ out.conn = s.conn /\ out.own = s.own /\ out.req = s.req
        /\ out.inbox = s.inbox /\ out.syncPeer = None
      BY <1>7, <2>1 DEF ManagerType
  <2>3. sm' \in StartSync(out, have, header)
      BY <1>2, <1>11 DEF UpdateSyncPeer
  <2> HIDE DEF out
  <2>4. Tracked(out) /\ \A q \in Peers : Sent(out, q)
      BY <1>8, <1>9, <2>2 DEF Tracked, Known, Sent, ToCome
  <2>5. Good(out, net)
      BY <2>2, <2>4 DEF Good
  <2>6. Good(sm', net)
      BY <1>1, <2>3, <2>5, StartSyncGood
  <2> QED
      BY <1>2, <2>6 DEF SyncInv, ChainOK
<1> QED
    BY <1>10, <1>11

LEMMA LoseConnectionOK ==
    ASSUME SyncInv, NEW p \in Peers, LoseConnection(p)
    PROVE  SyncInv'
<1>1. Good(sm, net) /\ faults \in 0..MaxFaults
    BY DEF SyncInv
<1>2. sm' = Hangup(sm, p) /\ faults < MaxFaults /\ faults' = faults + 1 /\ UNCHANGED <<header, have, pool, net>>
    BY DEF LoseConnection
<1>3. Good(sm', net)
    BY <1>1, <1>2, HangupGood
<1>4. faults' \in 0..MaxFaults
    BY <1>1, <1>2, Numbers
<1> QED
    BY <1>2, <1>3, <1>4 DEF SyncInv, ChainOK

LEMMA HandleStallSampleOK ==
    ASSUME SyncInv, HandleStallSample
    PROVE  SyncInv'
<1> DEFINE s == ClearRequestedState(sm, sm.syncPeer)
           dc == ShouldDCStalledSyncPeer(sm, have)
<1>1. /\ Good(sm, net) /\ net \in 0..MaxHeight /\ header \in 0..net /\ have \subseteq 1..net
      /\ sm.syncPeer # None /\ faults \in 0..MaxFaults
    BY DEF SyncInv, ChainOK, HandleStallSample
<1>2. sm.syncPeer \in Peers
    BY <1>1, Parts DEF Good
<1>3. Good(s, net) /\ s.syncPeer = sm.syncPeer
    BY <1>1, <1>2, ClearGood
<1>5. sm' \in UpdateSyncPeer(s, dc, have, header) /\ UNCHANGED <<header, have, pool, net>>
    BY DEF HandleStallSample
<1> HIDE DEF s, dc
<1>6. Good(sm', net)
    BY <1>1, <1>3, <1>5, UpdateSyncPeerGood
<1>7. faults' \in 0..MaxFaults
    BY <1>1, Numbers DEF HandleStallSample
<1> QED
    BY <1>5, <1>6, <1>7 DEF SyncInv, ChainOK
-----------------------------------------------------------------------------
(* The handlers: messages of peers. *)

\* the state of the manager once the first message of p has left its connection
Popped(p) == [sm EXCEPT !.inbox[p] = Tail(@)]

LEMMA PoppedGood ==
    ASSUME SyncInv, NEW p \in Peers, sm.inbox[p] # <<>>
    PROVE  /\ Head(sm.inbox[p]) \in Sendable(net)
           /\ Head(sm.inbox[p]).kind = "block" => GoodBut(Popped(p), net, p, Head(sm.inbox[p]).at)
           /\ Head(sm.inbox[p]).kind # "block" => Good(Popped(p), net)
           /\ Known(Popped(p)) = Known(sm)
<1> DEFINE a == sm.inbox[p]
           m == Head(a)
           bx == [sm.inbox EXCEPT ![p] = Tail(a)]
           s == [sm EXCEPT !.inbox = bx]
<1>1. sm \in ManagerType(net) /\ Tracked(sm) /\ \A q \in Peers : Sent(sm, q)
    BY DEF SyncInv, Good
<1>2. sm.inbox \in [Peers -> Seq(Sendable(net))] /\ a \in Seq(Sendable(net)) /\ a # <<>>
    BY <1>1, Parts
<1>3. Popped(p) = s
    BY DEF Popped
<1>4. /\ m \in Sendable(net) /\ Tail(a) \in Seq(Sendable(net))
      /\ \A k \in DOMAIN a : a[k] # m => k - 1 \in DOMAIN Tail(a) /\ Tail(a)[k - 1] = a[k]
  <2> HIDE DEF a
  <2>1. m \in Sendable(net) /\ Tail(a) \in Seq(Sendable(net)) /\ m = a[1]
      BY <1>2
  <2>2. ASSUME NEW k \in DOMAIN a, a[k] # m PROVE k - 1 \in DOMAIN Tail(a) /\ Tail(a)[k - 1] = a[k]
    <3>1. k # 1
        BY <2>1, <2>2
    <3> QED
        BY <1>2, <3>1
  <2> QED
      BY <2>1, <2>2
<1>5. /\ bx \in [Peers -> Seq(Sendable(net))] /\ bx[p] = Tail(a)
      /\ \A q \in Peers \ {p} : bx[q] = sm.inbox[q]
    BY <1>2, <1>4
<1> HIDE DEF bx
<1>6. /\ s \in ManagerType(net) /\ s.conn = sm.conn /\ s.own = sm.own /\ s.req = sm.req
      /\ s.syncPeer = sm.syncPeer /\ s.inbox = bx
    BY <1>1, <1>5 DEF ManagerType
<1> HIDE DEF s
<1>7. Known(s) = Known(sm)
    BY <1>6 DEF Known
<1>8. Tracked(s)
    BY <1>1, <1>6, <1>7 DEF Tracked
<1>9. ASSUME NEW q \in Peers \ {p} PROVE Sent(s, q)
  <2>1. s.inbox[q] = sm.inbox[q] /\ Sent(sm, q)
      BY <1>1, <1>5, <1>6
  <2> QED
      BY <1>6, <2>1 DEF Sent, ToCome
<1>10. ASSUME NEW i, ToCome(sm, p, i), m # [kind |-> "block", at |-> i] PROVE ToCome(s, p, i)
  <2>1. PICK k \in DOMAIN a : a[k] = [kind |-> "block", at |-> i]
      BY <1>10 DEF ToCome
  <2>2. k - 1 \in DOMAIN Tail(a) /\ Tail(a)[k - 1] = [kind |-> "block", at |-> i]
      BY <1>4, <1>10, <2>1
  <2>3. s.inbox[p] = Tail(a)
      BY <1>5, <1>6
  <2> QED
      BY <2>2, <2>3 DEF ToCome
<1>11. Sent(sm, p)
    BY <1>1
<1>12. ASSUME m.kind = "block" PROVE SentBut(s, p, m.at)
  <2>1. \A i : m = [kind |-> "block", at |-> i] => i = m.at
      OBVIOUS
  <2> QED
      BY <1>6, <1>10, <1>11, <2>1 DEF Sent, SentBut
<1>13. ASSUME m.kind # "block" PROVE Sent(s, p)
  <2>1. \A i : m # [kind |-> "block", at |-> i]
      BY <1>13
  <2> QED
      BY <1>6, <1>10, <1>11, <2>1 DEF Sent
<1> QED
    BY <1>3, <1>4, <1>6, <1>7, <1>8, <1>9, <1>12, <1>13 DEF Good, GoodBut

\* what a message handler has to show
LEMMA HandlerOK ==
    ASSUME SyncInv, Good(sm', net), header' \in 0..net, have' \subseteq 1..net, pool' \subseteq Txs,
           UNCHANGED <<net, faults>>
    PROVE  SyncInv'
  BY DEF SyncInv, ChainOK

LEMMA HandleHeadersMsgOK ==
    ASSUME SyncInv, NEW s, Good(s, net), NEW p \in Known(s), NEW from \in 0..net,
           HandleHeadersMsg(s, p, from), UNCHANGED <<net, faults>>
    PROVE  SyncInv'
<1> DEFINE top == Min({net, from + Batch})
           bh == Max({header, top})
           ask == <<[kind |-> "headers", at |-> bh]>>
<1>1. net \in 0..MaxHeight /\ header \in 0..net /\ have \subseteq 1..net /\ pool \subseteq Txs
    BY DEF SyncInv, ChainOK
<1>2. net \in Nat /\ header \in Nat /\ from + Batch \in Nat
    BY <1>1, Numbers
<1>3. top \in 0..net
  <2>1. top \in {net, from + Batch} /\ top <= net
      BY <1>2, MinOfTwo
  <2> HIDE DEF top
  <2> QED
      BY <1>2, <2>1
<1> HIDE DEF top
<1>4. bh \in 0..net
  <2>1. top \in Nat
      BY <1>2, <1>3
  <2>2. bh \in {header, top}
      BY <1>2, <2>1, MaxOfTwo
  <2> QED
      BY <1>1, <1>3, <2>2
<1>5. /\ header' = bh /\ UNCHANGED <<have, pool>>
      /\ \/ sm' = s
         \/ s.syncPeer # None /\ sm' = Push(s, s.syncPeer, ask)
         \/ s.ibd /\ s.syncPeer # None /\ sm' = Push(s, s.syncPeer, ask)
         \/ sm' = FetchHeaderBlocks(s, p, have, bh)
    BY DEF HandleHeadersMsg, top
<1>6. ask \in Seq(Sendable(net))
  <2>1. [kind |-> "headers", at |-> bh] \in Sendable(net)
      BY <1>4 DEF Sendable
  <2> QED
      BY <2>1, OneMessage
<1> HIDE DEF ask, bh
<1>7. s.syncPeer \in Peers \cup {None}
    BY Parts DEF Good
<1>8. Good(FetchHeaderBlocks(s, p, have, bh), net)
    BY <1>1, <1>4, FetchBlocksGood
<1>9. s.syncPeer # None => Good(Push(s, s.syncPeer, ask), net)
    BY <1>6, <1>7, PushGood
<1>10. Good(sm', net)
    BY <1>5, <1>8, <1>9
<1> QED
    BY <1>1, <1>4, <1>5, <1>10, HandlerOK

\* a getblocks message to p
LEMMA AskMore ==
    ASSUME NEW n, NEW s, Good(s, n), NEW p \in Peers, NEW h \in 0..n
    PROVE  LET r == Push(s, p, <<[kind |-> "getblocks", at |-> h]>>)
           IN  Good(r, n) /\ r.conn = s.conn
<1>1. [kind |-> "getblocks", at |-> h] \in Sendable(n)
    BY DEF Sendable
<1>2. <<[kind |-> "getblocks", at |-> h]>> \in Seq(Sendable(n))
    BY <1>1, OneMessage
<1>3. s \in ManagerType(n)
    BY DEF Good
<1>4. Push(s, p, <<[kind |-> "getblocks", at |-> h]>>).conn = s.conn
  <2> DEFINE m == <<[kind |-> "getblocks", at |-> h]>>
  <2>1. m \in Seq(Sendable(n))
      BY <1>2
  <2> HIDE DEF m
  <2>2. Push(s, p, m).conn = s.conn
      BY <1>3, <2>1, PushFields
  <2> QED
      BY <2>2 DEF m
<1> QED
    BY <1>2, <1>4, PushGood

LEMMA BlockProcessedOK ==
    ASSUME SyncInv, NEW s, Good(s, net), NEW p \in Peers, NEW h \in 1..net,
           BlockProcessed(s, p, h), UNCHANGED <<net, faults, pool>>
    PROVE  SyncInv'
<1> DEFINE hv == have \cup {h}
           orphan == IsOrphan(have, h)
           bh == BestHeaderAfter(hv, header)
           told == IF orphan
                   THEN Push(s, p, <<[kind |-> "getblocks", at |-> Best(have)]>>)
                   ELSE [s EXCEPT !.rejected = {}]
           seen == IF orphan THEN h ELSE Best(hv)
           upd == UpdateLastBlockHeight(told, p, seen)
<1>1. net \in 0..MaxHeight /\ header \in 0..net /\ have \subseteq 1..net /\ pool \subseteq Txs
    BY DEF SyncInv, ChainOK
<1>2. hv \subseteq 1..net
    BY <1>1
<1>3. /\ have' = hv /\ header' = bh
      /\ sm' \in {upd, FetchHeaderBlocks(upd, upd.syncPeer, hv, bh), [upd EXCEPT !.ibd = FALSE]}
    BY DEF BlockProcessed
<1> HIDE DEF hv
<1>4. bh \in 0..net
    BY <1>1, <1>2, HeaderInChain
<1>5. Best(have) \in 0..net /\ Best(hv) \in 0..net
    BY <1>1, <1>2, BestInChain
<1>6. seen \in 0..MaxHeight
  <2>1. seen \in 0..net
      BY <1>5
  <2>2. 0..net \subseteq 0..MaxHeight
      BY <1>1, Numbers
  <2> QED
      BY <2>1, <2>2
<1>7. Good(told, net)
  <2>1. Good(Push(s, p, <<[kind |-> "getblocks", at |-> Best(have)]>>), net)
      BY <1>5, AskMore
  <2>2. Good([s EXCEPT !.rejected = {}], net)
      BY OtherFields
  <2> QED
      BY <2>1, <2>2
<1> HIDE DEF told, seen, bh
<1>8. Good(upd, net)
    BY <1>6, <1>7, LastGood
<1> HIDE DEF upd
<1>9. Good([upd EXCEPT !.ibd = FALSE], net)
    BY <1>8, OtherFields
<1>10. upd.syncPeer # None => upd.syncPeer \in Known(upd)
    BY <1>8 DEF Good, Tracked
<1>11. Good(FetchHeaderBlocks(upd, upd.syncPeer, hv, bh), net)
    BY <1>1, <1>2, <1>4, <1>8, <1>10, FetchBlocksGood
<1>12. Good(sm', net)
    BY <1>3, <1>8, <1>9, <1>11
<1> QED
    BY <1>1, <1>2, <1>3, <1>4, <1>12, HandlerOK

LEMMA HandleBlockMsgOK ==
    ASSUME SyncInv, NEW s, NEW p \in Peers, NEW h \in 1..net, GoodBut(s, net, p, h),
           HandleBlockMsg(s, p, h), UNCHANGED <<net, faults>>
    PROVE  SyncInv'
<1>1. net \in 0..MaxHeight /\ header \in 0..net /\ have \subseteq 1..net /\ pool \subseteq Txs
    BY DEF SyncInv, ChainOK
<1>2. Good(RemoveRequest(s, p, h), net) /\ Good(Hangup(s, p), net)
    BY RemoveGood, HangupGoodBut
<1>3. UNCHANGED pool
    BY DEF HandleBlockMsg
<1>4. CASE sm' = Hangup(s, p) /\ UNCHANGED <<header, have>>
    BY <1>1, <1>2, <1>3, <1>4, HandlerOK
<1>5. CASE sm' = RemoveRequest(s, p, h) /\ UNCHANGED <<header, have>>
    BY <1>1, <1>2, <1>3, <1>5, HandlerOK
<1>6. CASE BlockProcessed(RemoveRequest(s, p, h), p, h)
    BY <1>2, <1>3, <1>6, BlockProcessedOK
<1> QED
    BY <1>4, <1>5, <1>6 DEF HandleBlockMsg

LEMMA HandleNotFoundMsgOK ==
    ASSUME SyncInv, NEW s, NEW p \in Peers, NEW h \in 1..net, GoodBut(s, net, p, h),
           HandleNotFoundMsg(s, p, h), UNCHANGED <<net, faults>>
    PROVE  SyncInv'
<1>1. net \in 0..MaxHeight /\ header \in 0..net /\ have \subseteq 1..net /\ pool \subseteq Txs
    BY DEF SyncInv, ChainOK
<1>2. Good(RemoveRequest(s, p, h), net)
    BY RemoveGood
<1>3. h \notin s.own[p] => Good(s, net)
    BY DEF GoodBut, Good, Sent, SentBut
<1>4. Good(sm', net) /\ UNCHANGED <<header, have, pool>>
    BY <1>2, <1>3 DEF HandleNotFoundMsg
<1> QED
    BY <1>1, <1>4, HandlerOK

\* handleInvMsg asks for what is not in flight yet
LEMMA RequestQueuedGood ==
    ASSUME NEW n, NEW s, Good(s, n), NEW p \in Known(s), NEW items, IsFiniteSet(items),
           NEW kind, \/ kind = "block" /\ items \subseteq 1..n
                     \/ kind = "tx" /\ items \subseteq Txs
    PROVE  Good(RequestQueued(s, p, items, kind), n)
<1> DEFINE new == items \ s.req
           o == SetToSeq(new)
           c == Cardinality(new)
           msgs == [i \in DOMAIN o |-> [kind |-> kind, at |-> o[i]]]
<1>1. new \in SUBSET items /\ new \in SUBSET Items(n)
    BY DEF Items
<1>2. IsFiniteSet(new)
    BY <1>1, FS_Subset
<1>3. RequestQueued(s, p, items, kind) = Push(Request(s, p, new), p, msgs)
    BY DEF RequestQueued
<1> HIDE DEF new
<1>4. c \in Nat
    BY <1>2, FS_CardinalityType
<1>5. o \in [1..c -> new] /\ \A h \in new : \E i \in 1..c : o[i] = h
    BY <1>2, SetToSeqRuns
<1> HIDE DEF o, c
<1>6. \A i \in 1..c : [kind |-> kind, at |-> o[i]] \in Sendable(n)
  <2>1. \A i \in 1..c : o[i] \in items
      BY <1>1, <1>5
  <2> QED
      BY <2>1 DEF Sendable
<1>7. msgs \in Seq(Sendable(n)) /\ DOMAIN msgs = 1..c
  <2>1. DOMAIN o = 1..c
      BY <1>5
  <2>2. msgs \in [1..c -> Sendable(n)]
      BY <1>6, <2>1
  <2> HIDE DEF msgs
  <2>3. \A N \in Nat : \A f : f \in [1..N -> Sendable(n)] => f \in Seq(Sendable(n))
      OBVIOUS
  <2> QED
      BY <1>4, <2>2, <2>3
<1>8. \A i \in new \cap Blocks : \E k \in DOMAIN msgs : msgs[k] = [kind |-> "block", at |-> i]
  <2> SUFFICES ASSUME NEW i \in new, i \in Blocks
               PROVE  \E k \in DOMAIN msgs : msgs[k] = [kind |-> "block", at |-> i]
      OBVIOUS
  <2>1. kind = "block"
      BY <1>1, Names
  <2>2. PICK k \in 1..c : o[k] = i
      BY <1>5
  <2>3. k \in DOMAIN msgs /\ msgs[k] = [kind |-> "block", at |-> i]
      BY <1>5, <2>1, <2>2
  <2> QED
      BY <2>3
<1> HIDE DEF msgs
<1>9. Good(Push(Request(s, p, new), p, msgs), n)
    BY <1>1, <1>7, <1>8, AskGood
<1> QED
    BY <1>3, <1>9

LEMMA HandleInvMsgOK ==
    ASSUME SyncInv, NEW s, Good(s, net), NEW p \in Known(s), NEW lo \in 1..net, NEW hi \in 1..net,
           HandleInvMsg(s, p, lo, hi), UNCHANGED <<net, faults>>
    PROVE  SyncInv'
<1> DEFINE known == IF Current(s, have) /\ hi <= Best(have) THEN UpdateLastBlockHeight(s, p, hi) ELSE s
           missing == IF p \in Witness THEN (lo..hi) \ have ELSE {}
           orphans == {h \in lo..hi : h \in have /\ h > Best(have)}
           more == IF orphans # {}
                   THEN Push(known, p, <<[kind |-> "getblocks", at |-> Best(have)]>>)
                   ELSE IF hi \in have
                   THEN Push(known, p, <<[kind |-> "getblocks", at |-> hi]>>)
                   ELSE known
<1>1. net \in 0..MaxHeight /\ header \in 0..net /\ have \subseteq 1..net /\ pool \subseteq Txs
    BY DEF SyncInv, ChainOK
<1>2. net \in Nat /\ MaxHeight \in Nat /\ net <= MaxHeight /\ p \in Peers
    BY <1>1, Numbers DEF Known
<1>3. sm' \in {s, known, RequestQueued(more, p, missing, "block")} /\ UNCHANGED <<header, have, pool>>
    BY DEF HandleInvMsg
<1>4. hi \in 0..MaxHeight /\ hi \in 0..net
    BY <1>2
<1>5. Good(known, net) /\ known.conn = s.conn
    BY <1>2, <1>4, LastGood
<1>6. Best(have) \in 0..net
    BY <1>1, BestInChain
<1> HIDE DEF known, orphans
<1>7. Good(more, net) /\ more.conn = s.conn
    BY <1>2, <1>4, <1>5, <1>6, AskMore
<1>8. missing \subseteq 1..net /\ IsFiniteSet(missing)
  <2>1. lo \in Int /\ hi \in Int /\ lo..hi \subseteq 1..net
      BY <1>2
  <2>2. IsFiniteSet(lo..hi)
      BY <2>1, FS_Interval
  <2>3. missing \in SUBSET (lo..hi)
      OBVIOUS
  <2> QED
      BY <2>1, <2>2, <2>3, FS_Subset
<1> HIDE DEF more, missing
<1>9. p \in Known(more)
    BY <1>7 DEF Known
<1>10. Good(RequestQueued(more, p, missing, "block"), net)
    BY <1>7, <1>8, <1>9, RequestQueuedGood
<1>11. Good(sm', net)
    BY <1>3, <1>5, <1>10
<1> QED
    BY <1>1, <1>3, <1>11, HandlerOK

LEMMA HandleInvTxOK ==
    ASSUME SyncInv, NEW s, Good(s, net), NEW p \in Known(s), NEW t \in Txs,
           HandleInvTx(s, p, t), UNCHANGED <<net, faults>>
    PROVE  SyncInv'
<1>1. net \in 0..MaxHeight /\ header \in 0..net /\ have \subseteq 1..net /\ pool \subseteq Txs
    BY DEF SyncInv, ChainOK
<1>2. sm' \in {s, RequestQueued(s, p, {t}, "tx")} /\ UNCHANGED <<header, have, pool>>
    BY DEF HandleInvTx
<1>3. IsFiniteSet({t}) /\ {t} \subseteq Txs
    BY FS_Singleton
<1>4. Good(RequestQueued(s, p, {t}, "tx"), net)
    BY <1>3, RequestQueuedGood
<1>5. Good(sm', net)
    BY <1>2, <1>4
<1> QED
    BY <1>1, <1>2, <1>5, HandlerOK

LEMMA HandleTxMsgOK ==
    ASSUME SyncInv, NEW s, Good(s, net), NEW p \in Peers, NEW t \in Txs,
           HandleTxMsg(s, p, t), UNCHANGED <<net, faults>>
    PROVE  SyncInv'
<1> DEFINE r == RemoveRequest(s, p, t)
<1>1. net \in 0..MaxHeight /\ header \in 0..net /\ have \subseteq 1..net /\ pool \subseteq Txs
    BY DEF SyncInv, ChainOK
<1>2. Good(r, net)
    BY GoodIsGoodBut, RemoveGood
<1>3. /\ sm' \in {s, r, [r EXCEPT !.rejected = @ \cup {t}]} /\ UNCHANGED <<header, have>>
      /\ pool' = pool \cup {t}
    BY DEF HandleTxMsg
<1> HIDE DEF r
<1>4. r.rejected \in SUBSET Txs
    BY <1>2, Parts DEF Good
<1>5. r.rejected \cup {t} \in SUBSET Txs
    BY <1>4
<1>6. Good([r EXCEPT !.rejected = r.rejected \cup {t}], net)
    BY <1>2, <1>5, OtherFields
<1>7. Good(sm', net)
    BY <1>2, <1>3, <1>6
<1> QED
    BY <1>1, <1>3, <1>7, HandlerOK

LEMMA AnnounceOK ==
    ASSUME SyncInv, NEW s, Good(s, net), NEW p \in Known(s), NEW from \in 0..net,
           Announce(s, p, from), UNCHANGED <<net, faults>>
    PROVE  SyncInv'
<1>1. net \in 0..MaxHeight /\ header \in 0..net /\ have \subseteq 1..net /\ pool \subseteq Txs
    BY DEF SyncInv, ChainOK
<1>2. net \in Nat
    BY <1>1, Numbers
<1>3. CASE from >= net
  <2>1. sm' = s /\ UNCHANGED <<header, have, pool>>
      BY <1>3 DEF Announce
  <2> QED
      BY <1>1, <2>1, HandlerOK
<1>4. CASE ~ (from >= net)
  <2>1. from + 1 \in 1..net /\ net \in 1..net
      BY <1>2, <1>4
  <2>2. HandleInvMsg(s, p, from + 1, net)
      BY <1>4 DEF Announce
  <2> QED
      BY <2>1, <2>2, HandleInvMsgOK
<1> QED
    BY <1>3, <1>4

\* what is in a message, by its kind
LEMMA MessageParts ==
    ASSUME NEW n, NEW m \in Sendable(n)
    PROVE  /\ m.kind \in {"headers", "getblocks", "block", "tx", "inv", "invtx"}
           /\ m.kind \in {"headers", "getblocks"} => m.at \in 0..n
           /\ m.kind = "block" => m.at \in 1..n
           /\ m.kind \in {"tx", "invtx"} => m.at \in Txs
           /\ m.kind = "inv" => m.from \in 1..n /\ m.to \in 1..n
  BY DEF Sendable

LEMMA ReceiveOK ==
    ASSUME SyncInv, NEW p \in Peers, Receive(p)
    PROVE  SyncInv'
<1> DEFINE m == Head(sm.inbox[p])
           s == Popped(p)
           pruned == m.kind = "block" /\ p \in Limited /\ m.at <= net - Window
<1>1. p \in Known(sm) /\ sm.inbox[p] # <<>> /\ UNCHANGED <<net, faults>>
    BY DEF Receive
<1>2. /\ m \in Sendable(net)
      /\ m.kind = "block" => GoodBut(s, net, p, m.at)
      /\ m.kind # "block" => Good(s, net)
      /\ p \in Known(s)
    BY <1>1, PoppedGood
<1>3. (CASE m.kind = "headers" -> HandleHeadersMsg(s, p, m.at)
        [] pruned -> HandleNotFoundMsg(s, p, m.at)
        [] m.kind = "block" /\ ~ pruned -> HandleBlockMsg(s, p, m.at)
        [] m.kind = "getblocks" -> Announce(s, p, m.at)
        [] m.kind = "inv" -> HandleInvMsg(s, p, m.from, m.to)
        [] m.kind = "invtx" -> HandleInvTx(s, p, m.at)
        [] m.kind = "tx" -> HandleTxMsg(s, p, m.at))
    BY DEF Receive, Popped
<1>11. pruned => m.kind = "block"
    OBVIOUS
<1> HIDE DEF m, s, pruned
<1>4. /\ m.kind \in {"headers", "getblocks", "block", "tx", "inv", "invtx"}
      /\ m.kind \in {"headers", "getblocks"} => m.at \in 0..net
      /\ m.kind = "block" => m.at \in 1..net
      /\ m.kind \in {"tx", "invtx"} => m.at \in Txs
      /\ m.kind = "inv" => m.from \in 1..net /\ m.to \in 1..net
    BY <1>2, MessageParts
<1>5. CASE m.kind = "headers"
  <2>1. HandleHeadersMsg(s, p, m.at)
      BY <1>3, <1>5, <1>11
  <2> QED
      BY <1>1, <1>2, <1>4, <1>5, <2>1, HandleHeadersMsgOK
<1>6. CASE m.kind = "block"
  <2>1. HandleNotFoundMsg(s, p, m.at) \/ HandleBlockMsg(s, p, m.at)
      BY <1>3, <1>6
  <2> QED
      BY <1>1, <1>2, <1>4, <1>6, <2>1, HandleNotFoundMsgOK, HandleBlockMsgOK
<1>7. CASE m.kind = "getblocks"
  <2>1. Announce(s, p, m.at)
      BY <1>3, <1>7, <1>11
  <2> QED
      BY <1>1, <1>2, <1>4, <1>7, <2>1, AnnounceOK
<1>8. CASE m.kind = "inv"
  <2>1. HandleInvMsg(s, p, m.from, m.to)
      BY <1>3, <1>8, <1>11
  <2> QED
      BY <1>1, <1>2, <1>4, <1>8, <2>1, HandleInvMsgOK
<1>9. CASE m.kind = "invtx"
  <2>1. HandleInvTx(s, p, m.at)
      BY <1>3, <1>9, <1>11
  <2> QED
      BY <1>1, <1>2, <1>4, <1>9, <2>1, HandleInvTxOK
<1>10. CASE m.kind = "tx"
  <2>1. HandleTxMsg(s, p, m.at)
      BY <1>3, <1>10, <1>11
  <2> QED
      BY <1>1, <1>2, <1>4, <1>10, <2>1, HandleTxMsgOK
<1> QED
    BY <1>4, <1>5, <1>6, <1>7, <1>8, <1>9, <1>10

LEMMA OnTxOK ==
    ASSUME SyncInv, NEW p \in Peers, OnTx(p)
    PROVE  SyncInv'
<1>1. /\ sm.inbox[p] # <<>> /\ Head(sm.inbox[p]).kind # "block" /\ sm' = Popped(p)
      /\ UNCHANGED <<header, have, pool, net, faults>>
    BY DEF OnTx, Popped
<1>2. Good(sm', net)
    BY <1>1, PoppedGood
<1> QED
    BY <1>1, <1>2 DEF SyncInv, ChainOK

-----------------------------------------------------------------------------
(* The world. *)

\* a longer chain allows for more
LEMMA GoodGrows ==
    ASSUME NEW n \in Nat, NEW s, Good(s, n)
    PROVE  Good(s, n + 1)
<1>1. 0..n \subseteq 0..(n + 1) /\ 1..n \subseteq 1..(n + 1)
    OBVIOUS
<1>2. Sendable(n) \subseteq Sendable(n + 1) /\ Items(n) \subseteq Items(n + 1)
    BY <1>1 DEF Sendable, Items
<1>3. Seq(Sendable(n)) \subseteq Seq(Sendable(n + 1))
    BY <1>2
<1>4. s \in ManagerType(n)
    BY DEF Good
<1>5. /\ s.own \in [Peers -> SUBSET Items(n + 1)] /\ s.req \in SUBSET Items(n + 1)
      /\ s.inbox \in [Peers -> Seq(Sendable(n + 1))]
    BY <1>2, <1>3, <1>4, Parts
<1>6. s \in ManagerType(n + 1)
    BY <1>4, <1>5 DEF ManagerType
<1> QED
    BY <1>6 DEF Good

LEMMA MineOK ==
    ASSUME SyncInv, Mine
    PROVE  SyncInv'
<1> DEFINE m == [kind |-> "inv", from |-> net + 1, to |-> net + 1]
           bx == [p \in Peers |-> IF p \in Honest /\ sm.conn[p] = "up"
                                  THEN Append(sm.inbox[p], m) ELSE sm.inbox[p]]
<1>1. net \in 0..MaxHeight /\ header \in 0..net /\ have \subseteq 1..net /\ net \in StartHeight..MaxHeight
    BY DEF SyncInv, ChainOK
<1>2. net \in Nat /\ MaxHeight \in Nat /\ StartHeight \in Nat
    BY <1>1, Numbers
<1>3. /\ net < MaxHeight /\ net' = net + 1 /\ sm' = [sm EXCEPT !.inbox = bx]
      /\ UNCHANGED <<header, have, pool, faults>>
    BY DEF Mine
<1>4. Good(sm, net + 1)
    BY <1>2, GoodGrows DEF SyncInv
<1>5. sm \in ManagerType(net + 1) /\ Tracked(sm) /\ \A q \in Peers : Sent(sm, q)
    BY <1>4 DEF Good
<1>6. m \in Sendable(net + 1)
  <2>1. net + 1 \in 1..(net + 1)
      BY <1>2
  <2> QED
      BY <2>1 DEF Sendable
<1> HIDE DEF m
<1>7. ASSUME NEW p \in Peers
      PROVE  /\ bx[p] \in Seq(Sendable(net + 1))
             /\ \A k \in DOMAIN sm.inbox[p] : k \in DOMAIN bx[p] /\ bx[p][k] = sm.inbox[p][k]
  <2> DEFINE a == sm.inbox[p]
  <2>1. a \in Seq(Sendable(net + 1))
      BY <1>5, Parts
  <2>2. bx[p] = a \/ bx[p] = Append(a, m)
      OBVIOUS
  <2> HIDE DEF a
  <2>3. /\ Append(a, m) \in Seq(Sendable(net + 1))
        /\ \A k \in DOMAIN a : k \in DOMAIN Append(a, m) /\ Append(a, m)[k] = a[k]
      BY <1>6, <2>1
  <2> HIDE DEF bx
  <2>4. /\ bx[p] \in Seq(Sendable(net + 1))
        /\ \A k \in DOMAIN a : k \in DOMAIN bx[p] /\ bx[p][k] = a[k]
      BY <2>1, <2>2, <2>3
  <2> QED
      BY <2>4 DEF a
<1>8. bx \in [Peers -> Seq(Sendable(net + 1))]
    BY <1>7
<1> HIDE DEF bx
<1>9. /\ sm' \in ManagerType(net + 1) /\ sm'.conn = sm.conn /\ sm'.own = sm.own /\ sm'.req = sm.req
      /\ sm'.syncPeer = sm.syncPeer /\ sm'.inbox = bx
    BY <1>3, <1>5, <1>8 DEF ManagerType
<1> DEFINE r == sm'
<1>10. /\ r \in ManagerType(net + 1) /\ r.conn = sm.conn /\ r.own = sm.own /\ r.req = sm.req
       /\ r.syncPeer = sm.syncPeer /\ r.inbox = bx
    BY <1>9
<1> HIDE DEF r
<1>11. Tracked(r)
    BY <1>5, <1>10 DEF Tracked, Known
<1>12. ASSUME NEW q \in Peers PROVE Sent(r, q)
  <2>1. \A i : ToCome(sm, q, i) => ToCome(r, q, i)
      BY <1>7, <1>10 DEF ToCome
  <2> QED
      BY <1>5, <1>10, <2>1 DEF Sent
<1>13. Good(sm', net + 1)
    BY <1>10, <1>11, <1>12 DEF Good, r
<1>14. /\ net' \in StartHeight..MaxHeight /\ net' \in 0..MaxHeight /\ header' \in 0..net'
       /\ have' \subseteq 1..net'
    BY <1>1, <1>2, <1>3
<1> QED
    BY <1>3, <1>13, <1>14 DEF SyncInv, ChainOK

\* a message of the world to the node
LEMMA PushOK ==
    ASSUME SyncInv, NEW p \in Peers, NEW m \in Sendable(net), sm' = Push(sm, p, <<m>>),
           UNCHANGED <<header, have, pool, net, faults>>
    PROVE  SyncInv'
<1>1. <<m>> \in Seq(Sendable(net))
    BY OneMessage
<1>2. Good(sm', net)
    BY <1>1, PushGood DEF SyncInv
<1> QED
    BY <1>2 DEF SyncInv, ChainOK

LEMMA AnnounceTipOK ==
    ASSUME SyncInv, NEW p \in Peers, AnnounceTip(p)
    PROVE  SyncInv'
<1>1. net \in 0..MaxHeight /\ have \subseteq 1..net
    BY DEF SyncInv, ChainOK
<1>2. Best(have) \in 0..net /\ Best(have) < net
    BY <1>1, BestInChain DEF AnnounceTip
<1>3. net \in 1..net
    BY <1>1, <1>2, Numbers
<1>4. [kind |-> "inv", from |-> net, to |-> net] \in Sendable(net)
    BY <1>3 DEF Sendable
<1> QED
    BY <1>4, PushOK DEF AnnounceTip

LEMMA AnnounceTxOK ==
    ASSUME SyncInv, NEW p \in Peers, NEW t \in Txs, AnnounceTx(p, t)
    PROVE  SyncInv'
<1>1. [kind |-> "invtx", at |-> t] \in Sendable(net)
    BY DEF Sendable
<1> QED
    BY <1>1, PushOK DEF AnnounceTx

LEMMA ProcessBlockOK ==
    ASSUME SyncInv, ProcessBlock
    PROVE  SyncInv'
<1>1. net \in 0..MaxHeight /\ header \in 0..net /\ have \subseteq 1..net /\ net \in StartHeight..MaxHeight
    BY DEF SyncInv, ChainOK
<1>2. net \in Nat /\ MaxHeight \in Nat /\ StartHeight \in Nat
    BY <1>1, Numbers
<1>3. /\ net < MaxHeight /\ net' = net + 1 /\ have' = have \cup {net + 1}
      /\ header' = BestHeaderAfter(have', header) /\ UNCHANGED <<sm, pool, faults>>
    BY DEF ProcessBlock
<1>4. Good(sm', net')
    BY <1>2, <1>3, GoodGrows DEF SyncInv
<1>5. /\ net' \in StartHeight..MaxHeight /\ net' \in 0..MaxHeight /\ header \in 0..net'
      /\ have' \subseteq 1..net'
    BY <1>1, <1>2, <1>3
<1>6. header' \in 0..net'
  <2> DEFINE hv == have'
             n == net'
  <2>1. n \in 0..MaxHeight /\ header \in 0..n /\ hv \subseteq 1..n
      BY <1>5
  <2> HIDE DEF hv, n
  <2>2. BestHeaderAfter(hv, header) \in 0..n
      BY <2>1, HeaderInChain
  <2> QED
      BY <1>3, <2>2 DEF hv, n
<1> QED
    BY <1>3, <1>4, <1>5, <1>6 DEF SyncInv, ChainOK

LEMMA InitOK == Init => SyncInv
<1> SUFFICES ASSUME Init PROVE SyncInv
    OBVIOUS
<1>1. /\ 0 \in 0..MaxHeight /\ <<>> \in Seq(Sendable(net)) /\ None \in Peers \cup {None}
      /\ {} \in SUBSET Items(net) /\ {} \in SUBSET Txs
    BY Numbers
<1>2. sm \in ManagerType(net)
    BY <1>1 DEF Init, ManagerType
<1>3. Tracked(sm) /\ \A p \in Peers : Sent(sm, p)
    BY DEF Init, Tracked, Sent
<1>4. ChainOK(header, have, net) /\ net \in StartHeight..MaxHeight /\ faults \in 0..MaxFaults /\ pool \subseteq Txs
    BY Numbers DEF Init, ChainOK
<1> QED
    BY <1>2, <1>3, <1>4 DEF SyncInv, Good

-----------------------------------------------------------------------------
(* The theorem. *)

LEMMA StepOK ==
    ASSUME SyncInv, [Next]_vars
    PROVE  SyncInv'
<1>1. CASE UNCHANGED vars
    BY <1>1 DEF vars, SyncInv
<1>2. CASE Next
    BY <1>2, HandleNewPeerMsgOK, HandleDonePeerMsgOK, LoseConnectionOK, ReceiveOK, OnTxOK, AnnounceTipOK,
       HandleStallSampleOK, MineOK, ProcessBlockOK, AnnounceTxOK DEF Next
<1> QED
    BY <1>1, <1>2

\* only a new connection and an answer of blockHandler change the channels
LEMMA RepliesStep ==
    ASSUME RepliesOK, [Next]_vars
    PROVE  RepliesOK'
<1>1. CASE UNCHANGED replies
    BY <1>1 DEF RepliesOK, replies
<1>2. ASSUME NEW p \in Peers, HandleNewPeerMsg(p) PROVE RepliesOK'
    BY <1>2 DEF RepliesOK, HandleNewPeerMsg
<1>3. ASSUME NEW p \in Peers, NEW k \in {"block", "tx"}, Reply(p, k) PROVE RepliesOK'
    BY <1>3 DEF RepliesOK, Reply
<1>4. ASSUME NEW p \in Peers, Receive(p) PROVE RepliesOK'
  <2>1. UNCHANGED replies \/ \E k \in {"block", "tx"} : Reply(p, k)
      BY <1>4 DEF Receive
  <2> QED
      BY <1>1, <1>3, <2>1
<1>5. CASE UNCHANGED vars
    BY <1>1, <1>5 DEF vars, replies
<1>6. CASE Next
  <2>1. UNCHANGED replies \/ \E p \in Peers : HandleNewPeerMsg(p) \/ Receive(p)
      BY <1>6 DEF Next, HandleDonePeerMsg, LoseConnection, OnTx, AnnounceTip, HandleStallSample,
                  Mine, ProcessBlock, AnnounceTx
  <2> QED
      BY <1>1, <1>2, <1>4, <2>1
<1> QED
    BY <1>5, <1>6

\* For any peers, honest, pruned or silent, any heights and batch sizes, and any
\* order of answers, disconnections and stalls: the sync peer is one the
\* manager has state for, everything in requestedBlocks and requestedTxns was
\* asked of a peer that is still known, and a block that a connected peer was
\* asked for is still on its way from it (handleBlockMsg, handleInvMsg,
\* fetchHeaderBlocks, updateSyncPeer, clearRequestedState).
THEOREM RequestsAlwaysTracked ==
    Spec => []RequestsTracked
<1>1. SyncInv /\ [Next]_vars => SyncInv'
    BY StepOK
<1>2. RepliesOK /\ [Next]_vars => RepliesOK'
    BY RepliesStep
<1>3. Init => RepliesOK
    BY DEF Init, RepliesOK
<1>4. Spec => []SyncInv /\ []RepliesOK
    BY <1>1, <1>2, <1>3, InitOK, PTL DEF Spec
<1> QED
    BY <1>4, InvImplies, PTL
=============================================================================
