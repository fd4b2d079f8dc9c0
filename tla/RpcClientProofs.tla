-------------------------- MODULE RpcClientProofs --------------------------
(***************************************************************************)
(* Theorems about RpcClient, for any requests, methods, modes and bounds:  *)
(* no request gets two responses, no websocket request is lost from sight, *)
(* and a quiet connection has the client's registrations.                  *)
(***************************************************************************)
EXTENDS RpcClient, OrderingProofs

-----------------------------------------------------------------------------
(* The inductive invariant. *)

WsType == [conn : 0..MaxConns, disconnected : BOOLEAN, failing : BOOLEAN, sendChan : Seq(Ids)]
ReplyRec == [id : Ids, err : BOOLEAN]
WireRec == [alive : BOOLEAN, down : Seq(ReplyRec), registered : BOOLEAN, refused : BOOLEAN]
WireType == [Conns -> WireRec]
InRec == [pc : {"read", "remove", "track", "stop", "done"}, rc : Conns, msg : Ids \cup {None},
          err : BOOLEAN]
InType == [Conns -> InRec]
OutRec == [pc : {"select", "write", "drain", "done"}, ch : Conns, msg : Ids \cup {None}]
OutType == [Conns -> OutRec]
RsType == [Conns -> [pc : {"register", "wait", "copy", "send", "done"}, todo : Seq(Ids)]]
PostType ==
    [pc : {"select", "busy", "drain", "done"}, chan : Seq(Ids), msg : Ids \cup {None}, try : Nat,
     cancelled : BOOLEAN, failed : SUBSET Ids, sends : 0..MaxSends, open : SUBSET (1..MaxSends),
     snap : [1..MaxSends -> SUBSET Ids]]

Typed ==
    /\ mode \in Modes /\ shutdown \in BOOLEAN /\ ntfn \in BOOLEAN
    /\ req \in [Ids -> {"unused", "new", "guard", "enqueue", "send", "wait", "done"}]
    /\ resp \in [Ids -> 0..1] /\ list \in Seq(Ids) /\ IsInjective(list)
    /\ ws \in WsType /\ wire \in WireType /\ hin \in InType /\ hout \in OutType
    /\ rec \in {"wait", "dial", "dialing", "done"} /\ rs \in RsType /\ post \in PostType

\* what a handler has in hand is a request
InHand ==
    /\ \A k \in Conns : hin[k].pc \in {"remove", "track"} => hin[k].msg \in Ids
    /\ \A k \in Conns : hout[k].pc = "write" => hout[k].msg \in Ids

\* a request that is pending has no response and one place
Pending(r) == resp[r] = 0 /\ req[r] \in {"send", "wait"}
ListPending == \A r \in ToSet(list) : Pending(r)
TrackPending ==
    \A k \in Conns : hin[k].pc = "track" =>
        /\ Pending(hin[k].msg) /\ hin[k].msg \notin ToSet(list)
        /\ \A j \in Conns \ {k} : hin[j].pc = "track" => hin[j].msg # hin[k].msg
ChanPending ==
    /\ IsInjective(post.chan)
    /\ \A r \in ToSet(post.chan) : resp[r] = 0 /\ req[r] = "wait" /\ r \notin ToSet(list)
BusyPending ==
    post.pc = "busy" =>
        /\ post.msg \in Ids /\ resp[post.msg] = 0 /\ req[post.msg] = "wait"
        /\ post.msg \notin ToSet(list) /\ post.msg \notin ToSet(post.chan)
EarlyUnanswered == \A r \in Ids : req[r] \in {"unused", "new", "guard", "enqueue"} => resp[r] = 0

\* the modes do not mix
WsOnly ==
    WebSocket =>
        /\ post.pc = "done" /\ post.chan = <<>> /\ post.open = {}
        /\ \A r \in Ids : req[r] \notin {"guard", "enqueue"}
PostOnly ==
    ~ WebSocket =>
        /\ rec = "done" /\ ws.conn = 0 /\ ~ ws.failing
        /\ \A k \in Conns : hin[k].pc = "done" /\ hout[k].pc = "done" /\ rs[k].pc = "done"
        /\ mode = "post" => list = <<>>

\* the requests that the client makes by itself are made once
Fresh ==
    /\ \A k \in Conns : k > ws.conn => rs[k].pc = "done" /\ req[<<"again", k>>] = "unused"
    /\ \A k \in Conns : rs[k].pc = "register" => req[<<"again", k>>] = "unused"
    /\ \A i \in 1..MaxSends : i > post.sends => req[<<"batch", i>>] = "unused"

\* a reply to a registration comes from a connection that has it
Connected ==
    /\ \A n \in Conns : n > ws.conn => wire[n] = DeadWire
    /\ \A k \in Conns : hin[k].pc # "done" => k <= ws.conn /\ hin[k].rc <= ws.conn
    /\ \A k \in Conns : hout[k].pc # "done" => ws.conn > 0
    /\ ws.conn = 0 => rec = "done" /\ ~ ntfn
Vouched(w, r, err) ==
    MethodOf(r) = "notify" => w.registered \/ w.refused \/ (err /\ r \notin Reqs)
Replies ==
    /\ \A n \in Conns : \A m \in ToSet(wire[n].down) : Vouched(wire[n], m.id, m.err)
    /\ \A k \in Conns :
        hin[k].pc \in {"remove", "track"} /\ wire[hin[k].rc].alive
            => Vouched(wire[hin[k].rc], hin[k].msg, hin[k].err)

\* the current connection is registered, or that is still to be done, or a
\* caller was refused, or resendRequests was and will give the connection up
Unheard(k) == resp[<<"again", k>>] = 0 \/ <<"again", k>> \in refused
Registered ==
    ws.conn > 0 /\ ntfn /\ ~ overtaken /\ ~ shutdown /\ ~ ws.disconnected =>
        (wire[ws.conn].alive =>
            \/ wire[ws.conn].registered \/ wire[ws.conn].refused \/ rs[ws.conn].pc = "register"
            \/ rs[ws.conn].pc = "wait" /\ Unheard(ws.conn))

\* the client registers again only when it was told to register before
Asked == WebSocket => \A r \in Ids \ Reqs : req[r] # "unused" => ntfn

Places == ListPending /\ TrackPending /\ ChanPending /\ BusyPending /\ EarlyUnanswered
RpcInv ==
    /\ Typed /\ InHand /\ Places /\ WsOnly /\ PostOnly /\ Fresh /\ Tracked
    /\ Connected /\ Replies /\ Registered

LEMMA Names ==
    /\ \A k \in Conns : <<"again", k>> \in Ids /\ MethodOf(<<"again", k>>) = "notify"
    /\ \A i \in 1..MaxSends : <<"batch", i>> \in Ids
    /\ \A k \in Conns, i \in 1..MaxSends : <<"again", k>> # <<"batch", i>>
    /\ \A r \in Reqs : r \in Ids /\ (\A k \in Conns : r # <<"again", k>>) /\ (\A i \in 1..MaxSends : r # <<"batch", i>>)
  BY RpcAssumption DEF Ids, Again, Batches, MethodOf

-----------------------------------------------------------------------------
(* Lists. *)

LEMMA AppendSet ==
    ASSUME NEW M, NEW q \in Seq(M), NEW x \in M
    PROVE  /\ Append(q, x) \in Seq(M) /\ ToSet(Append(q, x)) = ToSet(q) \cup {x}
           /\ IsInjective(q) /\ x \notin ToSet(q) => IsInjective(Append(q, x))
  BY DEF ToSet, IsInjective

LEMMA TailSet ==
    ASSUME NEW M, NEW q \in Seq(M), q # <<>>
    PROVE  /\ Head(q) \in M /\ Head(q) \in ToSet(q) /\ Tail(q) \in Seq(M)
           /\ ToSet(Tail(q)) \subseteq ToSet(q)
           /\ IsInjective(q) => IsInjective(Tail(q)) /\ Head(q) \notin ToSet(Tail(q))
  BY DEF ToSet, IsInjective

LEMMA EmptySet ==
    ASSUME NEW M
    PROVE  <<>> \in Seq(M) /\ ToSet(<<>>) = {} /\ IsInjective(<<>>)
  BY DEF ToSet, IsInjective

LEMMA SetOfList ==
    ASSUME NEW M, NEW q \in Seq(M)
    PROVE  ToSet(q) \subseteq M
  BY DEF ToSet

-----------------------------------------------------------------------------
(* Responses. *)

\* responses to requests without one
LEMMA RespondOK ==
    ASSUME NEW S, Typed, \A r \in S \cap Ids : resp[r] = 0
    PROVE  /\ Respond(S) \in [Ids -> 0..1]
           /\ \A r \in Ids : Respond(S)[r] = IF r \in S THEN 1 ELSE resp[r]
<1>1. \A r \in Ids : resp[r] \in 0..1
    BY DEF Typed
<1> QED
    BY <1>1 DEF Respond

-----------------------------------------------------------------------------
(* A connection that is lost. *)

Lost == /\ ws' \in WsType /\ ws'.conn = ws.conn /\ ws'.sendChan = ws.sendChan
        /\ ~ WebSocket => ws' = ws
        /\ ws.disconnected => ws'.disconnected
        /\ wire' \in WireType /\ \A m \in Conns : wire'[m] \in {wire[m], DeadWire}

LEMMA HangUpOK ==
    ASSUME Typed, NEW n \in 0..MaxConns
    PROVE  HangUp(n) \in WireType /\ \A m \in Conns : HangUp(n)[m] \in {wire[m], DeadWire}
<1>1. DeadWire \in WireRec
    BY EmptySet DEF DeadWire, WireRec
<1>2. wire \in WireType
    BY DEF Typed
<1> QED
    BY <1>1, <1>2 DEF HangUp, WireType

LEMMA DisconnectedOK ==
    ASSUME Typed, NEW f \in BOOLEAN
    PROVE  /\ Disconnected(ws, f) \in WsType /\ Disconnected(ws, f).conn = ws.conn
           /\ Disconnected(ws, f).sendChan = ws.sendChan /\ Disconnected(ws, f).disconnected
  BY DEF Typed, WsType, Disconnected

LEMMA DisconnectOK ==
    ASSUME Typed, WebSocket, Disconnect
    PROVE  Lost
<1>1. /\ ws' \in WsType /\ ws'.conn = ws.conn /\ ws'.sendChan = ws.sendChan
      /\ ws.disconnected => ws'.disconnected
    BY DisconnectedOK DEF Disconnect
<1>2. wire' = wire \/ wire' = HangUp(ws.conn)
    BY DEF Disconnect
<1>3. ws.conn \in 0..MaxConns /\ wire \in WireType
    BY DEF Typed, WsType
<1>4. wire' \in WireType /\ \A m \in Conns : wire'[m] \in {wire[m], DeadWire}
    BY <1>2, <1>3, HangUpOK
<1> QED
    BY <1>1, <1>4 DEF Lost

\* a lost connection has no replies and no registrations
LEMMA LostOK ==
    ASSUME Typed, InHand, Connected, Replies, Registered, Lost
    PROVE  /\ UNCHANGED <<hin, hout, rec, ntfn>> => Connected'
           /\ UNCHANGED hin => Replies'
           /\ UNCHANGED <<ntfn, rs, resp, overtaken, refused>> /\ (shutdown => shutdown') => Registered'
<1>1. ws \in WsType /\ wire \in WireType /\ hin \in InType /\ Conns = 1..MaxConns /\ MaxConns \in Nat
    BY RpcAssumption DEF Typed, Conns
<1>2. \A m \in Conns : wire'[m].alive => wire'[m] = wire[m]
    BY DEF Lost, DeadWire
<1>3. \A m \in Conns : wire'[m] # wire[m] => wire'[m].down = <<>>
    BY DEF Lost, DeadWire
<1>4. UNCHANGED <<hin, hout, rec, ntfn>> => Connected'
    BY DEF Connected, Lost
<1>5. UNCHANGED hin => Replies'
  <2> SUFFICES ASSUME UNCHANGED hin PROVE Replies'
      OBVIOUS
  <2>1. \A n \in Conns : \A m \in ToSet(wire'[n].down) : Vouched(wire'[n], m.id, m.err)
      BY <1>3, EmptySet DEF Replies
  <2>2. \A k \in Conns : hin[k].rc \in Conns
      BY <1>1 DEF InType, InRec
  <2> QED
      BY <1>2, <2>1, <2>2 DEF Replies
<1>6. UNCHANGED <<ntfn, rs, resp, overtaken, refused>> /\ (shutdown => shutdown') => Registered'
  <2>1. ws.conn > 0 => ws.conn \in Conns
      BY <1>1 DEF WsType
  <2> QED
      BY <1>2, <2>1 DEF Registered, Unheard, Lost
<1> QED
    BY <1>4, <1>5, <1>6

-----------------------------------------------------------------------------
(* What a state that satisfies the invariant looks like. *)

LEMMA Facts ==
    ASSUME RpcInv
    PROVE  /\ Conns = 1..MaxConns /\ MaxConns \in Nat \ {0} /\ MaxSends \in Nat
           /\ ws \in WsType /\ wire \in WireType /\ hin \in InType /\ hout \in OutType
           /\ rs \in RsType /\ post \in PostType
           /\ req \in [Ids -> {"unused", "new", "guard", "enqueue", "send", "wait", "done"}]
           /\ resp \in [Ids -> 0..1] /\ list \in Seq(Ids) /\ ToSet(list) \subseteq Ids
           /\ ws.conn \in 0..MaxConns /\ ws.sendChan \in Seq(Ids)
           /\ post.chan \in Seq(Ids) /\ ToSet(post.chan) \subseteq Ids
           /\ \A k \in Conns : hin[k].rc \in Conns
<1>1. Typed
    BY DEF RpcInv
<1>2. Conns = 1..MaxConns /\ MaxConns \in Nat \ {0} /\ MaxSends \in Nat
    BY RpcAssumption DEF Conns
<1>3. ws.conn \in 0..MaxConns /\ ws.sendChan \in Seq(Ids)
    BY <1>1 DEF Typed, WsType
<1>4. post.chan \in Seq(Ids)
    BY <1>1 DEF Typed, PostType
<1>5. \A k \in Conns : hin[k].rc \in Conns
    BY <1>1 DEF Typed, InType, InRec
<1>6. list \in Seq(Ids)
    BY <1>1 DEF Typed
<1> QED
    BY <1>1, <1>2, <1>3, <1>4, <1>5, <1>6, SetOfList DEF Typed

\* a handler's record after a step
LEMMA SetHandler ==
    ASSUME NEW T, NEW f \in [Conns -> T], NEW k \in Conns, NEW x \in T, NEW g, g = [f EXCEPT ![k] = x]
    PROVE  g \in [Conns -> T] /\ g[k] = x /\ \A j \in Conns \ {k} : g[j] = f[j]
  OBVIOUS

LEMMA InNextOK ==
    ASSUME ws.conn \in Conns
    PROVE  InNext \in InRec /\ InNext.pc \in {"stop", "read"} /\ InNext.rc = ws.conn
<1>1. (IF shutdown THEN "stop" ELSE "read") \in {"stop", "read"}
    OBVIOUS
<1> QED
    BY <1>1 DEF InNext, InRec

\* a new request is on the list without a response, or answered, or forgotten
\* in a batch
RequestAdded(r) ==
    /\ req' \in [Ids -> {"unused", "new", "guard", "enqueue", "send", "wait", "done"}]
    /\ resp' \in [Ids -> 0..1] /\ list' \in Seq(Ids) /\ IsInjective(list')
    /\ \A s \in Ids \ {r} : req'[s] = req[s] /\ resp'[s] = resp[s]
    /\ \/ req'[r] = "done" /\ ToSet(list') = ToSet(list) /\ WebSocket
       \/ req'[r] = "wait" /\ resp'[r] = 0 /\ ToSet(list') = ToSet(list) /\ ~ WebSocket
       \/ req'[r] \in {"send", "wait"} /\ resp'[r] = 0 /\ ToSet(list') = ToSet(list) \cup {r}

LEMMA AddRequestOK ==
    ASSUME RpcInv, NEW r \in Ids, req[r] \in {"new", "unused"}, AddRequest(r)
    PROVE  RequestAdded(r) /\ (~ shutdown => resp' = resp)
<1>1. Typed /\ list \in Seq(Ids) /\ IsInjective(list) /\ resp[r] = 0 /\ r \notin ToSet(list)
    BY Facts DEF RpcInv, Typed, Places, EarlyUnanswered, ListPending, Pending
<1>2. Respond({r}) \in [Ids -> 0..1] /\ \A s \in Ids : Respond({r})[s] = IF s \in {r} THEN 1 ELSE resp[s]
    BY <1>1, RespondOK
<1>3. Append(list, r) \in Seq(Ids) /\ ToSet(Append(list, r)) = ToSet(list) \cup {r} /\ IsInjective(Append(list, r))
    BY <1>1, AppendSet
<1>4. req \in [Ids -> {"unused", "new", "guard", "enqueue", "send", "wait", "done"}] /\ resp \in [Ids -> 0..1]
    BY Facts
<1>5. CASE shutdown /\ WebSocket
    BY <1>1, <1>2, <1>4, <1>5 DEF AddRequest, RequestAdded
<1>6. CASE shutdown /\ ~ WebSocket
    BY <1>1, <1>2, <1>4, <1>6 DEF AddRequest, RequestAdded
<1>7. CASE ~ shutdown
    BY <1>1, <1>3, <1>4, <1>7 DEF AddRequest, RequestAdded
<1> QED
    BY <1>5, <1>6, <1>7

\* a request that was not made before, is made
LEMMA AddedOK ==
    ASSUME RpcInv, NEW r \in Ids, req[r] \in {"new", "unused"}, RequestAdded(r),
           UNCHANGED <<mode, hin, post, dropped>>
    PROVE  ListPending' /\ TrackPending' /\ ChanPending' /\ BusyPending' /\ EarlyUnanswered' /\ WsOnly' /\ Tracked'
<1>1. /\ resp[r] = 0 /\ r \notin ToSet(list) /\ r \notin ToSet(post.chan)
      /\ post.pc = "busy" => post.msg # r
      /\ \A k \in Conns : hin[k].pc = "track" => hin[k].msg # r
      /\ ToSet(list) \subseteq Ids /\ ToSet(post.chan) \subseteq Ids
    BY Facts DEF RpcInv, Places, EarlyUnanswered, ListPending, ChanPending, BusyPending, TrackPending, Pending
<1>2. ListPending'
    BY <1>1 DEF RequestAdded, RpcInv, Places, ListPending, Pending
<1>3. TrackPending'
    BY <1>1 DEF RequestAdded, RpcInv, Places, TrackPending, Pending, InHand
<1>4. ChanPending'
    BY <1>1 DEF RequestAdded, RpcInv, Places, ChanPending
<1>5. BusyPending'
    BY <1>1 DEF RequestAdded, RpcInv, Places, BusyPending
<1>6. EarlyUnanswered'
    BY <1>1 DEF RequestAdded, RpcInv, Places, EarlyUnanswered
<1>7. WsOnly'
    BY <1>1 DEF RequestAdded, RpcInv, WsOnly, WebSocket
<1>8. Tracked'
  <2> SUFFICES ASSUME WebSocket, NEW s \in Ids, Waits(s)' PROVE Held(s)' \/ s \in dropped
      BY DEF Tracked, WebSocket
  <2>1. CASE s = r
      BY <2>1 DEF RequestAdded, Waits, Held
  <2>2. CASE s # r
    <3>1. Waits(s)
        BY <2>2 DEF RequestAdded, Waits
    <3>2. Held(s) \/ s \in dropped
        BY <3>1 DEF RpcInv, Tracked
    <3> QED
        BY <3>2 DEF RequestAdded, Held
  <2> QED
      BY <2>1, <2>2
<1> QED
    BY <1>2, <1>3, <1>4, <1>5, <1>6, <1>7, <1>8

\* the handlers of connection n are started
Started(n) ==
    /\ hin' \in InType /\ hout' \in OutType /\ wire' \in WireType
    /\ hin'[n].pc \in {"stop", "read"} /\ hin'[n].rc = n /\ hout'[n].pc = "select"
    /\ \A j \in Conns \ {n} : hin'[j] = hin[j] /\ hout'[j] = hout[j] /\ wire'[j] = wire[j]
    /\ wire'[n].down = <<>> /\ ~ wire'[n].registered
    /\ hin[n].pc = "done"

LEMMA StartHandlersOK ==
    ASSUME RpcInv, NEW n \in Conns, n > ws.conn, StartHandlers(n)
    PROVE  Started(n)
<1>1. /\ hin \in InType /\ hout \in OutType /\ wire \in WireType /\ ws.conn \in 0..MaxConns
      /\ Conns = 1..MaxConns /\ MaxConns \in Nat
    BY Facts
<1>2. wire[n] = DeadWire /\ hin[n].pc = "done"
    BY <1>1 DEF RpcInv, Connected
<1> DEFINE h == [pc |-> IF shutdown THEN "stop" ELSE "read", rc |-> n, msg |-> None,
                 err |-> FALSE]
           o == [pc |-> "select", ch |-> n, msg |-> None]
           w == [wire[n] EXCEPT !.alive = TRUE]
<1>3. h \in InRec /\ h.pc \in {"stop", "read"} /\ h.rc = n
    BY DEF InRec
<1>4. o \in OutRec /\ o.pc = "select"
    BY DEF OutRec
<1>5. w \in WireRec /\ w.down = <<>> /\ ~ w.registered
  <2>1. wire[n] \in WireRec
      BY <1>1 DEF WireType
  <2>2. wire[n].down = <<>> /\ ~ wire[n].registered
      BY <1>2 DEF DeadWire
  <2> QED
      BY <2>1, <2>2 DEF WireRec
<1>6. hin' = [hin EXCEPT ![n] = h] /\ hout' = [hout EXCEPT ![n] = o] /\ wire' = [wire EXCEPT ![n] = w]
    BY DEF StartHandlers
<1> HIDE DEF h, o, w
<1>7. hin' \in InType /\ hin'[n] = h /\ \A j \in Conns \ {n} : hin'[j] = hin[j]
    BY <1>1, <1>3, <1>6, SetHandler DEF InType
<1>8. hout' \in OutType /\ hout'[n] = o /\ \A j \in Conns \ {n} : hout'[j] = hout[j]
    BY <1>1, <1>4, <1>6, SetHandler DEF OutType
<1>9. wire' \in WireType /\ wire'[n] = w /\ \A j \in Conns \ {n} : wire'[j] = wire[j]
    BY <1>1, <1>5, <1>6, SetHandler DEF WireType
<1> QED
    BY <1>2, <1>3, <1>4, <1>5, <1>7, <1>8, <1>9 DEF Started

LEMMA StartedOK ==
    ASSUME RpcInv, NEW n \in Conns, n > ws.conn, Started(n), ws' \in WsType, ws'.conn = n,
           UNCHANGED <<mode, req, resp, list, ntfn, dropped>>
    PROVE  InHand' /\ TrackPending' /\ Tracked' /\ Connected' /\ Replies'
<1>1. /\ hin \in InType /\ ws.conn \in 0..MaxConns /\ Conns = 1..MaxConns /\ MaxConns \in Nat
      /\ \A j \in Conns : hin[j].rc \in Conns
    BY Facts
<1>2. InHand'
    BY DEF Started, RpcInv, InHand
<1>3. TrackPending'
    BY DEF Started, RpcInv, Places, TrackPending, Pending
<1>4. Tracked'
  <2>1. \A r \in Ids : Held(r) => Held(r)'
      BY DEF Started, Held
  <2> QED
      BY <2>1 DEF RpcInv, Tracked, Waits, WebSocket
<1>5. Connected'
    BY <1>1 DEF Started, RpcInv, Connected
<1>6. Replies'
  <2>1. \A m \in Conns : \A q \in ToSet(wire'[m].down) : Vouched(wire'[m], q.id, q.err)
      BY EmptySet DEF Started, RpcInv, Replies
  <2>2. \A j \in Conns : hin'[j].pc \in {"remove", "track"} => j # n /\ hin[j] = hin'[j] /\ hin[j].rc # n
      BY <1>1 DEF Started, RpcInv, Connected
  <2> QED
      BY <1>1, <2>1, <2>2 DEF Started, RpcInv, Replies
<1> QED
    BY <1>2, <1>3, <1>4, <1>5, <1>6

-----------------------------------------------------------------------------
(* wsOutHandler, and a connection that breaks. *)

LEMMA OutTakeOK ==
    ASSUME RpcInv, NEW k \in Conns, OutTake(k)
    PROVE  RpcInv'
<1>1. UNCHANGED <<mode, shutdown, req, resp, list, ntfn, wire, hin, rec, rs, post, dropped, drained, overtaken, refused>>
    BY DEF OutTake
<1>2. /\ ListPending' /\ TrackPending' /\ ChanPending' /\ BusyPending' /\ EarlyUnanswered' /\ WsOnly'
      /\ Tracked' /\ Replies'
    BY <1>1 DEF RpcInv, Places, ListPending, Pending, TrackPending, ChanPending, BusyPending,
       EarlyUnanswered, WsOnly, WebSocket, Tracked, Waits, Held, Replies
<1>3. /\ Conns = 1..MaxConns /\ MaxConns \in Nat \ {0} /\ ws.conn \in 0..MaxConns
      /\ resp \in [Ids -> 0..1] /\ ToSet(list) \subseteq Ids /\ ToSet(post.chan) \subseteq Ids
      /\ \A j \in Conns : hin[j].rc \in Conns
    BY Facts
<1>4. /\ hout' \in OutType /\ hout'[k].pc = "write" /\ hout'[k].msg \in Ids
      /\ \A j \in Conns \ {k} : hout'[j] = hout[j]
      /\ ws' \in WsType /\ ws'.conn = ws.conn /\ ws'.failing = ws.failing /\ ws'.disconnected = ws.disconnected
      /\ hout[k].pc # "done"
  <2>1. Head(ws.sendChan) \in Ids /\ Tail(ws.sendChan) \in Seq(Ids)
      BY Facts, TailSet DEF OutTake
  <2> QED
      BY <2>1, Facts DEF OutTake, OutType, OutRec, WsType
<1>5. Typed'
    BY <1>1, <1>3, <1>4 DEF RpcInv, Typed
<1>6. InHand'
    BY <1>1, <1>3, <1>4 DEF RpcInv, Places, InHand
<1>7. PostOnly'
    BY <1>1, <1>3, <1>4 DEF RpcInv, Places, PostOnly, WebSocket
<1>8. Fresh'
    BY <1>1, <1>3, <1>4 DEF RpcInv, Places, Fresh
<1>9. Connected'
    BY <1>1, <1>3, <1>4 DEF RpcInv, Places, Connected
<1>10. Registered'
    BY <1>1, <1>3, <1>4 DEF RpcInv, Places, Registered, Unheard
<1> QED
    BY <1>2, <1>5, <1>6, <1>7, <1>8, <1>9, <1>10 DEF RpcInv, Places


LEMMA OutWriteOK ==
    ASSUME RpcInv, NEW k \in Conns, OutWrite(k)
    PROVE  RpcInv'
<1>1. UNCHANGED <<mode, shutdown, req, resp, list, ntfn, ws, hin, rec, rs, post, dropped, drained, overtaken, refused>>
    BY DEF OutWrite
<1>2. /\ ListPending' /\ TrackPending' /\ ChanPending' /\ BusyPending' /\ EarlyUnanswered' /\ WsOnly'
      /\ Fresh' /\ Tracked'
    BY <1>1 DEF RpcInv, Places, ListPending, Pending, TrackPending, ChanPending, BusyPending,
       EarlyUnanswered, WsOnly, WebSocket, Fresh, Tracked, Waits, Held
<1>3. /\ Conns = 1..MaxConns /\ MaxConns \in Nat \ {0} /\ ws.conn \in 0..MaxConns
      /\ resp \in [Ids -> 0..1] /\ ToSet(list) \subseteq Ids /\ ToSet(post.chan) \subseteq Ids
      /\ \A j \in Conns : hin[j].rc \in Conns
    BY Facts
<1>4. /\ hout' \in OutType /\ hout'[k].pc = "select" /\ hout[k].pc # "done"
      /\ \A j \in Conns \ {k} : hout'[j] = hout[j]
      /\ ws.conn \in Conns /\ wire' \in WireType
      /\ wire'[ws.conn].alive = wire[ws.conn].alive
      /\ wire'[ws.conn].down \in Seq(ReplyRec)
      /\ \A m \in ToSet(wire'[ws.conn].down) : m \in ToSet(wire[ws.conn].down) \/ Vouched(wire'[ws.conn], m.id, m.err)
      /\ wire[ws.conn].registered => wire'[ws.conn].registered
      /\ wire[ws.conn].refused => wire'[ws.conn].refused
      /\ \A n \in Conns \ {ws.conn} : wire'[n] = wire[n]
      /\ hout[k].msg \in Ids
  <2>1. ws.conn \in Conns /\ hout[k].msg \in Ids
      BY <1>3 DEF OutWrite, RpcInv, Connected, InHand
  <2>2. PICK ok \in BOOLEAN :
            /\ MethodOf(hout[k].msg) = "notify" \/ ok
            /\ wire' = [wire EXCEPT ![ws.conn] = Served(wire[ws.conn], hout[k].msg, ok)]
      BY DEF OutWrite
  <2> DEFINE m0 == [id |-> hout[k].msg, err |-> ~ ok]
             w == Served(wire[ws.conn], hout[k].msg, ok)
  <2>3. wire \in WireType /\ wire[ws.conn] \in WireRec /\ wire[ws.conn].down \in Seq(ReplyRec) /\ m0 \in ReplyRec
      BY <2>1, Facts DEF WireType, WireRec, ReplyRec
  <2>4. hout' \in OutType /\ hout'[k].pc = "select" /\ hout[k].pc # "done"
        /\ \A j \in Conns \ {k} : hout'[j] = hout[j]
    <3> DEFINE x == [hout[k] EXCEPT !.pc = "select", !.ch = ws.conn, !.msg = None]
    <3>1. hout \in OutType /\ hout[k] \in OutRec /\ hout[k].pc = "write"
        BY Facts DEF OutWrite, OutType
    <3>2. x \in OutRec /\ x.pc = "select"
        BY <2>1, <3>1 DEF OutRec
    <3>3. hout' = [hout EXCEPT ![k] = x]
        BY DEF OutWrite
    <3> HIDE DEF x
    <3> QED
        BY <3>1, <3>2, <3>3 DEF OutType
  <2>5. /\ Append(wire[ws.conn].down, m0) \in Seq(ReplyRec)
        /\ ToSet(Append(wire[ws.conn].down, m0)) = ToSet(wire[ws.conn].down) \cup {m0}
      BY <2>3, AppendSet
  <2>6. /\ w \in WireRec /\ w.alive = wire[ws.conn].alive /\ w.down = Append(wire[ws.conn].down, m0)
        /\ w.registered = (wire[ws.conn].registered \/ (MethodOf(hout[k].msg) = "notify" /\ ok))
        /\ w.refused = (wire[ws.conn].refused \/ (hout[k].msg \in Reqs /\ ~ ok))
    <3> HIDE DEF m0
    <3>1. w = [wire[ws.conn] EXCEPT !.down = Append(wire[ws.conn].down, m0),
                  !.registered = wire[ws.conn].registered \/ (MethodOf(hout[k].msg) = "notify" /\ ok),
                  !.refused = wire[ws.conn].refused \/ (hout[k].msg \in Reqs /\ ~ ok)]
        BY DEF Served, m0
    <3> QED
        BY <2>3, <2>5, <3>1 DEF WireRec
  <2>7. Vouched(w, m0.id, m0.err)
      BY <2>6 DEF Vouched
  <2> HIDE DEF w, m0
  <2>8. wire' \in WireType /\ wire'[ws.conn] = w /\ \A n \in Conns \ {ws.conn} : wire'[n] = wire[n]
      BY <2>1, <2>2, <2>3, <2>6 DEF WireType, w
  <2>9. \A m \in ToSet(w.down) : m \in ToSet(wire[ws.conn].down) \/ Vouched(w, m.id, m.err)
      BY <2>5, <2>6, <2>7
  <2>10. w.down \in Seq(ReplyRec)
      BY <2>5, <2>6
  <2> QED
      BY <2>1, <2>4, <2>6, <2>8, <2>9, <2>10
<1>5. Typed'
    BY <1>1, <1>3, <1>4 DEF RpcInv, Typed
<1>6. InHand'
    BY <1>1, <1>3, <1>4 DEF RpcInv, Places, InHand
<1>7. PostOnly'
    BY <1>1, <1>3, <1>4 DEF RpcInv, Places, PostOnly, WebSocket
<1>8. Connected'
  <2>1. /\ \A n \in Conns : n > ws.conn => wire[n] = DeadWire
        /\ \A j \in Conns : hin[j].pc # "done" => j <= ws.conn /\ hin[j].rc <= ws.conn
        /\ \A j \in Conns : hout[j].pc # "done" => ws.conn > 0
        /\ ws.conn = 0 => rec = "done" /\ ~ ntfn
      BY DEF RpcInv, Connected
  <2>2. \A n \in Conns : n > ws.conn => wire'[n] = DeadWire
      BY <1>3, <1>4, <2>1
  <2>3. ws.conn > 0
      BY <1>3, <1>4
  <2> QED
      BY <1>1, <2>1, <2>2, <2>3 DEF Connected
<1>9. Replies'
  <2>1. \A r, e : Vouched(wire[ws.conn], r, e) => Vouched(wire'[ws.conn], r, e)
      BY <1>4 DEF Vouched
  <2>2. \A n \in Conns : \A m \in ToSet(wire'[n].down) : Vouched(wire'[n], m.id, m.err)
      BY <1>4, <2>1 DEF RpcInv, Replies
  <2>3. \A n \in Conns : /\ wire'[n].alive => wire[n].alive
                          /\ \A r, e : Vouched(wire[n], r, e) => Vouched(wire'[n], r, e)
      BY <1>4, <2>1
  <2> QED
      BY <1>1, <1>3, <2>2, <2>3 DEF RpcInv, Replies
<1>10. Registered'
    BY <1>1, <1>3, <1>4 DEF RpcInv, Places, Registered, Unheard
<1> QED
    BY <1>2, <1>5, <1>6, <1>7, <1>8, <1>9, <1>10 DEF RpcInv, Places


LEMMA OutWriteFailsOK ==
    ASSUME RpcInv, NEW k \in Conns, OutWriteFails(k)
    PROVE  RpcInv'
<1>1. UNCHANGED <<mode, shutdown, req, resp, list, ntfn, hin, rec, rs, post, dropped, drained, overtaken, refused>>
    BY DEF OutWriteFails, Disconnect
<1>2. /\ ListPending' /\ TrackPending' /\ ChanPending' /\ BusyPending' /\ EarlyUnanswered' /\ WsOnly'
      /\ Tracked'
    BY <1>1 DEF RpcInv, Places, ListPending, Pending, TrackPending, ChanPending, BusyPending,
       EarlyUnanswered, WsOnly, WebSocket, Tracked, Waits, Held
<1>3. /\ Conns = 1..MaxConns /\ MaxConns \in Nat \ {0} /\ ws.conn \in 0..MaxConns
      /\ resp \in [Ids -> 0..1] /\ ToSet(list) \subseteq Ids /\ ToSet(post.chan) \subseteq Ids
      /\ \A j \in Conns : hin[j].rc \in Conns
    BY Facts
<1>4. /\ hout' \in OutType /\ hout'[k].pc = "drain" /\ hout[k].pc # "done"
      /\ \A j \in Conns \ {k} : hout'[j] = hout[j]
  <2>1. hout \in OutType /\ hout[k].pc = "write"
        /\ hout' = [hout EXCEPT ![k] = [hout[k] EXCEPT !.pc = "drain", !.ch = k, !.msg = None]]
      BY Facts DEF OutWriteFails
  <2> DEFINE x == [hout[k] EXCEPT !.pc = "drain", !.ch = k, !.msg = None]
  <2>2. hout[k] \in OutRec
      BY <2>1 DEF OutType
  <2>3. x \in OutRec /\ x.pc = "drain"
      BY <2>2 DEF OutRec
  <2> HIDE DEF x
  <2> QED
      BY <2>1, <2>3, SetHandler DEF x, OutType
<1>5. WebSocket /\ Lost /\ ws'.conn = ws.conn /\ ws' \in WsType /\ wire' \in WireType
      /\ \A m \in Conns : wire'[m] \in {wire[m], DeadWire}
  <2>1. WebSocket
      BY <1>4 DEF RpcInv, PostOnly
  <2>2. Lost
      BY <2>1, DisconnectOK DEF RpcInv, OutWriteFails
  <2> QED
      BY <2>1, <2>2 DEF Lost
<1>6. Replies' /\ Registered'
    BY <1>1, <1>5, LostOK DEF RpcInv
<1>7. Typed'
    BY <1>1, <1>3, <1>4, <1>5 DEF RpcInv, Typed
<1>8. InHand'
    BY <1>1, <1>3, <1>4, <1>5 DEF RpcInv, Places, InHand
<1>9. PostOnly'
    BY <1>1, <1>3, <1>4, <1>5 DEF RpcInv, Places, PostOnly, WebSocket
<1>10. Fresh'
    BY <1>1, <1>3, <1>4, <1>5 DEF RpcInv, Places, Fresh
<1>11. Connected'
    BY <1>1, <1>3, <1>4, <1>5 DEF RpcInv, Places, Connected
<1> QED
    BY <1>2, <1>6, <1>7, <1>8, <1>9, <1>10, <1>11 DEF RpcInv, Places


LEMMA OutQuitOK ==
    ASSUME RpcInv, NEW k \in Conns, OutQuit(k)
    PROVE  RpcInv'
<1>1. UNCHANGED <<mode, shutdown, req, resp, list, ntfn, ws, wire, hin, rec, rs, post, dropped, drained,
                  overtaken, refused>>
    BY DEF OutQuit
<1>2. /\ ListPending' /\ TrackPending' /\ ChanPending' /\ BusyPending' /\ EarlyUnanswered' /\ WsOnly'
      /\ Fresh' /\ Tracked' /\ Replies' /\ Registered'
    BY <1>1 DEF RpcInv, Places, ListPending, Pending, TrackPending, ChanPending, BusyPending,
       EarlyUnanswered, WsOnly, WebSocket, Fresh, Tracked, Waits, Held, Replies, Registered, Unheard
<1>3. /\ Conns = 1..MaxConns /\ MaxConns \in Nat \ {0} /\ ws.conn \in 0..MaxConns
      /\ resp \in [Ids -> 0..1] /\ ToSet(list) \subseteq Ids /\ ToSet(post.chan) \subseteq Ids
      /\ \A j \in Conns : hin[j].rc \in Conns
    BY Facts
<1>4. /\ hout' \in OutType /\ hout'[k].pc = "drain" /\ hout[k].pc # "done"
      /\ \A j \in Conns \ {k} : hout'[j] = hout[j]
    BY Facts DEF OutQuit, OutType, OutRec
<1>5. Typed'
    BY <1>1, <1>3, <1>4 DEF RpcInv, Typed
<1>6. InHand'
    BY <1>1, <1>3, <1>4 DEF RpcInv, Places, InHand
<1>7. PostOnly'
    BY <1>1, <1>3, <1>4 DEF RpcInv, Places, PostOnly, WebSocket
<1>8. Connected'
    BY <1>1, <1>3, <1>4 DEF RpcInv, Places, Connected
<1> QED
    BY <1>2, <1>5, <1>6, <1>7, <1>8 DEF RpcInv, Places


LEMMA OutDrainOK ==
    ASSUME RpcInv, NEW k \in Conns, OutDrain(k)
    PROVE  RpcInv'
<1>1. UNCHANGED <<mode, shutdown, req, resp, list, ntfn, wire, hin, rec, rs, post, dropped, overtaken, refused>>
    BY DEF OutDrain
<1>2. /\ ListPending' /\ TrackPending' /\ ChanPending' /\ BusyPending' /\ EarlyUnanswered' /\ WsOnly'
      /\ Tracked' /\ Replies'
    BY <1>1 DEF RpcInv, Places, ListPending, Pending, TrackPending, ChanPending, BusyPending,
       EarlyUnanswered, WsOnly, WebSocket, Tracked, Waits, Held, Replies
<1>3. /\ Conns = 1..MaxConns /\ MaxConns \in Nat \ {0} /\ ws.conn \in 0..MaxConns
      /\ resp \in [Ids -> 0..1] /\ ToSet(list) \subseteq Ids /\ ToSet(post.chan) \subseteq Ids
      /\ \A j \in Conns : hin[j].rc \in Conns
    BY Facts
<1>4. /\ hout' \in OutType /\ hout'[k].pc \in {"drain", "done"} /\ hout[k].pc # "done"
      /\ \A j \in Conns \ {k} : hout'[j] = hout[j]
      /\ ws' \in WsType /\ ws'.conn = ws.conn /\ ws'.failing = ws.failing /\ ws'.disconnected = ws.disconnected
  <2>1. ws.sendChan # <<>> => Tail(ws.sendChan) \in Seq(Ids)
      BY Facts, TailSet
  <2>2. ws \in WsType /\ hout \in OutType
      BY Facts
  <2>3. CASE ws.sendChan = <<>>
      BY <2>2, <2>3 DEF OutDrain, OutType, OutRec
  <2>4. CASE ws.sendChan # <<>>
      BY <2>1, <2>2, <2>4 DEF OutDrain, OutType, OutRec, WsType
  <2> QED
      BY <2>3, <2>4
<1>5. Typed'
    BY <1>1, <1>3, <1>4 DEF RpcInv, Typed
<1>6. InHand'
    BY <1>1, <1>3, <1>4 DEF RpcInv, Places, InHand
<1>7. PostOnly'
    BY <1>1, <1>3, <1>4 DEF RpcInv, Places, PostOnly, WebSocket
<1>8. Fresh'
    BY <1>1, <1>3, <1>4 DEF RpcInv, Places, Fresh
<1>9. Connected'
    BY <1>1, <1>3, <1>4 DEF RpcInv, Places, Connected
<1>10. Registered'
    BY <1>1, <1>3, <1>4 DEF RpcInv, Places, Registered, Unheard
<1> QED
    BY <1>2, <1>5, <1>6, <1>7, <1>8, <1>9, <1>10 DEF RpcInv, Places


LEMMA BreakOK ==
    ASSUME RpcInv, NEW n \in Conns, Break(n)
    PROVE  RpcInv'
<1>1. UNCHANGED <<mode, shutdown, req, resp, list, ntfn, ws, hin, hout, rec, rs, post, dropped, drained,
                  overtaken, refused>>
    BY DEF Break
<1>2. /\ InHand' /\ ListPending' /\ TrackPending' /\ ChanPending' /\ BusyPending' /\ EarlyUnanswered'
      /\ WsOnly' /\ PostOnly' /\ Fresh' /\ Tracked'
    BY <1>1 DEF RpcInv, Places, InHand, ListPending, Pending, TrackPending, ChanPending, BusyPending,
       EarlyUnanswered, WsOnly, WebSocket, PostOnly, Fresh, Tracked, Waits, Held
<1>3. Lost
  <2>1. wire' \in WireType /\ \A m \in Conns : wire'[m] \in {wire[m], DeadWire}
    <3>1. n \in 0..MaxConns
        BY RpcAssumption DEF Conns
    <3> QED
        BY <3>1, HangUpOK DEF RpcInv, Break
  <2> QED
      BY <1>1, <2>1, Facts DEF Lost
<1>4. Connected' /\ Replies' /\ Registered'
    BY <1>1, <1>3, LostOK DEF RpcInv
<1>5. Typed'
    BY <1>1, <1>3 DEF RpcInv, Typed, Lost
<1> QED
    BY <1>2, <1>4, <1>5 DEF RpcInv, Places


-----------------------------------------------------------------------------
(* wsInHandler. *)

LEMMA InReadOK ==
    ASSUME RpcInv, NEW k \in Conns, InRead(k)
    PROVE  RpcInv'
<1>1. UNCHANGED <<mode, shutdown, req, resp, list, ntfn, ws, hout, rec, rs, post, dropped, drained, overtaken, refused>>
    BY DEF InRead
<1>2. ListPending' /\ ChanPending' /\ BusyPending' /\ EarlyUnanswered' /\ WsOnly' /\ Fresh'
    BY <1>1 DEF RpcInv, Places, ListPending, Pending, ChanPending, BusyPending, EarlyUnanswered, WsOnly,
       WebSocket, Fresh
<1>3. /\ Conns = 1..MaxConns /\ MaxConns \in Nat \ {0} /\ ws.conn \in 0..MaxConns
      /\ resp \in [Ids -> 0..1] /\ ToSet(list) \subseteq Ids /\ ToSet(post.chan) \subseteq Ids
      /\ \A j \in Conns : hin[j].rc \in Conns
    BY Facts
<1>4. /\ hin' \in InType /\ hin[k].pc = "read" /\ hin'[k].pc = "remove" /\ hin'[k].rc = hin[k].rc
      /\ hin'[k].msg \in Ids
      /\ \E m \in ToSet(wire[hin[k].rc].down) : hin'[k].msg = m.id /\ hin'[k].err = m.err
      /\ \A j \in Conns \ {k} : hin'[j] = hin[j]
      /\ wire' \in WireType
      /\ \A n \in Conns : /\ wire'[n].alive = wire[n].alive /\ wire'[n].registered = wire[n].registered
                          /\ wire'[n].refused = wire[n].refused
                          /\ ToSet(wire'[n].down) \subseteq ToSet(wire[n].down)
                          /\ n # hin[k].rc => wire'[n] = wire[n]
  <2> DEFINE n == hin[k].rc
  <2>1. n \in Conns /\ wire[n].down \in Seq(ReplyRec) /\ wire[n].down # <<>>
      BY Facts DEF WireType, WireRec, InRead
  <2>2. /\ Head(wire[n].down) \in ReplyRec /\ Head(wire[n].down) \in ToSet(wire[n].down)
        /\ Tail(wire[n].down) \in Seq(ReplyRec) /\ ToSet(Tail(wire[n].down)) \subseteq ToSet(wire[n].down)
      BY <2>1, TailSet
  <2>3. /\ hin \in InType /\ wire \in WireType /\ hin[k].pc = "read"
        /\ hin' = [hin EXCEPT ![k] = [hin[k] EXCEPT !.pc = "remove", !.msg = Head(wire[n].down).id,
                                                  !.err = Head(wire[n].down).err]]
        /\ wire' = [wire EXCEPT ![n].down = Tail(wire[n].down)]
      BY Facts DEF InRead
  <2> HIDE DEF n
  <2>4. /\ hin' \in InType /\ hin'[k].pc = "remove" /\ hin'[k].rc = hin[k].rc
        /\ hin'[k].msg = Head(wire[n].down).id /\ hin'[k].err = Head(wire[n].down).err
        /\ hin'[k].msg \in Ids /\ \A j \in Conns \ {k} : hin'[j] = hin[j]
    <3> DEFINE x == [hin[k] EXCEPT !.pc = "remove", !.msg = Head(wire[n].down).id,
                                   !.err = Head(wire[n].down).err]
    <3>2. hin[k] \in InRec
        BY <2>3 DEF InType
    <3>1. /\ x \in InRec /\ x.pc = "remove" /\ x.rc = hin[k].rc /\ x.msg = Head(wire[n].down).id
          /\ x.err = Head(wire[n].down).err /\ x.msg \in Ids
        BY <2>2, <3>2 DEF InRec, ReplyRec
    <3> HIDE DEF x
    <3> QED
        BY <2>3, <3>1, SetHandler DEF x, InType
  <2>5. /\ wire' \in WireType /\ wire'[n].alive = wire[n].alive /\ wire'[n].registered = wire[n].registered
        /\ wire'[n].down = Tail(wire[n].down) /\ \A m \in Conns \ {n} : wire'[m] = wire[m]
        /\ wire'[n].refused = wire[n].refused
      BY <2>1, <2>2, <2>3 DEF WireType, WireRec
  <2> QED
      BY <2>2, <2>3, <2>4, <2>5 DEF n
<1>5. Typed'
    BY <1>1, <1>3, <1>4 DEF RpcInv, Typed
<1>6. InHand'
    BY <1>1, <1>3, <1>4 DEF RpcInv, Places, InHand
<1>7. TrackPending'
    BY <1>1, <1>3, <1>4 DEF RpcInv, Places, TrackPending, Pending
<1>8. PostOnly'
    BY <1>1, <1>3, <1>4 DEF RpcInv, Places, PostOnly, WebSocket
<1>9. Tracked'
    BY <1>1, <1>3, <1>4 DEF RpcInv, Places, Tracked, WebSocket, Waits, Held
<1>10. Connected'
  <2>1. wire[hin[k].rc].alive /\ hin[k].rc <= ws.conn
      BY <1>3, <1>4 DEF InRead, RpcInv, Connected
  <2>2. /\ \A n \in Conns : n > ws.conn => wire[n] = DeadWire
        /\ \A j \in Conns : hin[j].pc # "done" => j <= ws.conn /\ hin[j].rc <= ws.conn
        /\ \A j \in Conns : hout[j].pc # "done" => ws.conn > 0
        /\ ws.conn = 0 => rec = "done" /\ ~ ntfn
      BY DEF RpcInv, Connected
  <2>3. \A n \in Conns : n > ws.conn => wire'[n] = DeadWire
    <3>1. \A n \in Conns : n > ws.conn => n # hin[k].rc
        BY <1>3, <2>1
    <3> QED
        BY <1>4, <2>2, <3>1
  <2>4. \A j \in Conns : hin'[j].pc # "done" => j <= ws.conn /\ hin'[j].rc <= ws.conn
      BY <1>4, <2>2
  <2> QED
      BY <1>1, <2>2, <2>3, <2>4 DEF Connected
<1>11. Replies'
  <2>1. \A n \in Conns : \A m \in ToSet(wire'[n].down) : Vouched(wire'[n], m.id, m.err)
      BY <1>4 DEF RpcInv, Replies, Vouched
  <2>2. Vouched(wire'[hin[k].rc], hin'[k].msg, hin'[k].err)
      BY <1>3, <1>4 DEF RpcInv, Replies, Vouched
  <2> QED
      BY <1>1, <1>3, <1>4, <2>1, <2>2 DEF RpcInv, Replies, Vouched
<1>12. Registered'
    BY <1>1, <1>3, <1>4 DEF RpcInv, Places, Registered, Unheard
<1> QED
    BY <1>2, <1>5, <1>6, <1>7, <1>8, <1>9, <1>10, <1>11, <1>12 DEF RpcInv, Places


LEMMA InRemoveOK ==
    ASSUME RpcInv, NEW k \in Conns, InRemove(k)
    PROVE  RpcInv'
<1>1. UNCHANGED <<mode, shutdown, req, resp, ntfn, ws, wire, hout, rec, rs, post, dropped, drained, overtaken, refused>>
    BY DEF InRemove
<1>2. EarlyUnanswered' /\ WsOnly' /\ Fresh' /\ Registered'
    BY <1>1 DEF RpcInv, Places, EarlyUnanswered, WsOnly, WebSocket, Fresh, Registered, Unheard
<1>3. /\ Conns = 1..MaxConns /\ MaxConns \in Nat \ {0} /\ ws.conn \in 0..MaxConns
      /\ resp \in [Ids -> 0..1] /\ ToSet(list) \subseteq Ids /\ ToSet(post.chan) \subseteq Ids
      /\ \A j \in Conns : hin[j].rc \in Conns
    BY Facts
<1>4. /\ hin' \in InType /\ hin[k].pc = "remove" /\ hin[k].msg \in Ids
      /\ \A j \in Conns \ {k} : hin'[j] = hin[j]
      /\ \/ hin[k].msg \in ToSet(list) /\ hin'[k].pc = "track" /\ hin'[k].msg = hin[k].msg /\ hin'[k].rc = hin[k].rc
            /\ hin'[k].err = hin[k].err
         \/ hin[k].msg \notin ToSet(list) /\ hin'[k].pc \in {"stop", "read"} /\ hin'[k].rc = ws.conn
      /\ list' \in Seq(Ids) /\ ToSet(list') = ToSet(list) \ {hin[k].msg} /\ IsInjective(list')
      /\ WebSocket
  <2>1. /\ hin[k].pc = "remove" /\ hin[k].msg \in Ids /\ ws.conn \in Conns
        /\ hin' = [hin EXCEPT ![k] = IF hin[k].msg \in ToSet(list)
                                     THEN [hin[k] EXCEPT !.pc = "track"] ELSE InNext]
      BY <1>3 DEF InRemove, RpcInv, InHand, Connected
  <2>2. hin \in InType /\ list \in Seq(Ids) /\ IsInjective(list)
      BY Facts DEF RpcInv, Typed
  <2>3. InNext \in InRec /\ InNext.pc \in {"stop", "read"} /\ InNext.rc = ws.conn
      BY <2>1, <2>2, InNextOK DEF InType, InRec
  <2>4. /\ hin' \in InType /\ \A j \in Conns \ {k} : hin'[j] = hin[j]
        /\ \/ hin[k].msg \in ToSet(list) /\ hin'[k].pc = "track" /\ hin'[k].msg = hin[k].msg /\ hin'[k].rc = hin[k].rc
            /\ hin'[k].err = hin[k].err
           \/ hin[k].msg \notin ToSet(list) /\ hin'[k].pc \in {"stop", "read"} /\ hin'[k].rc = ws.conn
      BY <2>1, <2>2, <2>3 DEF InType, InRec
  <2>5. list' \in Seq(Ids) /\ ToSet(list') = ToSet(list) \ {hin[k].msg} /\ IsInjective(list')
      BY <2>2, WithoutOK DEF InRemove
  <2> QED
      BY <2>1, <2>4, <2>5 DEF RpcInv, PostOnly
<1>5. Typed'
    BY <1>1, <1>3, <1>4 DEF RpcInv, Typed
<1>6. InHand'
    BY <1>1, <1>3, <1>4 DEF RpcInv, Places, InHand
<1>7. ListPending'
    BY <1>1, <1>3, <1>4 DEF RpcInv, Places, ListPending, Pending
<1>8. TrackPending'
  <2>1. ASSUME NEW j \in Conns \ {k}, hin[j].pc = "track"
        PROVE  Pending(hin[j].msg) /\ hin[j].msg \notin ToSet(list)
      BY <2>1 DEF RpcInv, Places, TrackPending
  <2>2. ASSUME hin'[k].pc = "track"
        PROVE  hin'[k].msg = hin[k].msg /\ Pending(hin[k].msg) /\ hin[k].msg \in ToSet(list)
      BY <1>4, <2>2 DEF RpcInv, Places, ListPending
  <2>4. \A j \in Conns : hin'[j].pc = "track" => Pending(hin'[j].msg) /\ hin'[j].msg \notin ToSet(list')
      BY <1>4, <2>1, <2>2
  <2>5. \A i \in Conns : \A j \in Conns \ {i} :
            hin'[i].pc = "track" /\ hin'[j].pc = "track" => hin'[j].msg # hin'[i].msg
      BY <1>4, <2>1, <2>2 DEF RpcInv, Places, TrackPending
  <2> QED
      BY <1>1, <2>4, <2>5 DEF TrackPending, Pending
<1>9. ChanPending'
    BY <1>1, <1>3, <1>4 DEF RpcInv, Places, ChanPending
<1>10. BusyPending'
    BY <1>1, <1>3, <1>4 DEF RpcInv, Places, BusyPending
<1>11. PostOnly'
    BY <1>1, <1>3, <1>4 DEF RpcInv, Places, PostOnly, WebSocket
<1>12. Tracked'
    BY <1>1, <1>3, <1>4 DEF RpcInv, Places, Tracked, WebSocket, Waits, Held
<1>13. Connected'
    BY <1>1, <1>3, <1>4 DEF RpcInv, Places, Connected
<1>14. Replies'
    BY <1>1, <1>3, <1>4 DEF RpcInv, Places, Replies
<1> QED
    BY <1>2, <1>5, <1>6, <1>7, <1>8, <1>9, <1>10, <1>11, <1>12, <1>13, <1>14 DEF RpcInv, Places


LEMMA InDeliverOK ==
    ASSUME RpcInv, Asked, NEW k \in Conns, InDeliver(k)
    PROVE  RpcInv'
<1>1. UNCHANGED <<mode, shutdown, req, list, ws, wire, hout, rec, rs, post, dropped, drained>>
    BY DEF InDeliver
<1>2. WsOnly' /\ Fresh'
    BY <1>1 DEF RpcInv, Places, WsOnly, WebSocket, Fresh
<1>3. /\ Conns = 1..MaxConns /\ MaxConns \in Nat \ {0} /\ ws.conn \in 0..MaxConns
      /\ resp \in [Ids -> 0..1] /\ ToSet(list) \subseteq Ids /\ ToSet(post.chan) \subseteq Ids
      /\ \A j \in Conns : hin[j].rc \in Conns
    BY Facts
<1>4. /\ hin' \in InType /\ hin[k].pc = "track" /\ hin[k].msg \in Ids /\ WebSocket
      /\ \A j \in Conns \ {k} : hin'[j] = hin[j]
      /\ hin'[k].pc \in {"stop", "read"} /\ hin'[k].rc = ws.conn
      /\ resp' \in [Ids -> 0..1] /\ \A r \in Ids : resp'[r] = IF r = hin[k].msg THEN 1 ELSE resp[r]
      /\ ntfn' = (ntfn \/ MethodOf(hin[k].msg) = "notify") /\ ntfn' \in BOOLEAN
      /\ overtaken' = (overtaken \/ (MethodOf(hin[k].msg) = "notify" /\ hin[k].rc # ws.conn))
      /\ ws.conn > 0 /\ ws.conn \in Conns
  <2>1. /\ hin[k].pc = "track" /\ hin[k].msg \in Ids /\ ws.conn \in Conns /\ ws.conn > 0 /\ resp[hin[k].msg] = 0
        /\ hin' = [hin EXCEPT ![k] = InNext] /\ WebSocket
      BY <1>3 DEF InDeliver, RpcInv, InHand, Connected, Places, TrackPending, Pending, PostOnly
  <2>2. hin \in InType
      BY Facts
  <2>3. InNext \in InRec /\ InNext.pc \in {"stop", "read"} /\ InNext.rc = ws.conn
      BY <2>1, <2>2, InNextOK DEF InType, InRec
  <2>4. /\ hin' \in InType /\ \A j \in Conns \ {k} : hin'[j] = hin[j]
        /\ hin'[k].pc \in {"stop", "read"} /\ hin'[k].rc = ws.conn
      BY <2>1, <2>2, <2>3 DEF InType, InRec
  <2>5. Respond({hin[k].msg}) \in [Ids -> 0..1]
        /\ \A r \in Ids : Respond({hin[k].msg})[r] = IF r \in {hin[k].msg} THEN 1 ELSE resp[r]
      BY <2>1, RespondOK DEF RpcInv
  <2> QED
      BY <2>1, <2>4, <2>5 DEF InDeliver
<1>5. Typed'
    BY <1>1, <1>3, <1>4 DEF RpcInv, Typed
<1>6. InHand'
    BY <1>1, <1>3, <1>4 DEF RpcInv, Places, InHand
<1>7. ListPending'
  <2>1. hin[k].msg \notin ToSet(list)
      BY <1>4 DEF RpcInv, Places, TrackPending
  <2>2. \A r \in ToSet(list) : r \in Ids /\ r # hin[k].msg /\ resp'[r] = resp[r]
      BY <1>3, <1>4, <2>1
  <2> QED
      BY <1>1, <2>2 DEF RpcInv, Places, ListPending, Pending
<1>8. TrackPending'
  <2>1. \A j \in Conns \ {k} : hin[j].pc = "track" => hin[j].msg \in Ids /\ hin[j].msg # hin[k].msg
                                               /\ resp'[hin[j].msg] = resp[hin[j].msg]
      BY <1>4 DEF RpcInv, InHand, Places, TrackPending
  <2> QED
      BY <1>1, <1>4, <2>1 DEF RpcInv, Places, TrackPending, Pending
<1>9. ChanPending'
    BY <1>1, <1>4, EmptySet DEF RpcInv, Places, ChanPending, WsOnly
<1>10. BusyPending'
    BY <1>1, <1>4 DEF RpcInv, BusyPending, WsOnly
<1>11. EarlyUnanswered'
    BY <1>1, <1>4 DEF RpcInv, Places, EarlyUnanswered, TrackPending, Pending
<1>12. PostOnly'
    BY <1>1, <1>3, <1>4 DEF RpcInv, Places, PostOnly, WebSocket
<1>13. Tracked'
    BY <1>1, <1>3, <1>4 DEF RpcInv, Places, Tracked, WebSocket, Waits, Held
<1>14. Connected'
    BY <1>1, <1>3, <1>4 DEF RpcInv, Places, Connected
<1>15. Replies'
    BY <1>1, <1>3, <1>4 DEF RpcInv, Places, Replies
<1>16. Registered'
  <2> SUFFICES ASSUME ntfn', ~ overtaken', ~ shutdown, ~ ws.disconnected, wire[ws.conn].alive,
                      ~ wire[ws.conn].registered, ~ wire[ws.conn].refused
               PROVE  rs[ws.conn].pc = "register" \/ (rs[ws.conn].pc = "wait" /\ Unheard(ws.conn)')
      BY <1>1 DEF Registered
  <2>1. MethodOf(hin[k].msg) = "notify" => hin[k].err /\ hin[k].msg \in Ids \ Reqs
      BY <1>4 DEF RpcInv, Replies, Vouched
  <2>2. ntfn /\ ~ overtaken
    <3>1. MethodOf(hin[k].msg) = "notify" => ntfn
        BY <1>4, <2>1 DEF RpcInv, Places, TrackPending, Pending, Asked
    <3> QED
        BY <1>4, <3>1
  <2>3. rs[ws.conn].pc = "register" \/ (rs[ws.conn].pc = "wait" /\ Unheard(ws.conn))
      BY <1>4, <2>2 DEF RpcInv, Registered
  <2>4. <<"again", ws.conn>> \in Ids /\ MethodOf(<<"again", ws.conn>>) = "notify"
      BY <1>4, Names
  <2>5. hin[k].msg = <<"again", ws.conn>> => <<"again", ws.conn>> \in refused'
      BY <2>1, <2>4 DEF InDeliver
  <2>6. refused \subseteq refused'
      BY DEF InDeliver
  <2>7. Unheard(ws.conn) => (Unheard(ws.conn))'
    <3>1. Unheard(ws.conn) => resp'[<<"again", ws.conn>>] = 0 \/ <<"again", ws.conn>> \in refused'
        BY <1>4, <2>4, <2>5, <2>6 DEF Unheard
    <3> QED
        BY <1>1, <3>1 DEF Unheard
  <2> QED
      BY <2>3, <2>7
<1> QED
    BY <1>2, <1>5, <1>6, <1>7, <1>8, <1>9, <1>10, <1>11, <1>12, <1>13, <1>14, <1>15, <1>16 DEF RpcInv, Places


LEMMA InStopOK ==
    ASSUME RpcInv, NEW k \in Conns, InStop(k)
    PROVE  RpcInv'
<1>1. UNCHANGED <<mode, shutdown, req, resp, list, ntfn, hout, rec, rs, post, dropped, drained, overtaken, refused>>
    BY DEF InStop, Disconnect
<1>2. ListPending' /\ ChanPending' /\ BusyPending' /\ EarlyUnanswered' /\ WsOnly'
    BY <1>1 DEF RpcInv, Places, ListPending, Pending, ChanPending, BusyPending, EarlyUnanswered, WsOnly,
       WebSocket
<1>3. /\ Conns = 1..MaxConns /\ MaxConns \in Nat \ {0} /\ ws.conn \in 0..MaxConns
      /\ resp \in [Ids -> 0..1] /\ ToSet(list) \subseteq Ids /\ ToSet(post.chan) \subseteq Ids
      /\ \A j \in Conns : hin[j].rc \in Conns
    BY Facts
<1>4. /\ hin' \in InType /\ hin'[k].pc = "done" /\ hin[k].pc # "done"
      /\ \A j \in Conns \ {k} : hin'[j] = hin[j]
  <2>1. hin \in InType /\ hin[k].pc \in {"stop", "read"}
        /\ hin' = [hin EXCEPT ![k].pc = "done", ![k].rc = k]
      BY Facts DEF InStop
  <2> QED
      BY <2>1 DEF InType, InRec
<1>5. WebSocket /\ Lost /\ ws'.conn = ws.conn /\ ws' \in WsType /\ wire' \in WireType
      /\ \A m \in Conns : wire'[m] \in {wire[m], DeadWire}
  <2>1. WebSocket
      BY <1>4 DEF RpcInv, PostOnly
  <2>2. Lost
      BY <2>1, DisconnectOK DEF RpcInv, InStop
  <2> QED
      BY <2>1, <2>2 DEF Lost
<1>6. Typed'
    BY <1>1, <1>3, <1>4, <1>5 DEF RpcInv, Typed
<1>7. InHand'
    BY <1>1, <1>3, <1>4, <1>5 DEF RpcInv, Places, InHand
<1>8. TrackPending'
    BY <1>1, <1>3, <1>4, <1>5 DEF RpcInv, Places, TrackPending, Pending
<1>9. PostOnly'
    BY <1>1, <1>3, <1>4, <1>5 DEF RpcInv, Places, PostOnly, WebSocket
<1>10. Fresh'
    BY <1>1, <1>3, <1>4, <1>5 DEF RpcInv, Places, Fresh
<1>11. Tracked'
  <2>1. hin[k].pc # "track"
      BY DEF InStop
  <2>2. \A r \in Ids : Held(r) => Held(r)'
      BY <1>1, <1>4, <2>1 DEF Held
  <2> QED
      BY <1>1, <2>2 DEF RpcInv, Tracked, Waits, WebSocket
<1>12. Connected'
    BY <1>1, <1>3, <1>4, <1>5 DEF RpcInv, Places, Connected
<1>13. Replies'
  <2>1. \A n \in Conns : wire'[n] = wire[n] \/ (wire'[n].down = <<>> /\ ~ wire'[n].alive)
      BY <1>5 DEF DeadWire
  <2>2. \A n \in Conns : \A m \in ToSet(wire'[n].down) : Vouched(wire'[n], m.id, m.err)
      BY <2>1, EmptySet DEF RpcInv, Replies
  <2> QED
      BY <1>1, <1>3, <1>4, <2>1, <2>2 DEF RpcInv, Replies
<1>14. Registered'
    BY <1>1, <1>5, LostOK DEF RpcInv
<1> QED
    BY <1>2, <1>6, <1>7, <1>8, <1>9, <1>10, <1>11, <1>12, <1>13, <1>14 DEF RpcInv, Places


-----------------------------------------------------------------------------
(* The callers, Disconnect and Shutdown. *)

LEMMA SendCmdOK ==
    ASSUME RpcInv, NEW r \in Ids, SendCmd(r)
    PROVE  RpcInv'
<1>1. UNCHANGED <<mode, shutdown, ntfn, ws, wire, hin, hout, rec, rs, post, dropped, drained, overtaken, refused>>
    BY DEF SendCmd, wsVars, AddRequest
<1>2. InHand' /\ Connected' /\ Replies'
    BY <1>1 DEF RpcInv, Places, InHand, Connected, Replies
<1>3. /\ Conns = 1..MaxConns /\ MaxConns \in Nat \ {0} /\ ws.conn \in 0..MaxConns
      /\ resp \in [Ids -> 0..1] /\ ToSet(list) \subseteq Ids /\ ToSet(post.chan) \subseteq Ids
      /\ \A j \in Conns : hin[j].rc \in Conns
    BY Facts
<1>4. \/ RequestAdded(r) /\ mode # "post" /\ req[r] = "new" /\ (ws.conn > 0 /\ ~ shutdown => resp' = resp)
      \/ /\ mode = "post" /\ req[r] = "new" /\ list' = list /\ resp' = resp
         /\ req' \in [Ids -> {"unused", "new", "guard", "enqueue", "send", "wait", "done"}]
         /\ req'[r] = "guard" /\ \A s \in Ids \ {r} : req'[s] = req[s]
  <2>1. /\ req \in [Ids -> {"unused", "new", "guard", "enqueue", "send", "wait", "done"}]
        /\ req[r] = "new" /\ list \in Seq(Ids) /\ IsInjective(list) /\ resp[r] = 0 /\ Typed
      BY Facts DEF RpcInv, Typed, Places, EarlyUnanswered, SendCmd
  <2>2. CASE WebSocket /\ ws.conn = 0
    <3>1. Respond({r}) \in [Ids -> 0..1] /\ \A s \in Ids : Respond({r})[s] = IF s \in {r} THEN 1 ELSE resp[s]
        BY <2>1, RespondOK
    <3>2. req' = [req EXCEPT ![r] = "done"] /\ resp' = Respond({r}) /\ list' = list
        BY <2>2 DEF SendCmd
    <3>3. /\ req' \in [Ids -> {"unused", "new", "guard", "enqueue", "send", "wait", "done"}] /\ req'[r] = "done"
          /\ \A s \in Ids \ {r} : req'[s] = req[s]
        BY <2>1, <3>2
    <3>4. RequestAdded(r)
        BY <2>1, <2>2, <3>1, <3>2, <3>3 DEF RequestAdded
    <3> QED
        BY <2>1, <2>2, <3>4 DEF WebSocket
  <2>3. CASE ~ (WebSocket /\ ws.conn = 0) /\ mode = "post"
      BY <2>1, <2>3 DEF SendCmd
  <2>4. CASE ~ (WebSocket /\ ws.conn = 0) /\ mode # "post"
    <3>1. AddRequest(r)
        BY <2>4 DEF SendCmd
    <3>2. RequestAdded(r) /\ (~ shutdown => resp' = resp)
        BY <2>1, <3>1, AddRequestOK
    <3> QED
        BY <2>1, <2>4, <3>2
  <2> QED
      BY <2>2, <2>3, <2>4
<1>5. ListPending' /\ TrackPending' /\ ChanPending' /\ BusyPending' /\ EarlyUnanswered' /\ WsOnly' /\ Tracked'
  <2>1. CASE RequestAdded(r) /\ req[r] = "new"
      BY <1>1, <2>1, AddedOK
  <2>2. CASE mode = "post" /\ ~ RequestAdded(r)
    <3>1. resp' = resp /\ list' = list /\ req[r] = "new" /\ req'[r] = "guard" /\ \A s \in Ids \ {r} : req'[s] = req[s]
        BY <1>4, <2>2
    <3>2. ~ WebSocket
        BY <2>2 DEF WebSocket
    <3>3. ListPending' /\ ChanPending' /\ BusyPending'
        BY <1>1, <1>3, <3>1 DEF RpcInv, Places, ListPending, Pending, ChanPending, BusyPending
    <3>4. TrackPending'
        BY <1>1, <3>2 DEF RpcInv, PostOnly, TrackPending
    <3>5. EarlyUnanswered' /\ WsOnly' /\ Tracked'
        BY <1>1, <3>1, <3>2 DEF RpcInv, Places, EarlyUnanswered, WsOnly, Tracked, WebSocket
    <3> QED
        BY <3>3, <3>4, <3>5
  <2> QED
      BY <1>4, <2>1, <2>2
<1>6. Typed'
    BY <1>1, <1>4 DEF RpcInv, Typed, RequestAdded
<1>7. PostOnly'
    BY <1>1, <1>3, <1>4 DEF RpcInv, PostOnly, WebSocket
<1>8. Fresh'
  <2>1. \A k \in Conns : <<"again", k>> \in Ids
      BY Names
  <2>2. \A i \in 1..MaxSends : <<"batch", i>> \in Ids
      BY Names
  <2>3. \A s \in Ids : req[s] = "unused" => req'[s] = "unused"
      BY <1>4 DEF RequestAdded
  <2> QED
      BY <1>1, <2>1, <2>2, <2>3 DEF RpcInv, Fresh
<1>9. Registered'
    BY <1>1, <1>4 DEF RpcInv, Registered, Unheard
<1> QED
    BY <1>2, <1>5, <1>6, <1>7, <1>8, <1>9 DEF RpcInv, Places


LEMMA SendMessageOK ==
    ASSUME RpcInv, NEW r \in Ids, SendMessage(r)
    PROVE  RpcInv'
<1>1. UNCHANGED <<mode, shutdown, resp, list, ntfn, wire, hin, hout, rec, rs, post, dropped, drained,
                  overtaken, refused>>
    BY DEF SendMessage
<1>2. InHand' /\ Replies'
    BY <1>1 DEF RpcInv, Places, InHand, Replies
<1>3. /\ Conns = 1..MaxConns /\ MaxConns \in Nat \ {0} /\ ws.conn \in 0..MaxConns
      /\ resp \in [Ids -> 0..1] /\ ToSet(list) \subseteq Ids /\ ToSet(post.chan) \subseteq Ids
      /\ \A j \in Conns : hin[j].rc \in Conns
    BY Facts
<1>4. /\ req' \in [Ids -> {"unused", "new", "guard", "enqueue", "send", "wait", "done"}]
      /\ req[r] = "send" /\ req'[r] = "wait" /\ \A s \in Ids \ {r} : req'[s] = req[s]
      /\ ws' \in WsType /\ ws'.conn = ws.conn /\ ws'.failing = ws.failing /\ ws'.disconnected = ws.disconnected
  <2>1. Append(ws.sendChan, r) \in Seq(Ids)
      BY Facts, AppendSet
  <2> QED
      BY <2>1, Facts DEF SendMessage, WsType
<1>5. Typed'
    BY <1>1, <1>3, <1>4 DEF RpcInv, Typed
<1>6. ListPending'
    BY <1>1, <1>3, <1>4 DEF RpcInv, Places, ListPending, Pending
<1>7. TrackPending'
    BY <1>1, <1>3, <1>4 DEF RpcInv, InHand, Places, TrackPending, Pending
<1>8. ChanPending'
    BY <1>1, <1>3, <1>4 DEF RpcInv, Places, ChanPending
<1>9. BusyPending'
    BY <1>1, <1>3, <1>4 DEF RpcInv, Places, BusyPending
<1>10. EarlyUnanswered'
    BY <1>1, <1>3, <1>4 DEF RpcInv, Places, EarlyUnanswered
<1>11. WsOnly'
    BY <1>1, <1>3, <1>4 DEF RpcInv, Places, WsOnly, WebSocket
<1>12. PostOnly'
    BY <1>1, <1>3, <1>4 DEF RpcInv, Places, PostOnly, WebSocket
<1>13. Fresh'
  <2>1. \A k \in Conns : <<"again", k>> \in Ids
      BY Names
  <2>2. \A i \in 1..MaxSends : <<"batch", i>> \in Ids
      BY Names
  <2> QED
      BY <1>1, <1>4, <2>1, <2>2 DEF RpcInv, Fresh
<1>14. Tracked'
    BY <1>1, <1>3, <1>4 DEF RpcInv, Places, Tracked, WebSocket, Waits, Held
<1>15. Connected'
    BY <1>1, <1>3, <1>4 DEF RpcInv, Places, Connected
<1>16. Registered'
    BY <1>1, <1>3, <1>4 DEF RpcInv, Places, Registered, Unheard
<1> QED
    BY <1>2, <1>5, <1>6, <1>7, <1>8, <1>9, <1>10, <1>11, <1>12, <1>13, <1>14, <1>15, <1>16 DEF RpcInv, Places


LEMMA FailPendingOK ==
    ASSUME RpcInv, FailPending
    PROVE  RpcInv'
<1>1. UNCHANGED <<mode, req, ntfn, wire, hin, hout, rec, rs, post, dropped, drained, overtaken, refused>>
    BY DEF FailPending
<1>2. InHand' /\ WsOnly' /\ Replies'
    BY <1>1 DEF RpcInv, Places, InHand, WsOnly, WebSocket, Replies
<1>3. /\ Conns = 1..MaxConns /\ MaxConns \in Nat \ {0} /\ ws.conn \in 0..MaxConns
      /\ resp \in [Ids -> 0..1] /\ ToSet(list) \subseteq Ids /\ ToSet(post.chan) \subseteq Ids
      /\ \A j \in Conns : hin[j].rc \in Conns
    BY Facts
<1>4. /\ resp' \in [Ids -> 0..1] /\ \A r \in Ids : resp'[r] = IF r \in ToSet(list) THEN 1 ELSE resp[r]
      /\ list' = <<>> /\ ToSet(list') = {} /\ list' \in Seq(Ids) /\ IsInjective(list')
      /\ ws' \in WsType /\ ws'.conn = ws.conn /\ ~ ws'.failing /\ shutdown' = TRUE
  <2>1. ws \in WsType /\ Typed /\ \A r \in ToSet(list) \cap Ids : resp[r] = 0
      BY Facts DEF RpcInv, Places, ListPending, Pending
  <2>2. Respond(ToSet(list)) \in [Ids -> 0..1]
        /\ \A r \in Ids : Respond(ToSet(list))[r] = IF r \in ToSet(list) THEN 1 ELSE resp[r]
      BY <2>1, RespondOK
  <2>3. ws' \in WsType /\ ws'.conn = ws.conn /\ ~ ws'.failing
      BY <2>1 DEF FailPending, WsType
  <2> QED
      BY <2>2, <2>3, EmptySet DEF FailPending
<1>5. Typed'
    BY <1>1, <1>3, <1>4 DEF RpcInv, Typed
<1>6. ListPending'
    BY <1>1, <1>3, <1>4 DEF RpcInv, Places, ListPending, Pending
<1>7. TrackPending'
  <2>1. \A j \in Conns : hin[j].pc = "track" => hin[j].msg \in Ids /\ hin[j].msg \notin ToSet(list)
                                               /\ resp'[hin[j].msg] = resp[hin[j].msg]
      BY <1>4 DEF RpcInv, InHand, Places, TrackPending
  <2> QED
      BY <1>1, <1>4, <2>1 DEF RpcInv, Places, TrackPending, Pending
<1>8. ChanPending'
  <2>1. \A r \in ToSet(post.chan) : resp'[r] = resp[r]
      BY <1>3, <1>4 DEF RpcInv, Places, ChanPending
  <2> QED
      BY <1>1, <1>4, <2>1 DEF RpcInv, Places, ChanPending
<1>9. BusyPending'
    BY <1>1, <1>3, <1>4 DEF RpcInv, Places, BusyPending
<1>10. EarlyUnanswered'
    BY <1>1, <1>3, <1>4 DEF RpcInv, Places, EarlyUnanswered, ListPending, Pending
<1>11. PostOnly'
    BY <1>1, <1>3, <1>4 DEF RpcInv, Places, PostOnly, WebSocket
<1>12. Fresh'
    BY <1>1, <1>3, <1>4 DEF RpcInv, Places, Fresh
<1>13. Tracked'
  <2> SUFFICES ASSUME WebSocket, NEW s \in Ids, Waits(s)' PROVE Held(s)' \/ s \in dropped
      BY <1>1 DEF Tracked, WebSocket
  <2>1. s \notin ToSet(list) /\ Waits(s)
      BY <1>1, <1>4 DEF Waits
  <2>2. Held(s) \/ s \in dropped
      BY <2>1 DEF RpcInv, Tracked
  <2> QED
      BY <1>1, <2>1, <2>2 DEF Held
<1>14. Connected'
    BY <1>1, <1>3, <1>4 DEF RpcInv, Places, Connected
<1>15. Registered'
    BY <1>1, <1>3, <1>4 DEF RpcInv, Places, Registered, Unheard
<1> QED
    BY <1>2, <1>5, <1>6, <1>7, <1>8, <1>9, <1>10, <1>11, <1>12, <1>13, <1>14, <1>15 DEF RpcInv, Places


LEMMA ShutdownOK ==
    ASSUME RpcInv, Shutdown
    PROVE  RpcInv'
<1>1. UNCHANGED <<mode, req, ntfn, hin, hout, rec, rs, post, dropped, drained, overtaken, refused>>
    BY DEF Shutdown
<1>2. InHand' /\ WsOnly'
    BY <1>1 DEF RpcInv, Places, InHand, WsOnly, WebSocket
<1>3. /\ Conns = 1..MaxConns /\ MaxConns \in Nat \ {0} /\ ws.conn \in 0..MaxConns
      /\ resp \in [Ids -> 0..1] /\ ToSet(list) \subseteq Ids /\ ToSet(post.chan) \subseteq Ids
      /\ \A j \in Conns : hin[j].rc \in Conns
    BY Facts
<1>4. /\ resp' \in [Ids -> 0..1] /\ list' \in Seq(Ids) /\ IsInjective(list') /\ ToSet(list') \subseteq ToSet(list)
      /\ \A r \in Ids : resp'[r] = IF r \in ToSet(list) \ ToSet(list') THEN 1 ELSE resp[r]
      /\ shutdown' = TRUE /\ Lost /\ (mode = "post" => list' = <<>>)
  <2>1. ws \in WsType /\ wire \in WireType /\ Typed /\ list \in Seq(Ids) /\ IsInjective(list)
        /\ resp \in [Ids -> 0..1] /\ \A r \in ToSet(list) \cap Ids : resp[r] = 0
      BY Facts DEF RpcInv, Typed, Places, ListPending, Pending
  <2>2. Respond(ToSet(list)) \in [Ids -> 0..1]
        /\ \A r \in Ids : Respond(ToSet(list))[r] = IF r \in ToSet(list) THEN 1 ELSE resp[r]
      BY <2>1, RespondOK
  <2>3. /\ resp' \in [Ids -> 0..1] /\ list' \in Seq(Ids) /\ IsInjective(list') /\ ToSet(list') \subseteq ToSet(list)
        /\ \A r \in Ids : resp'[r] = IF r \in ToSet(list) \ ToSet(list') THEN 1 ELSE resp[r]
        /\ mode = "post" => list' = <<>>
      BY <2>1, <2>2, EmptySet DEF Shutdown
  <2>4. Lost
    <3>1. CASE WebSocket
      <4>1. ws' = Disconnected(ws, FALSE) /\ (wire' = wire \/ wire' = HangUp(ws.conn))
          BY <3>1 DEF Shutdown
      <4>2. ws' \in WsType /\ ws'.conn = ws.conn /\ ws'.sendChan = ws.sendChan /\ ws'.disconnected
          BY <2>1, <4>1, DisconnectedOK
      <4>3. wire' \in WireType /\ \A m \in Conns : wire'[m] \in {wire[m], DeadWire}
          BY <1>3, <2>1, <4>1, HangUpOK
      <4> QED
          BY <3>1, <4>2, <4>3 DEF Lost
    <3>2. CASE ~ WebSocket
        BY <2>1, <3>2 DEF Shutdown, Lost
    <3> QED
        BY <3>1, <3>2
  <2> QED
      BY <2>3, <2>4 DEF Shutdown
<1>5. Typed'
    BY <1>1, <1>4 DEF RpcInv, Typed, Lost
<1>6. ListPending'
  <2>1. \A r \in ToSet(list') : r \in ToSet(list) /\ resp'[r] = resp[r]
      BY <1>3, <1>4
  <2> QED
      BY <1>1, <2>1 DEF RpcInv, Places, ListPending, Pending
<1>7. TrackPending'
  <2>1. \A j \in Conns : hin[j].pc = "track" => hin[j].msg \in Ids /\ hin[j].msg \notin ToSet(list)
                                               /\ resp'[hin[j].msg] = resp[hin[j].msg]
      BY <1>4 DEF RpcInv, InHand, Places, TrackPending
  <2> QED
      BY <1>1, <1>4, <2>1 DEF RpcInv, Places, TrackPending, Pending
<1>8. ChanPending'
  <2>1. \A r \in ToSet(post.chan) : resp'[r] = resp[r]
      BY <1>3, <1>4 DEF RpcInv, Places, ChanPending
  <2> QED
      BY <1>1, <1>4, <2>1 DEF RpcInv, Places, ChanPending
<1>9. BusyPending'
    BY <1>1, <1>3, <1>4 DEF RpcInv, Places, BusyPending
<1>10. EarlyUnanswered'
    BY <1>1, <1>3, <1>4 DEF RpcInv, Places, EarlyUnanswered, ListPending, Pending
<1>11. PostOnly'
    BY <1>1, <1>4 DEF RpcInv, PostOnly, WebSocket, Lost
<1>12. Fresh'
    BY <1>1, <1>4 DEF RpcInv, Fresh, Lost
<1>13. Tracked'
  <2> SUFFICES ASSUME WebSocket, NEW s \in Ids, Waits(s)' PROVE Held(s)' \/ s \in dropped
      BY <1>1 DEF Tracked, WebSocket
  <2>1. Waits(s) /\ (s \in ToSet(list) => s \in ToSet(list'))
      BY <1>1, <1>4 DEF Waits
  <2>2. Held(s) \/ s \in dropped
      BY <2>1 DEF RpcInv, Tracked
  <2> QED
      BY <1>1, <2>1, <2>2 DEF Held
<1>14. Connected'
    BY <1>1, <1>4, LostOK DEF RpcInv
<1>15. Replies'
    BY <1>1, <1>4, LostOK DEF RpcInv
<1>16. Registered'
    BY <1>4 DEF Registered, Unheard
<1> QED
    BY <1>2, <1>5, <1>6, <1>7, <1>8, <1>9, <1>10, <1>11, <1>12, <1>13, <1>14, <1>15, <1>16 DEF RpcInv, Places


LEMMA UserDisconnectOK ==
    ASSUME RpcInv, UserDisconnect
    PROVE  RpcInv'
<1>1. UNCHANGED <<mode, shutdown, req, resp, list, ntfn, hin, hout, rec, rs, post, dropped, drained, overtaken, refused>>
    BY DEF UserDisconnect, Disconnect
<1>2. /\ InHand' /\ ListPending' /\ TrackPending' /\ ChanPending' /\ BusyPending' /\ EarlyUnanswered'
      /\ WsOnly' /\ Tracked'
    BY <1>1 DEF RpcInv, Places, InHand, ListPending, Pending, TrackPending, ChanPending, BusyPending,
       EarlyUnanswered, WsOnly, WebSocket, Tracked, Waits, Held
<1>3. WebSocket /\ Lost
    BY DisconnectOK DEF RpcInv, UserDisconnect
<1>4. Connected' /\ Replies' /\ Registered'
    BY <1>1, <1>3, LostOK DEF RpcInv
<1>5. Typed'
    BY <1>1, <1>3 DEF RpcInv, Typed, Lost
<1>6. PostOnly'
    BY <1>1, <1>3 DEF PostOnly, WebSocket
<1>7. Fresh'
    BY <1>1, <1>3 DEF RpcInv, Fresh, Lost
<1> QED
    BY <1>2, <1>4, <1>5, <1>6, <1>7 DEF RpcInv, Places


-----------------------------------------------------------------------------
(* Connections. *)

LEMMA ConnectOK ==
    ASSUME RpcInv, Connect
    PROVE  RpcInv'
<1>1. UNCHANGED <<mode, shutdown, req, resp, list, ntfn, rs, post, dropped, drained, overtaken, refused>>
    BY DEF Connect, StartHandlers
<1>2. ListPending' /\ ChanPending' /\ BusyPending' /\ EarlyUnanswered' /\ WsOnly'
    BY <1>1 DEF RpcInv, Places, ListPending, Pending, ChanPending, BusyPending, EarlyUnanswered, WsOnly,
       WebSocket
<1>3. /\ Conns = 1..MaxConns /\ MaxConns \in Nat \ {0} /\ ws.conn \in 0..MaxConns
      /\ resp \in [Ids -> 0..1] /\ ToSet(list) \subseteq Ids /\ ToSet(post.chan) \subseteq Ids
      /\ \A j \in Conns : hin[j].rc \in Conns
    BY Facts
<1>4. /\ 1 \in Conns /\ ws.conn = 0 /\ Started(1) /\ WebSocket
      /\ ws' \in WsType /\ ws'.conn = 1 /\ ws'.failing = ws.failing /\ ws'.disconnected = ws.disconnected /\ rec' \in {"wait", "done"}
  <2>1. 1 \in Conns /\ 1 > ws.conn /\ ws.conn = 0 /\ StartHandlers(1) /\ WebSocket
      BY <1>3 DEF Connect
  <2>2. Started(1)
      BY <2>1, StartHandlersOK
  <2>3. ws \in WsType /\ ws' = [ws EXCEPT !.conn = 1] /\ 1 \in 0..MaxConns
      BY <1>3, Facts DEF Connect
  <2>4. ws' \in WsType /\ ws'.conn = 1 /\ ws'.failing = ws.failing /\ ws'.disconnected = ws.disconnected
      BY <2>3 DEF WsType
  <2> QED
      BY <2>1, <2>2, <2>4 DEF Connect
<1>5. InHand' /\ TrackPending' /\ Tracked' /\ Connected' /\ Replies'
    BY <1>1, <1>4, StartedOK
<1>6. Typed'
    BY <1>1, <1>4 DEF RpcInv, Typed, Started
<1>7. PostOnly'
    BY <1>1, <1>4 DEF PostOnly, WebSocket
<1>8. Fresh'
    BY <1>1, <1>3, <1>4 DEF RpcInv, Places, Fresh
<1>9. Registered'
    BY <1>1, <1>4 DEF RpcInv, Connected, Registered
<1> QED
    BY <1>2, <1>5, <1>6, <1>7, <1>8, <1>9 DEF RpcInv, Places


LEMMA RecWakeOK ==
    ASSUME RpcInv, RecWake
    PROVE  RpcInv'
<1>1. UNCHANGED <<mode, shutdown, req, resp, list, ntfn, ws, wire, hin, hout, rs, post, dropped, drained,
                  overtaken, refused>>
    BY DEF RecWake
<1>2. /\ InHand' /\ ListPending' /\ TrackPending' /\ ChanPending' /\ BusyPending' /\ EarlyUnanswered'
      /\ WsOnly' /\ Fresh' /\ Tracked' /\ Replies' /\ Registered'
    BY <1>1 DEF RpcInv, Places, InHand, ListPending, Pending, TrackPending, ChanPending, BusyPending,
       EarlyUnanswered, WsOnly, WebSocket, Fresh, Tracked, Waits, Held, Replies, Registered, Unheard
<1>3. rec' \in {"wait", "dial", "dialing", "done"} /\ rec # "done"
    BY DEF RecWake
<1>4. Typed'
    BY <1>1, <1>3 DEF RpcInv, Typed
<1>5. PostOnly'
    BY <1>1, <1>3 DEF RpcInv, Places, PostOnly, WebSocket
<1>6. Connected'
    BY <1>1, <1>3 DEF RpcInv, Places, Connected
<1> QED
    BY <1>2, <1>4, <1>5, <1>6 DEF RpcInv, Places


LEMMA RecDialFailsOK ==
    ASSUME RpcInv, RecDialFails
    PROVE  RpcInv'
<1>1. UNCHANGED <<mode, shutdown, req, resp, list, ntfn, ws, wire, hin, hout, rs, post, dropped, drained,
                  overtaken, refused>>
    BY DEF RecDialFails
<1>2. /\ InHand' /\ ListPending' /\ TrackPending' /\ ChanPending' /\ BusyPending' /\ EarlyUnanswered'
      /\ WsOnly' /\ Fresh' /\ Tracked' /\ Replies' /\ Registered'
    BY <1>1 DEF RpcInv, Places, InHand, ListPending, Pending, TrackPending, ChanPending, BusyPending,
       EarlyUnanswered, WsOnly, WebSocket, Fresh, Tracked, Waits, Held, Replies, Registered, Unheard
<1>3. rec' = "dial" /\ rec # "done"
    BY DEF RecDialFails
<1>4. Typed'
    BY <1>1, <1>3 DEF RpcInv, Typed
<1>5. PostOnly'
    BY <1>1, <1>3 DEF RpcInv, Places, PostOnly, WebSocket
<1>6. Connected'
    BY <1>1, <1>3 DEF RpcInv, Places, Connected
<1> QED
    BY <1>2, <1>4, <1>5, <1>6 DEF RpcInv, Places


LEMMA RecDialOK ==
    ASSUME RpcInv, RecDial
    PROVE  RpcInv'
<1>1. UNCHANGED <<mode, shutdown, req, resp, list, ntfn, post, dropped, drained, overtaken, refused>>
    BY DEF RecDial, StartHandlers
<1>2. ListPending' /\ ChanPending' /\ BusyPending' /\ EarlyUnanswered' /\ WsOnly'
    BY <1>1 DEF RpcInv, Places, ListPending, Pending, ChanPending, BusyPending, EarlyUnanswered, WsOnly,
       WebSocket
<1>3. /\ Conns = 1..MaxConns /\ MaxConns \in Nat \ {0} /\ ws.conn \in 0..MaxConns
      /\ resp \in [Ids -> 0..1] /\ ToSet(list) \subseteq Ids /\ ToSet(post.chan) \subseteq Ids
      /\ \A j \in Conns : hin[j].rc \in Conns
    BY Facts
<1>4. /\ ws.conn + 1 \in Conns /\ Started(ws.conn + 1) /\ WebSocket
      /\ ws' \in WsType /\ ws'.conn = ws.conn + 1 /\ ws'.failing = ws.failing /\ rec' = "wait"
      /\ rs' \in RsType /\ rs'[ws.conn + 1].pc = "register"
      /\ \A j \in Conns \ {ws.conn + 1} : rs'[j] = rs[j]
  <2> DEFINE n == ws.conn + 1
  <2>1. n \in Conns /\ n > ws.conn /\ n \in 0..MaxConns
      BY <1>3 DEF RecDial
  <2>2. /\ StartHandlers(n) /\ ws' = [ws EXCEPT !.conn = n, !.disconnected = FALSE]
        /\ rs' = [rs EXCEPT ![n].pc = "register"] /\ rec = "dialing" /\ rec' = "wait"
      BY DEF RecDial
  <2> HIDE DEF n
  <2>3. Started(n)
      BY <2>1, <2>2, StartHandlersOK
  <2>4. ws \in WsType /\ rs \in RsType
      BY Facts
  <2>5. ws' \in WsType /\ ws'.conn = n /\ ws'.failing = ws.failing
      BY <2>1, <2>2, <2>4 DEF WsType
  <2>6. rs' \in RsType /\ rs'[n].pc = "register" /\ \A j \in Conns \ {n} : rs'[j] = rs[j]
      BY <2>1, <2>2, <2>4 DEF RsType
  <2> QED
      BY <2>1, <2>2, <2>3, <2>5, <2>6 DEF n, RpcInv, PostOnly
<1>5. InHand' /\ TrackPending' /\ Tracked' /\ Connected' /\ Replies'
  <2>1. ws.conn + 1 > ws.conn
      BY <1>3
  <2> QED
      BY <1>1, <1>4, <2>1, StartedOK
<1>6. Typed'
    BY <1>1, <1>4 DEF RpcInv, Typed, Started
<1>7. PostOnly'
    BY <1>1, <1>4 DEF PostOnly, WebSocket
<1>8. Fresh'
    BY <1>1, <1>3, <1>4 DEF RpcInv, Places, Fresh
<1>9. Registered'
    BY <1>4 DEF Registered, Unheard
<1> QED
    BY <1>2, <1>5, <1>6, <1>7, <1>8, <1>9 DEF RpcInv, Places


-----------------------------------------------------------------------------
(* resendRequests. *)

LEMMA RsRegisterOK ==
    ASSUME RpcInv, NEW k \in Conns, RsRegister(k)
    PROVE  RpcInv'
<1>1. UNCHANGED <<mode, shutdown, ntfn, ws, wire, hin, hout, rec, post, dropped, drained, overtaken, refused>>
    BY DEF RsRegister, AddRequest
<1>2. InHand' /\ Connected' /\ Replies'
    BY <1>1 DEF RpcInv, Places, InHand, Connected, Replies
<1>3. /\ Conns = 1..MaxConns /\ MaxConns \in Nat \ {0} /\ ws.conn \in 0..MaxConns
      /\ resp \in [Ids -> 0..1] /\ ToSet(list) \subseteq Ids /\ ToSet(post.chan) \subseteq Ids
      /\ \A j \in Conns : hin[j].rc \in Conns
    BY Facts
<1>4. /\ <<"again", k>> \in Ids /\ req[<<"again", k>>] = "unused" /\ resp[<<"again", k>>] = 0 /\ k <= ws.conn
      /\ rs' \in RsType /\ WebSocket /\ rs[k].pc = "register"
      /\ \A j \in Conns \ {k} : rs'[j] = rs[j]
      /\ \/ ntfn /\ rs'[k].pc = "wait" /\ RequestAdded(<<"again", k>>) /\ (~ shutdown => resp' = resp)
         \/ ~ ntfn /\ rs'[k].pc = "copy" /\ UNCHANGED <<req, resp, list>>
  <2>1. /\ <<"again", k>> \in Ids /\ req[<<"again", k>>] = "unused" /\ resp[<<"again", k>>] = 0
        /\ k <= ws.conn /\ WebSocket /\ rs[k].pc = "register"
      BY <1>3, Names DEF RsRegister, RpcInv, Fresh, Places, EarlyUnanswered, PostOnly
  <2>2. rs \in RsType /\ rs' = [rs EXCEPT ![k].pc = IF ntfn THEN "wait" ELSE "copy"]
      BY Facts DEF RsRegister
  <2>3. /\ rs' \in RsType /\ \A j \in Conns \ {k} : rs'[j] = rs[j]
        /\ ntfn => rs'[k].pc = "wait"
        /\ ~ ntfn => rs'[k].pc = "copy"
      BY <2>2 DEF RsType
  <2>4. CASE ntfn
    <3>1. AddRequest(<<"again", k>>)
        BY <2>4 DEF RsRegister
    <3> QED
        BY <2>1, <2>3, <2>4, <3>1, AddRequestOK
  <2>5. CASE ~ ntfn
      BY <2>1, <2>3, <2>5 DEF RsRegister
  <2> QED
      BY <2>4, <2>5
<1>5. ListPending' /\ TrackPending' /\ ChanPending' /\ BusyPending' /\ EarlyUnanswered' /\ WsOnly' /\ Tracked'
  <2>1. CASE RequestAdded(<<"again", k>>)
      BY <1>1, <1>4, <2>1, AddedOK
  <2>2. CASE UNCHANGED <<req, resp, list>>
      BY <1>1, <2>2 DEF RpcInv, Places, ListPending, TrackPending, Pending, ChanPending, BusyPending,
                        EarlyUnanswered, WsOnly, WebSocket, Tracked, Waits, Held
  <2> QED
      BY <1>4, <2>1, <2>2
<1>6. Typed'
  <2>1. CASE RequestAdded(<<"again", k>>)
      BY <1>1, <1>4, <2>1 DEF RpcInv, Typed, RequestAdded
  <2>2. CASE UNCHANGED <<req, resp, list>>
      BY <1>1, <1>4, <2>2 DEF RpcInv, Typed
  <2> QED
      BY <1>4, <2>1, <2>2
<1>7. PostOnly'
    BY <1>1, <1>4 DEF PostOnly, WebSocket
<1>8. Fresh'
  <2>1. \A j \in Conns \ {k} : <<"again", j>> \in Ids \ {<<"again", k>>}
      BY Names
  <2>2. \A i \in 1..MaxSends : <<"batch", i>> \in Ids \ {<<"again", k>>}
      BY Names
  <2>3. \A s \in Ids \ {<<"again", k>>} : req'[s] = req[s]
      BY <1>4 DEF RequestAdded
  <2> QED
      BY <1>1, <1>3, <1>4, <2>1, <2>2, <2>3, SMTT(30) DEF RpcInv, Fresh
<1>9. Registered'
  <2> SUFFICES ASSUME ws.conn > 0, ntfn, ~ overtaken, ~ shutdown, ~ ws.disconnected, wire[ws.conn].alive
               PROVE  \/ wire[ws.conn].registered \/ wire[ws.conn].refused \/ rs'[ws.conn].pc = "register"
                      \/ rs'[ws.conn].pc = "wait" /\ Unheard(ws.conn)'
      BY <1>1 DEF Registered
  <2>1. ws.conn \in Conns /\ rs'[k].pc = "wait" /\ resp' = resp
      BY <1>3, <1>4
  <2>2. CASE k = ws.conn
    <3>1. Unheard(ws.conn)'
        BY <1>1, <1>4, <2>1, <2>2 DEF Unheard
    <3> QED
        BY <2>1, <2>2, <3>1
  <2>3. CASE k # ws.conn
      BY <1>1, <1>4, <2>1, <2>3 DEF RpcInv, Registered, Unheard
  <2> QED
      BY <2>2, <2>3
<1> QED
    BY <1>2, <1>5, <1>6, <1>7, <1>8, <1>9 DEF RpcInv, Places


LEMMA RsRegisteredOK ==
    ASSUME RpcInv, NEW k \in Conns, RsRegistered(k)
    PROVE  RpcInv'
<1>1. UNCHANGED <<mode, shutdown, req, resp, list, ntfn, hin, hout, rec, post, dropped, drained, overtaken, refused>>
    BY DEF RsRegistered, Disconnect
<1>2. /\ InHand' /\ ListPending' /\ TrackPending' /\ ChanPending' /\ BusyPending' /\ EarlyUnanswered'
      /\ WsOnly' /\ Tracked'
    BY <1>1 DEF RpcInv, Places, InHand, ListPending, Pending, TrackPending, ChanPending, BusyPending,
       EarlyUnanswered, WsOnly, WebSocket, Tracked, Waits, Held
<1>3. /\ Conns = 1..MaxConns /\ MaxConns \in Nat \ {0} /\ ws.conn \in 0..MaxConns
      /\ resp \in [Ids -> 0..1] /\ ToSet(list) \subseteq Ids /\ ToSet(post.chan) \subseteq Ids
      /\ \A j \in Conns : hin[j].rc \in Conns
    BY Facts
<1>4. /\ rs' \in RsType /\ rs[k].pc = "wait" /\ resp[<<"again", k>>] > 0 /\ rs'[k].pc \in {"done", "copy"} /\ WebSocket
      /\ \A j \in Conns \ {k} : rs'[j] = rs[j]
      /\ Lost /\ (RsFails(k) => ws'.disconnected) /\ (~ RsFails(k) => UNCHANGED <<ws, wire>>)
  <2>1. /\ rs \in RsType /\ rs[k].pc = "wait" /\ WebSocket /\ ws \in WsType /\ wire \in WireType
        /\ rs' = [rs EXCEPT ![k].pc = IF RsFails(k) THEN "done" ELSE "copy"]
      BY Facts DEF RsRegistered, RpcInv, PostOnly
  <2>2. rs' \in RsType /\ rs'[k].pc \in {"done", "copy"} /\ \A j \in Conns \ {k} : rs'[j] = rs[j]
      BY <2>1 DEF RsType
  <2>3. Lost /\ (RsFails(k) => ws'.disconnected) /\ (~ RsFails(k) => UNCHANGED <<ws, wire>>)
    <3>1. CASE RsFails(k)
      <4>1. Disconnect /\ Typed
          BY <3>1 DEF RsRegistered, RpcInv
      <4>2. ws'.disconnected
          BY <4>1, DisconnectedOK DEF Disconnect
      <4> QED
          BY <2>1, <3>1, <4>1, <4>2, DisconnectOK
    <3>2. CASE ~ RsFails(k)
      <4>1. ws' = ws /\ wire' = wire
          BY <3>2 DEF RsRegistered
      <4> QED
          BY <2>1, <3>2, <4>1 DEF Lost
    <3> QED
        BY <3>1, <3>2
  <2>4. resp[<<"again", k>>] > 0
      BY DEF RsRegistered
  <2> QED
      BY <2>1, <2>2, <2>3, <2>4
<1>5. ws'.conn = ws.conn /\ ws' \in WsType /\ wire' \in WireType
    BY <1>4 DEF Lost
<1>6. Typed'
    BY <1>1, <1>4, <1>5 DEF RpcInv, Typed
<1>7. PostOnly'
    BY <1>1, <1>4 DEF PostOnly, WebSocket
<1>8. Fresh'
  <2>1. /\ \A j \in Conns : j > ws.conn => rs[j].pc = "done" /\ req[<<"again", j>>] = "unused"
        /\ \A j \in Conns : rs[j].pc = "register" => req[<<"again", j>>] = "unused"
        /\ \A i \in 1..MaxSends : i > post.sends => req[<<"batch", i>>] = "unused"
      BY DEF RpcInv, Fresh
  <2>2. \A j \in Conns : j > ws.conn => rs'[j].pc = "done"
      BY <1>4, <2>1
  <2>3. \A j \in Conns : rs'[j].pc = "register" => rs[j].pc = "register"
      BY <1>4
  <2> QED
      BY <1>1, <1>5, <2>1, <2>2, <2>3 DEF Fresh
<1>9. Connected'
    BY <1>1, <1>4, LostOK DEF RpcInv
<1>10. Replies'
    BY <1>1, <1>4, LostOK DEF RpcInv
<1>11. Registered'
  <2>1. CASE RsFails(k)
      BY <1>1, <1>4, <2>1 DEF Registered
  <2>2. CASE ~ RsFails(k)
    <3>1. ws.conn > 0 => ws.conn \in Conns
        BY <1>3
    <3>2. ~ Unheard(k)
        BY <1>4, <2>2 DEF Unheard, RsFails
    <3> QED
        BY <1>1, <1>4, <2>2, <3>1, <3>2 DEF RpcInv, Registered, Unheard
  <2> QED
      BY <2>1, <2>2
<1> QED
    BY <1>2, <1>6, <1>7, <1>8, <1>9, <1>10, <1>11 DEF RpcInv, Places


LEMMA RsCopyOK ==
    ASSUME RpcInv, NEW k \in Conns, RsCopy(k)
    PROVE  RpcInv'
<1>1. UNCHANGED <<mode, shutdown, req, resp, ntfn, ws, wire, hin, hout, rec, post, drained, overtaken, refused>>
    BY DEF RsCopy
<1>2. InHand' /\ EarlyUnanswered' /\ WsOnly' /\ Connected' /\ Replies'
    BY <1>1 DEF RpcInv, Places, InHand, EarlyUnanswered, WsOnly, WebSocket, Connected, Replies
<1>3. /\ Conns = 1..MaxConns /\ MaxConns \in Nat \ {0} /\ ws.conn \in 0..MaxConns
      /\ resp \in [Ids -> 0..1] /\ ToSet(list) \subseteq Ids /\ ToSet(post.chan) \subseteq Ids
      /\ \A j \in Conns : hin[j].rc \in Conns
    BY Facts
<1>4. /\ rs' \in RsType /\ rs[k].pc = "copy" /\ rs'[k].pc = "send" /\ \A j \in Conns \ {k} : rs'[j] = rs[j]
      /\ list' \in Seq(Ids) /\ IsInjective(list') /\ ToSet(list') \subseteq ToSet(list)
      /\ dropped' = dropped \cup (ToSet(list) \ ToSet(list')) /\ WebSocket
  <2> DEFINE ignored == {r \in ToSet(list) : MethodOf(r) = "rescan"}
  <2>1. rs \in RsType /\ list \in Seq(Ids) /\ IsInjective(list)
      BY Facts DEF RpcInv, Typed
  <2>2. /\ list' = Without(list, ignored) /\ dropped' = dropped \cup ignored /\ rs[k].pc = "copy"
        /\ rs' = [rs EXCEPT ![k].pc = "send", ![k].todo = Without(list, ignored)]
      BY DEF RsCopy
  <2>6. ignored \subseteq ToSet(list)
      OBVIOUS
  <2> HIDE DEF ignored
  <2>3. /\ Without(list, ignored) \in Seq(Ids) /\ ToSet(Without(list, ignored)) = ToSet(list) \ ignored
        /\ IsInjective(Without(list, ignored))
      BY <2>1, WithoutOK
  <2>4. rs' \in RsType /\ rs'[k].pc = "send" /\ \A j \in Conns \ {k} : rs'[j] = rs[j]
      BY <2>1, <2>2, <2>3 DEF RsType
  <2>5. dropped' = dropped \cup (ToSet(list) \ ToSet(list'))
      BY <2>2, <2>3, <2>6
  <2> QED
      BY <2>2, <2>3, <2>4, <2>5 DEF RpcInv, PostOnly
<1>5. Typed'
    BY <1>1, <1>3, <1>4 DEF RpcInv, Typed
<1>6. ListPending'
    BY <1>1, <1>3, <1>4 DEF RpcInv, Places, ListPending, Pending
<1>7. TrackPending'
    BY <1>1, <1>3, <1>4 DEF RpcInv, Places, TrackPending, Pending
<1>8. ChanPending'
    BY <1>1, <1>3, <1>4 DEF RpcInv, Places, ChanPending
<1>9. BusyPending'
    BY <1>1, <1>3, <1>4 DEF RpcInv, Places, BusyPending
<1>10. PostOnly'
    BY <1>1, <1>4 DEF PostOnly, WebSocket
<1>11. Fresh'
  <2>1. /\ \A j \in Conns : j > ws.conn => rs[j].pc = "done" /\ req[<<"again", j>>] = "unused"
        /\ \A j \in Conns : rs[j].pc = "register" => req[<<"again", j>>] = "unused"
        /\ \A i \in 1..MaxSends : i > post.sends => req[<<"batch", i>>] = "unused"
      BY DEF RpcInv, Fresh
  <2>2. \A j \in Conns : j > ws.conn => rs'[j].pc = "done"
      BY <1>4, <2>1
  <2>3. \A j \in Conns : rs'[j].pc = "register" => rs[j].pc = "register"
      BY <1>4
  <2> QED
      BY <1>1, <2>1, <2>2, <2>3 DEF Fresh
<1>12. Tracked'
    BY <1>1, <1>3, <1>4 DEF RpcInv, Places, Tracked, WebSocket, Waits, Held
<1>13. Registered'
  <2>1. ws.conn > 0 => ws.conn \in Conns
      BY <1>3
  <2> QED
      BY <1>1, <1>4, <2>1 DEF RpcInv, Registered, Unheard
<1> QED
    BY <1>2, <1>5, <1>6, <1>7, <1>8, <1>9, <1>10, <1>11, <1>12, <1>13 DEF RpcInv, Places


LEMMA RsSendOK ==
    ASSUME RpcInv, NEW k \in Conns, RsSend(k)
    PROVE  RpcInv'
<1>1. UNCHANGED <<mode, shutdown, req, resp, list, ntfn, wire, hin, hout, rec, post, dropped, overtaken,
                  refused>>
    BY DEF RsSend
<1>2. /\ InHand' /\ ListPending' /\ TrackPending' /\ ChanPending' /\ BusyPending' /\ EarlyUnanswered'
      /\ WsOnly' /\ Tracked' /\ Replies'
    BY <1>1 DEF RpcInv, Places, InHand, ListPending, Pending, TrackPending, ChanPending, BusyPending,
       EarlyUnanswered, WsOnly, WebSocket, Tracked, Waits, Held, Replies
<1>3. /\ Conns = 1..MaxConns /\ MaxConns \in Nat \ {0} /\ ws.conn \in 0..MaxConns
      /\ resp \in [Ids -> 0..1] /\ ToSet(list) \subseteq Ids /\ ToSet(post.chan) \subseteq Ids
      /\ \A j \in Conns : hin[j].rc \in Conns
    BY Facts
<1>4. /\ rs' \in RsType /\ rs[k].pc = "send" /\ rs'[k].pc \in {"send", "done"}
      /\ \A j \in Conns \ {k} : rs'[j] = rs[j]
      /\ ws' \in WsType /\ ws'.conn = ws.conn /\ ws'.failing = ws.failing /\ ws'.disconnected = ws.disconnected
  <2>1. rs \in RsType /\ ws \in WsType /\ rs[k].pc = "send" /\ rs[k].todo \in Seq(Ids) /\ ws.sendChan \in Seq(Ids)
      BY Facts DEF RsSend, RsType
  <2>2. CASE rs[k].todo = <<>> \/ ws.disconnected
    <3>1. rs' = [rs EXCEPT ![k].pc = "done", ![k].todo = <<>>] /\ ws' = ws
        BY <2>2 DEF RsSend
    <3> QED
        BY <2>1, <3>1, EmptySet DEF RsType
  <2>3. CASE ~ (rs[k].todo = <<>> \/ ws.disconnected)
    <3>1. /\ rs' = [rs EXCEPT ![k].todo = Tail(rs[k].todo)]
          /\ ws' = [ws EXCEPT !.sendChan = Append(ws.sendChan, Head(rs[k].todo))]
        BY <2>3 DEF RsSend
    <3>2. Head(rs[k].todo) \in Ids /\ Tail(rs[k].todo) \in Seq(Ids)
        BY <2>1, <2>3, TailSet
    <3>3. Append(ws.sendChan, Head(rs[k].todo)) \in Seq(Ids)
        BY <2>1, <3>2, AppendSet
    <3>4. rs' \in RsType /\ rs'[k].pc = "send" /\ \A j \in Conns \ {k} : rs'[j] = rs[j]
        BY <2>1, <3>1, <3>2 DEF RsType
    <3>5. ws' \in WsType /\ ws'.conn = ws.conn /\ ws'.failing = ws.failing /\ ws'.disconnected = ws.disconnected
        BY <2>1, <3>1, <3>3 DEF WsType
    <3> QED
        BY <2>1, <3>4, <3>5
  <2> QED
      BY <2>2, <2>3
<1>5. Typed'
    BY <1>1, <1>3, <1>4 DEF RpcInv, Typed
<1>6. PostOnly'
    BY <1>1, <1>3, <1>4 DEF RpcInv, Places, PostOnly, WebSocket
<1>7. Fresh'
    BY <1>1, <1>3, <1>4 DEF RpcInv, Places, Fresh
<1>8. Connected'
    BY <1>1, <1>3, <1>4 DEF RpcInv, Places, Connected
<1>9. Registered'
  <2>1. ws.conn > 0 => ws.conn \in Conns
      BY <1>3
  <2> QED
      BY <1>1, <1>4, <2>1 DEF RpcInv, Registered, Unheard
<1> QED
    BY <1>2, <1>5, <1>6, <1>7, <1>8, <1>9 DEF RpcInv, Places


-----------------------------------------------------------------------------
(* HTTP POST mode and batches. *)

LEMMA PostGuardOK ==
    ASSUME RpcInv, NEW r \in Ids, PostGuard(r)
    PROVE  RpcInv'
<1>1. UNCHANGED <<mode, shutdown, list, ntfn, ws, wire, hin, hout, rec, rs, dropped, drained, overtaken, refused>>
    BY DEF PostGuard, wsVars
<1>2. InHand' /\ PostOnly' /\ Connected' /\ Replies'
    BY <1>1 DEF RpcInv, Places, InHand, PostOnly, WebSocket, Connected, Replies
<1>3. /\ req \in [Ids -> {"unused", "new", "guard", "enqueue", "send", "wait", "done"}]
      /\ resp \in [Ids -> 0..1] /\ ToSet(list) \subseteq Ids /\ list \in Seq(Ids)
      /\ post \in PostType /\ post.chan \in Seq(Ids) /\ ToSet(post.chan) \subseteq Ids
    BY Facts
<1>4. /\ req[r] = "guard" /\ resp[r] = 0 /\ ~ WebSocket
      /\ req' \in [Ids -> {"unused", "new", "guard", "enqueue", "send", "wait", "done"}]
      /\ resp' \in [Ids -> 0..1] /\ \A s \in Ids \ {r} : req'[s] = req[s] /\ resp'[s] = resp[s]
      /\ \/ req'[r] = "done"
         \/ req'[r] = "enqueue" /\ resp'[r] = 0
      /\ post' \in PostType /\ post'.chan = post.chan /\ post'.pc = post.pc /\ post'.msg = post.msg
      /\ post'.sends = post.sends
  <2>1. req[r] = "guard" /\ resp[r] = 0 /\ ~ WebSocket /\ Typed
      BY DEF PostGuard, RpcInv, Places, EarlyUnanswered, WsOnly
  <2>2. Respond({r}) \in [Ids -> 0..1] /\ \A s \in Ids : Respond({r})[s] = IF s \in {r} THEN 1 ELSE resp[s]
      BY <2>1, RespondOK
  <2>3. /\ post' \in PostType /\ post'.chan = post.chan /\ post'.pc = post.pc /\ post'.msg = post.msg
        /\ post'.sends = post.sends
      BY <1>3 DEF PostGuard, PostType
  <2> QED
      BY <1>3, <2>1, <2>2, <2>3 DEF PostGuard
<1>5. Typed'
    BY <1>1, <1>3, <1>4 DEF RpcInv, Typed
<1>6. ListPending'
    BY <1>1, <1>3, <1>4 DEF RpcInv, Places, ListPending, Pending
<1>7. TrackPending'
    BY <1>1, <1>4 DEF RpcInv, PostOnly, TrackPending
<1>8. ChanPending'
    BY <1>1, <1>3, <1>4 DEF RpcInv, Places, ChanPending
<1>9. BusyPending'
    BY <1>1, <1>3, <1>4 DEF RpcInv, Places, BusyPending
<1>10. EarlyUnanswered'
    BY <1>1, <1>3, <1>4 DEF RpcInv, Places, EarlyUnanswered
<1>11. WsOnly'
    BY <1>1, <1>4 DEF WsOnly, WebSocket
<1>12. Fresh'
  <2>1. \A k \in Conns : <<"again", k>> \in Ids
      BY Names
  <2>2. \A i \in 1..MaxSends : <<"batch", i>> \in Ids
      BY Names
  <2> QED
      BY <1>1, <1>4, <2>1, <2>2 DEF RpcInv, Fresh
<1>13. Tracked'
    BY <1>1, <1>4 DEF Tracked, WebSocket
<1>14. Registered'
    BY <1>1, <1>4 DEF RpcInv, PostOnly, Registered
<1> QED
    BY <1>2, <1>5, <1>6, <1>7, <1>8, <1>9, <1>10, <1>11, <1>12, <1>13, <1>14 DEF RpcInv, Places


LEMMA PostEnqueueOK ==
    ASSUME RpcInv, NEW r \in Ids, PostEnqueue(r)
    PROVE  RpcInv'
<1>1. UNCHANGED <<mode, shutdown, list, ntfn, ws, wire, hin, hout, rec, rs, dropped, drained, overtaken, refused>>
    BY DEF PostEnqueue, wsVars
<1>2. InHand' /\ PostOnly' /\ Connected' /\ Replies'
    BY <1>1 DEF RpcInv, Places, InHand, PostOnly, WebSocket, Connected, Replies
<1>3. /\ req \in [Ids -> {"unused", "new", "guard", "enqueue", "send", "wait", "done"}]
      /\ resp \in [Ids -> 0..1] /\ ToSet(list) \subseteq Ids /\ list \in Seq(Ids)
      /\ post \in PostType /\ post.chan \in Seq(Ids) /\ ToSet(post.chan) \subseteq Ids
    BY Facts
<1>4. /\ req[r] = "enqueue" /\ resp[r] = 0 /\ ~ WebSocket
      /\ req' \in [Ids -> {"unused", "new", "guard", "enqueue", "send", "wait", "done"}]
      /\ resp' \in [Ids -> 0..1] /\ \A s \in Ids \ {r} : req'[s] = req[s] /\ resp'[s] = resp[s]
      /\ post' \in PostType /\ post'.pc = post.pc /\ post'.msg = post.msg /\ post'.sends = post.sends
      /\ IsInjective(post'.chan) /\ r \notin ToSet(post.chan)
      /\ \/ req'[r] = "done" /\ ToSet(post'.chan) = ToSet(post.chan)
         \/ req'[r] = "wait" /\ resp'[r] = 0 /\ ToSet(post'.chan) = ToSet(post.chan) \cup {r}
  <2>1. req[r] = "enqueue" /\ resp[r] = 0 /\ ~ WebSocket /\ Typed /\ IsInjective(post.chan) /\ r \notin ToSet(post.chan)
      BY DEF PostEnqueue, RpcInv, Places, EarlyUnanswered, WsOnly, ChanPending
  <2>2. Respond({r}) \in [Ids -> 0..1] /\ \A s \in Ids : Respond({r})[s] = IF s \in {r} THEN 1 ELSE resp[s]
      BY <2>1, RespondOK
  <2>3. /\ Append(post.chan, r) \in Seq(Ids) /\ ToSet(Append(post.chan, r)) = ToSet(post.chan) \cup {r}
        /\ IsInjective(Append(post.chan, r))
      BY <1>3, <2>1, AppendSet
  <2>4. CASE req' = [req EXCEPT ![r] = "wait"] /\ post' = [post EXCEPT !.chan = Append(post.chan, r)] /\ resp' = resp
    <3>1. /\ post' \in PostType /\ post'.chan = Append(post.chan, r) /\ post'.pc = post.pc /\ post'.msg = post.msg
          /\ post'.sends = post.sends
        BY <1>3, <2>3, <2>4 DEF PostType
    <3> QED
        BY <1>3, <2>1, <2>3, <2>4, <3>1
  <2>5. CASE /\ req' = [req EXCEPT ![r] = "done"] /\ resp' = Respond({r})
             /\ post' = [post EXCEPT !.failed = post.failed \cup {r}]
    <3>1. /\ post' \in PostType /\ post'.chan = post.chan /\ post'.pc = post.pc /\ post'.msg = post.msg
          /\ post'.sends = post.sends
        BY <1>3, <2>5 DEF PostType
    <3> QED
        BY <1>3, <2>1, <2>2, <2>5, <3>1
  <2> QED
      BY <2>4, <2>5 DEF PostEnqueue
<1>5. Typed'
    BY <1>1, <1>3, <1>4 DEF RpcInv, Typed
<1>6. ListPending'
    BY <1>1, <1>3, <1>4 DEF RpcInv, Places, ListPending, Pending
<1>7. TrackPending'
    BY <1>1, <1>4 DEF RpcInv, PostOnly, TrackPending
<1>8. ChanPending'
  <2>1. r \notin ToSet(list)
      BY <1>4 DEF RpcInv, Places, ListPending, Pending
  <2>2. \A s \in ToSet(post.chan) : s \in Ids \ {r}
      BY <1>3, <1>4
  <2>3. \A s \in ToSet(post'.chan) : resp'[s] = 0 /\ req'[s] = "wait" /\ s \notin ToSet(list)
      BY <1>4, <2>1, <2>2 DEF RpcInv, Places, ChanPending
  <2> QED
      BY <1>1, <1>4, <2>3 DEF ChanPending
<1>9. BusyPending'
    BY <1>1, <1>3, <1>4 DEF RpcInv, Places, BusyPending
<1>10. EarlyUnanswered'
    BY <1>1, <1>3, <1>4 DEF RpcInv, Places, EarlyUnanswered
<1>11. WsOnly'
    BY <1>1, <1>4 DEF WsOnly, WebSocket
<1>12. Fresh'
  <2>1. \A k \in Conns : <<"again", k>> \in Ids
      BY Names
  <2>2. \A i \in 1..MaxSends : <<"batch", i>> \in Ids
      BY Names
  <2> QED
      BY <1>1, <1>4, <2>1, <2>2 DEF RpcInv, Fresh
<1>13. Tracked'
    BY <1>1, <1>4 DEF Tracked, WebSocket
<1>14. Registered'
    BY <1>1, <1>4 DEF RpcInv, PostOnly, Registered
<1> QED
    BY <1>2, <1>5, <1>6, <1>7, <1>8, <1>9, <1>10, <1>11, <1>12, <1>13, <1>14 DEF RpcInv, Places


LEMMA PostCancelOK ==
    ASSUME RpcInv, PostCancel
    PROVE  RpcInv'
<1>1. UNCHANGED <<mode, shutdown, req, resp, list, ntfn, ws, wire, hin, hout, rec, rs, dropped, drained,
                  overtaken, refused>>
    BY DEF PostCancel, wsVars
<1>2. /\ InHand' /\ ListPending' /\ TrackPending' /\ EarlyUnanswered' /\ PostOnly' /\ Tracked'
      /\ Connected' /\ Replies' /\ Registered'
    BY <1>1 DEF RpcInv, Places, InHand, ListPending, Pending, TrackPending, EarlyUnanswered, PostOnly,
       WebSocket, Tracked, Waits, Held, Connected, Replies, Registered, Unheard
<1>3. /\ req \in [Ids -> {"unused", "new", "guard", "enqueue", "send", "wait", "done"}]
      /\ resp \in [Ids -> 0..1] /\ ToSet(list) \subseteq Ids /\ list \in Seq(Ids)
      /\ post \in PostType /\ post.chan \in Seq(Ids) /\ ToSet(post.chan) \subseteq Ids
    BY Facts
<1>4. /\ ~ WebSocket /\ post' \in PostType
      /\ post'.chan = post.chan /\ post'.pc = post.pc /\ post'.msg = post.msg /\ post'.sends = post.sends /\ post'.open = post.open
    BY <1>3 DEF PostCancel, PostType
<1>5. Typed'
    BY <1>1, <1>3, <1>4 DEF RpcInv, Typed
<1>6. ChanPending'
    BY <1>1, <1>3, <1>4 DEF RpcInv, Places, ChanPending
<1>7. BusyPending'
    BY <1>1, <1>3, <1>4 DEF RpcInv, Places, BusyPending
<1>8. WsOnly'
    BY <1>1, <1>4 DEF WsOnly, WebSocket
<1>9. Fresh'
    BY <1>1, <1>3, <1>4 DEF RpcInv, Places, Fresh
<1> QED
    BY <1>2, <1>5, <1>6, <1>7, <1>8, <1>9 DEF RpcInv, Places


LEMMA PostQuitOK ==
    ASSUME RpcInv, PostQuit
    PROVE  RpcInv'
<1>1. UNCHANGED <<mode, shutdown, req, resp, list, ntfn, ws, wire, hin, hout, rec, rs, dropped, drained,
                  overtaken, refused>>
    BY DEF PostQuit, wsVars
<1>2. /\ InHand' /\ ListPending' /\ TrackPending' /\ EarlyUnanswered' /\ PostOnly' /\ Tracked'
      /\ Connected' /\ Replies' /\ Registered'
    BY <1>1 DEF RpcInv, Places, InHand, ListPending, Pending, TrackPending, EarlyUnanswered, PostOnly,
       WebSocket, Tracked, Waits, Held, Connected, Replies, Registered, Unheard
<1>3. /\ req \in [Ids -> {"unused", "new", "guard", "enqueue", "send", "wait", "done"}]
      /\ resp \in [Ids -> 0..1] /\ ToSet(list) \subseteq Ids /\ list \in Seq(Ids)
      /\ post \in PostType /\ post.chan \in Seq(Ids) /\ ToSet(post.chan) \subseteq Ids
    BY Facts
<1>4. /\ ~ WebSocket /\ post' \in PostType /\ post'.pc = "drain"
      /\ post'.chan = post.chan /\ post'.sends = post.sends
    BY <1>3 DEF PostQuit, PostType, RpcInv, WsOnly
<1>5. Typed'
    BY <1>1, <1>3, <1>4 DEF RpcInv, Typed
<1>6. ChanPending'
    BY <1>1, <1>3, <1>4 DEF RpcInv, Places, ChanPending
<1>7. BusyPending'
    BY <1>1, <1>3, <1>4 DEF RpcInv, Places, BusyPending
<1>8. WsOnly'
    BY <1>1, <1>4 DEF WsOnly, WebSocket
<1>9. Fresh'
    BY <1>1, <1>3, <1>4 DEF RpcInv, Places, Fresh
<1> QED
    BY <1>2, <1>5, <1>6, <1>7, <1>8, <1>9 DEF RpcInv, Places


LEMMA PostTakeOK ==
    ASSUME RpcInv, PostTake
    PROVE  RpcInv'
<1>1. UNCHANGED <<mode, shutdown, req, resp, list, ntfn, ws, wire, hin, hout, rec, rs, dropped, drained,
                  overtaken, refused>>
    BY DEF PostTake, wsVars
<1>2. /\ InHand' /\ ListPending' /\ TrackPending' /\ EarlyUnanswered' /\ PostOnly' /\ Tracked'
      /\ Connected' /\ Replies' /\ Registered'
    BY <1>1 DEF RpcInv, Places, InHand, ListPending, Pending, TrackPending, EarlyUnanswered, PostOnly,
       WebSocket, Tracked, Waits, Held, Connected, Replies, Registered, Unheard
<1>3. /\ req \in [Ids -> {"unused", "new", "guard", "enqueue", "send", "wait", "done"}]
      /\ resp \in [Ids -> 0..1] /\ ToSet(list) \subseteq Ids /\ list \in Seq(Ids)
      /\ post \in PostType /\ post.chan \in Seq(Ids) /\ ToSet(post.chan) \subseteq Ids
    BY Facts
<1>4. /\ ~ WebSocket /\ post' \in PostType /\ post'.sends = post.sends
      /\ post'.msg \in Ids /\ post'.msg \in ToSet(post.chan) /\ post'.msg \notin ToSet(post'.chan)
      /\ ToSet(post'.chan) \subseteq ToSet(post.chan) /\ IsInjective(post'.chan)
  <2>1. post.pc = "select" /\ post.chan # <<>> /\ ~ WebSocket /\ IsInjective(post.chan)
      BY DEF PostTake, RpcInv, WsOnly, Places, ChanPending
  <2>2. /\ Head(post.chan) \in Ids /\ Head(post.chan) \in ToSet(post.chan) /\ Tail(post.chan) \in Seq(Ids)
        /\ ToSet(Tail(post.chan)) \subseteq ToSet(post.chan)
        /\ IsInjective(Tail(post.chan)) /\ Head(post.chan) \notin ToSet(Tail(post.chan))
      BY <1>3, <2>1, TailSet
  <2>3. post' = [post EXCEPT !.pc = "busy", !.msg = Head(post.chan), !.chan = Tail(post.chan), !.try = 1]
      BY DEF PostTake
  <2>4. post' \in PostType /\ post'.sends = post.sends /\ post'.msg = Head(post.chan) /\ post'.chan = Tail(post.chan)
      BY <1>3, <2>2, <2>3 DEF PostType
  <2> QED
      BY <2>1, <2>2, <2>4
<1>5. Typed'
    BY <1>1, <1>3, <1>4 DEF RpcInv, Typed
<1>6. ChanPending'
    BY <1>1, <1>3, <1>4 DEF RpcInv, Places, ChanPending
<1>7. BusyPending'
    BY <1>1, <1>4 DEF RpcInv, Places, BusyPending, ChanPending
<1>8. WsOnly'
    BY <1>1, <1>4 DEF WsOnly, WebSocket
<1>9. Fresh'
    BY <1>1, <1>3, <1>4 DEF RpcInv, Places, Fresh
<1> QED
    BY <1>2, <1>5, <1>6, <1>7, <1>8, <1>9 DEF RpcInv, Places


LEMMA PostOkOK ==
    ASSUME RpcInv, PostOk
    PROVE  RpcInv'
<1>1. UNCHANGED <<mode, shutdown, req, list, ntfn, ws, wire, hin, hout, rec, rs, dropped, drained, overtaken, refused>>
    BY DEF PostOk, wsVars
<1>2. InHand' /\ PostOnly' /\ Connected' /\ Replies'
    BY <1>1 DEF RpcInv, Places, InHand, PostOnly, WebSocket, Connected, Replies
<1>3. /\ req \in [Ids -> {"unused", "new", "guard", "enqueue", "send", "wait", "done"}]
      /\ resp \in [Ids -> 0..1] /\ ToSet(list) \subseteq Ids /\ list \in Seq(Ids)
      /\ post \in PostType /\ post.chan \in Seq(Ids) /\ ToSet(post.chan) \subseteq Ids
    BY Facts
<1>4. /\ ~ WebSocket /\ post' \in PostType /\ post'.pc = "select"
      /\ post'.chan = post.chan /\ post'.sends = post.sends
      /\ post.msg \in Ids /\ resp' \in [Ids -> 0..1]
      /\ post.msg \notin ToSet(list) /\ post.msg \notin ToSet(post.chan) /\ req[post.msg] = "wait"
      /\ \A s \in Ids : resp'[s] = IF s = post.msg THEN 1 ELSE resp[s]
  <2>1. /\ post.pc = "busy" /\ ~ WebSocket /\ Typed /\ post.msg \in Ids /\ resp[post.msg] = 0
        /\ post.msg \notin ToSet(list) /\ post.msg \notin ToSet(post.chan) /\ req[post.msg] = "wait"
      BY DEF PostOk, RpcInv, WsOnly, Places, BusyPending
  <2>2. /\ Respond({post.msg}) \in [Ids -> 0..1]
        /\ \A s \in Ids : Respond({post.msg})[s] = IF s \in {post.msg} THEN 1 ELSE resp[s]
      BY <2>1, RespondOK
  <2>3. post' \in PostType /\ post'.pc = "select" /\ post'.chan = post.chan /\ post'.sends = post.sends
      BY <1>3 DEF PostOk, PostType
  <2> QED
      BY <2>1, <2>2, <2>3 DEF PostOk
<1>5. Typed'
    BY <1>1, <1>3, <1>4 DEF RpcInv, Typed
<1>6. ListPending'
    BY <1>1, <1>3, <1>4 DEF RpcInv, Places, ListPending, Pending
<1>7. TrackPending'
    BY <1>1, <1>4 DEF RpcInv, PostOnly, TrackPending
<1>8. ChanPending'
    BY <1>1, <1>3, <1>4 DEF RpcInv, Places, ChanPending
<1>9. BusyPending'
    BY <1>1, <1>3, <1>4 DEF RpcInv, Places, BusyPending
<1>10. EarlyUnanswered'
    BY <1>1, <1>3, <1>4 DEF RpcInv, Places, EarlyUnanswered
<1>11. WsOnly'
    BY <1>1, <1>4 DEF WsOnly, WebSocket
<1>12. Fresh'
    BY <1>1, <1>3, <1>4 DEF RpcInv, Places, Fresh
<1>13. Tracked'
    BY <1>1, <1>4 DEF Tracked, WebSocket
<1>14. Registered'
    BY <1>1, <1>4 DEF RpcInv, PostOnly, Registered
<1> QED
    BY <1>2, <1>5, <1>6, <1>7, <1>8, <1>9, <1>10, <1>11, <1>12, <1>13, <1>14 DEF RpcInv, Places


LEMMA PostFailsOK ==
    ASSUME RpcInv, PostFails
    PROVE  RpcInv'
<1>1. UNCHANGED <<mode, shutdown, req, list, ntfn, ws, wire, hin, hout, rec, rs, dropped, drained, overtaken, refused>>
    BY DEF PostFails, wsVars
<1>2. InHand' /\ PostOnly' /\ Connected' /\ Replies'
    BY <1>1 DEF RpcInv, Places, InHand, PostOnly, WebSocket, Connected, Replies
<1>3. /\ req \in [Ids -> {"unused", "new", "guard", "enqueue", "send", "wait", "done"}]
      /\ resp \in [Ids -> 0..1] /\ ToSet(list) \subseteq Ids /\ list \in Seq(Ids)
      /\ post \in PostType /\ post.chan \in Seq(Ids) /\ ToSet(post.chan) \subseteq Ids
    BY Facts
<1>4. /\ ~ WebSocket /\ post' \in PostType /\ post.pc = "busy"
      /\ post'.chan = post.chan /\ post'.sends = post.sends
      /\ post.msg \in Ids /\ resp' \in [Ids -> 0..1]
      /\ post.msg \notin ToSet(list) /\ post.msg \notin ToSet(post.chan) /\ req[post.msg] = "wait"
      /\ \/ post'.pc = "select" /\ \A s \in Ids : resp'[s] = IF s = post.msg THEN 1 ELSE resp[s]
         \/ post'.pc = "busy" /\ post'.msg = post.msg /\ resp' = resp
  <2>1. /\ post.pc = "busy" /\ ~ WebSocket /\ Typed /\ post.msg \in Ids /\ resp[post.msg] = 0
        /\ post.msg \notin ToSet(list) /\ post.msg \notin ToSet(post.chan) /\ req[post.msg] = "wait"
      BY DEF PostFails, RpcInv, WsOnly, Places, BusyPending
  <2>2. /\ Respond({post.msg}) \in [Ids -> 0..1]
        /\ \A s \in Ids : Respond({post.msg})[s] = IF s \in {post.msg} THEN 1 ELSE resp[s]
      BY <2>1, RespondOK
  <2>3. CASE post.try < Tries /\ ~ post.cancelled
    <3>1. post' = [post EXCEPT !.try = post.try + 1] /\ resp' = resp
        BY <2>3 DEF PostFails
    <3>2. post' \in PostType /\ post'.pc = post.pc /\ post'.msg = post.msg /\ post'.chan = post.chan /\ post'.sends = post.sends
        BY <1>3, <3>1, SMTT(30) DEF PostType
    <3> QED
        BY <1>3, <2>1, <3>1, <3>2
  <2>4. CASE ~ (post.try < Tries /\ ~ post.cancelled)
    <3>1. /\ post' = [post EXCEPT !.pc = "select", !.msg = None, !.failed = post.failed \cup {post.msg}]
          /\ resp' = Respond({post.msg})
        BY <2>4 DEF PostFails
    <3>2. post' \in PostType /\ post'.pc = "select" /\ post'.chan = post.chan /\ post'.sends = post.sends
        BY <1>3, <2>1, <3>1 DEF PostType
    <3> QED
        BY <2>1, <2>2, <3>1, <3>2
  <2> QED
      BY <2>3, <2>4
<1>5. Typed'
    BY <1>1, <1>3, <1>4 DEF RpcInv, Typed
<1>6. ListPending'
    BY <1>1, <1>3, <1>4 DEF RpcInv, Places, ListPending, Pending
<1>7. TrackPending'
    BY <1>1, <1>4 DEF RpcInv, PostOnly, TrackPending
<1>8. ChanPending'
    BY <1>1, <1>3, <1>4 DEF RpcInv, Places, ChanPending
<1>9. BusyPending'
    BY <1>1, <1>3, <1>4 DEF RpcInv, Places, BusyPending
<1>10. EarlyUnanswered'
    BY <1>1, <1>3, <1>4 DEF RpcInv, Places, EarlyUnanswered
<1>11. WsOnly'
    BY <1>1, <1>4 DEF WsOnly, WebSocket
<1>12. Fresh'
    BY <1>1, <1>3, <1>4 DEF RpcInv, Places, Fresh
<1>13. Tracked'
    BY <1>1, <1>4 DEF Tracked, WebSocket
<1>14. Registered'
    BY <1>1, <1>4 DEF RpcInv, PostOnly, Registered
<1> QED
    BY <1>2, <1>5, <1>6, <1>7, <1>8, <1>9, <1>10, <1>11, <1>12, <1>13, <1>14 DEF RpcInv, Places


LEMMA PostDrainOK ==
    ASSUME RpcInv, PostDrain
    PROVE  RpcInv'
<1>1. UNCHANGED <<mode, shutdown, req, list, ntfn, ws, wire, hin, hout, rec, rs, dropped, drained, overtaken, refused>>
    BY DEF PostDrain, wsVars
<1>2. InHand' /\ PostOnly' /\ Connected' /\ Replies'
    BY <1>1 DEF RpcInv, Places, InHand, PostOnly, WebSocket, Connected, Replies
<1>3. /\ req \in [Ids -> {"unused", "new", "guard", "enqueue", "send", "wait", "done"}]
      /\ resp \in [Ids -> 0..1] /\ ToSet(list) \subseteq Ids /\ list \in Seq(Ids)
      /\ post \in PostType /\ post.chan \in Seq(Ids) /\ ToSet(post.chan) \subseteq Ids
    BY Facts
<1>4. /\ ~ WebSocket /\ post' \in PostType /\ post'.pc # "busy" /\ post'.sends = post.sends
      /\ resp' \in [Ids -> 0..1] /\ ToSet(post'.chan) \subseteq ToSet(post.chan) /\ IsInjective(post'.chan)
      /\ \A s \in Ids : resp'[s] = resp[s] \/ (s \in ToSet(post.chan) /\ s \notin ToSet(post'.chan))
  <2>1. post.pc = "drain" /\ ~ WebSocket /\ IsInjective(post.chan) /\ Typed
        /\ \A s \in ToSet(post.chan) : resp[s] = 0
      BY DEF PostDrain, RpcInv, WsOnly, Places, ChanPending
  <2>2. CASE post.chan = <<>>
    <3>1. post' = [post EXCEPT !.pc = "done"] /\ resp' = resp
        BY <2>2 DEF PostDrain
    <3>2. post' \in PostType /\ post'.pc = "done" /\ post'.chan = post.chan /\ post'.sends = post.sends
        BY <1>3, <3>1 DEF PostType
    <3> QED
        BY <1>3, <2>1, <3>1, <3>2
  <2>3. CASE post.chan # <<>>
    <3>1. /\ resp' = Respond({Head(post.chan)})
          /\ post' = [post EXCEPT !.chan = Tail(post.chan), !.failed = post.failed \cup {Head(post.chan)}]
        BY <2>3 DEF PostDrain
    <3>2. /\ Head(post.chan) \in Ids /\ Head(post.chan) \in ToSet(post.chan) /\ Tail(post.chan) \in Seq(Ids)
          /\ ToSet(Tail(post.chan)) \subseteq ToSet(post.chan)
          /\ IsInjective(Tail(post.chan)) /\ Head(post.chan) \notin ToSet(Tail(post.chan))
        BY <1>3, <2>1, <2>3, TailSet
    <3>3. /\ Respond({Head(post.chan)}) \in [Ids -> 0..1]
          /\ \A s \in Ids : Respond({Head(post.chan)})[s] = IF s \in {Head(post.chan)} THEN 1 ELSE resp[s]
        BY <2>1, <3>2, RespondOK
    <3>4. post' \in PostType /\ post'.pc = post.pc /\ post'.chan = Tail(post.chan) /\ post'.sends = post.sends
        BY <1>3, <3>1, <3>2 DEF PostType
    <3> QED
        BY <2>1, <3>1, <3>2, <3>3, <3>4
  <2> QED
      BY <2>2, <2>3
<1>5. Typed'
    BY <1>1, <1>3, <1>4 DEF RpcInv, Typed
<1>6. ListPending'
  <2>1. \A s \in ToSet(list) : s \notin ToSet(post.chan)
      BY DEF RpcInv, Places, ChanPending
  <2> QED
      BY <1>1, <1>3, <1>4, <2>1 DEF RpcInv, Places, ListPending, Pending
<1>7. TrackPending'
    BY <1>1, <1>4 DEF RpcInv, PostOnly, TrackPending
<1>8. ChanPending'
    BY <1>1, <1>3, <1>4 DEF RpcInv, Places, ChanPending
<1>9. BusyPending'
    BY <1>1, <1>3, <1>4 DEF RpcInv, Places, BusyPending
<1>10. EarlyUnanswered'
    BY <1>1, <1>3, <1>4 DEF RpcInv, Places, EarlyUnanswered, ChanPending
<1>11. WsOnly'
    BY <1>1, <1>4 DEF WsOnly, WebSocket
<1>12. Fresh'
    BY <1>1, <1>3, <1>4 DEF RpcInv, Places, Fresh
<1>13. Tracked'
    BY <1>1, <1>4 DEF Tracked, WebSocket
<1>14. Registered'
    BY <1>1, <1>4 DEF RpcInv, PostOnly, Registered
<1> QED
    BY <1>2, <1>5, <1>6, <1>7, <1>8, <1>9, <1>10, <1>11, <1>12, <1>13, <1>14 DEF RpcInv, Places


LEMMA SendAsyncOK ==
    ASSUME RpcInv, SendAsync
    PROVE  RpcInv'
<1>1. UNCHANGED <<mode, shutdown, resp, list, ntfn, ws, wire, hin, hout, rec, rs, dropped, drained, overtaken, refused>>
    BY DEF SendAsync, wsVars
<1>2. InHand' /\ PostOnly' /\ Connected' /\ Replies' /\ Registered'
    BY <1>1 DEF RpcInv, Places, InHand, PostOnly, WebSocket, Connected, Replies, Registered, Unheard
<1>3. /\ req \in [Ids -> {"unused", "new", "guard", "enqueue", "send", "wait", "done"}]
      /\ resp \in [Ids -> 0..1] /\ ToSet(list) \subseteq Ids /\ list \in Seq(Ids)
      /\ post \in PostType /\ post.chan \in Seq(Ids) /\ ToSet(post.chan) \subseteq Ids
    BY Facts
<1>4. /\ ~ WebSocket /\ post' \in PostType /\ post'.chan = post.chan /\ post'.pc = post.pc /\ post'.msg = post.msg
      /\ post'.sends = post.sends + 1 /\ post.sends \in Nat /\ post.sends + 1 \in 1..MaxSends
      /\ <<"batch", post.sends + 1>> \in Ids /\ req[<<"batch", post.sends + 1>>] = "unused"
      /\ req' \in [Ids -> {"unused", "new", "guard", "enqueue", "send", "wait", "done"}]
      /\ req'[<<"batch", post.sends + 1>>] = "guard"
      /\ \A s \in Ids \ {<<"batch", post.sends + 1>>} : req'[s] = req[s]
  <2> DEFINE i == post.sends + 1
  <2>1. /\ mode = "batch" /\ post.sends < MaxSends
        /\ post' = [post EXCEPT !.sends = i, !.snap[i] = ToSet(list), !.open = post.open \cup {i}]
        /\ req' = [req EXCEPT ![<<"batch", i>>] = "guard"]
      BY DEF SendAsync
  <2>2. post.sends \in 0..MaxSends /\ MaxSends \in Nat
      BY <1>3, Facts DEF PostType
  <2>3. post.sends \in Nat /\ i \in 1..MaxSends /\ i \in 0..MaxSends /\ i > post.sends
      BY <2>1, <2>2
  <2>4. <<"batch", i>> \in Ids /\ req[<<"batch", i>>] = "unused"
      BY <2>3, Names DEF RpcInv, Fresh
  <2>7. post.snap \in [1..MaxSends -> SUBSET Ids] /\ post.open \in SUBSET (1..MaxSends)
      BY <1>3 DEF PostType
  <2> HIDE DEF i
  <2>5. [post.snap EXCEPT ![i] = ToSet(list)] \in [1..MaxSends -> SUBSET Ids] /\ post.open \cup {i} \in SUBSET (1..MaxSends)
      BY <1>3, <2>3, <2>7
  <2>8. post' = [post EXCEPT !.sends = i, !.snap = [post.snap EXCEPT ![i] = ToSet(list)], !.open = post.open \cup {i}]
      BY <2>1
  <2>6. /\ post' \in PostType /\ post'.chan = post.chan /\ post'.pc = post.pc /\ post'.msg = post.msg
        /\ post'.sends = i
      BY <1>3, <2>3, <2>5, <2>8 DEF PostType
  <2> QED
      BY <1>3, <2>1, <2>3, <2>4, <2>6 DEF i, WebSocket
<1>5. Typed'
    BY <1>1, <1>3, <1>4 DEF RpcInv, Typed
<1>6. ListPending'
    BY <1>1, <1>3, <1>4 DEF RpcInv, Places, ListPending, Pending
<1>7. TrackPending'
    BY <1>1, <1>4 DEF RpcInv, PostOnly, TrackPending
<1>8. ChanPending'
    BY <1>1, <1>3, <1>4 DEF RpcInv, Places, ChanPending
<1>9. BusyPending'
    BY <1>1, <1>3, <1>4 DEF RpcInv, Places, BusyPending
<1>10. EarlyUnanswered'
    BY <1>1, <1>3, <1>4 DEF RpcInv, Places, EarlyUnanswered
<1>11. WsOnly'
    BY <1>1, <1>4 DEF WsOnly, WebSocket
<1>12. Fresh'
  <2>1. \A k \in Conns : <<"again", k>> \in Ids \ {<<"batch", post.sends + 1>>}
      BY <1>4, Names
  <2>2. \A j \in 1..MaxSends : j > post.sends + 1 => <<"batch", j>> \in Ids \ {<<"batch", post.sends + 1>>}
      BY <1>4, Names
  <2>3. \A j \in 1..MaxSends : j > post.sends + 1 => j > post.sends
      BY <1>4
  <2> QED
      BY <1>1, <1>4, <2>1, <2>2, <2>3 DEF RpcInv, Fresh
<1>13. Tracked'
    BY <1>1, <1>4 DEF Tracked, WebSocket
<1> QED
    BY <1>2, <1>5, <1>6, <1>7, <1>8, <1>9, <1>10, <1>11, <1>12, <1>13 DEF RpcInv, Places


LEMMA BatchAnsweredOK ==
    ASSUME RpcInv, NEW i \in 1..MaxSends, BatchAnswered(i)
    PROVE  RpcInv'
<1>1. UNCHANGED <<mode, shutdown, req, ntfn, ws, wire, hin, hout, rec, rs, dropped, drained, overtaken, refused>>
    BY DEF BatchAnswered, wsVars
<1>2. InHand' /\ Connected' /\ Replies'
    BY <1>1 DEF RpcInv, Places, InHand, Connected, Replies
<1>3. /\ req \in [Ids -> {"unused", "new", "guard", "enqueue", "send", "wait", "done"}]
      /\ resp \in [Ids -> 0..1] /\ ToSet(list) \subseteq Ids /\ list \in Seq(Ids)
      /\ post \in PostType /\ post.chan \in Seq(Ids) /\ ToSet(post.chan) \subseteq Ids
    BY Facts
<1>4. /\ ~ WebSocket /\ post' \in PostType /\ post'.chan = post.chan /\ post'.pc = post.pc /\ post'.msg = post.msg
      /\ post'.sends = post.sends
      /\ resp' \in [Ids -> 0..1] /\ list' \in Seq(Ids) /\ IsInjective(list') /\ ToSet(list') \subseteq ToSet(list)
      /\ \A r \in Ids : resp'[r] = IF r \in ToSet(list) \ ToSet(list') THEN 1 ELSE resp[r]
      /\ mode = "post" => list' = <<>>
  <2>1. /\ ~ WebSocket /\ Typed /\ IsInjective(list)
        /\ \A r \in ToSet(list) \cap Ids : resp[r] = 0
        /\ mode = "post" => list = <<>>
      BY DEF BatchAnswered, RpcInv, Typed, WsOnly, Places, ListPending, Pending, PostOnly
  <2>2. /\ post' \in PostType /\ post'.chan = post.chan /\ post'.pc = post.pc /\ post'.msg = post.msg
        /\ post'.sends = post.sends
      BY <1>3 DEF BatchAnswered, PostType
  <2> DEFINE S == post.snap[i]
  <2>3. resp' = Respond(S \cap ToSet(list)) /\ list' = Without(list, S)
      BY DEF BatchAnswered
  <2> HIDE DEF S
  <2>4. list' \in Seq(Ids) /\ ToSet(list') = ToSet(list) \ S /\ IsInjective(list')
      BY <1>3, <2>1, <2>3, WithoutOK
  <2>5. /\ resp' \in [Ids -> 0..1]
        /\ \A r \in Ids : resp'[r] = IF r \in S \cap ToSet(list) THEN 1 ELSE resp[r]
      BY <2>1, <2>3, RespondOK
  <2>6. mode = "post" => list' = <<>>
    <3> SUFFICES ASSUME mode = "post" PROVE list' = <<>>
        OBVIOUS
    <3>1. ToSet(list') = {}
        BY <2>1, <2>4, EmptySet
    <3> QED
        BY <2>4, <3>1 DEF ToSet
  <2> QED
      BY <2>1, <2>2, <2>4, <2>5, <2>6
<1>5. Typed'
    BY <1>1, <1>3, <1>4 DEF RpcInv, Typed
<1>6. ListPending'
  <2>1. \A s \in ToSet(list') : s \in ToSet(list) /\ resp'[s] = resp[s]
      BY <1>3, <1>4
  <2> QED
      BY <1>1, <2>1 DEF RpcInv, Places, ListPending, Pending
<1>7. TrackPending'
    BY <1>1, <1>4 DEF RpcInv, PostOnly, TrackPending
<1>8. ChanPending'
  <2>1. \A r \in ToSet(post.chan) : r \in Ids /\ r \notin ToSet(list) /\ resp'[r] = resp[r]
      BY <1>3, <1>4 DEF RpcInv, Places, ChanPending
  <2> QED
      BY <1>1, <1>4, <2>1 DEF RpcInv, Places, ChanPending
<1>9. BusyPending'
    BY <1>1, <1>3, <1>4 DEF RpcInv, Places, BusyPending
<1>10. EarlyUnanswered'
    BY <1>1, <1>3, <1>4 DEF RpcInv, Places, EarlyUnanswered, ListPending, Pending
<1>11. WsOnly'
    BY <1>1, <1>4 DEF WsOnly, WebSocket
<1>12. PostOnly'
    BY <1>1, <1>3, <1>4 DEF RpcInv, Places, PostOnly, WebSocket
<1>13. Fresh'
    BY <1>1, <1>3, <1>4 DEF RpcInv, Places, Fresh
<1>14. Tracked'
    BY <1>1, <1>4 DEF Tracked, WebSocket
<1>15. Registered'
    BY <1>1, <1>4 DEF RpcInv, PostOnly, Registered
<1> QED
    BY <1>2, <1>5, <1>6, <1>7, <1>8, <1>9, <1>10, <1>11, <1>12, <1>13, <1>14, <1>15 DEF RpcInv, Places


LEMMA BatchFailedOK ==
    ASSUME RpcInv, NEW i \in 1..MaxSends, BatchFailed(i)
    PROVE  RpcInv'
<1>1. UNCHANGED <<mode, shutdown, req, ntfn, ws, wire, hin, hout, rec, rs, dropped, drained, overtaken, refused>>
    BY DEF BatchFailed, wsVars
<1>2. InHand' /\ Connected' /\ Replies'
    BY <1>1 DEF RpcInv, Places, InHand, Connected, Replies
<1>3. /\ req \in [Ids -> {"unused", "new", "guard", "enqueue", "send", "wait", "done"}]
      /\ resp \in [Ids -> 0..1] /\ ToSet(list) \subseteq Ids /\ list \in Seq(Ids)
      /\ post \in PostType /\ post.chan \in Seq(Ids) /\ ToSet(post.chan) \subseteq Ids
    BY Facts
<1>4. /\ ~ WebSocket /\ post' \in PostType /\ post'.chan = post.chan /\ post'.pc = post.pc /\ post'.msg = post.msg
      /\ post'.sends = post.sends
      /\ resp' \in [Ids -> 0..1] /\ list' \in Seq(Ids) /\ IsInjective(list') /\ ToSet(list') \subseteq ToSet(list)
      /\ \A r \in Ids : resp'[r] = IF r \in ToSet(list) \ ToSet(list') THEN 1 ELSE resp[r]
      /\ mode = "post" => list' = <<>>
  <2>1. /\ ~ WebSocket /\ Typed /\ IsInjective(list)
        /\ \A r \in ToSet(list) \cap Ids : resp[r] = 0
        /\ mode = "post" => list = <<>>
      BY DEF BatchFailed, RpcInv, Typed, WsOnly, Places, ListPending, Pending, PostOnly
  <2>2. /\ post' \in PostType /\ post'.chan = post.chan /\ post'.pc = post.pc /\ post'.msg = post.msg
        /\ post'.sends = post.sends
      BY <1>3 DEF BatchFailed, PostType
  <2>3. /\ Respond(ToSet(list)) \in [Ids -> 0..1]
        /\ \A r \in Ids : Respond(ToSet(list))[r] = IF r \in ToSet(list) THEN 1 ELSE resp[r]
      BY <2>1, RespondOK
  <2> QED
      BY <2>1, <2>2, <2>3, EmptySet DEF BatchFailed
<1>5. Typed'
    BY <1>1, <1>3, <1>4 DEF RpcInv, Typed
<1>6. ListPending'
  <2>1. \A s \in ToSet(list') : s \in ToSet(list) /\ resp'[s] = resp[s]
      BY <1>3, <1>4
  <2> QED
      BY <1>1, <2>1 DEF RpcInv, Places, ListPending, Pending
<1>7. TrackPending'
    BY <1>1, <1>4 DEF RpcInv, PostOnly, TrackPending
<1>8. ChanPending'
  <2>1. \A r \in ToSet(post.chan) : r \in Ids /\ r \notin ToSet(list) /\ resp'[r] = resp[r]
      BY <1>3, <1>4 DEF RpcInv, Places, ChanPending
  <2> QED
      BY <1>1, <1>4, <2>1 DEF RpcInv, Places, ChanPending
<1>9. BusyPending'
    BY <1>1, <1>3, <1>4 DEF RpcInv, Places, BusyPending
<1>10. EarlyUnanswered'
    BY <1>1, <1>3, <1>4 DEF RpcInv, Places, EarlyUnanswered, ListPending, Pending
<1>11. WsOnly'
    BY <1>1, <1>4 DEF WsOnly, WebSocket
<1>12. PostOnly'
    BY <1>1, <1>3, <1>4 DEF RpcInv, Places, PostOnly, WebSocket
<1>13. Fresh'
    BY <1>1, <1>3, <1>4 DEF RpcInv, Places, Fresh
<1>14. Tracked'
    BY <1>1, <1>4 DEF Tracked, WebSocket
<1>15. Registered'
    BY <1>1, <1>4 DEF RpcInv, PostOnly, Registered
<1> QED
    BY <1>2, <1>5, <1>6, <1>7, <1>8, <1>9, <1>10, <1>11, <1>12, <1>13, <1>14, <1>15 DEF RpcInv, Places

-----------------------------------------------------------------------------
(* The theorem. *)

LEMMA InitOK == Init => RpcInv
<1> SUFFICES ASSUME Init PROVE RpcInv
    OBVIOUS
<1>1. /\ MaxConns \in Nat \ {0} /\ MaxSends \in Nat /\ Conns = 1..MaxConns
      /\ 0 \in 0..MaxConns /\ 0 \in 0..MaxSends
    BY RpcAssumption DEF Conns
<1>2. DeadWire \in WireRec
    BY EmptySet DEF DeadWire, WireRec
<1>3. /\ ws \in WsType /\ wire \in WireType /\ hin \in InType /\ hout \in OutType /\ rs \in RsType
    BY <1>1, <1>2, EmptySet DEF Init, WsType, WireType, InType, InRec, OutType, OutRec, RsType
<1>4. post \in PostType
  <2>1. (IF WebSocket THEN "done" ELSE "select") \in {"select", "busy", "drain", "done"}
      OBVIOUS
  <2> QED
      BY <1>1, <2>1, EmptySet DEF Init, PostType
<1>5. Typed
  <2>1. /\ req \in [Ids -> {"unused", "new", "guard", "enqueue", "send", "wait", "done"}]
        /\ resp \in [Ids -> 0..1]
      BY DEF Init
  <2>2. list \in Seq(Ids) /\ IsInjective(list)
      BY EmptySet DEF Init
  <2>3. mode \in Modes /\ shutdown \in BOOLEAN /\ ntfn \in BOOLEAN /\ rec = "done"
      BY DEF Init
  <2> QED
      BY <1>3, <1>4, <2>1, <2>2, <2>3 DEF Typed
<1>6. InHand /\ Connected
    BY <1>1 DEF Init, InHand, Connected
<1>7. Places
    BY EmptySet DEF Init, Places, ListPending, TrackPending, ChanPending, BusyPending, EarlyUnanswered
<1>8. WsOnly /\ PostOnly
    BY DEF Init, WsOnly, PostOnly
<1>9. Fresh
  <2>1. \A k \in Conns : <<"again", k>> \in Ids /\ <<"again", k>> \notin Reqs
      BY Names
  <2>2. \A i \in 1..MaxSends : <<"batch", i>> \in Ids /\ <<"batch", i>> \notin Reqs
      BY Names
  <2> QED
      BY <2>1, <2>2 DEF Init, Fresh
<1>10. Tracked /\ Replies /\ Registered
    BY EmptySet DEF Init, Tracked, Waits, Replies, DeadWire, Registered, Unheard
<1> QED
    BY <1>5, <1>6, <1>7, <1>8, <1>9, <1>10 DEF RpcInv

\* only resendRequests makes requests of its own, and only for registrations
LEMMA AskedStep ==
    ASSUME RpcInv, Asked, [Next]_vars
    PROVE  Asked'
<1> SUFFICES ASSUME WebSocket', NEW r \in Ids \ Reqs, req'[r] # "unused" PROVE ntfn'
    BY DEF Asked
<1>1. mode' = mode /\ WebSocket /\ mode # "batch" /\ mode # "post"
  <2>1. mode' = mode
      BY DEF Next, vars, SendCmd, SendMessage, PostGuard, PostEnqueue, FailPending, Shutdown, UserDisconnect,
             Connect, Break, OutTake, OutWrite, OutWriteFails, OutQuit, OutDrain, InRead, InRemove, InDeliver,
             InStop, RsRegister, RsRegistered, RsCopy, RsSend, RecWake, RecDialFails, RecDial, PostCancel,
             PostTake, PostOk, PostFails, PostQuit, PostDrain, SendAsync, BatchAnswered, BatchFailed
  <2> QED
      BY <2>1 DEF WebSocket
<1>2. ntfn => ntfn'
    BY DEF Next, vars, wsVars, SendCmd, SendMessage, PostGuard, PostEnqueue, FailPending, Shutdown,
           UserDisconnect, Connect, Break, OutTake, OutWrite, OutWriteFails, OutQuit, OutDrain, InRead,
           InRemove, InDeliver, InStop, RsRegister, RsRegistered, RsCopy, RsSend, RecWake, RecDialFails,
           RecDial, PostCancel, PostTake, PostOk, PostFails, PostQuit, PostDrain, SendAsync, BatchAnswered,
           BatchFailed
<1>3. req[r] # "unused" => ntfn'
    BY <1>1, <1>2 DEF Asked
<1>4. CASE \E s \in Ids : SendCmd(s) \/ SendMessage(s) \/ PostGuard(s) \/ PostEnqueue(s)
  <2>1. PICK s \in Ids : SendCmd(s) \/ SendMessage(s) \/ PostGuard(s) \/ PostEnqueue(s)
      BY <1>4
  <2>2. req[s] # "unused"
      BY <2>1 DEF SendCmd, SendMessage, PostGuard, PostEnqueue
  <2>4. req \in [Ids -> {"unused", "new", "guard", "enqueue", "send", "wait", "done"}]
      BY Facts
  <2>5. \E x : req' = [req EXCEPT ![s] = x]
      BY <2>1 DEF SendCmd, AddRequest, SendMessage, PostGuard, PostEnqueue
  <2>3. r # s => req'[r] = req[r]
      BY <2>4, <2>5
  <2> QED
      BY <1>3, <2>2, <2>3
<1>5. CASE \E k \in Conns : RsRegister(k)
  <2>1. PICK k \in Conns : RsRegister(k)
      BY <1>5
  <2>2. CASE ntfn
      BY <1>2, <2>2
  <2>3. CASE ~ ntfn
    <3>1. req' = req
        BY <2>1, <2>3 DEF RsRegister
    <3> QED
        BY <1>3, <3>1
  <2> QED
      BY <2>2, <2>3
<1>6. CASE SendAsync
    BY <1>1, <1>6 DEF SendAsync
<1>7. req' = req \/ (\E s \in Ids : SendCmd(s) \/ SendMessage(s) \/ PostGuard(s) \/ PostEnqueue(s))
      \/ (\E k \in Conns : RsRegister(k)) \/ SendAsync
    BY DEF Next, vars, FailPending, Shutdown, UserDisconnect, Connect, Break, OutTake, OutWrite, OutWriteFails,
           OutQuit, OutDrain, InRead, InRemove, InDeliver, InStop, RsRegistered, RsCopy, RsSend, RecWake,
           RecDialFails, RecDial, PostCancel, PostTake, PostOk, PostFails, PostQuit, PostDrain, BatchAnswered,
           BatchFailed
<1> QED
    BY <1>3, <1>4, <1>5, <1>6, <1>7

LEMMA StepOK ==
    ASSUME RpcInv, Asked, [Next]_vars
    PROVE  RpcInv'
<1>1. CASE UNCHANGED vars
    BY <1>1 DEF vars, RpcInv, Typed, InHand, Places, ListPending, TrackPending, Pending, ChanPending,
                BusyPending, EarlyUnanswered, WsOnly, PostOnly, WebSocket, Fresh, Tracked, Waits, Held,
                Connected, Replies, Registered, Unheard
<1>2. CASE \E r \in Ids : SendCmd(r) \/ SendMessage(r) \/ PostGuard(r) \/ PostEnqueue(r)
    BY <1>2, SendCmdOK, SendMessageOK, PostGuardOK, PostEnqueueOK
<1>3. CASE FailPending \/ Shutdown \/ UserDisconnect \/ Connect
    BY <1>3, FailPendingOK, ShutdownOK, UserDisconnectOK, ConnectOK
<1>4. CASE \E n \in Conns : Break(n)
    BY <1>4, BreakOK
<1>5. CASE \E k \in Conns : OutTake(k) \/ OutWrite(k) \/ OutWriteFails(k) \/ OutQuit(k) \/ OutDrain(k)
    BY <1>5, OutTakeOK, OutWriteOK, OutWriteFailsOK, OutQuitOK, OutDrainOK
<1>6. CASE \E k \in Conns : InRead(k) \/ InRemove(k) \/ InDeliver(k) \/ InStop(k)
    BY <1>6, InReadOK, InRemoveOK, InDeliverOK, InStopOK
<1>7. CASE \E k \in Conns : RsRegister(k) \/ RsRegistered(k) \/ RsCopy(k) \/ RsSend(k)
    BY <1>7, RsRegisterOK, RsRegisteredOK, RsCopyOK, RsSendOK
<1>8. CASE RecWake \/ RecDialFails \/ RecDial
    BY <1>8, RecWakeOK, RecDialFailsOK, RecDialOK
<1>9. CASE PostCancel \/ PostTake \/ PostOk \/ PostFails \/ PostQuit \/ PostDrain
    BY <1>9, PostCancelOK, PostTakeOK, PostOkOK, PostFailsOK, PostQuitOK, PostDrainOK
<1>10. CASE SendAsync \/ \E i \in 1..MaxSends : BatchAnswered(i) \/ BatchFailed(i)
    BY <1>10, SendAsyncOK, BatchAnsweredOK, BatchFailedOK
<1> QED
    BY <1>1, <1>2, <1>3, <1>4, <1>5, <1>6, <1>7, <1>8, <1>9, <1>10 DEF Next

LEMMA InvImplies == RpcInv => ResponsesTracked
<1> SUFFICES ASSUME RpcInv PROVE ResponsesTracked
    OBVIOUS
<1>1. TypeOK
  <2>1. ToSet(ws.sendChan) \subseteq Ids
      BY Facts, SetOfList
  <2> QED
      BY <2>1, Facts DEF RpcInv, Typed, TypeOK
<1>2. OneResponse
    BY Facts DEF OneResponse
<1>3. RegistrationsRestored
  <2>1. ws.conn > 0 => ws.conn \in Conns
      BY Facts
  <2> QED
      BY <2>1 DEF RpcInv, Registered, Unheard, RegistrationsRestored, Settled
<1> QED
    BY <1>1, <1>2, <1>3 DEF RpcInv, ResponsesTracked

\* For any requests, any number of connections and any order of the handlers,
\* in all three modes: no request gets a second response, a websocket request
\* without one is on the list or in the hands of the input handler unless
\* resendRequests dropped it, and a connection at rest has the registrations
\* the client believes to have, those refused on this very connection excepted:
\* one refused before a reconnect is made again, and one refused to
\* resendRequests ends the connection (addRequest, removeRequest, handleMessage,
\* resendRequests, Shutdown, sendPostHandler, failBatchRequests).
THEOREM ResponsesAlwaysTracked ==
    Spec => []ResponsesTracked
<1>1. RpcInv /\ Asked /\ [Next]_vars => RpcInv' /\ Asked'
    BY StepOK, AskedStep
<1>3. Init => RpcInv /\ Asked
  <2>1. Init => Asked
      BY DEF Init, Asked
  <2> QED
      BY <2>1, InitOK
<1>2. Spec => []RpcInv
    BY <1>1, <1>3, PTL DEF Spec
<1> QED
    BY <1>2, InvImplies, PTL
=============================================================================
