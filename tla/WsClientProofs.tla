--------------------------- MODULE WsClientProofs ---------------------------
(***************************************************************************)
(* Theorems about WsClient, for any number of clients, any room in the     *)
(* channels, any messages and any bounds: notifications reach a client as  *)
(* they were queued, and no command runs without the right to it.          *)
(*                                                                         *)
(* The argument is about a token.  At most one notification of a client is *)
(* between notificationQueueHandler and ntfnSentChan at a time: it is held *)
(* by the queue handler, or lies in sendChan, or is being written, or its  *)
(* done signal waits in ntfnSentChan.  All the others wait, in order, in   *)
(* pendingNtfns and in ntfnChan.                                           *)
(***************************************************************************)
EXTENDS WsClient, SequenceTheorems, FiniteSetTheorems, TLAPS

-----------------------------------------------------------------------------
(* The inductive invariant. *)

ClientType ==
    [disconnected : BOOLEAN, auth : Reads, in : {"read", "acquire", "batch", "send", "done"},
     work : Seq(Single), isBatch : BOOLEAN, token : Slots \cup {None}, nq : {"select", "send", "done"}, nqMsg : Nat,
     out : {"select", "write", "drain", "done"}, outMsg : Nat \cup {Response},
     ntfnChan : Seq(Nat), sendChan : Seq(Nat \cup {Response}), sent : Seq(BOOLEAN),
     pending : Seq(Nat), waiting : BOOLEAN, messages : 0..MaxMessages]

SvcStates == {"free", "batch", "serve", "admin", "notifyblocks", "stopnotifyblocks", "rescan", "push", "send"}

QueueItems == ({"event"} \X (1..MaxEvents))
              \cup ({"add", "remove", "notifyblocks", "stopnotifyblocks"} \X Clients)

MgrType ==
    [queue : Seq(QueueItems), clients : SUBSET Clients, blocks : SUBSET Clients, todo : SUBSET Clients,
     event : Nat, push : Clients \cup {None}, quit : BOOLEAN, done : BOOLEAN]

Types ==
    /\ mgr \in MgrType
    /\ conn \in [Clients -> {"new", "adding", "open", "removing", "closed"}]
    /\ cl \in [Clients -> ClientType]
    /\ svc \in [Clients -> [Slots -> SvcStates]]
    /\ events \in 0..MaxEvents
    /\ given \in [Clients -> Seq(Nat)]
    /\ taken \in [Clients -> Seq(Nat)]

\* the notifications in sendChan, by their places
Carried(r) == {i \in DOMAIN r.sendChan : r.sendChan[i] # Response}

Writing(r) == r.out = "write" /\ r.outMsg # Response

\* the channels keep to their room, and the handlers run for an open connection
Rooms(r, k) ==
    /\ Len(r.ntfnChan) <= 1 /\ Len(r.sendChan) <= SendBuffer /\ Len(r.sent) <= 1
    /\ k \in {"new", "adding"} => r.nq = "done" /\ r.out = "done"
    /\ r.out = "drain" => r.disconnected

\* there is at most one token, and none unless the queue handler waits for it
OneToken(r) ==
    /\ \A i, j \in Carried(r) : i = j
    /\ r.nq = "send" => Carried(r) = {} /\ ~ Writing(r) /\ r.sent = <<>>
    /\ Carried(r) # {} => ~ Writing(r) /\ r.sent = <<>>
    /\ Writing(r) => r.sent = <<>>
    /\ (r.nq = "send" \/ Carried(r) # {} \/ Writing(r) \/ r.sent # <<>> \/ r.pending # <<>>) => r.waiting

\* the notification that goes with the token
Way(r) ==
    IF r.nq = "send" THEN <<r.nqMsg>>
    ELSE IF Writing(r) THEN <<r.outMsg>>
    ELSE IF Carried(r) # {} THEN <<r.sendChan[CHOOSE i \in Carried(r) : TRUE]>>
    ELSE <<>>

Cat(a, b) == a \o b

\* what was taken from the callers is what was written, what is on its way and
\* what waits, in this order
InOrder(r, g, t) == ~ r.disconnected => g = Cat(t, Cat(Way(r), Cat(r.pending, r.ntfnChan)))

\* commands run, and are about to, only for those who may call them
Allowed(r, v) ==
    /\ \A s \in Slots : /\ (v[s] \notin {"free", "batch"} => r.auth # "unauthenticated")
                        /\ (v[s] = "admin" => r.auth = "admin")
    /\ r.in = "acquire" /\ ~ r.isBatch =>
        /\ Len(r.work) = 1 /\ r.work[1] \in Commands
        /\ r.auth # "unauthenticated"
        /\ r.work[1] = "admin" => r.auth = "admin"

ClientOK(c) ==
    /\ Rooms(cl[c], conn[c])
    /\ OneToken(cl[c])
    /\ InOrder(cl[c], given[c], taken[c])
    /\ Allowed(cl[c], svc[c])

WsInv == Types /\ \A c \in Clients : ClientOK(c)

LEMMA Bounds ==
    /\ SendBuffer \in Nat \ {0} /\ MaxEvents \in Nat /\ MaxMessages \in Nat
    /\ None \notin Clients
    BY WsAssumption

-----------------------------------------------------------------------------
(* The invariant implies the properties. *)

LEMMA NtfnsOfNone ==
    ASSUME NEW q \in Seq(Nat \cup {Response}), \A i \in DOMAIN q : q[i] = Response
    PROVE  Ntfns(q) = <<>>
<1> DEFINE I == {i \in DOMAIN q : q[i] # Response}
<1>1. I = {}
    OBVIOUS
<1>2. Cardinality(I) = 0
    BY <1>1, FS_EmptySet
<1> DEFINE pick(n) == q[CHOOSE i \in I : Cardinality({j \in I : j < i}) = n - 1]
<1>3. Ntfns(q) = [n \in 1..Cardinality(I) |-> pick(n)]
    BY DEF Ntfns
<1> HIDE DEF pick, I
<1>4. [n \in 1..0 |-> pick(n)] = <<>>
    OBVIOUS
<1> QED
    BY <1>2, <1>3, <1>4

LEMMA NtfnsOfOne ==
    ASSUME NEW q \in Seq(Nat \cup {Response}), NEW k \in DOMAIN q, q[k] # Response,
           \A i \in DOMAIN q : q[i] # Response => i = k
    PROVE  Ntfns(q) = <<q[k]>>
<1> DEFINE I == {i \in DOMAIN q : q[i] # Response}
           below(i) == {j \in I : j < i}
<1>1. I = {k}
    OBVIOUS
<1>2. Cardinality(I) = 1
    BY <1>1, FS_Singleton
<1>3. k \in Nat
    OBVIOUS
<1>4. below(k) = {}
    BY <1>1, <1>3
<1>5. Cardinality(below(k)) = 0
    BY <1>4, FS_EmptySet
<1>6. (CHOOSE i \in I : Cardinality(below(i)) = 0) = k
    BY <1>1, <1>5
<1>7. Ntfns(q) = [n \in 1..1 |-> q[CHOOSE i \in I : Cardinality(below(i)) = n - 1]]
    BY <1>2 DEF Ntfns
<1>8. \A n \in 1..1 : n - 1 = 0
    OBVIOUS
<1>9. Ntfns(q) = [n \in 1..1 |-> q[k]]
    BY <1>6, <1>7, <1>8
<1> QED
    BY <1>9

LEMMA OnTheWay ==
    ASSUME NEW r \in ClientType, OneToken(r)
    PROVE  /\ Way(r) = (IF r.out = "write" THEN Ntfns(<<r.outMsg>>) ELSE <<>>)
                       \o Ntfns(r.sendChan) \o (IF r.nq = "send" THEN <<r.nqMsg>> ELSE <<>>)
           /\ Way(r) \in Seq(Nat)
           /\ (IF r.out = "write" THEN Ntfns(<<r.outMsg>>) ELSE <<>>) \in Seq(Nat)
           /\ Ntfns(r.sendChan) \in Seq(Nat)
           /\ (Carried(r) = {} <=> Ntfns(r.sendChan) = <<>>)
<1> DEFINE W == IF r.out = "write" THEN Ntfns(<<r.outMsg>>) ELSE <<>>
           Q == Ntfns(r.sendChan)
           N == IF r.nq = "send" THEN <<r.nqMsg>> ELSE <<>>
<1>1. /\ r.nqMsg \in Nat /\ r.outMsg \in Nat \cup {Response}
      /\ r.sendChan \in Seq(Nat \cup {Response})
    BY DEF ClientType
<1>2. Response \notin Nat /\ <<r.outMsg>> \in Seq(Nat \cup {Response})
    BY <1>1 DEF Response
<1>3. W = IF Writing(r) THEN <<r.outMsg>> ELSE <<>>
  <2>1. ASSUME r.outMsg = Response PROVE Ntfns(<<r.outMsg>>) = <<>>
    <3>1. \A i \in DOMAIN <<r.outMsg>> : <<r.outMsg>>[i] = Response
        BY <2>1
    <3> QED
        BY <1>2, <3>1, NtfnsOfNone
  <2>2. ASSUME r.outMsg # Response PROVE Ntfns(<<r.outMsg>>) = <<r.outMsg>>
    <3> DEFINE o == <<r.outMsg>>
    <3>1. 1 \in DOMAIN o /\ o[1] = r.outMsg /\ \A i \in DOMAIN o : o[i] # Response => i = 1
        OBVIOUS
    <3>2. Ntfns(o) = <<o[1]>>
        BY <1>2, <2>2, <3>1, NtfnsOfOne
    <3> QED
        BY <3>1, <3>2
  <2> QED
      BY <2>1, <2>2 DEF Writing
<1>6. W \in Seq(Nat)
  <2>1. Writing(r) => r.outMsg \in Nat
      BY <1>1 DEF Writing
  <2> HIDE DEF W
  <2> QED
      BY <1>3, <2>1
<1>4. CASE Carried(r) = {}
  <2>1. Q = <<>>
      BY <1>1, <1>4, NtfnsOfNone DEF Carried
  <2> HIDE DEF Q, W
  <2>2. Way(r) = W \o Q \o N
    <3>1. CASE r.nq = "send"
        BY <1>1, <1>3, <2>1, <3>1 DEF Way, OneToken
    <3>2. CASE r.nq # "send" /\ Writing(r)
      <4>1. r.outMsg \in Nat
          BY <1>1, <3>2 DEF Writing
      <4> QED
          BY <1>3, <2>1, <3>2, <4>1 DEF Way
    <3>3. CASE r.nq # "send" /\ ~ Writing(r)
        BY <1>3, <1>4, <2>1, <3>3 DEF Way
    <3> QED
        BY <3>1, <3>2, <3>3
  <2>3. Way(r) \in Seq(Nat)
      BY <1>1, <1>4 DEF Way, Writing
  <2> QED
      BY <1>4, <1>6, <2>1, <2>2, <2>3 DEF Q, W
<1>5. CASE Carried(r) # {}
  <2> DEFINE k == CHOOSE i \in Carried(r) : TRUE
  <2>1. k \in Carried(r)
      BY <1>5
  <2> HIDE DEF k
  <2>2. /\ k \in DOMAIN r.sendChan /\ r.sendChan[k] # Response
        /\ \A i \in DOMAIN r.sendChan : r.sendChan[i] # Response => i = k
      BY <2>1 DEF Carried, OneToken
  <2>3. Q = <<r.sendChan[k]>>
      BY <1>1, <2>2, NtfnsOfOne
  <2>4. r.nq # "send" /\ ~ Writing(r)
      BY <1>5 DEF OneToken
  <2>5. Way(r) = <<r.sendChan[k]>>
      BY <1>5, <2>4 DEF Way, k
  <2>6. r.sendChan[k] \in Nat
      BY <1>1, <2>2
  <2> HIDE DEF Q, W
  <2>7. Way(r) = W \o Q \o N
      BY <1>3, <2>3, <2>4, <2>5, <2>6
  <2>8. Q # <<>> /\ Q \in Seq(Nat) /\ Way(r) \in Seq(Nat)
      BY <2>3, <2>5, <2>6
  <2> QED
      BY <1>5, <1>6, <2>7, <2>8 DEF Q, W
<1> QED
    BY <1>4, <1>5

(* Concatenation, so that the provers see it as one symbol. *)

LEMMA CatType ==
    \A a, b \in Seq(Nat) : Cat(a, b) \in Seq(Nat)
    BY DEF Cat

LEMMA CatAssoc ==
    ASSUME NEW a \in Seq(Nat), NEW b \in Seq(Nat), NEW c \in Seq(Nat)
    PROVE  Cat(Cat(a, b), c) = Cat(a, Cat(b, c))
    BY DEF Cat

LEMMA CatEmpty ==
    ASSUME NEW a \in Seq(Nat)
    PROVE  Cat(a, <<>>) = a /\ Cat(<<>>, a) = a
    BY DEF Cat

LEMMA CatAppend ==
    ASSUME NEW a \in Seq(Nat), NEW x \in Nat
    PROVE  Append(a, x) = Cat(a, <<x>>) /\ <<x>> \in Seq(Nat)
    BY DEF Cat

LEMMA CatHead ==
    ASSUME NEW a \in Seq(Nat), a # <<>>
    PROVE  a = Cat(<<Head(a)>>, Tail(a)) /\ Head(a) \in Nat /\ Tail(a) \in Seq(Nat)
    BY DEF Cat

LEMMA Regroup ==
    ASSUME NEW t \in Seq(Nat), NEW w \in Seq(Nat), NEW q \in Seq(Nat), NEW n \in Seq(Nat),
         NEW p \in Seq(Nat), NEW e \in Seq(Nat)
    PROVE  Cat(t, Cat(Cat(Cat(w, q), n), Cat(p, e))) = Cat(Cat(Cat(Cat(Cat(t, w), q), n), p), e)
<1>1. /\ Cat(w, q) \in Seq(Nat) /\ Cat(Cat(w, q), n) \in Seq(Nat) /\ Cat(p, e) \in Seq(Nat)
      /\ Cat(t, w) \in Seq(Nat) /\ Cat(Cat(t, w), q) \in Seq(Nat) /\ Cat(Cat(Cat(t, w), q), n) \in Seq(Nat)
    BY CatType
<1>2. Cat(t, Cat(Cat(Cat(w, q), n), Cat(p, e))) = Cat(Cat(t, Cat(Cat(w, q), n)), Cat(p, e))
    BY <1>1, CatAssoc
<1>3. Cat(t, Cat(Cat(w, q), n)) = Cat(Cat(t, Cat(w, q)), n)
    BY <1>1, CatAssoc
<1>4. Cat(t, Cat(w, q)) = Cat(Cat(t, w), q)
    BY CatAssoc
<1>5. Cat(Cat(Cat(Cat(t, w), q), n), Cat(p, e)) = Cat(Cat(Cat(Cat(Cat(t, w), q), n), p), e)
    BY <1>1, CatAssoc
<1> QED
    BY <1>2, <1>3, <1>4, <1>5

LEMMA InvImplies ==
    WsInv => NtfnsDelivered /\ AuthRespected
<1> SUFFICES ASSUME WsInv PROVE NtfnsDelivered /\ AuthRespected
    OBVIOUS
<1>1. TypeOK
    BY DEF WsInv, Types, MgrType, ClientType, SvcStates, ClientOK, Rooms, TypeOK
<1>2. ASSUME NEW c \in Clients
      PROVE  /\ cl[c] \in ClientType /\ OneToken(cl[c])
             /\ InOrder(cl[c], given[c], taken[c]) /\ Allowed(cl[c], svc[c])
             /\ taken[c] \in Seq(Nat)
    BY DEF WsInv, Types, ClientOK
<1>3. NtfnsInOrder
  <2> SUFFICES ASSUME NEW c \in Clients, ~ cl[c].disconnected
               PROVE  given[c] = taken[c]
                         \o (IF cl[c].out = "write" THEN Ntfns(<<cl[c].outMsg>>) ELSE <<>>)
                         \o Ntfns(cl[c].sendChan)
                         \o (IF cl[c].nq = "send" THEN <<cl[c].nqMsg>> ELSE <<>>)
                         \o cl[c].pending \o cl[c].ntfnChan
      BY DEF NtfnsInOrder
  <2> DEFINE W == IF cl[c].out = "write" THEN Ntfns(<<cl[c].outMsg>>) ELSE <<>>
             Q == Ntfns(cl[c].sendChan)
             N == IF cl[c].nq = "send" THEN <<cl[c].nqMsg>> ELSE <<>>
  <2>1. Way(cl[c]) = W \o Q \o N /\ W \in Seq(Nat) /\ Q \in Seq(Nat)
      BY <1>2, OnTheWay
  <2>2. N \in Seq(Nat) /\ cl[c].pending \in Seq(Nat) /\ cl[c].ntfnChan \in Seq(Nat)
      BY <1>2 DEF ClientType
  <2>3. given[c] = Cat(taken[c], Cat(Way(cl[c]), Cat(cl[c].pending, cl[c].ntfnChan)))
      BY <1>2 DEF InOrder
  <2> HIDE DEF W, Q, N
  <2>4. Way(cl[c]) = Cat(Cat(W, Q), N) /\ taken[c] \in Seq(Nat) /\ W \in Seq(Nat) /\ Q \in Seq(Nat)
      BY <1>2, <2>1 DEF Cat
  <2>5. given[c] = Cat(Cat(Cat(Cat(Cat(taken[c], W), Q), N), cl[c].pending), cl[c].ntfnChan)
    <3> DEFINE T == taken[c]  P == cl[c].pending  E == cl[c].ntfnChan
    <3>1. /\ T \in Seq(Nat) /\ W \in Seq(Nat) /\ Q \in Seq(Nat) /\ N \in Seq(Nat)
          /\ P \in Seq(Nat) /\ E \in Seq(Nat)
        BY <2>2, <2>4
    <3> HIDE DEF T, P, E
    <3>2. Cat(T, Cat(Cat(Cat(W, Q), N), Cat(P, E))) = Cat(Cat(Cat(Cat(Cat(T, W), Q), N), P), E)
        BY <3>1, Regroup
    <3> QED
        BY <2>3, <2>4, <3>2 DEF T, P, E
  <2> QED
      BY <2>5 DEF W, Q, N, Cat
<1>4. SentHasRoom
    BY <1>2, OnTheWay DEF SentHasRoom, OneToken, Writing
<1>5. AuthRespected
    BY <1>2 DEF AuthRespected, Allowed
<1> QED
    BY <1>1, <1>3, <1>4, <1>5 DEF NtfnsDelivered
-----------------------------------------------------------------------------
(* What a step has to show: it is about one client, and leaves the others   *)
(* as they are.                                                             *)

Others(c) ==
    \A d \in Clients \ {c} :
        /\ cl'[d] = cl[d] /\ conn'[d] = conn[d] /\ svc'[d] = svc[d]
        /\ given'[d] = given[d] /\ taken'[d] = taken[d]

LEMMA OneClient ==
    ASSUME WsInv, NEW c \in Clients, Types', Others(c), ClientOK(c)'
    PROVE  WsInv'
  BY DEF WsInv, Others, ClientOK

\* the client's record is replaced
LEMMA PutClient ==
    ASSUME WsInv, NEW c \in Clients, NEW q \in ClientType, cl' = [cl EXCEPT ![c] = q]
    PROVE  cl'[c] = q /\ cl' \in [Clients -> ClientType] /\ \A d \in Clients \ {c} : cl'[d] = cl[d]
  BY DEF WsInv, Types

\* the state of one service goroutine is replaced
LEMMA PutService ==
    ASSUME WsInv, NEW c \in Clients, NEW s \in Slots, NEW x \in SvcStates,
           svc' = [svc EXCEPT ![c][s] = x]
    PROVE  /\ svc'[c] \in [Slots -> SvcStates] /\ svc' \in [Clients -> [Slots -> SvcStates]]
           /\ svc'[c][s] = x /\ \A e \in Slots \ {s} : svc'[c][e] = svc[c][e]
           /\ \A d \in Clients \ {c} : svc'[d] = svc[d]
<1> DEFINE v == [svc[c] EXCEPT ![s] = x]
<1>1. svc \in [Clients -> [Slots -> SvcStates]] /\ svc' = [svc EXCEPT ![c] = v]
    BY DEF WsInv, Types
<1>2. v \in [Slots -> SvcStates] /\ v[s] = x /\ \A e \in Slots \ {s} : v[e] = svc[c][e]
    BY <1>1
<1> HIDE DEF v
<1> QED
    BY <1>1, <1>2

\* two states of a client with the same notifications under way
SameQueues(r, q) ==
    /\ q.nq = r.nq /\ q.nqMsg = r.nqMsg /\ q.out = r.out /\ q.outMsg = r.outMsg
    /\ q.ntfnChan = r.ntfnChan /\ q.sendChan = r.sendChan /\ q.sent = r.sent
    /\ q.pending = r.pending /\ q.waiting = r.waiting
    /\ r.disconnected => q.disconnected

LEMMA QueuesKept ==
    ASSUME NEW r, NEW q, NEW k, NEW g, NEW t, SameQueues(r, q),
           Rooms(r, k), OneToken(r), InOrder(r, g, t)
    PROVE  Rooms(q, k) /\ OneToken(q) /\ InOrder(q, g, t)
<1>1. Carried(q) = Carried(r) /\ (Writing(q) <=> Writing(r))
    BY DEF SameQueues, Carried, Writing
<1>2. Way(q) = Way(r)
    BY <1>1 DEF Way, SameQueues
<1> QED
    BY <1>1, <1>2 DEF Rooms, OneToken, InOrder, SameQueues

\* a client whose queues stay as they are
LEMMA QuietClient ==
    ASSUME WsInv, NEW c \in Clients, Types', Others(c), SameQueues(cl[c], cl'[c]),
           conn'[c] = conn[c], given' = given, taken' = taken, Allowed(cl'[c], svc'[c])
    PROVE  WsInv'
<1>1. Rooms(cl[c], conn[c]) /\ OneToken(cl[c]) /\ InOrder(cl[c], given[c], taken[c])
    BY DEF WsInv, ClientOK
<1>2. Rooms(cl'[c], conn'[c]) /\ OneToken(cl'[c]) /\ InOrder(cl'[c], given'[c], taken'[c])
    BY <1>1, QueuesKept
<1>3. ClientOK(c)'
    BY <1>2 DEF ClientOK
<1> QED
    BY <1>3, OneClient

\* a step that leaves the clients alone
LEMMA NoClient ==
    ASSUME WsInv, Types', UNCHANGED <<conn, cl, svc, given, taken>>
    PROVE  WsInv'
  BY DEF WsInv, ClientOK

-----------------------------------------------------------------------------
(* The initial state. *)

LEMMA InitOK ==
    Init => WsInv
<1> SUFFICES ASSUME Init PROVE WsInv
    OBVIOUS
<1>1. PICK auth \in Reads : cl = [c \in Clients |-> [Fresh EXCEPT !.auth = auth]]
    BY DEF Init
<1>2. [Fresh EXCEPT !.auth = auth] \in ClientType
  <2>1. Fresh \in ClientType
    <3>1. 0 \in 0..MaxMessages /\ Response \in Nat \cup {Response} /\ "unauthenticated" \in Reads
        BY WsAssumption DEF Reads
    <3>2. /\ <<>> \in Seq(Single) /\ <<>> \in Seq(Nat) /\ <<>> \in Seq(Nat \cup {Response})
          /\ <<>> \in Seq(BOOLEAN)
        OBVIOUS
    <3> QED
        BY <3>1, <3>2 DEF Fresh, ClientType
  <2> QED
      BY <2>1 DEF ClientType
<1>3. Types
  <2>1. mgr \in MgrType
    <3>1. <<>> \in Seq(QueueItems)
        OBVIOUS
    <3> QED
        BY <3>1 DEF Init, MgrType
  <2>2. <<>> \in Seq(Nat) /\ 0 \in 0..MaxEvents
      BY Bounds
  <2> QED
      BY <1>1, <1>2, <2>1, <2>2 DEF Init, Types, SvcStates
<1>4. ASSUME NEW c \in Clients PROVE ClientOK(c)
  <2> DEFINE r == [Fresh EXCEPT !.auth = auth]
  <2>1. cl[c] = r
      BY <1>1
  <2>2. /\ r.sendChan = <<>> /\ r.out = "done" /\ r.nq = "done" /\ r.sent = <<>> /\ r.in = "done"
        /\ r.pending = <<>> /\ r.ntfnChan = <<>>
      BY DEF Fresh
  <2> HIDE DEF r
  <2>3. Carried(r) = {} /\ ~ Writing(r)
      BY <2>2 DEF Carried, Writing
  <2>4. Way(r) = <<>>
      BY <2>2, <2>3 DEF Way
  <2>5. given[c] = <<>> /\ taken[c] = <<>> /\ \A s \in Slots : svc[c][s] = "free"
      BY DEF Init
  <2>6. Cat(<<>>, Cat(<<>>, Cat(<<>>, <<>>))) = <<>>
    <3>1. <<>> \in Seq(Nat)
        OBVIOUS
    <3>2. Cat(<<>>, <<>>) = <<>>
        BY <3>1, CatEmpty
    <3> QED
        BY <3>2
  <2>7. InOrder(r, given[c], taken[c])
      BY <2>2, <2>4, <2>5, <2>6 DEF InOrder
  <2>8. Rooms(r, conn[c]) /\ OneToken(r) /\ Allowed(r, svc[c])
      BY <2>2, <2>3, <2>5, WsAssumption DEF Rooms, OneToken, Allowed
  <2> QED
      BY <2>1, <2>7, <2>8 DEF ClientOK
<1> QED
    BY <1>3, <1>4 DEF WsInv
-----------------------------------------------------------------------------
(* WebsocketHandler. *)

LEMMA WebsocketHandlerOK ==
    ASSUME WsInv, NEW c \in Clients, WebsocketHandler(c)
    PROVE  WsInv'
<1>1. Types' /\ Others(c)
    BY DEF WebsocketHandler, WsInv, Types, Others
<1>2. cl' = cl /\ svc' = svc /\ given' = given /\ taken' = taken /\ conn[c] = "new"
    BY DEF WebsocketHandler
<1>3. ClientOK(c)'
    BY <1>2 DEF WsInv, ClientOK, Rooms
<1> QED
    BY <1>1, <1>3, OneClient

LEMMA AddClientOK ==
    ASSUME WsInv, NEW c \in Clients, AddClient(c)
    PROVE  WsInv'
<1> DEFINE r == cl[c]
           q == [cl[c] EXCEPT !.in = "read", !.nq = "select", !.out = "select"]
<1>1. r \in ClientType /\ ClientOK(c) /\ mgr \in MgrType
    BY DEF WsInv, Types
<1>2. q \in ClientType
    BY <1>1 DEF ClientType
<1>3. cl' = [cl EXCEPT ![c] = q] /\ cl'[c] = q
    BY DEF AddClient, WsInv, Types
<1>4. mgr' \in MgrType
  <2>1. <<"add", c>> \in QueueItems
      BY DEF QueueItems
  <2>2. Append(mgr.queue, <<"add", c>>) \in Seq(QueueItems)
      BY <1>1, <2>1 DEF MgrType
  <2> QED
      BY <1>1, <2>2 DEF AddClient, MgrType
<1>5. Types' /\ Others(c) /\ conn'[c] = "open"
    BY <1>2, <1>3, <1>4 DEF AddClient, WsInv, Types, Others
<1>6. r.nq = "done" /\ r.out = "done"
    BY <1>1 DEF AddClient, ClientOK, Rooms
<1>7. /\ q.sendChan = r.sendChan /\ q.sent = r.sent /\ q.pending = r.pending /\ q.ntfnChan = r.ntfnChan
      /\ q.waiting = r.waiting /\ q.disconnected = r.disconnected /\ q.nq = "select" /\ q.out = "select"
      /\ q.in = "read" /\ q.auth = r.auth
    BY <1>1 DEF ClientType
<1> HIDE DEF q, r
<1>8. Carried(q) = Carried(r) /\ ~ Writing(r) /\ ~ Writing(q)
    BY <1>6, <1>7 DEF Carried, Writing
<1>9. Way(q) = Way(r)
    BY <1>6, <1>7, <1>8 DEF Way
<1>10. Rooms(r, conn[c]) /\ OneToken(r) /\ InOrder(r, given[c], taken[c]) /\ Allowed(r, svc[c])
    BY <1>1 DEF ClientOK, r
<1>11. Rooms(q, "open") /\ OneToken(q) /\ InOrder(q, given[c], taken[c])
    BY <1>6, <1>7, <1>8, <1>9, <1>10 DEF Rooms, OneToken, InOrder
<1>12. Allowed(q, svc[c])
    BY <1>7, <1>10 DEF Allowed
<1>13. ClientOK(c)'
    BY <1>3, <1>5, <1>11, <1>12 DEF ClientOK, AddClient
<1> QED
    BY <1>5, <1>13, OneClient

LEMMA RemoveClientOK ==
    ASSUME WsInv, NEW c \in Clients, RemoveClient(c)
    PROVE  WsInv'
<1>1. mgr' \in MgrType
  <2>1. <<"remove", c>> \in QueueItems /\ mgr \in MgrType
      BY DEF QueueItems, WsInv, Types
  <2>2. Append(mgr.queue, <<"remove", c>>) \in Seq(QueueItems)
      BY <2>1 DEF MgrType
  <2> QED
      BY <2>1, <2>2 DEF RemoveClient, MgrType
<1>2. Types' /\ Others(c) /\ conn'[c] = "closed"
    BY <1>1 DEF RemoveClient, WsInv, Types, Others
<1>3. ClientOK(c)'
    BY <1>2 DEF RemoveClient, WsInv, ClientOK, Rooms
<1> QED
    BY <1>2, <1>3, OneClient
-----------------------------------------------------------------------------
(* inHandler. *)

\* What is served may be served, and only the first login changes who the
\* client is.
LEMMA VerdictSound ==
    ASSUME NEW auth \in Reads, NEW m \in Single
    PROVE  /\ Verdict(auth, m) \in {"reply", "auth", "drop", "ignore", "serve"}
           /\ Verdict(auth, m) = "serve" =>
                m \in Commands /\ auth # "unauthenticated" /\ (m = "admin" => auth = "admin")
           /\ Verdict(auth, m) = "auth" => auth = "unauthenticated"
           /\ Granted(m) \in Reads
  BY DEF Verdict, Reads, Single, Commands, Logins, Granted

\* A client that has not logged in runs no command, so it may become any user.
LEMMA LoginAllowed ==
    ASSUME NEW r, NEW q, NEW v, Allowed(r, v), r.auth = "unauthenticated", q.in # "acquire"
    PROVE  Allowed(q, v)
  BY DEF Allowed

LEMMA InStopOK ==
    ASSUME WsInv, NEW c \in Clients, InStop(c)
    PROVE  WsInv'
<1> DEFINE r == cl[c]
           q == [cl[c] EXCEPT !.disconnected = TRUE, !.in = "done"]
<1>1. r \in ClientType /\ Allowed(r, svc[c])
    BY DEF WsInv, Types, ClientOK
<1>2. q \in ClientType
    BY <1>1 DEF ClientType
<1>3. cl' = [cl EXCEPT ![c] = q] /\ cl'[c] = q
    BY DEF InStop, WsInv, Types
<1>4. SameQueues(r, q) /\ q.in = "done" /\ q.auth = r.auth
    BY <1>1 DEF ClientType, SameQueues
<1> HIDE DEF q
<1>5. Types' /\ Others(c)
    BY <1>2, <1>3 DEF InStop, WsInv, Types, Others
<1>6. Allowed(q, svc[c])
    BY <1>1, <1>4 DEF Allowed
<1> QED
    BY <1>3, <1>4, <1>5, <1>6, QuietClient DEF InStop

LEMMA InReadOK ==
    ASSUME WsInv, NEW c \in Clients, NEW m \in Messages, InRead(c, m)
    PROVE  WsInv'
<1> DEFINE o == cl[c]
           r == [cl[c] EXCEPT !.messages = @ + 1]
           v == IF m.batch THEN "batch" ELSE Verdict(r.auth, m.msgs[1])
           q == CASE v = "drop" -> [r EXCEPT !.disconnected = TRUE, !.in = "done"]
                  [] v = "reply" -> [r EXCEPT !.in = "send"]
                  [] v = "ignore" -> r
                  [] v = "auth" -> [r EXCEPT !.auth = Granted(m.msgs[1]), !.in = "send"]
                  [] v = "serve" -> [r EXCEPT !.in = "acquire", !.work = m.msgs, !.isBatch = FALSE]
                  [] v = "batch" -> [r EXCEPT !.in = "acquire", !.work = m.msgs, !.isBatch = TRUE]
<1>1. /\ o \in ClientType /\ Allowed(o, svc[c])
      /\ m.batch \in BOOLEAN /\ m.msgs \in Seq(Single) /\ (m.batch \/ Len(m.msgs) = 1)
    BY WsAssumption DEF WsInv, Types, ClientOK
<1>2. o.messages + 1 \in 0..MaxMessages
  <2>1. o.messages \in 0..MaxMessages /\ MaxMessages \in Nat
      BY <1>1, Bounds DEF ClientType
  <2>2. o.messages < MaxMessages
      BY DEF InRead
  <2> QED
      BY <2>1, <2>2
<1>3. r \in ClientType /\ SameQueues(o, r) /\ r.auth = o.auth /\ r.in = "read" /\ r.disconnected = o.disconnected
    BY <1>1, <1>2 DEF ClientType, SameQueues, InRead, Reading
<1>4. cl' = [cl EXCEPT ![c] = q]
    BY DEF InRead
<1> HIDE DEF r
<1>7. ~ m.batch => m.msgs[1] \in Single
    BY <1>1
<1>8. r.auth \in Reads
    BY <1>3 DEF ClientType
<1>9. /\ v \in {"drop", "reply", "ignore", "auth", "serve", "batch"}
      /\ v = "serve" => /\ ~ m.batch /\ m.msgs[1] \in Commands /\ r.auth # "unauthenticated"
                        /\ m.msgs[1] = "admin" => r.auth = "admin"
      /\ v = "auth" => r.auth = "unauthenticated" /\ Granted(m.msgs[1]) \in Reads
    BY <1>7, <1>8, VerdictSound
<1>10. Allowed(r, svc[c])
    BY <1>1, <1>3 DEF Allowed
<1> HIDE DEF v, q
<1>11. q \in ClientType /\ SameQueues(r, q) /\ Allowed(q, svc[c])
  <2>1. CASE v = "drop"
    <3>1. q = [r EXCEPT !.disconnected = TRUE, !.in = "done"]
        BY <2>1 DEF q
    <3>2. q \in ClientType /\ SameQueues(r, q) /\ q.in = "done" /\ q.auth = r.auth
        BY <1>3, <3>1 DEF ClientType, SameQueues
    <3> QED
        BY <1>10, <3>2 DEF Allowed
  <2>2. CASE v = "reply"
    <3>1. q = [r EXCEPT !.in = "send"]
        BY <2>2 DEF q
    <3>2. q \in ClientType /\ SameQueues(r, q) /\ q.in = "send" /\ q.auth = r.auth
        BY <1>3, <3>1 DEF ClientType, SameQueues
    <3> QED
        BY <1>10, <3>2 DEF Allowed
  <2>3. CASE v = "ignore"
    <3>1. q = r
        BY <2>3 DEF q
    <3> QED
        BY <1>3, <1>10, <3>1 DEF SameQueues
  <2>4. CASE v = "auth"
    <3>1. q = [r EXCEPT !.auth = Granted(m.msgs[1]), !.in = "send"]
        BY <2>4 DEF q
    <3>2. q \in ClientType /\ SameQueues(r, q) /\ q.in = "send"
        BY <1>3, <1>9, <2>4, <3>1 DEF ClientType, SameQueues
    <3> QED
        BY <1>9, <1>10, <2>4, <3>2, LoginAllowed
  <2>5. CASE v = "serve"
    <3>1. q = [r EXCEPT !.in = "acquire", !.work = m.msgs, !.isBatch = FALSE]
        BY <2>5 DEF q
    <3>2. q \in ClientType /\ SameQueues(r, q) /\ q.auth = r.auth /\ q.work = m.msgs
        BY <1>1, <1>3, <3>1 DEF ClientType, SameQueues
    <3> QED
        BY <1>1, <1>9, <1>10, <2>5, <3>2 DEF Allowed
  <2>6. CASE v = "batch"
    <3>1. q = [r EXCEPT !.in = "acquire", !.work = m.msgs, !.isBatch = TRUE]
        BY <2>6 DEF q
    <3>2. q \in ClientType /\ SameQueues(r, q) /\ q.auth = r.auth /\ q.isBatch = TRUE
        BY <1>1, <1>3, <3>1 DEF ClientType, SameQueues
    <3> QED
        BY <1>10, <3>2 DEF Allowed
  <2> QED
      BY <1>9, <2>1, <2>2, <2>3, <2>4, <2>5, <2>6
<1>12. SameQueues(o, q)
    BY <1>3, <1>11 DEF SameQueues
<1>13. cl'[c] = q /\ cl' \in [Clients -> ClientType] /\ \A d \in Clients \ {c} : cl'[d] = cl[d]
    BY <1>4, <1>11, PutClient
<1>14. Types' /\ Others(c)
    BY <1>13 DEF InRead, WsInv, Types, Others
<1> QED
    BY <1>11, <1>12, <1>13, <1>14, QuietClient DEF InRead

LEMMA InAcquireOK ==
    ASSUME WsInv, NEW c \in Clients, InAcquire(c)
    PROVE  WsInv'
<1> DEFINE r == cl[c]
<1>1. r \in ClientType /\ Allowed(r, svc[c])
    BY DEF WsInv, Types, ClientOK
<1>2. PICK s \in Slots :
        /\ svc[c][s] = "free"
        /\ IF r.isBatch
           THEN /\ svc' = [svc EXCEPT ![c][s] = "batch"]
                /\ cl' = [cl EXCEPT ![c].in = "batch", ![c].token = s]
           ELSE /\ svc' = [svc EXCEPT ![c][s] = Serving(r.work[1])]
                /\ cl' = [cl EXCEPT ![c].in = "read", ![c].work = <<>>]
    BY DEF InAcquire
<1>3. r.in = "acquire" /\ UNCHANGED <<mgr, conn, events, given, taken>>
    BY DEF InAcquire
<1>4. CASE r.isBatch
  <2> DEFINE q == [r EXCEPT !.in = "batch", !.token = s]
  <2>1. q \in ClientType /\ SameQueues(r, q) /\ q.in = "batch" /\ q.auth = r.auth
      BY <1>1 DEF ClientType, SameQueues
  <2>2. cl' = [cl EXCEPT ![c] = q]
      BY <1>2, <1>4
  <2> HIDE DEF q
  <2>3. cl'[c] = q /\ cl' \in [Clients -> ClientType] /\ \A d \in Clients \ {c} : cl'[d] = cl[d]
      BY <2>1, <2>2, PutClient
  <2>4. /\ svc' \in [Clients -> [Slots -> SvcStates]] /\ \A d \in Clients \ {c} : svc'[d] = svc[d]
        /\ svc'[c][s] = "batch" /\ \A e \in Slots \ {s} : svc'[c][e] = svc[c][e]
      BY <1>2, <1>4, PutService DEF SvcStates
  <2>5. Allowed(q, svc'[c])
      BY <1>1, <2>1, <2>4 DEF Allowed
  <2>6. Types' /\ Others(c)
      BY <1>3, <2>3, <2>4 DEF WsInv, Types, Others
  <2> QED
      BY <1>3, <2>1, <2>3, <2>5, <2>6, QuietClient
<1>5. CASE ~ r.isBatch
  <2> DEFINE q == [r EXCEPT !.in = "read", !.work = <<>>]
             x == Serving(r.work[1])
  <2>1. <<>> \in Seq(Single)
      OBVIOUS
  <2>2. q \in ClientType /\ SameQueues(r, q) /\ q.in = "read" /\ q.auth = r.auth
      BY <1>1, <2>1 DEF ClientType, SameQueues
  <2>3. cl' = [cl EXCEPT ![c] = q] /\ svc' = [svc EXCEPT ![c][s] = x]
      BY <1>2, <1>5
  <2>4. /\ r.work[1] \in Commands /\ r.auth # "unauthenticated"
        /\ r.work[1] = "admin" => r.auth = "admin"
      BY <1>1, <1>3, <1>5 DEF Allowed
  <2>5. x \in SvcStates /\ (x = "admin" => r.auth = "admin")
      BY <2>4 DEF Serving, Commands, SvcStates
  <2> HIDE DEF q, x
  <2>6. cl'[c] = q /\ cl' \in [Clients -> ClientType] /\ \A d \in Clients \ {c} : cl'[d] = cl[d]
      BY <2>2, <2>3, PutClient
  <2>7. /\ svc' \in [Clients -> [Slots -> SvcStates]] /\ \A d \in Clients \ {c} : svc'[d] = svc[d]
        /\ svc'[c][s] = x /\ \A e \in Slots \ {s} : svc'[c][e] = svc[c][e]
    <3>1. x \in SvcStates
        BY <2>5
    <3>2. svc' = [svc EXCEPT ![c][s] = x]
        BY <2>3
    <3>3. /\ svc'[c] \in [Slots -> SvcStates] /\ svc' \in [Clients -> [Slots -> SvcStates]]
          /\ svc'[c][s] = x /\ \A e \in Slots \ {s} : svc'[c][e] = svc[c][e]
          /\ \A d \in Clients \ {c} : svc'[d] = svc[d]
        BY <3>1, <3>2, PutService, Zenon
    <3> QED
        BY <3>3
  <2>8. Allowed(q, svc'[c])
      BY <1>1, <2>2, <2>4, <2>5, <2>7 DEF Allowed
  <2>9. Types' /\ Others(c)
      BY <1>3, <2>6, <2>7 DEF WsInv, Types, Others
  <2> QED
      BY <1>3, <2>2, <2>6, <2>8, <2>9, QuietClient
<1> QED
    BY <1>4, <1>5

LEMMA InBatchOK ==
    ASSUME WsInv, NEW c \in Clients, InBatch(c)
    PROVE  WsInv'
<1> DEFINE o == cl[c]
           m == Head(cl[c].work)
           v == Verdict(cl[c].auth, m)
           r == [cl[c] EXCEPT !.work = Tail(@)]
           x == IF v = "serve" THEN Serving(m) ELSE "batch"
           q == CASE v = "drop" -> [r EXCEPT !.disconnected = TRUE, !.in = "done"]
                  [] v = "auth" -> [r EXCEPT !.auth = Granted(m)]
                  [] OTHER -> r
<1>1. o \in ClientType /\ Allowed(o, svc[c])
    BY DEF WsInv, Types, ClientOK
<1>2. o.work \in Seq(Single) /\ o.work # <<>> /\ o.in = "batch" /\ o.auth \in Reads
    BY <1>1 DEF InBatch, ClientType
<1>3. m \in Single /\ Tail(o.work) \in Seq(Single)
    BY <1>2
<1>4. r \in ClientType /\ SameQueues(o, r) /\ r.auth = o.auth /\ r.in = "batch"
    BY <1>1, <1>2, <1>3 DEF ClientType, SameQueues
<1>5. PICK s \in Slots : svc' = [svc EXCEPT ![c][s] = x] /\ cl' = [cl EXCEPT ![c] = q]
    BY DEF InBatch
<1>6. UNCHANGED <<mgr, conn, events, given, taken>>
    BY DEF InBatch
<1>7. v = "auth" => o.auth = "unauthenticated" /\ Granted(m) \in Reads
    BY <1>2, <1>3, VerdictSound
<1>13. v = "serve" => /\ m \in Commands /\ o.auth # "unauthenticated"
                      /\ m = "admin" => o.auth = "admin"
    BY <1>2, <1>3, VerdictSound
<1>14. /\ x \in SvcStates /\ (x = "admin" => v = "serve" /\ o.auth = "admin")
       /\ (x # "batch" => v = "serve" /\ o.auth # "unauthenticated")
    BY <1>13 DEF Serving, Commands, SvcStates
<1> HIDE DEF r, v, q, m, x
<1>15. /\ svc' \in [Clients -> [Slots -> SvcStates]] /\ \A d \in Clients \ {c} : svc'[d] = svc[d]
       /\ svc'[c][s] = x /\ \A e \in Slots \ {s} : svc'[c][e] = svc[c][e]
  <2>1. svc' = [svc EXCEPT ![c][s] = x] /\ x \in SvcStates
      BY <1>5, <1>14
  <2>2. /\ svc'[c] \in [Slots -> SvcStates] /\ svc' \in [Clients -> [Slots -> SvcStates]]
        /\ svc'[c][s] = x /\ \A e \in Slots \ {s} : svc'[c][e] = svc[c][e]
        /\ \A d \in Clients \ {c} : svc'[d] = svc[d]
      BY <2>1, PutService, Zenon
  <2> QED
      BY <2>2
<1>8. Allowed(r, svc'[c])
    BY <1>1, <1>4, <1>14, <1>15 DEF Allowed
<1>9. q \in ClientType /\ SameQueues(r, q) /\ Allowed(q, svc'[c])
  <2>1. CASE v = "drop"
    <3>1. q = [r EXCEPT !.disconnected = TRUE, !.in = "done"]
        BY <2>1 DEF q
    <3>2. q \in ClientType /\ SameQueues(r, q) /\ q.in = "done" /\ q.auth = r.auth
        BY <1>4, <3>1 DEF ClientType, SameQueues
    <3> QED
        BY <1>8, <3>2 DEF Allowed
  <2>2. CASE v = "auth"
    <3>1. q = [r EXCEPT !.auth = Granted(m)]
        BY <2>2 DEF q
    <3>2. q \in ClientType /\ SameQueues(r, q) /\ q.in = "batch"
        BY <1>4, <1>7, <2>2, <3>1 DEF ClientType, SameQueues
    <3> QED
        BY <1>4, <1>7, <1>8, <2>2, <3>2, LoginAllowed
  <2>3. CASE v \notin {"drop", "auth"}
    <3>1. q = r
        BY <2>3 DEF q
    <3> QED
        BY <1>4, <1>8, <3>1 DEF SameQueues
  <2> QED
      BY <2>1, <2>2, <2>3
<1>10. SameQueues(o, q)
    BY <1>4, <1>9 DEF SameQueues
<1>11. cl'[c] = q /\ cl' \in [Clients -> ClientType] /\ \A d \in Clients \ {c} : cl'[d] = cl[d]
    BY <1>5, <1>9, PutClient
<1>12. Types' /\ Others(c)
    BY <1>6, <1>11, <1>15 DEF WsInv, Types, Others
<1> QED
    BY <1>6, <1>9, <1>10, <1>11, <1>12, QuietClient

LEMMA InBatchDoneOK ==
    ASSUME WsInv, NEW c \in Clients, InBatchDone(c)
    PROVE  WsInv'
<1> DEFINE r == cl[c]
           x == SendOr(cl[c], "read")
           y == IF r.disconnected THEN "free" ELSE "batch"
<1>1. r \in ClientType /\ Allowed(r, svc[c])
    BY DEF WsInv, Types, ClientOK
<1>2. x \in {"read", "send"} /\ y \in SvcStates /\ y \in {"free", "batch"}
    BY DEF SendOr, SvcStates
<1>3. PICK s \in Slots :
        /\ cl' = [cl EXCEPT ![c].in = x, ![c].token = IF r.disconnected THEN None ELSE s]
        /\ svc' = [svc EXCEPT ![c][s] = y]
    BY DEF InBatchDone
<1>4. UNCHANGED <<mgr, conn, events, given, taken>>
    BY DEF InBatchDone
<1> DEFINE k == IF r.disconnected THEN None ELSE s
           q == [r EXCEPT !.in = x, !.token = k]
<1>10. cl' = [cl EXCEPT ![c] = q] /\ k \in Slots \cup {None}
    BY <1>3
<1> HIDE DEF x, y, k
<1>5. q \in ClientType /\ SameQueues(r, q) /\ q.in # "acquire" /\ q.auth = r.auth
    BY <1>1, <1>2, <1>10 DEF ClientType, SameQueues
<1> HIDE DEF q
<1>6. /\ svc' \in [Clients -> [Slots -> SvcStates]] /\ \A d \in Clients \ {c} : svc'[d] = svc[d]
      /\ svc'[c][s] = y /\ \A e \in Slots \ {s} : svc'[c][e] = svc[c][e]
  <2>1. svc' = [svc EXCEPT ![c][s] = y] /\ y \in SvcStates
      BY <1>2, <1>3
  <2>2. /\ svc'[c] \in [Slots -> SvcStates] /\ svc' \in [Clients -> [Slots -> SvcStates]]
        /\ svc'[c][s] = y /\ \A e \in Slots \ {s} : svc'[c][e] = svc[c][e]
        /\ \A d \in Clients \ {c} : svc'[d] = svc[d]
      BY <2>1, PutService, Zenon
  <2> QED
      BY <2>2
<1>7. cl'[c] = q /\ cl' \in [Clients -> ClientType] /\ \A d \in Clients \ {c} : cl'[d] = cl[d]
    BY <1>5, <1>10, PutClient
<1>8. Types' /\ Others(c)
    BY <1>4, <1>6, <1>7 DEF WsInv, Types, Others
<1>9. Allowed(q, svc'[c])
    BY <1>1, <1>2, <1>5, <1>6 DEF Allowed
<1> QED
    BY <1>4, <1>5, <1>7, <1>8, <1>9, QuietClient

\* a response in sendChan is no notification
LEMMA ResponseQueued ==
    ASSUME NEW r \in ClientType, NEW q \in ClientType, NEW k, NEW g, NEW t,
           Len(r.sendChan) < SendBuffer,
           q.sendChan = Append(r.sendChan, Response),
           q.nq = r.nq, q.nqMsg = r.nqMsg, q.out = r.out, q.outMsg = r.outMsg, q.ntfnChan = r.ntfnChan,
           q.sent = r.sent, q.pending = r.pending, q.waiting = r.waiting, q.disconnected = r.disconnected,
           Rooms(r, k), OneToken(r), InOrder(r, g, t)
    PROVE  Rooms(q, k) /\ OneToken(q) /\ InOrder(q, g, t)
<1>1. r.sendChan \in Seq(Nat \cup {Response})
    BY DEF ClientType
<1>2. /\ Len(q.sendChan) = Len(r.sendChan) + 1
      /\ \A i \in DOMAIN q.sendChan : i \in DOMAIN r.sendChan \/ q.sendChan[i] = Response
      /\ \A i \in DOMAIN r.sendChan : i \in DOMAIN q.sendChan /\ q.sendChan[i] = r.sendChan[i]
    BY <1>1
<1>3. Carried(q) = Carried(r)
    BY <1>2 DEF Carried
<1>4. Writing(q) <=> Writing(r)
    BY DEF Writing
<1>5. (CHOOSE i \in Carried(q) : TRUE) = (CHOOSE i \in Carried(r) : TRUE)
    BY <1>3
<1>6. Carried(r) # {} => (CHOOSE i \in Carried(r) : TRUE) \in DOMAIN r.sendChan
    BY DEF Carried
<1>7. Way(q) = Way(r)
    BY <1>2, <1>3, <1>4, <1>5, <1>6 DEF Way
<1>8. Len(q.sendChan) <= SendBuffer
    BY <1>1, <1>2, Bounds
<1>9. Rooms(q, k)
    BY <1>8 DEF Rooms
<1> QED
    BY <1>3, <1>4, <1>7, <1>9 DEF OneToken, InOrder

\* a slot becomes free
Freed(v, k) == [s \in Slots |-> IF s = k THEN "free" ELSE v[s]]

LEMMA FreedAllowed ==
    ASSUME NEW r, NEW v \in [Slots -> SvcStates], NEW k, Allowed(r, v)
    PROVE  Freed(v, k) \in [Slots -> SvcStates] /\ Allowed(r, Freed(v, k))
  BY DEF Freed, Allowed, SvcStates

LEMMA InSendOK ==
    ASSUME WsInv, NEW c \in Clients, InSend(c)
    PROVE  WsInv'
<1> DEFINE r == cl[c]
           q == [r EXCEPT !.in = "read", !.sendChan = Append(@, Response), !.token = None]
           v == Freed(svc[c], r.token)
<1>1. /\ r \in ClientType /\ Allowed(r, svc[c]) /\ svc[c] \in [Slots -> SvcStates]
      /\ Rooms(r, conn[c]) /\ OneToken(r) /\ InOrder(r, given[c], taken[c])
    BY DEF WsInv, Types, ClientOK
<1>2. Append(r.sendChan, Response) \in Seq(Nat \cup {Response})
    BY <1>1 DEF ClientType
<1>3. /\ q \in ClientType /\ q.sendChan = Append(r.sendChan, Response) /\ q.in = "read" /\ q.auth = r.auth
      /\ q.nq = r.nq /\ q.nqMsg = r.nqMsg /\ q.out = r.out /\ q.outMsg = r.outMsg /\ q.ntfnChan = r.ntfnChan
      /\ q.sent = r.sent /\ q.pending = r.pending /\ q.waiting = r.waiting /\ q.disconnected = r.disconnected
    BY <1>1, <1>2 DEF ClientType
<1>4. /\ cl' = [cl EXCEPT ![c] = q] /\ UNCHANGED <<mgr, conn, events, given, taken>>
      /\ Len(r.sendChan) < SendBuffer
    BY DEF InSend
<1>5. svc' = [svc EXCEPT ![c] = v]
    BY DEF InSend, Freed, WsInv, Types
<1>6. v \in [Slots -> SvcStates] /\ Allowed(r, v)
    BY <1>1, FreedAllowed
<1> HIDE DEF q, v
<1>7. cl'[c] = q /\ cl' \in [Clients -> ClientType] /\ \A d \in Clients \ {c} : cl'[d] = cl[d]
    BY <1>3, <1>4, PutClient
<1>8. Types' /\ Others(c) /\ svc'[c] = v
    BY <1>4, <1>5, <1>6, <1>7 DEF WsInv, Types, Others
<1>9. Allowed(q, v)
    BY <1>3, <1>6 DEF Allowed
<1>10. Rooms(q, conn[c]) /\ OneToken(q) /\ InOrder(q, given[c], taken[c])
    BY <1>1, <1>3, <1>4, ResponseQueued
<1>11. ClientOK(c)'
    BY <1>4, <1>7, <1>8, <1>9, <1>10 DEF ClientOK
<1> QED
    BY <1>8, <1>11, OneClient
-----------------------------------------------------------------------------
(* serviceRequest. *)

LEMMA ServiceStep ==
    ASSUME WsInv, NEW c \in Clients, NEW s \in Slots, NEW x \in {"free", "send", "push", "serve", "batch"},
           svc[c][s] \notin {"free", "batch"}, svc' = [svc EXCEPT ![c][s] = x], NEW q, q.auth = cl[c].auth,
           q.in = cl[c].in, q.isBatch = cl[c].isBatch, q.work = cl[c].work
    PROVE  /\ svc' \in [Clients -> [Slots -> SvcStates]] /\ \A d \in Clients \ {c} : svc'[d] = svc[d]
           /\ Allowed(q, svc'[c])
<1>1. x \in SvcStates /\ x # "admin"
    BY DEF SvcStates
<1>2. /\ svc' \in [Clients -> [Slots -> SvcStates]] /\ \A d \in Clients \ {c} : svc'[d] = svc[d]
      /\ svc'[c][s] = x /\ \A e \in Slots \ {s} : svc'[c][e] = svc[c][e]
  <2>1. /\ svc'[c] \in [Slots -> SvcStates] /\ svc' \in [Clients -> [Slots -> SvcStates]]
        /\ svc'[c][s] = x /\ \A e \in Slots \ {s} : svc'[c][e] = svc[c][e]
        /\ \A d \in Clients \ {c} : svc'[d] = svc[d]
      BY <1>1, PutService, Zenon
  <2> QED
      BY <2>1
<1>3. Allowed(cl[c], svc[c])
    BY DEF WsInv, ClientOK
<1> QED
    BY <1>1, <1>2, <1>3 DEF Allowed

\* steps of a service goroutine that touch neither the client nor its queues
LEMMA ServiceOnly ==
    ASSUME WsInv, NEW c \in Clients, NEW s \in Slots, NEW x \in {"free", "send", "push", "serve", "batch"},
           svc[c][s] \notin {"free", "batch"}, svc' = [svc EXCEPT ![c][s] = x],
           UNCHANGED <<conn, cl, events, given, taken>>, mgr' \in MgrType
    PROVE  WsInv'
<1>1. /\ svc' \in [Clients -> [Slots -> SvcStates]] /\ \A d \in Clients \ {c} : svc'[d] = svc[d]
      /\ Allowed(cl[c], svc'[c])
    BY ServiceStep
<1>2. Types' /\ Others(c)
    BY <1>1 DEF WsInv, Types, Others
<1>3. ClientOK(c)'
    BY <1>1 DEF WsInv, ClientOK
<1> QED
    BY <1>2, <1>3, OneClient

LEMMA SvcRegisterOK ==
    ASSUME WsInv, NEW c \in Clients, NEW s \in Slots, SvcRegister(c, s)
    PROVE  WsInv'
<1>1. mgr \in MgrType /\ <<svc[c][s], c>> \in QueueItems
    BY DEF SvcRegister, WsInv, Types, QueueItems
<1>2. Append(mgr.queue, <<svc[c][s], c>>) \in Seq(QueueItems)
    BY <1>1 DEF MgrType
<1>3. mgr' \in MgrType
    BY <1>1, <1>2 DEF SvcRegister, MgrType
<1>4. Served(c, s) \in {"free", "send", "push", "serve", "batch"}
    BY DEF Served, SendOr
<1> QED
    BY <1>3, <1>4, ServiceOnly DEF SvcRegister

LEMMA SvcServeOK ==
    ASSUME WsInv, NEW c \in Clients, NEW s \in Slots, SvcServe(c, s)
    PROVE  WsInv'
<1>1. mgr' \in MgrType
    BY DEF SvcServe, WsInv, Types
<1>2. Served(c, s) \in {"free", "send", "push", "serve", "batch"}
    BY DEF Served, SendOr
<1> QED
    BY <1>1, <1>2, ServiceOnly DEF SvcServe

LEMMA SvcRescanOK ==
    ASSUME WsInv, NEW c \in Clients, NEW s \in Slots, SvcRescan(c, s)
    PROVE  WsInv'
<1>1. mgr' \in MgrType
    BY DEF SvcRescan, WsInv, Types
<1>2. Served(c, s) \in {"free", "send", "push", "serve", "batch"}
    BY DEF Served, SendOr
<1>3. \E x \in {"free", "send", "push", "serve", "batch"} : svc' = [svc EXCEPT ![c][s] = x]
    BY <1>2 DEF SvcRescan
<1> QED
    BY <1>1, <1>3, ServiceOnly DEF SvcRescan

\* a notification enters ntfnChan
LEMMA Pushed ==
    ASSUME NEW r \in ClientType, NEW q \in ClientType, NEW k, NEW g \in Seq(Nat), NEW t \in Seq(Nat),
           NEW e \in Nat, r.ntfnChan = <<>>, q.ntfnChan = <<e>>,
           q.nq = r.nq, q.nqMsg = r.nqMsg, q.out = r.out, q.outMsg = r.outMsg, q.sendChan = r.sendChan,
           q.sent = r.sent, q.pending = r.pending, q.waiting = r.waiting, q.disconnected = r.disconnected,
           Rooms(r, k), OneToken(r), InOrder(r, g, t)
    PROVE  Rooms(q, k) /\ OneToken(q) /\ InOrder(q, Append(g, e), t)
<1>1. Carried(q) = Carried(r) /\ (Writing(q) <=> Writing(r))
    BY DEF Carried, Writing
<1>2. Way(q) = Way(r)
    BY <1>1 DEF Way
<1>3. Rooms(q, k) /\ OneToken(q)
    BY <1>1 DEF Rooms, OneToken
<1>4. InOrder(q, Append(g, e), t)
  <2> SUFFICES ASSUME ~ r.disconnected PROVE Append(g, e) = Cat(t, Cat(Way(q), Cat(q.pending, <<e>>)))
      BY DEF InOrder
  <2> DEFINE w == Way(r)
             p == r.pending
             x == <<e>>
  <2>1. w \in Seq(Nat) /\ p \in Seq(Nat) /\ x \in Seq(Nat) /\ Cat(w, p) \in Seq(Nat)
      BY OnTheWay, CatType DEF ClientType
  <2>2. g = Cat(t, Cat(w, Cat(p, <<>>)))
      BY DEF InOrder
  <2> HIDE DEF w, p, x
  <2>3. g = Cat(t, Cat(w, p))
      BY <2>1, <2>2, CatEmpty
  <2>4. Append(g, e) = Cat(g, x)
      BY CatAppend DEF x
  <2>5. Cat(Cat(t, Cat(w, p)), x) = Cat(t, Cat(Cat(w, p), x))
      BY <2>1, CatAssoc
  <2>6. Cat(Cat(w, p), x) = Cat(w, Cat(p, x))
      BY <2>1, CatAssoc
  <2> QED
      BY <1>2, <2>3, <2>4, <2>5, <2>6 DEF w, p, x
<1> QED
    BY <1>3, <1>4

LEMMA SvcPushOK ==
    ASSUME WsInv, NEW c \in Clients, NEW s \in Slots, SvcPush(c, s)
    PROVE  WsInv'
<1> DEFINE r == cl[c]
           q == [r EXCEPT !.ntfnChan = <<0>>]
<1>1. /\ r \in ClientType /\ Rooms(r, conn[c]) /\ OneToken(r) /\ InOrder(r, given[c], taken[c])
      /\ given[c] \in Seq(Nat) /\ taken[c] \in Seq(Nat)
    BY DEF WsInv, Types, ClientOK
<1>2. <<0>> \in Seq(Nat)
    OBVIOUS
<1>3. /\ q \in ClientType /\ q.ntfnChan = <<0>> /\ q.in = r.in /\ q.auth = r.auth /\ q.isBatch = r.isBatch
      /\ q.nq = r.nq /\ q.nqMsg = r.nqMsg /\ q.out = r.out /\ q.outMsg = r.outMsg /\ q.sendChan = r.sendChan
      /\ q.sent = r.sent /\ q.pending = r.pending /\ q.waiting = r.waiting /\ q.disconnected = r.disconnected
      /\ q.work = r.work
    BY <1>1, <1>2 DEF ClientType
<1>4. /\ cl' = [cl EXCEPT ![c] = q] /\ UNCHANGED <<mgr, conn, events, taken>> /\ r.ntfnChan = <<>>
      /\ svc[c][s] = "push" /\ svc' = [svc EXCEPT ![c][s] = "serve"]
      /\ given' = [given EXCEPT ![c] = Append(@, 0)]
    BY DEF SvcPush
<1> HIDE DEF q
<1>5. cl'[c] = q /\ cl' \in [Clients -> ClientType] /\ \A d \in Clients \ {c} : cl'[d] = cl[d]
    BY <1>3, <1>4, PutClient
<1>6. /\ svc' \in [Clients -> [Slots -> SvcStates]] /\ \A d \in Clients \ {c} : svc'[d] = svc[d]
      /\ Allowed(q, svc'[c])
    BY <1>3, <1>4, ServiceStep
<1>7. Append(given[c], 0) \in Seq(Nat)
    BY <1>1
<1>8. given' \in [Clients -> Seq(Nat)] /\ given'[c] = Append(given[c], 0) /\ \A d \in Clients \ {c} : given'[d] = given[d]
    BY <1>4, <1>7 DEF WsInv, Types
<1>9. Types' /\ Others(c)
    BY <1>4, <1>5, <1>6, <1>8 DEF WsInv, Types, Others
<1>10. Rooms(q, conn[c]) /\ OneToken(q) /\ InOrder(q, Append(given[c], 0), taken[c])
    BY <1>1, <1>3, <1>4, Pushed
<1>11. ClientOK(c)'
    BY <1>4, <1>5, <1>6, <1>8, <1>10 DEF ClientOK
<1> QED
    BY <1>9, <1>11, OneClient

LEMMA SvcSendOK ==
    ASSUME WsInv, NEW c \in Clients, NEW s \in Slots, SvcSend(c, s)
    PROVE  WsInv'
<1> DEFINE r == cl[c]
           q == [r EXCEPT !.sendChan = Append(@, Response)]
<1>1. /\ r \in ClientType /\ Rooms(r, conn[c]) /\ OneToken(r) /\ InOrder(r, given[c], taken[c])
    BY DEF WsInv, Types, ClientOK
<1>2. Append(r.sendChan, Response) \in Seq(Nat \cup {Response})
    BY <1>1 DEF ClientType
<1>3. /\ q \in ClientType /\ q.sendChan = Append(r.sendChan, Response) /\ q.in = r.in /\ q.auth = r.auth
      /\ q.nq = r.nq /\ q.nqMsg = r.nqMsg /\ q.out = r.out /\ q.outMsg = r.outMsg /\ q.ntfnChan = r.ntfnChan
      /\ q.sent = r.sent /\ q.pending = r.pending /\ q.waiting = r.waiting /\ q.disconnected = r.disconnected
      /\ q.work = r.work /\ q.isBatch = r.isBatch
    BY <1>1, <1>2 DEF ClientType
<1>4. /\ cl' = [cl EXCEPT ![c] = q] /\ UNCHANGED <<mgr, conn, events, given, taken>>
      /\ Len(r.sendChan) < SendBuffer /\ svc[c][s] = "send" /\ svc' = [svc EXCEPT ![c][s] = "free"]
    BY DEF SvcSend
<1> HIDE DEF q
<1>5. cl'[c] = q /\ cl' \in [Clients -> ClientType] /\ \A d \in Clients \ {c} : cl'[d] = cl[d]
    BY <1>3, <1>4, PutClient
<1>6. /\ svc' \in [Clients -> [Slots -> SvcStates]] /\ \A d \in Clients \ {c} : svc'[d] = svc[d]
      /\ Allowed(q, svc'[c])
    BY <1>3, <1>4, ServiceStep
<1>7. Types' /\ Others(c)
    BY <1>4, <1>5, <1>6 DEF WsInv, Types, Others
<1>8. Rooms(q, conn[c]) /\ OneToken(q) /\ InOrder(q, given[c], taken[c])
    BY <1>1, <1>3, <1>4, ResponseQueued
<1>9. ClientOK(c)'
    BY <1>4, <1>5, <1>6, <1>8 DEF ClientOK
<1> QED
    BY <1>7, <1>9, OneClient
-----------------------------------------------------------------------------
(* notificationQueueHandler. *)

\* a step that moves notifications within the queues of one client
LEMMA QueueStep ==
    ASSUME WsInv, NEW c \in Clients, NEW q \in ClientType, cl' = [cl EXCEPT ![c] = q],
           UNCHANGED <<mgr, conn, svc, events, given, taken>>,
           q.in = cl[c].in, q.auth = cl[c].auth, q.isBatch = cl[c].isBatch, q.work = cl[c].work,
           Rooms(q, conn[c]), OneToken(q), InOrder(q, given[c], taken[c])
    PROVE  WsInv'
<1>1. cl'[c] = q /\ cl' \in [Clients -> ClientType] /\ \A d \in Clients \ {c} : cl'[d] = cl[d]
    BY PutClient
<1>2. Types' /\ Others(c)
    BY <1>1 DEF WsInv, Types, Others
<1>3. Allowed(q, svc[c])
    BY DEF WsInv, ClientOK, Allowed
<1>4. ClientOK(c)'
    BY <1>1, <1>3 DEF ClientOK
<1> QED
    BY <1>2, <1>4, OneClient

LEMMA QueueTypes ==
    ASSUME NEW r \in ClientType
    PROVE  /\ r.ntfnChan \in Seq(Nat) /\ r.sendChan \in Seq(Nat \cup {Response}) /\ r.sent \in Seq(BOOLEAN)
           /\ r.pending \in Seq(Nat) /\ r.nqMsg \in Nat /\ r.outMsg \in Nat \cup {Response}
  BY DEF ClientType

LEMMA NqTakeOK ==
    ASSUME WsInv, NEW c \in Clients, NqTake(c)
    PROVE  WsInv'
<1> DEFINE o == cl[c]
           e == Head(o.ntfnChan)
           r == [o EXCEPT !.ntfnChan = <<>>, !.waiting = TRUE]
           qa == [r EXCEPT !.pending = Append(@, e)]
           qb == [r EXCEPT !.sent = <<FALSE>>]
           qc == [r EXCEPT !.nq = "send", !.nqMsg = e]
<1>1. /\ o \in ClientType /\ Rooms(o, conn[c]) /\ OneToken(o) /\ InOrder(o, given[c], taken[c])
      /\ given[c] \in Seq(Nat) /\ taken[c] \in Seq(Nat)
    BY DEF WsInv, Types, ClientOK
<1>2. /\ cl' = [cl EXCEPT ![c] = IF o.waiting THEN qa ELSE IF r.disconnected THEN qb ELSE qc]
      /\ UNCHANGED <<mgr, conn, svc, events, given, taken>> /\ o.nq = "select" /\ o.ntfnChan # <<>>
    BY DEF NqTake
<1>3. o.ntfnChan = <<e>> /\ e \in Nat
    BY <1>1, <1>2, QueueTypes DEF Rooms
<1>4. <<>> \in Seq(Nat) /\ <<FALSE>> \in Seq(BOOLEAN)
    OBVIOUS
<1>5. /\ r \in ClientType /\ r.ntfnChan = <<>> /\ r.waiting = TRUE /\ r.nq = "select" /\ r.nqMsg = o.nqMsg
      /\ r.out = o.out /\ r.outMsg = o.outMsg /\ r.sendChan = o.sendChan /\ r.sent = o.sent
      /\ r.pending = o.pending /\ r.disconnected = o.disconnected /\ r.in = o.in /\ r.auth = o.auth
      /\ r.isBatch = o.isBatch /\ r.work = o.work
    BY <1>1, <1>2, <1>4 DEF ClientType
<1>6. Carried(r) = Carried(o) /\ (Writing(r) <=> Writing(o))
    BY <1>5 DEF Carried, Writing
<1>7. Way(r) = Way(o)
  <2>1. o.nq = "select"
      BY <1>2
  <2>2. r.nq = o.nq /\ r.nqMsg = o.nqMsg /\ r.outMsg = o.outMsg /\ r.sendChan = o.sendChan
      BY <1>5, <2>1
  <2> HIDE DEF r, o
  <2> QED
      BY <1>6, <2>2 DEF Way
<1>8. OneToken(r) /\ Rooms(r, conn[c])
    BY <1>1, <1>2, <1>5, <1>6, Bounds DEF OneToken, Rooms
<1> HIDE DEF r, e
<1>9. CASE o.waiting
  <2>1. Append(r.pending, e) \in Seq(Nat)
      BY <1>3, <1>5, QueueTypes
  <2>2. /\ qa \in ClientType /\ qa.pending = Append(r.pending, e) /\ qa.ntfnChan = <<>> /\ qa.waiting = TRUE
        /\ qa.nq = r.nq /\ qa.nqMsg = r.nqMsg /\ qa.out = r.out /\ qa.outMsg = r.outMsg
        /\ qa.sendChan = r.sendChan /\ qa.sent = r.sent /\ qa.disconnected = r.disconnected
        /\ qa.in = r.in /\ qa.auth = r.auth /\ qa.isBatch = r.isBatch /\ qa.work = r.work
      BY <1>5, <2>1 DEF ClientType
  <2>3. cl' = [cl EXCEPT ![c] = qa]
      BY <1>2, <1>9
  <2> HIDE DEF qa
  <2>4. Carried(qa) = Carried(r) /\ (Writing(qa) <=> Writing(r))
      BY <2>2 DEF Carried, Writing
  <2>5. Way(qa) = Way(r)
      BY <2>2, <2>4 DEF Way
  <2>6. OneToken(qa) /\ Rooms(qa, conn[c])
      BY <1>5, <1>8, <2>2, <2>4 DEF OneToken, Rooms
  <2>7. Append(r.pending, e) = Cat(o.pending, <<e>>)
      BY <1>3, <1>5, QueueTypes, CatAppend
  <2>8. Cat(qa.pending, qa.ntfnChan) = Cat(o.pending, o.ntfnChan)
      BY <1>3, <2>1, <2>2, <2>7, CatEmpty
  <2>9. InOrder(qa, given[c], taken[c])
      BY <1>1, <1>5, <1>7, <2>2, <2>5, <2>8 DEF InOrder
  <2> QED
    <3>1. /\ qa.in = cl[c].in /\ qa.auth = cl[c].auth /\ qa.isBatch = cl[c].isBatch /\ qa.work = cl[c].work
          /\ qa \in ClientType /\ UNCHANGED <<mgr, conn, svc, events, given, taken>>
        BY <1>2, <1>5, <2>2
    <3> QED
        BY <2>3, <2>6, <2>9, <3>1, QueueStep, Zenon
<1>10. CASE ~ o.waiting /\ r.disconnected
  <2>1. /\ qb \in ClientType /\ qb.sent = <<FALSE>> /\ qb.ntfnChan = <<>> /\ qb.waiting = TRUE
        /\ qb.nq = r.nq /\ qb.nqMsg = r.nqMsg /\ qb.out = r.out /\ qb.outMsg = r.outMsg
        /\ qb.sendChan = r.sendChan /\ qb.pending = r.pending /\ qb.disconnected = r.disconnected
        /\ qb.in = r.in /\ qb.auth = r.auth /\ qb.isBatch = r.isBatch /\ qb.work = r.work
      BY <1>4, <1>5 DEF ClientType
  <2>2. cl' = [cl EXCEPT ![c] = qb]
      BY <1>2, <1>10
  <2> HIDE DEF qb
  <2>3. Carried(qb) = Carried(r) /\ (Writing(qb) <=> Writing(r))
      BY <2>1 DEF Carried, Writing
  <2>4. Carried(o) = {} /\ ~ Writing(o)
      BY <1>1, <1>10 DEF OneToken
  <2>5. OneToken(qb)
      BY <1>5, <1>6, <2>1, <2>3, <2>4 DEF OneToken
  <2>6. Len(qb.sent) = 1
      BY <2>1
  <2>7. Rooms(qb, conn[c])
      BY <1>8, <1>5, <2>1, <2>6 DEF Rooms
  <2>8. InOrder(qb, given[c], taken[c])
      BY <1>10, <2>1 DEF InOrder
  <2> QED
    <3>1. /\ qb.in = cl[c].in /\ qb.auth = cl[c].auth /\ qb.isBatch = cl[c].isBatch /\ qb.work = cl[c].work
          /\ qb \in ClientType /\ UNCHANGED <<mgr, conn, svc, events, given, taken>>
        BY <1>2, <1>5, <2>1
    <3> QED
        BY <2>2, <2>5, <2>7, <2>8, <3>1, QueueStep, Zenon
<1>11. CASE ~ o.waiting /\ ~ r.disconnected
  <2>1. /\ qc \in ClientType /\ qc.ntfnChan = <<>> /\ qc.waiting = TRUE
        /\ qc.nq = "send" /\ qc.nqMsg = e /\ qc.out = r.out /\ qc.outMsg = r.outMsg /\ qc.sent = r.sent
        /\ qc.sendChan = r.sendChan /\ qc.pending = r.pending /\ qc.disconnected = r.disconnected
        /\ qc.in = r.in /\ qc.auth = r.auth /\ qc.isBatch = r.isBatch /\ qc.work = r.work
      BY <1>3, <1>5 DEF ClientType
  <2>2. cl' = [cl EXCEPT ![c] = qc]
      BY <1>2, <1>11
  <2> HIDE DEF qc
  <2>3. Carried(qc) = Carried(r) /\ (Writing(qc) <=> Writing(r))
      BY <2>1 DEF Carried, Writing
  <2>4. Carried(o) = {} /\ ~ Writing(o) /\ o.sent = <<>> /\ o.pending = <<>>
      BY <1>1, <1>11 DEF OneToken
  <2>5. OneToken(qc)
      BY <1>5, <1>6, <2>1, <2>3, <2>4 DEF OneToken
  <2>6. conn[c] \notin {"new", "adding"}
      BY <1>1, <1>2 DEF Rooms
  <2>7. Rooms(qc, conn[c])
      BY <1>8, <1>5, <2>1, <2>6 DEF Rooms
  <2>8. Way(o) = <<>> /\ Way(qc) = <<e>>
      BY <1>2, <2>1, <2>4 DEF Way
  <2>9. Cat(Way(o), Cat(o.pending, o.ntfnChan)) = Cat(Way(qc), Cat(qc.pending, qc.ntfnChan))
    <3> DEFINE x == <<e>>
    <3>1. x \in Seq(Nat) /\ <<>> \in Seq(Nat)
        BY <1>3
    <3> HIDE DEF x
    <3>2. Cat(<<>>, Cat(<<>>, x)) = Cat(x, Cat(<<>>, <<>>))
        BY <3>1, CatEmpty
    <3>3. o.pending = <<>> /\ qc.pending = <<>> /\ qc.ntfnChan = <<>> /\ o.ntfnChan = x
        BY <1>3, <1>5, <2>1, <2>4 DEF x
    <3>4. Way(o) = <<>> /\ Way(qc) = x
        BY <2>8 DEF x
    <3> QED
        BY <3>2, <3>3, <3>4
  <2>10. InOrder(qc, given[c], taken[c])
      BY <1>1, <1>5, <2>1, <2>9 DEF InOrder
  <2> QED
      BY <1>2, <1>5, <2>1, <2>2, <2>5, <2>7, <2>10, QueueStep, ZenonT(30)
<1> QED
    BY <1>9, <1>10, <1>11

LEMMA NqSentOK ==
    ASSUME WsInv, NEW c \in Clients, NqSent(c)
    PROVE  WsInv'
<1> DEFINE o == cl[c]
           r == [o EXCEPT !.sent = <<>>]
           qa == [r EXCEPT !.waiting = FALSE]
           qb == [r EXCEPT !.pending = Tail(@), !.sent = <<FALSE>>]
           qc == [r EXCEPT !.pending = Tail(@), !.nq = "send", !.nqMsg = Head(r.pending)]
<1>1. /\ o \in ClientType /\ Rooms(o, conn[c]) /\ OneToken(o) /\ InOrder(o, given[c], taken[c])
    BY DEF WsInv, Types, ClientOK
<1>2. /\ cl' = [cl EXCEPT ![c] = IF r.pending = <<>> THEN qa ELSE IF r.disconnected THEN qb ELSE qc]
      /\ UNCHANGED <<mgr, conn, svc, events, given, taken>> /\ o.nq = "select" /\ o.sent # <<>>
    BY DEF NqSent
<1>3. <<>> \in Seq(BOOLEAN) /\ <<FALSE>> \in Seq(BOOLEAN)
    OBVIOUS
<1>4. /\ r \in ClientType /\ r.ntfnChan = o.ntfnChan /\ r.waiting = o.waiting /\ r.nq = "select"
      /\ r.nqMsg = o.nqMsg /\ r.out = o.out /\ r.outMsg = o.outMsg /\ r.sendChan = o.sendChan /\ r.sent = <<>>
      /\ r.pending = o.pending /\ r.disconnected = o.disconnected /\ r.in = o.in /\ r.auth = o.auth
      /\ r.isBatch = o.isBatch /\ r.work = o.work
    BY <1>1, <1>2, <1>3 DEF ClientType
<1> HIDE DEF r
<1>5. Carried(o) = {} /\ ~ Writing(o) /\ o.waiting /\ conn[c] \notin {"new", "adding"}
    BY <1>1, <1>2 DEF OneToken, Rooms
<1>6. Carried(r) = {} /\ ~ Writing(r)
    BY <1>4, <1>5 DEF Carried, Writing
<1>7. Way(o) = <<>>
    BY <1>2, <1>5 DEF Way
<1>8. CASE r.pending = <<>>
  <2>1. /\ qa \in ClientType /\ qa.ntfnChan = r.ntfnChan /\ qa.nq = "select" /\ qa.nqMsg = r.nqMsg
        /\ qa.out = r.out /\ qa.outMsg = r.outMsg /\ qa.sent = <<>> /\ qa.waiting = FALSE
        /\ qa.sendChan = r.sendChan /\ qa.pending = r.pending /\ qa.disconnected = r.disconnected
        /\ qa.in = r.in /\ qa.auth = r.auth /\ qa.isBatch = r.isBatch /\ qa.work = r.work
      BY <1>4 DEF ClientType
  <2>2. cl' = [cl EXCEPT ![c] = qa]
      BY <1>2, <1>8
  <2> HIDE DEF qa
  <2>3. Carried(qa) = {} /\ ~ Writing(qa)
      BY <1>6, <2>1 DEF Carried, Writing
  <2>4. OneToken(qa)
      BY <1>8, <2>1, <2>3 DEF OneToken
  <2>5. Rooms(qa, conn[c])
      BY <1>1, <1>4, <1>5, <2>1 DEF Rooms
  <2>6. Way(qa) = <<>>
      BY <2>1, <2>3 DEF Way
  <2>7. InOrder(qa, given[c], taken[c])
      BY <1>1, <1>4, <1>7, <2>1, <2>6 DEF InOrder
  <2> QED
      BY <1>2, <1>4, <2>1, <2>2, <2>4, <2>5, <2>7, QueueStep
<1>9. ASSUME r.pending # <<>>
      PROVE  /\ r.pending = Cat(<<Head(r.pending)>>, Tail(r.pending))
             /\ Head(r.pending) \in Nat /\ Tail(r.pending) \in Seq(Nat)
  <2> DEFINE p == r.pending
  <2>1. p \in Seq(Nat) /\ p # <<>>
      BY <1>4, <1>9, QueueTypes
  <2> HIDE DEF p
  <2>2. p = Cat(<<Head(p)>>, Tail(p)) /\ Head(p) \in Nat /\ Tail(p) \in Seq(Nat)
      BY <2>1, CatHead
  <2> QED
      BY <2>2 DEF p
<1>10. CASE r.pending # <<>> /\ r.disconnected
  <2>1. /\ qb \in ClientType /\ qb.ntfnChan = r.ntfnChan /\ qb.nq = "select" /\ qb.nqMsg = r.nqMsg
        /\ qb.out = r.out /\ qb.outMsg = r.outMsg /\ qb.sent = <<FALSE>> /\ qb.waiting = r.waiting
        /\ qb.sendChan = r.sendChan /\ qb.disconnected = r.disconnected
        /\ qb.in = r.in /\ qb.auth = r.auth /\ qb.isBatch = r.isBatch /\ qb.work = r.work
      BY <1>3, <1>4, <1>9, <1>10 DEF ClientType
  <2>2. cl' = [cl EXCEPT ![c] = qb]
      BY <1>2, <1>10
  <2> HIDE DEF qb
  <2>3. Carried(qb) = {} /\ ~ Writing(qb)
      BY <1>6, <2>1 DEF Carried, Writing
  <2>4. OneToken(qb)
      BY <1>4, <1>5, <2>1, <2>3 DEF OneToken
  <2>5. Len(qb.sent) = 1
      BY <2>1
  <2>6. Rooms(qb, conn[c])
      BY <1>1, <1>4, <1>5, <2>1, <2>5 DEF Rooms
  <2>7. InOrder(qb, given[c], taken[c])
      BY <1>10, <2>1 DEF InOrder
  <2> QED
      BY <1>2, <1>4, <2>1, <2>2, <2>4, <2>6, <2>7, QueueStep
<1>11. CASE r.pending # <<>> /\ ~ r.disconnected
  <2>1. /\ qc \in ClientType /\ qc.ntfnChan = r.ntfnChan /\ qc.nq = "send" /\ qc.nqMsg = Head(r.pending)
        /\ qc.out = r.out /\ qc.outMsg = r.outMsg /\ qc.sent = <<>> /\ qc.waiting = r.waiting
        /\ qc.sendChan = r.sendChan /\ qc.disconnected = r.disconnected /\ qc.pending = Tail(r.pending)
        /\ qc.in = r.in /\ qc.auth = r.auth /\ qc.isBatch = r.isBatch /\ qc.work = r.work
      BY <1>4, <1>9, <1>11 DEF ClientType
  <2>2. cl' = [cl EXCEPT ![c] = qc]
      BY <1>2, <1>11
  <2> HIDE DEF qc
  <2>3. Carried(qc) = {} /\ ~ Writing(qc)
      BY <1>6, <2>1 DEF Carried, Writing
  <2>4. OneToken(qc)
      BY <1>4, <1>5, <2>1, <2>3 DEF OneToken
  <2>5. Rooms(qc, conn[c])
      BY <1>1, <1>4, <1>5, <2>1 DEF Rooms
  <2>6. Way(qc) = <<Head(r.pending)>>
      BY <2>1 DEF Way
  <2>7. Cat(Way(o), Cat(o.pending, o.ntfnChan)) = Cat(Way(qc), Cat(qc.pending, qc.ntfnChan))
    <3> DEFINE h == <<Head(r.pending)>>
               t == Tail(r.pending)
               n == o.ntfnChan
    <3>1. h \in Seq(Nat) /\ t \in Seq(Nat) /\ n \in Seq(Nat) /\ Cat(r.pending, n) \in Seq(Nat)
        BY <1>1, <1>4, <1>9, <1>11, QueueTypes, CatType
    <3>2. r.pending = Cat(h, t)
        BY <1>9, <1>11
    <3>3. qc.pending = t /\ qc.ntfnChan = n /\ o.pending = r.pending /\ Way(qc) = h /\ Way(o) = <<>>
        BY <1>4, <1>7, <2>1, <2>6
    <3> HIDE DEF h, t, n
    <3>4. Cat(<<>>, Cat(r.pending, n)) = Cat(r.pending, n)
        BY <3>1, CatEmpty
    <3>5. Cat(Cat(h, t), n) = Cat(h, Cat(t, n))
        BY <3>1, CatAssoc
    <3> QED
        BY <3>2, <3>3, <3>4, <3>5 DEF n
  <2>8. InOrder(qc, given[c], taken[c])
      BY <1>1, <1>4, <2>1, <2>7 DEF InOrder
  <2> QED
      BY <1>2, <1>4, <2>1, <2>2, <2>4, <2>5, <2>8, QueueStep
<1> QED
    BY <1>8, <1>10, <1>11

LEMMA NqSendOK ==
    ASSUME WsInv, NEW c \in Clients, NqSend(c)
    PROVE  WsInv'
<1> DEFINE r == cl[c]
           ch == Append(r.sendChan, r.nqMsg)
           q == [r EXCEPT !.nq = "select", !.sendChan = ch]
           k == Len(r.sendChan) + 1
<1>1. /\ r \in ClientType /\ Rooms(r, conn[c]) /\ OneToken(r) /\ InOrder(r, given[c], taken[c])
    BY DEF WsInv, Types, ClientOK
<1>2. /\ cl' = [cl EXCEPT ![c] = q] /\ r.nq = "send" /\ Len(r.sendChan) < SendBuffer
      /\ UNCHANGED <<mgr, conn, svc, events, given, taken>>
    BY DEF NqSend
<1>3. /\ ch \in Seq(Nat \cup {Response}) /\ Len(ch) = k /\ DOMAIN ch = 1..k /\ ch[k] = r.nqMsg
      /\ DOMAIN r.sendChan = 1..Len(r.sendChan) /\ Len(r.sendChan) \in Nat /\ r.nqMsg # Response
      /\ \A i \in DOMAIN r.sendChan : ch[i] = r.sendChan[i]
  <2>1. /\ r.sendChan \in Seq(Nat \cup {Response}) /\ r.nqMsg \in Nat
      BY <1>1, QueueTypes
  <2>2. r.nqMsg # Response
      BY <2>1 DEF Response
  <2>3. Len(r.sendChan) \in Nat /\ DOMAIN r.sendChan = 1..Len(r.sendChan)
      BY <2>1
  <2>4. /\ ch \in Seq(Nat \cup {Response}) /\ Len(ch) = k /\ ch[k] = r.nqMsg
        /\ \A i \in 1..Len(r.sendChan) : ch[i] = r.sendChan[i]
      BY <2>1, <2>3
  <2>5. DOMAIN ch = 1..k
      BY <2>4
  <2> QED
      BY <2>2, <2>3, <2>4, <2>5
<1> HIDE DEF ch
<1>4. /\ q \in ClientType /\ q.ntfnChan = r.ntfnChan /\ q.nq = "select" /\ q.nqMsg = r.nqMsg
      /\ q.out = r.out /\ q.outMsg = r.outMsg /\ q.sent = r.sent /\ q.waiting = r.waiting
      /\ q.sendChan = ch /\ q.disconnected = r.disconnected /\ q.pending = r.pending
      /\ q.in = r.in /\ q.auth = r.auth /\ q.isBatch = r.isBatch /\ q.work = r.work
    BY <1>1, <1>3 DEF ClientType
<1> HIDE DEF q
<1>5. Carried(r) = {} /\ ~ Writing(r) /\ r.sent = <<>> /\ r.waiting
    BY <1>1, <1>2 DEF OneToken
<1>6. \A i \in 1..k : i # k => i \in DOMAIN r.sendChan
    BY <1>3
<1>7. Carried(q) = {k} /\ ~ Writing(q)
  <2>1. \A i \in DOMAIN r.sendChan : r.sendChan[i] = Response
      BY <1>5 DEF Carried
  <2>2. k \in 1..k
      BY <1>3
  <2> HIDE DEF k
  <2> QED
      BY <1>3, <1>4, <1>5, <1>6, <2>1, <2>2 DEF Carried, Writing
<1>8. OneToken(q)
    BY <1>4, <1>5, <1>7 DEF OneToken
<1>9. Rooms(q, conn[c])
    BY <1>1, <1>2, <1>3, <1>4, Bounds DEF Rooms
<1>10. Way(q) = Way(r)
  <2>1. (CHOOSE i \in {k} : TRUE) = k
      OBVIOUS
  <2> HIDE DEF k
  <2> QED
      BY <1>2, <1>3, <1>4, <1>7, <2>1 DEF Way
<1>11. InOrder(q, given[c], taken[c])
    BY <1>1, <1>4, <1>10 DEF InOrder
<1> QED
    BY <1>2, <1>4, <1>8, <1>9, <1>11, QueueStep

LEMMA NqQuitOK ==
    ASSUME WsInv, NEW c \in Clients, NqQuit(c)
    PROVE  WsInv'
<1> DEFINE r == cl[c]
           q == [r EXCEPT !.nq = "done", !.ntfnChan = <<>>, !.sent = <<>>]
<1>1. /\ r \in ClientType /\ Rooms(r, conn[c]) /\ OneToken(r)
    BY DEF WsInv, Types, ClientOK
<1>2. /\ cl' = [cl EXCEPT ![c] = q] /\ r.disconnected /\ UNCHANGED <<mgr, conn, svc, events, given, taken>>
    BY DEF NqQuit
<1>3. <<>> \in Seq(Nat) /\ <<>> \in Seq(BOOLEAN)
    OBVIOUS
<1>4. /\ q \in ClientType /\ q.ntfnChan = <<>> /\ q.nq = "done" /\ q.nqMsg = r.nqMsg
      /\ q.out = r.out /\ q.outMsg = r.outMsg /\ q.sent = <<>> /\ q.waiting = r.waiting
      /\ q.sendChan = r.sendChan /\ q.disconnected = r.disconnected /\ q.pending = r.pending
      /\ q.in = r.in /\ q.auth = r.auth /\ q.isBatch = r.isBatch /\ q.work = r.work
    BY <1>1, <1>3 DEF ClientType
<1> HIDE DEF q
<1>5. Carried(q) = Carried(r) /\ (Writing(q) <=> Writing(r))
    BY <1>4 DEF Carried, Writing
<1>6. OneToken(q)
    BY <1>1, <1>4, <1>5 DEF OneToken
<1>7. Rooms(q, conn[c])
    BY <1>1, <1>4, Bounds DEF Rooms
<1>8. InOrder(q, given[c], taken[c])
    BY <1>2, <1>4 DEF InOrder
<1> QED
    BY <1>2, <1>4, <1>6, <1>7, <1>8, QueueStep
-----------------------------------------------------------------------------
(* outHandler. *)

\* the first message leaves sendChan: what is left of the notifications
LEMMA CarriedTail ==
    ASSUME NEW ch \in Seq(Nat \cup {Response}), ch # <<>>
    PROVE  /\ Head(ch) = ch[1] /\ Head(ch) \in Nat \cup {Response} /\ 1 \in DOMAIN ch
           /\ Tail(ch) \in Seq(Nat \cup {Response}) /\ Len(Tail(ch)) = Len(ch) - 1
           /\ \A i \in DOMAIN Tail(ch) : i + 1 \in DOMAIN ch /\ Tail(ch)[i] = ch[i + 1] /\ i + 1 # 1 /\ i \in Nat
           /\ \A i \in DOMAIN ch : i # 1 => i - 1 \in DOMAIN Tail(ch) /\ i = (i - 1) + 1
  OBVIOUS

\* a reply was first: the notification, if there is one, is still there
LEMMA ReplyFirst ==
    ASSUME NEW r \in ClientType, NEW q \in ClientType, r.sendChan # <<>>, Head(r.sendChan) = Response,
           q.sendChan = Tail(r.sendChan), OneToken(r)
    PROVE  /\ \A i, j \in Carried(q) : i = j
           /\ Carried(q) = {} <=> Carried(r) = {}
           /\ Carried(r) # {} => q.sendChan[CHOOSE i \in Carried(q) : TRUE] = r.sendChan[CHOOSE i \in Carried(r) : TRUE]
<1> DEFINE ch == r.sendChan
<1>1. ch \in Seq(Nat \cup {Response}) /\ ch # <<>> /\ Carried(r) = {i \in DOMAIN ch : ch[i] # Response}
    BY QueueTypes DEF Carried
<1>2. Head(ch) = Response /\ q.sendChan = Tail(ch) /\ Carried(q) = {i \in DOMAIN Tail(ch) : Tail(ch)[i] # Response}
    BY DEF Carried
<1>3. \A i, j \in Carried(r) : i = j
    BY DEF OneToken
<1> HIDE DEF ch
<1>4. /\ \A i \in Carried(q) : i + 1 \in Carried(r) /\ i \in Nat /\ q.sendChan[i] = ch[i + 1]
      /\ \A i \in Carried(r) : i - 1 \in Carried(q)
  <2>1. \A i \in Carried(q) : i + 1 \in Carried(r) /\ i \in Nat /\ q.sendChan[i] = ch[i + 1]
      BY <1>1, <1>2, CarriedTail
  <2>2. ASSUME NEW i \in Carried(r) PROVE i - 1 \in Carried(q)
    <3>1. i # 1 /\ i \in DOMAIN ch /\ ch[i] # Response
        BY <1>1, <1>2, CarriedTail
    <3> DEFINE j == i - 1
    <3>2. j \in DOMAIN Tail(ch) /\ i = j + 1
        BY <1>1, <3>1, CarriedTail
    <3> HIDE DEF j
    <3>3. Tail(ch)[j] = ch[i]
        BY <1>1, <3>2, CarriedTail
    <3>4. j \in Carried(q)
        BY <1>2, <3>1, <3>2, <3>3
    <3> QED
        BY <3>4 DEF j
  <2> QED
      BY <2>1, <2>2
<1>5. \A i, j \in Carried(q) : i = j
  <2> SUFFICES ASSUME NEW i \in Carried(q), NEW j \in Carried(q) PROVE i = j
      OBVIOUS
  <2>1. i + 1 = j + 1 /\ i \in Nat /\ j \in Nat
      BY <1>3, <1>4
  <2> QED
      BY <2>1
<1>6. Carried(q) = {} <=> Carried(r) = {}
    BY <1>4
<1>7. ASSUME Carried(r) # {}
      PROVE q.sendChan[CHOOSE i \in Carried(q) : TRUE] = ch[CHOOSE i \in Carried(r) : TRUE]
  <2> DEFINE a == CHOOSE i \in Carried(q) : TRUE
             b == CHOOSE i \in Carried(r) : TRUE
  <2>1. a \in Carried(q) /\ b \in Carried(r)
      BY <1>6, <1>7
  <2> HIDE DEF a, b
  <2>2. b = a + 1 /\ q.sendChan[a] = ch[a + 1]
      BY <1>3, <1>4, <2>1
  <2> QED
      BY <2>2 DEF a, b
<1> QED
    BY <1>5, <1>6, <1>7 DEF ch

\* a notification was first: it was the only one
LEMMA NtfnFirst ==
    ASSUME NEW r \in ClientType, NEW q \in ClientType, r.sendChan # <<>>, Head(r.sendChan) # Response,
           q.sendChan = Tail(r.sendChan), OneToken(r)
    PROVE  /\ Carried(q) = {} /\ Carried(r) # {} /\ Head(r.sendChan) \in Nat
           /\ r.sendChan[CHOOSE i \in Carried(r) : TRUE] = Head(r.sendChan)
<1> DEFINE ch == r.sendChan
           b == CHOOSE i \in Carried(r) : TRUE
<1>1. ch \in Seq(Nat \cup {Response}) /\ ch # <<>> /\ Carried(r) = {i \in DOMAIN ch : ch[i] # Response}
    BY QueueTypes DEF Carried
<1>2. Head(ch) # Response /\ q.sendChan = Tail(ch) /\ Carried(q) = {i \in DOMAIN Tail(ch) : Tail(ch)[i] # Response}
    BY DEF Carried
<1>3. \A i, j \in Carried(r) : i = j
    BY DEF OneToken
<1> HIDE DEF ch
<1>4. 1 \in Carried(r) /\ Head(ch) = ch[1] /\ Head(ch) \in Nat
    BY <1>1, <1>2, CarriedTail
<1>5. \A i \in Carried(q) : i + 1 \in Carried(r) /\ i + 1 # 1
    BY <1>1, <1>2, CarriedTail
<1>6. Carried(q) = {}
    BY <1>3, <1>4, <1>5
<1>7. b = 1
  <2>1. b \in Carried(r)
      BY <1>4
  <2> QED
      BY <1>3, <1>4, <2>1
<1> QED
    BY <1>4, <1>6, <1>7 DEF ch

LEMMA OutTakeOK ==
    ASSUME WsInv, NEW c \in Clients, OutTake(c)
    PROVE  WsInv'
<1> DEFINE r == cl[c]
           ch == r.sendChan
           q == [r EXCEPT !.out = "write", !.outMsg = Head(ch), !.sendChan = Tail(ch)]
<1>1. /\ r \in ClientType /\ Rooms(r, conn[c]) /\ OneToken(r) /\ InOrder(r, given[c], taken[c])
    BY DEF WsInv, Types, ClientOK
<1>2. /\ cl' = [cl EXCEPT ![c] = q] /\ r.out = "select" /\ ch # <<>>
      /\ UNCHANGED <<mgr, conn, svc, events, given, taken>>
    BY DEF OutTake
<1>3. Head(ch) \in Nat \cup {Response} /\ Tail(ch) \in Seq(Nat \cup {Response}) /\ Len(Tail(ch)) = Len(ch) - 1
    BY <1>1, <1>2, QueueTypes, CarriedTail
<1>4. /\ q \in ClientType /\ q.ntfnChan = r.ntfnChan /\ q.nq = r.nq /\ q.nqMsg = r.nqMsg
      /\ q.out = "write" /\ q.outMsg = Head(ch) /\ q.sent = r.sent /\ q.waiting = r.waiting
      /\ q.sendChan = Tail(ch) /\ q.disconnected = r.disconnected /\ q.pending = r.pending
      /\ q.in = r.in /\ q.auth = r.auth /\ q.isBatch = r.isBatch /\ q.work = r.work
    BY <1>1, <1>3 DEF ClientType
<1> HIDE DEF q
<1>5. Rooms(q, conn[c])
  <2>1. Len(ch) \in Nat
      BY <1>1, QueueTypes
  <2>2. Len(q.sendChan) <= SendBuffer
      BY <1>1, <1>3, <1>4, <2>1, Bounds DEF Rooms
  <2> QED
      BY <1>1, <1>2, <1>4, <2>2 DEF Rooms
<1>6. ~ Writing(r)
    BY <1>2 DEF Writing
<1>7. CASE Head(ch) = Response
  <2>1. /\ \A i, j \in Carried(q) : i = j
        /\ Carried(q) = {} <=> Carried(r) = {}
        /\ Carried(r) # {} => q.sendChan[CHOOSE i \in Carried(q) : TRUE] = r.sendChan[CHOOSE i \in Carried(r) : TRUE]
      BY <1>1, <1>2, <1>4, <1>7, ReplyFirst
  <2>2. ~ Writing(q)
      BY <1>4, <1>7 DEF Writing
  <2>3. OneToken(q)
      BY <1>1, <1>4, <1>6, <2>1, <2>2 DEF OneToken
  <2> HIDE DEF r
  <2>4. Way(q) = Way(r)
      BY <1>4, <1>6, <2>1, <2>2 DEF Way
  <2>5. InOrder(q, given[c], taken[c])
      BY <1>1, <1>4, <2>4 DEF InOrder
  <2> QED
      BY <1>2, <1>4, <1>5, <2>3, <2>5, QueueStep DEF r
<1>8. CASE Head(ch) # Response
  <2>1. /\ Carried(q) = {} /\ Carried(r) # {}
        /\ r.sendChan[CHOOSE i \in Carried(r) : TRUE] = Head(ch)
      BY <1>1, <1>2, <1>4, <1>8, NtfnFirst
  <2>2. Writing(q)
      BY <1>4, <1>8 DEF Writing
  <2>3. r.nq # "send" /\ r.sent = <<>> /\ r.waiting
      BY <1>1, <2>1 DEF OneToken
  <2>4. OneToken(q)
      BY <1>4, <2>1, <2>2, <2>3 DEF OneToken
  <2> HIDE DEF r
  <2>5. Way(q) = Way(r)
      BY <1>4, <1>6, <2>1, <2>2, <2>3 DEF Way
  <2>6. InOrder(q, given[c], taken[c])
      BY <1>1, <1>4, <2>5 DEF InOrder
  <2> QED
      BY <1>2, <1>4, <1>5, <2>4, <2>6, QueueStep DEF r
<1> QED
    BY <1>7, <1>8

LEMMA OutWriteOK ==
    ASSUME WsInv, NEW c \in Clients, OutWrite(c)
    PROVE  WsInv'
<1> DEFINE r == cl[c]
           qa == [r EXCEPT !.out = "select"]
           qb == [r EXCEPT !.out = "select", !.sent = <<TRUE>>]
<1>1. /\ r \in ClientType /\ Rooms(r, conn[c]) /\ OneToken(r) /\ InOrder(r, given[c], taken[c])
      /\ given[c] \in Seq(Nat) /\ taken[c] \in Seq(Nat)
    BY DEF WsInv, Types, ClientOK
<1>2. /\ r.out = "write" /\ ~ r.disconnected /\ UNCHANGED <<mgr, conn, svc, events, given>>
      /\ (r.outMsg = Response => cl' = [cl EXCEPT ![c] = qa] /\ UNCHANGED taken)
      /\ (r.outMsg # Response => /\ cl' = [cl EXCEPT ![c] = qb]
                                 /\ taken' = [taken EXCEPT ![c] = Append(@, r.outMsg)])
    BY DEF OutWrite
<1>3. <<TRUE>> \in Seq(BOOLEAN) /\ conn[c] \notin {"new", "adding"}
    BY <1>1, <1>2 DEF Rooms
<1>4. CASE r.outMsg = Response
  <2>1. /\ qa \in ClientType /\ qa.ntfnChan = r.ntfnChan /\ qa.nq = r.nq /\ qa.nqMsg = r.nqMsg
        /\ qa.out = "select" /\ qa.outMsg = r.outMsg /\ qa.sent = r.sent /\ qa.waiting = r.waiting
        /\ qa.sendChan = r.sendChan /\ qa.disconnected = r.disconnected /\ qa.pending = r.pending
        /\ qa.in = r.in /\ qa.auth = r.auth /\ qa.isBatch = r.isBatch /\ qa.work = r.work
      BY <1>1 DEF ClientType
  <2>2. cl' = [cl EXCEPT ![c] = qa] /\ UNCHANGED <<mgr, conn, svc, events, given, taken>>
      BY <1>2, <1>4
  <2> HIDE DEF qa
  <2>3. Carried(qa) = Carried(r) /\ ~ Writing(qa) /\ ~ Writing(r)
      BY <1>4, <2>1 DEF Carried, Writing
  <2>4. OneToken(qa)
      BY <1>1, <2>1, <2>3 DEF OneToken
  <2>5. Rooms(qa, conn[c])
      BY <1>1, <1>3, <2>1 DEF Rooms
  <2>6. Way(qa) = Way(r)
    <3> HIDE DEF r
    <3> QED
        BY <2>1, <2>3 DEF Way
  <2>7. InOrder(qa, given[c], taken[c])
      BY <1>1, <2>1, <2>6 DEF InOrder
  <2> QED
      BY <2>1, <2>2, <2>4, <2>5, <2>7, QueueStep
<1>5. CASE r.outMsg # Response
  <2>1. /\ qb \in ClientType /\ qb.ntfnChan = r.ntfnChan /\ qb.nq = r.nq /\ qb.nqMsg = r.nqMsg
        /\ qb.out = "select" /\ qb.outMsg = r.outMsg /\ qb.sent = <<TRUE>> /\ qb.waiting = r.waiting
        /\ qb.sendChan = r.sendChan /\ qb.disconnected = r.disconnected /\ qb.pending = r.pending
        /\ qb.in = r.in /\ qb.auth = r.auth /\ qb.isBatch = r.isBatch /\ qb.work = r.work
      BY <1>1, <1>3 DEF ClientType
  <2>2. /\ cl' = [cl EXCEPT ![c] = qb] /\ UNCHANGED <<mgr, conn, svc, events, given>>
        /\ taken' = [taken EXCEPT ![c] = Append(@, r.outMsg)]
      BY <1>2, <1>5
  <2> HIDE DEF qb
  <2>3. r.outMsg \in Nat /\ Append(taken[c], r.outMsg) \in Seq(Nat)
    <3>1. r.outMsg \in Nat
        BY <1>1, <1>5, QueueTypes
    <3> QED
        BY <1>1, <3>1
  <2>4. /\ taken' \in [Clients -> Seq(Nat)] /\ taken'[c] = Append(taken[c], r.outMsg)
        /\ \A d \in Clients \ {c} : taken'[d] = taken[d]
      BY <2>2, <2>3 DEF WsInv, Types
  <2>5. cl'[c] = qb /\ cl' \in [Clients -> ClientType] /\ \A d \in Clients \ {c} : cl'[d] = cl[d]
      BY <2>1, <2>2, PutClient
  <2>6. Types' /\ Others(c)
      BY <2>2, <2>4, <2>5 DEF WsInv, Types, Others
  <2>7. Writing(r) /\ ~ Writing(qb) /\ Carried(qb) = Carried(r)
      BY <1>2, <1>5, <2>1 DEF Writing, Carried
  <2>8. r.nq # "send" /\ Carried(r) = {} /\ r.waiting
      BY <1>1, <2>7 DEF OneToken
  <2>9. OneToken(qb)
      BY <2>1, <2>7, <2>8 DEF OneToken
  <2>10. Len(qb.sent) = 1
      BY <2>1
  <2>11. Rooms(qb, conn[c])
      BY <1>1, <1>3, <2>1, <2>10 DEF Rooms
  <2>12. Way(r) = <<r.outMsg>> /\ Way(qb) = <<>>
      BY <2>1, <2>7, <2>8 DEF Way
  <2>13. given[c] = Cat(Append(taken[c], r.outMsg), Cat(<<>>, Cat(r.pending, r.ntfnChan)))
    <3> DEFINE t == taken[c]
               x == <<r.outMsg>>
               rest == Cat(r.pending, r.ntfnChan)
    <3>1. t \in Seq(Nat) /\ x \in Seq(Nat) /\ rest \in Seq(Nat)
        BY <1>1, <2>3, QueueTypes, CatType
    <3>2. given[c] = Cat(t, Cat(x, rest))
        BY <1>1, <1>2, <2>12 DEF InOrder
    <3>3. Append(t, r.outMsg) = Cat(t, x)
        BY <1>1, <2>3, CatAppend
    <3> HIDE DEF t, x, rest
    <3>4. Cat(Cat(t, x), rest) = Cat(t, Cat(x, rest)) /\ Cat(<<>>, rest) = rest
        BY <3>1, CatAssoc, CatEmpty
    <3> QED
        BY <3>2, <3>3, <3>4 DEF t, rest
  <2>14. InOrder(qb, given[c], taken'[c])
      BY <2>1, <2>4, <2>12, <2>13 DEF InOrder
  <2>15. Allowed(qb, svc[c])
      BY <2>1 DEF WsInv, ClientOK, Allowed
  <2>16. ClientOK(c)'
      BY <2>2, <2>5, <2>9, <2>11, <2>14, <2>15 DEF ClientOK
  <2> QED
      BY <2>6, <2>16, OneClient
<1> QED
    BY <1>4, <1>5

\* the queues stay as they are, and the client is gone
LEMMA OutGoneOK ==
    ASSUME WsInv, NEW c \in Clients, NEW x \in {"drain", "done"}, cl[c].out # "write" \/ x = "drain",
           conn[c] \notin {"new", "adding"},
           cl' = [cl EXCEPT ![c].out = x, ![c].disconnected = TRUE],
           UNCHANGED <<mgr, conn, svc, events, given, taken>>
    PROVE  WsInv'
<1> DEFINE r == cl[c]
           q == [r EXCEPT !.out = x, !.disconnected = TRUE]
<1>1. /\ r \in ClientType /\ Rooms(r, conn[c]) /\ OneToken(r)
    BY DEF WsInv, Types, ClientOK
<1>2. cl' = [cl EXCEPT ![c] = q]
    OBVIOUS
<1>3. /\ q \in ClientType /\ q.ntfnChan = r.ntfnChan /\ q.nq = r.nq /\ q.nqMsg = r.nqMsg
      /\ q.out = x /\ q.outMsg = r.outMsg /\ q.sent = r.sent /\ q.waiting = r.waiting
      /\ q.sendChan = r.sendChan /\ q.disconnected = TRUE /\ q.pending = r.pending
      /\ q.in = r.in /\ q.auth = r.auth /\ q.isBatch = r.isBatch /\ q.work = r.work
    BY <1>1 DEF ClientType
<1> HIDE DEF q
<1>4. Carried(q) = Carried(r) /\ ~ Writing(q)
    BY <1>3 DEF Carried, Writing
<1>5. OneToken(q)
    BY <1>1, <1>3, <1>4 DEF OneToken
<1>6. Rooms(q, conn[c])
    BY <1>1, <1>3 DEF Rooms
<1>7. InOrder(q, given[c], taken[c])
    BY <1>3 DEF InOrder
<1> QED
    BY <1>2, <1>3, <1>5, <1>6, <1>7, QueueStep

LEMMA OutWriteFailsOK ==
    ASSUME WsInv, NEW c \in Clients, OutWriteFails(c)
    PROVE  WsInv'
<1>1. Rooms(cl[c], conn[c])
    BY DEF WsInv, ClientOK
<1>2. conn[c] \notin {"new", "adding"}
    BY <1>1 DEF OutWriteFails, Rooms
<1> QED
    BY <1>2, OutGoneOK DEF OutWriteFails

\* a field that has the value already
LEMMA SameField ==
    ASSUME WsInv, NEW c \in Clients, NEW x, cl[c].disconnected
    PROVE  [cl EXCEPT ![c].out = x] = [cl EXCEPT ![c].out = x, ![c].disconnected = TRUE]
<1> DEFINE r == cl[c]
<1>1. r \in ClientType
    BY DEF WsInv, Types
<1>2. r.disconnected = TRUE
    BY <1>1 DEF ClientType
<1>3. [r EXCEPT !.out = x] = [r EXCEPT !.out = x, !.disconnected = TRUE]
    BY <1>1, <1>2 DEF ClientType
<1> QED
    BY <1>3 DEF WsInv, Types

LEMMA OutQuitOK ==
    ASSUME WsInv, NEW c \in Clients, OutQuit(c)
    PROVE  WsInv'
<1>1. Rooms(cl[c], conn[c])
    BY DEF WsInv, ClientOK
<1>2. conn[c] \notin {"new", "adding"} /\ cl[c].disconnected
    BY <1>1 DEF OutQuit, Rooms
<1>3. cl' = [cl EXCEPT ![c].out = "drain", ![c].disconnected = TRUE]
    BY <1>2, SameField DEF OutQuit
<1> QED
    BY <1>2, <1>3, OutGoneOK DEF OutQuit

LEMMA OutDrainOK ==
    ASSUME WsInv, NEW c \in Clients, OutDrain(c)
    PROVE  WsInv'
<1> DEFINE r == cl[c]
           ch == r.sendChan
           qa == [r EXCEPT !.sendChan = Tail(ch)]
           qb == [r EXCEPT !.sendChan = Tail(ch), !.sent = <<FALSE>>]
<1>1. /\ r \in ClientType /\ Rooms(r, conn[c]) /\ OneToken(r)
    BY DEF WsInv, Types, ClientOK
<1>2. /\ r.out = "drain" /\ UNCHANGED <<mgr, conn, svc, events, given, taken>>
      /\ (ch = <<>> => cl' = [cl EXCEPT ![c].out = "done"])
      /\ (ch # <<>> /\ Head(ch) = Response => cl' = [cl EXCEPT ![c] = qa])
      /\ (ch # <<>> /\ Head(ch) # Response => cl' = [cl EXCEPT ![c] = qb])
    BY DEF OutDrain
<1>3. r.disconnected /\ conn[c] \notin {"new", "adding"} /\ ~ Writing(r)
    BY <1>1, <1>2 DEF Rooms, Writing
<1>4. <<FALSE>> \in Seq(BOOLEAN) /\ ch \in Seq(Nat \cup {Response})
    BY <1>1, QueueTypes
<1>5. CASE ch = <<>>
  <2>1. cl' = [cl EXCEPT ![c].out = "done", ![c].disconnected = TRUE]
      BY <1>2, <1>3, <1>5, SameField
  <2> QED
      BY <1>2, <1>3, <2>1, OutGoneOK
<1>6. ASSUME ch # <<>>
      PROVE  /\ Tail(ch) \in Seq(Nat \cup {Response}) /\ Len(Tail(ch)) = Len(ch) - 1 /\ Len(ch) \in Nat
             /\ Len(Tail(ch)) <= SendBuffer
  <2>1. /\ Tail(ch) \in Seq(Nat \cup {Response}) /\ Len(Tail(ch)) = Len(ch) - 1 /\ Len(ch) \in Nat
      BY <1>4, <1>6, CarriedTail
  <2> QED
      BY <1>1, <2>1, Bounds DEF Rooms
<1>7. CASE ch # <<>> /\ Head(ch) = Response
  <2>1. /\ qa \in ClientType /\ qa.ntfnChan = r.ntfnChan /\ qa.nq = r.nq /\ qa.nqMsg = r.nqMsg
        /\ qa.out = r.out /\ qa.outMsg = r.outMsg /\ qa.sent = r.sent /\ qa.waiting = r.waiting
        /\ qa.sendChan = Tail(ch) /\ qa.disconnected = r.disconnected /\ qa.pending = r.pending
        /\ qa.in = r.in /\ qa.auth = r.auth /\ qa.isBatch = r.isBatch /\ qa.work = r.work
      BY <1>1, <1>6, <1>7 DEF ClientType
  <2>2. cl' = [cl EXCEPT ![c] = qa]
      BY <1>2, <1>7
  <2> HIDE DEF qa
  <2>3. ~ Writing(qa)
      BY <1>2, <2>1 DEF Writing
  <2>4. (\A i, j \in Carried(qa) : i = j) /\ (Carried(qa) = {} <=> Carried(r) = {})
      BY <1>1, <1>7, <2>1, ReplyFirst
  <2>5. OneToken(qa)
      BY <1>1, <1>3, <2>1, <2>3, <2>4 DEF OneToken
  <2>6. Rooms(qa, conn[c])
      BY <1>1, <1>6, <1>7, <2>1 DEF Rooms
  <2>7. InOrder(qa, given[c], taken[c])
      BY <1>3, <2>1 DEF InOrder
  <2> QED
      BY <1>2, <2>1, <2>2, <2>5, <2>6, <2>7, QueueStep
<1>8. CASE ch # <<>> /\ Head(ch) # Response
  <2>1. /\ qb \in ClientType /\ qb.ntfnChan = r.ntfnChan /\ qb.nq = r.nq /\ qb.nqMsg = r.nqMsg
        /\ qb.out = r.out /\ qb.outMsg = r.outMsg /\ qb.sent = <<FALSE>> /\ qb.waiting = r.waiting
        /\ qb.sendChan = Tail(ch) /\ qb.disconnected = r.disconnected /\ qb.pending = r.pending
        /\ qb.in = r.in /\ qb.auth = r.auth /\ qb.isBatch = r.isBatch /\ qb.work = r.work
      BY <1>1, <1>4, <1>6, <1>8 DEF ClientType
  <2>2. cl' = [cl EXCEPT ![c] = qb]
      BY <1>2, <1>8
  <2> HIDE DEF qb
  <2>3. ~ Writing(qb)
      BY <1>2, <2>1 DEF Writing
  <2>4. Carried(qb) = {} /\ Carried(r) # {}
      BY <1>1, <1>8, <2>1, NtfnFirst
  <2>5. r.nq # "send" /\ r.waiting
      BY <1>1, <2>4 DEF OneToken
  <2>6. OneToken(qb)
      BY <2>1, <2>3, <2>4, <2>5 DEF OneToken
  <2>7. Len(qb.sent) = 1
      BY <2>1
  <2>8. Rooms(qb, conn[c])
      BY <1>1, <1>3, <1>6, <1>8, <2>1, <2>7 DEF Rooms
  <2>9. InOrder(qb, given[c], taken[c])
      BY <1>3, <2>1 DEF InOrder
  <2> QED
      BY <1>2, <2>1, <2>2, <2>6, <2>8, <2>9, QueueStep
<1> QED
    BY <1>5, <1>7, <1>8

-----------------------------------------------------------------------------
(* The notification manager. *)

LEMMA NotifyOK ==
    ASSUME WsInv, Notify
    PROVE  WsInv'
<1>1. mgr \in MgrType /\ events \in 0..MaxEvents /\ events < MaxEvents /\ MaxEvents \in Nat
    BY Bounds DEF WsInv, Types, Notify
<1>2. events + 1 \in 0..MaxEvents /\ events + 1 \in 1..MaxEvents
    BY <1>1
<1>3. <<"event", events + 1>> \in QueueItems
    BY <1>2 DEF QueueItems
<1>4. Append(mgr.queue, <<"event", events + 1>>) \in Seq(QueueItems)
    BY <1>1, <1>3 DEF MgrType
<1>5. [mgr EXCEPT !.queue = Append(@, <<"event", events + 1>>)] \in MgrType
    BY <1>1, <1>4 DEF MgrType
<1>6. mgr' \in MgrType
    BY <1>1, <1>5 DEF Notify
<1>7. Types'
    BY <1>2, <1>6 DEF Notify, WsInv, Types
<1> QED
    BY <1>7, NoClient DEF Notify

\* a step of the manager alone
LEMMA ManagerOnly ==
    ASSUME WsInv, mgr' \in MgrType, UNCHANGED <<conn, cl, svc, events, given, taken>>
    PROVE  WsInv'
<1>1. Types'
    BY DEF WsInv, Types
<1> QED
    BY <1>1, NoClient

LEMMA ManagerTypes ==
    ASSUME NEW m \in MgrType
    PROVE  m.clients \in SUBSET Clients /\ m.blocks \in SUBSET Clients /\ m.todo \in SUBSET Clients /\ m.event \in Nat
  BY DEF MgrType

LEMMA MgrHandleOK ==
    ASSUME WsInv, MgrHandle
    PROVE  WsInv'
<1> DEFINE h == Head(mgr.queue)
           m == [mgr EXCEPT !.queue = Tail(@)]
<1>1. mgr \in MgrType /\ mgr.queue \in Seq(QueueItems) /\ mgr.queue # <<>>
    BY DEF MgrHandle, WsInv, Types, MgrType
<1>2. h \in QueueItems /\ Tail(mgr.queue) \in Seq(QueueItems)
    BY <1>1
<1>3. m \in MgrType
    BY <1>1, <1>2 DEF MgrType
<1>4. mgr' = CASE h[1] = "event" -> [m EXCEPT !.todo = m.blocks,
                                        !.event = IF m.blocks = {} THEN @ ELSE 2 * h[2] - 1]
               [] h[1] = "add" -> [m EXCEPT !.clients = @ \cup {h[2]}]
               [] h[1] = "remove" -> [m EXCEPT !.clients = @ \ {h[2]}, !.blocks = @ \ {h[2]}]
               [] h[1] = "notifyblocks" -> [m EXCEPT !.blocks = @ \cup {h[2]}]
               [] h[1] = "stopnotifyblocks" -> [m EXCEPT !.blocks = @ \ {h[2]}]
    BY DEF MgrHandle
<1> HIDE DEF h, m
<1> SUFFICES mgr' \in MgrType
    BY ManagerOnly DEF MgrHandle
<1>5. CASE h[1] = "event"
  <2>1. h[2] \in 1..MaxEvents
      BY <1>2, <1>5 DEF QueueItems
  <2>2. 2 * h[2] - 1 \in Nat
      BY <2>1
  <2> DEFINE n == IF m.blocks = {} THEN m.event ELSE 2 * h[2] - 1
  <2>3. mgr' = [m EXCEPT !.todo = m.blocks, !.event = n]
      BY <1>4, <1>5
  <2>4. n \in Nat /\ m.blocks \in SUBSET Clients
      BY <1>3, <2>2, ManagerTypes
  <2> HIDE DEF n
  <2> QED
      BY <1>3, <2>3, <2>4 DEF MgrType
<1>6. CASE h[1] # "event"
  <2>1. h[2] \in Clients /\ h[1] \in {"add", "remove", "notifyblocks", "stopnotifyblocks"}
      BY <1>2, <1>6 DEF QueueItems
  <2> DEFINE more == m.clients \cup {h[2]}
             fewer == m.clients \ {h[2]}
             told == m.blocks \cup {h[2]}
             untold == m.blocks \ {h[2]}
  <2>6. /\ more \in SUBSET Clients /\ fewer \in SUBSET Clients /\ told \in SUBSET Clients
        /\ untold \in SUBSET Clients
      BY <1>3, <2>1, ManagerTypes
  <2>2. CASE h[1] = "add"
    <3>1. mgr' = [m EXCEPT !.clients = more]
        BY <1>4, <2>2
    <3> HIDE DEF more
    <3> QED
        BY <1>3, <2>6, <3>1 DEF MgrType
  <2>3. CASE h[1] = "remove"
    <3>1. mgr' = [m EXCEPT !.clients = fewer, !.blocks = untold]
        BY <1>4, <2>3
    <3> HIDE DEF fewer, untold
    <3> QED
        BY <1>3, <2>6, <3>1 DEF MgrType
  <2>4. CASE h[1] = "notifyblocks"
    <3>1. mgr' = [m EXCEPT !.blocks = told]
        BY <1>4, <2>4
    <3> HIDE DEF told
    <3> QED
        BY <1>3, <2>6, <3>1 DEF MgrType
  <2>5. CASE h[1] = "stopnotifyblocks"
    <3>1. mgr' = [m EXCEPT !.blocks = untold]
        BY <1>4, <2>5
    <3> HIDE DEF untold
    <3> QED
        BY <1>3, <2>6, <3>1 DEF MgrType
  <2> QED
      BY <2>1, <2>2, <2>3, <2>4, <2>5
<1> QED
    BY <1>5, <1>6

LEMMA MgrFilteredOK ==
    ASSUME WsInv, MgrFiltered
    PROVE  WsInv'
<1>1. mgr \in MgrType
    BY DEF WsInv, Types
<1>2. mgr.blocks \in SUBSET Clients /\ mgr.event + 1 \in Nat
    BY <1>1, ManagerTypes
<1>3. mgr' = [mgr EXCEPT !.todo = mgr.blocks, !.event = mgr.event + 1]
    BY DEF MgrFiltered
<1>4. mgr' \in MgrType
    BY <1>1, <1>2, <1>3 DEF MgrType
<1> QED
    BY <1>4, ManagerOnly DEF MgrFiltered

LEMMA MgrCheckOK ==
    ASSUME WsInv, NEW c \in Clients, MgrCheck(c)
    PROVE  WsInv'
<1>1. mgr \in MgrType
    BY DEF WsInv, Types
<1> DEFINE x == IF cl[c].disconnected THEN None ELSE c
           left == mgr.todo \ {c}
<1>2. x \in Clients \cup {None} /\ left \in SUBSET Clients
    BY <1>1, ManagerTypes
<1>3. mgr' = [mgr EXCEPT !.todo = left, !.push = x]
    BY DEF MgrCheck
<1> HIDE DEF x, left
<1>4. mgr' \in MgrType
    BY <1>1, <1>2, <1>3 DEF MgrType
<1> QED
    BY <1>4, ManagerOnly DEF MgrCheck

LEMMA MgrPushOK ==
    ASSUME WsInv, NEW c \in Clients, MgrPush(c)
    PROVE  WsInv'
<1> DEFINE r == cl[c]
           e == mgr.event
           q == [r EXCEPT !.ntfnChan = <<e>>]
<1>1. /\ r \in ClientType /\ Rooms(r, conn[c]) /\ OneToken(r) /\ InOrder(r, given[c], taken[c])
      /\ given[c] \in Seq(Nat) /\ taken[c] \in Seq(Nat) /\ mgr \in MgrType
    BY DEF WsInv, Types, ClientOK
<1>2. e \in Nat
    BY <1>1 DEF MgrType
<1>3. <<e>> \in Seq(Nat) /\ Append(given[c], e) \in Seq(Nat)
    BY <1>1, <1>2
<1>4. /\ q \in ClientType /\ q.ntfnChan = <<e>> /\ q.in = r.in /\ q.auth = r.auth /\ q.isBatch = r.isBatch
      /\ q.nq = r.nq /\ q.nqMsg = r.nqMsg /\ q.out = r.out /\ q.outMsg = r.outMsg /\ q.sendChan = r.sendChan
      /\ q.sent = r.sent /\ q.pending = r.pending /\ q.waiting = r.waiting /\ q.disconnected = r.disconnected
      /\ q.work = r.work
    BY <1>1, <1>3 DEF ClientType
<1>5. /\ cl' = [cl EXCEPT ![c] = q] /\ UNCHANGED <<conn, svc, events, taken>> /\ r.ntfnChan = <<>>
      /\ mgr' = [mgr EXCEPT !.push = None] /\ given' = [given EXCEPT ![c] = Append(@, e)]
    BY DEF MgrPush
<1> HIDE DEF q, e
<1>6. mgr' \in MgrType
    BY <1>1, <1>5 DEF MgrType
<1>7. cl'[c] = q /\ cl' \in [Clients -> ClientType] /\ \A d \in Clients \ {c} : cl'[d] = cl[d]
    BY <1>4, <1>5, PutClient
<1>8. given' \in [Clients -> Seq(Nat)] /\ given'[c] = Append(given[c], e) /\ \A d \in Clients \ {c} : given'[d] = given[d]
    BY <1>3, <1>5 DEF WsInv, Types
<1>9. Types' /\ Others(c)
    BY <1>5, <1>6, <1>7, <1>8 DEF WsInv, Types, Others
<1>10. Rooms(q, conn[c]) /\ OneToken(q) /\ InOrder(q, Append(given[c], e), taken[c])
    BY <1>1, <1>2, <1>4, <1>5, Pushed
<1>11. Allowed(q, svc[c])
    BY <1>4 DEF WsInv, ClientOK, Allowed
<1>12. ClientOK(c)'
    BY <1>5, <1>7, <1>8, <1>10, <1>11 DEF ClientOK
<1> QED
    BY <1>9, <1>12, OneClient

LEMMA ShutdownOK ==
    ASSUME WsInv, Shutdown
    PROVE  WsInv'
<1>1. mgr \in MgrType
    BY DEF WsInv, Types
<1>2. mgr' \in MgrType
    BY <1>1 DEF Shutdown, MgrType
<1> QED
    BY <1>2, ManagerOnly DEF Shutdown

LEMMA MgrQuitOK ==
    ASSUME WsInv, MgrQuit
    PROVE  WsInv'
<1>1. mgr \in MgrType /\ <<>> \in Seq(QueueItems)
    BY DEF WsInv, Types
<1>2. mgr' \in MgrType
    BY <1>1 DEF MgrQuit, MgrType
<1>3. ASSUME NEW c \in Clients
      PROVE  cl'[c] \in ClientType /\ ClientOK(c)'
  <2> DEFINE r == cl[c]
             q == [r EXCEPT !.disconnected = TRUE]
  <2>1. r \in ClientType /\ Rooms(r, conn[c]) /\ OneToken(r) /\ InOrder(r, given[c], taken[c]) /\ Allowed(r, svc[c])
      BY DEF WsInv, Types, ClientOK
  <2>2. cl'[c] = q \/ cl'[c] = r
      BY DEF MgrQuit
  <2>3. /\ q \in ClientType /\ SameQueues(r, q) /\ q.in = r.in /\ q.auth = r.auth /\ q.isBatch = r.isBatch
        /\ q.work = r.work
      BY <2>1 DEF ClientType, SameQueues
  <2> HIDE DEF q
  <2>4. Rooms(q, conn[c]) /\ OneToken(q) /\ InOrder(q, given[c], taken[c])
      BY <2>1, <2>3, QueuesKept
  <2>5. Allowed(q, svc[c])
      BY <2>1, <2>3 DEF Allowed
  <2> QED
      BY <2>1, <2>2, <2>3, <2>4, <2>5 DEF ClientOK, MgrQuit
<1>4. cl' \in [Clients -> ClientType]
    BY <1>3 DEF MgrQuit
<1>5. Types'
    BY <1>2, <1>4 DEF MgrQuit, WsInv, Types
<1> QED
    BY <1>3, <1>5 DEF WsInv

-----------------------------------------------------------------------------
(* The theorems. *)

LEMMA StepOK ==
    ASSUME WsInv, [Next]_vars
    PROVE  WsInv'
<1>1. CASE UNCHANGED vars
    BY <1>1 DEF vars, WsInv, Types, ClientOK
<1>2. ASSUME NEW c \in Clients,
             \/ WebsocketHandler(c) \/ AddClient(c) \/ RemoveClient(c)
             \/ InStop(c) \/ InAcquire(c) \/ InBatch(c) \/ InBatchDone(c) \/ InSend(c)
             \/ \E m \in Messages : InRead(c, m)
      PROVE  WsInv'
    BY <1>2, WebsocketHandlerOK, AddClientOK, RemoveClientOK, InStopOK, InAcquireOK, InBatchOK,
       InBatchDoneOK, InSendOK, InReadOK
<1>3. ASSUME NEW c \in Clients, NEW s \in Slots,
             \/ SvcRegister(c, s) \/ SvcServe(c, s) \/ SvcRescan(c, s) \/ SvcPush(c, s) \/ SvcSend(c, s)
      PROVE  WsInv'
    BY <1>3, SvcRegisterOK, SvcServeOK, SvcRescanOK, SvcPushOK, SvcSendOK
<1>4. ASSUME NEW c \in Clients,
             \/ NqTake(c) \/ NqSent(c) \/ NqSend(c) \/ NqQuit(c)
             \/ OutTake(c) \/ OutWrite(c) \/ OutWriteFails(c) \/ OutQuit(c) \/ OutDrain(c)
             \/ MgrCheck(c) \/ MgrPush(c)
      PROVE  WsInv'
    BY <1>4, NqTakeOK, NqSentOK, NqSendOK, NqQuitOK, OutTakeOK, OutWriteOK, OutWriteFailsOK, OutQuitOK,
       OutDrainOK, MgrCheckOK, MgrPushOK
<1>5. CASE Notify \/ MgrHandle \/ MgrFiltered \/ Shutdown \/ MgrQuit
    BY <1>5, NotifyOK, MgrHandleOK, MgrFilteredOK, ShutdownOK, MgrQuitOK
<1> QED
    BY <1>1, <1>2, <1>3, <1>4, <1>5 DEF Next

\* Whatever the clients send, the chain does and the goroutines' order is, a
\* client that is still connected has been sent, in order, exactly what the
\* manager and its rescans queued for it, but for what is still under way, and
\* outHandler always finds room in ntfnSentChan (notificationQueueHandler,
\* outHandler, QueueNotification).
THEOREM NtfnsNeverLost ==
    Spec => []NtfnsDelivered
<1>1. WsInv /\ [Next]_vars => WsInv'
    BY StepOK
<1>2. Spec => []WsInv
    BY <1>1, InitOK, PTL DEF Spec
<1> QED
    BY <1>2, InvImplies, PTL

\* For every number of clients and slots and every order of their messages, no
\* command is run for a client that has not logged in, and none that changes
\* the server for a limited user, not even from a batch that logs in on its
\* way (inHandler, serviceRequest).
THEOREM CommandsNeedRights ==
    Spec => []AuthRespected
<1>1. WsInv /\ [Next]_vars => WsInv'
    BY StepOK
<1>2. Spec => []WsInv
    BY <1>1, InitOK, PTL DEF Spec
<1> QED
    BY <1>2, InvImplies, PTL
=============================================================================
