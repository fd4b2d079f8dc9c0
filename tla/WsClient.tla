------------------------------ MODULE WsClient ------------------------------
(***************************************************************************)
(* rpcwebsocket.go: the goroutines of a websocket client and of the        *)
(* notification manager, and the channels between them.                    *)
(*                                                                         *)
(*   manager  notificationHandler -> ntfnChan[1] -> notificationQueueHandler *)
(*            -> sendChan[SendBuffer] -> outHandler -> connection          *)
(*   client   connection -> inHandler -> serviceRequest goroutines         *)
(*            -> sendChan, and the manager's queue for registrations       *)
(*                                                                         *)
(* A call that checks Disconnected and then sends on a channel is two      *)
(* steps: the client may go in between.  What a notification says is in    *)
(* module NtfnManager; here it is a number.                                *)
(***************************************************************************)
EXTENDS Integers, Sequences, SequencesExt, FiniteSets

CONSTANTS
    Clients,        \* websocket connections
    SendBuffer,     \* websocketSendBufferSize
    Slots,          \* serviceRequestSem: one token per element
    MaxWebsockets,  \* cfg.RPCMaxWebsockets
    Messages,       \* the messages that clients send
    MaxEvents,      \* bound on the events of the chain
    MaxMessages,    \* bound on the messages a client sends
    None

(* What a client may send: [batch, msgs], where only a batch has other than *)
(* one of these.                                                            *)
Single == {"unparsable", "malformed", "noid", "badcmd", "login", "limitedlogin", "badlogin",
           "query", "admin", "notifyblocks", "stopnotifyblocks", "rescan"}

ASSUME WsAssumption ==
    /\ Messages \subseteq [batch : BOOLEAN, msgs : Seq(Single)]
    /\ \A m \in Messages : m.batch \/ Len(m.msgs) = 1
    /\ SendBuffer \in Nat \ {0} /\ MaxEvents \in Nat /\ MaxMessages \in Nat
    /\ Slots # {} /\ None \notin Clients \cup Slots

VARIABLES
    mgr,     \* the notification manager
    conn,    \* conn[c]: how far WebsocketHandler got
    cl,      \* cl[c]: the fields and goroutines of wsClient
    svc,     \* svc[c][s]: a serviceRequest goroutine
    events,  \* events of the chain so far
    given,   \* history: notifications QueueNotification took, per client
    taken    \* history: notifications written to the connection

vars == <<mgr, conn, cl, svc, events, given, taken>>

Response == -1  \* the reply to a request; notifications are natural numbers
Reads == {"unauthenticated", "limited", "admin"}

TypeOK ==
    /\ mgr.clients \subseteq Clients /\ mgr.blocks \subseteq Clients
    /\ mgr.todo \subseteq Clients /\ mgr.push \in Clients \cup {None}
    /\ mgr.quit \in BOOLEAN /\ mgr.done \in BOOLEAN
    /\ conn \in [Clients -> {"new", "adding", "open", "removing", "closed"}]
    /\ \A c \in Clients :
        /\ cl[c].disconnected \in BOOLEAN /\ cl[c].auth \in Reads
        /\ cl[c].in \in {"read", "acquire", "batch", "send", "done"} /\ cl[c].token \in Slots \cup {None}
        /\ cl[c].nq \in {"select", "send", "done"} /\ cl[c].out \in {"select", "write", "drain", "done"}
        /\ Len(cl[c].ntfnChan) <= 1 /\ Len(cl[c].sendChan) <= SendBuffer /\ Len(cl[c].sent) <= 1
        /\ cl[c].messages \in 0..MaxMessages
        /\ svc[c] \in [Slots -> {"free", "batch", "serve", "admin", "notifyblocks",
                                 "stopnotifyblocks", "rescan", "push", "send"}]
    /\ events \in 0..MaxEvents

-----------------------------------------------------------------------------
(* What inHandler does with a message. *)

Commands == {"query", "admin", "notifyblocks", "stopnotifyblocks", "rescan"}
Logins == {"login", "limitedlogin", "badlogin"}

\* mutant: the limited user may call everything
Verdict_Unlimited(auth, m) ==
    CASE m = "malformed" -> "reply"
      [] m # "malformed" /\ auth = "unauthenticated" ->
            (IF m \in {"login", "limitedlogin"} THEN "auth" ELSE "drop")
      [] m \in Logins /\ auth # "unauthenticated" -> "drop"
      [] m \in {"unparsable", "badcmd"} /\ auth # "unauthenticated" -> "reply"
      [] m = "noid" /\ auth # "unauthenticated" -> "ignore"
      [] m \in Commands /\ auth # "unauthenticated" -> "serve"

\* "drop" closes the connection, "serve" runs the command.  The check for a
\* method and parameters comes before the one for authentication.
Verdict(auth, m) ==
    CASE m = "malformed" -> "reply"
      [] m # "malformed" /\ auth = "unauthenticated" ->
            (IF m \in {"login", "limitedlogin"} THEN "auth" ELSE "drop")
      [] m \in Logins /\ auth # "unauthenticated" -> "drop"
      [] m \in {"unparsable", "badcmd"} /\ auth # "unauthenticated" -> "reply"
      [] m = "noid" /\ auth # "unauthenticated" -> "ignore"
      [] m \in Commands /\ auth # "unauthenticated" ->
            (IF auth = "limited" /\ m = "admin" THEN "reply" ELSE "serve")

Granted(m) == IF m = "login" THEN "admin" ELSE "limited"

\* the state a service goroutine starts in
Serving(m) == IF m = "query" THEN "serve" ELSE m

Busy(c) == {s \in Slots : svc[c][s] # "free"}

-----------------------------------------------------------------------------
(* WebsocketHandler *)

\* notificationHandler waits in its select
Idle == mgr.todo = {} /\ mgr.push = None /\ mgr.event % 2 = 0

\* NumClients answers 0 once the manager has quit.
WebsocketHandler(c) ==
    /\ conn[c] = "new" /\ (mgr.done \/ Idle)
    /\ LET n == IF mgr.quit THEN 0 ELSE Cardinality(mgr.clients)
       IN  conn' = [conn EXCEPT ![c] = IF n + 1 > MaxWebsockets THEN "closed" ELSE "adding"]
    /\ UNCHANGED <<mgr, cl, svc, events, given, taken>>

\* AddClient, which does not look at the manager's quit; then Start.
AddClient(c) ==
    /\ conn[c] = "adding" /\ ~ mgr.quit
    /\ conn' = [conn EXCEPT ![c] = "open"]
    /\ mgr' = [mgr EXCEPT !.queue = Append(@, <<"add", c>>)]
    /\ cl' = [cl EXCEPT ![c].in = "read", ![c].nq = "select", ![c].out = "select"]
    /\ UNCHANGED <<svc, events, given, taken>>

HandlersDone(c) == cl[c].in = "done" /\ cl[c].nq = "done" /\ cl[c].out = "done"

\* WaitForShutdown waits for the three handlers, not for the service
\* goroutines; RemoveClient gives up when the manager has quit.
RemoveClient(c) ==
    /\ conn[c] = "open" /\ HandlersDone(c)
    /\ conn' = [conn EXCEPT ![c] = "closed"]
    /\ mgr' = IF mgr.quit THEN mgr ELSE [mgr EXCEPT !.queue = Append(@, <<"remove", c>>)]
    /\ UNCHANGED <<cl, svc, events, given, taken>>

-----------------------------------------------------------------------------
(* inHandler *)

Reading(c) == conn[c] = "open" /\ cl[c].in = "read"

\* The connection fails, is closed by the client, or quit is closed.
InStop(c) ==
    /\ Reading(c)
    /\ cl' = [cl EXCEPT ![c].disconnected = TRUE, ![c].in = "done"]
    /\ UNCHANGED <<mgr, conn, svc, events, given, taken>>

\* SendMessage, first half: nothing is sent to a disconnected client.
SendOr(r, then) == IF r.disconnected THEN then ELSE "send"

InRead(c, m) ==
    /\ Reading(c) /\ ~ cl[c].disconnected
    /\ cl[c].messages < MaxMessages
    /\ LET r == [cl[c] EXCEPT !.messages = @ + 1]
           v == IF m.batch THEN "batch" ELSE Verdict(r.auth, m.msgs[1])
       IN  cl' = [cl EXCEPT ![c] =
            CASE v = "drop" -> [r EXCEPT !.disconnected = TRUE, !.in = "done"]
              [] v = "reply" -> [r EXCEPT !.in = "send"]
              [] v = "ignore" -> r
              [] v = "auth" -> [r EXCEPT !.auth = Granted(m.msgs[1]), !.in = "send"]
              [] v = "serve" -> [r EXCEPT !.in = "acquire", !.work = m.msgs, !.isBatch = FALSE]
              [] v = "batch" -> [r EXCEPT !.in = "acquire", !.work = m.msgs, !.isBatch = TRUE]]
    /\ UNCHANGED <<mgr, conn, svc, events, given, taken>>

\* serviceRequestSem.acquire: waits for a free token, whatever happens to the
\* connection.  A batch is processed by inHandler itself.
InAcquire(c) ==
    /\ cl[c].in = "acquire"
    /\ \E s \in Slots :
        /\ svc[c][s] = "free"
        /\ IF cl[c].isBatch
           THEN /\ svc' = [svc EXCEPT ![c][s] = "batch"]
                /\ cl' = [cl EXCEPT ![c].in = "batch", ![c].token = s]
           ELSE /\ svc' = [svc EXCEPT ![c][s] = Serving(cl[c].work[1])]
                /\ cl' = [cl EXCEPT ![c].in = "read", ![c].work = <<>>]
    /\ UNCHANGED <<mgr, conn, events, given, taken>>

\* One entry of a batch.  inHandler runs its command itself, under the token of
\* the batch, and looks at the next entry when the command has ended; when it
\* closes the connection it keeps the token.
InBatch(c) ==
    /\ cl[c].in = "batch" /\ cl[c].work # <<>>
    /\ \E s \in Slots :
        /\ s = cl[c].token /\ svc[c][s] = "batch"
        /\ LET m == Head(cl[c].work)
               v == Verdict(cl[c].auth, m)
               r == [cl[c] EXCEPT !.work = Tail(@)]
           IN  /\ svc' = [svc EXCEPT ![c][s] = IF v = "serve" THEN Serving(m) ELSE "batch"]
               /\ cl' = [cl EXCEPT ![c] =
                    CASE v = "drop" -> [r EXCEPT !.disconnected = TRUE, !.in = "done"]
                      [] v = "auth" -> [r EXCEPT !.auth = Granted(m)]
                      [] OTHER -> r]
    /\ UNCHANGED <<mgr, conn, events, given, taken>>

InBatchDone(c) ==
    /\ cl[c].in = "batch" /\ cl[c].work = <<>>
    /\ \E s \in Slots :
        /\ s = cl[c].token /\ svc[c][s] = "batch"
        /\ cl' = [cl EXCEPT ![c].in = SendOr(cl[c], "read"),
                            ![c].token = IF cl[c].disconnected THEN None ELSE s]
        /\ svc' = [svc EXCEPT ![c][s] = IF cl[c].disconnected THEN "free" ELSE "batch"]
    /\ UNCHANGED <<mgr, conn, events, given, taken>>

\* SendMessage, second half; a batch releases its token after it.
InSend(c) ==
    /\ cl[c].in = "send" /\ Len(cl[c].sendChan) < SendBuffer
    /\ cl' = [cl EXCEPT ![c].in = "read", ![c].sendChan = Append(@, Response), ![c].token = None]
    /\ svc' = [svc EXCEPT ![c] = [s \in Slots |-> IF s = cl[c].token THEN "free" ELSE @[s]]]
    /\ UNCHANGED <<mgr, conn, events, given, taken>>

-----------------------------------------------------------------------------
(* serviceRequest *)

\* The command is done: its reply goes to the results of the batch, or is sent.
Served(c, s) == IF s = cl[c].token THEN "batch" ELSE SendOr(cl[c], "free")

\* handleNotifyBlocks and handleStopNotifyBlocks: the channel to the manager
\* has no reader once the manager has quit.
SvcRegister(c, s) ==
    /\ svc[c][s] \in {"notifyblocks", "stopnotifyblocks"} /\ ~ mgr.quit
    /\ mgr' = [mgr EXCEPT !.queue = Append(@, <<svc[c][s], c>>)]
    /\ svc' = [svc EXCEPT ![c][s] = Served(c, s)]
    /\ UNCHANGED <<conn, cl, events, given, taken>>

\* any command without notifications
SvcServe(c, s) ==
    /\ svc[c][s] \in {"serve", "admin"}
    /\ svc' = [svc EXCEPT ![c][s] = Served(c, s)]
    /\ UNCHANGED <<mgr, conn, cl, events, given, taken>>

\* a rescan queues notifications from the service goroutine; it ends early
\* with ErrClientQuit
SvcRescan(c, s) ==
    /\ svc[c][s] = "rescan"
    /\ \/ ~ cl[c].disconnected /\ svc' = [svc EXCEPT ![c][s] = "push"]
       \/ svc' = [svc EXCEPT ![c][s] = Served(c, s)]
    /\ UNCHANGED <<mgr, conn, cl, events, given, taken>>

\* second half of QueueNotification; a scan sends a bounded number of them
SvcPush(c, s) ==
    /\ svc[c][s] = "push" /\ cl[c].ntfnChan = <<>>
    /\ cl' = [cl EXCEPT ![c].ntfnChan = <<0>>]
    /\ given' = [given EXCEPT ![c] = Append(@, 0)]
    /\ svc' = [svc EXCEPT ![c][s] = "serve"]
    /\ UNCHANGED <<mgr, conn, events, taken>>

SvcSend(c, s) ==
    /\ svc[c][s] = "send" /\ Len(cl[c].sendChan) < SendBuffer
    /\ cl' = [cl EXCEPT ![c].sendChan = Append(@, Response)]
    /\ svc' = [svc EXCEPT ![c][s] = "free"]
    /\ UNCHANGED <<mgr, conn, events, given, taken>>

-----------------------------------------------------------------------------
(* notificationQueueHandler *)

NqTake(c) ==
    /\ cl[c].nq = "select" /\ cl[c].ntfnChan # <<>>
    /\ LET r == [cl[c] EXCEPT !.ntfnChan = <<>>, !.waiting = TRUE]
           e == Head(cl[c].ntfnChan)
       IN  cl' = [cl EXCEPT ![c] =
            IF cl[c].waiting THEN [r EXCEPT !.pending = Append(@, e)]
            ELSE IF r.disconnected THEN [r EXCEPT !.sent = <<FALSE>>]
            ELSE [r EXCEPT !.nq = "send", !.nqMsg = e]]
    /\ UNCHANGED <<mgr, conn, svc, events, given, taken>>

\* mutant: the queue is used as a stack
NqSent_Last(c) ==
    /\ cl[c].nq = "select" /\ cl[c].sent # <<>>
    /\ LET r == [cl[c] EXCEPT !.sent = <<>>]
       IN  cl' = [cl EXCEPT ![c] =
            IF r.pending = <<>> THEN [r EXCEPT !.waiting = FALSE]
            ELSE IF r.disconnected THEN [r EXCEPT !.pending = Front(@), !.sent = <<FALSE>>]
            ELSE [r EXCEPT !.pending = Front(@), !.nq = "send", !.nqMsg = Last(r.pending)]]
    /\ UNCHANGED <<mgr, conn, svc, events, given, taken>>

\* ntfnSentChan: the next notification may go
NqSent(c) ==
    /\ cl[c].nq = "select" /\ cl[c].sent # <<>>
    /\ LET r == [cl[c] EXCEPT !.sent = <<>>]
       IN  cl' = [cl EXCEPT ![c] =
            IF r.pending = <<>> THEN [r EXCEPT !.waiting = FALSE]
            ELSE IF r.disconnected THEN [r EXCEPT !.pending = Tail(@), !.sent = <<FALSE>>]
            ELSE [r EXCEPT !.pending = Tail(@), !.nq = "send", !.nqMsg = Head(r.pending)]]
    /\ UNCHANGED <<mgr, conn, svc, events, given, taken>>

NqSend(c) ==
    /\ cl[c].nq = "send" /\ Len(cl[c].sendChan) < SendBuffer
    /\ cl' = [cl EXCEPT ![c].nq = "select", ![c].sendChan = Append(@, cl[c].nqMsg)]
    /\ UNCHANGED <<mgr, conn, svc, events, given, taken>>

\* quit: what is in the two channels is thrown away
NqQuit(c) ==
    /\ cl[c].nq = "select" /\ cl[c].disconnected
    /\ cl' = [cl EXCEPT ![c].nq = "done", ![c].ntfnChan = <<>>, ![c].sent = <<>>]
    /\ UNCHANGED <<mgr, conn, svc, events, given, taken>>

-----------------------------------------------------------------------------
(* outHandler *)

OutTake(c) ==
    /\ cl[c].out = "select" /\ cl[c].sendChan # <<>>
    /\ cl' = [cl EXCEPT ![c].out = "write", ![c].outMsg = Head(cl[c].sendChan), ![c].sendChan = Tail(@)]
    /\ UNCHANGED <<mgr, conn, svc, events, given, taken>>

\* The connection takes the message when the client reads.
OutWrite(c) ==
    /\ cl[c].out = "write" /\ ~ cl[c].disconnected
    /\ IF cl[c].outMsg = Response
       THEN cl' = [cl EXCEPT ![c].out = "select"] /\ UNCHANGED taken
       ELSE /\ cl[c].sent = <<>>
            /\ cl' = [cl EXCEPT ![c].out = "select", ![c].sent = <<TRUE>>]
            /\ taken' = [taken EXCEPT ![c] = Append(@, cl[c].outMsg)]
    /\ UNCHANGED <<mgr, conn, svc, events, given>>

\* WriteMessage fails when the connection is broken, or closed by Disconnect.
OutWriteFails(c) ==
    /\ cl[c].out = "write"
    /\ cl' = [cl EXCEPT ![c].out = "drain", ![c].disconnected = TRUE]
    /\ UNCHANGED <<mgr, conn, svc, events, given, taken>>

\* mutant: outHandler waits for messages only
OutQuit_Never(c) == FALSE

OutQuit(c) ==
    /\ cl[c].out = "select" /\ cl[c].disconnected
    /\ cl' = [cl EXCEPT ![c].out = "drain"]
    /\ UNCHANGED <<mgr, conn, svc, events, given, taken>>

\* the cleanup loop, until sendChan is empty
OutDrain(c) ==
    /\ cl[c].out = "drain"
    /\ IF cl[c].sendChan = <<>> THEN cl' = [cl EXCEPT ![c].out = "done"]
       ELSE IF Head(cl[c].sendChan) = Response THEN cl' = [cl EXCEPT ![c].sendChan = Tail(@)]
       ELSE /\ cl[c].sent = <<>>
            /\ cl' = [cl EXCEPT ![c].sendChan = Tail(@), ![c].sent = <<FALSE>>]
    /\ UNCHANGED <<mgr, conn, svc, events, given, taken>>

-----------------------------------------------------------------------------
(* The notification manager *)

\* NotifyBlockConnected and its kin: queueHandler takes everything at once.
Notify ==
    /\ events < MaxEvents
    /\ events' = events + 1
    /\ mgr' = IF mgr.quit THEN mgr ELSE [mgr EXCEPT !.queue = Append(@, <<"event", events + 1>>)]
    /\ UNCHANGED <<conn, cl, svc, given, taken>>

\* notificationHandler: the next message of the queue.  For an event all
\* clients get one notification (notifyBlockConnected) and then another one
\* (notifyFilteredBlockConnected).
MgrHandle ==
    /\ ~ mgr.done /\ Idle /\ mgr.queue # <<>>
    /\ LET k == Head(mgr.queue)[1]
           x == Head(mgr.queue)[2]
           m == [mgr EXCEPT !.queue = Tail(@)]
       IN  mgr' = CASE k = "event" -> [m EXCEPT !.todo = m.blocks,
                                                        !.event = IF m.blocks = {} THEN @ ELSE 2 * x - 1]
                    [] k = "add" -> [m EXCEPT !.clients = @ \cup {x}]
                    [] k = "remove" -> [m EXCEPT !.clients = @ \ {x}, !.blocks = @ \ {x}]
                    [] k = "notifyblocks" -> [m EXCEPT !.blocks = @ \cup {x}]
                    [] k = "stopnotifyblocks" -> [m EXCEPT !.blocks = @ \ {x}]
    /\ UNCHANGED <<conn, cl, svc, events, given, taken>>

MgrFiltered ==
    /\ mgr.todo = {} /\ mgr.push = None /\ mgr.event % 2 = 1
    /\ mgr' = [mgr EXCEPT !.todo = mgr.blocks, !.event = @ + 1]
    /\ UNCHANGED <<conn, cl, svc, events, given, taken>>

\* QueueNotification for one of the clients, first half
MgrCheck(c) ==
    /\ mgr.push = None /\ c \in mgr.todo
    /\ mgr' = [mgr EXCEPT !.todo = @ \ {c}, !.push = IF cl[c].disconnected THEN None ELSE c]
    /\ UNCHANGED <<conn, cl, svc, events, given, taken>>

\* second half: ntfnChan has room for one
MgrPush(c) ==
    /\ mgr.push = c /\ cl[c].ntfnChan = <<>>
    /\ mgr' = [mgr EXCEPT !.push = None]
    /\ cl' = [cl EXCEPT ![c].ntfnChan = <<mgr.event>>]
    /\ given' = [given EXCEPT ![c] = Append(@, mgr.event)]
    /\ UNCHANGED <<conn, svc, events, taken>>

Shutdown ==
    /\ ~ mgr.quit
    /\ mgr' = [mgr EXCEPT !.quit = TRUE]
    /\ UNCHANGED <<conn, cl, svc, events, given, taken>>

\* notificationHandler ends and disconnects the clients it knows
MgrQuit ==
    /\ mgr.quit /\ ~ mgr.done /\ Idle
    /\ mgr' = [mgr EXCEPT !.done = TRUE, !.queue = <<>>]
    /\ cl' = [c \in Clients |-> IF c \in mgr.clients THEN [cl[c] EXCEPT !.disconnected = TRUE] ELSE cl[c]]
    /\ UNCHANGED <<conn, svc, events, given, taken>>

-----------------------------------------------------------------------------
Fresh == [disconnected |-> FALSE, auth |-> "unauthenticated", in |-> "done", work |-> <<>>,
          isBatch |-> FALSE, token |-> None, nq |-> "done", nqMsg |-> 0, out |-> "done", outMsg |-> Response,
          ntfnChan |-> <<>>, sendChan |-> <<>>, sent |-> <<>>, pending |-> <<>>,
          waiting |-> FALSE, messages |-> 0]

\* HTTP Basic authentication may have identified the user already.
Init ==
    /\ mgr = [queue |-> <<>>, clients |-> {}, blocks |-> {}, todo |-> {}, event |-> 0,
              push |-> None, quit |-> FALSE, done |-> FALSE]
    /\ conn = [c \in Clients |-> "new"]
    /\ \E auth \in Reads : cl = [c \in Clients |-> [Fresh EXCEPT !.auth = auth]]
    /\ svc = [c \in Clients |-> [s \in Slots |-> "free"]]
    /\ events = 0
    /\ given = [c \in Clients |-> <<>>] /\ taken = [c \in Clients |-> <<>>]

\* the steps that the goroutines take by themselves
MgrSteps == MgrHandle \/ MgrFiltered \/ MgrQuit \/ \E c \in Clients : MgrCheck(c) \/ MgrPush(c)
InSteps(c) == InAcquire(c) \/ InBatch(c) \/ InBatchDone(c) \/ InSend(c)
              \/ (InStop(c) /\ cl[c].disconnected)
SvcSteps(c, s) == SvcRegister(c, s) \/ SvcServe(c, s) \/ SvcRescan(c, s) \/ SvcPush(c, s) \/ SvcSend(c, s)
NqSteps(c) == NqTake(c) \/ NqSent(c) \/ NqSend(c)
OutSteps(c) == OutTake(c) \/ OutWrite(c) \/ OutQuit(c) \/ OutDrain(c)
               \/ (OutWriteFails(c) /\ cl[c].disconnected)

Next ==
    \/ \E c \in Clients :
        \/ WebsocketHandler(c) \/ AddClient(c) \/ RemoveClient(c)
        \/ InStop(c) \/ InAcquire(c) \/ InBatch(c) \/ InBatchDone(c) \/ InSend(c)
        \/ \E m \in Messages : InRead(c, m)
        \/ \E s \in Slots : \/ SvcRegister(c, s) \/ SvcServe(c, s) \/ SvcRescan(c, s)
                            \/ SvcPush(c, s) \/ SvcSend(c, s)
        \/ NqTake(c) \/ NqSent(c) \/ NqSend(c) \/ NqQuit(c)
        \/ OutTake(c) \/ OutWrite(c) \/ OutWriteFails(c) \/ OutQuit(c) \/ OutDrain(c)
        \/ MgrCheck(c) \/ MgrPush(c)
    \/ Notify \/ MgrHandle \/ MgrFiltered \/ Shutdown \/ MgrQuit

Spec == Init /\ [][Next]_vars

(* The goroutines are scheduled, a read or write on a closed connection   *)
(* returns, and clients read what is sent to them.  Nothing makes a client *)
(* connect or send, or the chain move.                                     *)
FairSpec ==
    /\ Spec /\ WF_vars(MgrSteps)
    /\ \A c \in Clients :
        /\ WF_vars(InSteps(c)) /\ WF_vars(NqSteps(c)) /\ WF_vars(NqQuit(c))
        /\ WF_vars(OutSteps(c)) /\ WF_vars(RemoveClient(c))
        /\ \A s \in Slots : WF_vars(SvcSteps(c, s))

-----------------------------------------------------------------------------
(* Properties. *)

\* the notifications of a queue, in their order
Ntfns(q) ==
    LET carried == {i \in DOMAIN q : q[i] # Response}
    IN  [k \in 1..Cardinality(carried) |->
            q[CHOOSE i \in carried : Cardinality({j \in carried : j < i}) = k - 1]]

\* Between the manager (or a rescan) and the connection no notification is
\* lost, doubled or overtaken by a later one, as long as the client is there.
NtfnsInOrder ==
    \A c \in Clients : ~ cl[c].disconnected =>
        given[c] = taken[c]
                   \o (IF cl[c].out = "write" THEN Ntfns(<<cl[c].outMsg>>) ELSE <<>>)
                   \o Ntfns(cl[c].sendChan)
                   \o (IF cl[c].nq = "send" THEN <<cl[c].nqMsg>> ELSE <<>>)
                   \o cl[c].pending \o cl[c].ntfnChan

\* The outHandler never waits for room in ntfnSentChan: only one notification
\* at a time is on its way to it.
SentHasRoom ==
    \A c \in Clients :
        (cl[c].out = "write" /\ cl[c].outMsg # Response) \/ Ntfns(cl[c].sendChan) # <<>>
            => cl[c].sent = <<>>

\* Notifications get through as they were queued (notificationQueueHandler,
\* outHandler).
NtfnsDelivered == TypeOK /\ NtfnsInOrder /\ SentHasRoom

\* No command runs for a client that has not logged in, and none that changes
\* the server for a limited user, be it alone or as an entry of a batch, which
\* may have logged in further up.
AuthRespected ==
    \A c \in Clients : \A s \in Slots :
        /\ svc[c][s] \notin {"free", "batch"} => cl[c].auth # "unauthenticated"
        /\ svc[c][s] = "admin" => cl[c].auth = "admin"

\* Two goroutines, one of them in a rescan, have passed the check of
\* QueueNotification for a client that then left: one of them has put its
\* notification in ntfnChan, and nobody will make room for the other.
Stuck(c) ==
    /\ cl[c].nq = "done" /\ cl[c].ntfnChan # <<>>
    /\ \/ mgr.push = c /\ cl[c].ntfnChan = <<0>>
       \/ \E s \in Slots : svc[c][s] = "push"

\* A command, of a service goroutine or of a batch, waits to hand a registration to a manager that has quit.
Stranded(c) == mgr.quit /\ \E s \in Slots : svc[c][s] \in {"notifyblocks", "stopnotifyblocks"}

\* A client that is disconnected is removed, with all its handlers, unless one
\* of these two waits for ever.
ClientsEnd ==
    \A c \in Clients : [](cl[c].disconnected => <>(conn[c] = "closed" \/ Stuck(c) \/ Stranded(c)))

\* Every event reaches the handler: the manager gets back to its queue, unless
\* it is stuck.
ManagerGoesOn == []<>(Idle \/ \E c \in Clients : Stuck(c))

\* The goroutines of clients and manager do not wait for each other for ever,
\* but for the two cases above (Shutdown, WaitForShutdown, QueueNotification).
HandlersGoOn == ClientsEnd /\ ManagerGoesOn
=============================================================================
