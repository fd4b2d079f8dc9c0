----------------------------- MODULE RpcClient -----------------------------
(***************************************************************************)
(* rpcclient/infrastructure.go: how a request of a caller gets its one     *)
(* response.                                                               *)
(*                                                                         *)
(* Websocket mode: addRequest, sendChan, wsOutHandler, the server,         *)
(* wsInHandler, removeRequest, response; wsReconnectHandler dials again    *)
(* after a disconnect and resendRequests sends what was not answered, once *)
(* it has registered for notifications again.  The handlers of a broken    *)
(* connection end by themselves and may still run when the next ones have  *)
(* started.  HTTP POST mode: sendPostChan, sendPostHandler with retries.   *)
(* Batch mode: requests wait in batchList until Send.                      *)
(*                                                                         *)
(* sendChan and sendPostChan hold more messages than there are requests    *)
(* here, so sends on them do not wait.                                     *)
(***************************************************************************)
EXTENDS Integers, Sequences, SequencesExt, FiniteSets, Ordering

CONSTANTS
    Modes,      \* "ws", "once" (DisableAutoReconnect), "post", "batch"
    Reqs,       \* requests of the callers
    Method,     \* Method[r]: "plain", "notify" or "rescan"
    MaxConns,   \* bound on the connections made
    MaxSends,   \* bound on the calls of Send
    Tries,      \* sendPostRequestTries
    None

Conns == 1..MaxConns
Again == {<<"again", k>> : k \in Conns}    \* requests of reregisterNtfns
Batches == {<<"batch", i>> : i \in 1..MaxSends}
Ids == Reqs \cup Again \cup Batches

ASSUME RpcAssumption ==
    /\ Modes \subseteq {"ws", "once", "post", "batch"}
    /\ Method \in [Reqs -> {"plain", "notify", "rescan"}]
    /\ Reqs \cap (Again \cup Batches) = {}     \* NextID counts them all
    /\ MaxConns \in Nat \ {0} /\ MaxSends \in Nat /\ Tries \in Nat \ {0}

VARIABLES
    mode,
    shutdown,   \* the shutdown channel is closed
    req,        \* req[r]: how far the caller is
    resp,       \* resp[r]: responses sent to responseChan
    list,       \* requestList; in batch mode batchList
    ntfn,       \* ntfnState: registered for notifications
    ws,         \* conn, disconnected, failing, sendChan
    wire,       \* wire[n]: the connection n and the server's end of it
    hin, hout,  \* hin[k], hout[k]: the handlers that start() number k started
    rec, rs,    \* wsReconnectHandler; rs[k]: resendRequests
    post,       \* sendPostHandler and the Send calls
    dropped,    \* history: requests that resendRequests took off the list
    drained,    \* history: messages that a handler of an earlier connection threw away
    overtaken,  \* history: a reply was tracked after its connection was replaced
    refused     \* requests whose response is an error of the server

wsVars == <<ntfn, ws, wire, hin, hout, rec, rs, dropped, drained, overtaken, refused>>
vars == <<mode, shutdown, req, resp, list, ntfn, ws, wire, hin, hout, rec, rs, post, dropped,
          drained, overtaken, refused>>

WebSocket == mode \in {"ws", "once"}
MethodOf(r) == IF r \in Reqs THEN Method[r] ELSE "notify"
Respond(rs1) == [r \in Ids |-> IF r \in rs1 THEN resp[r] + 1 ELSE resp[r]]

-----------------------------------------------------------------------------
(* The callers: SendCmd and sendRequest. *)

\* Under requestLock.  In batch mode a request that comes too late is only
\* logged.
AddRequest(r) ==
    IF shutdown
    THEN /\ req' = [req EXCEPT ![r] = IF WebSocket THEN "done" ELSE "wait"]
         /\ resp' = IF WebSocket THEN Respond({r}) ELSE resp
         /\ UNCHANGED list
    ELSE /\ list' = Append(list, r)
         /\ req' = [req EXCEPT ![r] = IF WebSocket THEN "send" ELSE "wait"]
         /\ UNCHANGED resp

SendCmd(r) ==
    /\ req[r] = "new"
    /\ IF WebSocket /\ ws.conn = 0
       THEN /\ req' = [req EXCEPT ![r] = "done"]
            /\ resp' = Respond({r}) /\ UNCHANGED list
       ELSE IF mode = "post" THEN req' = [req EXCEPT ![r] = "guard"] /\ UNCHANGED <<resp, list>>
       ELSE AddRequest(r)
    /\ UNCHANGED <<mode, shutdown, post>> /\ UNCHANGED wsVars

\* sendMessage: select takes either case when both are ready.
SendMessage(r) ==
    /\ req[r] = "send"
    /\ req' = [req EXCEPT ![r] = "wait"]
    /\ \/ ws' = [ws EXCEPT !.sendChan = Append(@, r)]
       \/ ws.disconnected /\ UNCHANGED ws
    /\ UNCHANGED <<mode, shutdown, resp, list, ntfn, wire, hin, hout, rec, rs, post, dropped,
                   drained, overtaken, refused>>

-----------------------------------------------------------------------------
(* Disconnect and Shutdown *)

\* doDisconnect, as a value for ws and for wire
Disconnected(w, fail) ==
    IF w.disconnected THEN w ELSE [w EXCEPT !.disconnected = TRUE, !.failing = fail]
DeadWire == [alive |-> FALSE, down |-> <<>>, registered |-> FALSE, refused |-> FALSE]
HangUp(n) == IF n = 0 THEN wire ELSE [wire EXCEPT ![n] = DeadWire]

\* Disconnect; without automatic reconnection its second half is FailPending
Disconnect ==
    /\ ws' = Disconnected(ws, mode = "once")
    /\ wire' = IF ws.disconnected THEN wire ELSE HangUp(ws.conn)

FailPending ==
    /\ ws.failing
    /\ resp' = Respond(ToSet(list))
    /\ list' = <<>> /\ shutdown' = TRUE
    /\ ws' = [ws EXCEPT !.failing = FALSE]
    /\ UNCHANGED <<mode, req, ntfn, wire, hin, hout, rec, rs, post, dropped, drained, overtaken, refused>>

\* The list that Shutdown answers is requestList; in batch mode it is empty.
Shutdown ==
    /\ ~ shutdown
    /\ shutdown' = TRUE
    /\ IF mode = "batch" THEN UNCHANGED <<resp, list>>
       ELSE resp' = Respond(ToSet(list)) /\ list' = <<>>
    /\ IF WebSocket
       THEN /\ ws' = Disconnected(ws, FALSE)
            /\ wire' = IF ws.disconnected THEN wire ELSE HangUp(ws.conn)
       ELSE UNCHANGED <<ws, wire>>
    /\ UNCHANGED <<mode, req, ntfn, hin, hout, rec, rs, post, dropped, drained, overtaken, refused>>

\* On a connection that is broken already it has no other effect.
UserDisconnect ==
    /\ WebSocket /\ ws.conn \in 1..(MaxConns - 1) /\ ~ ws.disconnected /\ wire[ws.conn].alive
    /\ Disconnect
    /\ UNCHANGED <<mode, shutdown, req, resp, list, ntfn, hin, hout, rec, rs, post, dropped,
                   drained, overtaken, refused>>

-----------------------------------------------------------------------------
(* The server and the wire *)

\* What reaches the server is served at once: a request lost before that and
\* a reply lost after it look the same to the client.  The server may refuse a
\* registration, and answers with an error then; refused is the history of that.
Served(w, r, ok) ==
    [w EXCEPT !.down = Append(@, [id |-> r, err |-> ~ ok]),
              !.registered = @ \/ (MethodOf(r) = "notify" /\ ok),
              !.refused = @ \/ (r \in Reqs /\ ~ ok)]

\* The last connection that the bound allows does not break by itself.
Break(n) ==
    /\ wire[n].alive /\ n < MaxConns
    /\ wire' = HangUp(n)
    /\ UNCHANGED <<mode, shutdown, req, resp, list, ntfn, ws, hin, hout, rec, rs, post, dropped,
                   drained, overtaken, refused>>

-----------------------------------------------------------------------------
(* wsOutHandler.  ch: the disconnect channel that the select waits on. *)

OutTake(k) ==
    /\ hout[k].pc = "select" /\ ws.sendChan # <<>>
    /\ hout' = [hout EXCEPT ![k].pc = "write", ![k].msg = Head(ws.sendChan)]
    /\ ws' = [ws EXCEPT !.sendChan = Tail(@)]
    /\ UNCHANGED <<mode, shutdown, req, resp, list, ntfn, wire, hin, rec, rs, post, dropped,
                   drained, overtaken, refused>>

\* Whichever connection is current is written to.
OutWrite(k) ==
    /\ hout[k].pc = "write" /\ wire[ws.conn].alive
    /\ \E ok \in BOOLEAN :
        /\ MethodOf(hout[k].msg) = "notify" \/ ok
        /\ wire' = [wire EXCEPT ![ws.conn] = Served(@, hout[k].msg, ok)]
    /\ hout' = [hout EXCEPT ![k].pc = "select", ![k].ch = ws.conn, ![k].msg = None]
    /\ UNCHANGED <<mode, shutdown, req, resp, list, ntfn, ws, hin, rec, rs, post, dropped, drained,
                   overtaken, refused>>

OutWriteFails(k) ==
    /\ hout[k].pc = "write" /\ ~ wire[ws.conn].alive
    /\ Disconnect
    /\ hout' = [hout EXCEPT ![k].pc = "drain", ![k].ch = k, ![k].msg = None]
    /\ UNCHANGED <<mode, shutdown, req, resp, list, ntfn, hin, rec, rs, post, dropped, drained, overtaken, refused>>

OutQuit(k) ==
    /\ hout[k].pc = "select" /\ (hout[k].ch < ws.conn \/ ws.disconnected)
    /\ hout' = [hout EXCEPT ![k].pc = "drain", ![k].ch = k]
    /\ UNCHANGED <<mode, shutdown, req, resp, list, ntfn, ws, wire, hin, rec, rs, post, dropped,
                   drained, overtaken, refused>>

OutDrain(k) ==
    /\ hout[k].pc = "drain"
    /\ IF ws.sendChan = <<>>
       THEN hout' = [hout EXCEPT ![k].pc = "done"] /\ UNCHANGED <<ws, drained>>
       ELSE /\ ws' = [ws EXCEPT !.sendChan = Tail(@)]
            /\ drained' = IF ws.disconnected THEN drained ELSE drained \cup {Head(ws.sendChan)}
            /\ UNCHANGED hout
    /\ UNCHANGED <<mode, shutdown, req, resp, list, ntfn, wire, hin, rec, rs, post, dropped, overtaken, refused>>

-----------------------------------------------------------------------------
(* wsInHandler and handleMessage.  rc: the connection it reads from. *)

InRead(k) ==
    LET n == hin[k].rc
    IN  /\ hin[k].pc = "read" /\ wire[n].alive /\ wire[n].down # <<>>
        /\ hin' = [hin EXCEPT ![k].pc = "remove", ![k].msg = Head(wire[n].down).id,
                             ![k].err = Head(wire[n].down).err]
        /\ wire' = [wire EXCEPT ![n].down = Tail(@)]
        /\ UNCHANGED <<mode, shutdown, req, resp, list, ntfn, ws, hout, rec, rs, post, dropped,
                       drained, overtaken, refused>>

\* the loop looks at shutdown, and reads from the connection of the moment
InNext ==
    [pc |-> IF shutdown THEN "stop" ELSE "read", rc |-> ws.conn, msg |-> None, err |-> FALSE]

\* mutant: an answer does not take its request off the list
InRemove_Keep(k) ==
    /\ hin[k].pc = "remove"
    /\ hin' = [hin EXCEPT ![k] = IF hin[k].msg \in ToSet(list) THEN [@ EXCEPT !.pc = "track"] ELSE InNext]
    /\ UNCHANGED <<mode, shutdown, req, resp, list, ntfn, ws, wire, hout, rec, rs, post, dropped,
                   drained, overtaken, refused>>

\* removeRequest; a reply that nobody waits for is logged
InRemove(k) ==
    /\ hin[k].pc = "remove"
    /\ hin' = [hin EXCEPT ![k] = IF hin[k].msg \in ToSet(list) THEN [@ EXCEPT !.pc = "track"] ELSE InNext]
    /\ list' = Without(list, {hin[k].msg})
    /\ UNCHANGED <<mode, shutdown, req, resp, ntfn, ws, wire, hout, rec, rs, post, dropped, drained,
                   overtaken, refused>>

\* trackRegisteredNtfns, before the reply is looked at, and the response
InDeliver(k) ==
    /\ hin[k].pc = "track"
    /\ ntfn' = (ntfn \/ MethodOf(hin[k].msg) = "notify")
    /\ overtaken' = (overtaken \/ (MethodOf(hin[k].msg) = "notify" /\ hin[k].rc # ws.conn))
    /\ resp' = Respond({hin[k].msg})
    /\ refused' = IF hin[k].err THEN refused \cup {hin[k].msg} ELSE refused
    /\ hin' = [hin EXCEPT ![k] = InNext]
    /\ UNCHANGED <<mode, shutdown, req, list, ws, wire, hout, rec, rs, post, dropped, drained>>

\* mutant: the input handler ends and leaves the client connected
InStop_Quiet(k) ==
    /\ hin[k].pc = "stop" \/ (hin[k].pc = "read" /\ ~ wire[hin[k].rc].alive)
    /\ hin' = [hin EXCEPT ![k].pc = "done", ![k].rc = k]
    /\ UNCHANGED <<mode, shutdown, req, resp, list, ntfn, ws, wire, hout, rec, rs, post, dropped,
                   drained, overtaken, refused>>

InStop(k) ==
    /\ hin[k].pc = "stop" \/ (hin[k].pc = "read" /\ ~ wire[hin[k].rc].alive)
    /\ Disconnect
    /\ hin' = [hin EXCEPT ![k].pc = "done", ![k].rc = k]
    /\ UNCHANGED <<mode, shutdown, req, resp, list, ntfn, hout, rec, rs, post, dropped, drained, overtaken, refused>>

-----------------------------------------------------------------------------
(* start, Connect and wsReconnectHandler *)

\* The input handler looks at shutdown before it reads.
StartHandlers(n) ==
    /\ hin' = [hin EXCEPT ![n] = [pc |-> IF shutdown THEN "stop" ELSE "read", rc |-> n,
                                  msg |-> None, err |-> FALSE]]
    /\ hout' = [hout EXCEPT ![n] = [pc |-> "select", ch |-> n, msg |-> None]]
    /\ wire' = [wire EXCEPT ![n].alive = TRUE]

Connect ==
    /\ WebSocket /\ ws.conn = 0
    /\ ws' = [ws EXCEPT !.conn = 1]
    /\ StartHandlers(1)
    /\ rec' = IF mode = "ws" THEN "wait" ELSE "done"
    /\ UNCHANGED <<mode, shutdown, req, resp, list, ntfn, rs, post, dropped, drained, overtaken, refused>>

RecWake ==
    /\ \/ rec = "wait" /\ ws.disconnected /\ rec' = "dial"
       \/ rec = "wait" /\ shutdown /\ rec' = "done"
       \/ rec = "dial" /\ rec' = IF shutdown THEN "done" ELSE "dialing"
    /\ UNCHANGED <<mode, shutdown, req, resp, list, ntfn, ws, wire, hin, hout, rs, post, dropped,
                   drained, overtaken, refused>>

RecDialFails ==
    /\ rec = "dialing" /\ rec' = "dial"
    /\ UNCHANGED <<mode, shutdown, req, resp, list, ntfn, ws, wire, hin, hout, rs, post, dropped,
                   drained, overtaken, refused>>

RecDial ==
    /\ rec = "dialing" /\ ws.conn < MaxConns
    /\ LET n == ws.conn + 1
       IN  /\ ws' = [ws EXCEPT !.conn = n, !.disconnected = FALSE]
           /\ StartHandlers(n)
           /\ rs' = [rs EXCEPT ![n].pc = "register"]
    /\ rec' = "wait"
    /\ UNCHANGED <<mode, shutdown, req, resp, list, ntfn, post, dropped, drained, overtaken, refused>>

-----------------------------------------------------------------------------
(* resendRequests *)

\* reregisterNtfns calls SendCmd and waits
RsRegister(k) ==
    /\ rs[k].pc = "register"
    /\ rs' = [rs EXCEPT ![k].pc = IF ntfn THEN "wait" ELSE "copy"]
    /\ IF ntfn THEN AddRequest(<<"again", k>>) ELSE UNCHANGED <<req, resp, list>>
    /\ UNCHANGED <<mode, shutdown, ntfn, ws, wire, hin, hout, rec, post, dropped, drained, overtaken, refused>>

\* After an error, of the server or of Shutdown, the connection is given up and
\* nothing is sent again; after Shutdown there is nothing to send either.
RsFails(k) == shutdown \/ <<"again", k>> \in refused
RsRegistered(k) ==
    /\ rs[k].pc = "wait" /\ resp[<<"again", k>>] > 0
    /\ rs' = [rs EXCEPT ![k].pc = IF RsFails(k) THEN "done" ELSE "copy"]
    /\ IF RsFails(k) THEN Disconnect ELSE UNCHANGED <<ws, wire>>
    /\ UNCHANGED <<mode, shutdown, req, resp, list, ntfn, hin, hout, rec, post, dropped, drained, overtaken, refused>>

\* Requests of ignoreResends leave the list and get no response.
RsCopy(k) ==
    /\ rs[k].pc = "copy"
    /\ LET ignored == {r \in ToSet(list) : MethodOf(r) = "rescan"}
       IN  /\ list' = Without(list, ignored)
           /\ dropped' = dropped \cup ignored
           /\ rs' = [rs EXCEPT ![k].pc = "send", ![k].todo = Without(list, ignored)]
    /\ UNCHANGED <<mode, shutdown, req, resp, ntfn, ws, wire, hin, hout, rec, post, drained, overtaken, refused>>

RsSend(k) ==
    /\ rs[k].pc = "send"
    /\ IF rs[k].todo = <<>> \/ ws.disconnected
       THEN rs' = [rs EXCEPT ![k].pc = "done", ![k].todo = <<>>] /\ UNCHANGED <<ws, drained>>
       ELSE /\ rs' = [rs EXCEPT ![k].todo = Tail(@)]
            /\ ws' = [ws EXCEPT !.sendChan = Append(@, Head(rs[k].todo))]
            /\ drained' = drained \ {Head(rs[k].todo)}
    /\ UNCHANGED <<mode, shutdown, req, resp, list, ntfn, wire, hin, hout, rec, post, dropped,
                   overtaken, refused>>

-----------------------------------------------------------------------------
(* HTTP POST mode *)

PostGuard(r) ==
    /\ req[r] = "guard"
    /\ req' = [req EXCEPT ![r] = IF shutdown THEN "done" ELSE "enqueue"]
    /\ resp' = IF shutdown THEN Respond({r}) ELSE resp
    /\ post' = IF shutdown THEN [post EXCEPT !.failed = @ \cup {r}] ELSE post
    /\ UNCHANGED <<mode, shutdown, list>> /\ UNCHANGED wsVars

\* the select of sendPostRequest
PostEnqueue(r) ==
    /\ req[r] = "enqueue"
    /\ \/ /\ req' = [req EXCEPT ![r] = "wait"]
          /\ post' = [post EXCEPT !.chan = Append(@, r)]
          /\ UNCHANGED resp
       \/ /\ shutdown
          /\ req' = [req EXCEPT ![r] = "done"]
          /\ resp' = Respond({r})
          /\ post' = [post EXCEPT !.failed = @ \cup {r}]
    /\ UNCHANGED <<mode, shutdown, list>> /\ UNCHANGED wsVars

\* the goroutine that turns shutdown into a cancelled context
PostCancel ==
    /\ ~ WebSocket /\ shutdown /\ ~ post.cancelled
    /\ post' = [post EXCEPT !.cancelled = TRUE]
    /\ UNCHANGED <<mode, shutdown, req, resp, list>> /\ UNCHANGED wsVars

PostTake ==
    /\ post.pc = "select" /\ post.chan # <<>>
    /\ post' = [post EXCEPT !.pc = "busy", !.msg = Head(post.chan), !.chan = Tail(@), !.try = 1]
    /\ UNCHANGED <<mode, shutdown, req, resp, list>> /\ UNCHANGED wsVars

PostOk ==
    /\ post.pc = "busy"
    /\ resp' = Respond({post.msg})
    /\ post' = [post EXCEPT !.pc = "select", !.msg = None]
    /\ UNCHANGED <<mode, shutdown, req, list>> /\ UNCHANGED wsVars

\* A failed attempt is repeated, unless it was the last or the context is
\* cancelled.
PostFails ==
    /\ post.pc = "busy"
    /\ IF post.try < Tries /\ ~ post.cancelled
       THEN post' = [post EXCEPT !.try = @ + 1] /\ UNCHANGED resp
       ELSE /\ post' = [post EXCEPT !.pc = "select", !.msg = None, !.failed = @ \cup {post.msg}]
            /\ resp' = Respond({post.msg})
    /\ UNCHANGED <<mode, shutdown, req, list>> /\ UNCHANGED wsVars

PostQuit ==
    /\ post.pc = "select" /\ post.cancelled
    /\ post' = [post EXCEPT !.pc = "drain"]
    /\ UNCHANGED <<mode, shutdown, req, resp, list>> /\ UNCHANGED wsVars

PostDrain ==
    /\ post.pc = "drain"
    /\ IF post.chan = <<>> THEN post' = [post EXCEPT !.pc = "done"] /\ UNCHANGED resp
       ELSE /\ resp' = Respond({Head(post.chan)})
            /\ post' = [post EXCEPT !.chan = Tail(@), !.failed = @ \cup {Head(post.chan)}]
    /\ UNCHANGED <<mode, shutdown, req, list>> /\ UNCHANGED wsVars

-----------------------------------------------------------------------------
(* Batch mode *)

\* Send, up to the wait: all of batchList goes out as one request.
SendAsync ==
    /\ mode = "batch" /\ post.sends < MaxSends /\ list # <<>>
    /\ LET i == post.sends + 1
       IN  /\ post' = [post EXCEPT !.sends = i, !.snap[i] = ToSet(list), !.open = @ \cup {i}]
           /\ req' = [req EXCEPT ![<<"batch", i>>] = "guard"]
    /\ UNCHANGED <<mode, shutdown, resp, list>> /\ UNCHANGED wsVars

\* each answer goes to the request that is still there
BatchAnswered(i) ==
    /\ i \in post.open /\ resp[<<"batch", i>>] > 0 /\ <<"batch", i>> \notin post.failed
    /\ resp' = Respond(post.snap[i] \cap ToSet(list))
    /\ list' = Without(list, post.snap[i])
    /\ post' = [post EXCEPT !.open = @ \ {i}]
    /\ UNCHANGED <<mode, shutdown, req>> /\ UNCHANGED wsVars

\* failBatchRequests: everything in batchList, sent or not
BatchFailed(i) ==
    /\ i \in post.open /\ <<"batch", i>> \in post.failed
    /\ resp' = Respond(ToSet(list))
    /\ list' = <<>>
    /\ post' = [post EXCEPT !.open = @ \ {i}]
    /\ UNCHANGED <<mode, shutdown, req>> /\ UNCHANGED wsVars

-----------------------------------------------------------------------------
Init ==
    /\ mode \in Modes
    /\ shutdown = FALSE /\ list = <<>> /\ ntfn = FALSE
    /\ req = [r \in Ids |-> IF r \in Reqs THEN "new" ELSE "unused"]
    /\ resp = [r \in Ids |-> 0]
    /\ ws = [conn |-> 0, disconnected |-> FALSE, failing |-> FALSE, sendChan |-> <<>>]
    /\ wire = [n \in Conns |-> DeadWire]
    /\ hin = [k \in Conns |-> [pc |-> "done", rc |-> k, msg |-> None, err |-> FALSE]]
    /\ hout = [k \in Conns |-> [pc |-> "done", ch |-> k, msg |-> None]]
    /\ rec = "done" /\ rs = [k \in Conns |-> [pc |-> "done", todo |-> <<>>]]
    /\ post = [pc |-> IF WebSocket THEN "done" ELSE "select", chan |-> <<>>, msg |-> None, try |-> 0,
               cancelled |-> FALSE, failed |-> {}, sends |-> 0, open |-> {},
               snap |-> [i \in 1..MaxSends |-> {}]]
    /\ dropped = {} /\ drained = {} /\ overtaken = FALSE /\ refused = {}

Next ==
    \/ \E r \in Ids : SendCmd(r) \/ SendMessage(r) \/ PostGuard(r) \/ PostEnqueue(r)
    \/ FailPending \/ Shutdown \/ UserDisconnect \/ Connect
    \/ \E n \in Conns : Break(n)
    \/ \E k \in Conns :
        \/ OutTake(k) \/ OutWrite(k) \/ OutWriteFails(k) \/ OutQuit(k) \/ OutDrain(k)
        \/ InRead(k) \/ InRemove(k) \/ InDeliver(k) \/ InStop(k)
        \/ RsRegister(k) \/ RsRegistered(k) \/ RsCopy(k) \/ RsSend(k)
    \/ RecWake \/ RecDialFails \/ RecDial
    \/ PostCancel \/ PostTake \/ PostOk \/ PostFails \/ PostQuit \/ PostDrain
    \/ SendAsync \/ \E i \in 1..MaxSends : BatchAnswered(i) \/ BatchFailed(i)

Spec == Init /\ [][Next]_vars

(* Goroutines are scheduled, dialling succeeds in the end, the server      *)
(* answers.  Nobody has to call, to shut down or to break a connection.    *)
(* The requests are finitely many, so no goroutine but the one that dials  *)
(* can take steps for ever, and one condition for all the others will do.  *)
Steps ==
    \/ \E r \in Ids : SendMessage(r) \/ PostGuard(r) \/ PostEnqueue(r)
    \/ FailPending
    \/ \E k \in Conns :
        \/ OutTake(k) \/ OutWrite(k) \/ OutWriteFails(k) \/ OutQuit(k) \/ OutDrain(k)
        \/ InRead(k) \/ InRemove(k) \/ InDeliver(k) \/ InStop(k)
        \/ RsRegister(k) \/ RsRegistered(k) \/ RsCopy(k) \/ RsSend(k)
    \/ PostCancel \/ PostTake \/ PostOk \/ PostFails \/ PostQuit \/ PostDrain
    \/ \E i \in 1..MaxSends : BatchAnswered(i) \/ BatchFailed(i)

FairSpec == Spec /\ WF_vars(Steps) /\ WF_vars(RecWake) /\ SF_vars(RecDial)

-----------------------------------------------------------------------------
(* Properties. *)

TypeOK ==
    /\ mode \in Modes /\ shutdown \in BOOLEAN /\ ntfn \in BOOLEAN
    /\ req \in [Ids -> {"unused", "new", "guard", "enqueue", "send", "wait", "done"}]
    /\ IsInjective(list) /\ ToSet(list) \subseteq Ids
    /\ ws.conn \in 0..MaxConns /\ ToSet(ws.sendChan) \subseteq Ids
    /\ rec \in {"wait", "dial", "dialing", "done"}

\* A response channel holds one response and nobody reads it twice: a second
\* one would block its sender, and with it the request lock, for ever.
OneResponse == \A r \in Ids : resp[r] <= 1

Held(r) == r \in ToSet(list) \/ \E k \in Conns : hin[k].pc = "track" /\ hin[k].msg = r
Waits(r) == req[r] \in {"send", "wait"} /\ resp[r] = 0

\* A websocket request that has no response yet is on the list, where replies,
\* resendRequests and Shutdown find it, or in the hands of the input handler;
\* only ignored resends are not.
Tracked == WebSocket => \A r \in Ids : Waits(r) => Held(r) \/ r \in dropped

\* nothing under way between the client and the server of this connection
Settled ==
    /\ WebSocket /\ ws.conn > 0 /\ ~ ws.disconnected /\ ~ shutdown /\ wire[ws.conn].alive
    /\ list = <<>> /\ \A k \in Conns : rs[k].pc = "done" /\ hin[k].pc \in {"read", "done"}
    /\ \A r \in Ids : req[r] # "send"

\* A connection on which nothing is under way has the registrations that the
\* client believes to have, whatever was interrupted before.  Refused ones are
\* believed in too (the comment at infrastructure.go:446-448 says "since the
\* command was successful"), so a registration that a caller asked for on this
\* connection and did not get is excepted; one refused on an earlier connection
\* is not, since it is made again, and neither is one refused to resendRequests,
\* which gives the connection up.  The other exception is a reply that was still
\* being handled when its connection was replaced.
RegistrationsRestored ==
    Settled /\ ntfn /\ ~ overtaken => wire[ws.conn].registered \/ wire[ws.conn].refused

\* The requests and registrations that the client keeps are those it has to
\* answer and to make again (addRequest, removeRequest, resendRequests).
ResponsesTracked == TypeOK /\ OneResponse /\ Tracked /\ RegistrationsRestored

OutOfConns == ws.conn = MaxConns /\ (ws.disconnected \/ ~ wire[ws.conn].alive)

\* After Shutdown every goroutine ends (WaitForShutdown returns), whichever
\* reconnect or resend it meets; at the bound of connections the dial does not
\* return.
Ended ==
    shutdown => /\ \A k \in Conns : hin[k].pc = "done" /\ hout[k].pc = "done"
                /\ rec = "done" \/ OutOfConns
                /\ post.pc = "done"

\* resendRequests waits for the reply to a registration that was thrown away
Starved == \E k \in Conns : rs[k].pc = "wait" /\ <<"again", k>> \in drained

\* A websocket request gets its response, through any number of reconnects.
\* Three kinds do not: one that is not sent again; one that an output handler of
\* an earlier connection took from sendChan and threw away after the client was
\* connected again, or that waits behind a registration lost in that way; and
\* one whose connections all break or are given up, as every one is on which the
\* server refuses the registrations.
Answered ==
    \A r \in Ids : (WebSocket /\ Waits(r)) => r \in dropped \cup drained \/ Starved \/ OutOfConns

Posted(r) == mode = "post" /\ req[r] \in {"guard", "enqueue", "wait"} /\ resp[r] = 0

\* A posted request gets its response, unless it was put in the channel after
\* the handler had drained it.
PostAnswered == \A r \in Ids : Posted(r) => post.pc = "done" /\ r \in ToSet(post.chan)

\* Whatever the connections do, the client comes to rest with every goroutine
\* ended that has to and every request answered that can be.
ComesToRest == <>[](Ended /\ Answered /\ PostAnswered)
=============================================================================
