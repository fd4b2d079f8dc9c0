---------------------------- MODULE PeerRequests ----------------------------
(***************************************************************************)
(* server.go: how a getdata message of a peer is answered.  OnGetData      *)
(* queues the data a few items at a time and waits for the done channels.  *)
(* It also looks at sp.quit, which no code closes: that case of its two    *)
(* selects is never taken, and only the values of the done channels end    *)
(* the waits.  QueueMessage is code of the peer package, which gives every *)
(* done channel its value, on a lost connection too.                       *)
(***************************************************************************)
EXTENDS Integers, Sequences, SequencesExt, FiniteSets, Ordering

CONSTANTS
    Txs, Blocks,    \* what is in the mempool, and what is in the chain
    NumBuffered,    \* numBuffered
    Requests,       \* lists of inventory vectors [type, hash] that are asked for
    MaxRequests     \* bound: requests

\* what is asked for
Inventory == UNION {ToSet(list) : list \in Requests}

RequestAssumption ==
    /\ NumBuffered \in Nat \ {0}
    /\ Requests \subseteq Seq(Inventory)

VARIABLES
    filter,         \* a bloom filter is loaded
    connected,      \* the connection is open
    outQueue,       \* messages of the peer that are not sent, with their done flag
    sent,           \* messages sent
    request,        \* items of the getdata message that is being answered
    item,           \* number of items handled
    at,             \* what OnGetData does: "idle", "push", "wait", "last"
    open,           \* done channels it will wait for
    signalled,      \* how many of them have got their value
    failed,         \* items for the notfound message
    requests

vars == <<filter, connected, outQueue, sent, request, item, at, open, signalled, failed, requests>>

-----------------------------------------------------------------------------
(* getdata *)

\* A message for the peer; done tells that a done channel goes with it.
Message(kind, what, done) == [kind |-> kind, what |-> what, done |-> done]

Have(iv) == (iv.type = "tx" /\ iv.hash \in Txs) \/ (iv.type = "block" /\ iv.hash \in Blocks)

\* pushTxMsg, pushBlockMsg and pushMerkleBlockMsg: the messages that are
\* queued, and whether there was an error.  Where no message is queued the
\* done channel gets its value at once.
PushInventory(iv) ==
    IF Have(iv)
    THEN [msgs |-> <<Message("data", iv, TRUE)>>, err |-> FALSE]
    ELSE IF iv.type = "filtered" /\ ~ filter THEN [msgs |-> <<>>, err |-> FALSE]
    ELSE IF iv.type = "filtered" /\ iv.hash \in Blocks
    THEN [msgs |-> <<Message("data", iv, TRUE), Message("matched", iv, FALSE)>>, err |-> FALSE]
    ELSE [msgs |-> <<>>, err |-> TRUE]

\* the values that done channels get when msgs are given to QueueMessage: at
\* once when the peer is not connected
Given(msgs) == IF connected THEN 0 ELSE Cardinality({i \in DOMAIN msgs : msgs[i].done})

Queued(msgs) == IF connected THEN outQueue \o msgs ELSE outQueue

OnGetData(list) ==
    /\ at = "idle" /\ connected /\ requests < MaxRequests
    /\ requests' = requests + 1
    /\ request' = list /\ item' = 0 /\ at' = "push" /\ open' = 0 /\ signalled' = 0 /\ failed' = <<>>
    /\ sent' = <<>>
    /\ UNCHANGED <<filter, connected, outQueue>>

\* mutant: the slots are emptied one item late
Batch_Late(n) == n % (NumBuffered + 1) = 0

\* the slots are to be emptied after n items
Batch(n) == n % NumBuffered = 0

\* the loop over the items
Push ==
    /\ at = "push" /\ item < Len(request)
    /\ \E iv \in {request[item + 1]} : \E p \in {PushInventory(iv)} :
        /\ outQueue' = Queued(p.msgs)
        /\ signalled' = signalled + (IF p.msgs = <<>> THEN 1 ELSE Given(p.msgs))
        /\ failed' = IF p.err THEN Append(failed, iv) ELSE failed
    /\ item' = item + 1
    /\ open' = open + 1
    /\ at' = IF Batch(item') THEN "wait" ELSE "push"
    /\ UNCHANGED <<filter, connected, sent, request, requests>>

NotFound == Message("notfound", failed, TRUE)

\* after the loop: the notfound message, and the last wait
Finish ==
    /\ at = "push" /\ item = Len(request)
    /\ at' = "last"
    /\ \E msgs \in {IF failed = <<>> THEN <<>> ELSE <<NotFound>>} :
        /\ outQueue' = Queued(msgs)
        /\ signalled' = signalled + Given(msgs)
        /\ open' = open + Len(msgs)
    /\ UNCHANGED <<filter, connected, sent, request, item, failed, requests>>

\* all done channels have got their values
Await ==
    /\ at \in {"wait", "last"} /\ signalled = open
    /\ at' = IF at = "wait" THEN "push" ELSE "idle"
    /\ open' = 0 /\ signalled' = 0
    /\ UNCHANGED <<filter, connected, outQueue, sent, request, item, failed, requests>>

\* the peer's output handler writes a message and then signals
Send ==
    /\ outQueue # <<>>
    /\ sent' = IF connected THEN Append(sent, Head(outQueue)) ELSE sent
    /\ signalled' = IF Head(outQueue).done THEN signalled + 1 ELSE signalled
    /\ outQueue' = Tail(outQueue)
    /\ UNCHANGED <<filter, connected, request, item, at, open, failed, requests>>

Disconnect ==
    /\ connected /\ connected' = FALSE
    /\ UNCHANGED <<filter, outQueue, sent, request, item, at, open, signalled, failed, requests>>

-----------------------------------------------------------------------------
Init ==
    /\ filter \in BOOLEAN /\ connected = TRUE
    /\ outQueue = <<>> /\ sent = <<>> /\ request = <<>> /\ item = 0 /\ at = "idle" /\ open = 0 /\ signalled = 0
    /\ failed = <<>> /\ requests = 0

Next ==
    \/ \E list \in Requests : OnGetData(list)
    \/ Push \/ Finish \/ Await \/ Send \/ Disconnect

Spec == Init /\ [][Next]_vars

\* the callback and the output handler of the peer go on
FairSpec == Spec /\ WF_vars(Push \/ Finish) /\ WF_vars(Await) /\ WF_vars(Send)

-----------------------------------------------------------------------------
(* Properties. *)

\* Not more messages wait than there are slots, however long the getdata
\* message is; the notfound message has a slot too.
SlotsBounded == Cardinality({i \in DOMAIN outQueue : outQueue[i].done}) <= NumBuffered /\ open <= NumBuffered

\* Items that are not answered, and those that cannot be sent.
Skipped(iv) == iv.type = "filtered" /\ ~ filter
Missing(iv) == ~ ((iv.type = "tx" /\ iv.hash \in Txs) \/ (iv.type \in {"block", "filtered"} /\ iv.hash \in Blocks))

OfKind(msgs, kind) == Picked(msgs, {i \in DOMAIN msgs : msgs[i].kind = kind})

\* When OnGetData has ended on an open connection, every item was answered
\* once and in order: by its data or in the notfound message, except filtered
\* blocks without a filter.
AnsweredOnce ==
    (at = "idle" /\ connected) =>
        LET data == OfKind(sent, "data")
            notfound == OfKind(sent, "notfound")
            wanted == {i \in DOMAIN request : ~ Skipped(request[i]) /\ ~ Missing(request[i])}
            missing == {i \in DOMAIN request : ~ Skipped(request[i]) /\ Missing(request[i])}
        IN  /\ [i \in DOMAIN data |-> data[i].what] = Picked(request, wanted)
            /\ notfound = IF missing = {} THEN <<>> ELSE <<Message("notfound", Picked(request, missing), TRUE)>>

\* Every item of a getdata message is answered once and in order, in few
\* slots.
AnswersSound == SlotsBounded /\ AnsweredOnce

\* OnGetData ends, also when the connection is lost in between: all done
\* channels it waits for get their value.
GetDataEnds == at # "idle" ~> at = "idle"
=============================================================================
