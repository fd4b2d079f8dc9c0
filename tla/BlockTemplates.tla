--------------------------- MODULE BlockTemplates ---------------------------
(***************************************************************************)
(* rpcserver.go, gbtWorkState: the block template that getblocktemplate    *)
(* calls share, and the clients that wait for it to become stale (long     *)
(* polling).  The state has a lock; the chain and the memory pool move on  *)
(* without it, and tell of it from goroutines of their own that take the   *)
(* lock in any order.                                                      *)
(*                                                                         *)
(* Times are in seconds, as in the long poll IDs.  Best blocks are         *)
(* numbered in the order they become best, and each is best once: a        *)
(* reorganization is one step, and InvalidateBlock is left out.  In the    *)
(* program the block where two branches part is best again for a moment    *)
(* while the blocks above it are disconnected; a call that falls into this *)
(* moment is not modelled (ReplyCurrent says what depends on it).          *)
(***************************************************************************)
EXTENDS Integers, Sequences, FiniteSets

CONSTANTS
    MaxBlock,       \* bound: best blocks
    Clients,
    GbtRegenerateSeconds,
    MaxTime,        \* bound: clock
    MaxRequests,    \* bound: requests
    None

TemplateAssumption == MaxBlock \in Nat /\ MaxTime \in Nat \ {0} /\ None \notin Clients

VARIABLES
    best, now,
    lastUpdated,    \* TxPool.LastUpdated
    template,       \* the template: previous block and payee of its coinbase
    prevHash, lastGenerated, lastTxUpdate,
    notifyMap,      \* channels that are not closed: [hash, gen]
    lock,           \* client that holds the lock
    blockNtfns,     \* goroutines of NotifyBlockConnected that have not run
    txNtfns,        \* those of NotifyMempoolTx
    call,           \* of each client: the call that is served
    lastID,         \* of each client: the long poll ID of its last reply
    seen,           \* of each client: best blocks since it got the lock
    requests

stateVars == <<template, prevHash, lastGenerated, lastTxUpdate>>
vars == <<best, now, lastUpdated, template, prevHash, lastGenerated, lastTxUpdate, notifyMap, lock, blockNtfns,
          txNtfns, call, lastID, seen, requests>>

Idle == [at |-> "idle"]
Side == -1

\* the channels that notifyLongPollers closes; a zero time stands for no
\* template
Closed(latestHash, generated) ==
    {k \in notifyMap : k.hash # latestHash \/ (generated # 0 /\ k.gen < generated)}

\* clients whose channels are closed go on
Woken(closed) ==
    [c \in Clients |-> IF call[c].at = "wait" /\ call[c].key \in closed THEN [call[c] EXCEPT !.at = "woken"] ELSE call[c]]

NotifyLongPollers(latestHash, generated) ==
    /\ notifyMap' = notifyMap \ Closed(latestHash, generated)
    /\ call' = Woken(Closed(latestHash, generated))

-----------------------------------------------------------------------------
(* The chain, the memory pool and the clock *)

Connect ==
    /\ best < MaxBlock
    /\ best' = best + 1
    /\ blockNtfns' = blockNtfns \cup {best'}
    /\ seen' = [c \in Clients |-> IF lock = c THEN seen[c] \cup {best'} ELSE seen[c]]
    /\ UNCHANGED <<now, lastUpdated, stateVars, notifyMap, lock, txNtfns, call, lastID, requests>>

\* a block of a side chain is accepted: it is told of like any other
AcceptSideBlock ==
    /\ blockNtfns' = blockNtfns \cup {Side}
    /\ UNCHANGED <<best, now, lastUpdated, stateVars, notifyMap, lock, txNtfns, call, lastID, seen, requests>>

MempoolTx ==
    /\ lastUpdated' = now
    /\ txNtfns' = txNtfns \cup {now}
    /\ UNCHANGED <<best, now, stateVars, notifyMap, lock, blockNtfns, call, lastID, seen, requests>>

Tick ==
    /\ now < MaxTime /\ now' = now + 1
    /\ UNCHANGED <<best, lastUpdated, stateVars, notifyMap, lock, blockNtfns, txNtfns, call, lastID, seen, requests>>

NotifyBlockConnected(b) ==
    /\ lock = None /\ b \in blockNtfns
    /\ blockNtfns' = blockNtfns \ {b}
    /\ NotifyLongPollers(b, lastTxUpdate)
    /\ UNCHANGED <<best, now, lastUpdated, stateVars, lock, txNtfns, lastID, seen, requests>>

NotifyMempoolTx(t) ==
    /\ lock = None /\ t \in txNtfns
    /\ txNtfns' = txNtfns \ {t}
    /\ IF prevHash # None /\ lastGenerated # 0 /\ now > lastGenerated + GbtRegenerateSeconds
       THEN NotifyLongPollers(prevHash, t)
       ELSE UNCHANGED <<notifyMap, call>>
    /\ UNCHANGED <<best, now, lastUpdated, stateVars, lock, blockNtfns, lastID, seen, requests>>

-----------------------------------------------------------------------------
(* getblocktemplate *)

\* A request for the coinbase value or the whole transaction, with the ID of
\* the last reply or without one.
GetBlockTemplate(c, useCoinbaseValue, id) ==
    /\ call[c] = Idle /\ requests < MaxRequests
    /\ call' = [call EXCEPT ![c] = [at |-> "start", value |-> useCoinbaseValue, id |-> id]]
    /\ requests' = requests + 1
    /\ UNCHANGED <<best, now, lastUpdated, stateVars, notifyMap, lock, blockNtfns, txNtfns, lastID, seen>>

\* mutant: a new best block does not make the template stale
Stale_TxOnly(tx) ==
    template = None \/ prevHash = None \/ (lastTxUpdate # tx /\ now > lastGenerated + GbtRegenerateSeconds)

\* a new template is to be generated
Stale(tx) ==
    \/ template = None \/ prevHash = None \/ prevHash # best
    \/ lastTxUpdate # tx /\ now > lastGenerated + GbtRegenerateSeconds

\* a template that is kept gets a payment address when the whole coinbase is
\* asked for
Repaid(value) == IF value \/ template.payee # "anyone" THEN template ELSE [template EXCEPT !.payee = "configured"]

\* the first half of updateBlockTemplate, up to the generation
UpdateBlockTemplate(c) ==
    /\ lock = None /\ call[c].at \in {"start", "woken"}
    /\ lock' = c
    /\ seen' = [seen EXCEPT ![c] = {best}]
    /\ \E tx \in {IF lastUpdated = 0 THEN now ELSE lastUpdated} :
        IF Stale(tx)
        THEN /\ prevHash' = None
             /\ call' = [call EXCEPT ![c] = [at |-> "generate", value |-> call[c].value, tx |-> tx, hash |-> best,
                                             id |-> call[c].id, polled |-> call[c].at = "woken"]]
             /\ UNCHANGED template
        ELSE /\ template' = Repaid(call[c].value)
             /\ call' = [call EXCEPT ![c] = [at |-> "result", value |-> call[c].value, id |-> call[c].id,
                                             polled |-> call[c].at = "woken"]]
             /\ UNCHANGED prevHash
    /\ UNCHANGED <<best, now, lastUpdated, lastGenerated, lastTxUpdate, notifyMap, blockNtfns, txNtfns, lastID,
                   requests>>

\* NewBlockTemplate builds on the block that is best by now.  The payee is the
\* hash of the text of a configured address, which is not that address.
NewBlockTemplate(c) ==
    /\ call[c].at = "generate"
    /\ template' = [prev |-> best, payee |-> IF call[c].value THEN "anyone" ELSE "text"]
    /\ lastGenerated' = now /\ lastTxUpdate' = call[c].tx /\ prevHash' = call[c].hash
    /\ notifyMap' = notifyMap \ Closed(call[c].hash, call[c].tx)
    /\ call' = [Woken(Closed(call[c].hash, call[c].tx)) EXCEPT ![c] =
                    [at |-> "result", value |-> call[c].value, id |-> call[c].id, polled |-> call[c].polled]]
    /\ UNCHANGED <<best, now, lastUpdated, lock, blockNtfns, txNtfns, lastID, seen, requests>>

\* the ID names the template that is there
Current(id) == id # None /\ id.hash = template.prev /\ id.gen = lastGenerated

\* handleGetBlockTemplateLongPoll: templateUpdateChan
LongPoll(c) ==
    /\ call[c].at = "result" /\ ~ call[c].polled /\ Current(call[c].id)
    /\ notifyMap' = notifyMap \cup {call[c].id}
    /\ call' = [call EXCEPT ![c] = [at |-> "wait", value |-> call[c].value, id |-> call[c].id, key |-> call[c].id]]
    /\ lock' = None
    /\ seen' = [seen EXCEPT ![c] = {}]
    /\ UNCHANGED <<best, now, lastUpdated, stateVars, blockNtfns, txNtfns, lastID, requests>>

\* blockTemplateResult
BlockTemplateResult(c) ==
    /\ call[c].at = "result" /\ (call[c].polled \/ ~ Current(call[c].id))
    /\ lastID' = [lastID EXCEPT ![c] = [hash |-> prevHash, gen |-> lastGenerated]]
    /\ seen' = [seen EXCEPT ![c] = {}]
    /\ call' = [call EXCEPT ![c] = Idle]
    /\ lock' = None
    /\ UNCHANGED <<best, now, lastUpdated, stateVars, notifyMap, blockNtfns, txNtfns, requests>>

\* NewBlockTemplate fails, or the time of the template is out of range: the
\* call ends with the error
CallFails(c) ==
    /\ \/ call[c].at = "generate"
       \/ call[c].at = "result" /\ (call[c].polled \/ ~ Current(call[c].id))
    /\ call' = [call EXCEPT ![c] = Idle]
    /\ lock' = None
    /\ seen' = [seen EXCEPT ![c] = {}]
    /\ UNCHANGED <<best, now, lastUpdated, stateVars, notifyMap, blockNtfns, txNtfns, lastID, requests>>

\* the connection is closed while the client waits
ClientQuits(c) ==
    /\ call[c].at = "wait"
    /\ call' = [call EXCEPT ![c] = Idle]
    /\ seen' = [seen EXCEPT ![c] = {}]
    /\ UNCHANGED <<best, now, lastUpdated, stateVars, notifyMap, lock, blockNtfns, txNtfns, lastID, requests>>

-----------------------------------------------------------------------------
Init ==
    /\ best = 0 /\ now = 1 /\ lastUpdated = 0
    /\ template = None /\ prevHash = None /\ lastGenerated = 0 /\ lastTxUpdate = 0
    /\ notifyMap = {} /\ lock = None /\ blockNtfns = {} /\ txNtfns = {}
    /\ call = [c \in Clients |-> Idle] /\ lastID = [c \in Clients |-> None]
    /\ seen = [c \in Clients |-> {}] /\ requests = 0

Serve(c) == UpdateBlockTemplate(c) \/ NewBlockTemplate(c) \/ CallFails(c) \/ LongPoll(c) \/ BlockTemplateResult(c)

Next ==
    \/ Connect \/ AcceptSideBlock \/ \E b \in {Side} \cup 1..MaxBlock : NotifyBlockConnected(b)
    \/ MempoolTx \/ Tick \/ \E t \in 1..MaxTime : NotifyMempoolTx(t)
    \/ \E c \in Clients : Serve(c) \/ ClientQuits(c)
                          \/ \E value \in BOOLEAN, id \in {None, lastID[c]} : GetBlockTemplate(c, value, id)

Spec == Init /\ [][Next]_vars

\* Goroutines that can go on do, and the lock is handed to all that wait for
\* it.
FairSpec ==
    /\ Spec
    /\ \A c \in Clients : SF_vars(Serve(c))
    /\ \A b \in 1..MaxBlock : SF_vars(NotifyBlockConnected(b))

-----------------------------------------------------------------------------
(* Properties. *)

\* Types; and the lock is held by the call that is being served and released
\* on each of its ways out (handleGetBlockTemplateLongPoll unlocks by hand).
TypeOK ==
    /\ best \in 0..MaxBlock /\ now \in 1..MaxTime /\ lock \in Clients \cup {None}
    /\ template # None => template.prev \in 0..MaxBlock /\ template.payee \in {"anyone", "configured", "text"}
    /\ prevHash \in 0..MaxBlock \cup {None}
    /\ \A c \in Clients : lock = c <=> call[c].at \in {"generate", "result"}

\* A client that waits can be reached: its channel is still in the map
\* (templateUpdateChan, notifyLongPollers).
WaitersReachable == \A c \in Clients : call[c].at = "wait" => call[c].key \in notifyMap

\* No reply is built on a block that had ceased to be the best one before the
\* call got the lock, though the template is shared and the chain moves on
\* while it is generated (updateBlockTemplate).  This rests on no block being
\* best twice: prevHash may be older than the block the template builds on, and
\* would make the template current again if that older block were best again.
ReplyCurrent == \A c \in Clients : call[c].at = "result" => template.prev \in seen[c]

\* A client that asks for a whole coinbase transaction is never given one that
\* anybody can redeem, though the template may have been generated for a client
\* that builds its own coinbase.
NotForAnyone == \A c \in Clients : call[c].at = "result" /\ ~ call[c].value => template.payee # "anyone"

\* What the comment at rpcserver.go:1503-1506 and the help text of miningaddr
\* (config.go:109) promise: the coinbase pays to a configured address.  It does
\* not hold: a template that is generated for such a client pays to the hash of
\* the text of the address (rpcserver.go:1541); only one that was generated for
\* another client and is repaid has the address itself.
CoinbasePays == \A c \in Clients : call[c].at = "result" /\ ~ call[c].value => template.payee = "configured"

\* The shared template, its lock and the clients that wait on it agree
\* (gbtWorkState).
TemplatesSound == TypeOK /\ WaitersReachable /\ ReplyCurrent /\ NotForAnyone

\* A client that waits on a template whose block is no longer the best one is
\* answered, whatever order the notifications run in and whatever blocks they
\* are about (NotifyBlockConnected is called for each accepted block).
StalePollersWake == \A c \in Clients : (call[c].at = "wait" /\ call[c].key.hash # best) ~> call[c].at # "wait"
=============================================================================
