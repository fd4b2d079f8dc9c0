------------------------------ MODULE MCServer ------------------------------
(***************************************************************************)
(* Instances of the two modules about server.go, P2pServer and             *)
(* PeerRequests, which do not share state: `part' says which one moves in  *)
(* a behaviour.  The other keeps an initial state.                         *)
(***************************************************************************)
EXTENDS P2pServer

VARIABLES
    part,
    filter, connected, outQueue, sent, request, item, at, open, signalled, failed, requests

requestVars == <<filter, connected, outQueue, sent, request, item, at, open, signalled, failed, requests>>
allVars == <<part, vars, requestVars>>

-----------------------------------------------------------------------------
(* P2pServer: one peer, one call, channels with room for one and two. *)
MCHostOf == [p1 |-> "h1"]
MCTransient == [mempool |-> 2, addrv2 |-> 1, tx |-> 1, getdata |-> 3]
ASSUME ServerAssumption

(* PeerRequests: requests that fill the slots more than twice, with items   *)
(* that are missing.                                                        *)
Iv(t, h) == [type |-> t, hash |-> h]
MCRequests ==
    {<<Iv("tx", "t"), Iv("block", "a"), Iv("block", "x"), Iv("tx", "t"), Iv("tx", "a")>>,
     <<Iv("filtered", "a"), Iv("filtered", "x"), Iv("block", "a")>>,
     <<Iv("unknown", "x"), Iv("tx", "x"), Iv("block", "x"), Iv("filtered", "a")>>,
     <<Iv("block", "a"), Iv("tx", "t"), Iv("block", "a"), Iv("block", "a")>>, <<Iv("tx", "t")>>}
R == INSTANCE PeerRequests WITH Txs <- {"t"}, Blocks <- {"a"}, NumBuffered <- 2,
                                Requests <- MCRequests, MaxRequests <- 3
ASSUME R!RequestAssumption

-----------------------------------------------------------------------------
MCInit ==
    /\ part \in {"server", "requests"}
    /\ Init /\ R!Init
    /\ part # "server" => bloom
    /\ part # "requests" => filter

InServer(A) == part = "server" /\ A /\ UNCHANGED <<part, requestVars>>
InRequests(A) == part = "requests" /\ A /\ UNCHANGED <<part, vars>>

MCNext == InServer(Next) \/ InRequests(R!Next)

\* The fairness of the modules.  Conditions of different parts are joined,
\* which weakens none of them: only the actions of one part ever happen.
MCFairness ==
    /\ WF_allVars(InServer(\E p \in Peers : BanPeer(p) \/ Queue(p)) \/ InRequests(R!Push \/ R!Finish))
    /\ WF_allVars(InServer(\E p \in Peers : PeerDoneHandler(p)) \/ InRequests(R!Await))
    /\ WF_allVars(InServer(HandlesPeers) \/ InRequests(R!Send))
    /\ WF_allVars(InServer(HandleRelay)) /\ WF_allVars(InServer(HandleQuit \/ Drain))
    /\ WF_allVars(InServer(BlockSteps \/ BlockHandlerQuit)) /\ WF_allVars(InServer(RebroadcastSend \/ RebroadcastQuit))

MCSpec == MCInit /\ [][MCNext]_allVars /\ MCFairness

-----------------------------------------------------------------------------
(* Properties: ServerSound of P2pServer, and these. *)

\* Every item of a getdata message is answered once and in order, in few
\* slots (OnGetData).
AnswersSound == R!AnswersSound

\* Stop ends the handlers unless the block handler waits for ever for room in
\* blockProcessed, txProcessed or relayInv; until then bans, queries and reports
\* of closed connections get through, and OnGetData ends, also when the
\* connection is lost in between (peerLifecycleHandler, rebroadcastHandler,
\* OnGetData).
ServerGoesOn == ShutdownCompletes /\ Served /\ R!GetDataEnds
=============================================================================
