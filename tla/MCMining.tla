------------------------------ MODULE MCMining ------------------------------
(***************************************************************************)
(* Instances of the modules about block templates, Mining and              *)
(* BlockTemplates.  They do not share state: `part' says which one moves   *)
(* in a behaviour, and the other keeps its initial state.                  *)
(***************************************************************************)
EXTENDS Integers, Sequences, TLC

CONSTANT None

VARIABLES
    part,
    chain, note, pool, gen, went, moves,
    best, now, lastUpdated, template, prevHash, lastGenerated, lastTxUpdate, notifyMap, lock, blockNtfns, txNtfns,
    call, lastID, seen, requests

miningVars == <<chain, note, pool, gen, went, moves>>
templateVars == <<best, now, lastUpdated, template, prevHash, lastGenerated, lastTxUpdate, notifyMap, lock, blockNtfns,
                  txNtfns, call, lastID, seen, requests>>
vars == <<part, miningVars, templateVars>>

-----------------------------------------------------------------------------
(* Mining: a, its child b, which has a witness and a lock time, and c,      *)
(* which spends both and a young coin; d, with a relative lock on the coin  *)
(* of p, which has a lock height and is in the last block of the chain; e,  *)
(* a rival of d.                                                            *)
Candidate(ins, outs, weight, feePerKB, priority, sigops, witness) ==
    [ins |-> ins, outs |-> outs, weight |-> weight, feePerKB |-> feePerKB, priority |-> priority, sigops |-> sigops,
     witness |-> witness, lock |-> 0, lockTime |-> 0, relative |-> 0]
MCTxOf ==
    [a |-> Candidate({<<"x", 1>>}, 2, 3, 1, 5, 1, FALSE),
     b |-> [Candidate({<<"a", 1>>}, 1, 3, 3, 1, 1, TRUE) EXCEPT !.lockTime = 2],
     c |-> Candidate({<<"b", 1>>, <<"a", 2>>, <<"y", 1>>}, 1, 2, 0, 0, 1, FALSE),
     d |-> [Candidate({<<"p", 1>>}, 1, 4, 1, 2, 2, FALSE) EXCEPT !.relative = 1],
     e |-> Candidate({<<"p", 1>>}, 1, 4, 1, 2, 2, FALSE),
     p |-> [Candidate({<<"z", 1>>}, 1, 2, 2, 2, 1, FALSE) EXCEPT !.lock = 2]]
M == INSTANCE Mining WITH Txs <- DOMAIN MCTxOf, TxOf <- MCTxOf,
                          Pooled <- {"a", "b", "c", "d"}, Chain <- <<{}, {}, {"p"}>>,
                          AdjustedTime <- 5, CsvActive <- TRUE,
                          BaseCoins <- (<<"x", 1>> :> 0) @@ (<<"y", 1>> :> 4) @@ (<<"z", 1>> :> 0),
                          BlockMaxWeight <- 16, BlockMinWeight <- 8, BlockPrioritySize <- 6, TxMinFreeFee <- 1,
                          MinHighPriority <- 2, MaxBlockSigOpsCost <- 4, Overhead <- 2, CommitmentWeight <- 2,
                          WeightRange <- 64, MaxMoves <- 2

(* BlockTemplates: two clients, one of which can replace the template that  *)
(* the other one waits on.                                                  *)
B == INSTANCE BlockTemplates WITH MaxBlock <- 1, Clients <- {"c1", "c2"}, GbtRegenerateSeconds <- 0, MaxTime <- 2,
                                  MaxRequests <- 3
ASSUME B!TemplateAssumption

-----------------------------------------------------------------------------
Init ==
    /\ part \in {"mining", "templates"}
    /\ M!Init /\ B!Init

InMining(A) == part = "mining" /\ A /\ UNCHANGED <<part, templateVars>>
InTemplates(A) == part = "templates" /\ A /\ UNCHANGED <<part, miningVars>>

Next == InMining(M!Next) \/ InTemplates(B!Next)

\* The fairness of the modules.  Conditions of different parts are joined,
\* which weakens none of them: only the actions of one part ever happen.
\* With a bound on the calls, weak fairness is enough to get the lock of the
\* template.
Fairness ==
    /\ WF_vars(InMining(M!Generate) \/ InTemplates(B!Serve("c1")))
    /\ WF_vars(InTemplates(B!Serve("c2"))) /\ WF_vars(InTemplates(B!NotifyBlockConnected(1)))

Spec == Init /\ [][Next]_vars /\ Fairness

-----------------------------------------------------------------------------
(* Properties: those of the modules. *)

\* A template that is handed out can be mined: it spends coins that are there if
\* the chain stands still, its weight is right, generation fails only if the
\* chain has moved or if a lock is not met after a block was disconnected, and
\* no transaction is forgotten (NewBlockTemplate).
MiningSound == M!MiningSound

\* The shared template, its lock and the clients that wait on it agree
\* (gbtWorkState).
TemplatesSound == B!TemplatesSound

\* Each generation ends, and a client that waits on a template whose block is
\* no longer the best one is answered (NewBlockTemplate, NotifyBlockConnected):
\* GenerationEnds and StalePollersWake of the modules, joined for each client,
\* which says the same since only one part moves.
Behind(c) == call[c].at = "wait" /\ call[c].key.hash # best
MinersServed ==
    \A c \in {"c1", "c2"} :
        (gen.at = "select" \/ Behind(c)) ~> IF part = "mining" THEN gen.at # "select" ELSE call[c].at # "wait"
=============================================================================
