------------------------------ MODULE MCRules ------------------------------
(***************************************************************************)
(* Instances of the modules about the rules and the rows of the chain,     *)
(* which do not interact: `part' says which one a behaviour is of, and the *)
(* variables of the others are 0 in it.                                    *)
(***************************************************************************)
EXTENDS Integers, Sequences, TLC

CONSTANTS Null, NoNode, NotCached, Nil

VARIABLES
    part,
    net, chain, view, journal, undone, torn,
    version, time, rule, cache, warnCache,
    fork, nodes, moves, have, lastBlock, msg,
    index, data, best, checkpointNode, nextCheckpoint, failed,
    adds, witness, roots, numLeaves, result,
    v1, v2, phase, utxos, tree, blockIndex, stops, puts,
    samples, offsets, offsetSecs,
    n, steps,
    shared, sync, registered, inPool, forks, before

ledgerVars == <<net, chain, view, undone, torn>>
deploymentVars == <<time, rule, cache, warnCache>>
queryVars == <<fork, nodes, moves, have, lastBlock, msg>>
checkpointVars == <<index, data, best, checkpointNode, nextCheckpoint, failed>>
merkleVars == <<adds, witness, roots, numLeaves, result>>
storeVars == <<v1, v2, phase, utxos, tree, blockIndex, stops, puts>>
timeVars == <<samples, offsets, offsetSecs>>
numberVars == <<n, steps>>
feeVars == <<shared, sync, registered, inPool, forks, before>>
vars == <<part, ledgerVars, journal, version, deploymentVars, queryVars, checkpointVars, merkleVars, storeVars,
          timeVars, numberVars, feeVars>>

-----------------------------------------------------------------------------
(* Ledger: coinbases that name a height or none, a spend that leaves a fee, *)
(* one that makes money, one with an input twice, and spends with lock      *)
(* times and with relative locks.                                           *)

In(op, kind, k) == [op |-> op, seq |-> [kind |-> kind, n |-> k]]
NoLock == [kind |-> "none", n |-> 0]
Out(v) == [value |-> v, spendable |-> TRUE]
Coinbase(height, outs) ==
    [ins |-> <<In(Null, "max", 0)>>, outs |-> outs, lock |-> NoLock, version |-> 1, weight |-> 1,
     script |-> [height |-> height, length |-> 4]]
Payment(ins, outs, lock) ==
    [ins |-> ins, outs |-> outs, lock |-> lock, version |-> 2, weight |-> 1,
     script |-> [height |-> -1, length |-> 0]]
MCTx ==
    [a1 |-> Coinbase(1, <<Out(4), Out(1)>>),
     a2 |-> Coinbase(2, <<Out(5)>>),
     a3 |-> Coinbase(3, <<Out(6)>>),
     a0 |-> Coinbase(0, <<Out(5), [value |-> 0, spendable |-> FALSE]>>),
     pay |-> Payment(<<In(<<"a1", 1>>, "off", 0)>>, <<Out(2), Out(1)>>, NoLock),
     more |-> Payment(<<In(<<"pay", 1>>, "blocks", 1)>>, <<Out(3)>>, NoLock),
     twice |-> Payment(<<In(<<"pay", 1>>, "off", 0), In(<<"pay", 1>>, "off", 0)>>, <<Out(4)>>, NoLock),
     relb |-> Payment(<<In(<<"pay", 1>>, "blocks", 1)>>, <<Out(2)>>, NoLock),
     relt |-> Payment(<<In(<<"pay", 2>>, "time", 1)>>, <<Out(1)>>, NoLock),
     later |-> Payment(<<In(<<"a1", 2>>, "off", 0)>>, <<Out(1)>>, [kind |-> "time", n |-> 2])]
MCTxIds == DOMAIN MCTx
MCNetworks ==
    {[bip34 |-> 1, bip66 |-> 1, bip65 |-> 2, known |-> TRUE, csv |-> TRUE, segwit |-> TRUE],
     [bip34 |-> 3, bip66 |-> 3, bip65 |-> 3, known |-> FALSE, csv |-> FALSE, segwit |-> FALSE]}
L == INSTANCE Ledger WITH TxIds <- MCTxIds, Tx <- MCTx, Networks <- MCNetworks, Subsidy <- <<5, 5, 5, 5>>,
                          Times <- {1, 2, 4}, Versions <- {1, 4}, MaxTxs <- 3, MaxMoney <- 20, Maturity <- 1,
                          MaxWeight <- 3, ReenableBIP30 <- 100, MedianTimeBlocks <- 3, Granularity <- 2,
                          MaxHeight <- 3, MaxUndo <- 1

-----------------------------------------------------------------------------
(* Deployments: three windows of two blocks and a branch in the second one, *)
(* an ordinary, a speedy and an always active deployment.  The first window *)
(* is never counted.                                                        *)

MCNodes == 0..7
SomeVersions ==
    {[top |-> TRUE, bits |-> {1}], [top |-> TRUE, bits |-> {0, 1}], [top |-> FALSE, bits |-> {0, 1}]}
MCVersions == {v \in [MCNodes -> SomeVersions] : v[5] = v[4] /\ \A i \in {0, 1} : v[i].bits = {1}}
MCMedianTimes == {[i \in MCNodes |-> ts[(IF i > 5 THEN i - 4 ELSE i) + 1]] :
                    ts \in {<<0, 1, 1, 1, 1, 1>>, <<0, 0, 1, 1, 2, 3>>, <<0, 1, 1, 3, 3, 3>>}}
MCDeployments ==
    {[bit |-> 0, start |-> 1, end |-> 3, minHeight |-> 0, threshold |-> 0, alwaysActive |-> 0],
     [bit |-> 0, start |-> 1, end |-> 2, minHeight |-> 5, threshold |-> 1, alwaysActive |-> 0],
     [bit |-> 0, start |-> 1, end |-> 3, minHeight |-> 0, threshold |-> 0, alwaysActive |-> 4]}
D == INSTANCE Deployments WITH Nodes <- MCNodes, Genesis <- 0, ParentOf <- <<0, 1, 2, 3, 4, 1, 6>>,
                               Versions <- MCVersions, MedianTimes <- MCMedianTimes, Rules <- MCDeployments,
                               Bits <- {0, 1}, Window <- 2, Threshold <- 2

(* ChainQueries: forks near both ends.  As in the code a message has more   *)
(* headers than a locator has entries next to each other, so that forks     *)
(* which fit into a message meet the steps that double.                     *)
Q == INSTANCE ChainQueries WITH Top <- 14, Forks <- {2, 12}, Dense <- 3, MaxHeaders <- 9, Intervals <- {1, 3},
                                Ranges <- {0, 3}, MaxMoves <- 1

(* Checkpoints: a heavy branch below the first checkpoint, one past it, and *)
(* a block that is too old.                                                 *)
MCBlocks == {"g", "m1", "m2", "m3", "m4", "s1", "s2", "t3", "t4", "u3"}
MCParentOf ==
    [m1 |-> "g", m2 |-> "m1", m3 |-> "m2", m4 |-> "m3", s1 |-> "g", s2 |-> "s1", t3 |-> "m2", t4 |-> "t3", u3 |-> "m2"]
MCWork == [b \in MCBlocks |-> IF b \in {"s1", "u3"} THEN 3 ELSE 1]
MCTime == [b \in MCBlocks |-> CASE b = "g" -> 0 [] b = "u3" -> 1 [] OTHER -> 2]
MCHeight[b \in MCBlocks] == IF b = "g" THEN 0 ELSE MCHeight[MCParentOf[b]] + 1
MCAnc[b \in MCBlocks] == IF b = "g" THEN {b} ELSE MCAnc[MCParentOf[b]] \cup {b}
C == INSTANCE Checkpoints WITH Blocks <- MCBlocks, Genesis <- "g", NoBlock <- NoNode, Parent <- MCParentOf,
                               Height <- MCHeight, Anc <- MCAnc, WorkOf <- MCWork, TimeOf <- MCTime,
                               Points <- <<"m2", "t4">>
ASSUME C!TreeAssumption /\ C!PointsAssumption

(* Merkle: up to 11 transactions, one of which may be repeated.             *)
M == INSTANCE Merkle WITH Repeated <- {1}, MaxTxs <- 11

-----------------------------------------------------------------------------
(* ChainStore: a script of each recognized form with the shortest data, and *)
(* amounts on both sides of what takes another byte or another digit.       *)

Script(form) ==
    IF form = 6 THEN [form |-> 6, data |-> <<>>]
    ELSE [form |-> form, data |-> [i \in 1..(IF form \in {0, 1} THEN 1 ELSE 2) |-> 1]]
EntryA == [height |-> 0, coinbase |-> TRUE, amount |-> 0, script |-> [form |-> 6, data |-> <<7, 0, 7>>]]
EntryB == [height |-> 5, coinbase |-> FALSE, amount |-> 1700, script |-> Script(5)]
Outs(t, outs, h, c) ==
    [op \in {<<t, i>> : i \in outs} |->
        [height |-> h, coinbase |-> c, amount |-> 10 * op[2] + t, script |-> Script((op[2] + t) % 7)]]
MCOldSets == {Outs(1, s, 0, TRUE) @@ Outs(2, r, 9, FALSE) @@ Outs(3, {1}, 3, TRUE) :
                s \in {{0}, {1, 2}, {0, 1, 2, 3}, {3}}, r \in {{4}, {0, 1, 3, 4}, {2, 3}}}
MCSlots == {<<1, 0>>, <<2, 4>>, <<2, 9>>}
MCTrees == {[parent |-> [g |-> "0", a |-> "g", b |-> "a", c |-> "a"], tip |-> "c"],
            [parent |-> [g |-> "0", a |-> "g", x |-> "y"], tip |-> "a"]}
S == INSTANCE ChainStore WITH Base <- 8, MaxExponent <- 2, HashLen <- 1, KeyLen <- 2, TxIds <- {1, 2, 3},
                              BitmapBits <- 2, MaxUtxos <- 3, OldSets <- MCOldSets,
                              Outpoints <- {<<t, i>> : t \in 1..3, i \in 0..4} \cup MCSlots, Slots <- MCSlots,
                              Entries <- {EntryA, EntryB},
                              Journals <- {<<>>, <<EntryA>>, <<EntryB, EntryA>>, <<EntryA, EntryB, EntryB>>},
                              Trees <- MCTrees, ZeroHash <- "0", MaxStops <- 2, MaxPuts <- 2

(* MedianTime: seven sources, clocks that are slow, right and far off.      *)
T == INSTANCE MedianTime WITH Offsets <- {-9, -3, 2, 30}, MaxEntries <- 6, MaxAllowed <- 18, MinEntries <- 5,
                              MaxSources <- 7

(* Numerics: runs of numbers across the boundaries of one to three bytes.   *)
N == INSTANCE Numerics WITH Starts <- {0, 32700, 65500, 8388500}, Run <- 100, Digit <- 8, MaxTarget <- 16777216

(* FeeEstimator: bins of two, one replacement per block, one block rolled   *)
(* back.                                                                    *)
F == INSTANCE FeeEstimator WITH Txs <- {"t1", "t2", "t3"}, Rate <- [t1 |-> 1, t2 |-> 2, t3 |-> 3], Depth <- 2,
                                BinSize <- 2, MaxReplacements <- 1, MaxRollback <- 2, MinRegisteredBlocks <- 1,
                                MaxHeight <- 3, MaxBlockTxs <- 2, MaxForks <- 1, chain <- registered
ASSUME F!EstimatorAssumption

-----------------------------------------------------------------------------
NoLedger == net = 0 /\ chain = 0 /\ view = 0 /\ undone = 0 /\ torn = 0
NoDeployments == time = 0 /\ rule = 0 /\ cache = 0 /\ warnCache = 0
NoQueries == fork = 0 /\ nodes = 0 /\ moves = 0 /\ have = 0 /\ lastBlock = 0 /\ msg = 0
NoCheckpoints == index = 0 /\ data = 0 /\ best = 0 /\ checkpointNode = 0 /\ nextCheckpoint = 0 /\ failed = 0
NoMerkle == adds = 0 /\ witness = 0 /\ roots = 0 /\ numLeaves = 0 /\ result = 0
NoStore == v1 = 0 /\ v2 = 0 /\ phase = 0 /\ utxos = 0 /\ tree = 0 /\ blockIndex = 0 /\ stops = 0 /\ puts = 0
NoTimes == samples = 0 /\ offsets = 0 /\ offsetSecs = 0
NoNumbers == n = 0 /\ steps = 0
NoFees == shared = 0 /\ sync = 0 /\ registered = 0 /\ inPool = 0 /\ forks = 0 /\ before = 0

Init ==
    \/ /\ part = "ledger" /\ L!Init /\ version = 0
       /\ NoDeployments /\ NoQueries /\ NoCheckpoints /\ NoMerkle /\ NoStore /\ NoTimes /\ NoNumbers /\ NoFees
    \/ /\ part = "deployments" /\ D!Init /\ journal = 0
       /\ NoLedger /\ NoQueries /\ NoCheckpoints /\ NoMerkle /\ NoStore /\ NoTimes /\ NoNumbers /\ NoFees
    \/ /\ part = "queries" /\ Q!Init /\ journal = 0 /\ version = 0
       /\ NoLedger /\ NoDeployments /\ NoCheckpoints /\ NoMerkle /\ NoStore /\ NoTimes /\ NoNumbers /\ NoFees
    \/ /\ part = "checkpoints" /\ C!Init /\ journal = 0 /\ version = 0
       /\ NoLedger /\ NoDeployments /\ NoQueries /\ NoMerkle /\ NoStore /\ NoTimes /\ NoNumbers /\ NoFees
    \/ /\ part = "merkle" /\ M!Init /\ journal = 0 /\ version = 0
       /\ NoLedger /\ NoDeployments /\ NoQueries /\ NoCheckpoints /\ NoStore /\ NoTimes /\ NoNumbers /\ NoFees
    \/ /\ part = "store" /\ S!Init
       /\ NoLedger /\ NoDeployments /\ NoQueries /\ NoCheckpoints /\ NoMerkle /\ NoTimes /\ NoNumbers /\ NoFees
    \/ /\ part = "times" /\ T!Init /\ journal = 0 /\ version = 0
       /\ NoLedger /\ NoDeployments /\ NoQueries /\ NoCheckpoints /\ NoMerkle /\ NoStore /\ NoNumbers /\ NoFees
    \/ /\ part = "numbers" /\ N!Init /\ journal = 0 /\ version = 0
       /\ NoLedger /\ NoDeployments /\ NoQueries /\ NoCheckpoints /\ NoMerkle /\ NoStore /\ NoTimes /\ NoFees
    \/ /\ part = "fees" /\ F!Init /\ journal = 0 /\ version = 0
       /\ NoLedger /\ NoDeployments /\ NoQueries /\ NoCheckpoints /\ NoMerkle /\ NoStore /\ NoTimes /\ NoNumbers

Next ==
    /\ UNCHANGED part
    /\ \/ /\ part = "ledger" /\ L!Next
          /\ UNCHANGED <<version, deploymentVars, queryVars, checkpointVars, merkleVars, storeVars, timeVars, numberVars, feeVars>>
       \/ /\ part = "deployments" /\ D!Next
          /\ UNCHANGED <<journal, ledgerVars, queryVars, checkpointVars, merkleVars, storeVars, timeVars, numberVars, feeVars>>
       \/ /\ part = "queries" /\ Q!Next
          /\ UNCHANGED <<journal, version, ledgerVars, deploymentVars, checkpointVars, merkleVars, storeVars, timeVars, numberVars, feeVars>>
       \/ /\ part = "checkpoints" /\ C!Next
          /\ UNCHANGED <<journal, version, ledgerVars, deploymentVars, queryVars, merkleVars, storeVars, timeVars, numberVars, feeVars>>
       \/ /\ part = "merkle" /\ M!Next
          /\ UNCHANGED <<journal, version, ledgerVars, deploymentVars, queryVars, checkpointVars, storeVars, timeVars, numberVars, feeVars>>
       \/ /\ part = "store" /\ S!Next
          /\ UNCHANGED <<ledgerVars, deploymentVars, queryVars, checkpointVars, merkleVars, timeVars, numberVars, feeVars>>
       \/ /\ part = "times" /\ T!Next
          /\ UNCHANGED <<journal, version, ledgerVars, deploymentVars, queryVars, checkpointVars, merkleVars, storeVars, numberVars, feeVars>>
       \/ /\ part = "numbers" /\ N!Next
          /\ UNCHANGED <<journal, version, ledgerVars, deploymentVars, queryVars, checkpointVars, merkleVars, storeVars, timeVars, feeVars>>
       \/ /\ part = "fees" /\ F!Next
          /\ UNCHANGED <<journal, version, ledgerVars, deploymentVars, queryVars, checkpointVars, merkleVars, storeVars, timeVars,
                         numberVars>>

Following ==
    /\ part = "queries" /\ (Q!FetchHeaders \/ Q!Serve \/ Q!Receive)
    /\ UNCHANGED <<part, journal, version, ledgerVars, deploymentVars, checkpointVars, merkleVars, storeVars, timeVars,
                   numberVars, feeVars>>

\* The fairness of ChainQueries: both ends handle the messages they get.
Spec == Init /\ [][Next]_vars /\ WF_vars(Following)

-----------------------------------------------------------------------------
(* Properties: those of the modules. *)

\* No chain of accepted blocks makes more money than the subsidies allow, and
\* the view is what a replay of the chain gives, through coinbases of one hash
\* and through disconnected blocks; what is spent was mature and as old as its
\* sequence asks for, what was final stays final, and the median time does not
\* go back (CheckTransactionInputs, checkConnectBlock, SequenceLockActive,
\* IsFinalizedTransaction, CalcPastMedianTime).
LedgerSound ==
    part = "ledger" =>
        /\ L!TypeOK /\ L!SupplyBounded /\ L!ViewIsHistory
        /\ L!SpendsMature /\ L!RelativeLocksKept /\ L!FinalForGood /\ L!MedianNeverDecreases

\* The cached states are those the blocks alone give, in whatever order they
\* were asked for; a rule becomes active only after enough blocks signalled in
\* a window, and bits that are not known are warned of (thresholdState).
DeploymentsExact ==
    part = "deployments" => D!TypeOK /\ D!CacheExact /\ D!ActiveNeedsVotes /\ D!WarnsOfUnknown

\* The view is the branch of its tip whatever was in it before; locators,
\* served headers and range queries agree with it (chainview.go, locateHeaders).
QueriesExact == part = "queries" => Q!ViewIsBranch /\ Q!LocatorSound /\ Q!HeadersConnect /\ Q!QueriesExact

\* The chain goes through the checkpoints and no heavier branch takes one that
\* was passed off it (verifyCheckpoint, findPreviousCheckpoint).
CheckpointsKept == part = "checkpoints" => C!CheckpointsKept

\* No interrupt or crash of a migration loses or makes an output; rows are
\* found and read back as they were written (upgrade.go, chainio.go,
\* compress.go).
StoreExact == part = "store" => S!StoreExact /\ S!FoundByHash /\ S!JournalExact /\ S!IndexMigrated

\* The rolling store and the tree have one root for every number of leaves,
\* roots commit to the transactions up to repeated ends, and the last output
\* that looks like one is the witness commitment (merkle.go,
\* rolling_merkle.go).  Fewer wrong clocks than right ones do not move the time
\* by much; coinbase heights and targets are read back at every boundary of
\* their bytes; work falls with the target and skip pointers arrive
\* (mediantime.go, difficulty.go, validate.go, blockindex.go).
AlgorithmsExact ==
    /\ part = "merkle" => M!RootsPerBit /\ M!RootsAgree /\ M!RootCommits /\ M!CommitmentChecked
    /\ part = "times" => T!FewWrongClocks
    /\ part = "numbers" => N!HeightReadBack /\ N!CompactRoundsDown /\ N!WorkDecreases /\ N!SkipsArrive

\* The bins hold what they should, a block rolled back leaves them as they
\* were, cached estimates are those of the bins, waiting longer never costs
\* more, and what is saved is restored (estimatefee.go).
EstimatesExact ==
    part = "fees" => /\ F!TypeOK /\ F!BinsExact /\ F!RollbackRestores /\ F!CacheFresh
                     /\ F!EstimatesMonotone /\ F!SaveRestores

IsShallow == part = "queries" /\ Q!Shallow

\* A header chain that left the node's chain no deeper than its locator reaches
\* within one message catches up with the height the node announced
\* (fetchHeaders, handleHeadersMsg, BlockLocator).
ShallowCatchUp == IsShallow /\ [](part = "queries" => Q!Undisturbed) => <>(part = "queries" => Q!Caught)
=============================================================================
