----------------------------- MODULE BlockChain -----------------------------
(***************************************************************************)
(* blockchain/process.go, accept.go, chain.go, blockindex.go and the start *)
(* in chainio.go: which blocks a node knows, what it believes about them,  *)
(* and which chain it follows.                                             *)
(*                                                                         *)
(* A caller of ProcessBlock, InvalidateBlock or ReconsiderBlock is a       *)
(* thread.  It holds the chain lock except where the code releases it to   *)
(* send a notification: after each block connected or disconnected and     *)
(* after each block accepted.  One step is the code up to the next         *)
(* database commit or lock release, so that a crash can fall between two   *)
(* commits and another thread can run where the lock is free.              *)
(*                                                                         *)
(* Lists of nodes to detach and attach run along one branch, so they are   *)
(* sets here: the next to detach is the highest, the next to attach the    *)
(* lowest.                                                                 *)
(***************************************************************************)
EXTENDS BlockTree, Sequences

CONSTANTS
    Work,       \* Work[b]: cumulative proof of work (workSum)
    Bad,        \* blocks that fail checkConnectBlock with a RuleError
    Unfit,      \* blocks that fail checkBlockContext
    Threads,    \* concurrent callers
    NoThread,
    HeadersFirst, \* TRUE: netsync hands in headers before blocks
    MaxCalls,   \* bound on InvalidateBlock and ReconsiderBlock calls
    MaxCrashes  \* bound on crashes

ASSUME ChainAssumption ==
    /\ Work \in [Blocks -> Nat]
    /\ \A b \in NonGenesis : Work[Parent[b]] < Work[b]
    /\ Bad \subseteq NonGenesis
    /\ Unfit \subseteq NonGenesis
    /\ NoThread \notin Threads
    /\ HeadersFirst \in BOOLEAN
    /\ MaxCalls \in Nat
    /\ MaxCrashes \in Nat

VARIABLES
    status,     \* block index: status flags; {} when there is no node
    disk,       \* block index rows on disk; {} when there is no row
    tip,        \* bestChain.Tip(); also the best state on disk
    bestHeader, \* bestHeader.Tip()
    orphans,    \* orphan pool in order of arrival
    applied,    \* blocks whose transactions the utxo cache reflects
    holder,     \* thread that holds the chain lock
    th,         \* what each thread is doing
    calls,      \* InvalidateBlock and ReconsiderBlock calls made
    crashes     \* crashes so far

vars == <<status, disk, tip, bestHeader, orphans, applied, holder, th, calls, crashes>>

----------------------------------------------------------------------------
Flags == {"data", "header", "valid", "failed", "invalidAncestor"}
Ops == {"block", "invalidate", "switch", "reconsider"}

(* pc: "idle"; "connect": a block is stored and connectBestChain is next;  *)
(* "apply": inside reorganizeChain or connectBlock; "orphans": inside      *)
(* processOrphans.                                                         *)
Idle == [pc |-> "idle", op |-> "block", blk |-> NoBlock, first |-> NoBlock,
         main |-> FALSE, extend |-> FALSE, queue |-> <<>>,
         detach |-> {}, attach |-> {}]

Known(s, b) == s[b] # {}
HaveData(s, b) == "data" \in s[b]
KnownValid(s, b) == "valid" \in s[b]
KnownInvalid(s, b) == s[b] \cap {"failed", "invalidAncestor"} # {}

SetStatusFlags(s, B, f) ==
    [b \in Blocks |-> IF b \in B THEN s[b] \cup f ELSE s[b]]
UnsetStatusFlags(s, B, f) ==
    [b \in Blocks |-> IF b \in B THEN s[b] \ f ELSE s[b]]

(* flushToDB: every dirty node is written, except the header-only ones. *)
FlushToDB(s) == [b \in Blocks |-> IF HaveData(s, b) THEN s[b] ELSE disk[b]]

Chain == Anc[tip]
Highest(B) == CHOOSE b \in B : \A a \in B : Height[a] <= Height[b]
Lowest(B) == CHOOSE b \in B : \A a \in B : Height[b] <= Height[a]

(* InactiveTips: nodes off the best chain without a child in the index. *)
InactiveTips ==
    {b \in Blocks \ Chain : /\ Known(status, b)
                            /\ \A c \in Children(b) : ~Known(status, c)}

IndexDescendants(b) == {d \in Descendants(b) : Known(status, d)}

----------------------------------------------------------------------------
(* Mutant: every node of the branch is marked, also below the bad one. *)
AboveInvalid_Whole(s, path) == path

(* The nodes of a branch above its highest invalid node. *)
AboveInvalid(s, path) ==
    {n \in path : \A i \in path : KnownInvalid(s, i) => Height[n] > Height[i]}

(* Mutant: the statuses of the branch are not looked at. *)
GetReorganizeNodes_Unchecked(s, node) ==
    [status |-> s, detach |-> Chain \ Anc[node], attach |-> Anc[node] \ Chain]

(* getReorganizeNodes: the statuses it leaves and the nodes to detach and  *)
(* attach, which are empty when the branch is known to be invalid.         *)
GetReorganizeNodes(s, node) ==
    LET path == Anc[node] \ Chain
        nothing(marked) ==
            [status |-> SetStatusFlags(s, marked, {"invalidAncestor"}),
             detach |-> {}, attach |-> {}]
    IN  IF KnownInvalid(s, Parent[node]) THEN nothing({node})
        ELSE IF \E n \in path : KnownInvalid(s, n) THEN nothing(AboveInvalid(s, path))
        ELSE [status |-> s, detach |-> Chain \ Anc[node], attach |-> path]

(* Mutant: only the presence of the data is checked. *)
Stops_DataOnly(s, n) == ~HaveData(s, n)

(* verifyReorganizationValidity: the first block to attach that has no     *)
(* data on disk, or is not yet known to be valid and fails                 *)
(* checkConnectBlock, stops it.                                            *)
Stops(s, n) == ~HaveData(s, n) \/ (n \in Bad /\ ~KnownValid(s, n))

VerifyReorganization(s, detach, attach) ==
    LET stop == {n \in attach : Stops(s, n)}
        f == Lowest(stop)
        below == {n \in attach : Height[n] < Height[f]}
        above == {n \in attach : Height[n] > Height[f]}
    IN  IF detach # {} /\ Highest(detach) # tip
        THEN [status |-> s, ok |-> FALSE]
        ELSE IF stop = {}
        THEN [status |-> SetStatusFlags(s, attach, {"valid"}), ok |-> TRUE]
        ELSE LET passed == SetStatusFlags(s, below, {"valid"})
             IN  [status |-> IF ~HaveData(s, f) THEN passed
                             ELSE SetStatusFlags(
                                    SetStatusFlags(passed, {f}, {"failed"}),
                                    above, {"invalidAncestor"}),
                  ok |-> FALSE]

----------------------------------------------------------------------------
(* The chain lock. *)
CanRun(t) == holder \in {t, NoThread}
Keep(t) == holder' = t
Release == holder' = NoThread
Finish(t) == th' = [th EXCEPT ![t] = Idle] /\ Release

(* maybeAcceptBlock up to connectBestChain: the block is stored and its    *)
(* node added, or upgraded from header-only, and flushed.  (Storing and    *)
(* flushing are two commits, but blockExists ignores a stored block that   *)
(* has neither a node nor a height, and dbStoreBlock finds it there.)      *)
MaybeAcceptBlock(t, b, next) ==
    IF KnownInvalid(status, Parent[b]) \/ b \in Unfit
    THEN /\ Finish(t)
         /\ UNCHANGED <<status, disk>>
    ELSE /\ status' = SetStatusFlags(status, {b}, {"data", "header"})
         /\ disk' = FlushToDB(status')
         /\ th' = [th EXCEPT ![t] = [next EXCEPT !.pc = "connect", !.blk = b]]
         /\ Keep(t)

(* Stored already, or waiting in the orphan pool. *)
Duplicate(b) ==
    HaveData(status, b) \/ \E i \in DOMAIN orphans : orphans[i] = b

(* ProcessBlock refuses a block it already has. *)
RefuseDuplicate(t, b) ==
    /\ CanRun(t)
    /\ th[t].pc = "idle"
    /\ Duplicate(b)
    /\ UNCHANGED vars

(* Mutant: a header is enough of a parent. *)
ProcessBlock_HeaderParent(t, b) ==
    /\ CanRun(t)
    /\ th[t].pc = "idle"
    /\ ~Duplicate(b)
    /\ IF ~Known(status, Parent[b])
       THEN /\ orphans' = Append(orphans, b)
            /\ UNCHANGED <<status, disk, holder, th>>
       ELSE /\ MaybeAcceptBlock(t, b, [Idle EXCEPT !.first = b])
            /\ UNCHANGED orphans
    /\ UNCHANGED <<tip, bestHeader, applied, calls, crashes>>

(* ProcessBlock up to its first commit.  A block whose parent has no data  *)
(* in the index becomes an orphan.                                         *)
ProcessBlock(t, b) ==
    /\ CanRun(t)
    /\ th[t].pc = "idle"
    /\ ~Duplicate(b)
    /\ IF ~HaveData(status, Parent[b])
       THEN /\ orphans' = Append(orphans, b)
            /\ UNCHANGED <<status, disk, holder, th>>
       ELSE /\ MaybeAcceptBlock(t, b, [Idle EXCEPT !.first = b])
            /\ UNCHANGED orphans
    /\ UNCHANGED <<tip, bestHeader, applied, calls, crashes>>

(* connectBestChain when the block extends the best chain: check it, mark  *)
(* it and flush; connecting it is the next step.                           *)
ExtendBestChain(t) ==
    LET b == th[t].blk
        valid == KnownValid(status, b) \/ b \notin Bad
    IN  /\ CanRun(t)
        /\ th[t].pc = "connect"
        /\ Parent[b] = tip
        /\ status' = SetStatusFlags(status, {b}, {IF valid THEN "valid" ELSE "failed"})
        /\ disk' = FlushToDB(status')
        /\ IF valid
           THEN /\ th' = [th EXCEPT ![t] = [@ EXCEPT !.pc = "apply", !.extend = TRUE,
                                                     !.attach = {b}]]
                /\ Keep(t)
           ELSE Finish(t)
        /\ UNCHANGED <<tip, bestHeader, orphans, applied, calls, crashes>>

(* The end of maybeAcceptBlock: NTBlockAccepted is sent without the lock,  *)
(* then processOrphans looks for children of the block.                    *)
Accepted(t, main) ==
    /\ th' = [th EXCEPT ![t] =
                 [@ EXCEPT !.pc = "orphans", !.extend = FALSE,
                           !.queue = Append(th[t].queue, th[t].blk),
                           !.main = IF th[t].blk = th[t].first THEN main
                                    ELSE th[t].main,
                           !.detach = {}, !.attach = {}]]
    /\ Release

(* Mutant: a branch that is ahead by one unit of work is left aside. *)
StaySideChain_OffByOne(t) ==
    LET b == th[t].blk IN
    /\ CanRun(t)
    /\ th[t].pc = "connect"
    /\ Parent[b] # tip
    /\ Work[b] <= Work[tip] + 1
    /\ Accepted(t, FALSE)
    /\ UNCHANGED <<status, disk, tip, bestHeader, orphans, applied, calls, crashes>>

(* connectBestChain when the branch does not have more work. *)
StaySideChain(t) ==
    LET b == th[t].blk IN
    /\ CanRun(t)
    /\ th[t].pc = "connect"
    /\ Parent[b] # tip
    /\ Work[b] <= Work[tip]
    /\ Accepted(t, FALSE)
    /\ UNCHANGED <<status, disk, tip, bestHeader, orphans, applied, calls, crashes>>

(* connectBestChain when the branch has more work: plan and verify the     *)
(* reorganization.  The statuses are flushed before anything else is       *)
(* committed, by the first (dis)connectBlock or at the end.                *)
Reorganize(t) ==
    LET b == th[t].blk
        nodes == GetReorganizeNodes(status, b)
        check == VerifyReorganization(nodes.status, nodes.detach, nodes.attach)
    IN  /\ CanRun(t)
        /\ th[t].pc = "connect"
        /\ Parent[b] # tip
        /\ Work[b] > Work[tip]
        /\ status' = check.status
        /\ disk' = FlushToDB(status')
        /\ IF check.ok
           THEN /\ th' = [th EXCEPT ![t] = [@ EXCEPT !.pc = "apply",
                                                     !.detach = nodes.detach,
                                                     !.attach = nodes.attach]]
                /\ Keep(t)
           ELSE Finish(t)
        /\ UNCHANGED <<tip, bestHeader, orphans, applied, calls, crashes>>

----------------------------------------------------------------------------
(* reorganizeChain, one block at a time.  When a step fails, ProcessBlock  *)
(* and the second half of InvalidateBlock flush the index all the same,    *)
(* the other callers do not.                                               *)
FlushesOnError(t) == th[t].op \in {"block", "switch"}

(* Mutant: the utxo set is not undone. *)
DisconnectBlock_KeepUtxos(t) ==
    LET n == Highest(th[t].detach) IN
    /\ CanRun(t)
    /\ th[t].pc = "apply"
    /\ th[t].detach # {}
    /\ IF n = tip
       THEN /\ tip' = Parent[n]
            /\ th' = [th EXCEPT ![t] = [@ EXCEPT !.detach = th[t].detach \ {n}]]
            /\ Release
       ELSE /\ Finish(t)
            /\ UNCHANGED tip
    /\ disk' = IF n = tip \/ FlushesOnError(t) THEN FlushToDB(status) ELSE disk
    /\ UNCHANGED <<status, bestHeader, orphans, applied, calls, crashes>>

(* disconnectBlock: the index is flushed, the best state and the utxo set  *)
(* are changed in one transaction, and the lock is released to notify.  A  *)
(* node that is no longer the tip ends the operation with an error.        *)
DisconnectBlock(t) ==
    LET n == Highest(th[t].detach) IN
    /\ CanRun(t)
    /\ th[t].pc = "apply"
    /\ th[t].detach # {}
    /\ IF n = tip
       THEN /\ tip' = Parent[n]
            /\ applied' = applied \ {n}
            /\ th' = [th EXCEPT ![t] = [@ EXCEPT !.detach = th[t].detach \ {n}]]
            /\ Release
       ELSE /\ Finish(t)
            /\ UNCHANGED <<tip, applied>>
    /\ disk' = IF n = tip \/ FlushesOnError(t) THEN FlushToDB(status) ELSE disk
    /\ UNCHANGED <<status, bestHeader, orphans, calls, crashes>>

(* connectTransactions into the cache and connectBlock.  The cache is      *)
(* changed first, also when connectBlock then finds that the block does    *)
(* not extend the tip and fails.                                           *)
ConnectBlock(t) ==
    LET n == Lowest(th[t].attach) IN
    /\ CanRun(t)
    /\ th[t].pc = "apply"
    /\ th[t].detach = {}
    /\ th[t].attach # {}
    /\ applied' = applied \cup {n}
    /\ IF Parent[n] = tip
       THEN /\ tip' = n
            /\ th' = [th EXCEPT ![t] = [@ EXCEPT !.attach = th[t].attach \ {n}]]
            /\ Release
       ELSE /\ Finish(t)
            /\ UNCHANGED tip
    /\ disk' = IF Parent[n] = tip \/ FlushesOnError(t) THEN FlushToDB(status) ELSE disk
    /\ UNCHANGED <<status, bestHeader, orphans, calls, crashes>>

(* The rest of connectBestChain and of maybeAcceptBlock.  A block that     *)
(* extended the best chain is marked valid again if it no longer is.       *)
BlockConnected(t) ==
    /\ CanRun(t)
    /\ th[t].pc = "apply"
    /\ th[t].op = "block"
    /\ th[t].detach \cup th[t].attach = {}
    /\ status' = IF th[t].extend THEN SetStatusFlags(status, {th[t].blk}, {"valid"})
                 ELSE status
    /\ disk' = FlushToDB(status')
    /\ Accepted(t, TRUE)
    /\ UNCHANGED <<tip, bestHeader, orphans, applied, calls, crashes>>

(* Mutant: the queue is never advanced. *)
ProcessOrphans_NoPop(t) ==
    /\ CanRun(t)
    /\ th[t].pc = "orphans"
    /\ th[t].queue # <<>>
    /\ Keep(t)
    /\ UNCHANGED <<status, disk, tip, bestHeader, orphans, applied, th, calls, crashes>>

(* One turn of processOrphans: the oldest orphan whose parent is at the    *)
(* head of the queue, or else the next entry of the queue.  An error from  *)
(* maybeAcceptBlock ends the whole operation.                              *)
ProcessOrphans(t) ==
    LET h == Head(th[t].queue)
        ready == {i \in DOMAIN orphans : Parent[orphans[i]] = h}
        i == CHOOSE j \in ready : \A k \in ready : j <= k
        o == orphans[i]
    IN  /\ CanRun(t)
        /\ th[t].pc = "orphans"
        /\ th[t].queue # <<>>
        /\ IF ready = {}
           THEN /\ th' = [th EXCEPT ![t] = [@ EXCEPT !.queue = Tail(th[t].queue)]]
                /\ Keep(t)
                /\ UNCHANGED <<status, disk, orphans>>
           ELSE /\ orphans' = SubSeq(orphans, 1, i - 1)
                                 \o SubSeq(orphans, i + 1, Len(orphans))
                /\ MaybeAcceptBlock(t, o, th[t])
        /\ UNCHANGED <<tip, bestHeader, applied, calls, crashes>>

(* ProcessBlock returns. *)
Return(t) ==
    /\ CanRun(t)
    /\ th[t].pc = "orphans"
    /\ th[t].queue = <<>>
    /\ Finish(t)
    /\ UNCHANGED <<status, disk, tip, bestHeader, orphans, applied, calls, crashes>>

----------------------------------------------------------------------------
(* ProcessBlockHeader: a new header-only node, and the best header follows *)
(* when the header extends it or has more work.                            *)
ProcessBlockHeader(t, b) ==
    /\ HeadersFirst
    /\ CanRun(t)
    /\ th[t].pc = "idle"
    /\ Known(status, Parent[b])
    /\ ~KnownInvalid(status, Parent[b])
    /\ ~KnownInvalid(status, b)
    /\ ~(Known(status, b) /\ b \in Anc[bestHeader])
    /\ status' = IF Known(status, b) THEN status
                 ELSE SetStatusFlags(status, {b}, {"header"})
    /\ disk' = FlushToDB(status')
    /\ bestHeader' = IF Parent[b] = bestHeader \/ Work[b] > Work[bestHeader]
                     THEN b ELSE bestHeader
    /\ UNCHANGED <<tip, orphans, applied, holder, th, calls, crashes>>

(* InvalidateBlock off the best chain: the block and every descendant in   *)
(* the index are marked.                                                   *)
InvalidateSideBlock(t, b) ==
    LET marked == SetStatusFlags(status, {b}, {"failed"})
        below == {d \in IndexDescendants(b) : ~KnownInvalid(status, d)}
    IN  /\ CanRun(t)
        /\ th[t].pc = "idle"
        /\ calls < MaxCalls
        /\ Known(status, b)
        /\ ~KnownInvalid(status, b)
        /\ b \notin Chain
        /\ status' = UnsetStatusFlags(
                        SetStatusFlags(marked, below, {"invalidAncestor"}),
                        below \cup {b}, {"valid"})
        /\ disk' = FlushToDB(status')
        /\ calls' = calls + 1
        /\ UNCHANGED <<tip, bestHeader, orphans, applied, holder, th, crashes>>

(* InvalidateBlock on the best chain: the blocks above it are marked and   *)
(* the chain is to be cut back to its parent.  Blocks above it that are    *)
(* already known to be invalid are left out of the list, in which case     *)
(* verifyReorganizationValidity may refuse it and nothing is flushed.      *)
InvalidateChainBlock(t, b) ==
    LET below == {d \in Chain \ Anc[b] : ~KnownInvalid(status, d)}
        detach == below \cup {b}
        check == VerifyReorganization(status, detach, {})
    IN  /\ CanRun(t)
        /\ th[t].pc = "idle"
        /\ calls < MaxCalls
        /\ ~KnownInvalid(status, b)
        /\ b \in Chain
        /\ status' = UnsetStatusFlags(
                        SetStatusFlags(
                          SetStatusFlags(status, {b}, {"failed"}),
                          below, {"invalidAncestor"}),
                        detach, {"valid"})
        /\ calls' = calls + 1
        /\ IF check.ok
           THEN /\ disk' = FlushToDB(status')
                /\ th' = [th EXCEPT ![t] = [Idle EXCEPT !.pc = "apply",
                                                        !.op = "invalidate",
                                                        !.blk = b,
                                                        !.detach = detach]]
                /\ Keep(t)
           ELSE UNCHANGED <<disk, th, holder>>
        /\ UNCHANGED <<tip, bestHeader, orphans, applied, crashes>>

(* The second half of InvalidateBlock: the valid tip with the most work is *)
(* to become the best chain.  The current tip comes last in the list of    *)
(* tips and only a tip with strictly more work replaces an earlier one, so *)
(* among equals an inactive tip wins, and which one depends on the order   *)
(* of a map.  (With no valid tip at all the code dereferences a nil node.) *)
SwitchBranch(t) ==
    LET tips == {b \in InactiveTips \cup {tip} : ~KnownInvalid(status, b)}
        most == {b \in tips : \A a \in tips : Work[a] <= Work[b]}
        inactive == most \ {tip}
    IN  /\ CanRun(t)
        /\ th[t].pc = "apply"
        /\ th[t].op = "invalidate"
        /\ th[t].detach = {}
        /\ tips # {}
        /\ IF inactive = {}
           THEN /\ disk' = FlushToDB(status)
                /\ Finish(t)
                /\ UNCHANGED status
           ELSE \E b \in inactive :
                LET nodes == GetReorganizeNodes(status, b)
                    check == VerifyReorganization(nodes.status, nodes.detach,
                                                  nodes.attach)
                IN  /\ status' = check.status
                    /\ disk' = FlushToDB(status')
                    /\ IF check.ok
                       THEN /\ th' = [th EXCEPT ![t] =
                                        [@ EXCEPT !.op = "switch",
                                                  !.detach = nodes.detach,
                                                  !.attach = nodes.attach]]
                            /\ Keep(t)
                       ELSE Finish(t)
        /\ UNCHANGED <<tip, bestHeader, orphans, applied, calls, crashes>>

(* ReconsiderBlock up to its reorganization: the marks of the block and    *)
(* the inherited marks of its descendants are cleared.  The last tip seen  *)
(* that descends from the block is the one considered: the current tip if  *)
(* it does, else one that depends on the order of a map.                   *)
ReconsiderBlock(t, b) ==
    LET cleared == UnsetStatusFlags(
                     UnsetStatusFlags(status, {b}, {"invalidAncestor", "failed"}),
                     IndexDescendants(b), {"invalidAncestor"})
        tips == IF b \in Chain THEN {tip}
                ELSE {n \in InactiveTips : b \in Anc[n]}
    IN  /\ CanRun(t)
        /\ th[t].pc = "idle"
        /\ calls < MaxCalls
        /\ Known(status, b)
        /\ ~KnownValid(status, b)
        /\ calls' = calls + 1
        /\ \E n \in tips :
            IF Work[n] <= Work[tip]
            THEN /\ status' = cleared
                 /\ UNCHANGED <<disk, th, holder>>
            ELSE LET nodes == GetReorganizeNodes(cleared, n)
                     check == VerifyReorganization(nodes.status, nodes.detach,
                                                   nodes.attach)
                 IN  /\ status' = check.status
                     /\ disk' = FlushToDB(status')
                     /\ IF check.ok
                        THEN /\ th' = [th EXCEPT ![t] =
                                         [Idle EXCEPT !.pc = "apply",
                                                      !.op = "reconsider",
                                                      !.blk = b,
                                                      !.detach = nodes.detach,
                                                      !.attach = nodes.attach]]
                             /\ Keep(t)
                        ELSE UNCHANGED <<th, holder>>
        /\ UNCHANGED <<tip, bestHeader, orphans, applied, crashes>>

(* The end of a call that is not ProcessBlock.  InvalidateBlock flushes    *)
(* once more, ReconsiderBlock does not.                                    *)
CallDone(t) ==
    /\ CanRun(t)
    /\ th[t].pc = "apply"
    /\ th[t].op \in {"switch", "reconsider"}
    /\ th[t].detach \cup th[t].attach = {}
    /\ disk' = IF th[t].op = "switch" THEN FlushToDB(status) ELSE disk
    /\ Finish(t)
    /\ UNCHANGED <<status, tip, bestHeader, orphans, applied, calls, crashes>>

----------------------------------------------------------------------------
(* What initChainState needs of the disk: "Could not find parent for       *)
(* block" and "cannot find chain tip" are errors it does not get over.     *)
Loadable ==
    /\ disk[Genesis] # {}
    /\ \A b \in NonGenesis : disk[b] # {} => disk[Parent[b]] # {}
    /\ disk[tip] # {}

(* The process dies and starts again: initChainState loads the index, sets *)
(* both chain views to the best state and marks its ancestors valid; the   *)
(* utxo set is replayed up to the tip (module UtxoCache).  Header-only     *)
(* nodes, orphans and unflushed statuses are gone.                         *)
Restart ==
    /\ crashes < MaxCrashes
    /\ Loadable
    /\ crashes' = crashes + 1
    /\ status' = SetStatusFlags(disk, Chain, {"valid"})
    /\ disk' = FlushToDB(status')
    /\ bestHeader' = tip
    /\ orphans' = <<>>
    /\ applied' = Chain
    /\ holder' = NoThread
    /\ th' = [t \in Threads |-> Idle]
    /\ UNCHANGED <<tip, calls>>

----------------------------------------------------------------------------
(* createChainState. *)
Init ==
    /\ status = [b \in Blocks |-> IF b = Genesis THEN {"data", "valid"} ELSE {}]
    /\ disk = status
    /\ tip = Genesis
    /\ bestHeader = Genesis
    /\ orphans = <<>>
    /\ applied = {Genesis}
    /\ holder = NoThread
    /\ th = [t \in Threads |-> Idle]
    /\ calls = 0
    /\ crashes = 0

Step(t) ==
    \/ ExtendBestChain(t)
    \/ StaySideChain(t)
    \/ Reorganize(t)
    \/ DisconnectBlock(t)
    \/ ConnectBlock(t)
    \/ BlockConnected(t)
    \/ ProcessOrphans(t)
    \/ Return(t)
    \/ SwitchBranch(t)
    \/ CallDone(t)

Call(t) ==
    \E b \in NonGenesis :
        \/ ProcessBlock(t, b)
        \/ RefuseDuplicate(t, b)
        \/ ProcessBlockHeader(t, b)
        \/ InvalidateSideBlock(t, b)
        \/ InvalidateChainBlock(t, b)
        \/ ReconsiderBlock(t, b)

Next == (\E t \in Threads : Call(t) \/ Step(t)) \/ Restart

Spec == Init /\ [][Next]_vars

(* A call that was started runs on until it returns. *)
FairSpec == Spec /\ \A t \in Threads : WF_vars(Step(t))

----------------------------------------------------------------------------
ThreadStates ==
    [pc : {"idle", "connect", "apply", "orphans"}, op : Ops,
     blk : Blocks \cup {NoBlock}, first : Blocks \cup {NoBlock},
     main : BOOLEAN, extend : BOOLEAN, queue : Seq(Blocks),
     detach : SUBSET Blocks, attach : SUBSET Blocks]

(* Only nodes with their block data have a row. *)
Rows == {f \in SUBSET Flags : f # {} => "data" \in f}

(* The values each variable may take. *)
TypeOK ==
    /\ status \in [Blocks -> SUBSET Flags]
    /\ disk \in [Blocks -> Rows]
    /\ tip \in Blocks
    /\ bestHeader \in Blocks
    /\ orphans \in Seq(NonGenesis)
    /\ applied \subseteq Blocks
    /\ holder \in Threads \cup {NoThread}
    /\ th \in [Threads -> ThreadStates]
    /\ calls \in 0 .. MaxCalls
    /\ crashes \in 0 .. MaxCrashes

Quiet == \A t \in Threads : th[t].pc = "idle"

(* No block that fails the consensus rules is ever part of the best chain, *)
(* not even for a moment during a reorganization, after a crash, or after  *)
(* ReconsiderBlock, and the data of the whole best chain is in the index.  *)
BestChainSound ==
    /\ Chain \cap (Bad \cup Unfit) = {}
    /\ \A b \in Chain : HaveData(status, b)

(* The utxo cache always reflects exactly the blocks of the best chain     *)
(* whenever the chain lock can be had.                                     *)
AppliedIsChain == applied = Chain

(* Chain selection: once no call is in progress, no stored branch of valid *)
(* blocks has more work than the best chain, whatever the order in which   *)
(* headers and blocks, good and bad, arrived.  (A crash in the middle of a *)
(* reorganization leaves the node at the fork until another block comes,   *)
(* so this is about runs without one.)                                     *)
MostWork ==
    Quiet /\ crashes = 0 => \A b \in Blocks :
        HaveData(status, b) /\ Anc[b] \cap Bad = {} => Work[b] <= Work[tip]

(* Without InvalidateBlock, only blocks that violate a rule or descend     *)
(* from one that does are ever marked invalid, in memory and on disk.      *)
InvalidMarksSound ==
    \A b \in Blocks :
        KnownInvalid(status, b) \/ KnownInvalid(disk, b) => Anc[b] \cap Bad # {}

(* The index rows on disk can be loaded by initChainState at any moment,   *)
(* also between any two commits: the rows are closed under parents and     *)
(* hold the tip.                                                           *)
IndexLoadable == Loadable

(* A block marked invalid is not part of the best chain. *)
InvalidNotActive ==
    Quiet => \A b \in Chain : ~KnownInvalid(status, b)

(* The tip is right between calls.  Without InvalidateBlock and            *)
(* ReconsiderBlock the best chain is one with the most work among the      *)
(* stored branches of good blocks (connectBestChain).  They do not keep    *)
(* that, but no block that they leave marked invalid is on the best chain, *)
(* in a run that has no crash and takes no headers first.                  *)
NotBoth == calls = 0 \/ (crashes = 0 /\ bestHeader = Genesis)
TipRight == IF calls = 0 THEN MostWork ELSE NotBoth => InvalidNotActive

(* Every call returns: a reorganization comes to an end and processOrphans *)
(* runs out of orphans.                                                    *)
CallsReturn == \A t \in Threads : th[t].pc # "idle" ~> th[t].pc = "idle"
=============================================================================
