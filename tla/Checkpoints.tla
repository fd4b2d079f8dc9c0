----------------------------- MODULE Checkpoints -----------------------------
(***************************************************************************)
(* blockchain/checkpoints.go and the rules that use it: the cached last    *)
(* checkpoint of the best chain, which is looked up once and then moved on *)
(* by heights alone, while headers and blocks of several branches arrive   *)
(* and the best chain changes.                                             *)
(*                                                                         *)
(* Blocks come with their work, so a shorter branch may have more of it.   *)
(* InvalidateBlock is left out: it may take the best chain below a         *)
(* checkpoint, see the README.                                             *)
(***************************************************************************)
EXTENDS BlockTree, Sequences, FiniteSetsExt

CONSTANTS
    WorkOf,         \* work of a block by itself
    TimeOf,         \* its timestamp
    Points          \* chainParams.Checkpoints: blocks in order of height

PointsAssumption == Points \in Seq(Blocks)

VARIABLES
    index,          \* blocks whose headers are in the block index
    data,           \* blocks that are stored
    best,           \* tip of the best chain
    checkpointNode,
    nextCheckpoint, \* number of the next checkpoint, 0 for none
    failed          \* findPreviousCheckpoint has returned its AssertError

vars == <<index, data, best, checkpointNode, nextCheckpoint, failed>>

WorkSum[b \in Blocks] == IF b = Genesis THEN WorkOf[b] ELSE WorkSum[Parent[b]] + WorkOf[b]

BestChain == Anc[best]

VerifyCheckpoint(b) == \A i \in DOMAIN Points : Height[Points[i]] = Height[b] => Points[i] = b

\* What findPreviousCheckpoint makes of the cache c: the first search goes
\* through the checkpoints from the last one on; later ones move the cache one
\* checkpoint on when the best chain is as high as the next one.
FindPreviousCheckpoint(c) ==
    LET known == {i \in DOMAIN Points : Points[i] \in index /\ Points[i] \in BestChain}
        after(i) == IF i < Len(Points) THEN i + 1 ELSE 0
    IN  IF Points = <<>> THEN c
        ELSE IF c.node = NoBlock /\ c.next = 0
        THEN IF known = {} THEN [c EXCEPT !.next = 1]
             ELSE [c EXCEPT !.node = Points[Max(known)], !.next = after(Max(known))]
        ELSE IF c.next = 0 \/ Height[best] < Height[Points[c.next]] THEN c
        ELSE IF Points[c.next] \notin index THEN [c EXCEPT !.failed = TRUE]
        ELSE [c EXCEPT !.node = Points[c.next], !.next = after(c.next)]

Cache == [node |-> checkpointNode, next |-> nextCheckpoint, failed |-> FALSE]

\* mutant: forks before the checkpoint are let in
ForkTooOld_Never(c, b) == FALSE

ForkTooOld(c, b) == c.node # NoBlock /\ Height[b] < Height[c.node]

\* processBlock: before the checkpoint by its timestamp
TimeTooOld(c, b) == c.node # NoBlock /\ TimeOf[b] < TimeOf[c.node]

\* the end of CheckBlockHeaderContext: whether b passes, and the cache after it
CheckBlockHeaderContext(c, b) ==
    LET found == FindPreviousCheckpoint(c)
    IN  IF VerifyCheckpoint(b) THEN [ok |-> ~ found.failed /\ ~ ForkTooOld(found, b), cache |-> found]
        ELSE [ok |-> FALSE, cache |-> c]

\* processBlock looks for the checkpoint once more, before the block is
\* checked in its context.
CheckBlock(b) ==
    LET found == FindPreviousCheckpoint(Cache)
    IN  IF found.failed \/ TimeTooOld(found, b) THEN [ok |-> FALSE, cache |-> found]
        ELSE CheckBlockHeaderContext(found, b)

Remember(c) ==
    /\ checkpointNode' = c.node
    /\ nextCheckpoint' = c.next
    /\ failed' = (failed \/ c.failed)

-----------------------------------------------------------------------------
\* maybeAcceptBlockHeader for a header that is not known yet
ProcessBlockHeader(b) ==
    /\ b \notin index /\ Parent[b] \in index
    /\ \E v \in {CheckBlockHeaderContext(Cache, b)} :
            /\ Remember(v.cache)
            /\ index' = IF v.ok THEN index \cup {b} ELSE index
    /\ UNCHANGED <<data, best>>

\* connectBestChain
BestAfter(b) == IF WorkSum[b] > WorkSum[best] THEN b ELSE best

\* a block with its parent stored; others wait as orphans
ProcessBlock(b) ==
    /\ b \notin data /\ Parent[b] \in data
    /\ \E v \in {CheckBlock(b)} :
            /\ Remember(v.cache)
            /\ IF v.ok
               THEN /\ index' = index \cup {b}
                    /\ data' = data \cup {b}
                    /\ best' = BestAfter(b)
               ELSE UNCHANGED <<index, data, best>>

\* The cache is not kept; the index and the best chain are.
Restart ==
    /\ checkpointNode' = NoBlock /\ nextCheckpoint' = 0
    /\ UNCHANGED <<index, data, best, failed>>

Init ==
    /\ index = {Genesis} /\ data = {Genesis} /\ best = Genesis
    /\ checkpointNode = NoBlock /\ nextCheckpoint = 0 /\ failed = FALSE

Next ==
    \/ \E b \in NonGenesis : ProcessBlockHeader(b) \/ ProcessBlock(b)
    \/ Restart

Spec == Init /\ [][Next]_vars

-----------------------------------------------------------------------------
(* Properties. *)

\* "forks are prevented from any blocks before the checkpoint, so we don't
\* have to worry about the checkpoint going away out from under us due to a
\* chain reorganize" (findPreviousCheckpoint): the cached checkpoint stays on
\* the best chain, though the branch with the most work need not be the
\* longest.
CheckpointStays == checkpointNode # NoBlock => checkpointNode \in BestChain

\* "if this lookup fails something is very wrong since the chain has already
\* passed the checkpoint which was verified as accurate before inserting it"
\* (findPreviousCheckpoint).
LookupSucceeds == ~ failed

\* When the best chain passes a checkpoint it passes the right block, and no
\* block of another branch at that height is ever stored (verifyCheckpoint).
ChainThroughCheckpoints ==
    \A i \in DOMAIN Points : /\ Height[best] >= Height[Points[i]] => Points[i] \in BestChain
                             /\ \A b \in index : Height[b] = Height[Points[i]] => b = Points[i]

\* The chain goes through the checkpoints and no heavier branch takes one that
\* was passed off it (verifyCheckpoint, findPreviousCheckpoint).
CheckpointsKept == CheckpointStays /\ LookupSucceeds /\ ChainThroughCheckpoints
=============================================================================
