---------------------------- MODULE ChainQueries ----------------------------
(***************************************************************************)
(* blockchain/chainview.go and the queries of blockchain/chain.go that     *)
(* read it: block locators, the blocks after a locator, ranges and         *)
(* intervals of hashes.  By them one node follows the headers of another   *)
(* one (fetchHeaders and handleHeadersMsg of netsync), whose chain may     *)
(* change under way.                                                       *)
(*                                                                         *)
(* The tree has two branches; a block is <<branch, height>>, the second    *)
(* branch leaves the first one after the height fork.                      *)
(***************************************************************************)
EXTENDS Integers, Sequences, SequencesExt, FiniteSetsExt

CONSTANTS
    Top,            \* height of both branches
    Forks,
    Nil,
    Dense,          \* entries of a locator after which the steps double; the code has 10
    MaxHeaders,     \* wire.MaxBlockHeadersPerMsg
    Intervals, Ranges,  \* arguments of the range queries that are tried
    MaxMoves        \* bound: changes of the chain

VARIABLES
    fork,
    nodes,      \* chainView: the blocks of the best chain from genesis on
    moves,
    have,       \* BestHeader of the node that follows
    lastBlock,  \* the height that it knows of this node: Peer.LastBlock
    msg         \* what is under way: a locator, headers, or nothing

vars == <<fork, nodes, moves, have, lastBlock, msg>>

Genesis == <<0, 0>>
Branch(b, h) == IF b = 1 /\ h > fork THEN 1 ELSE 0
Height(n) == n[2]
Blocks == {<<0, h>> : h \in 0..Top} \cup {<<1, h>> : h \in (fork + 1)..Top}

Ancestor(n, h) == IF n = Nil \/ h < 0 \/ h > Height(n) THEN Nil ELSE <<Branch(n[1], h), h>>

ParentOf(n) == Ancestor(n, Height(n) - 1)

-----------------------------------------------------------------------------
(* chainView *)

Tip(c) == IF c = <<>> THEN Nil ELSE Last(c)

NodeByHeight(c, h) == IF h < 0 \/ h >= Len(c) THEN Nil ELSE c[h + 1]

InChain(c, n) == NodeByHeight(c, Height(n)) = n

NextOf(c, n) == IF n = Nil \/ ~ InChain(c, n) THEN Nil ELSE NodeByHeight(c, Height(n) + 1)

\* The old blocks up to the new length are kept, and overwritten from the tip
\* down to the first one that is right already.
SetTip(c, n) ==
    LET right == Max({-1} \cup {h \in 0..Min({Height(n), Len(c) - 1}) : c[h + 1] = Ancestor(n, h)})
    IN  SubSeq(c, 1, right + 1) \o [i \in 1..(Height(n) - right) |-> Ancestor(n, right + i)]

\* from the height of the tip down to the first block of the chain
FindFork(c, n) ==
    LET from == IF Height(n) > Len(c) - 1 THEN Ancestor(n, Len(c) - 1) ELSE n
        Met(h) == InChain(c, Ancestor(from, h))
    IN  Ancestor(from, CHOOSE h \in 0..Height(from) : Met(h) /\ \A k \in (h + 1)..Height(from) : ~ Met(k))

FastLog2Floor(n) == Max({k \in 0..30 : 2^k <= n})

MaxEntries(n) == IF Height(n) <= Dense + 2 THEN Height(n) + 1 ELSE Dense + 2 + FastLog2Floor(Height(n) - Dense)

\* From n down to genesis, one by one at first, then in steps that double;
\* below a block of the chain the blocks are looked up there.
BlockLocator(c, n) ==
    LET From[m \in Blocks, len \in Nat, step \in Nat] ==
            LET h == IF Height(m) < step THEN 0 ELSE Height(m) - step
            IN  <<m>> \o IF Height(m) = 0 THEN <<>>
                         ELSE From[IF InChain(c, m) THEN NodeByHeight(c, h) ELSE Ancestor(m, h), len + 1,
                                   IF len + 1 > Dense THEN step * 2 ELSE step]
    IN  From[n, 0, 1]

-----------------------------------------------------------------------------
(* Queries *)

\* The first known block of the locator that is in the chain, or genesis.
StartOf(c, locator) ==
    LET i == SelectInSeq(locator, LAMBDA n : InChain(c, n))
    IN  IF i = 0 THEN Genesis ELSE locator[i]

\* mutant: one block is left out
LocateInventory_Skip(c, locator, stop, limit) ==
    LET start == NextOf(c, NextOf(c, StartOf(c, locator)))
    IN  IF start = Nil THEN [start |-> Nil, total |-> 0]
        ELSE [start |-> start, total |-> Min({limit, Height(Tip(c)) - Height(start) + 1})]

LocateInventory(c, locator, stop, limit) ==
    LET start == NextOf(c, StartOf(c, locator))
        end == IF stop # Nil /\ InChain(c, stop) /\ Height(stop) >= Height(start)
               THEN Height(stop) ELSE Height(Tip(c))
    IN  IF locator = <<>> THEN [start |-> stop, total |-> IF stop = Nil THEN 0 ELSE 1]
        ELSE IF start = Nil THEN [start |-> Nil, total |-> 0]
        ELSE [start |-> start, total |-> Min({limit, end - Height(start) + 1})]

\* locateBlocks and locateHeaders
Locate(c, locator, stop, limit) ==
    LET found == LocateInventory(c, locator, stop, limit)
        from == Height(found.start)
    IN  IF found.total = 0 THEN <<>> ELSE <<found.start>> \o SubSeq(c, from + 2, from + found.total)

\* hashes of the chain from height start up to, not including, height end
HeightRange(c, start, end) ==
    LET last == Min({end, Len(c)})
    IN  IF start < 0 \/ end <= start \/ start >= Len(c) THEN <<>>
        ELSE [i \in 1..(last - start) |-> NodeByHeight(c, start + i - 1)]

\* the blocks from height start up to the block end, on its own branch
HeightToHashRange(start, end, limit) ==
    LET count == Height(end) - start + 1
    IN  IF start < 0 \/ start > Height(end) \/ count > limit THEN <<>>
        ELSE [i \in 1..count |-> Ancestor(end, Height(end) - (count - i))]

\* every interval-th block below end; once a block of the chain is met, the
\* others are looked up in the chain
IntervalBlockHashes(c, end, interval) ==
    LET count == Height(end) \div interval
        Walk[i \in 1..(count + 1)] ==
            IF i = count + 1 THEN end
            ELSE LET n == Walk[i + 1]
                 IN  IF InChain(c, n) THEN NodeByHeight(c, i * interval) ELSE Ancestor(n, i * interval)
    IN  [i \in 1..count |-> Walk[i]]

-----------------------------------------------------------------------------
(* The node and the one that follows it *)

\* The best chain moves to a block with more work.
MoveTip(n) ==
    /\ moves < MaxMoves
    /\ Height(n) > Height(Tip(nodes))
    /\ nodes' = SetTip(nodes, n)
    /\ moves' = moves + 1
    /\ UNCHANGED <<fork, have, lastBlock, msg>>

\* a header chain as a view
ViewOf(n) == [i \in 1..(Height(n) + 1) |-> Ancestor(n, i - 1)]

\* fetchHeaders: LatestBlockLocatorByHeader
FetchHeaders ==
    /\ msg.kind = "start"
    /\ msg' = IF lastBlock > Height(have)
              THEN [kind |-> "getheaders", list |-> BlockLocator(ViewOf(have), have)]
              ELSE [kind |-> "done", list |-> <<>>]
    /\ UNCHANGED <<fork, nodes, moves, have, lastBlock>>

\* OnGetHeaders, LocateHeaders
Serve ==
    /\ msg.kind \in {"getheaders", "more"}
    /\ msg' = [kind |-> "headers", list |-> Locate(nodes, msg.list, Nil, MaxHeaders)]
    /\ UNCHANGED <<fork, nodes, moves, have, lastBlock>>

\* mutant: no further request
Receive_Once ==
    /\ msg.kind = "headers"
    /\ have' = IF msg.list # <<>> /\ Height(Last(msg.list)) > Height(have) THEN Last(msg.list) ELSE have
    /\ msg' = [kind |-> "done", list |-> <<>>]
    /\ UNCHANGED <<fork, nodes, moves, lastBlock>>

\* handleHeadersMsg: best header after the headers have been processed; the
\* next locator is that header alone.  If the peer does not have it, it starts
\* over from genesis.
Receive ==
    /\ msg.kind = "headers"
    /\ have' = IF msg.list # <<>> /\ Height(Last(msg.list)) > Height(have) THEN Last(msg.list) ELSE have
    /\ msg' = IF msg.list # <<>> /\ Height(have') < lastBlock
              THEN [kind |-> "more", list |-> <<have'>>]
              ELSE [kind |-> "done", list |-> <<>>]
    /\ UNCHANGED <<fork, nodes, moves, lastBlock>>

Init ==
    /\ fork \in Forks
    /\ \E n \in Blocks : nodes = ViewOf(n)
    /\ have \in Blocks /\ Height(have) <= Height(Tip(nodes))
    /\ lastBlock = Height(Tip(nodes))
    /\ moves = 0
    /\ msg = [kind |-> "start", list |-> <<>>]

Next == (\E b \in {0, 1} : MoveTip(<<b, Top>>)) \/ FetchHeaders \/ Serve \/ Receive

Spec == Init /\ [][Next]_vars

\* both ends handle the messages they get
FairSpec == Spec /\ WF_vars(FetchHeaders \/ Serve \/ Receive)

-----------------------------------------------------------------------------
(* Properties. *)

\* The view is the branch of its tip, whatever was in it before (setTip).
ViewIsBranch == \A h \in 0..(Len(nodes) - 1) : nodes[h + 1] = Ancestor(Tip(nodes), h)

\* A locator goes down the branch of the peer to genesis, and has no more
\* entries than blockLocator reserves for it.
LocatorSound ==
    msg.kind = "getheaders" =>
        /\ Head(msg.list) = have /\ Last(msg.list) = Genesis
        /\ \A i \in 2..Len(msg.list) :
                /\ Height(msg.list[i]) < Height(msg.list[i - 1])
                /\ msg.list[i] = Ancestor(have, Height(msg.list[i]))
        /\ Len(msg.list) <= MaxEntries(have)

\* The headers that come back connect to the header chain of the peer and to
\* one another (LocateHeaders).
HeadersConnect ==
    msg.kind = "headers" /\ msg.list # <<>> =>
        /\ ParentOf(Head(msg.list)) = Ancestor(have, Height(Head(msg.list)) - 1)
        /\ \A i \in 2..Len(msg.list) : ParentOf(msg.list[i]) = msg.list[i - 1]

\* The queries that walk the chain view and the parents by turns give the
\* ancestors of the block they were asked for, also on a side branch.
QueriesExact ==
    msg.kind = "start" => \A end \in Blocks :
        /\ \A k \in Intervals : IntervalBlockHashes(nodes, end, k) =
                [i \in 1..(Height(end) \div k) |-> Ancestor(end, i * k)]
        /\ \A h \in Ranges : HeightToHashRange(h, end, Top + 1) =
                SelectSeq([i \in 1..(Height(end) + 1) |-> Ancestor(end, i - 1)], LAMBDA n : Height(n) >= h)
        /\ FindFork(nodes, end) = Ancestor(end, Min({Height(end), Height(Tip(nodes))} \cup
                (IF InChain(nodes, end) \/ end[1] = Tip(nodes)[1] THEN {} ELSE {fork})))

\* The first block of the locator that the node has is fewer than MaxHeaders
\* blocks back.  With 10 and 2000 in the code these are the forks up to 1033
\* blocks deep: entries are 1033 and 2057 blocks back.
Shallow == Height(have) - Height(StartOf(nodes, BlockLocator(ViewOf(have), have))) < MaxHeaders
Undisturbed == moves > 0 => msg.kind = "done"
Caught == msg.kind = "done" /\ Height(have) >= lastBlock

\* A header chain that left the node's chain no deeper than its locator reaches
\* within one message catches up with the height the node announced, when the
\* chain of the node does not change before it is done.
ShallowCatchUp == Shallow /\ []Undisturbed => <>Caught

\* What fetchHeaders and handleHeadersMsg are for: every header chain catches up.
\* The code does not do it, and no run checks it: if the fork is deeper, the first
\* message ends below the best header, and the next locator is that header alone
\* (netsync/manager.go:999-1001).
CatchUp == []Undisturbed => <>Caught
=============================================================================
