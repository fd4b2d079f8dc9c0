---------------------------- MODULE Deployments ----------------------------
(***************************************************************************)
(* blockchain/thresholdstate.go and versionbits.go: the state of a rule    *)
(* change that miners vote on (BIP0009), found window by window back to a  *)
(* cached one, for the rule change that is deployed and, to warn of rules  *)
(* that this version does not know, for every bit.                         *)
(*                                                                         *)
(* The block tree is fixed in the initial state; the caches fill in the    *)
(* order in which the states of its blocks are asked for.                  *)
(***************************************************************************)
EXTENDS Integers, Sequences, FiniteSetsExt

CONSTANTS
    Nodes, Genesis, NoNode, ParentOf,   \* the tree
    Versions,       \* of the nodes: functions to [top, bits], whether the top bits are
                    \* 001, and the bits set
    MedianTimes,    \* the past median times of the nodes: functions
    Rules,          \* [bit, start, end, minHeight, threshold, alwaysActive]; 0: not set
    Bits, Window, Threshold,
    NotCached

VARIABLES
    version, time,  \* of each node
    rule,           \* the deployment of this network
    cache,          \* deploymentCaches: node -> state
    warnCache       \* warningCaches: bit -> node -> state

vars == <<version, time, rule, cache, warnCache>>

States == {"defined", "started", "lockedIn", "active", "failed"}

HeightOf[n \in Nodes] == IF n = Genesis THEN 0 ELSE HeightOf[ParentOf[n]] + 1

AncestorAt[n \in Nodes \cup {NoNode}, h \in -1..Cardinality(Nodes)] ==
    IF n = NoNode \/ h < 0 THEN NoNode
    ELSE IF HeightOf[n] <= h THEN n ELSE AncestorAt[ParentOf[n], h]

RelativeAncestor(n, distance) == AncestorAt[n, HeightOf[n] - distance]

\* the nodes of the confirmation window that ends with n
WindowOf(n) == {AncestorAt[n, h] : h \in (HeightOf[n] - Window + 1)..HeightOf[n]}

\* the last node of the window before the one of the block after n
WindowEnd(n) == AncestorAt[n, HeightOf[n] - ((HeightOf[n] + 1) % Window)]

-----------------------------------------------------------------------------
(* The condition checkers.  The median time of the genesis block is an      *)
(* error, which counts as not started and not ended.                        *)

Speedy(r) == r.minHeight # 0 \/ r.threshold # 0

ActivationThreshold(r) == IF r.threshold # 0 THEN r.threshold ELSE Threshold

Votes(n, bit) == version[n].top /\ bit \in version[n].bits

DeploymentChecker(r) ==
    [HasStarted |-> [n \in Nodes |-> n # Genesis /\ time[n] >= r.start],
     HasEnded   |-> [n \in Nodes |-> n # Genesis /\ time[n] >= r.end],
     Condition  |-> [n \in Nodes |-> Votes(n, r.bit)],
     Eligible   |-> [n \in Nodes |-> HeightOf[n] + 1 >= r.minHeight],
     threshold  |-> ActivationThreshold(r),
     speedy     |-> Speedy(r)]

ForceActive(r, n) == n # NoNode /\ r.alwaysActive # 0 /\ HeightOf[n] + 1 >= r.alwaysActive

-----------------------------------------------------------------------------
(* thresholdState *)

ThresholdStateTransition(state, n, c) ==
    LET count == Cardinality({m \in WindowOf(n) : c.Condition[m]})
        over == ~ c.speedy /\ c.HasEnded[n]
    IN  CASE state = "defined" ->
                IF over THEN "failed" ELSE IF c.HasStarted[n] THEN "started" ELSE "defined"
          [] state = "started" ->
                IF over THEN "failed"
                ELSE IF count >= c.threshold THEN "lockedIn"
                ELSE IF c.speedy /\ c.HasEnded[n] THEN "failed" ELSE "started"
          [] state = "lockedIn" -> IF c.Eligible[n] THEN "active" ELSE "lockedIn"
          [] OTHER -> state

\* mutant: a cached state of an earlier window is not taken up
Filled_Fresh(n, c, k) ==
    LET fill[m \in Nodes \cup {NoNode}] ==
            IF m = NoNode \/ k[m] # NotCached THEN k
            ELSE IF ~ c.HasStarted[m] THEN [k EXCEPT ![m] = "defined"]
            ELSE LET before == RelativeAncestor(m, Window)
                     g == fill[before]
                     state == IF before = NoNode \/ k[before] # NotCached THEN "defined" ELSE g[before]
                 IN  [g EXCEPT ![m] = ThresholdStateTransition(state, m, c)]
    IN  fill[n]

\* The states that the call finds, from the oldest window that is needed to
\* the end of window n, as a cache; k is what is cached.
Filled(n, c, k) ==
    LET fill[m \in Nodes \cup {NoNode}] ==
            IF m = NoNode \/ k[m] # NotCached THEN k
            ELSE IF ~ c.HasStarted[m] THEN [k EXCEPT ![m] = "defined"]
            ELSE LET before == RelativeAncestor(m, Window)
                     g == fill[before]
                     state == IF before = NoNode THEN "defined" ELSE g[before]
                 IN  [g EXCEPT ![m] = ThresholdStateTransition(state, m, c)]
    IN  fill[n]

\* the first window has no state of its own
FirstWindow(n) == n = NoNode \/ HeightOf[n] + 1 < Window

CacheAfter(n, c, k) == IF FirstWindow(n) THEN k ELSE Filled(WindowEnd(n), c, k)

\* of the block after n, once the cache k is filled
StateAfter(n, k) == IF FirstWindow(n) THEN "defined" ELSE k[WindowEnd(n)]

-----------------------------------------------------------------------------
(* The questions *)

DeploymentCacheAfter(n, k) ==
    IF ForceActive(rule, n) THEN k ELSE CacheAfter(n, DeploymentChecker(rule), k)

DeploymentStateIn(n, k) == IF ForceActive(rule, n) THEN "active" ELSE StateAfter(n, k)

\* deploymentState, ThresholdState and calcNextBlockVersion: for the block
\* after n
DeploymentState(n) ==
    /\ cache' = DeploymentCacheAfter(n, cache)
    /\ UNCHANGED <<version, time, rule, warnCache>>

\* calcNextBlockVersion: whether it sets the bit of the rule
CalcNextBlockVersion(n, k) == DeploymentStateIn(n, k) \in {"started", "lockedIn"}

Parent(n) == IF n = Genesis THEN NoNode ELSE ParentOf[n]

\* calcNextBlockVersion of the parent, for a bit that the node votes for; k is
\* what is cached for the rule
Expected(n, bit, k) == bit = rule.bit /\ CalcNextBlockVersion(Parent(n), DeploymentCacheAfter(Parent(n), k))

BitConditionChecker(bit, k) ==
    [HasStarted |-> [n \in Nodes |-> TRUE], HasEnded |-> [n \in Nodes |-> FALSE],
     Condition  |-> [n \in Nodes |-> Votes(n, bit) /\ ~ Expected(n, bit, k)],
     Eligible   |-> [n \in Nodes |-> TRUE], threshold |-> Threshold, speedy |-> FALSE]

\* The nodes whose votes are counted on the way from the cache k to the cache g:
\* for each of them the version expected of it is computed.
Counted(bit, k, g) ==
    LET ends == {n \in Nodes : /\ k[n] = NotCached /\ g[n] # NotCached
                               /\ RelativeAncestor(n, Window) # NoNode
                               /\ g[RelativeAncestor(n, Window)] = "started"}
    IN  {n \in UNION {WindowOf(m) : m \in ends} : Votes(n, bit)}

\* thresholdState for every bit from the node before n; k and w are the two
\* caches before
WarnCacheAfter(n, k, w) == [bit \in Bits |-> CacheAfter(Parent(n), BitConditionChecker(bit, k), w[bit])]

CacheAfterWarn(k, w, g) ==
    FoldSet(LAMBDA n, f : DeploymentCacheAfter(n, f), k,
            {Parent(n) : n \in UNION {Counted(bit, w[bit], g[bit]) : bit \in Bits}})

\* when block n is connected to a chain that is current
WarnUnknownRuleActivations(n) ==
    /\ warnCache' = WarnCacheAfter(n, cache, warnCache)
    /\ cache' = CacheAfterWarn(cache, warnCache, warnCache')
    /\ UNCHANGED <<version, time, rule>>

NothingCached == [n \in Nodes |-> NotCached]
NoWarnings == [bit \in Bits |-> NothingCached]

\* The caches are lost; initThresholdCaches fills them for the parent of the tip,
\* those of the bits first.
Restart(tip) ==
    /\ warnCache' = WarnCacheAfter(tip, NothingCached, NoWarnings)
    /\ cache' = DeploymentCacheAfter(Parent(tip), CacheAfterWarn(NothingCached, NoWarnings, warnCache'))
    /\ UNCHANGED <<version, time, rule>>

-----------------------------------------------------------------------------
Init ==
    /\ version \in Versions
    /\ time \in MedianTimes
    /\ rule \in Rules
    /\ cache = NothingCached
    /\ warnCache = NoWarnings

Next == \E n \in Nodes :
    DeploymentState(n) \/ WarnUnknownRuleActivations(n) \/ Restart(n)

Spec == Init /\ [][Next]_vars

-----------------------------------------------------------------------------
(* Properties. *)

CacheType == [Nodes -> States \cup {NotCached}]

\* The caches hold states, and only for the last blocks of windows.
TypeOK ==
    /\ version \in Versions /\ time \in MedianTimes /\ rule \in Rules
    /\ cache \in CacheType /\ warnCache \in [Bits -> CacheType]
    /\ \A n \in Nodes : cache[n] # NotCached => (HeightOf[n] + 1) % Window = 0

\* BIP0009 for the block after n, without caches: every window from the
\* genesis block on, one transition after the other.
Reference(c) ==
    LET f[n \in Nodes \cup {NoNode}] ==
            IF FirstWindow(n) THEN "defined"
            ELSE LET e == WindowEnd(n)
                     g == f[RelativeAncestor(e, Window)]
                 IN  ThresholdStateTransition(g, e, c)
    IN  f

\* What is cached does not depend on the order in which the states of blocks on
\* different branches were asked for (thresholdState): it is what BIP0009 says.
CacheExact ==
    LET ref == Reference(DeploymentChecker(rule))
    IN  \A n \in Nodes : cache[n] # NotCached => cache[n] = ref[n]

Winning(n, r) == Cardinality({m \in WindowOf(n) : Votes(m, r.bit)}) >= ActivationThreshold(r)

\* A rule is only locked in or active on a branch with a window, between the
\* start and the end, that voted for it; one that failed is never active later
\* on that branch (thresholdStateTransition).
ActiveNeedsVotes ==
    \A n \in Nodes : /\ cache[n] \in {"lockedIn", "active"} =>
                        \E m \in Nodes : /\ AncestorAt[n, HeightOf[m]] = m /\ HeightOf[m] >= Window
                                         /\ Winning(m, rule) /\ time[m] >= rule.start
                                         /\ Speedy(rule) \/ time[m] < rule.end
                     /\ cache[n] = "active" =>
                        \A m \in Nodes : AncestorAt[n, HeightOf[m]] = m => cache[m] # "failed"

\* Nobody is warned of an unknown rule on a branch where each vote for a bit was
\* for the rule this version knows, while the rule was voted on or locked in.
WarnsOfUnknown ==
    LET ref == Reference(DeploymentChecker(rule))
        Known(n, bit) == bit = rule.bit /\ ~ ForceActive(rule, Parent(n))
                            /\ ref[Parent(n)] \in {"started", "lockedIn"}
    IN  \A n \in Nodes, bit \in Bits : warnCache[bit][n] \in {"lockedIn", "active"} =>
            \E m \in Nodes : /\ AncestorAt[n, HeightOf[m]] = m
                             /\ Votes(m, bit) /\ ~ Known(m, bit)
=============================================================================
