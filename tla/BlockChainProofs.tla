-------------------------- MODULE BlockChainProofs --------------------------
(***************************************************************************)
(* For every tree of blocks, any number of concurrent callers and any      *)
(* number of crashes: no block that violates a rule is ever part of the    *)
(* best chain, and the block index on disk can always be loaded.  Then,    *)
(* what getReorganizeNodes and verifyReorganizationValidity mark, what a   *)
(* reorganization does to the utxo set, and which chain connectBestChain   *)
(* ends up on.  The statements about one caller at a time are those of     *)
(* netsync's blockHandler, the only goroutine that hands blocks to the     *)
(* chain during synchronization.                                           *)
(***************************************************************************)
EXTENDS BlockChain, WellFoundedInduction, TLAPS

(* Statuses under which only good blocks count as valid. *)
StatusOK(s) ==
    /\ s \in [Blocks -> SUBSET Flags]
    /\ \A b \in Blocks : KnownValid(s, b) => b \notin Bad

(* The statuses s and r agree on which blocks are stored. *)
SameData(s, r) == \A b \in Blocks : HaveData(s, b) <=> HaveData(r, b)

(* The index in memory and on disk: rows are kept for exactly the stored   *)
(* blocks, every stored block was fit to be stored and has a stored        *)
(* parent, and neither side calls a bad block valid.                       *)
IndexInv ==
    /\ StatusOK(status)
    /\ StatusOK(disk)
    /\ disk \in [Blocks -> Rows]
    /\ \A b \in Blocks : HaveData(status, b) <=> disk[b] # {}
    /\ HaveData(status, Genesis)
    /\ \A b \in NonGenesis : HaveData(status, b) =>
            HaveData(status, Parent[b]) /\ b \notin Unfit

(* The best chain is stored and good. *)
ChainInv ==
    /\ tip \in Blocks
    /\ \A b \in Chain : HaveData(status, b) /\ b \notin Bad

(* A caller x only ever attaches stored blocks that were found good, and   *)
(* only blocks that are stored have orphans adopted.                       *)
CallerOK(s, x) ==
    /\ x \in ThreadStates
    /\ \E d \in Blocks : x.detach \subseteq Anc[d] \ {Genesis}
    /\ \A n \in x.attach : n \in NonGenesis /\ HaveData(s, n) /\ n \notin Bad
    /\ x.extend => x.pc = "apply" /\ x.blk \notin Bad
    /\ x.pc = "connect" \/ (x.pc = "apply" /\ x.op = "block") =>
            x.blk \in NonGenesis /\ HaveData(s, x.blk)
    /\ \A i \in 1 .. Len(x.queue) : HaveData(s, x.queue[i])

CallersInv ==
    /\ th \in [Threads -> ThreadStates]
    /\ \A t \in Threads : CallerOK(status, th[t])

(* The remaining variables have their types. *)
RestInv ==
    /\ bestHeader \in Blocks
    /\ orphans \in Seq(NonGenesis)
    /\ applied \subseteq Blocks
    /\ holder \in Threads \cup {NoThread}
    /\ calls \in 0 .. MaxCalls
    /\ crashes \in 0 .. MaxCrashes

(* The inductive invariant. *)
CInv == IndexInv /\ ChainInv /\ CallersInv /\ RestInv

-----------------------------------------------------------------------------
(* A nonempty set of natural numbers has a least element. *)
LEMMA NatMin ==
    ASSUME NEW S, S \subseteq Nat, S # {}
    PROVE  \E m \in S : \A k \in S : m <= k
  <1>1. PICK m \in S : \A k \in S : ~(<<k, m>> \in OpToRel(<, Nat))
    BY NatLessThanWellFounded, WFMin
  <1>2. \A k \in S : ~(k < m)
    BY <1>1 DEF OpToRel
  <1> QED
    BY <1>2

(* The next block to attach is one of those to attach, and the lowest. *)
LEMMA LowestIn ==
    ASSUME NEW S, S \subseteq Blocks, S # {}
    PROVE  Lowest(S) \in S /\ \A a \in S : Height[Lowest(S)] <= Height[a]
  <1> DEFINE hs == {Height[b] : b \in S}
  <1>1. hs \subseteq Nat /\ hs # {}
    BY TreeAssumption
  <1>2. PICK m \in hs : \A k \in hs : m <= k
    BY <1>1, NatMin
  <1>3. PICK b \in S : Height[b] = m
    BY <1>2
  <1>4. \A a \in S : Height[b] <= Height[a]
    BY <1>2, <1>3
  <1> QED
    BY <1>4 DEF Lowest

(* The next block to detach is one of those to detach. *)
LEMMA HighestIn ==
    ASSUME NEW d \in Blocks, NEW S, S \subseteq Anc[d], S # {}
    PROVE  Highest(S) \in S
  <1> DEFINE gap(b) == Height[d] - Height[b]
             gs == {gap(b) : b \in S}
  <1>1. \A b \in S : b \in Blocks /\ Height[b] \in Nat /\ Height[d] \in Nat
                     /\ Height[b] <= Height[d]
    BY TreeAssumption
  <1>2. gs \subseteq Nat /\ gs # {}
    BY <1>1
  <1>3. PICK m \in gs : \A k \in gs : m <= k
    BY <1>2, NatMin
  <1>4. PICK b \in S : gap(b) = m
    BY <1>3
  <1>5. \A a \in S : gap(b) <= gap(a)
    BY <1>3, <1>4
  <1>6. \A a \in S : Height[a] <= Height[b]
    BY <1>1, <1>5
  <1> QED
    BY <1>6 DEF Highest

(* A block's ancestors are blocks, with Genesis among them. *)
LEMMA Ancestors ==
    \A b \in Blocks : b \in Anc[b] /\ Genesis \in Anc[b] /\ Anc[b] \subseteq Blocks
  BY TreeAssumption DEF NonGenesis

-----------------------------------------------------------------------------
(* Setting any flags but "data" and "valid", or "valid" on good blocks,    *)
(* and clearing any flags but "data", keeps statuses in order.             *)
LEMMA SetFlagsOK ==
    ASSUME NEW s, StatusOK(s), NEW B, NEW f \in SUBSET Flags, "data" \notin f,
           "valid" \in f => B \cap Bad = {}
    PROVE  StatusOK(SetStatusFlags(s, B, f)) /\ SameData(s, SetStatusFlags(s, B, f))
  BY DEF StatusOK, SetStatusFlags, SameData, HaveData, KnownValid, Flags

LEMMA UnsetFlagsOK ==
    ASSUME NEW s, StatusOK(s), NEW B, NEW f \in SUBSET Flags, "data" \notin f
    PROVE  StatusOK(UnsetStatusFlags(s, B, f)) /\ SameData(s, UnsetStatusFlags(s, B, f))
  BY DEF StatusOK, UnsetStatusFlags, SameData, HaveData, KnownValid, Flags

LEMMA SameDataTrans ==
    ASSUME NEW r, NEW s, NEW u, SameData(r, s), SameData(s, u)
    PROVE  SameData(r, u)
  BY DEF SameData

(* getReorganizeNodes only marks invalid ancestors, never lists Genesis,   *)
(* and detaches along the current best chain.                              *)
LEMMA PlanOK ==
    ASSUME NEW s, StatusOK(s), tip \in Blocks, NEW node \in NonGenesis
    PROVE  /\ StatusOK(GetReorganizeNodes(s, node).status)
           /\ SameData(s, GetReorganizeNodes(s, node).status)
           /\ GetReorganizeNodes(s, node).detach \subseteq Chain \ {Genesis}
           /\ GetReorganizeNodes(s, node).attach \subseteq NonGenesis
  <1>1. node \in Blocks /\ Genesis \in Anc[node] /\ Genesis \in Chain
        /\ Chain \subseteq Blocks /\ Anc[node] \subseteq Blocks
    BY Ancestors DEF NonGenesis, Chain
  <1> DEFINE path == Anc[node] \ Chain
             marked(B) == SetStatusFlags(s, B, {"invalidAncestor"})
             g == GetReorganizeNodes(s, node)
  <1>2. \A B : StatusOK(marked(B)) /\ SameData(s, marked(B))
    BY SetFlagsOK DEF Flags
  <1>3. \/ \E B : g = [status |-> marked(B), detach |-> {}, attach |-> {}]
        \/ g = [status |-> s, detach |-> Chain \ Anc[node], attach |-> path]
    BY DEF GetReorganizeNodes
  <1>4. SameData(s, s)
    BY DEF SameData
  <1> QED
    BY <1>1, <1>2, <1>3, <1>4 DEF NonGenesis

(* verifyReorganizationValidity marks as valid only blocks that pass, and  *)
(* succeeds only when every block to attach is stored and passes.          *)
LEMMA VerifyOK ==
    ASSUME NEW s, StatusOK(s), NEW detach, NEW attach, attach \subseteq NonGenesis
    PROVE  /\ StatusOK(VerifyReorganization(s, detach, attach).status)
           /\ SameData(s, VerifyReorganization(s, detach, attach).status)
           /\ VerifyReorganization(s, detach, attach).ok =>
                \A n \in attach : HaveData(s, n) /\ n \notin Bad
  <1> DEFINE stop == {n \in attach : Stops(s, n)}
             f == Lowest(stop)
             below == {n \in attach : Height[n] < Height[f]}
             above == {n \in attach : Height[n] > Height[f]}
             passed == SetStatusFlags(s, below, {"valid"})
             failed == SetStatusFlags(passed, {f}, {"failed"})
             dead == SetStatusFlags(failed, above, {"invalidAncestor"})
             v == VerifyReorganization(s, detach, attach)
  <1>0. SameData(s, s) /\ attach \subseteq Blocks
    BY DEF SameData, NonGenesis
  <1>1. \A n \in attach : ~Stops(s, n) => HaveData(s, n) /\ n \notin Bad
    BY <1>0 DEF Stops, StatusOK
  <1>2. \/ v = [status |-> s, ok |-> FALSE]
        \/ stop = {} /\ v = [status |-> SetStatusFlags(s, attach, {"valid"}), ok |-> TRUE]
        \/ stop # {} /\ v = [status |-> passed, ok |-> FALSE]
        \/ stop # {} /\ v = [status |-> dead, ok |-> FALSE]
    BY DEF VerifyReorganization
  <1>3. CASE v = [status |-> s, ok |-> FALSE]
    BY <1>0, <1>3
  <1>4. CASE stop = {} /\ v = [status |-> SetStatusFlags(s, attach, {"valid"}), ok |-> TRUE]
    <2>1. \A n \in attach : HaveData(s, n) /\ n \notin Bad
      BY <1>1, <1>4
    <2>2. attach \cap Bad = {} /\ {"valid"} \in SUBSET Flags
      BY <2>1 DEF Flags
    <2> QED
      BY <1>4, <2>1, <2>2, SetFlagsOK
  <1>5. CASE stop # {}
    <2>1. f \in stop /\ \A a \in stop : Height[f] <= Height[a]
      BY <1>0, <1>5, LowestIn
    <2>2. \A n \in below : n \notin stop
      BY <1>0, <2>1, TreeAssumption
    <2>3. below \cap Bad = {}
      BY <1>1, <2>2
    <2>4. StatusOK(passed) /\ SameData(s, passed)
      BY <2>3, SetFlagsOK DEF Flags
    <2>5. StatusOK(failed) /\ SameData(passed, failed)
      BY <2>4, SetFlagsOK DEF Flags
    <2>6. StatusOK(dead) /\ SameData(failed, dead)
      BY <2>5, SetFlagsOK DEF Flags
    <2>7. SameData(s, dead)
      BY <2>4, <2>5, <2>6, SameDataTrans
    <2> QED
      BY <1>2, <1>3, <1>5, <2>4, <2>6, <2>7
  <1> QED
    BY <1>2, <1>3, <1>4, <1>5

-----------------------------------------------------------------------------
(* Stored blocks stay stored. *)
Grows(s, r) == \A b \in Blocks : HaveData(s, b) => HaveData(r, b)

LEMMA SameGrows ==
    ASSUME NEW s, NEW r, SameData(s, r)
    PROVE  Grows(s, r)
  BY DEF SameData, Grows

(* flushToDB gives every stored block its row and touches no other. *)
LEMMA FlushOK ==
    ASSUME IndexInv, StatusOK(status'), Grows(status, status'),
           disk' = FlushToDB(status')
    PROVE  /\ StatusOK(disk')
           /\ disk' \in [Blocks -> Rows]
           /\ \A b \in Blocks : HaveData(status', b) <=> disk'[b] # {}
  <1>1. \A b \in Blocks : disk'[b] = IF HaveData(status', b) THEN status'[b] ELSE disk[b]
    BY DEF FlushToDB
  <1>2. \A b \in Blocks : ~HaveData(status', b) => disk[b] = {}
    BY DEF IndexInv, Grows
  <1>3. \A b \in Blocks : disk'[b] \in Rows /\ (HaveData(status', b) <=> disk'[b] # {})
    BY <1>1, <1>2 DEF Rows, HaveData, StatusOK
  <1>4. disk' \in [Blocks -> Rows]
    BY <1>1, <1>3 DEF FlushToDB
  <1>5. StatusOK(disk')
    BY <1>1, <1>2, <1>4 DEF StatusOK, KnownValid, Rows
  <1> QED
    BY <1>3, <1>4, <1>5

(* A step that stores no block, whether or not it flushes the index. *)
LEMMA IndexKept ==
    ASSUME IndexInv, StatusOK(status'), SameData(status, status'),
           disk' = disk \/ disk' = FlushToDB(status')
    PROVE  IndexInv'
  <1>1. /\ StatusOK(disk')
        /\ disk' \in [Blocks -> Rows]
        /\ \A b \in Blocks : HaveData(status', b) <=> disk'[b] # {}
    <2>1. CASE disk' = disk
      BY <2>1 DEF IndexInv, SameData
    <2>2. CASE disk' = FlushToDB(status')
      BY <2>2, SameGrows, FlushOK
    <2> QED
      BY <2>1, <2>2
  <1>2. Genesis \in Blocks /\ \A b \in NonGenesis : b \in Blocks /\ Parent[b] \in Blocks
    BY TreeAssumption DEF NonGenesis
  <1> QED
    BY <1>1, <1>2 DEF IndexInv, SameData

(* A step that leaves the tip alone. *)
LEMMA ChainKept ==
    ASSUME ChainInv, Grows(status, status'), tip' = tip
    PROVE  ChainInv'
  BY Ancestors DEF ChainInv, Grows, Chain

(* A step that changes at most the caller t. *)
LEMMA CallersKept ==
    ASSUME CallersInv, Grows(status, status'), th' = th
    PROVE  CallersInv'
  <1> SUFFICES ASSUME NEW t \in Threads PROVE CallerOK(status', th[t])
    BY DEF CallersInv
  <1>1. CallerOK(status, th[t]) /\ th[t] \in ThreadStates
    BY DEF CallersInv
  <1>2. /\ \A n \in th[t].attach : n \in Blocks
        /\ th[t].blk \in NonGenesis => th[t].blk \in Blocks
        /\ \A i \in 1 .. Len(th[t].queue) : th[t].queue[i] \in Blocks
    BY <1>1 DEF CallerOK, ThreadStates, NonGenesis
  <1> QED
    BY <1>1, <1>2 DEF CallerOK, Grows

LEMMA CallersMove ==
    ASSUME CallersInv, Grows(status, status'), NEW t \in Threads, NEW x,
           CallerOK(status', x), th' = [th EXCEPT ![t] = x]
    PROVE  CallersInv'
  <1>1. x \in ThreadStates /\ th' \in [Threads -> ThreadStates]
    BY DEF CallerOK, CallersInv
  <1> SUFFICES ASSUME NEW u \in Threads PROVE CallerOK(status', th'[u])
    BY <1>1 DEF CallersInv
  <1>2. CASE u = t
    BY <1>2 DEF CallersInv
  <1>3. CASE u # t
    <2>0. th'[u] = th[u]
      BY <1>3 DEF CallersInv
    <2>1. CallerOK(status, th[u]) /\ th[u] \in ThreadStates
      BY DEF CallersInv
    <2>2. /\ \A n \in th[u].attach : n \in Blocks
          /\ th[u].blk \in NonGenesis => th[u].blk \in Blocks
          /\ \A i \in 1 .. Len(th[u].queue) : th[u].queue[i] \in Blocks
      BY <2>1 DEF CallerOK, ThreadStates, NonGenesis
    <2> QED
      BY <2>0, <2>1, <2>2 DEF CallerOK, Grows
  <1> QED
    BY <1>2, <1>3

(* A call that has ended. *)
LEMMA IdleOK == \A s : CallerOK(s, Idle)
  <1>1. Idle \in ThreadStates
    BY DEF Idle, ThreadStates, Ops
  <1>2. Genesis \in Blocks
    BY TreeAssumption
  <1> QED
    BY <1>1, <1>2 DEF CallerOK, Idle

(* createChainState. *)
LEMMA InitC == Init => CInv
  <1> SUFFICES ASSUME Init PROVE CInv
    OBVIOUS
  <1>1. Genesis \in Blocks /\ Genesis \notin Bad /\ Genesis \notin Unfit
        /\ Chain = {Genesis} /\ Genesis \notin NonGenesis
        /\ \A b \in NonGenesis : b \in Blocks
    BY TreeAssumption, ChainAssumption DEF Init, NonGenesis, Chain
  <1>2. StatusOK(status)
    BY <1>1 DEF Init, StatusOK, KnownValid, Flags
  <1>3. status \in [Blocks -> Rows]
    BY DEF Init, Rows, Flags
  <1>4. IndexInv
    BY <1>1, <1>2, <1>3 DEF Init, IndexInv, HaveData
  <1>5. ChainInv
    BY <1>1 DEF Init, ChainInv, HaveData
  <1>6. CallersInv
    BY IdleOK DEF Init, CallersInv, CallerOK
  <1>7. RestInv
    BY <1>1, ChainAssumption DEF Init, RestInv
  <1> QED
    BY <1>4, <1>5, <1>6, <1>7 DEF CInv

(* maybeAcceptBlock, for a new block or an orphan whose parent is stored. *)
LEMMA AcceptC ==
    ASSUME CInv, NEW t \in Threads, NEW b \in NonGenesis, HaveData(status, Parent[b]),
           NEW next, CallerOK(status, next), ~next.extend,
           MaybeAcceptBlock(t, b, next), tip' = tip
    PROVE  IndexInv' /\ ChainInv' /\ CallersInv' /\ holder' \in Threads \cup {NoThread}
  <1>0. b \in Blocks /\ Parent[b] \in Blocks /\ Genesis \in Blocks
        /\ \A c \in NonGenesis : c \in Blocks /\ Parent[c] \in Blocks
    BY TreeAssumption DEF NonGenesis
  <1>1. CASE KnownInvalid(status, Parent[b]) \/ b \in Unfit
    <2>1. status' = status /\ disk' = disk /\ th' = [th EXCEPT ![t] = Idle]
          /\ holder' = NoThread
      BY <1>1 DEF MaybeAcceptBlock, Finish, Release
    <2>2. SameData(status, status') /\ Grows(status, status') /\ StatusOK(status')
      BY <2>1 DEF SameData, Grows, CInv, IndexInv
    <2> QED
      BY <2>1, <2>2, IdleOK, IndexKept, ChainKept, CallersMove DEF CInv
  <1>2. CASE ~(KnownInvalid(status, Parent[b]) \/ b \in Unfit)
    <2> DEFINE x == [next EXCEPT !.pc = "connect", !.blk = b]
    <2>1. /\ status' = SetStatusFlags(status, {b}, {"data", "header"})
          /\ disk' = FlushToDB(status')
          /\ th' = [th EXCEPT ![t] = x]
          /\ holder' = t /\ b \notin Unfit
      BY <1>2 DEF MaybeAcceptBlock, Keep
    <2>2. \A c \in Blocks : status'[c] = IF c = b THEN status[c] \cup {"data", "header"}
                                         ELSE status[c]
      BY <2>1 DEF SetStatusFlags
    <2>3. \A c \in Blocks : HaveData(status', c) <=> HaveData(status, c) \/ c = b
      BY <2>2 DEF HaveData
    <2>4. StatusOK(status')
      BY <2>1, <2>2 DEF CInv, IndexInv, StatusOK, SetStatusFlags, KnownValid, Flags
    <2>5. Grows(status, status')
      BY <2>3 DEF Grows
    <2>6. IndexInv'
      BY <1>0, <2>1, <2>3, <2>4, <2>5, FlushOK DEF CInv, IndexInv
    <2>7. /\ x \in ThreadStates /\ x.pc = "connect" /\ x.blk = b /\ ~x.extend
          /\ x.detach = next.detach /\ x.attach = next.attach /\ x.queue = next.queue
      BY <1>0 DEF CallerOK, ThreadStates
    <2>8. /\ \A n \in next.attach : n \in Blocks
          /\ \A i \in 1 .. Len(next.queue) : next.queue[i] \in Blocks
      BY <1>0 DEF CallerOK, ThreadStates
    <2>9. CallerOK(status', x)
      BY <1>0, <2>3, <2>7, <2>8 DEF CallerOK
    <2> QED
      BY <2>1, <2>5, <2>6, <2>9, ChainKept, CallersMove DEF CInv
  <1> QED
    BY <1>1, <1>2

(* A step that neither stores a block nor moves the tip, and after which   *)
(* caller t is in state x.                                                 *)
LEMMA QuietStep ==
    ASSUME CInv, StatusOK(status'), SameData(status, status'),
           disk' = disk \/ disk' = FlushToDB(status'), tip' = tip,
           NEW t \in Threads, NEW x, CallerOK(status', x),
           th' = th \/ th' = [th EXCEPT ![t] = x], RestInv'
    PROVE  CInv'
  <1>1. Grows(status, status')
    BY SameGrows
  <1>2. CallersInv'
    <2>1. CASE th' = th
      BY <1>1, <2>1, CallersKept DEF CInv
    <2>2. CASE th' = [th EXCEPT ![t] = x]
      BY <1>1, <2>2, CallersMove DEF CInv
    <2> QED
      BY <2>1, <2>2
  <1> QED
    BY <1>1, <1>2, IndexKept, ChainKept DEF CInv

LEMMA ProcessBlockC ==
    ASSUME CInv, NEW t \in Threads, NEW b \in NonGenesis, ProcessBlock(t, b)
    PROVE  CInv'
  <1>1. UNCHANGED <<tip, bestHeader, applied, calls, crashes>>
    BY DEF ProcessBlock
  <1>2. CASE ~HaveData(status, Parent[b])
    <2>1. orphans' = Append(orphans, b) /\ UNCHANGED <<status, disk, holder, th>>
      BY <1>2 DEF ProcessBlock
    <2>2. RestInv'
      BY <1>1, <2>1 DEF CInv, RestInv
    <2>3. StatusOK(status') /\ SameData(status, status')
      BY <2>1 DEF CInv, IndexInv, SameData
    <2> QED
      BY <1>1, <2>1, <2>2, <2>3, IdleOK, QuietStep
  <1>3. CASE HaveData(status, Parent[b])
    <2> DEFINE next == [Idle EXCEPT !.first = b]
    <2>1. MaybeAcceptBlock(t, b, next) /\ orphans' = orphans
      BY <1>3 DEF ProcessBlock
    <2>2. CallerOK(status, next) /\ ~next.extend
      <3>1. b \in Blocks
        BY DEF NonGenesis
      <3>2. CallerOK(status, Idle)
        BY IdleOK
      <3>3. next \in ThreadStates
        BY <3>1, <3>2 DEF CallerOK, ThreadStates
      <3>4. /\ next.pc = "idle" /\ ~next.extend /\ next.queue = <<>>
            /\ next.detach = {} /\ next.attach = {}
        BY DEF Idle
      <3> QED
        BY <3>3, <3>4, TreeAssumption DEF CallerOK
    <2>3. IndexInv' /\ ChainInv' /\ CallersInv' /\ holder' \in Threads \cup {NoThread}
      BY <1>1, <1>3, <2>1, <2>2, AcceptC
    <2>4. RestInv'
      BY <1>1, <2>1, <2>3 DEF CInv, RestInv
    <2> QED
      BY <2>3, <2>4 DEF CInv
  <1> QED
    BY <1>2, <1>3

LEMMA ExtendC ==
    ASSUME CInv, NEW t \in Threads, ExtendBestChain(t)
    PROVE  CInv'
  <1> DEFINE b == th[t].blk
             valid == KnownValid(status, b) \/ b \notin Bad
             x == [th[t] EXCEPT !.pc = "apply", !.extend = TRUE, !.attach = {b}]
  <1>1. /\ status' = SetStatusFlags(status, {b}, {IF valid THEN "valid" ELSE "failed"})
        /\ disk' = FlushToDB(status') /\ tip' = tip
        /\ \/ th' = [th EXCEPT ![t] = x] /\ holder' = t /\ valid
           \/ th' = [th EXCEPT ![t] = Idle] /\ holder' = NoThread
        /\ UNCHANGED <<bestHeader, orphans, applied, calls, crashes>>
        /\ th[t].pc = "connect"
    BY DEF ExtendBestChain, Keep, Finish, Release, CInv, CallersInv
  <1>2. /\ CallerOK(status, th[t]) /\ b \in NonGenesis /\ b \in Blocks
        /\ HaveData(status, b) /\ th[t] \in ThreadStates
    BY <1>1 DEF CInv, CallersInv, CallerOK, NonGenesis
  <1>3. valid => b \notin Bad
    BY <1>2 DEF CInv, IndexInv, StatusOK
  <1>4. StatusOK(status') /\ SameData(status, status')
    <2>1. CASE valid
      BY <1>1, <1>3, <2>1, SetFlagsOK DEF CInv, IndexInv, Flags
    <2>2. CASE ~valid
      BY <1>1, <2>2, SetFlagsOK DEF CInv, IndexInv, Flags
    <2> QED
      BY <2>1, <2>2
  <1>5. RestInv'
    BY <1>1 DEF CInv, RestInv
  <1>6. valid => CallerOK(status', x)
    <2> SUFFICES ASSUME valid PROVE CallerOK(status', x)
      OBVIOUS
    <2>1. /\ x \in ThreadStates /\ x.pc = "apply" /\ x.extend /\ x.attach = {b}
          /\ x.blk = b /\ x.queue = th[t].queue /\ x.detach = th[t].detach
      BY <1>2 DEF ThreadStates
    <2>2. \A i \in 1 .. Len(th[t].queue) : th[t].queue[i] \in Blocks
      BY <1>2 DEF ThreadStates
    <2>3. HaveData(status', b)
      BY <1>2, <1>4 DEF SameData
    <2> QED
      BY <1>2, <1>3, <1>4, <2>1, <2>2, <2>3 DEF CallerOK, SameData
  <1> QED
    BY <1>1, <1>4, <1>5, <1>6, IdleOK, QuietStep

(* The caller goes on to adopt orphans of the block it has stored. *)
LEMMA AcceptedOK ==
    ASSUME NEW s, NEW t \in Threads, th \in [Threads -> ThreadStates],
           CallerOK(s, th[t]), th[t].blk \in NonGenesis, HaveData(s, th[t].blk),
           NEW main \in BOOLEAN, Accepted(t, main)
    PROVE  /\ \E x : CallerOK(s, x) /\ th' = [th EXCEPT ![t] = x]
           /\ holder' = NoThread
  <1> DEFINE q == Append(th[t].queue, th[t].blk)
             m == IF th[t].blk = th[t].first THEN main ELSE th[t].main
             x == [th[t] EXCEPT !.pc = "orphans", !.extend = FALSE, !.queue = q,
                                !.main = m, !.detach = {}, !.attach = {}]
  <1>1. th' = [th EXCEPT ![t] = x] /\ holder' = NoThread
    BY DEF Accepted, Release
  <1>2. th[t].blk \in Blocks /\ th[t].queue \in Seq(Blocks) /\ th[t] \in ThreadStates
    BY DEF NonGenesis, ThreadStates
  <1>3. /\ x.pc = "orphans" /\ x.extend = FALSE /\ x.detach = {} /\ x.attach = {}
        /\ x.queue = Append(th[t].queue, th[t].blk)
        /\ x \in ThreadStates
    <2>1. q \in Seq(Blocks) /\ m \in BOOLEAN
      BY <1>2 DEF ThreadStates
    <2> HIDE DEF q, m
    <2>2. /\ x.pc = "orphans" /\ x.extend = FALSE /\ x.detach = {} /\ x.attach = {}
          /\ x.queue = q /\ x \in ThreadStates
      BY <1>2, <2>1 DEF ThreadStates
    <2> QED
      BY <2>2 DEF q
  <1>4. \A i \in 1 .. Len(x.queue) : HaveData(s, x.queue[i])
    BY <1>2, <1>3 DEF CallerOK
  <1>5. CallerOK(s, x)
    BY <1>3, <1>4, TreeAssumption DEF CallerOK
  <1> QED
    BY <1>1, <1>5

LEMMA StayC ==
    ASSUME CInv, NEW t \in Threads, StaySideChain(t)
    PROVE  CInv'
  <1>1. /\ UNCHANGED <<status, disk, tip, bestHeader, orphans, applied, calls, crashes>>
        /\ Accepted(t, FALSE) /\ th[t].pc = "connect"
    BY DEF StaySideChain
  <1>2. /\ CallerOK(status, th[t]) /\ th[t].blk \in NonGenesis
        /\ HaveData(status, th[t].blk) /\ th \in [Threads -> ThreadStates]
    BY <1>1 DEF CInv, CallersInv, CallerOK
  <1>3. PICK x : CallerOK(status, x) /\ th' = [th EXCEPT ![t] = x] /\ holder' = NoThread
    BY <1>1, <1>2, AcceptedOK
  <1>4. StatusOK(status') /\ SameData(status, status') /\ CallerOK(status', x)
    BY <1>1, <1>3 DEF CInv, IndexInv, SameData
  <1>5. RestInv'
    BY <1>1, <1>3 DEF CInv, RestInv
  <1> QED
    BY <1>1, <1>3, <1>4, <1>5, QuietStep

LEMMA BlockConnectedC ==
    ASSUME CInv, NEW t \in Threads, BlockConnected(t)
    PROVE  CInv'
  <1>1. /\ UNCHANGED <<tip, bestHeader, orphans, applied, calls, crashes>>
        /\ Accepted(t, TRUE) /\ th[t].pc = "apply" /\ th[t].op = "block"
        /\ status' = IF th[t].extend THEN SetStatusFlags(status, {th[t].blk}, {"valid"})
                     ELSE status
        /\ disk' = FlushToDB(status')
    BY DEF BlockConnected
  <1>2. /\ CallerOK(status, th[t]) /\ th[t].blk \in NonGenesis /\ th[t].blk \in Blocks
        /\ HaveData(status, th[t].blk) /\ th \in [Threads -> ThreadStates]
        /\ th[t].extend => th[t].blk \notin Bad
    BY <1>1 DEF CInv, CallersInv, CallerOK, NonGenesis
  <1>3. StatusOK(status') /\ SameData(status, status')
    <2>1. CASE th[t].extend
      BY <1>1, <1>2, <2>1, SetFlagsOK DEF CInv, IndexInv, Flags
    <2>2. CASE ~th[t].extend
      BY <1>1, <2>2 DEF CInv, IndexInv, SameData
    <2> QED
      BY <2>1, <2>2
  <1>4. PICK x : CallerOK(status, x) /\ th' = [th EXCEPT ![t] = x] /\ holder' = NoThread
    BY <1>1, <1>2, AcceptedOK
  <1>5. CallerOK(status', x)
    <2>1. /\ \A n \in x.attach : n \in Blocks
          /\ x.blk \in NonGenesis => x.blk \in Blocks
          /\ \A i \in 1 .. Len(x.queue) : x.queue[i] \in Blocks
      BY <1>4 DEF CallerOK, ThreadStates, NonGenesis
    <2> QED
      BY <1>3, <1>4, <2>1 DEF CallerOK, SameData
  <1>6. RestInv'
    BY <1>1, <1>4 DEF CInv, RestInv
  <1> QED
    BY <1>1, <1>3, <1>4, <1>5, <1>6, QuietStep

(* Planning and verifying a reorganization to node from statuses s. *)
LEMMA PlannedOK ==
    ASSUME CInv, NEW s, StatusOK(s), SameData(status, s), NEW node \in NonGenesis,
           NEW nodes, nodes = GetReorganizeNodes(s, node),
           NEW check, check = VerifyReorganization(nodes.status, nodes.detach, nodes.attach)
    PROVE  /\ StatusOK(check.status) /\ SameData(status, check.status)
           /\ nodes.detach \subseteq Anc[tip] \ {Genesis}
           /\ check.ok => \A n \in nodes.attach :
                 n \in NonGenesis /\ HaveData(check.status, n) /\ n \notin Bad
  <1>1. tip \in Blocks
    BY DEF CInv, ChainInv
  <1>2. /\ StatusOK(nodes.status) /\ SameData(s, nodes.status)
        /\ nodes.detach \subseteq Chain \ {Genesis} /\ nodes.attach \subseteq NonGenesis
    BY <1>1, PlanOK
  <1>3. /\ StatusOK(check.status) /\ SameData(nodes.status, check.status)
        /\ check.ok => \A n \in nodes.attach : HaveData(nodes.status, n) /\ n \notin Bad
    BY <1>2, VerifyOK
  <1>4. SameData(status, check.status)
    BY <1>2, <1>3, SameDataTrans
  <1>5. \A n \in nodes.attach : n \in Blocks
    BY <1>2 DEF NonGenesis
  <1> QED
    BY <1>2, <1>3, <1>4, <1>5 DEF Chain, SameData

(* InvalidateBlock's caller when it is handed a verified plan. *)
LEMMA PlanCaller ==
    ASSUME NEW s, NEW r, NEW x, NEW y, CallerOK(s, x), SameData(s, r), tip \in Blocks,
           y \in ThreadStates, y.blk = x.blk, y.queue = x.queue, y.pc = "apply",
           y.op # "block", x.pc = "apply", y.extend = x.extend,
           y.detach \subseteq Anc[tip] \ {Genesis},
           \A n \in y.attach : n \in NonGenesis /\ HaveData(r, n) /\ n \notin Bad
    PROVE  CallerOK(r, y)
  <1>1. /\ x.blk \in NonGenesis => x.blk \in Blocks
        /\ \A i \in 1 .. Len(x.queue) : x.queue[i] \in Blocks
    BY DEF CallerOK, ThreadStates, NonGenesis
  <1> QED
    BY <1>1 DEF CallerOK, SameData

LEMMA ReorganizeC ==
    ASSUME CInv, NEW t \in Threads, Reorganize(t)
    PROVE  CInv'
  <1> DEFINE nodes == GetReorganizeNodes(status, th[t].blk)
             check == VerifyReorganization(nodes.status, nodes.detach, nodes.attach)
             y == [th[t] EXCEPT !.pc = "apply", !.detach = nodes.detach,
                                !.attach = nodes.attach]
  <1>1. /\ th[t].pc = "connect" /\ status' = check.status /\ disk' = FlushToDB(status')
        /\ \/ check.ok /\ th' = [th EXCEPT ![t] = y] /\ holder' = t
           \/ th' = [th EXCEPT ![t] = Idle] /\ holder' = NoThread
        /\ UNCHANGED <<tip, bestHeader, orphans, applied, calls, crashes>>
    BY DEF Reorganize, Keep, Finish, Release
  <1>2. /\ CallerOK(status, th[t]) /\ th[t].blk \in NonGenesis /\ ~th[t].extend
        /\ th[t] \in ThreadStates /\ tip \in Blocks
        /\ StatusOK(status) /\ SameData(status, status)
    BY <1>1 DEF CInv, CallersInv, CallerOK, IndexInv, ChainInv, SameData
  <1> HIDE DEF nodes, check
  <1>3. /\ StatusOK(check.status) /\ SameData(status, check.status)
        /\ nodes.detach \subseteq Anc[tip] \ {Genesis}
        /\ check.ok => \A n \in nodes.attach :
              n \in NonGenesis /\ HaveData(check.status, n) /\ n \notin Bad
    BY <1>2, PlannedOK DEF nodes, check
  <1>4. check.ok => CallerOK(check.status, y)
    <2> SUFFICES ASSUME check.ok PROVE CallerOK(check.status, y)
      OBVIOUS
    <2>1. nodes.detach \in SUBSET Blocks /\ nodes.attach \in SUBSET Blocks
      BY <1>2, <1>3, Ancestors DEF NonGenesis
    <2>2. /\ y \in ThreadStates /\ y.pc = "apply" /\ y.detach = nodes.detach
          /\ y.attach = nodes.attach /\ y.blk = th[t].blk /\ y.queue = th[t].queue
          /\ y.extend = th[t].extend
      BY <1>2, <2>1 DEF ThreadStates
    <2>3. \A n \in y.attach : n \in NonGenesis /\ HaveData(check.status, n) /\ n \notin Bad
      BY <1>3, <2>2
    <2>4. y.detach \subseteq Anc[tip] \ {Genesis} /\ th[t].pc = "connect"
      BY <1>1, <1>3, <2>2
    <2>5. /\ th[t].blk \in Blocks /\ HaveData(status, th[t].blk)
          /\ \A i \in 1 .. Len(th[t].queue) :
                th[t].queue[i] \in Blocks /\ HaveData(status, th[t].queue[i])
      BY <1>1, <1>2 DEF CallerOK, ThreadStates, NonGenesis
    <2>6. ~y.extend
      BY <1>2, <2>2
    <2> HIDE DEF y
    <2> QED
      BY <1>2, <1>3, <2>2, <2>3, <2>4, <2>5, <2>6 DEF CallerOK, SameData
  <1>5. RestInv'
    BY <1>1 DEF CInv, RestInv
  <1> QED
    BY <1>1, <1>3, <1>4, <1>5, IdleOK, QuietStep

LEMMA SwitchC ==
    ASSUME CInv, NEW t \in Threads, SwitchBranch(t)
    PROVE  CInv'
  <1>0. /\ CallerOK(status, th[t]) /\ th[t] \in ThreadStates /\ tip \in Blocks
        /\ StatusOK(status) /\ SameData(status, status) /\ Genesis \in Chain
    BY Ancestors DEF CInv, CallersInv, IndexInv, ChainInv, SameData, Chain
  <1>1. /\ th[t].pc = "apply" /\ th[t].op = "invalidate"
        /\ UNCHANGED <<tip, bestHeader, orphans, applied, calls, crashes>>
    BY DEF SwitchBranch
  <1>2. CASE disk' = FlushToDB(status) /\ Finish(t) /\ status' = status
    <2>1. RestInv'
      BY <1>1, <1>2 DEF CInv, RestInv, Finish, Release
    <2> QED
      BY <1>0, <1>1, <1>2, <2>1, IdleOK, QuietStep DEF Finish
  <1> DEFINE nodes(b) == GetReorganizeNodes(status, b)
             check(b) == VerifyReorganization(nodes(b).status, nodes(b).detach,
                                              nodes(b).attach)
             y(b) == [th[t] EXCEPT !.op = "switch", !.detach = nodes(b).detach,
                                   !.attach = nodes(b).attach]
  <1>3. ASSUME NEW b \in InactiveTips,
               status' = check(b).status, disk' = FlushToDB(status'),
               \/ check(b).ok /\ th' = [th EXCEPT ![t] = y(b)] /\ holder' = t
               \/ th' = [th EXCEPT ![t] = Idle] /\ holder' = NoThread
        PROVE  CInv'
    <2>1. b \in NonGenesis
      BY <1>0 DEF InactiveTips, NonGenesis
    <2> HIDE DEF nodes, check
    <2>2. /\ StatusOK(check(b).status) /\ SameData(status, check(b).status)
          /\ nodes(b).detach \subseteq Anc[tip] \ {Genesis}
          /\ check(b).ok => \A n \in nodes(b).attach :
                n \in NonGenesis /\ HaveData(check(b).status, n) /\ n \notin Bad
      BY <1>0, <2>1, PlannedOK DEF nodes, check
    <2>3. check(b).ok => CallerOK(check(b).status, y(b))
      <3> SUFFICES ASSUME check(b).ok PROVE CallerOK(check(b).status, y(b))
        OBVIOUS
      <3>1. nodes(b).detach \in SUBSET Blocks /\ nodes(b).attach \in SUBSET Blocks
        BY <1>0, <2>2, Ancestors DEF NonGenesis
      <3>2. /\ y(b) \in ThreadStates /\ y(b).pc = "apply" /\ y(b).op = "switch"
            /\ y(b).detach = nodes(b).detach
            /\ y(b).attach = nodes(b).attach /\ y(b).blk = th[t].blk
            /\ y(b).queue = th[t].queue /\ y(b).extend = th[t].extend
        BY <1>0, <1>1, <3>1 DEF ThreadStates, Ops
      <3> QED
        BY <1>0, <1>1, <2>2, <3>2, PlanCaller
    <2>4. RestInv'
      BY <1>1, <1>3 DEF CInv, RestInv
    <2> QED
      BY <1>1, <1>3, <2>2, <2>3, <2>4, IdleOK, QuietStep
  <1> QED
    <2>1. \/ disk' = FlushToDB(status) /\ Finish(t) /\ status' = status
          \/ \E b \in InactiveTips :
                /\ status' = check(b).status /\ disk' = FlushToDB(status')
                /\ \/ check(b).ok /\ th' = [th EXCEPT ![t] = y(b)] /\ holder' = t
                   \/ th' = [th EXCEPT ![t] = Idle] /\ holder' = NoThread
      <3> DEFINE tips == {b \in InactiveTips \cup {tip} : ~KnownInvalid(status, b)}
                 most == {b \in tips : \A a \in tips : Work[a] <= Work[b]}
                 inactive == most \ {tip}
      <3>1. CASE inactive = {}
        BY <3>1 DEF SwitchBranch
      <3>2. CASE inactive # {}
        <4>1. PICK b \in inactive :
                /\ status' = check(b).status /\ disk' = FlushToDB(status')
                /\ IF check(b).ok
                   THEN th' = [th EXCEPT ![t] = y(b)] /\ Keep(t)
                   ELSE Finish(t)
          BY <3>2 DEF SwitchBranch
        <4>2. b \in InactiveTips
          OBVIOUS
        <4> HIDE DEF nodes, check, y
        <4> QED
          BY <4>1, <4>2 DEF Keep, Finish, Release
      <3> QED
        BY <3>1, <3>2
    <2> QED
      BY <1>2, <1>3, <2>1

LEMMA ReconsiderC ==
    ASSUME CInv, NEW t \in Threads, NEW b \in NonGenesis, ReconsiderBlock(t, b)
    PROVE  CInv'
  <1> DEFINE one == UnsetStatusFlags(status, {b}, {"invalidAncestor", "failed"})
             cleared == UnsetStatusFlags(one, IndexDescendants(b), {"invalidAncestor"})
             nodes(n) == GetReorganizeNodes(cleared, n)
             check(n) == VerifyReorganization(nodes(n).status, nodes(n).detach,
                                              nodes(n).attach)
             y(n) == [Idle EXCEPT !.pc = "apply", !.op = "reconsider", !.blk = b,
                                  !.detach = nodes(n).detach, !.attach = nodes(n).attach]
  <1>0. /\ th[t] \in ThreadStates /\ tip \in Blocks /\ StatusOK(status)
        /\ b \in Blocks /\ Genesis \in Chain /\ CallerOK(status, th[t])
    BY Ancestors DEF CInv, CallersInv, IndexInv, ChainInv, Chain, NonGenesis
  <1>1. StatusOK(one) /\ SameData(status, one)
    BY <1>0, UnsetFlagsOK DEF Flags
  <1>2. StatusOK(cleared) /\ SameData(one, cleared)
    BY <1>1, UnsetFlagsOK DEF Flags
  <1>3. SameData(status, cleared)
    BY <1>1, <1>2, SameDataTrans
  <1>4. /\ UNCHANGED <<tip, bestHeader, orphans, applied, crashes>>
        /\ calls < MaxCalls /\ calls' = calls + 1
    BY DEF ReconsiderBlock
  <1>5. PICK n \in Blocks :
            \/ status' = cleared /\ UNCHANGED <<disk, th, holder>>
            \/ /\ n \notin Chain
               /\ status' = check(n).status /\ disk' = FlushToDB(status')
               /\ IF check(n).ok
                  THEN th' = [th EXCEPT ![t] = y(n)] /\ Keep(t)
                  ELSE UNCHANGED <<th, holder>>
    <2>1. PICK n \in (IF b \in Chain THEN {tip} ELSE {m \in InactiveTips : b \in Anc[m]}) :
            IF Work[n] <= Work[tip]
            THEN status' = cleared /\ UNCHANGED <<disk, th, holder>>
            ELSE /\ status' = check(n).status /\ disk' = FlushToDB(status')
                 /\ IF check(n).ok
                    THEN th' = [th EXCEPT ![t] = y(n)] /\ Keep(t)
                    ELSE UNCHANGED <<th, holder>>
      BY DEF ReconsiderBlock
    <2>2. n \in Blocks /\ (n = tip \/ n \notin Chain)
      BY <1>0 DEF InactiveTips
    <2>3. n = tip => Work[n] <= Work[tip]
      BY <1>0, ChainAssumption
    <2> HIDE DEF cleared, nodes, check, y
    <2> QED
      BY <2>1, <2>2, <2>3
  <1>6. MaxCalls \in Nat
    BY ChainAssumption
  <1> HIDE DEF one, cleared
  <1>7. CASE status' = cleared /\ UNCHANGED <<disk, th, holder>>
    <2>1. RestInv'
      BY <1>4, <1>6, <1>7 DEF CInv, RestInv
    <2> QED
      BY <1>2, <1>3, <1>4, <1>7, <2>1, IdleOK, QuietStep
  <1>8. CASE /\ n \notin Chain
             /\ status' = check(n).status /\ disk' = FlushToDB(status')
             /\ IF check(n).ok
                THEN th' = [th EXCEPT ![t] = y(n)] /\ Keep(t)
                ELSE UNCHANGED <<th, holder>>
    <2>1. n \in NonGenesis
      BY <1>0, <1>8 DEF NonGenesis
    <2> HIDE DEF nodes, check
    <2>2. /\ StatusOK(check(n).status) /\ SameData(status, check(n).status)
          /\ nodes(n).detach \subseteq Anc[tip] \ {Genesis}
          /\ check(n).ok => \A m \in nodes(n).attach :
                m \in NonGenesis /\ HaveData(check(n).status, m) /\ m \notin Bad
      BY <1>2, <1>3, <2>1, PlannedOK DEF nodes, check
    <2>3. check(n).ok => CallerOK(check(n).status, y(n))
      <3> SUFFICES ASSUME check(n).ok PROVE CallerOK(check(n).status, y(n))
        OBVIOUS
      <3>1. nodes(n).detach \in SUBSET Blocks /\ nodes(n).attach \in SUBSET Blocks
        BY <1>0, <2>2, Ancestors DEF NonGenesis
      <3>2. Idle \in ThreadStates
        BY IdleOK DEF CallerOK
      <3>3. /\ y(n) \in ThreadStates /\ y(n).pc = "apply" /\ y(n).op = "reconsider"
            /\ y(n).detach = nodes(n).detach /\ y(n).attach = nodes(n).attach
            /\ y(n).queue = Idle.queue /\ y(n).extend = Idle.extend
        BY <1>0, <3>1, <3>2 DEF ThreadStates, Ops
      <3>4. Idle.queue = <<>> /\ Idle.extend = FALSE
        BY DEF Idle
      <3> QED
        BY <1>0, <2>2, <3>3, <3>4 DEF CallerOK
    <2>4. RestInv'
      BY <1>4, <1>6, <1>8 DEF CInv, RestInv, Keep
    <2> QED
      BY <1>4, <1>8, <2>2, <2>3, <2>4, IdleOK, QuietStep
  <1> QED
    BY <1>5, <1>7, <1>8

LEMMA DisconnectC ==
    ASSUME CInv, NEW t \in Threads, DisconnectBlock(t)
    PROVE  CInv'
  <1> DEFINE n == Highest(th[t].detach)
             y == [th[t] EXCEPT !.detach = th[t].detach \ {n}]
  <1>0. /\ CallerOK(status, th[t]) /\ th[t] \in ThreadStates /\ tip \in Blocks
        /\ StatusOK(status) /\ SameData(status, status) /\ Grows(status, status)
    BY DEF CInv, CallersInv, IndexInv, ChainInv, SameData, Grows
  <1>1. /\ th[t].detach # {} /\ status' = status
        /\ disk' = disk \/ disk' = FlushToDB(status')
        /\ UNCHANGED <<bestHeader, orphans, calls, crashes>>
        /\ \/ /\ n = tip /\ tip' = Parent[n] /\ applied' = applied \ {n}
              /\ th' = [th EXCEPT ![t] = y] /\ holder' = NoThread
           \/ /\ th' = [th EXCEPT ![t] = Idle] /\ holder' = NoThread
              /\ UNCHANGED <<tip, applied>>
    BY DEF DisconnectBlock, Finish, Release
  <1>2. RestInv'
    BY <1>1 DEF CInv, RestInv
  <1>3. CASE th' = [th EXCEPT ![t] = Idle] /\ tip' = tip
    BY <1>0, <1>1, <1>2, <1>3, IdleOK, QuietStep
  <1>4. CASE n = tip /\ tip' = Parent[n] /\ th' = [th EXCEPT ![t] = y]
    <2>1. PICK d \in Blocks : th[t].detach \subseteq Anc[d] \ {Genesis}
      BY <1>0 DEF CallerOK
    <2>2. n \in th[t].detach
      <3>1. th[t].detach \subseteq Anc[d]
        BY <2>1
      <3> HIDE DEF n
      <3> QED
        BY <1>1, <3>1, HighestIn DEF n
    <2>3. tip \in NonGenesis /\ Parent[tip] \in Blocks /\ Anc[Parent[tip]] \subseteq Anc[tip]
          /\ Anc[tip] \subseteq Blocks
      BY <1>0, <1>4, <2>1, <2>2, TreeAssumption DEF NonGenesis
    <2>4. ChainInv'
      BY <1>1, <1>4, <2>3 DEF CInv, ChainInv, Chain
    <2>5. /\ y \in ThreadStates /\ y.detach \subseteq th[t].detach
          /\ y.attach = th[t].attach /\ y.extend = th[t].extend /\ y.pc = th[t].pc
          /\ y.blk = th[t].blk /\ y.op = th[t].op /\ y.queue = th[t].queue
      <3>1. th[t].detach \ {n} \in SUBSET Blocks
        BY <1>0 DEF ThreadStates
      <3> HIDE DEF n
      <3> QED
        BY <1>0, <3>1 DEF ThreadStates
    <2>6. CallerOK(status, y)
      <3> HIDE DEF y
      <3> QED
        BY <1>0, <2>1, <2>5 DEF CallerOK
    <2>7. CallersInv'
      BY <1>0, <1>1, <1>4, <2>6, CallersMove DEF CInv
    <2>8. IndexInv'
      BY <1>0, <1>1, IndexKept DEF CInv
    <2> QED
      BY <1>2, <2>4, <2>7, <2>8 DEF CInv
  <1> QED
    BY <1>1, <1>3, <1>4

LEMMA ConnectC ==
    ASSUME CInv, NEW t \in Threads, ConnectBlock(t)
    PROVE  CInv'
  <1> DEFINE n == Lowest(th[t].attach)
             y == [th[t] EXCEPT !.attach = th[t].attach \ {n}]
  <1>0. /\ CallerOK(status, th[t]) /\ th[t] \in ThreadStates /\ tip \in Blocks
        /\ StatusOK(status) /\ SameData(status, status) /\ Grows(status, status)
    BY DEF CInv, CallersInv, IndexInv, ChainInv, SameData, Grows
  <1>1. /\ th[t].attach # {} /\ status' = status /\ applied' = applied \cup {n}
        /\ disk' = disk \/ disk' = FlushToDB(status')
        /\ UNCHANGED <<bestHeader, orphans, calls, crashes>>
        /\ \/ /\ Parent[n] = tip /\ tip' = n
              /\ th' = [th EXCEPT ![t] = y] /\ holder' = NoThread
           \/ /\ th' = [th EXCEPT ![t] = Idle] /\ holder' = NoThread /\ tip' = tip
    BY DEF ConnectBlock, Finish, Release
  <1>2. n \in th[t].attach
    <2>1. th[t].attach \subseteq Blocks
      BY <1>0 DEF ThreadStates
    <2> HIDE DEF n
    <2> QED
      BY <1>1, <2>1, LowestIn DEF n
  <1>3. n \in NonGenesis /\ n \in Blocks /\ HaveData(status, n) /\ n \notin Bad
    BY <1>0, <1>2 DEF CallerOK, NonGenesis
  <1> HIDE DEF n
  <1>4. RestInv'
    BY <1>1, <1>3 DEF CInv, RestInv
  <1>5. CASE th' = [th EXCEPT ![t] = Idle] /\ tip' = tip
    BY <1>0, <1>1, <1>4, <1>5, IdleOK, QuietStep
  <1>6. CASE Parent[n] = tip /\ tip' = n /\ th' = [th EXCEPT ![t] = y]
    <2>1. Anc[n] = Anc[tip] \cup {n}
      BY <1>3, <1>6, TreeAssumption
    <2>2. ChainInv'
      BY <1>1, <1>3, <1>6, <2>1 DEF CInv, ChainInv, Chain
    <2>3. /\ y \in ThreadStates /\ y.detach = th[t].detach
          /\ y.attach \subseteq th[t].attach /\ y.extend = th[t].extend /\ y.pc = th[t].pc
          /\ y.blk = th[t].blk /\ y.op = th[t].op /\ y.queue = th[t].queue
      <3>1. th[t].attach \ {n} \in SUBSET Blocks
        BY <1>0 DEF ThreadStates
      <3> QED
        BY <1>0, <3>1 DEF ThreadStates
    <2>4. CallerOK(status, y)
      <3> HIDE DEF y
      <3> QED
        BY <1>0, <2>3 DEF CallerOK
    <2>5. CallersInv'
      BY <1>0, <1>1, <1>6, <2>4, CallersMove DEF CInv
    <2>6. IndexInv'
      BY <1>0, <1>1, IndexKept DEF CInv
    <2> QED
      BY <1>4, <2>2, <2>5, <2>6 DEF CInv
  <1> QED
    BY <1>1, <1>5, <1>6

LEMMA OrphansC ==
    ASSUME CInv, NEW t \in Threads, ProcessOrphans(t)
    PROVE  CInv'
  <1> DEFINE h == Head(th[t].queue)
             ready == {i \in DOMAIN orphans : Parent[orphans[i]] = h}
             j == CHOOSE i \in ready : \A k \in ready : i <= k
             o == orphans[j]
             y == [th[t] EXCEPT !.queue = Tail(th[t].queue)]
  <1>0. /\ CallerOK(status, th[t]) /\ th[t] \in ThreadStates /\ tip \in Blocks
        /\ StatusOK(status) /\ SameData(status, status)
        /\ orphans \in Seq(NonGenesis) /\ th[t].queue \in Seq(Blocks)
    BY DEF CInv, CallersInv, IndexInv, ChainInv, SameData, RestInv, ThreadStates
  <1>1. /\ th[t].pc = "orphans" /\ th[t].queue # <<>>
        /\ UNCHANGED <<tip, bestHeader, applied, calls, crashes>>
    BY DEF ProcessOrphans
  <1>2. CASE ready = {}
    <2>1. th' = [th EXCEPT ![t] = y] /\ holder' = t /\ UNCHANGED <<status, disk, orphans>>
      BY <1>2 DEF ProcessOrphans, Keep
    <2>2. CallerOK(status, y)
      <3> DEFINE q == Tail(th[t].queue)
      <3>1. q \in Seq(Blocks)
        BY <1>0, <1>1
      <3>2. \A i \in 1 .. Len(q) : HaveData(status, q[i])
        BY <1>0, <1>1 DEF CallerOK
      <3> HIDE DEF q
      <3>3. /\ y \in ThreadStates /\ y.detach = th[t].detach /\ y.op = th[t].op
            /\ y.attach = th[t].attach /\ y.extend = th[t].extend /\ y.pc = th[t].pc
            /\ y.blk = th[t].blk /\ y.queue = q
        BY <1>0, <3>1 DEF ThreadStates, q
      <3> HIDE DEF y
      <3> QED
        BY <1>0, <3>2, <3>3 DEF CallerOK
    <2>3. RestInv'
      BY <1>1, <2>1 DEF CInv, RestInv
    <2> QED
      BY <1>0, <1>1, <2>1, <2>2, <2>3, QuietStep
  <1>3. CASE ready # {}
    <2>1. /\ orphans' = SubSeq(orphans, 1, j - 1) \o SubSeq(orphans, j + 1, Len(orphans))
          /\ MaybeAcceptBlock(t, o, th[t])
      BY <1>3 DEF ProcessOrphans
    <2>2. j \in ready
      <3>1. ready \subseteq Nat
        BY <1>0
      <3>2. \E i \in ready : \A k \in ready : i <= k
        <4> HIDE DEF ready
        <4> QED
          BY <1>3, <3>1, NatMin
      <3> QED
        BY <3>2
    <2>3. j \in 1 .. Len(orphans) /\ o \in NonGenesis /\ Parent[o] = h
      BY <1>0, <2>2
    <2>4. h = th[t].queue[1] /\ 1 \in 1 .. Len(th[t].queue)
      BY <1>0, <1>1
    <2>5. HaveData(status, Parent[o])
      BY <1>0, <2>3, <2>4 DEF CallerOK
    <2>6. ~th[t].extend
      BY <1>0, <1>1 DEF CallerOK
    <2> HIDE DEF j, o
    <2>7. IndexInv' /\ ChainInv' /\ CallersInv' /\ holder' \in Threads \cup {NoThread}
      BY <1>0, <1>1, <2>1, <2>3, <2>5, <2>6, AcceptC
    <2>8. orphans' \in Seq(NonGenesis)
      <3>1. /\ SubSeq(orphans, 1, j - 1) \in Seq(NonGenesis)
            /\ SubSeq(orphans, j + 1, Len(orphans)) \in Seq(NonGenesis)
        BY <1>0, <2>3
      <3> QED
        BY <2>1, <3>1
    <2>9. RestInv'
      BY <1>1, <2>7, <2>8 DEF CInv, RestInv
    <2> QED
      BY <2>7, <2>9 DEF CInv
  <1> QED
    BY <1>2, <1>3

LEMMA HeaderC ==
    ASSUME CInv, NEW t \in Threads, NEW b \in NonGenesis, ProcessBlockHeader(t, b)
    PROVE  CInv'
  <1>1. /\ status' = status \/ status' = SetStatusFlags(status, {b}, {"header"})
        /\ disk' = FlushToDB(status') /\ bestHeader' \in {b, bestHeader}
        /\ UNCHANGED <<tip, orphans, applied, holder, th, calls, crashes>>
    BY DEF ProcessBlockHeader
  <1>2. StatusOK(status) /\ SameData(status, status) /\ b \in Blocks
    BY DEF CInv, IndexInv, SameData, NonGenesis
  <1>3. StatusOK(status') /\ SameData(status, status')
    BY <1>1, <1>2, SetFlagsOK DEF Flags
  <1>4. RestInv'
    BY <1>1, <1>2 DEF CInv, RestInv
  <1> QED
    BY <1>1, <1>3, <1>4, IdleOK, QuietStep

LEMMA InvalidateSideC ==
    ASSUME CInv, NEW t \in Threads, NEW b \in NonGenesis, InvalidateSideBlock(t, b)
    PROVE  CInv'
  <1> DEFINE below == {d \in IndexDescendants(b) : ~KnownInvalid(status, d)}
             one == SetStatusFlags(status, {b}, {"failed"})
             two == SetStatusFlags(one, below, {"invalidAncestor"})
  <1>1. /\ status' = UnsetStatusFlags(two, below \cup {b}, {"valid"})
        /\ disk' = FlushToDB(status') /\ calls < MaxCalls /\ calls' = calls + 1
        /\ UNCHANGED <<tip, bestHeader, orphans, applied, holder, th, crashes>>
    BY DEF InvalidateSideBlock
  <1>2. StatusOK(one) /\ SameData(status, one)
    BY SetFlagsOK DEF CInv, IndexInv, Flags
  <1>3. StatusOK(two) /\ SameData(one, two)
    BY <1>2, SetFlagsOK DEF Flags
  <1>4. StatusOK(status') /\ SameData(two, status')
    BY <1>1, <1>3, UnsetFlagsOK DEF Flags
  <1>5. SameData(status, status')
    BY <1>2, <1>3, <1>4, SameDataTrans
  <1>6. RestInv'
    BY <1>1, ChainAssumption DEF CInv, RestInv
  <1> QED
    BY <1>1, <1>4, <1>5, <1>6, IdleOK, QuietStep

LEMMA InvalidateChainC ==
    ASSUME CInv, NEW t \in Threads, NEW b \in NonGenesis, InvalidateChainBlock(t, b)
    PROVE  CInv'
  <1> DEFINE below == {d \in Chain \ Anc[b] : ~KnownInvalid(status, d)}
             detach == below \cup {b}
             one == SetStatusFlags(status, {b}, {"failed"})
             two == SetStatusFlags(one, below, {"invalidAncestor"})
             y == [Idle EXCEPT !.pc = "apply", !.op = "invalidate", !.blk = b,
                               !.detach = detach]
  <1>0. b \in Blocks /\ tip \in Blocks /\ Genesis \in Anc[b] /\ Chain \subseteq Blocks
    BY Ancestors DEF CInv, ChainInv, NonGenesis, Chain
  <1>1. /\ status' = UnsetStatusFlags(two, detach, {"valid"}) /\ b \in Chain
        /\ disk' = disk \/ disk' = FlushToDB(status')
        /\ calls < MaxCalls /\ calls' = calls + 1
        /\ \/ th' = [th EXCEPT ![t] = y] /\ holder' = t
           \/ UNCHANGED <<th, holder>>
        /\ UNCHANGED <<tip, bestHeader, orphans, applied, crashes>>
    BY DEF InvalidateChainBlock, Keep
  <1>2. StatusOK(one) /\ SameData(status, one)
    BY SetFlagsOK DEF CInv, IndexInv, Flags
  <1>3. StatusOK(two) /\ SameData(one, two)
    BY <1>2, SetFlagsOK DEF Flags
  <1>4. StatusOK(status') /\ SameData(two, status')
    BY <1>1, <1>3, UnsetFlagsOK DEF Flags
  <1>5. SameData(status, status')
    BY <1>2, <1>3, <1>4, SameDataTrans
  <1>6. RestInv'
    BY <1>1, ChainAssumption DEF CInv, RestInv
  <1>7. detach \subseteq Anc[tip] \ {Genesis} /\ detach \in SUBSET Blocks
    BY <1>0, <1>1 DEF Chain, NonGenesis
  <1> HIDE DEF detach, one, two
  <1>8. CallerOK(status', y)
    <2>1. Idle \in ThreadStates /\ Idle.queue = <<>> /\ Idle.extend = FALSE /\ Idle.attach = {}
      BY IdleOK DEF CallerOK, Idle
    <2>2. /\ y \in ThreadStates /\ y.pc = "apply" /\ y.op = "invalidate"
          /\ y.detach = detach /\ y.attach = Idle.attach
          /\ y.queue = Idle.queue /\ y.extend = Idle.extend
      BY <1>0, <1>7, <2>1 DEF ThreadStates, Ops
    <2> QED
      BY <1>0, <1>7, <2>1, <2>2 DEF CallerOK
  <1> QED
    BY <1>1, <1>4, <1>5, <1>6, <1>8, QuietStep

(* The steps that only end a call. *)
LEMMA EndC ==
    ASSUME CInv, NEW t \in Threads, Return(t) \/ CallDone(t)
    PROVE  CInv'
  <1>1. /\ th' = [th EXCEPT ![t] = Idle] /\ holder' = NoThread
        /\ disk' = disk \/ disk' = FlushToDB(status')
        /\ UNCHANGED <<status, tip, bestHeader, orphans, applied, calls, crashes>>
    BY DEF Return, CallDone, Finish, Release
  <1>2. StatusOK(status') /\ SameData(status, status')
    BY <1>1 DEF CInv, IndexInv, SameData
  <1>3. RestInv'
    BY <1>1 DEF CInv, RestInv
  <1> QED
    BY <1>1, <1>2, <1>3, IdleOK, QuietStep

(* A crash and initChainState. *)
LEMMA RestartC ==
    ASSUME CInv, Restart
    PROVE  CInv'
  <1>0. /\ tip \in Blocks /\ Chain \subseteq Blocks /\ Chain \cap Bad = {}
        /\ StatusOK(disk) /\ disk \in [Blocks -> Rows]
    BY Ancestors DEF CInv, ChainInv, IndexInv, Chain
  <1>1. /\ status' = SetStatusFlags(disk, Chain, {"valid"}) /\ disk' = FlushToDB(status')
        /\ crashes < MaxCrashes /\ crashes' = crashes + 1 /\ bestHeader' = tip
        /\ orphans' = <<>> /\ applied' = Chain /\ holder' = NoThread
        /\ th' = [t \in Threads |-> Idle] /\ UNCHANGED <<tip, calls>>
    BY DEF Restart
  <1>2. StatusOK(status') /\ SameData(disk, status')
    BY <1>0, <1>1, SetFlagsOK DEF Flags
  <1>3. SameData(status, status')
    BY <1>0, <1>2 DEF CInv, IndexInv, SameData, HaveData, Rows
  <1>4. RestInv'
    BY <1>0, <1>1, ChainAssumption DEF CInv, RestInv
  <1>5. CallersInv'
    BY <1>1, IdleOK DEF CallersInv, CallerOK
  <1> QED
    BY <1>1, <1>2, <1>3, <1>4, <1>5, SameGrows, IndexKept, ChainKept DEF CInv

(* Every step keeps the invariant. *)
LEMMA StepC ==
    ASSUME CInv, [Next]_vars
    PROVE  CInv'
  <1>1. ASSUME UNCHANGED vars PROVE CInv'
    BY <1>1 DEF vars, CInv, IndexInv, ChainInv, CallersInv, RestInv, Chain,
                StatusOK, HaveData, KnownValid
  <1>2. ASSUME NEW t \in Threads, Call(t) PROVE CInv'
    <2>1. PICK b \in NonGenesis :
              \/ ProcessBlock(t, b)
              \/ RefuseDuplicate(t, b)
              \/ ProcessBlockHeader(t, b)
              \/ InvalidateSideBlock(t, b)
              \/ InvalidateChainBlock(t, b)
              \/ ReconsiderBlock(t, b)
      BY <1>2 DEF Call
    <2>2. RefuseDuplicate(t, b) => UNCHANGED vars
      BY DEF RefuseDuplicate
    <2> QED
      BY <1>1, <2>1, <2>2, ProcessBlockC, HeaderC, InvalidateSideC, InvalidateChainC,
         ReconsiderC
  <1>3. ASSUME NEW t \in Threads, Step(t) PROVE CInv'
    BY <1>3, ExtendC, StayC, ReorganizeC, DisconnectC, ConnectC, BlockConnectedC,
       OrphansC, EndC, SwitchC DEF Step
  <1> QED
    BY <1>1, <1>2, <1>3, RestartC DEF Next

-----------------------------------------------------------------------------
(* CInv is what the properties need. *)
LEMMA CInvImplies == CInv => TypeOK /\ BestChainSound /\ IndexLoadable
  <1> SUFFICES ASSUME CInv PROVE TypeOK /\ BestChainSound /\ IndexLoadable
    OBVIOUS
  <1>1. TypeOK
    BY DEF CInv, IndexInv, StatusOK, ChainInv, CallersInv, RestInv, TypeOK
  <1>2. \A b \in Chain : b \in Blocks /\ HaveData(status, b) /\ b \notin Bad
    BY Ancestors DEF CInv, ChainInv, Chain
  <1>3. \A b \in Chain : b \notin Unfit
    BY <1>2, ChainAssumption DEF CInv, IndexInv, NonGenesis
  <1>4. Genesis \in Blocks /\ tip \in Chain /\ tip \in Blocks
        /\ \A b \in NonGenesis : b \in Blocks /\ Parent[b] \in Blocks
    BY TreeAssumption, Ancestors DEF CInv, ChainInv, Chain, NonGenesis
  <1>5. BestChainSound
    BY <1>2, <1>3 DEF BestChainSound
  <1>6. IndexLoadable
    BY <1>2, <1>4 DEF CInv, IndexInv, IndexLoadable, Loadable
  <1> QED
    BY <1>1, <1>5, <1>6

(* For every tree of blocks, whatever the order in which headers, blocks   *)
(* and orphans arrive, with any number of concurrent callers that          *)
(* interleave at the notifications, InvalidateBlock and ReconsiderBlock at *)
(* any moment and crashes between any two commits: the best chain never    *)
(* holds a block that breaks a rule or whose data is missing.              *)
THEOREM ChainNeverUnsound == Spec => []BestChainSound
  <1>1. Init => CInv
    BY InitC
  <1>2. CInv /\ [Next]_vars => CInv'
    BY StepC
  <1>3. CInv => BestChainSound
    BY CInvImplies
  <1> QED
    BY <1>1, <1>2, <1>3, PTL DEF Spec

(* Under the same conditions the index rows on disk are closed under       *)
(* parents and hold the tip, so that initChainState succeeds after a crash *)
(* at any moment; and every variable keeps its type.                       *)
THEOREM IndexAlwaysLoads == Spec => [](TypeOK /\ IndexLoadable)
  <1>1. Init => CInv
    BY InitC
  <1>2. CInv /\ [Next]_vars => CInv'
    BY StepC
  <1>3. CInv => TypeOK /\ IndexLoadable
    BY CInvImplies
  <1> QED
    BY <1>1, <1>2, <1>3, PTL DEF Spec

-----------------------------------------------------------------------------
(* Chain selection, on top of CInv *)

(* A block is tainted when it, or an ancestor of it, violates a rule. *)
Tainted(b) == Anc[b] \cap Bad # {}

(* Only tainted blocks are marked invalid in the statuses s. *)
MarksOK(s) == \A b \in Blocks : KnownInvalid(s, b) => Tainted(b)

(* Until InvalidateBlock or ReconsiderBlock is called. *)
MarksInv == calls = 0 => MarksOK(status) /\ MarksOK(disk)

-----------------------------------------------------------------------------
(* Whatever descends from a tainted block is tainted. *)
LEMMA TaintInherited ==
    ASSUME NEW b \in Blocks, NEW a \in Anc[b], Tainted(a)
    PROVE  Tainted(b)
  BY TreeAssumption DEF Tainted

(* Of two blocks on one branch, the lower is an ancestor of the higher. *)
LEMMA BranchOrder ==
    ASSUME NEW b \in Blocks, NEW a \in Anc[b], NEW d \in Anc[b], Height[a] < Height[d]
    PROVE  a \in Anc[d] /\ d \in Blocks
  <1>1. a \in Blocks /\ d \in Blocks /\ Height[a] \in Nat /\ Height[d] \in Nat
    BY TreeAssumption
  <1>2. Height[a] <= Height[d]
    BY <1>1
  <1> QED
    BY <1>1, <1>2, TreeAssumption

(* Setting flags keeps the marks sound when they mark nothing, or only     *)
(* tainted blocks.                                                         *)
LEMMA SetMarks ==
    ASSUME NEW s, StatusOK(s), MarksOK(s), NEW B, NEW f \in SUBSET Flags,
           f \cap {"failed", "invalidAncestor"} = {} \/ \A b \in B : Tainted(b)
    PROVE  MarksOK(SetStatusFlags(s, B, f))
  BY DEF MarksOK, SetStatusFlags, KnownInvalid, StatusOK

(* What getReorganizeNodes returns: either a plan from the best chain to   *)
(* node with the statuses unchanged, or nothing to do because a block of   *)
(* the branch is known to be invalid.                                      *)
LEMMA PlanShape ==
    ASSUME NEW s, NEW node, NEW g, g = GetReorganizeNodes(s, node)
    PROVE  \/ /\ g.status = s
              /\ g.detach = Chain \ Anc[node]
              /\ g.attach = Anc[node] \ Chain
           \/ /\ g.detach = {} /\ g.attach = {}
              /\ \/ /\ KnownInvalid(s, Parent[node])
                    /\ g.status = SetStatusFlags(s, {node}, {"invalidAncestor"})
                 \/ /\ \E n \in Anc[node] \ Chain : KnownInvalid(s, n)
                    /\ g.status = SetStatusFlags(s, AboveInvalid(s, Anc[node] \ Chain),
                                                 {"invalidAncestor"})
  BY DEF GetReorganizeNodes

(* When it returns nothing to do, the branch is tainted. *)
LEMMA NothingTainted ==
    ASSUME NEW s, MarksOK(s), NEW node \in NonGenesis,
           \/ KnownInvalid(s, Parent[node])
           \/ \E n \in Anc[node] \ Chain : KnownInvalid(s, n)
    PROVE  Tainted(node)
  <1>1. /\ node \in Blocks /\ Parent[node] \in Blocks /\ Anc[node] \subseteq Blocks
        /\ Parent[node] \in Anc[Parent[node]] /\ Anc[node] = Anc[Parent[node]] \cup {node}
    BY TreeAssumption, Ancestors DEF NonGenesis
  <1>2. PICK n \in Anc[node] : KnownInvalid(s, n)
    BY <1>1
  <1>3. Tainted(n)
    BY <1>1, <1>2 DEF MarksOK
  <1> QED
    BY <1>1, <1>2, <1>3, TaintInherited

(* getReorganizeNodes marks only tainted blocks: the block itself when its *)
(* parent is invalid, or the blocks above the highest invalid one.         *)
LEMMA PlanMarks ==
    ASSUME NEW s, StatusOK(s), MarksOK(s), NEW node \in NonGenesis
    PROVE  MarksOK(GetReorganizeNodes(s, node).status)
  <1> DEFINE g == GetReorganizeNodes(s, node)
             path == Anc[node] \ Chain
  <1>0. node \in Blocks /\ Anc[node] \subseteq Blocks
    BY Ancestors DEF NonGenesis
  <1>1. CASE g.status = s
    BY <1>1
  <1>2. CASE /\ KnownInvalid(s, Parent[node])
             /\ g.status = SetStatusFlags(s, {node}, {"invalidAncestor"})
    <2>1. Tainted(node)
      BY <1>2, NothingTainted
    <2> QED
      BY <1>2, <2>1, SetMarks DEF Flags
  <1>3. CASE /\ \E n \in path : KnownInvalid(s, n)
             /\ g.status = SetStatusFlags(s, AboveInvalid(s, path), {"invalidAncestor"})
    <2>1. PICK i \in path : KnownInvalid(s, i)
      BY <1>3
    <2>2. \A n \in AboveInvalid(s, path) : Tainted(n)
      <3> SUFFICES ASSUME NEW n \in AboveInvalid(s, path) PROVE Tainted(n)
        OBVIOUS
      <3>1. n \in Anc[node] /\ Height[n] > Height[i]
        BY <2>1 DEF AboveInvalid
      <3>2. i \in Anc[n] /\ n \in Blocks
        BY <1>0, <3>1, BranchOrder, TreeAssumption
      <3>3. Tainted(i)
        BY <1>0, <2>1 DEF MarksOK
      <3> QED
        BY <3>2, <3>3, TaintInherited
    <2> QED
      BY <1>3, <2>2, SetMarks DEF Flags
  <1> HIDE DEF g
  <1> QED
    BY <1>1, <1>2, <1>3, PlanShape DEF g

(* verifyReorganizationValidity: when it stops at a block that is stored,  *)
(* that block violates a rule.  It marks that block and those above it.    *)
LEMMA VerifyMarks ==
    ASSUME NEW s, StatusOK(s), MarksOK(s), NEW node \in Blocks,
           NEW detach, NEW attach, attach \subseteq Anc[node] \cap NonGenesis
    PROVE  MarksOK(VerifyReorganization(s, detach, attach).status)
  <1> DEFINE stop == {n \in attach : Stops(s, n)}
             f == Lowest(stop)
             below == {n \in attach : Height[n] < Height[f]}
             above == {n \in attach : Height[n] > Height[f]}
             passed == SetStatusFlags(s, below, {"valid"})
             failed == SetStatusFlags(passed, {f}, {"failed"})
             dead == SetStatusFlags(failed, above, {"invalidAncestor"})
             v == VerifyReorganization(s, detach, attach)
  <1>0. attach \subseteq Blocks /\ attach \subseteq Anc[node] /\ Anc[node] \subseteq Blocks
    BY Ancestors DEF NonGenesis
  <1>1. \/ v.status = s
        \/ stop = {} /\ v.status = SetStatusFlags(s, attach, {"valid"})
        \/ stop # {} /\ v.status = passed
        \/ stop # {} /\ HaveData(s, f) /\ v.status = dead
    BY DEF VerifyReorganization
  <1>2. \A B : MarksOK(SetStatusFlags(s, B, {"valid"}))
    BY SetMarks DEF Flags
  <1>3. CASE stop # {} /\ HaveData(s, f) /\ v.status = dead
    <2>1. f \in stop /\ \A a \in stop : Height[f] <= Height[a]
      BY <1>0, <1>3, LowestIn
    <2>2. f \in attach /\ f \in Bad /\ f \in Blocks
      BY <1>0, <1>3, <2>1 DEF Stops
    <2>3. Tainted(f)
      BY <2>2, Ancestors DEF Tainted
    <2>4. \A n \in above : Tainted(n)
      <3> SUFFICES ASSUME NEW n \in above PROVE Tainted(n)
        OBVIOUS
      <3>1. f \in Anc[n] /\ n \in Blocks
        BY <1>0, <2>2, BranchOrder, TreeAssumption
      <3> QED
        BY <2>3, <3>1, TaintInherited
    <2>5. \A n \in below : n \notin Bad
      <3> SUFFICES ASSUME NEW n \in below PROVE n \notin Bad
        OBVIOUS
      <3>1. n \in Blocks /\ Height[n] \in Nat /\ Height[f] \in Nat /\ Height[n] < Height[f]
        BY <1>0, <2>2, TreeAssumption
      <3>2. n \notin stop
        BY <2>1, <3>1
      <3> QED
        BY <3>1, <3>2 DEF Stops, StatusOK
    <2>6. StatusOK(passed) /\ MarksOK(passed)
      BY <1>2, <2>5, SetFlagsOK DEF Flags
    <2>7. StatusOK(failed) /\ MarksOK(failed)
      BY <2>3, <2>6, SetFlagsOK, SetMarks DEF Flags
    <2>8. MarksOK(dead)
      BY <2>4, <2>7, SetMarks DEF Flags
    <2> QED
      BY <1>3, <2>8
  <1> HIDE DEF v, stop, passed, dead
  <1> QED
    BY <1>1, <1>2, <1>3 DEF passed, v

(* Planning and verifying a reorganization marks only tainted blocks. *)
LEMMA PlannedMarks ==
    ASSUME NEW s, StatusOK(s), MarksOK(s), tip \in Blocks, NEW node \in NonGenesis,
           NEW nodes, nodes = GetReorganizeNodes(s, node),
           NEW check, check = VerifyReorganization(nodes.status, nodes.detach, nodes.attach)
    PROVE  MarksOK(check.status)
  <1>1. StatusOK(nodes.status) /\ nodes.attach \subseteq NonGenesis
    BY PlanOK
  <1>2. MarksOK(nodes.status)
    BY PlanMarks
  <1>3. nodes.attach \subseteq Anc[node]
    BY PlanShape
  <1>4. node \in Blocks
    BY DEF NonGenesis
  <1> QED
    BY <1>1, <1>2, <1>3, <1>4, VerifyMarks

(* A step that calls nothing and, at most, flushes the index. *)
LEMMA MarksKept ==
    ASSUME CInv, MarksInv, calls' = calls, calls = 0 => MarksOK(status'),
           disk' = disk \/ disk' = FlushToDB(status')
    PROVE  MarksInv'
  <1>1. calls = 0 => MarksOK(disk')
    BY DEF MarksInv, MarksOK, FlushToDB, KnownInvalid
  <1> QED
    BY <1>1 DEF MarksInv

LEMMA StepMarks ==
    ASSUME CInv, MarksInv, [Next]_vars
    PROVE  MarksInv'
  <1>0. StatusOK(status) /\ StatusOK(disk) /\ tip \in Blocks /\ calls \in Nat
    BY DEF CInv, IndexInv, ChainInv, RestInv
  <1>1. ASSUME UNCHANGED <<status, disk, calls>> PROVE MarksInv'
    BY <1>0, <1>1 DEF MarksInv, MarksOK, KnownInvalid
  <1>2. ASSUME calls' = calls + 1 PROVE MarksInv'
    BY <1>0, <1>2 DEF MarksInv
  <1>3. ASSUME status' = status, calls' = calls, disk' = disk \/ disk' = FlushToDB(status')
        PROVE  MarksInv'
    <2>1. calls = 0 => MarksOK(status')
      BY <1>3 DEF MarksInv
    <2> QED
      BY <1>3, <2>1, MarksKept
  <1>4. ASSUME NEW B, NEW f \in SUBSET Flags, calls' = calls,
               f \cap {"failed", "invalidAncestor"} = {} \/ \A b \in B : Tainted(b),
               status' = SetStatusFlags(status, B, f), disk' = FlushToDB(status')
        PROVE  MarksInv'
    <2>1. calls = 0 => MarksOK(status')
      BY <1>0, <1>4, SetMarks DEF MarksInv
    <2> QED
      BY <1>4, <2>1, MarksKept
  <1>5. ASSUME NEW t \in Threads, NEW b, NEW next, MaybeAcceptBlock(t, b, next), calls' = calls
        PROVE  MarksInv'
    BY <1>1, <1>4, <1>5 DEF MaybeAcceptBlock, Flags
  <1>6. ASSUME NEW node \in NonGenesis, NEW nodes, nodes = GetReorganizeNodes(status, node),
               NEW check,
               check = VerifyReorganization(nodes.status, nodes.detach, nodes.attach),
               status' = check.status, disk' = FlushToDB(status'), calls' = calls
        PROVE  MarksInv'
    <2>1. calls = 0 => MarksOK(status')
      BY <1>0, <1>6, PlannedMarks DEF MarksInv
    <2> QED
      BY <1>6, <2>1, MarksKept
  <1>7. ASSUME NEW t \in Threads, Call(t) PROVE MarksInv'
    <2>1. PICK b \in NonGenesis :
              \/ ProcessBlock(t, b)
              \/ RefuseDuplicate(t, b)
              \/ ProcessBlockHeader(t, b)
              \/ InvalidateSideBlock(t, b)
              \/ InvalidateChainBlock(t, b)
              \/ ReconsiderBlock(t, b)
      BY <1>7 DEF Call
    <2>2. CASE ProcessBlock(t, b)
      BY <1>1, <1>5, <2>2 DEF ProcessBlock
    <2>3. CASE RefuseDuplicate(t, b)
      BY <1>1, <2>3 DEF RefuseDuplicate, vars
    <2>4. CASE ProcessBlockHeader(t, b)
      BY <1>3, <1>4, <2>4 DEF ProcessBlockHeader, Flags
    <2>5. CASE InvalidateSideBlock(t, b) \/ InvalidateChainBlock(t, b) \/ ReconsiderBlock(t, b)
      BY <1>2, <2>5 DEF InvalidateSideBlock, InvalidateChainBlock, ReconsiderBlock
    <2> QED
      BY <2>1, <2>2, <2>3, <2>4, <2>5
  <1>8. ASSUME NEW t \in Threads, Step(t) PROVE MarksInv'
    <2>0. CallerOK(status, th[t])
      BY DEF CInv, CallersInv
    <2>1. CASE ExtendBestChain(t)
      <3>1. th[t].blk \in NonGenesis /\ th[t].blk \in Blocks
        BY <2>0, <2>1 DEF ExtendBestChain, CallerOK, NonGenesis
      <3>2. th[t].blk \in Bad => Tainted(th[t].blk)
        BY <3>1, Ancestors DEF Tainted
      <3>3. PICK v \in {"valid", "failed"} :
                /\ status' = SetStatusFlags(status, {th[t].blk}, {v})
                /\ disk' = FlushToDB(status') /\ calls' = calls
                /\ v = "failed" => th[t].blk \in Bad
        BY <2>1 DEF ExtendBestChain
      <3> QED
        BY <1>4, <3>2, <3>3 DEF Flags
    <2>2. CASE Reorganize(t)
      <3>1. th[t].blk \in NonGenesis
        BY <2>0, <2>2 DEF Reorganize, CallerOK
      <3> QED
        BY <1>6, <2>2, <3>1 DEF Reorganize
    <2>3. CASE StaySideChain(t) \/ Return(t)
      BY <1>1, <2>3 DEF StaySideChain, Return
    <2>4. CASE DisconnectBlock(t) \/ ConnectBlock(t) \/ CallDone(t)
      BY <1>3, <2>4 DEF DisconnectBlock, ConnectBlock, CallDone
    <2>5. CASE BlockConnected(t)
      BY <1>3, <1>4, <2>5 DEF BlockConnected, Flags
    <2>6. CASE ProcessOrphans(t)
      BY <1>1, <1>5, <2>6 DEF ProcessOrphans
    <2>7. CASE SwitchBranch(t)
      <3>1. \A b \in InactiveTips : b \in NonGenesis
        BY <1>0, Ancestors DEF InactiveTips, NonGenesis, Chain
      <3> DEFINE nodes(b) == GetReorganizeNodes(status, b)
                 check(b) == VerifyReorganization(nodes(b).status, nodes(b).detach,
                                                  nodes(b).attach)
      <3>2. \/ status' = status /\ disk' = FlushToDB(status)
            \/ \E b \in InactiveTips : status' = check(b).status /\ disk' = FlushToDB(status')
        BY <2>7 DEF SwitchBranch
      <3>3. calls' = calls
        BY <2>7 DEF SwitchBranch
      <3> QED
        BY <1>3, <1>6, <3>1, <3>2, <3>3
    <2> QED
      BY <1>8, <2>1, <2>2, <2>3, <2>4, <2>5, <2>6, <2>7 DEF Step
  <1>9. ASSUME Restart PROVE MarksInv'
    <2>1. /\ status' = SetStatusFlags(disk, Chain, {"valid"})
          /\ disk' = FlushToDB(status') /\ calls' = calls
      BY <1>9 DEF Restart
    <2>2. calls = 0 => MarksOK(status')
      BY <1>0, <2>1, SetMarks DEF MarksInv, Flags
    <2> QED
      BY <2>1, <2>2, MarksKept
  <1> QED
    BY <1>1, <1>7, <1>8, <1>9 DEF Next, vars

(* createChainState. *)
LEMMA InitMarks == Init => MarksInv
  BY DEF Init, MarksInv, MarksOK, KnownInvalid

(* For every tree of blocks, any number of concurrent callers and crashes  *)
(* between any two commits: as long as nobody has called InvalidateBlock   *)
(* or ReconsiderBlock, the blocks that connectBestChain,                   *)
(* getReorganizeNodes and verifyReorganizationValidity mark invalid, in    *)
(* memory and on disk, are blocks that break a rule or descend from one.   *)
THEOREM MarksAreSound == Spec => [](calls = 0 => InvalidMarksSound)
  <1>1. Init => CInv /\ MarksInv
    BY InitC, InitMarks
  <1>2. CInv /\ MarksInv /\ [Next]_vars => CInv' /\ MarksInv'
    BY StepC, StepMarks
  <1>3. MarksInv => (calls = 0 => InvalidMarksSound)
    BY DEF MarksInv, MarksOK, InvalidMarksSound, Tainted
  <1> QED
    BY <1>1, <1>2, <1>3, PTL DEF Spec

-----------------------------------------------------------------------------
(* One caller at a time. *)
OneCaller == \E t : Threads = {t}

(* The lists of caller x lead from the tip p to the block n. *)
PlanTo(x, p, n) == x.detach = Anc[p] \ Anc[n] /\ x.attach = Anc[n] \ Anc[p]

(* Between operations nothing is left to do, and inside one a caller that  *)
(* still has to attach blocks is on its way to one block.                  *)
CallerPlan(x, p) ==
    /\ x.pc # "apply" => x.detach = {} /\ x.attach = {}
    /\ x.attach # {} => \E n \in Blocks : PlanTo(x, p, n)

(* The utxo set follows the best chain, and the caller has a plan. *)
PlanInv ==
    /\ applied = Chain
    /\ \A t \in Threads : CallerPlan(th[t], tip)

(* Taking the tip off. *)
LEMMA ParentChain ==
    ASSUME NEW b \in NonGenesis
    PROVE  /\ b \in Blocks /\ Parent[b] \in Blocks /\ b \in Anc[b]
           /\ Anc[Parent[b]] = Anc[b] \ {b} /\ b \notin Anc[Parent[b]]
           /\ Height[Parent[b]] < Height[b]
  <1>1. /\ b \in Blocks /\ Parent[b] \in Blocks /\ Height[b] = Height[Parent[b]] + 1
        /\ Anc[b] = Anc[Parent[b]] \cup {b} /\ Height[Parent[b]] \in Nat
        /\ \A a \in Anc[Parent[b]] : a # Parent[b] => Height[a] < Height[Parent[b]]
    BY TreeAssumption DEF NonGenesis
  <1>2. b \notin Anc[Parent[b]]
    BY <1>1
  <1> QED
    BY <1>1, <1>2

LEMMA PlanDisconnect ==
    ASSUME NEW p \in NonGenesis, NEW n \in Blocks, p \notin Anc[n]
    PROVE  /\ (Anc[p] \ Anc[n]) \ {p} = Anc[Parent[p]] \ Anc[n]
           /\ Anc[n] \ Anc[p] = Anc[n] \ Anc[Parent[p]]
  BY ParentChain

(* With nothing left to detach, the lowest block to attach is a child of   *)
(* the tip.                                                                *)
LEMMA PlanConnect ==
    ASSUME NEW p \in Blocks, NEW n \in Blocks, Anc[p] \ Anc[n] = {},
           NEW A, A = Anc[n] \ Anc[p], A # {}
    PROVE  /\ Lowest(A) \in NonGenesis /\ Parent[Lowest(A)] = p
           /\ Lowest(A) \in A
           /\ A \ {Lowest(A)} = Anc[n] \ Anc[Lowest(A)]
           /\ Anc[Lowest(A)] \ Anc[n] = {}
  <1> DEFINE m == Lowest(A)
             q == Parent[m]
  <1>1. p \in Anc[p] /\ Genesis \in Anc[p] /\ Anc[n] \subseteq Blocks /\ p \in Anc[n]
    BY Ancestors
  <1>2. m \in A /\ \A a \in A : Height[m] <= Height[a]
    BY <1>1, LowestIn
  <1> HIDE DEF m
  <1>3. m \in NonGenesis /\ m \in Blocks /\ m \in Anc[n] /\ m \notin Anc[p]
    BY <1>1, <1>2 DEF NonGenesis
  <1>4. /\ q \in Blocks /\ Anc[q] = Anc[m] \ {m} /\ Height[q] < Height[m]
        /\ m \in Anc[m] /\ Height[m] = Height[q] + 1
    BY <1>3, ParentChain, TreeAssumption
  <1>5. q \in Anc[m] /\ Anc[m] \subseteq Anc[n] /\ q \in Anc[n]
    BY <1>3, <1>4, Ancestors, TreeAssumption
  <1>6. Height[m] \in Nat /\ Height[p] \in Nat /\ Height[q] \in Nat
    BY <1>3, <1>4, TreeAssumption
  <1>7. q \in Anc[p]
    BY <1>2, <1>4, <1>5, <1>6
  <1>8. ~(Height[m] <= Height[p])
    BY <1>1, <1>3, TreeAssumption
  <1>9. q # p => Height[q] < Height[p]
    BY <1>7, TreeAssumption
  <1>10. q = p
    BY <1>4, <1>6, <1>8, <1>9
  <1>11. Anc[m] = Anc[p] \cup {m}
    BY <1>3, <1>4, <1>10
  <1> QED
    BY <1>2, <1>3, <1>5, <1>10, <1>11 DEF m

(* A child of the tip. *)
LEMMA PlanExtend ==
    ASSUME NEW b \in NonGenesis
    PROVE  Anc[Parent[b]] \ Anc[b] = {} /\ Anc[b] \ Anc[Parent[b]] = {b}
  BY ParentChain

(* When there are blocks to detach, the tip is the first of them. *)
LEMMA PlanFirst ==
    ASSUME NEW p \in Blocks, NEW n \in Blocks, NEW D, D = Anc[p] \ Anc[n], D # {}
    PROVE  Highest(D) = p /\ p \in D
  <1>1. p \in Anc[p] /\ Anc[p] \subseteq Blocks
    BY Ancestors
  <1>2. p \in D
    BY <1>1, TreeAssumption
  <1>3. \A a \in Anc[p] : /\ a # p => Height[a] < Height[p]
                         /\ Height[a] \in Nat /\ Height[p] \in Nat
    BY <1>1, TreeAssumption
  <1>4. \A a \in D : Height[a] <= Height[p]
    BY <1>3
  <1>5. \A b \in D : (\A a \in D : Height[a] <= Height[b]) => b = p
    BY <1>2, <1>3
  <1> QED
    BY <1>2, <1>4, <1>5 DEF Highest

-----------------------------------------------------------------------------
(* A step of caller t that moves neither the tip nor the utxo set. *)
LEMMA PlanQuiet ==
    ASSUME CInv, PlanInv, UNCHANGED <<tip, applied>>, NEW t \in Threads, NEW x,
           CallerPlan(x, tip), th' = th \/ th' = [th EXCEPT ![t] = x]
    PROVE  PlanInv'
  <1>1. th \in [Threads -> ThreadStates]
    BY DEF CInv, CallersInv
  <1>2. \A u \in Threads : CallerPlan(th'[u], tip)
    BY <1>1 DEF PlanInv
  <1> QED
    BY <1>2 DEF PlanInv, Chain

LEMMA IdlePlan == \A p : CallerPlan(Idle, p)
  BY DEF CallerPlan, Idle

LEMMA AcceptPlan ==
    ASSUME CInv, PlanInv, UNCHANGED <<tip, applied>>, NEW t \in Threads,
           NEW b \in NonGenesis, NEW next \in ThreadStates,
           next.detach = {}, next.attach = {}, MaybeAcceptBlock(t, b, next)
    PROVE  PlanInv'
  <1> DEFINE x == [next EXCEPT !.pc = "connect", !.blk = b]
  <1>1. x.detach = {} /\ x.attach = {}
    BY DEF ThreadStates
  <1>2. th' = [th EXCEPT ![t] = Idle] \/ th' = [th EXCEPT ![t] = x]
    BY DEF MaybeAcceptBlock, Finish
  <1>3. CallerPlan(x, tip)
    BY <1>1 DEF CallerPlan
  <1> QED
    BY <1>2, <1>3, IdlePlan, PlanQuiet

LEMMA AcceptedPlan ==
    ASSUME CInv, PlanInv, UNCHANGED <<tip, applied>>, NEW t \in Threads,
           NEW main, Accepted(t, main)
    PROVE  PlanInv'
  <1> DEFINE q == Append(th[t].queue, th[t].blk)
             m == IF th[t].blk = th[t].first THEN main ELSE th[t].main
             x == [th[t] EXCEPT !.pc = "orphans", !.extend = FALSE, !.queue = q,
                                !.main = m, !.detach = {}, !.attach = {}]
  <1>1. th' = [th EXCEPT ![t] = x] /\ th[t] \in ThreadStates
    BY DEF Accepted, CInv, CallersInv
  <1> HIDE DEF q, m
  <1>2. x.detach = {} /\ x.attach = {}
    BY <1>1 DEF ThreadStates
  <1>3. CallerPlan(x, tip)
    BY <1>2 DEF CallerPlan
  <1> QED
    BY <1>1, <1>3, PlanQuiet

(* A verified plan, or nothing to do. *)
LEMMA PlannedPlan ==
    ASSUME NEW s, NEW node \in Blocks, NEW nodes, nodes = GetReorganizeNodes(s, node),
           NEW x, x.pc = "apply", x.detach = nodes.detach, x.attach = nodes.attach
    PROVE  CallerPlan(x, tip)
  BY PlanShape DEF CallerPlan, PlanTo, Chain

LEMMA ExtendPlan ==
    ASSUME CInv, PlanInv, NEW t \in Threads, ExtendBestChain(t)
    PROVE  PlanInv'
  <1> DEFINE b == th[t].blk
             x == [th[t] EXCEPT !.pc = "apply", !.extend = TRUE, !.attach = {b}]
  <1>1. /\ UNCHANGED <<tip, applied>> /\ th[t].pc = "connect" /\ Parent[b] = tip
        /\ th' = [th EXCEPT ![t] = Idle] \/ th' = [th EXCEPT ![t] = x]
    BY DEF ExtendBestChain, Finish, CInv, CallersInv
  <1>2. th[t] \in ThreadStates /\ b \in NonGenesis /\ th[t].detach = {}
    BY <1>1 DEF CInv, CallersInv, CallerOK, PlanInv, CallerPlan
  <1>3. x.detach = {} /\ x.attach = {b} /\ x.pc = "apply"
    BY <1>2 DEF ThreadStates
  <1>4. PlanTo(x, tip, b) /\ b \in Blocks
    BY <1>1, <1>2, <1>3, PlanExtend DEF PlanTo, NonGenesis
  <1>5. CallerPlan(x, tip)
    BY <1>3, <1>4 DEF CallerPlan
  <1> QED
    BY <1>1, <1>5, IdlePlan, PlanQuiet

LEMMA ReorganizePlan ==
    ASSUME CInv, PlanInv, NEW t \in Threads, Reorganize(t)
    PROVE  PlanInv'
  <1> DEFINE nodes == GetReorganizeNodes(status, th[t].blk)
             x == [th[t] EXCEPT !.pc = "apply", !.detach = nodes.detach,
                                !.attach = nodes.attach]
  <1>1. /\ UNCHANGED <<tip, applied>> /\ th[t].pc = "connect"
        /\ th' = [th EXCEPT ![t] = Idle] \/ th' = [th EXCEPT ![t] = x]
    BY DEF Reorganize, Finish
  <1>2. th[t] \in ThreadStates /\ th[t].blk \in Blocks
    BY <1>1 DEF CInv, CallersInv, CallerOK, NonGenesis
  <1> HIDE DEF nodes
  <1>3. x.detach = nodes.detach /\ x.attach = nodes.attach /\ x.pc = "apply"
    BY <1>2 DEF ThreadStates
  <1> HIDE DEF x
  <1>4. CallerPlan(x, tip)
    BY <1>2, <1>3, PlannedPlan DEF nodes
  <1> QED
    BY <1>1, <1>4, IdlePlan, PlanQuiet

LEMMA SwitchPlan ==
    ASSUME CInv, PlanInv, NEW t \in Threads, SwitchBranch(t)
    PROVE  PlanInv'
  <1> DEFINE nodes(b) == GetReorganizeNodes(status, b)
             x(b) == [th[t] EXCEPT !.op = "switch", !.detach = nodes(b).detach,
                                   !.attach = nodes(b).attach]
  <1>1. UNCHANGED <<tip, applied>> /\ th[t].pc = "apply" /\ th[t] \in ThreadStates
    BY DEF SwitchBranch, CInv, CallersInv
  <1>2. \/ th' = [th EXCEPT ![t] = Idle]
        \/ \E b \in InactiveTips : th' = [th EXCEPT ![t] = x(b)]
    BY DEF SwitchBranch, Finish
  <1>3. \A b \in InactiveTips : b \in Blocks
    BY DEF InactiveTips
  <1>4. \A b \in InactiveTips : CallerPlan(x(b), tip)
    <2> SUFFICES ASSUME NEW b \in InactiveTips PROVE CallerPlan(x(b), tip)
      OBVIOUS
    <2> HIDE DEF nodes
    <2>1. x(b).detach = nodes(b).detach /\ x(b).attach = nodes(b).attach /\ x(b).pc = "apply"
      BY <1>1 DEF ThreadStates
    <2> HIDE DEF x
    <2> QED
      BY <1>3, <2>1, PlannedPlan DEF nodes
  <1> QED
    BY <1>1, <1>2, <1>4, IdlePlan, PlanQuiet

LEMMA ReconsiderPlan ==
    ASSUME CInv, PlanInv, NEW t \in Threads, NEW b \in NonGenesis, ReconsiderBlock(t, b)
    PROVE  PlanInv'
  <1> DEFINE one == UnsetStatusFlags(status, {b}, {"invalidAncestor", "failed"})
             cleared == UnsetStatusFlags(one, IndexDescendants(b), {"invalidAncestor"})
             nodes(n) == GetReorganizeNodes(cleared, n)
             x(n) == [Idle EXCEPT !.pc = "apply", !.op = "reconsider", !.blk = b,
                                  !.detach = nodes(n).detach, !.attach = nodes(n).attach]
  <1>1. UNCHANGED <<tip, applied>> /\ tip \in Blocks
    BY DEF ReconsiderBlock, CInv, ChainInv
  <1>2. \/ th' = th
        \/ \E n \in InactiveTips \cup {tip} : th' = [th EXCEPT ![t] = x(n)]
    BY DEF ReconsiderBlock
  <1>3. \A n \in InactiveTips \cup {tip} : n \in Blocks
    BY <1>1 DEF InactiveTips
  <1>4. \A n \in InactiveTips \cup {tip} : CallerPlan(x(n), tip)
    <2> SUFFICES ASSUME NEW n \in InactiveTips \cup {tip} PROVE CallerPlan(x(n), tip)
      OBVIOUS
    <2> HIDE DEF nodes
    <2>1. x(n).detach = nodes(n).detach /\ x(n).attach = nodes(n).attach /\ x(n).pc = "apply"
      BY DEF Idle
    <2> HIDE DEF x
    <2> QED
      BY <1>3, <2>1, PlannedPlan DEF nodes
  <1> QED
    BY <1>1, <1>2, <1>4, IdlePlan, PlanQuiet

LEMMA InvalidateChainPlan ==
    ASSUME CInv, PlanInv, NEW t \in Threads, NEW b \in NonGenesis, InvalidateChainBlock(t, b)
    PROVE  PlanInv'
  <1> DEFINE detach == {d \in Chain \ Anc[b] : ~KnownInvalid(status, d)} \cup {b}
             x == [Idle EXCEPT !.pc = "apply", !.op = "invalidate", !.blk = b,
                               !.detach = detach]
  <1>1. /\ UNCHANGED <<tip, applied>>
        /\ th' = th \/ th' = [th EXCEPT ![t] = x]
    BY DEF InvalidateChainBlock
  <1> HIDE DEF detach
  <1>2. x.attach = {} /\ x.pc = "apply"
    BY DEF Idle
  <1>3. CallerPlan(x, tip)
    BY <1>2 DEF CallerPlan
  <1> QED
    BY <1>1, <1>3, PlanQuiet

(* disconnectBlock takes the tip off the chain and off the utxo set, and   *)
(* what is left to do is still the way from the new tip.                   *)
LEMMA DisconnectPlan ==
    ASSUME CInv, PlanInv, OneCaller, NEW t \in Threads, DisconnectBlock(t)
    PROVE  PlanInv'
  <1> DEFINE n == Highest(th[t].detach)
             x == [th[t] EXCEPT !.detach = th[t].detach \ {n}]
  <1>0. /\ CallerOK(status, th[t]) /\ th[t] \in ThreadStates /\ tip \in Blocks
        /\ th \in [Threads -> ThreadStates] /\ CallerPlan(th[t], tip) /\ applied = Anc[tip]
    BY DEF CInv, CallersInv, ChainInv, PlanInv, Chain
  <1>1. /\ th[t].detach # {} /\ th[t].pc = "apply"
        /\ \/ /\ n = tip /\ tip' = Parent[n] /\ applied' = applied \ {n}
              /\ th' = [th EXCEPT ![t] = x]
           \/ th' = [th EXCEPT ![t] = Idle] /\ UNCHANGED <<tip, applied>>
    BY DEF DisconnectBlock, Finish
  <1>2. CASE th' = [th EXCEPT ![t] = Idle] /\ UNCHANGED <<tip, applied>>
    BY <1>2, IdlePlan, PlanQuiet
  <1>3. CASE n = tip /\ tip' = Parent[n] /\ applied' = applied \ {n} /\ th' = [th EXCEPT ![t] = x]
    <2>1. PICK d \in Blocks : th[t].detach \subseteq Anc[d] \ {Genesis}
      BY <1>0 DEF CallerOK
    <2>2. n \in th[t].detach
      <3>1. th[t].detach \subseteq Anc[d]
        BY <2>1
      <3> HIDE DEF n
      <3> QED
        BY <1>1, <3>1, HighestIn DEF n
    <2>3. tip \in NonGenesis
      BY <1>0, <1>3, <2>1, <2>2 DEF NonGenesis
    <2>4. applied' = Anc[tip']
      BY <1>0, <1>3, <2>3, ParentChain
    <2>5. x.detach = th[t].detach \ {tip} /\ x.attach = th[t].attach /\ x.pc = "apply"
      <3> HIDE DEF n
      <3> QED
        BY <1>0, <1>1, <1>3 DEF ThreadStates
    <2>6. CallerPlan(x, tip')
      <3> HIDE DEF x, n
      <3>1. CASE th[t].attach = {}
        BY <2>5, <3>1 DEF CallerPlan
      <3>2. CASE th[t].attach # {}
        <4>1. PICK m \in Blocks : PlanTo(th[t], tip, m)
          BY <1>0, <3>2 DEF CallerPlan
        <4>2. tip \notin Anc[m]
          BY <1>3, <2>2, <4>1 DEF PlanTo
        <4>3. PlanTo(x, tip', m)
          BY <1>3, <2>3, <2>5, <4>1, <4>2, PlanDisconnect DEF PlanTo
        <4> QED
          BY <2>5, <4>3 DEF CallerPlan
      <3> QED
        BY <3>1, <3>2
    <2>7. \A u \in Threads : th'[u] = x
      BY <1>0, <1>3 DEF OneCaller
    <2> QED
      BY <2>4, <2>6, <2>7 DEF PlanInv, Chain
  <1> QED
    BY <1>1, <1>2, <1>3

(* connectBlock always finds that the block extends the tip. *)
LEMMA ConnectPlan ==
    ASSUME CInv, PlanInv, OneCaller, NEW t \in Threads, ConnectBlock(t)
    PROVE  PlanInv'
  <1> DEFINE n == Lowest(th[t].attach)
             x == [th[t] EXCEPT !.attach = th[t].attach \ {n}]
  <1>0. /\ th[t] \in ThreadStates /\ tip \in Blocks
        /\ th \in [Threads -> ThreadStates] /\ CallerPlan(th[t], tip) /\ applied = Anc[tip]
    BY DEF CInv, CallersInv, ChainInv, PlanInv, Chain
  <1>1. /\ th[t].detach = {} /\ th[t].attach # {} /\ th[t].pc = "apply"
        /\ applied' = applied \cup {n}
        /\ Parent[n] = tip => tip' = n /\ th' = [th EXCEPT ![t] = x]
    BY DEF ConnectBlock
  <1>2. PICK m \in Blocks : PlanTo(th[t], tip, m)
    BY <1>0, <1>1 DEF CallerPlan
  <1>3. /\ n \in NonGenesis /\ Parent[n] = tip
        /\ th[t].attach \ {n} = Anc[m] \ Anc[n] /\ Anc[n] \ Anc[m] = {}
    BY <1>0, <1>1, <1>2, PlanConnect DEF PlanTo
  <1> HIDE DEF n
  <1>4. tip' = n /\ th' = [th EXCEPT ![t] = x]
    BY <1>1, <1>3
  <1>5. applied' = Anc[tip']
    BY <1>0, <1>1, <1>3, <1>4, TreeAssumption
  <1>6. x.detach = {} /\ x.attach = th[t].attach \ {n} /\ x.pc = "apply"
    BY <1>0, <1>1 DEF ThreadStates
  <1>7. PlanTo(x, tip', m)
    BY <1>3, <1>4, <1>6 DEF PlanTo
  <1>8. CallerPlan(x, tip')
    BY <1>6, <1>7 DEF CallerPlan
  <1>9. \A u \in Threads : th'[u] = x
    BY <1>0, <1>4 DEF OneCaller
  <1> QED
    BY <1>5, <1>8, <1>9 DEF PlanInv, Chain

LEMMA StepPlan ==
    ASSUME CInv, PlanInv, OneCaller, [Next]_vars
    PROVE  PlanInv'
  <1>1. ASSUME UNCHANGED <<tip, applied, th>> PROVE PlanInv'
    BY <1>1 DEF PlanInv, Chain, CallerPlan, PlanTo
  <1>2. ASSUME NEW t \in Threads, Call(t) PROVE PlanInv'
    <2>1. PICK b \in NonGenesis :
              \/ ProcessBlock(t, b)
              \/ RefuseDuplicate(t, b)
              \/ ProcessBlockHeader(t, b)
              \/ InvalidateSideBlock(t, b)
              \/ InvalidateChainBlock(t, b)
              \/ ReconsiderBlock(t, b)
      BY <1>2 DEF Call
    <2>2. CASE ProcessBlock(t, b)
      <3>1. UNCHANGED <<tip, applied>>
        BY <2>2 DEF ProcessBlock
      <3>2. CASE ~HaveData(status, Parent[b])
        BY <1>1, <2>2, <3>1, <3>2 DEF ProcessBlock
      <3>3. CASE HaveData(status, Parent[b])
        <4> DEFINE next == [Idle EXCEPT !.first = b]
        <4>1. MaybeAcceptBlock(t, b, next)
          BY <2>2, <3>3 DEF ProcessBlock
        <4>2. Idle \in ThreadStates /\ b \in Blocks
          BY IdleOK DEF CallerOK, NonGenesis
        <4>3. next \in ThreadStates
          BY <4>2 DEF ThreadStates
        <4>4. next.detach = {} /\ next.attach = {}
          BY DEF Idle
        <4> QED
          BY <3>1, <4>1, <4>3, <4>4, AcceptPlan
      <3> QED
        BY <3>2, <3>3
    <2>3. CASE RefuseDuplicate(t, b)
      BY <1>1, <2>3 DEF RefuseDuplicate, vars
    <2>4. CASE ProcessBlockHeader(t, b) \/ InvalidateSideBlock(t, b)
      BY <1>1, <2>4 DEF ProcessBlockHeader, InvalidateSideBlock
    <2> QED
      BY <2>1, <2>2, <2>3, <2>4, InvalidateChainPlan, ReconsiderPlan
  <1>3. ASSUME NEW t \in Threads, Step(t) PROVE PlanInv'
    <2>0. th[t] \in ThreadStates /\ CallerPlan(th[t], tip)
      BY DEF CInv, CallersInv, PlanInv
    <2>1. CASE StaySideChain(t) \/ BlockConnected(t)
      BY <2>1, AcceptedPlan DEF StaySideChain, BlockConnected
    <2>2. CASE Return(t) \/ CallDone(t)
      BY <2>2, IdlePlan, PlanQuiet DEF Return, CallDone, Finish
    <2>3. CASE ProcessOrphans(t)
      <3> DEFINE h == Head(th[t].queue)
                 ready == {i \in DOMAIN orphans : Parent[orphans[i]] = h}
                 j == CHOOSE i \in ready : \A k \in ready : i <= k
                 x == [th[t] EXCEPT !.queue = Tail(th[t].queue)]
      <3>0. /\ UNCHANGED <<tip, applied>> /\ th[t].pc = "orphans"
            /\ th[t].detach = {} /\ th[t].attach = {} /\ orphans \in Seq(NonGenesis)
        BY <2>0, <2>3 DEF ProcessOrphans, CallerPlan, CInv, RestInv
      <3>1. CASE ready = {}
        <4>1. th' = [th EXCEPT ![t] = x]
          BY <2>3, <3>1 DEF ProcessOrphans
        <4>2. x.detach = {} /\ x.attach = {}
          BY <2>0, <3>0 DEF ThreadStates
        <4>3. CallerPlan(x, tip)
          BY <4>2 DEF CallerPlan
        <4> QED
          BY <3>0, <4>1, <4>3, PlanQuiet
      <3>2. CASE ready # {}
        <4>1. MaybeAcceptBlock(t, orphans[j], th[t])
          BY <2>3, <3>2 DEF ProcessOrphans
        <4>2. j \in ready
          <5>1. ready \subseteq Nat
            BY <3>0
          <5>2. \E i \in ready : \A k \in ready : i <= k
            <6> HIDE DEF ready
            <6> QED
              BY <3>2, <5>1, NatMin
          <5> QED
            BY <5>2
        <4>3. orphans[j] \in NonGenesis
          BY <3>0, <4>2
        <4> HIDE DEF j
        <4> QED
          BY <2>0, <3>0, <4>1, <4>3, AcceptPlan
      <3> QED
        BY <3>1, <3>2
    <2> QED
      BY <1>3, <2>1, <2>2, <2>3, ExtendPlan, ReorganizePlan, DisconnectPlan, ConnectPlan,
         SwitchPlan DEF Step
  <1>4. ASSUME Restart PROVE PlanInv'
    BY <1>4, IdlePlan DEF Restart, PlanInv, Chain
  <1> QED
    BY <1>1, <1>2, <1>3, <1>4 DEF Next, vars

(* createChainState. *)
LEMMA InitPlan == Init => PlanInv
  BY IdlePlan, TreeAssumption DEF Init, PlanInv, Chain

(* With one caller at a time, whatever it calls and wherever the process   *)
(* crashes, on every tree of blocks: the utxo set reflects exactly the     *)
(* blocks of the best chain after every step of reorganizeChain, so        *)
(* connectBlock never finds that a block it was told to attach does not    *)
(* extend the tip.                                                         *)
THEOREM UtxosFollowChain ==
    ASSUME OneCaller
    PROVE  Spec => []AppliedIsChain
  <1>1. Init => CInv /\ PlanInv
    BY InitC, InitPlan
  <1>2. CInv /\ PlanInv /\ [Next]_vars => CInv' /\ PlanInv'
    BY StepC, StepPlan
  <1>3. PlanInv => AppliedIsChain
    BY DEF PlanInv, AppliedIsChain
  <1> QED
    BY <1>1, <1>2, <1>3, PTL DEF Spec

-----------------------------------------------------------------------------
(* No stored branch of good blocks has more work than p, except perhaps    *)
(* the one that ends in c.                                                 *)
Bounded(s, p) ==
    \A b \in Blocks : HaveData(s, b) /\ ~Tainted(b) => Work[b] <= Work[p]
BoundedBut(s, p, c) ==
    \A b \in Blocks : HaveData(s, b) /\ ~Tainted(b) /\ b # c => Work[b] <= Work[p]

(* Between blocks the tip p has the most work; when a block has just been  *)
(* stored, only it may have more; inside reorganizeChain either nothing is *)
(* to be done or the caller is on its way to that block, which has.        *)
CallerSelect(s, x, p) ==
    /\ x.pc \in {"idle", "orphans"} => Bounded(s, p)
    /\ x.pc = "connect" => BoundedBut(s, p, x.blk)
    /\ x.pc = "apply" =>
          \/ x.detach = {} /\ x.attach = {} /\ Bounded(s, p)
          \/ PlanTo(x, p, x.blk) /\ Bounded(s, x.blk)

SelectInv ==
    calls = 0 =>
        \A t \in Threads : /\ th[t].op = "block"
                           /\ crashes = 0 => CallerSelect(status, th[t], tip)

(* Every ancestor of a stored block is stored: the highest that were not   *)
(* would be the parent of one that is.                                     *)
LEMMA AncestorsStored ==
    ASSUME IndexInv, NEW b \in Blocks, HaveData(status, b), NEW a \in Anc[b]
    PROVE  HaveData(status, a)
  <1> DEFINE M == {c \in Anc[b] : ~HaveData(status, c)}
  <1> SUFFICES ASSUME M # {} PROVE FALSE
    OBVIOUS
  <1>2. PICK m \in M : \A c \in M : Height[c] <= Height[m]
    <2> DEFINE gap(c) == Height[b] - Height[c]
               gs == {gap(c) : c \in M}
    <2>1. \A c \in M : c \in Blocks /\ Height[c] \in Nat /\ Height[b] \in Nat
                       /\ Height[c] <= Height[b]
      BY TreeAssumption
    <2>2. gs \subseteq Nat /\ gs # {}
      BY <2>1
    <2>3. PICK k \in gs : \A l \in gs : k <= l
      BY <2>2, NatMin
    <2>4. PICK c \in M : gap(c) = k
      BY <2>3
    <2>5. \A d \in M : gap(c) <= gap(d)
      BY <2>3, <2>4
    <2> QED
      BY <2>1, <2>5
  <1>3. m \in Blocks /\ m \in Anc[b] /\ m # b /\ Anc[m] \subseteq Anc[b] /\ b \in Anc[b]
    BY Ancestors, TreeAssumption
  <1> DEFINE A == Anc[b] \ Anc[m]
             c == Lowest(A)
  <1>4. b \in A
    BY <1>3, TreeAssumption
  <1>5. c \in NonGenesis /\ Parent[c] = m /\ c \in A /\ Anc[m] \ Anc[b] = {}
    BY <1>3, <1>4, PlanConnect
  <1> HIDE DEF c
  <1>6. c \in Blocks /\ Height[c] = Height[m] + 1 /\ Height[m] \in Nat
    BY <1>3, <1>5, TreeAssumption DEF NonGenesis
  <1>7. c \notin M
    BY <1>2, <1>6
  <1>8. HaveData(status, c)
    BY <1>5, <1>7
  <1>9. HaveData(status, m)
    BY <1>5, <1>8 DEF IndexInv
  <1> QED
    BY <1>9

LEMMA FlagsKeepData ==
    ASSUME NEW s, NEW B, NEW f, "data" \notin f
    PROVE  SameData(s, SetStatusFlags(s, B, f))
  BY DEF SameData, SetStatusFlags, HaveData

LEMMA BoundedSame ==
    ASSUME NEW s, NEW r, SameData(s, r)
    PROVE  /\ \A p : Bounded(s, p) => Bounded(r, p)
           /\ \A p, c : BoundedBut(s, p, c) => BoundedBut(r, p, c)
  BY DEF SameData, Bounded, BoundedBut

LEMMA SelectSame ==
    ASSUME NEW s, NEW r, SameData(s, r), NEW x, NEW p, CallerSelect(s, x, p)
    PROVE  CallerSelect(r, x, p)
  BY BoundedSame DEF CallerSelect

(* Nothing is left to do exactly when the tip is the block. *)
LEMMA PlanDone ==
    ASSUME NEW p \in Blocks, NEW n \in Blocks, Anc[p] \ Anc[n] = {}, Anc[n] \ Anc[p] = {}
    PROVE  p = n
  <1>1. p \in Anc[n] /\ n \in Anc[p] /\ Height[p] \in Nat /\ Height[n] \in Nat
    BY Ancestors, TreeAssumption
  <1>2. p # n => Height[p] < Height[n] /\ Height[n] < Height[p]
    BY <1>1, TreeAssumption
  <1> QED
    BY <1>1, <1>2

(* A step after which the caller is in state x. *)
LEMMA SelectMove ==
    ASSUME OneCaller, CInv, NEW t \in Threads, NEW x, th' = [th EXCEPT ![t] = x],
           x.op = "block", crashes' = crashes,
           crashes = 0 => CallerSelect(status', x, tip')
    PROVE  SelectInv'
  <1>1. \A u \in Threads : th'[u] = x
    BY DEF OneCaller, CInv, CallersInv
  <1> QED
    BY <1>1 DEF SelectInv

(* What is known of the caller of a step. *)
LEMMA SelectNow ==
    ASSUME CInv, SelectInv, calls = 0, NEW t \in Threads
    PROVE  /\ th[t] \in ThreadStates /\ th[t].op = "block" /\ tip \in Blocks
           /\ CallerOK(status, th[t]) /\ StatusOK(status)
           /\ crashes = 0 => CallerSelect(status, th[t], tip)
  BY DEF CInv, CallersInv, ChainInv, IndexInv, SelectInv

LEMMA IdleSelect ==
    /\ Idle.op = "block"
    /\ \A s, p : Bounded(s, p) => CallerSelect(s, Idle, p)
  BY DEF Idle, CallerSelect

(* maybeAcceptBlock: only the new block may now have more work. *)
LEMMA AcceptSelect ==
    ASSUME OneCaller, CInv, NEW t \in Threads, NEW b \in NonGenesis,
           NEW next \in ThreadStates, next.op = "block",
           crashes = 0 => Bounded(status, tip),
           UNCHANGED <<tip, crashes>>, MaybeAcceptBlock(t, b, next)
    PROVE  SelectInv'
  <1> DEFINE x == [next EXCEPT !.pc = "connect", !.blk = b]
  <1>1. CASE th' = [th EXCEPT ![t] = Idle] /\ status' = status
    BY <1>1, IdleSelect, SelectMove
  <1>2. CASE /\ th' = [th EXCEPT ![t] = x]
             /\ status' = SetStatusFlags(status, {b}, {"data", "header"})
    <2>1. x.op = "block" /\ x.pc = "connect" /\ x.blk = b
      BY DEF ThreadStates
    <2>2. \A c \in Blocks : c # b /\ HaveData(status', c) => HaveData(status, c)
      BY <1>2 DEF SetStatusFlags, HaveData
    <2>3. crashes = 0 => BoundedBut(status', tip, b)
      BY <2>2 DEF Bounded, BoundedBut
    <2>4. crashes = 0 => CallerSelect(status', x, tip')
      BY <2>1, <2>3 DEF CallerSelect
    <2> QED
      BY <1>2, <2>1, <2>4, SelectMove
  <1> QED
    BY <1>1, <1>2 DEF MaybeAcceptBlock, Finish

(* The end of maybeAcceptBlock. *)
LEMMA AcceptedSelect ==
    ASSUME OneCaller, CInv, NEW t \in Threads, th[t] \in ThreadStates, th[t].op = "block",
           NEW main, Accepted(t, main), crashes' = crashes,
           crashes = 0 => Bounded(status', tip')
    PROVE  SelectInv'
  <1> DEFINE q == Append(th[t].queue, th[t].blk)
             m == IF th[t].blk = th[t].first THEN main ELSE th[t].main
             x == [th[t] EXCEPT !.pc = "orphans", !.extend = FALSE, !.queue = q,
                                !.main = m, !.detach = {}, !.attach = {}]
  <1>1. th' = [th EXCEPT ![t] = x]
    BY DEF Accepted
  <1> HIDE DEF q, m
  <1>2. x.op = "block" /\ x.pc = "orphans"
    BY DEF ThreadStates
  <1>3. crashes = 0 => CallerSelect(status', x, tip')
    BY <1>2 DEF CallerSelect
  <1> QED
    BY <1>1, <1>2, <1>3, SelectMove

LEMMA ExtendSelect ==
    ASSUME OneCaller, CInv, PlanInv, SelectInv, calls = 0, NEW t \in Threads, ExtendBestChain(t)
    PROVE  SelectInv'
  <1> DEFINE b == th[t].blk
             valid == KnownValid(status, b) \/ b \notin Bad
             x == [th[t] EXCEPT !.pc = "apply", !.extend = TRUE, !.attach = {b}]
  <1>0. /\ th[t] \in ThreadStates /\ th[t].op = "block" /\ tip \in Blocks
        /\ CallerOK(status, th[t])
        /\ crashes = 0 => CallerSelect(status, th[t], tip)
    BY SelectNow
  <1>1. /\ UNCHANGED <<tip, crashes>> /\ th[t].pc = "connect" /\ Parent[b] = tip
        /\ \/ ~valid /\ th' = [th EXCEPT ![t] = Idle]
           \/ th' = [th EXCEPT ![t] = x]
        /\ \E f \in {"valid", "failed"} : status' = SetStatusFlags(status, {b}, {f})
    BY <1>0 DEF ExtendBestChain, Finish, CInv, CallersInv
  <1>2. b \in NonGenesis /\ b \in Blocks
    BY <1>0, <1>1 DEF CallerOK, NonGenesis
  <1>3. SameData(status, status')
    BY <1>1, FlagsKeepData
  <1>4. crashes = 0 => BoundedBut(status, tip, b)
    BY <1>0, <1>1 DEF CallerSelect
  <1>5. CASE ~valid /\ th' = [th EXCEPT ![t] = Idle]
    <2>1. Tainted(b)
      BY <1>2, <1>5, Ancestors DEF Tainted
    <2>2. crashes = 0 => Bounded(status, tip)
      BY <1>4, <2>1 DEF Bounded, BoundedBut
    <2>3. crashes = 0 => Bounded(status', tip')
      BY <1>1, <1>3, <2>2, BoundedSame
    <2> QED
      BY <1>1, <1>5, <2>3, IdleSelect, SelectMove
  <1>6. CASE th' = [th EXCEPT ![t] = x]
    <2>1. x.op = "block" /\ x.pc = "apply" /\ x.attach = {b} /\ x.detach = th[t].detach
          /\ x.blk = b
      BY <1>0 DEF ThreadStates
    <2>2. Work[tip] < Work[b] /\ Work \in [Blocks -> Nat]
      BY <1>1, <1>2, ChainAssumption
    <2>3. crashes = 0 => Bounded(status, b)
      <3> SUFFICES ASSUME crashes = 0, NEW c \in Blocks, HaveData(status, c), ~Tainted(c)
                   PROVE  Work[c] <= Work[b]
        BY DEF Bounded
      <3>1. c # b => Work[c] <= Work[tip]
        BY <1>4 DEF BoundedBut
      <3> QED
        BY <1>0, <1>2, <2>2, <3>1
    <2>4. th[t].detach = {}
      BY <1>1 DEF PlanInv, CallerPlan
    <2>5. PlanTo(x, tip, b)
      BY <1>1, <1>2, <2>1, <2>4, PlanExtend DEF PlanTo
    <2>6. crashes = 0 => Bounded(status', b)
      BY <1>3, <2>3, BoundedSame
    <2> HIDE DEF x
    <2>7. crashes = 0 => CallerSelect(status', x, tip')
      BY <1>1, <2>1, <2>5, <2>6 DEF CallerSelect
    <2> QED
      BY <1>1, <1>6, <2>1, <2>7, SelectMove
  <1> QED
    BY <1>1, <1>5, <1>6

LEMMA StaySelect ==
    ASSUME OneCaller, CInv, SelectInv, calls = 0, NEW t \in Threads, StaySideChain(t)
    PROVE  SelectInv'
  <1>0. /\ th[t] \in ThreadStates /\ th[t].op = "block"
        /\ crashes = 0 => CallerSelect(status, th[t], tip)
    BY SelectNow
  <1>1. /\ UNCHANGED <<status, tip, crashes>> /\ th[t].pc = "connect"
        /\ Work[th[t].blk] <= Work[tip] /\ Accepted(t, FALSE)
    BY DEF StaySideChain
  <1>2. crashes = 0 => Bounded(status, tip)
    BY <1>0, <1>1 DEF CallerSelect, Bounded, BoundedBut
  <1> QED
    BY <1>0, <1>1, <1>2, AcceptedSelect

(* verifyReorganizationValidity refuses a plan to a stored block only when *)
(* a block of its branch violates a rule.                                  *)
LEMMA RefusedTainted ==
    ASSUME CInv, NEW b \in Blocks, HaveData(status, b),
           NEW detach, detach = Chain \ Anc[b], NEW attach, attach = Anc[b] \ Chain,
           ~VerifyReorganization(status, detach, attach).ok
    PROVE  Tainted(b)
  <1>1. tip \in Blocks
    BY DEF CInv, ChainInv
  <1>2. ~(detach # {} /\ Highest(detach) # tip)
    BY <1>1, PlanFirst DEF Chain
  <1>3. PICK n \in attach : Stops(status, n)
    BY <1>2 DEF VerifyReorganization
  <1>4. HaveData(status, n)
    BY <1>3, AncestorsStored DEF CInv
  <1>5. n \in Bad /\ n \in Anc[b]
    BY <1>3, <1>4 DEF Stops
  <1> QED
    BY <1>5 DEF Tainted

LEMMA ReorganizeSelect ==
    ASSUME OneCaller, CInv, MarksInv, SelectInv, calls = 0,
           NEW t \in Threads, Reorganize(t)
    PROVE  SelectInv'
  <1> DEFINE b == th[t].blk
             nodes == GetReorganizeNodes(status, b)
             check == VerifyReorganization(nodes.status, nodes.detach, nodes.attach)
             x == [th[t] EXCEPT !.pc = "apply", !.detach = nodes.detach,
                                !.attach = nodes.attach]
  <1>0. /\ th[t] \in ThreadStates /\ th[t].op = "block" /\ tip \in Blocks
        /\ CallerOK(status, th[t])
        /\ crashes = 0 => CallerSelect(status, th[t], tip)
        /\ StatusOK(status) /\ SameData(status, status)
    BY SelectNow DEF SameData
  <1>1. /\ UNCHANGED <<tip, crashes>> /\ th[t].pc = "connect" /\ Work[b] > Work[tip]
        /\ status' = check.status
        /\ \/ ~check.ok /\ th' = [th EXCEPT ![t] = Idle]
           \/ check.ok /\ th' = [th EXCEPT ![t] = x]
    BY DEF Reorganize, Finish
  <1>2. b \in NonGenesis /\ b \in Blocks /\ HaveData(status, b)
    BY <1>0, <1>1 DEF CallerOK, NonGenesis
  <1>3. \/ /\ nodes.status = status
           /\ nodes.detach = Chain \ Anc[b]
           /\ nodes.attach = Anc[b] \ Chain
        \/ /\ nodes.detach = {} /\ nodes.attach = {}
           /\ Tainted(b)
    <2> HIDE DEF b, nodes
    <2>1. MarksOK(status)
      BY DEF MarksInv
    <2>2. (KnownInvalid(status, Parent[b]) \/ \E n \in Anc[b] \ Chain : KnownInvalid(status, n))
          => Tainted(b)
      BY <1>2, <2>1, NothingTainted
    <2> QED
      BY <2>2, PlanShape DEF nodes
  <1> HIDE DEF nodes, check
  <1>4. SameData(status, status')
    BY <1>0, <1>1, <1>2, PlannedOK DEF nodes, check
  <1>5. crashes = 0 => BoundedBut(status, tip, b)
    BY <1>0, <1>1 DEF CallerSelect
  <1>6. Tainted(b) /\ crashes = 0 => Bounded(status', tip)
    <2>1. Tainted(b) /\ crashes = 0 => Bounded(status, tip)
      BY <1>5 DEF Bounded, BoundedBut
    <2> QED
      BY <1>4, <2>1, BoundedSame
  <1>7. CASE ~check.ok /\ th' = [th EXCEPT ![t] = Idle]
    <2>1. Tainted(b)
      BY <1>2, <1>3, <1>7, RefusedTainted DEF check
    <2> QED
      BY <1>1, <1>6, <1>7, <2>1, IdleSelect, SelectMove
  <1>8. CASE check.ok /\ th' = [th EXCEPT ![t] = x]
    <2>1. /\ x.op = "block" /\ x.pc = "apply" /\ x.blk = b
          /\ x.attach = nodes.attach /\ x.detach = nodes.detach
      BY <1>0 DEF ThreadStates
    <2> HIDE DEF x
    <2>2. crashes = 0 => CallerSelect(status', x, tip')
      <3>1. CASE nodes.detach = {} /\ nodes.attach = {} /\ Tainted(b)
        BY <1>1, <1>6, <2>1, <3>1 DEF CallerSelect
      <3>2. CASE nodes.detach = Chain \ Anc[b] /\ nodes.attach = Anc[b] \ Chain
        <4>1. PlanTo(x, tip, b)
          BY <2>1, <3>2 DEF PlanTo, Chain
        <4>2. Work \in [Blocks -> Nat]
          BY ChainAssumption
        <4>3. crashes = 0 => Bounded(status, b)
          <5> SUFFICES ASSUME crashes = 0, NEW c \in Blocks, HaveData(status, c), ~Tainted(c)
                       PROVE  Work[c] <= Work[b]
            BY DEF Bounded
          <5>1. c # b => Work[c] <= Work[tip]
            BY <1>5 DEF BoundedBut
          <5>2. Work[c] \in Nat /\ Work[b] \in Nat /\ Work[tip] \in Nat
            BY <1>0, <1>2, <4>2
          <5> QED
            BY <1>1, <5>1, <5>2
        <4> QED
          BY <1>1, <1>4, <2>1, <4>1, <4>3, BoundedSame DEF CallerSelect
      <3> QED
        BY <1>3, <3>1, <3>2
    <2> QED
      BY <1>1, <1>8, <2>1, <2>2, SelectMove
  <1> QED
    BY <1>1, <1>7, <1>8

LEMMA DisconnectSelect ==
    ASSUME OneCaller, CInv, SelectInv, calls = 0, NEW t \in Threads, DisconnectBlock(t)
    PROVE  SelectInv'
  <1> DEFINE n == Highest(th[t].detach)
             x == [th[t] EXCEPT !.detach = th[t].detach \ {n}]
  <1>0. /\ th[t] \in ThreadStates /\ th[t].op = "block" /\ tip \in Blocks
        /\ CallerOK(status, th[t])
        /\ crashes = 0 => CallerSelect(status, th[t], tip)
    BY SelectNow
  <1>1. /\ th[t].detach # {} /\ th[t].pc = "apply" /\ UNCHANGED <<status, crashes>>
        /\ n = tip => tip' = Parent[n] /\ th' = [th EXCEPT ![t] = x]
        /\ n # tip => th' = [th EXCEPT ![t] = Idle]
    BY DEF DisconnectBlock, Finish
  <1>2. th[t].blk \in Blocks
    BY <1>0, <1>1 DEF CallerOK, NonGenesis
  <1> DEFINE b == th[t].blk
  <1>3. crashes = 0 => PlanTo(th[t], tip, b) /\ Bounded(status, b)
    BY <1>0, <1>1 DEF CallerSelect
  <1>4. crashes = 0 => n = tip /\ tip \notin Anc[b] /\ tip \in NonGenesis
    <2> SUFFICES ASSUME crashes = 0 PROVE n = tip /\ tip \notin Anc[b] /\ tip \in NonGenesis
      OBVIOUS
    <2>1. th[t].detach = Anc[tip] \ Anc[b]
      BY <1>3 DEF PlanTo
    <2>2. b \in Blocks /\ tip \in Blocks /\ th[t].detach # {}
      BY <1>0, <1>1, <1>2
    <2> HIDE DEF b, n
    <2>3. Highest(th[t].detach) = tip /\ tip \in th[t].detach
      BY <2>1, <2>2, PlanFirst
    <2>4. tip \notin Anc[b] /\ tip # Genesis
      BY <2>1, <2>2, <2>3, Ancestors
    <2> QED
      BY <2>2, <2>3, <2>4 DEF NonGenesis, n
  <1>5. x.op = "block" /\ x.pc = "apply" /\ x.blk = b /\ x.attach = th[t].attach
        /\ x.detach = th[t].detach \ {n}
    <2> HIDE DEF n
    <2> QED
      BY <1>0, <1>1 DEF ThreadStates
  <1> HIDE DEF n, x
  <1>6. CASE n # tip
    BY <1>1, <1>4, <1>6, IdleSelect, SelectMove
  <1>7. CASE n = tip
    <2>1. crashes = 0 => PlanTo(x, tip', b)
      BY <1>1, <1>2, <1>3, <1>4, <1>5, <1>7, PlanDisconnect DEF PlanTo
    <2>2. crashes = 0 => CallerSelect(status', x, tip')
      BY <1>1, <1>3, <1>5, <2>1 DEF CallerSelect, Bounded, HaveData
    <2> QED
      BY <1>1, <1>5, <1>7, <2>2, SelectMove
  <1> QED
    BY <1>6, <1>7

LEMMA ConnectSelect ==
    ASSUME OneCaller, CInv, SelectInv, calls = 0, NEW t \in Threads, ConnectBlock(t)
    PROVE  SelectInv'
  <1> DEFINE n == Lowest(th[t].attach)
             b == th[t].blk
             x == [th[t] EXCEPT !.attach = th[t].attach \ {n}]
  <1>0. /\ th[t] \in ThreadStates /\ th[t].op = "block" /\ tip \in Blocks
        /\ CallerOK(status, th[t])
        /\ crashes = 0 => CallerSelect(status, th[t], tip)
    BY SelectNow
  <1>1. /\ th[t].detach = {} /\ th[t].attach # {} /\ th[t].pc = "apply"
        /\ UNCHANGED <<status, crashes>>
        /\ Parent[n] = tip => tip' = n /\ th' = [th EXCEPT ![t] = x]
        /\ Parent[n] # tip => th' = [th EXCEPT ![t] = Idle]
    BY DEF ConnectBlock, Finish
  <1>2. b \in Blocks
    BY <1>0, <1>1 DEF CallerOK, NonGenesis
  <1>3. crashes = 0 => PlanTo(th[t], tip, b) /\ Bounded(status, b)
    BY <1>0, <1>1 DEF CallerSelect
  <1>4. crashes = 0 => /\ Parent[n] = tip
                       /\ th[t].attach \ {n} = Anc[b] \ Anc[n] /\ Anc[n] \ Anc[b] = {}
    BY <1>0, <1>1, <1>2, <1>3, PlanConnect DEF PlanTo
  <1> HIDE DEF n
  <1>5. x.op = "block" /\ x.pc = "apply" /\ x.blk = b /\ x.detach = {}
        /\ x.attach = th[t].attach \ {n}
    BY <1>0, <1>1 DEF ThreadStates
  <1> HIDE DEF x
  <1>6. CASE Parent[n] # tip
    BY <1>1, <1>4, <1>6, IdleSelect, SelectMove
  <1>7. CASE Parent[n] = tip
    <2>1. crashes = 0 => PlanTo(x, tip', b)
      BY <1>1, <1>4, <1>5, <1>7 DEF PlanTo
    <2>2. crashes = 0 => CallerSelect(status', x, tip')
      BY <1>1, <1>3, <1>5, <2>1 DEF CallerSelect, Bounded, HaveData
    <2> QED
      BY <1>1, <1>5, <1>7, <2>2, SelectMove
  <1> QED
    BY <1>6, <1>7

LEMMA BlockConnectedSelect ==
    ASSUME OneCaller, CInv, SelectInv, calls = 0, NEW t \in Threads, BlockConnected(t)
    PROVE  SelectInv'
  <1>0. /\ th[t] \in ThreadStates /\ th[t].op = "block" /\ tip \in Blocks
        /\ CallerOK(status, th[t])
        /\ crashes = 0 => CallerSelect(status, th[t], tip)
    BY SelectNow
  <1>1. /\ UNCHANGED <<tip, crashes>> /\ th[t].pc = "apply" /\ Accepted(t, TRUE)
        /\ th[t].detach = {} /\ th[t].attach = {}
        /\ status' = status \/ status' = SetStatusFlags(status, {th[t].blk}, {"valid"})
    BY DEF BlockConnected
  <1>2. th[t].blk \in Blocks
    BY <1>0, <1>1 DEF CallerOK, NonGenesis
  <1>3. SameData(status, status')
    <2>1. SameData(status, status)
      BY DEF SameData
    <2> QED
      BY <1>1, <2>1, FlagsKeepData
  <1>4. crashes = 0 => Bounded(status, tip)
    <2>1. PlanTo(th[t], tip, th[t].blk) => tip = th[t].blk
      BY <1>0, <1>1, <1>2, PlanDone DEF PlanTo
    <2> QED
      BY <1>0, <1>1, <2>1 DEF CallerSelect
  <1>5. crashes = 0 => Bounded(status', tip')
    BY <1>1, <1>3, <1>4, BoundedSame
  <1> QED
    BY <1>0, <1>1, <1>5, AcceptedSelect

LEMMA OrphansSelect ==
    ASSUME OneCaller, CInv, SelectInv, calls = 0, NEW t \in Threads, ProcessOrphans(t)
    PROVE  SelectInv'
  <1> DEFINE h == Head(th[t].queue)
             ready == {i \in DOMAIN orphans : Parent[orphans[i]] = h}
             j == CHOOSE i \in ready : \A k \in ready : i <= k
             x == [th[t] EXCEPT !.queue = Tail(th[t].queue)]
  <1>0. /\ th[t] \in ThreadStates /\ th[t].op = "block"
        /\ crashes = 0 => CallerSelect(status, th[t], tip)
        /\ orphans \in Seq(NonGenesis)
    BY SelectNow DEF CInv, RestInv
  <1>1. UNCHANGED <<tip, crashes>> /\ th[t].pc = "orphans"
    BY DEF ProcessOrphans
  <1>2. crashes = 0 => Bounded(status, tip)
    BY <1>0, <1>1 DEF CallerSelect
  <1>3. CASE ready = {}
    <2>1. th' = [th EXCEPT ![t] = x] /\ status' = status
      BY <1>3 DEF ProcessOrphans
    <2>2. x.op = "block" /\ x.pc = "orphans"
      BY <1>0, <1>1 DEF ThreadStates
    <2>3. crashes = 0 => CallerSelect(status', x, tip')
      BY <1>1, <1>2, <2>1, <2>2 DEF CallerSelect
    <2> QED
      BY <1>1, <2>1, <2>2, <2>3, SelectMove
  <1>4. CASE ready # {}
    <2>1. MaybeAcceptBlock(t, orphans[j], th[t])
      BY <1>4 DEF ProcessOrphans
    <2>2. j \in ready
      <3>1. ready \subseteq Nat
        BY <1>0
      <3>2. \E i \in ready : \A k \in ready : i <= k
        <4> HIDE DEF ready
        <4> QED
          BY <1>4, <3>1, NatMin
      <3> QED
        BY <3>2
    <2>3. orphans[j] \in NonGenesis
      BY <1>0, <2>2
    <2> HIDE DEF j
    <2> QED
      BY <1>0, <1>1, <1>2, <2>1, <2>3, AcceptSelect
  <1> QED
    BY <1>3, <1>4

LEMMA ProcessBlockSelect ==
    ASSUME OneCaller, CInv, SelectInv, calls = 0, NEW t \in Threads, NEW b \in NonGenesis,
           ProcessBlock(t, b)
    PROVE  SelectInv'
  <1>0. th[t] \in ThreadStates /\ (crashes = 0 => CallerSelect(status, th[t], tip))
    BY SelectNow
  <1>1. UNCHANGED <<tip, calls, crashes>> /\ th[t].pc = "idle"
    BY DEF ProcessBlock
  <1>2. crashes = 0 => Bounded(status, tip)
    BY <1>0, <1>1 DEF CallerSelect
  <1>3. CASE ~HaveData(status, Parent[b])
    <2>1. UNCHANGED <<status, th>>
      BY <1>3 DEF ProcessBlock
    <2> QED
      BY <1>1, <2>1 DEF SelectInv
  <1>4. CASE HaveData(status, Parent[b])
    <2> DEFINE next == [Idle EXCEPT !.first = b]
    <2>1. MaybeAcceptBlock(t, b, next)
      BY <1>4 DEF ProcessBlock
    <2>2. Idle \in ThreadStates /\ b \in Blocks
      BY IdleOK DEF CallerOK, NonGenesis
    <2>3. next \in ThreadStates
      BY <2>2 DEF ThreadStates
    <2>4. next.op = "block"
      BY DEF Idle
    <2> QED
      BY <1>1, <1>2, <2>1, <2>3, <2>4, AcceptSelect
  <1> QED
    BY <1>3, <1>4

LEMMA StepSelect ==
    ASSUME OneCaller, CInv, MarksInv, PlanInv, SelectInv, [Next]_vars
    PROVE  SelectInv'
  <1>0. calls \in Nat /\ crashes \in Nat
    BY DEF CInv, RestInv
  <1>1. CASE calls # 0
    <2>1. calls' # 0
      <3>1. ASSUME NEW t \in Threads, Call(t) PROVE calls' \in {calls, calls + 1}
        BY <3>1 DEF Call, ProcessBlock, RefuseDuplicate, ProcessBlockHeader,
                    InvalidateSideBlock, InvalidateChainBlock, ReconsiderBlock, vars
      <3>2. ASSUME NEW t \in Threads, Step(t) PROVE calls' = calls
        <4>1. ExtendBestChain(t) \/ StaySideChain(t) \/ Reorganize(t) => calls' = calls
          BY DEF ExtendBestChain, StaySideChain, Reorganize
        <4>2. DisconnectBlock(t) \/ ConnectBlock(t) \/ BlockConnected(t) => calls' = calls
          BY DEF DisconnectBlock, ConnectBlock, BlockConnected
        <4>3. ProcessOrphans(t) \/ Return(t) \/ SwitchBranch(t) \/ CallDone(t) => calls' = calls
          BY DEF ProcessOrphans, Return, SwitchBranch, CallDone
        <4> QED
          BY <3>2, <4>1, <4>2, <4>3 DEF Step
      <3>3. Restart \/ UNCHANGED vars => calls' = calls
        BY DEF Restart, vars
      <3> QED
        BY <1>0, <1>1, <3>1, <3>2, <3>3 DEF Next
    <2> QED
      BY <2>1 DEF SelectInv
  <1>2. CASE calls = 0
    <2>1. ASSUME UNCHANGED vars PROVE SelectInv'
      BY <2>1 DEF vars, SelectInv
    <2>2. ASSUME NEW t \in Threads, Call(t) PROVE SelectInv'
      <3>1. PICK b \in NonGenesis :
                \/ ProcessBlock(t, b)
                \/ RefuseDuplicate(t, b)
                \/ ProcessBlockHeader(t, b)
                \/ InvalidateSideBlock(t, b)
                \/ InvalidateChainBlock(t, b)
                \/ ReconsiderBlock(t, b)
        BY <2>2 DEF Call
      <3>2. CASE RefuseDuplicate(t, b)
        BY <2>1, <3>2 DEF RefuseDuplicate
      <3>3. CASE ProcessBlockHeader(t, b)
        <4>1. UNCHANGED <<tip, th, calls, crashes>>
              /\ (status' = status \/ status' = SetStatusFlags(status, {b}, {"header"}))
          BY <3>3 DEF ProcessBlockHeader
        <4>2. SameData(status, status')
          <5>1. SameData(status, status)
            BY DEF SameData
          <5> QED
            BY <4>1, <5>1, FlagsKeepData
        <4> QED
          BY <4>1, <4>2, SelectSame DEF SelectInv
      <3>4. CASE InvalidateSideBlock(t, b) \/ InvalidateChainBlock(t, b) \/ ReconsiderBlock(t, b)
        <4>1. calls' = calls + 1
          BY <3>4 DEF InvalidateSideBlock, InvalidateChainBlock, ReconsiderBlock
        <4> QED
          BY <1>0, <4>1 DEF SelectInv
      <3> QED
        BY <1>2, <3>1, <3>2, <3>3, <3>4, ProcessBlockSelect
    <2>3. ASSUME NEW t \in Threads, Step(t) PROVE SelectInv'
      <3>0. th[t].op = "block" /\ (crashes = 0 => CallerSelect(status, th[t], tip))
        BY <1>2, SelectNow
      <3>1. ~SwitchBranch(t) /\ ~CallDone(t)
        BY <3>0 DEF SwitchBranch, CallDone
      <3>2. CASE Return(t)
        <4>1. /\ UNCHANGED <<status, tip, crashes>> /\ th' = [th EXCEPT ![t] = Idle]
              /\ th[t].pc = "orphans"
          BY <3>2 DEF Return, Finish
        <4>2. crashes = 0 => Bounded(status', tip')
          BY <3>0, <4>1 DEF CallerSelect
        <4> QED
          BY <4>1, <4>2, IdleSelect, SelectMove
      <3> QED
        BY <1>2, <2>3, <3>1, <3>2, ExtendSelect, StaySelect, ReorganizeSelect,
           DisconnectSelect, ConnectSelect, BlockConnectedSelect, OrphansSelect DEF Step
    <2>4. ASSUME Restart PROVE SelectInv'
      <3>1. crashes' # 0 /\ \A t \in Threads : th'[t].op = "block"
        BY <1>0, <2>4, IdleSelect DEF Restart
      <3> QED
        BY <3>1 DEF SelectInv
    <2> QED
      BY <2>1, <2>2, <2>3, <2>4 DEF Next
  <1> QED
    BY <1>1, <1>2

(* createChainState: only the genesis block is stored. *)
LEMMA InitSelect == Init => SelectInv
  <1> SUFFICES ASSUME Init PROVE SelectInv
    OBVIOUS
  <1>1. \A b \in Blocks : HaveData(status, b) => b = tip
    BY DEF Init, HaveData
  <1>2. Bounded(status, tip)
    <2>1. tip \in Blocks
      BY TreeAssumption DEF Init
    <2>2. Work[tip] \in Nat
      BY <2>1, ChainAssumption
    <2> QED
      BY <1>1, <2>2 DEF Bounded
  <1>3. \A t \in Threads : th[t] = Idle
    BY DEF Init
  <1>4. CallerSelect(status, Idle, tip) /\ Idle.op = "block"
    BY <1>2, IdleSelect
  <1> QED
    BY <1>3, <1>4 DEF SelectInv

(* Chain selection.  With one caller at a time that hands in headers and   *)
(* blocks in any order, good and bad, on every tree of blocks with any     *)
(* distribution of work: between calls, and as long as nothing has called  *)
(* InvalidateBlock or ReconsiderBlock and no crash has happened, no stored *)
(* branch of good blocks has more work than the best chain.                *)
THEOREM MostWorkWins ==
    ASSUME OneCaller
    PROVE  Spec => [](calls = 0 => MostWork)
  <1> DEFINE Inv == CInv /\ MarksInv /\ PlanInv /\ SelectInv
  <1>1. Init => Inv
    BY InitC, InitMarks, InitPlan, InitSelect
  <1>2. Inv /\ [Next]_vars => Inv'
    BY StepC, StepMarks, StepPlan, StepSelect
  <1>3. Inv => (calls = 0 => MostWork)
    <2> SUFFICES ASSUME Inv, calls = 0, Quiet, crashes = 0 PROVE Bounded(status, tip)
      BY DEF MostWork, Bounded, Tainted
    <2>1. PICK t \in Threads : TRUE
      BY DEF OneCaller
    <2> QED
      BY <2>1 DEF SelectInv, CallerSelect, Quiet
  <1> HIDE DEF Inv
  <1> QED
    BY <1>1, <1>2, <1>3, PTL DEF Spec

-----------------------------------------------------------------------------
(* Marked blocks and the best chain, under InvalidateBlock and             *)
(* ReconsiderBlock, as long as nothing crashed and no header was processed *)
(* on its own (processing one moves the best header off the genesis block).*)
Plain == crashes = 0 /\ bestHeader = Genesis

Clean(s, B) == \A b \in B : ~KnownInvalid(s, b)

(* Every node of the index has its block, and no orphan has. *)
StoredOnly(s) == \A b \in Blocks : Known(s, b) => HaveData(s, b)
OrphansNew(s, o) ==
    \A i \in 1 .. Len(o) : ~HaveData(s, o[i]) /\ \A j \in 1 .. Len(o) : o[i] = o[j] => i = j

(* What caller x leaves of the chain of tip p, and what it is to attach,   *)
(* is unmarked; what it is to detach is the top of that chain, so that     *)
(* disconnectBlock cannot fail half-way; and so is a block just stored.    *)
CallerClean(s, x, p) ==
    /\ \E m \in Blocks : x.detach = Anc[p] \ Anc[m]
    /\ Clean(s, Anc[p] \ x.detach)
    /\ Clean(s, x.attach)
    /\ x.pc = "connect" => ~KnownInvalid(s, x.blk)

CleanInv ==
    Plain => /\ StoredOnly(status)
             /\ OrphansNew(status, orphans)
             /\ \A t \in Threads : CallerClean(status, th[t], tip)

(* Work grows along a branch. *)
LEMMA WorkUp ==
    ASSUME NEW p \in Blocks, NEW a \in Anc[p]
    PROVE  Work[a] <= Work[p]
  <1> DEFINE M == {c \in Anc[p] : ~(Work[c] <= Work[p])}
  <1> SUFFICES ASSUME M # {} PROVE FALSE
    OBVIOUS
  <1>1. \A c \in Anc[p] : /\ c \in Blocks /\ Height[c] \in Nat /\ Height[p] \in Nat
                          /\ Height[c] <= Height[p] /\ Work[c] \in Nat /\ Work[p] \in Nat
    BY TreeAssumption, ChainAssumption
  <1>2. PICK m \in M : \A c \in M : Height[c] <= Height[m]
    <2> DEFINE gap(c) == Height[p] - Height[c]
               gs == {gap(c) : c \in M}
    <2>1. gs \subseteq Nat /\ gs # {}
      BY <1>1
    <2>2. PICK k \in gs : \A l \in gs : k <= l
      BY <2>1, NatMin
    <2>3. PICK c \in M : gap(c) = k
      BY <2>2
    <2>4. \A d \in M : gap(c) <= gap(d)
      BY <2>2, <2>3
    <2> QED
      BY <1>1, <2>4
  <1>3. m \in Blocks /\ m \in Anc[p] /\ m # p /\ Anc[m] \subseteq Anc[p] /\ p \in Anc[p]
    BY <1>1, Ancestors, TreeAssumption
  <1> DEFINE A == Anc[p] \ Anc[m]
             c == Lowest(A)
  <1>4. p \in A
    BY <1>3, TreeAssumption
  <1>5. c \in NonGenesis /\ Parent[c] = m /\ c \in A
    <2>1. Anc[m] \ Anc[p] = {} /\ A # {} /\ A = Anc[p] \ Anc[m]
      BY <1>3, <1>4
    <2> HIDE DEF A, M
    <2> QED
      BY <1>3, <2>1, PlanConnect
  <1> HIDE DEF c
  <1>6. c \in Anc[p] /\ Height[c] = Height[m] + 1 /\ Work[m] < Work[c]
    BY <1>5, TreeAssumption, ChainAssumption
  <1>7. c \in M
    BY <1>1, <1>3, <1>6
  <1> QED
    BY <1>1, <1>2, <1>3, <1>6, <1>7

(* A block with more work than the tip is not below it. *)
LEMMA MoreWorkOff ==
    ASSUME tip \in Blocks, NEW n \in Blocks, ~(Work[n] <= Work[tip])
    PROVE  n \notin Chain /\ n \in NonGenesis
  BY WorkUp, Ancestors DEF Chain, NonGenesis

(* A header processed on its own, or a crash, ends it. *)
LEMMA HeaderNotPlain ==
    ASSUME NEW t \in Threads, NEW b \in NonGenesis, ProcessBlockHeader(t, b)
    PROVE  ~Plain'
  <1>1. bestHeader' = IF Parent[b] = bestHeader \/ Work[b] > Work[bestHeader] THEN b ELSE bestHeader
    BY DEF ProcessBlockHeader
  <1>2. b # Genesis /\ Parent[b] \in Blocks /\ b \in Blocks
    BY TreeAssumption DEF NonGenesis
  <1>3. Work[Genesis] <= Work[Parent[b]]
    BY <1>2, Ancestors, WorkUp
  <1>4. /\ Work[Genesis] \in Nat /\ Work[Parent[b]] \in Nat /\ Work[b] \in Nat
        /\ Work[Parent[b]] < Work[b]
    BY <1>2, TreeAssumption, ChainAssumption
  <1>5. Work[b] > Work[Genesis]
    BY <1>3, <1>4
  <1> QED
    BY <1>1, <1>2, <1>5 DEF Plain

-----------------------------------------------------------------------------
(* What setting and clearing flags does to marks. *)
LEMMA SetClean ==
    ASSUME NEW s, NEW B, NEW f, NEW C \in SUBSET Blocks, Clean(s, C),
           B \cap C = {} \/ f \cap {"failed", "invalidAncestor"} = {}
    PROVE  Clean(SetStatusFlags(s, B, f), C)
  BY DEF Clean, SetStatusFlags, KnownInvalid

LEMMA UnsetClean ==
    ASSUME NEW s, NEW B, NEW f, NEW C \in SUBSET Blocks, Clean(s, C)
    PROVE  Clean(UnsetStatusFlags(s, B, f), C)
  BY DEF Clean, UnsetStatusFlags, KnownInvalid

LEMMA SetStored ==
    ASSUME NEW s, NEW B, NEW f, StoredOnly(s), \A b \in B : HaveData(s, b)
    PROVE  StoredOnly(SetStatusFlags(s, B, f))
  BY DEF StoredOnly, SetStatusFlags, Known, HaveData

LEMMA UnsetStored ==
    ASSUME NEW s, NEW B, NEW f, StoredOnly(s), "data" \notin f
    PROVE  StoredOnly(UnsetStatusFlags(s, B, f))
  BY DEF StoredOnly, UnsetStatusFlags, Known, HaveData

LEMMA OrphansStayNew ==
    ASSUME NEW s, NEW r, SameData(s, r), NEW o \in Seq(NonGenesis), OrphansNew(s, o)
    PROVE  OrphansNew(r, o)
  <1>1. \A i \in 1 .. Len(o) : o[i] \in Blocks
    BY DEF NonGenesis
  <1> QED
    BY <1>1 DEF OrphansNew, SameData

(* getReorganizeNodes and verifyReorganizationValidity mark only blocks of *)
(* the branch that are off the best chain, and a plan that passes them     *)
(* attaches no marked block.                                               *)
LEMMA PlanClean ==
    ASSUME NEW s, StoredOnly(s), Clean(s, Chain), tip \in Blocks,
           NEW node \in NonGenesis, node \notin Chain, \A a \in Anc[node] : HaveData(s, a),
           NEW nodes, nodes = GetReorganizeNodes(s, node)
    PROVE  /\ StoredOnly(nodes.status) /\ Clean(nodes.status, Chain)
           /\ Clean(nodes.status, nodes.attach)
           /\ nodes.attach \subseteq Anc[node] \ Chain
           /\ \E m \in Blocks : nodes.detach = Chain \ Anc[m]
  <1>1. /\ node \in Blocks /\ node \in Anc[node] /\ Chain \in SUBSET Blocks
        /\ Anc[node] \subseteq Blocks
    BY Ancestors DEF NonGenesis, Chain
  <1> DEFINE path == Anc[node] \ Chain
             marked(B) == SetStatusFlags(s, B, {"invalidAncestor"})
  <1>2. \A B : B \subseteq path => StoredOnly(marked(B)) /\ Clean(marked(B), Chain)
    <2> SUFFICES ASSUME NEW B, B \subseteq path PROVE StoredOnly(marked(B)) /\ Clean(marked(B), Chain)
      OBVIOUS
    <2>1. B \cap Chain = {} /\ \A b \in B : HaveData(s, b)
      OBVIOUS
    <2> QED
      BY <1>1, <2>1, SetStored, SetClean
  <1>3. node \in path /\ AboveInvalid(s, path) \subseteq path
    BY <1>1 DEF AboveInvalid
  <1>4. \/ /\ nodes = [status |-> s, detach |-> Chain \ Anc[node], attach |-> path]
           /\ Clean(s, path)
        \/ nodes = [status |-> marked({node}), detach |-> {}, attach |-> {}]
        \/ nodes = [status |-> marked(AboveInvalid(s, path)), detach |-> {}, attach |-> {}]
    BY DEF GetReorganizeNodes, Clean
  <1>5. Chain \ Anc[tip] = {} /\ \A r : Clean(r, {})
    BY DEF Chain, Clean
  <1> HIDE DEF path, marked
  <1>6. StoredOnly(marked({node})) /\ Clean(marked({node}), Chain)
    BY <1>2, <1>3
  <1>7. StoredOnly(marked(AboveInvalid(s, path))) /\ Clean(marked(AboveInvalid(s, path)), Chain)
    BY <1>2, <1>3
  <1>8. path = Anc[node] \ Chain
    BY DEF path
  <1> QED
    BY <1>1, <1>4, <1>5, <1>6, <1>7, <1>8

LEMMA VerifyClean ==
    ASSUME NEW s, StoredOnly(s), NEW C \in SUBSET Blocks, Clean(s, C), NEW detach,
           NEW attach \in SUBSET Blocks, attach \cap C = {}, Clean(s, attach),
           \A a \in attach : HaveData(s, a),
           NEW v, v = VerifyReorganization(s, detach, attach)
    PROVE  /\ StoredOnly(v.status) /\ Clean(v.status, C)
           /\ v.ok => Clean(v.status, attach)
  <1> DEFINE stop == {n \in attach : Stops(s, n)}
             f == Lowest(stop)
             below == {n \in attach : Height[n] < Height[f]}
             above == {n \in attach : Height[n] > Height[f]}
             passed == SetStatusFlags(s, below, {"valid"})
             failing == SetStatusFlags(passed, {f}, {"failed"})
             dead == SetStatusFlags(failing, above, {"invalidAncestor"})
             all == SetStatusFlags(s, attach, {"valid"})
  <1>1. \/ v = [status |-> s, ok |-> FALSE]
        \/ v = [status |-> all, ok |-> TRUE]
        \/ v = [status |-> passed, ok |-> FALSE]
        \/ stop # {} /\ v = [status |-> dead, ok |-> FALSE]
    BY DEF VerifyReorganization
  <1>2. StoredOnly(all) /\ Clean(all, C) /\ Clean(all, attach)
    BY SetStored, SetClean
  <1>3. StoredOnly(passed) /\ Clean(passed, C) /\ SameData(s, passed)
    <2>1. \A b \in below : HaveData(s, b)
      OBVIOUS
    <2> HIDE DEF below
    <2> QED
      BY <2>1, SetStored, SetClean, FlagsKeepData
  <1>4. CASE stop # {} /\ v = [status |-> dead, ok |-> FALSE]
    <2>1. f \in attach
      BY <1>4, LowestIn
    <2>2. HaveData(passed, f) /\ {f} \cap C = {} /\ \A a \in above : HaveData(passed, a) /\ a \notin C
      BY <1>3, <2>1 DEF SameData
    <2> HIDE DEF passed, f, above
    <2>3. StoredOnly(failing) /\ Clean(failing, C) /\ SameData(passed, failing)
      BY <1>3, <2>2, SetStored, SetClean, FlagsKeepData
    <2>4. /\ \A a \in above : a \in Blocks
          /\ \A a \in above : HaveData(failing, a)
          /\ above \cap C = {}
      BY <2>2, <2>3 DEF SameData, above
    <2> HIDE DEF failing
    <2>5. StoredOnly(dead) /\ Clean(dead, C)
      BY <2>3, <2>4, SetStored, SetClean
    <2> HIDE DEF dead
    <2> QED
      BY <1>4, <2>5
  <1> HIDE DEF all, passed, dead, stop
  <1> QED
    BY <1>1, <1>2, <1>3, <1>4

LEMMA PlannedClean ==
    ASSUME CInv, NEW s, StatusOK(s), StoredOnly(s), SameData(status, s), Clean(s, Chain),
           NEW node \in NonGenesis, node \notin Chain, HaveData(status, node),
           NEW nodes, nodes = GetReorganizeNodes(s, node),
           NEW check, check = VerifyReorganization(nodes.status, nodes.detach, nodes.attach)
    PROVE  /\ StoredOnly(check.status) /\ Clean(check.status, Chain)
           /\ SameData(status, check.status)
           /\ check.ok => Clean(check.status, nodes.attach)
           /\ \E m \in Blocks : nodes.detach = Chain \ Anc[m]
  <1>1. /\ tip \in Blocks /\ node \in Blocks /\ IndexInv /\ Chain \in SUBSET Blocks
        /\ Anc[node] \subseteq Blocks
    BY Ancestors DEF CInv, ChainInv, NonGenesis, Chain
  <1>2. \A a \in Anc[node] : HaveData(s, a)
    BY <1>1, AncestorsStored DEF SameData
  <1>3. /\ StoredOnly(nodes.status) /\ Clean(nodes.status, Chain)
        /\ Clean(nodes.status, nodes.attach) /\ nodes.attach \subseteq Anc[node] \ Chain
        /\ \E m \in Blocks : nodes.detach = Chain \ Anc[m]
    BY <1>1, <1>2, PlanClean
  <1>4. SameData(s, nodes.status)
    BY <1>1, PlanOK
  <1>5. /\ nodes.attach \in SUBSET Blocks /\ nodes.attach \cap Chain = {}
        /\ \A a \in nodes.attach : HaveData(nodes.status, a)
    BY <1>1, <1>2, <1>3, <1>4 DEF SameData
  <1>6. /\ StoredOnly(check.status) /\ Clean(check.status, Chain)
        /\ check.ok => Clean(check.status, nodes.attach)
    BY <1>1, <1>3, <1>5, VerifyClean
  <1>7. SameData(status, check.status)
    BY PlannedOK
  <1> QED
    BY <1>3, <1>6, <1>7

-----------------------------------------------------------------------------
(* A step after which the caller is in state x. *)
LEMMA CleanMove ==
    ASSUME OneCaller, CInv, NEW t \in Threads, NEW x,
           th' = [th EXCEPT ![t] = x] \/ (th' = th /\ x = th[t]),
           StoredOnly(status'), OrphansNew(status', orphans'), CallerClean(status', x, tip')
    PROVE  CleanInv'
  <1>1. \A u \in Threads : th'[u] = x
    BY DEF OneCaller, CInv, CallersInv
  <1> QED
    BY <1>1 DEF CleanInv

(* What is known of the caller of a step. *)
LEMMA CleanNow ==
    ASSUME CInv, PlanInv, CleanInv, Plain, NEW t \in Threads
    PROVE  /\ th[t] \in ThreadStates /\ tip \in Blocks /\ Chain \in SUBSET Blocks
           /\ CallerOK(status, th[t]) /\ CallerPlan(th[t], tip) /\ StatusOK(status)
           /\ SameData(status, status) /\ orphans \in Seq(NonGenesis)
           /\ StoredOnly(status) /\ OrphansNew(status, orphans)
           /\ CallerClean(status, th[t], tip)
           /\ th[t].pc # "apply" => Clean(status, Chain)
  <1>1. /\ th[t] \in ThreadStates /\ tip \in Blocks
        /\ CallerOK(status, th[t]) /\ CallerPlan(th[t], tip) /\ StatusOK(status)
        /\ SameData(status, status) /\ orphans \in Seq(NonGenesis)
        /\ StoredOnly(status) /\ OrphansNew(status, orphans)
        /\ CallerClean(status, th[t], tip)
    BY DEF CInv, CallersInv, ChainInv, IndexInv, SameData, RestInv, PlanInv, CleanInv
  <1>2. Chain \in SUBSET Blocks
    BY <1>1, Ancestors DEF Chain
  <1>3. th[t].pc # "apply" => Chain \ th[t].detach = Chain
    BY <1>1 DEF CallerPlan
  <1> QED
    BY <1>1, <1>2, <1>3 DEF CallerClean, Chain

(* Between operations it is enough that the chain is clean. *)
LEMMA RestClean ==
    ASSUME NEW s, NEW x, NEW p \in Blocks, x.detach = {}, x.attach = {}, x.pc # "connect",
           Clean(s, Anc[p])
    PROVE  CallerClean(s, x, p)
  <1>1. x.detach = Anc[p] \ Anc[p] /\ Anc[p] \ x.detach = Anc[p] /\ Clean(s, x.attach)
    BY DEF Clean
  <1> QED
    BY <1>1 DEF CallerClean

LEMMA IdleClean ==
    ASSUME NEW s, NEW p \in Blocks, Clean(s, Anc[p])
    PROVE  CallerClean(s, Idle, p)
  BY RestClean DEF Idle

(* maybeAcceptBlock: the block is new, so nothing has marked it. *)
LEMMA AcceptClean ==
    ASSUME OneCaller, CInv, PlanInv, CleanInv, Plain, NEW t \in Threads, th[t].pc # "apply",
           NEW b \in NonGenesis, ~HaveData(status, b), tip' = tip,
           NEW next \in ThreadStates, next.detach = {}, next.attach = {},
           MaybeAcceptBlock(t, b, next),
           orphans' \in Seq(NonGenesis), OrphansNew(status, orphans'),
           \A i \in 1 .. Len(orphans') : orphans'[i] # b
    PROVE  CleanInv'
  <1> DEFINE x == [next EXCEPT !.pc = "connect", !.blk = b]
  <1>0. /\ tip \in Blocks /\ StoredOnly(status) /\ Clean(status, Chain) /\ b \in Blocks
        /\ Chain \in SUBSET Blocks
    BY CleanNow DEF NonGenesis
  <1>1. CASE th' = [th EXCEPT ![t] = Idle] /\ status' = status
    <2>1. CallerClean(status', Idle, tip')
      BY <1>0, <1>1, IdleClean DEF Chain
    <2> QED
      BY <1>0, <1>1, <2>1, CleanMove
  <1>2. CASE /\ th' = [th EXCEPT ![t] = x]
             /\ status' = SetStatusFlags(status, {b}, {"data", "header"})
    <2>1. x.detach = {} /\ x.attach = {} /\ x.pc = "connect" /\ x.blk = b
      BY DEF ThreadStates
    <2>2. ~KnownInvalid(status, b)
      BY <1>0 DEF StoredOnly, Known, KnownInvalid
    <2>3. Clean(status', {b}) /\ Clean(status', Chain)
      <3>1. Clean(status, {b}) /\ {b} \in SUBSET Blocks
        BY <1>0, <2>2 DEF Clean
      <3> QED
        BY <1>0, <1>2, <3>1, SetClean
    <2>4. StoredOnly(status')
      BY <1>0, <1>2 DEF StoredOnly, SetStatusFlags, Known, HaveData
    <2>5. OrphansNew(status', orphans')
      <3>1. \A c \in Blocks : c # b /\ HaveData(status', c) => HaveData(status, c)
        BY <1>2 DEF SetStatusFlags, HaveData
      <3>2. \A i \in 1 .. Len(orphans') : orphans'[i] \in Blocks
        BY DEF NonGenesis
      <3> QED
        BY <3>1, <3>2 DEF OrphansNew
    <2>6. CallerClean(status', x, tip')
      <3> HIDE DEF x
      <3>1. /\ x.detach = Anc[tip] \ Anc[tip] /\ Anc[tip] \ x.detach = Chain
            /\ Clean(status', x.attach)
        BY <2>1 DEF Clean, Chain
      <3> QED
        BY <1>0, <2>1, <2>3, <3>1 DEF CallerClean, Clean
    <2> QED
      BY <1>2, <2>4, <2>5, <2>6, CleanMove
  <1> QED
    BY <1>1, <1>2 DEF MaybeAcceptBlock, Finish

LEMMA ProcessBlockClean ==
    ASSUME OneCaller, CInv, PlanInv, CleanInv, Plain, NEW t \in Threads,
           NEW b \in NonGenesis, ProcessBlock(t, b)
    PROVE  CleanInv'
  <1>0. /\ th[t] \in ThreadStates /\ orphans \in Seq(NonGenesis) /\ OrphansNew(status, orphans)
        /\ StoredOnly(status) /\ CallerClean(status, th[t], tip) /\ b \in Blocks
    BY CleanNow DEF NonGenesis
  <1>1. tip' = tip /\ th[t].pc = "idle" /\ ~Duplicate(b)
    BY DEF ProcessBlock
  <1>2. ~HaveData(status, b) /\ \A i \in 1 .. Len(orphans) : orphans[i] # b
    BY <1>0, <1>1 DEF Duplicate
  <1>3. CASE ~HaveData(status, Parent[b])
    <2>1. UNCHANGED <<status, th>> /\ orphans' = Append(orphans, b)
      BY <1>3 DEF ProcessBlock
    <2>2. OrphansNew(status, orphans')
      <3>1. /\ Len(orphans') = Len(orphans) + 1 /\ orphans'[Len(orphans) + 1] = b
            /\ \A i \in 1 .. Len(orphans) : orphans'[i] = orphans[i]
        BY <1>0, <2>1
      <3>2. Len(orphans) \in Nat
        BY <1>0
      <3>3. \A i \in 1 .. Len(orphans') : i \in 1 .. Len(orphans) \/ i = Len(orphans) + 1
        BY <3>1, <3>2
      <3> QED
        BY <1>0, <1>2, <3>1, <3>3 DEF OrphansNew
    <2> QED
      BY <1>0, <1>1, <2>1, <2>2, CleanMove
  <1>4. CASE HaveData(status, Parent[b])
    <2> DEFINE next == [Idle EXCEPT !.first = b]
    <2>1. MaybeAcceptBlock(t, b, next) /\ orphans' = orphans
      BY <1>4 DEF ProcessBlock
    <2>2. Idle \in ThreadStates
      BY IdleOK DEF CallerOK
    <2>3. next \in ThreadStates
      BY <1>0, <2>2 DEF ThreadStates
    <2>4. next.detach = {} /\ next.attach = {}
      BY DEF Idle
    <2> HIDE DEF next
    <2> QED
      BY <1>0, <1>1, <1>2, <2>1, <2>3, <2>4, AcceptClean
  <1> QED
    BY <1>3, <1>4

(* An orphan that is adopted leaves the others new. *)
LEMMA Joined ==
    ASSUME NEW S, NEW u \in Seq(S), NEW w \in Seq(S)
    PROVE  /\ u \o w \in Seq(S) /\ Len(u \o w) = Len(u) + Len(w)
           /\ \A i \in 1 .. (Len(u) + Len(w)) :
                (u \o w)[i] = IF i <= Len(u) THEN u[i] ELSE w[i - Len(u)]
  OBVIOUS

(* The places of what is left when the j-th of n is taken out. *)
At(i, j) == IF i < j THEN i ELSE i + 1

LEMMA AtOK ==
    ASSUME NEW n \in Nat, NEW j \in 1 .. n
    PROVE  /\ \A i \in 1 .. (n - 1) :
                /\ At(i, j) \in 1 .. n /\ At(i, j) # j
                /\ i <= j - 1 => i \in 1 .. (j - 1) /\ At(i, j) = i
                /\ ~(i <= j - 1) => i - (j - 1) \in 1 .. (n - j) /\ At(i, j) = (i - (j - 1)) + j
           /\ \A i, k \in 1 .. (n - 1) : At(i, j) = At(k, j) => i = k
           /\ (j - 1) + (n - j) = n - 1
  BY DEF At

LEMMA OrphanTaken ==
    ASSUME NEW s, NEW o \in Seq(NonGenesis), OrphansNew(s, o), NEW j \in 1 .. Len(o),
           NEW r, r = SubSeq(o, 1, j - 1) \o SubSeq(o, j + 1, Len(o))
    PROVE  r \in Seq(NonGenesis) /\ OrphansNew(s, r) /\ \A i \in 1 .. Len(r) : r[i] # o[j]
  <1> DEFINE u == SubSeq(o, 1, j - 1)
             w == SubSeq(o, j + 1, Len(o))
             n == Len(o)
  <1>1. n \in Nat /\ j \in 1 .. n /\ j \in Nat /\ 1 <= j /\ j <= n
    OBVIOUS
  <1>2. u \in Seq(NonGenesis) /\ Len(u) = j - 1 /\ \A i \in 1 .. (j - 1) : u[i] = o[i]
    BY <1>1
  <1>3. w \in Seq(NonGenesis) /\ Len(w) = n - j /\ \A i \in 1 .. (n - j) : w[i] = o[i + j]
    BY <1>1
  <1>4. r = u \o w
    OBVIOUS
  <1> HIDE DEF u, w, n
  <1>5. /\ r \in Seq(NonGenesis) /\ Len(r) = Len(u) + Len(w)
        /\ \A i \in 1 .. (Len(u) + Len(w)) : r[i] = IF i <= Len(u) THEN u[i] ELSE w[i - Len(u)]
    BY ONLY <1>2, <1>3, <1>4, Joined
  <1>6. /\ \A i \in 1 .. (n - 1) :
              /\ At(i, j) \in 1 .. n /\ At(i, j) # j
              /\ i <= j - 1 => i \in 1 .. (j - 1) /\ At(i, j) = i
              /\ ~(i <= j - 1) => i - (j - 1) \in 1 .. (n - j) /\ At(i, j) = (i - (j - 1)) + j
        /\ \A i, k \in 1 .. (n - 1) : At(i, j) = At(k, j) => i = k
        /\ (j - 1) + (n - j) = n - 1
    BY ONLY <1>1, AtOK
  <1>7. Len(r) = n - 1 /\ \A i \in 1 .. (n - 1) : r[i] = IF i <= j - 1 THEN u[i] ELSE w[i - (j - 1)]
    BY ONLY <1>2, <1>3, <1>5, <1>6
  <1>8. \A i \in 1 .. (n - 1) : r[i] = o[At(i, j)]
    BY ONLY <1>2, <1>3, <1>6, <1>7
  <1>9. \A i \in 1 .. n : ~HaveData(s, o[i]) /\ \A k \in 1 .. n : o[i] = o[k] => i = k
    BY DEF OrphansNew, n
  <1>10. \A i \in 1 .. (n - 1) : ~HaveData(s, r[i]) /\ r[i] # o[j]
    BY ONLY <1>1, <1>6, <1>8, <1>9
  <1>11. \A i, k \in 1 .. (n - 1) : r[i] = r[k] => i = k
    BY ONLY <1>6, <1>8, <1>9
  <1> QED
    BY <1>5, <1>7, <1>10, <1>11 DEF OrphansNew

LEMMA OrphansClean ==
    ASSUME OneCaller, CInv, PlanInv, CleanInv, Plain, NEW t \in Threads, ProcessOrphans(t)
    PROVE  CleanInv'
  <1> DEFINE h == Head(th[t].queue)
             ready == {i \in DOMAIN orphans : Parent[orphans[i]] = h}
             j == CHOOSE i \in ready : \A k \in ready : i <= k
             x == [th[t] EXCEPT !.queue = Tail(th[t].queue)]
  <1>0. /\ th[t] \in ThreadStates /\ orphans \in Seq(NonGenesis) /\ OrphansNew(status, orphans)
        /\ StoredOnly(status) /\ Clean(status, Chain) /\ tip \in Blocks
        /\ th[t].detach = {} /\ th[t].attach = {}
    BY CleanNow DEF ProcessOrphans, CallerPlan
  <1>1. tip' = tip /\ th[t].pc = "orphans"
    BY DEF ProcessOrphans
  <1>2. CASE ready = {}
    <2>1. th' = [th EXCEPT ![t] = x] /\ UNCHANGED <<status, orphans>>
      BY <1>2 DEF ProcessOrphans
    <2>2. x.detach = {} /\ x.attach = {} /\ x.pc = "orphans"
      BY <1>0, <1>1 DEF ThreadStates
    <2> HIDE DEF x
    <2>3. CallerClean(status, x, tip)
      BY <1>0, <2>2, RestClean DEF Chain
    <2> QED
      BY <1>0, <1>1, <2>1, <2>3, CleanMove
  <1>3. CASE ready # {}
    <2>1. /\ orphans' = SubSeq(orphans, 1, j - 1) \o SubSeq(orphans, j + 1, Len(orphans))
          /\ MaybeAcceptBlock(t, orphans[j], th[t])
      BY <1>3 DEF ProcessOrphans
    <2>2. j \in ready
      <3>1. ready \subseteq Nat
        BY <1>0
      <3>2. \E i \in ready : \A k \in ready : i <= k
        <4> HIDE DEF ready
        <4> QED
          BY <1>3, <3>1, NatMin
      <3> QED
        BY <3>2
    <2>3. j \in 1 .. Len(orphans) /\ orphans[j] \in NonGenesis
      BY <1>0, <2>2
    <2> HIDE DEF j
    <2>4. /\ orphans' \in Seq(NonGenesis) /\ OrphansNew(status, orphans')
          /\ \A i \in 1 .. Len(orphans') : orphans'[i] # orphans[j]
      BY <1>0, <2>1, <2>3, OrphanTaken
    <2>5. ~HaveData(status, orphans[j])
      BY <1>0, <2>3 DEF OrphansNew
    <2> QED
      BY <1>0, <1>1, <2>1, <2>3, <2>4, <2>5, AcceptClean
  <1> QED
    BY <1>2, <1>3

LEMMA AcceptedClean ==
    ASSUME OneCaller, CInv, PlanInv, CleanInv, Plain, NEW t \in Threads, NEW main,
           Accepted(t, main), UNCHANGED <<tip, orphans>>,
           StoredOnly(status'), SameData(status, status'), Clean(status', Chain)
    PROVE  CleanInv'
  <1> DEFINE q == Append(th[t].queue, th[t].blk)
             m == IF th[t].blk = th[t].first THEN main ELSE th[t].main
             x == [th[t] EXCEPT !.pc = "orphans", !.extend = FALSE, !.queue = q,
                                !.main = m, !.detach = {}, !.attach = {}]
  <1>0. /\ th[t] \in ThreadStates /\ tip \in Blocks /\ orphans \in Seq(NonGenesis)
        /\ OrphansNew(status, orphans)
    BY CleanNow
  <1>1. th' = [th EXCEPT ![t] = x]
    BY DEF Accepted
  <1> HIDE DEF q, m
  <1>2. x.detach = {} /\ x.attach = {} /\ x.pc = "orphans"
    BY <1>0 DEF ThreadStates
  <1> HIDE DEF x
  <1>3. CallerClean(status', x, tip')
    BY <1>0, <1>2, RestClean DEF Chain
  <1>4. OrphansNew(status', orphans')
    BY <1>0, OrphansStayNew
  <1> QED
    BY <1>1, <1>3, <1>4, CleanMove

LEMMA StayClean ==
    ASSUME OneCaller, CInv, PlanInv, CleanInv, Plain, NEW t \in Threads, StaySideChain(t)
    PROVE  CleanInv'
  <1>1. /\ th[t].pc = "connect" /\ Accepted(t, FALSE) /\ UNCHANGED <<status, tip, orphans>>
    BY DEF StaySideChain
  <1>2. StoredOnly(status) /\ SameData(status, status) /\ Clean(status, Chain)
    BY <1>1, CleanNow
  <1> QED
    BY <1>1, <1>2, AcceptedClean

LEMMA BlockConnectedClean ==
    ASSUME OneCaller, CInv, PlanInv, CleanInv, Plain, NEW t \in Threads, BlockConnected(t)
    PROVE  CleanInv'
  <1> DEFINE b == th[t].blk
  <1>1. /\ th[t].pc = "apply" /\ th[t].op = "block" /\ th[t].detach = {}
        /\ Accepted(t, TRUE) /\ UNCHANGED <<tip, orphans>>
        /\ status' = status \/ status' = SetStatusFlags(status, {b}, {"valid"})
    BY DEF BlockConnected
  <1>2. /\ StoredOnly(status) /\ SameData(status, status) /\ CallerOK(status, th[t])
        /\ CallerClean(status, th[t], tip) /\ Chain \in SUBSET Blocks
    BY CleanNow
  <1>3. HaveData(status, b) /\ Chain \ th[t].detach = Chain
    BY <1>1, <1>2 DEF CallerOK
  <1>4. Clean(status, Chain)
    BY <1>2, <1>3 DEF CallerClean, Chain
  <1>5. StoredOnly(status') /\ SameData(status, status') /\ Clean(status', Chain)
    BY <1>1, <1>2, <1>3, <1>4, SetStored, SetClean, FlagsKeepData
  <1> QED
    BY <1>1, <1>5, AcceptedClean

(* A block that extends the chain and fails is marked, but not connected. *)
LEMMA ExtendClean ==
    ASSUME OneCaller, CInv, PlanInv, CleanInv, Plain, NEW t \in Threads, ExtendBestChain(t)
    PROVE  CleanInv'
  <1> DEFINE b == th[t].blk
             valid == KnownValid(status, b) \/ b \notin Bad
             x == [th[t] EXCEPT !.pc = "apply", !.extend = TRUE, !.attach = {b}]
  <1>1. /\ th[t].pc = "connect" /\ Parent[b] = tip /\ UNCHANGED <<tip, orphans>>
        /\ status' = SetStatusFlags(status, {b}, {IF valid THEN "valid" ELSE "failed"})
        /\ \/ valid /\ th' = [th EXCEPT ![t] = x]
           \/ th' = [th EXCEPT ![t] = Idle]
    BY DEF ExtendBestChain, Finish
  <1>2. /\ th[t] \in ThreadStates /\ tip \in Blocks /\ Chain \in SUBSET Blocks
        /\ CallerOK(status, th[t]) /\ CallerPlan(th[t], tip)
        /\ orphans \in Seq(NonGenesis) /\ StoredOnly(status) /\ OrphansNew(status, orphans)
        /\ CallerClean(status, th[t], tip) /\ Clean(status, Chain)
    BY <1>1, CleanNow
  <1>3. b \in NonGenesis /\ HaveData(status, b) /\ ~KnownInvalid(status, b) /\ th[t].detach = {}
    BY <1>1, <1>2 DEF CallerOK, CallerClean, CallerPlan
  <1>4. b \notin Chain /\ b \in Blocks
    BY <1>1, <1>3, ParentChain DEF Chain
  <1> HIDE DEF b, valid
  <1>5. StoredOnly(status') /\ Clean(status', Chain) /\ SameData(status, status')
    <2>1. {b} \cap Chain = {}
      BY <1>4
    <2> QED
      BY <1>1, <1>2, <1>3, <2>1, SetStored, SetClean, FlagsKeepData
  <1>6. OrphansNew(status', orphans')
    BY <1>1, <1>2, <1>5, OrphansStayNew
  <1>7. CASE th' = [th EXCEPT ![t] = Idle]
    BY <1>1, <1>2, <1>5, <1>6, <1>7, IdleClean, CleanMove DEF Chain
  <1>8. CASE valid /\ th' = [th EXCEPT ![t] = x]
    <2>1. x.detach = {} /\ x.attach = {b} /\ x.pc = "apply"
      BY <1>2, <1>3 DEF ThreadStates
    <2>2. Clean(status', {b})
      <3>1. Clean(status, {b}) /\ {b} \in SUBSET Blocks
        BY <1>3, <1>4 DEF Clean
      <3>2. status' = SetStatusFlags(status, {b}, {"valid"})
        BY <1>1, <1>8
      <3> QED
        BY <3>1, <3>2, SetClean
    <2> HIDE DEF x
    <2>3. x.detach = Anc[tip] \ Anc[tip] /\ Anc[tip] \ x.detach = Chain
      BY <2>1 DEF Chain
    <2>4. CallerClean(status', x, tip')
      BY <1>1, <1>2, <1>5, <2>1, <2>2, <2>3 DEF CallerClean
    <2> QED
      BY <1>5, <1>6, <1>8, <2>4, CleanMove
  <1> QED
    BY <1>1, <1>7, <1>8

(* A caller that starts on a verified plan. *)
LEMMA PlannedCallerClean ==
    ASSUME NEW s, NEW x, x.pc = "apply", NEW D, NEW A, x.detach = D, x.attach = A,
           \E m \in Blocks : D = Chain \ Anc[m], Clean(s, Chain), Clean(s, A)
    PROVE  CallerClean(s, x, tip)
  BY DEF CallerClean, Clean, Chain

LEMMA ReorganizeClean ==
    ASSUME OneCaller, CInv, PlanInv, CleanInv, Plain, NEW t \in Threads, Reorganize(t)
    PROVE  CleanInv'
  <1> DEFINE b == th[t].blk
             nodes == GetReorganizeNodes(status, b)
             check == VerifyReorganization(nodes.status, nodes.detach, nodes.attach)
             x == [th[t] EXCEPT !.pc = "apply", !.detach = nodes.detach,
                                !.attach = nodes.attach]
  <1>1. /\ th[t].pc = "connect" /\ Work[b] > Work[tip] /\ UNCHANGED <<tip, orphans>>
        /\ status' = check.status
        /\ \/ check.ok /\ th' = [th EXCEPT ![t] = x]
           \/ th' = [th EXCEPT ![t] = Idle]
    BY DEF Reorganize, Finish
  <1>2. /\ th[t] \in ThreadStates /\ tip \in Blocks
        /\ CallerOK(status, th[t]) /\ StatusOK(status) /\ SameData(status, status)
        /\ orphans \in Seq(NonGenesis) /\ StoredOnly(status) /\ OrphansNew(status, orphans)
        /\ Clean(status, Chain)
    BY <1>1, CleanNow
  <1>3. b \in NonGenesis /\ HaveData(status, b) /\ b \in Blocks
    BY <1>1, <1>2 DEF CallerOK, NonGenesis
  <1>4. b \notin Chain
    <2>1. Work[b] \in Nat /\ Work[tip] \in Nat
      BY <1>2, <1>3, ChainAssumption
    <2> QED
      BY <1>1, <1>2, <1>3, <2>1, MoreWorkOff
  <1> HIDE DEF b, nodes, check
  <1>5. /\ StoredOnly(check.status) /\ Clean(check.status, Chain)
        /\ SameData(status, check.status)
        /\ check.ok => Clean(check.status, nodes.attach)
        /\ \E m \in Blocks : nodes.detach = Chain \ Anc[m]
    BY <1>2, <1>3, <1>4, PlannedClean DEF nodes, check
  <1>6. OrphansNew(status', orphans')
    BY <1>1, <1>2, <1>5, OrphansStayNew
  <1>7. CASE th' = [th EXCEPT ![t] = Idle]
    BY <1>1, <1>2, <1>5, <1>6, <1>7, IdleClean, CleanMove DEF Chain
  <1>8. CASE check.ok /\ th' = [th EXCEPT ![t] = x]
    <2>1. x.pc = "apply" /\ x.detach = nodes.detach /\ x.attach = nodes.attach
      BY <1>2 DEF ThreadStates
    <2> HIDE DEF x
    <2>2. CallerClean(status', x, tip')
      BY <1>1, <1>5, <1>8, <2>1, PlannedCallerClean
    <2> QED
      BY <1>1, <1>5, <1>6, <1>8, <2>2, CleanMove
  <1> QED
    BY <1>1, <1>7, <1>8

(* disconnectBlock finds that the block is the tip, as the blocks to       *)
(* detach are the top of the chain.                                        *)
LEMMA DisconnectClean ==
    ASSUME OneCaller, CInv, PlanInv, CleanInv, Plain, NEW t \in Threads, DisconnectBlock(t)
    PROVE  CleanInv'
  <1> DEFINE n == Highest(th[t].detach)
             x == [th[t] EXCEPT !.detach = th[t].detach \ {n}]
  <1>1. /\ th[t].pc = "apply" /\ th[t].detach # {} /\ UNCHANGED <<status, orphans>>
        /\ n = tip => tip' = Parent[n] /\ th' = [th EXCEPT ![t] = x]
    BY DEF DisconnectBlock
  <1>2. /\ th[t] \in ThreadStates /\ tip \in Blocks
        /\ StoredOnly(status) /\ OrphansNew(status, orphans)
        /\ CallerClean(status, th[t], tip)
    BY CleanNow
  <1>3. PICK m \in Blocks : th[t].detach = Anc[tip] \ Anc[m]
    BY <1>2 DEF CallerClean
  <1>4. n = tip /\ tip \in th[t].detach
    BY <1>1, <1>2, <1>3, PlanFirst
  <1> HIDE DEF n
  <1>5. tip \in NonGenesis /\ tip \notin Anc[m]
    BY <1>2, <1>3, <1>4, Ancestors DEF NonGenesis
  <1>6. tip' = Parent[tip] /\ th' = [th EXCEPT ![t] = x]
    BY <1>1, <1>4
  <1>7. x.pc = "apply" /\ x.detach = th[t].detach \ {tip} /\ x.attach = th[t].attach
    BY <1>1, <1>2, <1>4 DEF ThreadStates
  <1> HIDE DEF x
  <1>8. x.detach = Anc[Parent[tip]] \ Anc[m]
    BY <1>3, <1>5, <1>7, PlanDisconnect
  <1>9. Anc[Parent[tip]] \ x.detach = Anc[tip] \ th[t].detach
    BY <1>4, <1>5, <1>7, ParentChain
  <1>10. CallerClean(status, x, Parent[tip])
    BY <1>2, <1>7, <1>8, <1>9 DEF CallerClean
  <1> QED
    BY <1>1, <1>2, <1>6, <1>10, CleanMove

LEMMA ConnectClean ==
    ASSUME OneCaller, CInv, PlanInv, CleanInv, Plain, NEW t \in Threads, ConnectBlock(t)
    PROVE  CleanInv'
  <1> DEFINE n == Lowest(th[t].attach)
             x == [th[t] EXCEPT !.attach = th[t].attach \ {n}]
  <1>1. /\ th[t].pc = "apply" /\ th[t].detach = {} /\ th[t].attach # {}
        /\ UNCHANGED <<status, orphans>>
        /\ Parent[n] = tip => tip' = n /\ th' = [th EXCEPT ![t] = x]
    BY DEF ConnectBlock
  <1>2. /\ th[t] \in ThreadStates /\ tip \in Blocks /\ CallerPlan(th[t], tip)
        /\ StoredOnly(status) /\ OrphansNew(status, orphans)
        /\ CallerClean(status, th[t], tip)
    BY CleanNow
  <1>3. PICK m \in Blocks : PlanTo(th[t], tip, m)
    BY <1>1, <1>2 DEF CallerPlan
  <1>4. n \in NonGenesis /\ Parent[n] = tip /\ n \in th[t].attach
    BY <1>1, <1>2, <1>3, PlanConnect DEF PlanTo
  <1> HIDE DEF n
  <1>5. tip' = n /\ th' = [th EXCEPT ![t] = x]
    BY <1>1, <1>4
  <1>6. x.pc = "apply" /\ x.detach = {} /\ x.attach = th[t].attach \ {n}
    BY <1>1, <1>2 DEF ThreadStates
  <1> HIDE DEF x
  <1>7. n \in Blocks /\ Anc[n] = Anc[tip] \cup {n}
    BY <1>4, TreeAssumption DEF NonGenesis
  <1>8. Clean(status, Anc[n])
    BY <1>1, <1>2, <1>4, <1>7 DEF CallerClean, Clean
  <1>9. x.detach = Anc[n] \ Anc[n] /\ Anc[n] \ x.detach = Anc[n] /\ Clean(status, x.attach)
    BY <1>2, <1>6 DEF CallerClean, Clean
  <1>10. CallerClean(status, x, n)
    BY <1>6, <1>7, <1>8, <1>9 DEF CallerClean
  <1> QED
    BY <1>1, <1>2, <1>5, <1>10, CleanMove

LEMMA SwitchClean ==
    ASSUME OneCaller, CInv, PlanInv, CleanInv, Plain, NEW t \in Threads, SwitchBranch(t)
    PROVE  CleanInv'
  <1> DEFINE nodes(b) == GetReorganizeNodes(status, b)
             check(b) == VerifyReorganization(nodes(b).status, nodes(b).detach, nodes(b).attach)
             x(b) == [th[t] EXCEPT !.op = "switch", !.detach = nodes(b).detach,
                                   !.attach = nodes(b).attach]
  <1>1. th[t].pc = "apply" /\ th[t].detach = {} /\ UNCHANGED <<tip, orphans>>
    BY DEF SwitchBranch
  <1>2. /\ th[t] \in ThreadStates /\ tip \in Blocks /\ StatusOK(status)
        /\ SameData(status, status) /\ orphans \in Seq(NonGenesis) /\ StoredOnly(status)
        /\ OrphansNew(status, orphans) /\ CallerClean(status, th[t], tip)
    BY CleanNow
  <1>3. Clean(status, Chain)
    <2>1. Chain \ th[t].detach = Chain
      BY <1>1
    <2> QED
      BY <1>2, <2>1 DEF CallerClean, Chain
  <1>4. CASE th' = [th EXCEPT ![t] = Idle] /\ status' = status
    BY <1>1, <1>2, <1>3, <1>4, IdleClean, CleanMove DEF Chain
  <1>5. ASSUME NEW b \in InactiveTips, status' = check(b).status,
               \/ check(b).ok /\ th' = [th EXCEPT ![t] = x(b)]
               \/ th' = [th EXCEPT ![t] = Idle]
        PROVE  CleanInv'
    <2>1. b \in NonGenesis /\ b \notin Chain /\ HaveData(status, b)
      BY <1>2, Ancestors DEF InactiveTips, NonGenesis, StoredOnly, Chain
    <2> HIDE DEF nodes, check
    <2>2. /\ StoredOnly(check(b).status) /\ Clean(check(b).status, Chain)
          /\ SameData(status, check(b).status)
          /\ check(b).ok => Clean(check(b).status, nodes(b).attach)
          /\ \E m \in Blocks : nodes(b).detach = Chain \ Anc[m]
      BY <1>2, <1>3, <2>1, PlannedClean DEF nodes, check
    <2>3. OrphansNew(status', orphans')
      BY <1>1, <1>2, <1>5, <2>2, OrphansStayNew
    <2>4. CASE th' = [th EXCEPT ![t] = Idle]
      BY <1>1, <1>2, <1>5, <2>2, <2>3, <2>4, IdleClean, CleanMove DEF Chain
    <2>5. CASE check(b).ok /\ th' = [th EXCEPT ![t] = x(b)]
      <3>1. x(b).pc = "apply" /\ x(b).detach = nodes(b).detach /\ x(b).attach = nodes(b).attach
        BY <1>1, <1>2 DEF ThreadStates
      <3> HIDE DEF x
      <3>2. CallerClean(status', x(b), tip')
        BY <1>1, <1>5, <2>2, <2>5, <3>1, PlannedCallerClean
      <3> QED
        BY <1>5, <2>2, <2>3, <2>5, <3>2, CleanMove
    <2> QED
      BY <1>5, <2>4, <2>5
  <1>6. \/ th' = [th EXCEPT ![t] = Idle] /\ status' = status
        \/ \E b \in InactiveTips :
              /\ status' = check(b).status
              /\ \/ check(b).ok /\ th' = [th EXCEPT ![t] = x(b)]
                 \/ th' = [th EXCEPT ![t] = Idle]
    BY DEF SwitchBranch, Finish
  <1> HIDE DEF nodes, check, x
  <1> QED
    BY <1>4, <1>5, <1>6

LEMMA ReconsiderClean ==
    ASSUME OneCaller, CInv, PlanInv, CleanInv, Plain, NEW t \in Threads,
           NEW b \in NonGenesis, ReconsiderBlock(t, b)
    PROVE  CleanInv'
  <1> DEFINE one == UnsetStatusFlags(status, {b}, {"invalidAncestor", "failed"})
             cleared == UnsetStatusFlags(one, IndexDescendants(b), {"invalidAncestor"})
             nodes(n) == GetReorganizeNodes(cleared, n)
             check(n) == VerifyReorganization(nodes(n).status, nodes(n).detach, nodes(n).attach)
             x(n) == [Idle EXCEPT !.pc = "apply", !.op = "reconsider", !.blk = b,
                                  !.detach = nodes(n).detach, !.attach = nodes(n).attach]
  <1>1. th[t].pc = "idle" /\ UNCHANGED <<tip, orphans>>
    BY DEF ReconsiderBlock
  <1>2. /\ th[t] \in ThreadStates /\ tip \in Blocks /\ Chain \in SUBSET Blocks /\ StatusOK(status)
        /\ SameData(status, status) /\ orphans \in Seq(NonGenesis) /\ StoredOnly(status)
        /\ OrphansNew(status, orphans) /\ CallerPlan(th[t], tip) /\ Clean(status, Chain)
    BY <1>1, CleanNow
  <1>3. StatusOK(cleared) /\ SameData(status, cleared) /\ StoredOnly(cleared) /\ Clean(cleared, Chain)
    <2>1. StatusOK(one) /\ SameData(status, one) /\ StoredOnly(one) /\ Clean(one, Chain)
      BY <1>2, UnsetFlagsOK, UnsetStored, UnsetClean DEF Flags
    <2> HIDE DEF one
    <2>2. StatusOK(cleared) /\ SameData(one, cleared) /\ StoredOnly(cleared) /\ Clean(cleared, Chain)
      BY <1>2, <2>1, UnsetFlagsOK, UnsetStored, UnsetClean DEF Flags
    <2> QED
      BY <2>1, <2>2, SameDataTrans
  <1>4. \E n \in InactiveTips \cup {tip} :
          \/ status' = cleared /\ th' = th
          \/ /\ ~(Work[n] <= Work[tip]) /\ status' = check(n).status
             /\ \/ check(n).ok /\ th' = [th EXCEPT ![t] = x(n)]
                \/ th' = th
    BY DEF ReconsiderBlock
  <1> HIDE DEF one, cleared
  <1>5. \A r : Clean(r, Chain) => CallerClean(r, th[t], tip)
    <2>1. th[t].detach = {} /\ th[t].attach = {} /\ th[t].pc # "connect"
      BY <1>1, <1>2 DEF CallerPlan
    <2> QED
      BY <1>2, <2>1, RestClean DEF Chain
  <1>6. CASE status' = cleared /\ th' = th
    <2>1. OrphansNew(status', orphans')
      BY <1>1, <1>2, <1>3, <1>6, OrphansStayNew
    <2>2. CallerClean(status', th[t], tip')
      BY <1>1, <1>3, <1>5, <1>6
    <2> QED
      BY <1>3, <1>6, <2>1, <2>2, CleanMove
  <1>7. ASSUME NEW n \in InactiveTips \cup {tip}, ~(Work[n] <= Work[tip]), status' = check(n).status,
               \/ check(n).ok /\ th' = [th EXCEPT ![t] = x(n)]
               \/ th' = th
        PROVE  CleanInv'
    <2>1. n \in NonGenesis /\ n \notin Chain /\ HaveData(status, n)
      <3>1. n \in Blocks
        BY <1>2 DEF InactiveTips
      <3>2. n \in NonGenesis /\ n \notin Chain
        BY <1>2, <1>7, <3>1, MoreWorkOff
      <3>3. n # tip
        BY <1>2, <3>2, Ancestors DEF Chain
      <3> QED
        BY <1>2, <3>1, <3>2, <3>3 DEF InactiveTips, StoredOnly
    <2> HIDE DEF nodes, check
    <2>2. /\ StoredOnly(check(n).status) /\ Clean(check(n).status, Chain)
          /\ SameData(status, check(n).status)
          /\ check(n).ok => Clean(check(n).status, nodes(n).attach)
          /\ \E m \in Blocks : nodes(n).detach = Chain \ Anc[m]
      BY <1>3, <2>1, PlannedClean DEF nodes, check
    <2>3. OrphansNew(status', orphans')
      BY <1>1, <1>2, <1>7, <2>2, OrphansStayNew
    <2>4. CASE th' = th
      <3>1. CallerClean(status', th[t], tip')
        BY <1>1, <1>5, <1>7, <2>2
      <3> QED
        BY <1>7, <2>2, <2>3, <2>4, <3>1, CleanMove
    <2>5. CASE check(n).ok /\ th' = [th EXCEPT ![t] = x(n)]
      <3>1. x(n).pc = "apply" /\ x(n).detach = nodes(n).detach /\ x(n).attach = nodes(n).attach
        BY DEF Idle
      <3> HIDE DEF x
      <3>2. CallerClean(status', x(n), tip')
        BY <1>1, <1>7, <2>2, <2>5, <3>1, PlannedCallerClean
      <3> QED
        BY <1>7, <2>2, <2>3, <2>5, <3>2, CleanMove
    <2> QED
      BY <1>7, <2>4, <2>5
  <1> HIDE DEF nodes, check, x
  <1> QED
    BY <1>4, <1>6, <1>7

(* InvalidateBlock off the best chain marks nothing that is on it. *)
LEMMA InvalidateSideClean ==
    ASSUME OneCaller, CInv, PlanInv, CleanInv, Plain, NEW t \in Threads,
           NEW b \in NonGenesis, InvalidateSideBlock(t, b)
    PROVE  CleanInv'
  <1> DEFINE marked == SetStatusFlags(status, {b}, {"failed"})
             below == {d \in IndexDescendants(b) : ~KnownInvalid(status, d)}
             all == SetStatusFlags(marked, below, {"invalidAncestor"})
  <1>1. /\ th[t].pc = "idle" /\ UNCHANGED <<tip, orphans, th>> /\ Known(status, b) /\ b \notin Chain
        /\ status' = UnsetStatusFlags(all, below \cup {b}, {"valid"})
    BY DEF InvalidateSideBlock
  <1>2. /\ tip \in Blocks /\ Chain \in SUBSET Blocks /\ StatusOK(status)
        /\ orphans \in Seq(NonGenesis) /\ StoredOnly(status) /\ OrphansNew(status, orphans)
        /\ CallerPlan(th[t], tip) /\ Clean(status, Chain)
    BY <1>1, CleanNow
  <1>3. b \in Blocks /\ HaveData(status, b) /\ {b} \cap Chain = {}
    BY <1>1, <1>2 DEF StoredOnly, NonGenesis
  <1>4. \A d \in below : d \in Blocks /\ HaveData(status, d) /\ d \notin Chain
    BY <1>1, <1>2, TreeAssumption DEF IndexDescendants, Descendants, StoredOnly, Chain
  <1> HIDE DEF below
  <1>5. StatusOK(marked) /\ SameData(status, marked) /\ StoredOnly(marked) /\ Clean(marked, Chain)
    BY <1>2, <1>3, SetFlagsOK, SetStored, SetClean DEF Flags
  <1>6. below \cap Chain = {} /\ \A d \in below : HaveData(marked, d)
    BY <1>4, <1>5 DEF SameData
  <1> HIDE DEF marked
  <1>7. StatusOK(all) /\ SameData(marked, all) /\ StoredOnly(all) /\ Clean(all, Chain)
    BY <1>2, <1>5, <1>6, SetFlagsOK, SetStored, SetClean DEF Flags
  <1> HIDE DEF all
  <1>8. SameData(all, status') /\ StoredOnly(status') /\ Clean(status', Chain)
    BY <1>1, <1>2, <1>7, UnsetFlagsOK, UnsetStored, UnsetClean DEF Flags
  <1>9. SameData(status, status')
    BY <1>5, <1>7, <1>8, SameDataTrans
  <1>10. OrphansNew(status', orphans')
    BY <1>1, <1>2, <1>9, OrphansStayNew
  <1>11. CallerClean(status', th[t], tip')
    <2>1. th[t].detach = {} /\ th[t].attach = {}
      BY <1>1, <1>2 DEF CallerPlan
    <2> QED
      BY <1>1, <1>2, <1>8, <2>1, RestClean DEF Chain
  <1> QED
    BY <1>1, <1>8, <1>10, <1>11, CleanMove

(* InvalidateBlock on the best chain: as nothing on the chain was marked,  *)
(* all that is marked now is to be detached, from the tip down, and        *)
(* verifyReorganizationValidity has nothing against it.                    *)
LEMMA InvalidateChainClean ==
    ASSUME OneCaller, CInv, PlanInv, CleanInv, Plain, NEW t \in Threads,
           NEW b \in NonGenesis, InvalidateChainBlock(t, b)
    PROVE  CleanInv'
  <1> DEFINE below == {d \in Chain \ Anc[b] : ~KnownInvalid(status, d)}
             detach == below \cup {b}
             check == VerifyReorganization(status, detach, {})
             marked == SetStatusFlags(status, {b}, {"failed"})
             all == SetStatusFlags(marked, below, {"invalidAncestor"})
             x == [Idle EXCEPT !.pc = "apply", !.op = "invalidate", !.blk = b, !.detach = detach]
  <1>1. /\ th[t].pc = "idle" /\ UNCHANGED <<tip, orphans>> /\ b \in Chain
        /\ status' = UnsetStatusFlags(all, detach, {"valid"})
        /\ check.ok => th' = [th EXCEPT ![t] = x]
    BY DEF InvalidateChainBlock
  <1>2. /\ tip \in Blocks /\ Chain \in SUBSET Blocks /\ StatusOK(status)
        /\ orphans \in Seq(NonGenesis) /\ StoredOnly(status) /\ OrphansNew(status, orphans)
        /\ Clean(status, Chain)
    BY <1>1, CleanNow
  <1>3. \A d \in Chain : HaveData(status, d)
    BY DEF CInv, ChainInv
  <1> DEFINE p == Parent[b]
             rest == Anc[p]
  <1>4. /\ p \in Blocks /\ b \in Blocks /\ Anc[b] = rest \cup {b} /\ b \notin rest
        /\ Anc[b] \subseteq Chain
    BY <1>1, <1>2, ParentChain, TreeAssumption DEF Chain
  <1>5. below = Chain \ Anc[b]
    BY <1>2 DEF Clean
  <1>6. detach = Chain \ rest /\ rest \subseteq Chain /\ rest \cap detach = {}
    BY <1>1, <1>4, <1>5
  <1>7. check.ok
    <2>1. detach # {} /\ detach = Anc[tip] \ Anc[p]
      BY <1>6 DEF Chain
    <2>2. Highest(detach) = tip
      <3>1. tip \in Blocks /\ p \in Blocks
        BY <1>2, <1>4
      <3> HIDE DEF detach, p
      <3> QED
        BY ONLY <2>1, <3>1, PlanFirst
    <2>3. {n \in {} : Stops(status, n)} = {}
      OBVIOUS
    <2> QED
      BY <2>2, <2>3 DEF VerifyReorganization
  <1> HIDE DEF check
  <1>8. \A d \in below : d \in Chain /\ d \notin rest
    BY <1>4, <1>5
  <1> HIDE DEF below, rest, p
  <1>9. rest \in SUBSET Blocks /\ Clean(status, rest) /\ {b} \cap rest = {} /\ below \cap rest = {}
    BY <1>2, <1>4, <1>6, <1>8 DEF Clean
  <1>10. StatusOK(marked) /\ SameData(status, marked) /\ StoredOnly(marked) /\ Clean(marked, rest)
    BY <1>1, <1>2, <1>3, <1>9, SetFlagsOK, SetStored, SetClean DEF Flags
  <1>11. \A d \in below : HaveData(marked, d)
    BY <1>2, <1>3, <1>8, <1>10 DEF SameData
  <1> HIDE DEF marked
  <1>12. StatusOK(all) /\ SameData(marked, all) /\ StoredOnly(all) /\ Clean(all, rest)
    BY <1>9, <1>10, <1>11, SetFlagsOK, SetStored, SetClean DEF Flags
  <1> HIDE DEF all
  <1>13. SameData(all, status') /\ StoredOnly(status') /\ Clean(status', rest)
    BY <1>1, <1>9, <1>12, UnsetFlagsOK, UnsetStored, UnsetClean DEF Flags
  <1>14. SameData(status, status')
    BY <1>10, <1>12, <1>13, SameDataTrans
  <1>15. OrphansNew(status', orphans')
    BY <1>1, <1>2, <1>14, OrphansStayNew
  <1> HIDE DEF detach
  <1>16. x.detach = detach /\ x.attach = {} /\ x.pc = "apply"
    BY DEF Idle
  <1>17. th' = [th EXCEPT ![t] = x]
    BY <1>1, <1>7
  <1> HIDE DEF x
  <1>18. CallerClean(status', x, tip')
    <2>1. Anc[tip] \ x.detach = rest /\ x.detach = Anc[tip] \ Anc[p] /\ Clean(status', x.attach)
      BY <1>6, <1>16 DEF Chain, Clean, rest
    <2> QED
      BY <1>1, <1>4, <1>13, <1>16, <2>1 DEF CallerClean
  <1> QED
    BY <1>13, <1>15, <1>17, <1>18, CleanMove

LEMMA EndClean ==
    ASSUME OneCaller, CInv, PlanInv, CleanInv, Plain, NEW t \in Threads, Return(t) \/ CallDone(t)
    PROVE  CleanInv'
  <1>1. /\ UNCHANGED <<status, tip, orphans>> /\ th' = [th EXCEPT ![t] = Idle]
        /\ th[t].pc = "orphans" \/ th[t].detach = {}
    BY DEF Return, CallDone, Finish
  <1>2. /\ tip \in Blocks /\ StoredOnly(status) /\ OrphansNew(status, orphans)
        /\ CallerClean(status, th[t], tip) /\ CallerPlan(th[t], tip)
    BY CleanNow
  <1>3. Anc[tip] \ th[t].detach = Anc[tip]
    BY <1>1, <1>2 DEF CallerPlan
  <1>4. CallerClean(status, Idle, tip)
    BY <1>2, <1>3, IdleClean DEF CallerClean
  <1> QED
    BY <1>1, <1>2, <1>4, CleanMove

(* What a step does to the count of crashes and to the best header. *)
LEMMA StepPlain ==
    ASSUME CInv, [Next]_vars, Plain'
    PROVE  Plain /\ ~Restart /\ \A t \in Threads, b \in NonGenesis : ~ProcessBlockHeader(t, b)
  <1>1. ~Restart
    BY DEF Restart, Plain, CInv, RestInv
  <1>2. \A t \in Threads, b \in NonGenesis : ~ProcessBlockHeader(t, b)
    BY HeaderNotPlain
  <1>3. ASSUME NEW t \in Threads, Call(t) PROVE UNCHANGED <<bestHeader, crashes>>
    <2>1. PICK b \in NonGenesis :
              \/ ProcessBlock(t, b)
              \/ RefuseDuplicate(t, b)
              \/ ProcessBlockHeader(t, b)
              \/ InvalidateSideBlock(t, b)
              \/ InvalidateChainBlock(t, b)
              \/ ReconsiderBlock(t, b)
      BY <1>3 DEF Call
    <2>2. ~ProcessBlockHeader(t, b)
      BY <1>2
    <2> QED
      BY <2>1, <2>2 DEF ProcessBlock, RefuseDuplicate, InvalidateSideBlock, InvalidateChainBlock,
                        ReconsiderBlock, vars
  <1>4. ASSUME NEW t \in Threads, Step(t) PROVE UNCHANGED <<bestHeader, crashes>>
    <2>1. ExtendBestChain(t) \/ StaySideChain(t) \/ Reorganize(t) => UNCHANGED <<bestHeader, crashes>>
      BY DEF ExtendBestChain, StaySideChain, Reorganize
    <2>2. DisconnectBlock(t) \/ ConnectBlock(t) \/ BlockConnected(t) => UNCHANGED <<bestHeader, crashes>>
      BY DEF DisconnectBlock, ConnectBlock, BlockConnected
    <2>3. ProcessOrphans(t) \/ Return(t) \/ SwitchBranch(t) \/ CallDone(t) => UNCHANGED <<bestHeader, crashes>>
      BY DEF ProcessOrphans, Return, SwitchBranch, CallDone
    <2> QED
      BY <1>4, <2>1, <2>2, <2>3 DEF Step
  <1>5. UNCHANGED vars => UNCHANGED <<bestHeader, crashes>>
    BY DEF vars
  <1>6. UNCHANGED <<bestHeader, crashes>>
    BY <1>1, <1>3, <1>4, <1>5 DEF Next
  <1> QED
    BY <1>1, <1>2, <1>6 DEF Plain

LEMMA StepClean ==
    ASSUME OneCaller, CInv, PlanInv, CleanInv, [Next]_vars
    PROVE  CleanInv'
  <1>1. CASE ~Plain'
    BY <1>1 DEF CleanInv
  <1>2. CASE Plain'
    <2>0. Plain /\ ~Restart /\ \A t \in Threads, b \in NonGenesis : ~ProcessBlockHeader(t, b)
      BY <1>2, StepPlain
    <2>1. ASSUME UNCHANGED vars PROVE CleanInv'
      BY <2>1 DEF vars, CleanInv, Plain
    <2>2. ASSUME NEW t \in Threads, Call(t) PROVE CleanInv'
      BY <2>0, <2>1, <2>2, ProcessBlockClean, InvalidateSideClean, InvalidateChainClean,
         ReconsiderClean DEF Call, RefuseDuplicate
    <2>3. ASSUME NEW t \in Threads, Step(t) PROVE CleanInv'
      BY <2>0, <2>3, ExtendClean, StayClean, ReorganizeClean, DisconnectClean, ConnectClean,
         BlockConnectedClean, OrphansClean, SwitchClean, EndClean DEF Step
    <2> QED
      BY <2>0, <2>1, <2>2, <2>3 DEF Next
  <1> QED
    BY <1>1, <1>2

LEMMA InitClean == Init => CleanInv
  <1> SUFFICES ASSUME Init PROVE CleanInv
    OBVIOUS
  <1>1. /\ Genesis \in Blocks /\ tip = Genesis /\ Anc[Genesis] = {Genesis} /\ orphans = <<>>
        /\ status = [b \in Blocks |-> IF b = Genesis THEN {"data", "valid"} ELSE {}]
        /\ \A t \in Threads : th[t] = Idle
    BY TreeAssumption DEF Init
  <1>2. StoredOnly(status) /\ OrphansNew(status, orphans)
    BY <1>1 DEF StoredOnly, OrphansNew, Known, HaveData
  <1>3. Clean(status, Anc[tip])
    BY <1>1 DEF Clean, KnownInvalid
  <1> QED
    BY <1>1, <1>2, <1>3, IdleClean DEF CleanInv

(* With one caller at a time, on every tree of blocks, for any number of   *)
(* calls of InvalidateBlock and ReconsiderBlock and in any order: as long  *)
(* as neither is called, the best chain between calls is one with the most *)
(* work; and once they are, no block that they (or the checks) have left   *)
(* marked invalid is on the best chain between calls.  The second half is  *)
(* about nodes that have not crashed and take blocks without headers first:*)
(* a block invalidated while only its header was known is stored later     *)
(* without a look at its mark (maybeAcceptBlock).                          *)
THEOREM TipAlwaysRight ==
    ASSUME OneCaller
    PROVE  Spec => []TipRight
  <1> DEFINE Inv == CInv /\ PlanInv /\ CleanInv
  <1>1. Init => Inv
    BY InitC, InitPlan, InitClean
  <1>2. Inv /\ [Next]_vars => Inv'
    BY StepC, StepPlan, StepClean
  <1>3. Inv => (calls # 0 /\ NotBoth => InvalidNotActive)
    <2> SUFFICES ASSUME Inv, Plain, Quiet PROVE Clean(status, Chain)
      BY DEF NotBoth, Plain, InvalidNotActive, Clean
    <2>1. PICK t \in Threads : TRUE
      BY DEF OneCaller
    <2>2. th[t].pc # "apply"
      BY DEF Quiet
    <2> QED
      BY <2>2, CleanNow
  <1> HIDE DEF Inv
  <1>4. Spec => [](calls # 0 /\ NotBoth => InvalidNotActive)
    BY <1>1, <1>2, <1>3, PTL DEF Spec
  <1>5. Spec => [](calls = 0 => MostWork)
    BY MostWorkWins
  <1>6. (calls # 0 /\ NotBoth => InvalidNotActive) /\ (calls = 0 => MostWork) => TipRight
    BY DEF TipRight
  <1> QED
    BY <1>4, <1>5, <1>6, PTL

-----------------------------------------------------------------------------
(* Checkpoints: the same tree of blocks, and a list of checkpoints. *)

CONSTANTS WorkOf, TimeOf, Points
VARIABLES index, data, best, checkpointNode, nextCheckpoint, failed

CP == INSTANCE Checkpoints

(* Whole branches are in I, and no block of another branch at the height   *)
(* of a checkpoint.                                                        *)
Verified(I) ==
    /\ I \subseteq Blocks
    /\ \A b \in I : Anc[b] \subseteq I
    /\ \A i \in DOMAIN Points : \A b \in I : Height[b] = Height[Points[i]] => b = Points[i]

(* The node that is cached is a checkpoint and below d. *)
CacheOK(c, d) ==
    /\ c \in [node : Blocks \cup {NoBlock}, next : 0..Len(Points), failed : BOOLEAN]
    /\ c.node # NoBlock => c.node \in Anc[d] /\ \E i \in DOMAIN Points : c.node = Points[i]
    /\ ~ c.failed

(* The inductive invariant of the checkpoints. *)
CheckpointInv ==
    /\ Verified(index)
    /\ best \in data /\ data \subseteq index
    /\ CacheOK([node |-> checkpointNode, next |-> nextCheckpoint, failed |-> failed], best)

(* A branch has a block at each height up to its own. *)
LEMMA AncestorAtHeight ==
    ASSUME NEW b \in Blocks, NEW h \in Nat, h <= Height[b]
    PROVE  \E a \in Anc[b] : Height[a] = h
  <1> DEFINE hs == {Height[a] : a \in {x \in Anc[b] : h <= Height[x]}}
  <1>1. \A x \in Blocks : x \in Anc[x] /\ Anc[x] \subseteq Blocks /\ Height[x] \in Nat
    BY Ancestors, TreeAssumption
  <1>2. hs \subseteq Nat /\ Height[b] \in hs
    BY <1>1
  <1>3. PICK m \in hs : \A k \in hs : m <= k
    <2> HIDE DEF hs
    <2> QED
      BY <1>2, NatMin
  <1>4. PICK a \in Anc[b] : h <= Height[a] /\ Height[a] = m
    BY <1>3
  <1>5. a \in Blocks /\ Anc[a] \subseteq Anc[b]
    BY <1>1, TreeAssumption
  <1>6. CASE a = Genesis
    BY <1>4, <1>6, TreeAssumption
  <1>7. CASE a \in NonGenesis /\ Height[a] # h
    <2>1. Parent[a] \in Blocks /\ Height[a] = Height[Parent[a]] + 1 /\ Anc[a] = Anc[Parent[a]] \cup {a}
      BY <1>7, TreeAssumption
    <2>2. Parent[a] \in Anc[b] /\ Height[Parent[a]] \in Nat
      BY <1>1, <1>5, <2>1
    <2>3. h <= Height[Parent[a]]
      BY <1>1, <1>4, <1>5, <1>7, <2>1, <2>2
    <2>4. Height[Parent[a]] \in hs
      BY <2>2, <2>3
    <2>5. m <= Height[Parent[a]]
      BY <1>3, <2>4
    <2> QED
      BY <1>4, <2>1, <2>2, <2>5
  <1> QED
    BY <1>4, <1>5, <1>6, <1>7 DEF NonGenesis

(* Every indexed block as high as a checkpoint descends from it. *)
LEMMA ThroughPoint ==
    ASSUME CP!PointsAssumption, NEW I, Verified(I),
           NEW b \in I, NEW i \in DOMAIN Points, Height[b] >= Height[Points[i]]
    PROVE  Points[i] \in Anc[b] /\ Points[i] \in I
  <1>1. Points[i] \in Blocks /\ b \in Blocks
    BY DEF CP!PointsAssumption, Verified
  <1>2. Height[Points[i]] \in Nat /\ Height[b] \in Nat
    BY <1>1, TreeAssumption
  <1>3. PICK a \in Anc[b] : Height[a] = Height[Points[i]]
    BY <1>1, <1>2, AncestorAtHeight
  <1> QED
    BY <1>3 DEF Verified

(* The last of some of the checkpoints is one of them. *)
LEMMA LastPoint ==
    ASSUME CP!PointsAssumption, NEW S, S \subseteq DOMAIN Points, S # {}
    PROVE  CP!Max(S) \in S
  <1> DEFINE n == Len(Points)
             gs == {n - i : i \in S}
  <1>1. n \in Nat /\ \A i \in S : i \in 1..n
    BY DEF CP!PointsAssumption
  <1> HIDE DEF n
  <1>2. gs \subseteq Nat /\ gs # {}
    BY <1>1
  <1>3. PICK m \in gs : \A k \in gs : m <= k
    BY <1>2, NatMin
  <1>4. PICK i \in S : n - i = m
    BY <1>3
  <1>5. \A j \in S : n - i <= n - j
    BY <1>3, <1>4
  <1>6. \A j \in S : i >= j
    BY <1>1, <1>5
  <1> QED
    BY <1>6 DEF CP!Max

(* findPreviousCheckpoint leaves a checkpoint of the best chain in the     *)
(* cache, whatever it moves on by, and never fails.                        *)
LEMMA FindKeeps ==
    ASSUME CP!PointsAssumption, Verified(index), best \in index, NEW c, CacheOK(c, best)
    PROVE  CacheOK(CP!FindPreviousCheckpoint(c), best)
  <1> DEFINE known == {i \in DOMAIN Points : Points[i] \in index /\ Points[i] \in Anc[best]}
             after(i) == IF i < Len(Points) THEN i + 1 ELSE 0
             f == CP!FindPreviousCheckpoint(c)
  <1>1. Len(Points) \in Nat /\ DOMAIN Points = 1..Len(Points) /\ \A i \in DOMAIN Points : Points[i] \in Blocks
    BY DEF CP!PointsAssumption
  <1>2. c = [node |-> c.node, next |-> c.next, failed |-> c.failed] /\ c.failed = FALSE
    BY DEF CacheOK
  <1>3. \A i \in DOMAIN Points : after(i) \in 0..Len(Points)
    BY <1>1
  <1>4. ASSUME NEW i \in DOMAIN Points, Points[i] \in Anc[best], f = [c EXCEPT !.node = Points[i], !.next = after(i)]
        PROVE  CacheOK(f, best)
    <2>1. f = [node |-> Points[i], next |-> after(i), failed |-> FALSE]
      BY <1>2, <1>4
    <2> HIDE DEF f
    <2> QED
      BY <1>1, <1>3, <1>4, <2>1 DEF CacheOK
  <1>5. CASE Points = <<>>
    BY <1>5 DEF CP!FindPreviousCheckpoint
  <1>6. CASE Points # <<>> /\ c.node = NoBlock /\ c.next = 0 /\ known = {}
    <2>1. f = [node |-> c.node, next |-> 1, failed |-> FALSE]
      BY <1>2, <1>6 DEF CP!FindPreviousCheckpoint, CP!BestChain
    <2>2. 1 \in 0..Len(Points)
      BY <1>1, <1>6
    <2> HIDE DEF f, known, after
    <2> QED
      <3>1. f \in [node : Blocks \cup {NoBlock}, next : 0..Len(Points), failed : BOOLEAN]
        BY <1>6, <2>1, <2>2
      <3>2. f.node = NoBlock /\ ~ f.failed
        BY <1>6, <2>1
      <3> QED
        BY <3>1, <3>2 DEF CacheOK, f
  <1>7. CASE Points # <<>> /\ c.node = NoBlock /\ c.next = 0 /\ known # {}
    <2>1. CP!Max(known) \in known
      BY <1>7, LastPoint
    <2>2. f = [c EXCEPT !.node = Points[CP!Max(known)], !.next = after(CP!Max(known))]
      BY <1>7 DEF CP!FindPreviousCheckpoint, CP!BestChain
    <2> QED
      BY <1>4, <2>1, <2>2
  <1>8. CASE Points # <<>> /\ ~ (c.node = NoBlock /\ c.next = 0)
    <2>1. CASE c.next = 0 \/ Height[best] < Height[Points[c.next]]
      BY <1>8, <2>1 DEF CP!FindPreviousCheckpoint
    <2>2. CASE ~ (c.next = 0 \/ Height[best] < Height[Points[c.next]])
      <3>1. c.next \in DOMAIN Points
        BY <1>1, <2>2 DEF CacheOK
      <3>2. Height[best] \in Nat /\ Height[Points[c.next]] \in Nat /\ best \in index
        BY <1>1, <3>1, TreeAssumption DEF Verified
      <3>3. Points[c.next] \in Anc[best] /\ Points[c.next] \in index
        BY <2>2, <3>1, <3>2, ThroughPoint
      <3>4. f = [c EXCEPT !.node = Points[c.next], !.next = after(c.next)]
        BY <1>8, <2>2, <3>3 DEF CP!FindPreviousCheckpoint
      <3> QED
        BY <1>4, <3>1, <3>3, <3>4
    <2> QED
      BY <2>1, <2>2
  <1> QED
    BY <1>5, <1>6, <1>7, <1>8

(* What CheckBlockHeaderContext lets pass agrees with the checkpoints and  *)
(* is not below the one that is cached then.                               *)
LEMMA ContextKeeps ==
    ASSUME CP!PointsAssumption, Verified(index), best \in index, NEW c, CacheOK(c, best), NEW b \in Blocks
    PROVE  LET v == CP!CheckBlockHeaderContext(c, b)
           IN  /\ CacheOK(v.cache, best) /\ v.ok \in BOOLEAN
               /\ v.ok => CP!VerifyCheckpoint(b) /\ ~ CP!ForkTooOld(v.cache, b)
  BY FindKeeps DEF CP!CheckBlockHeaderContext

LEMMA CheckKeeps ==
    ASSUME CP!PointsAssumption, CheckpointInv, NEW b \in Blocks
    PROVE  LET v == CP!CheckBlock(b)
           IN  /\ CacheOK(v.cache, best) /\ v.ok \in BOOLEAN
               /\ v.ok => CP!VerifyCheckpoint(b) /\ ~ CP!ForkTooOld(v.cache, b)
  <1> DEFINE found == CP!FindPreviousCheckpoint(CP!Cache)
  <1>1. Verified(index) /\ best \in index /\ CacheOK(CP!Cache, best)
    BY DEF CheckpointInv, CacheOK, CP!Cache
  <1>2. CacheOK(found, best) /\ ~ found.failed
    BY <1>1, FindKeeps DEF CacheOK
  <1> HIDE DEF found
  <1>3. CP!CheckBlock(b) = IF CP!TimeTooOld(found, b) THEN [ok |-> FALSE, cache |-> found]
                           ELSE CP!CheckBlockHeaderContext(found, b)
    BY <1>2 DEF found, CP!CheckBlock
  <1>4. CASE CP!TimeTooOld(found, b)
    BY <1>2, <1>3, <1>4
  <1>5. CASE ~ CP!TimeTooOld(found, b)
    BY <1>1, <1>2, <1>3, <1>5, ContextKeeps
  <1> QED
    BY <1>4, <1>5

(* A block that passes and whose parent is indexed can be indexed. *)
LEMMA IndexedKeeps ==
    ASSUME NEW I, Verified(I), NEW b \in NonGenesis, Parent[b] \in I, CP!VerifyCheckpoint(b)
    PROVE  Verified(I \cup {b})
  <1>1. b \in Blocks /\ Anc[b] = Anc[Parent[b]] \cup {b}
    BY TreeAssumption DEF NonGenesis
  <1> QED
    BY <1>1 DEF Verified, CP!VerifyCheckpoint

(* The cached checkpoint is below every block that is let in above it. *)
LEMMA PassedStays ==
    ASSUME CP!PointsAssumption, NEW I, Verified(I), NEW c, NEW d, CacheOK(c, d), NEW b \in I,
           ~ CP!ForkTooOld(c, b)
    PROVE  CacheOK(c, b)
  <1>1. CASE c.node = NoBlock
    BY <1>1 DEF CacheOK
  <1>2. CASE c.node # NoBlock
    <2>1. PICK i \in DOMAIN Points : c.node = Points[i]
      BY <1>2 DEF CacheOK
    <2>2. Height[b] \in Nat /\ Height[c.node] \in Nat
      BY <2>1, TreeAssumption DEF CP!PointsAssumption, Verified
    <2>3. Height[b] >= Height[Points[i]]
      BY <1>2, <2>1, <2>2 DEF CP!ForkTooOld
    <2>4. c.node \in Anc[b]
      BY <2>1, <2>3, ThroughPoint
    <2> QED
      BY <2>1, <2>4 DEF CacheOK
  <1> QED
    BY <1>1, <1>2

LEMMA CheckpointStep ==
    ASSUME CP!PointsAssumption, CheckpointInv, [CP!Next]_(CP!vars)
    PROVE  CheckpointInv'
  <1> USE DEF CheckpointInv
  <1>1. ASSUME NEW c, NEW d, CacheOK(c, d), CP!Remember(c), best' = d PROVE
          CacheOK([node |-> checkpointNode, next |-> nextCheckpoint, failed |-> failed], best)'
    <2>1. c = [node |-> c.node, next |-> c.next, failed |-> FALSE] /\ ~ c.failed /\ ~ failed
          /\ failed \in BOOLEAN /\ c.failed \in BOOLEAN
      BY <1>1 DEF CacheOK
    <2>2. checkpointNode' = c.node /\ nextCheckpoint' = c.next /\ failed' = FALSE
      BY <1>1, <2>1 DEF CP!Remember
    <2> QED
      BY <1>1, <2>1, <2>2 DEF CacheOK
  <1>2. CacheOK(CP!Cache, best)
    BY DEF CacheOK, CP!Cache
  <1>3. ASSUME NEW b \in NonGenesis, CP!ProcessBlockHeader(b) PROVE CheckpointInv'
    <2> DEFINE v == CP!CheckBlockHeaderContext(CP!Cache, b)
    <2>1. /\ CacheOK(v.cache, best)
          /\ v.ok => CP!VerifyCheckpoint(b)
      BY <1>2, ContextKeeps DEF NonGenesis
    <2>2. /\ Parent[b] \in index /\ CP!Remember(v.cache) /\ index' = IF v.ok THEN index \cup {b} ELSE index
          /\ data' = data /\ best' = best
      BY <1>3 DEF CP!ProcessBlockHeader
    <2> HIDE DEF v
    <2>3. Verified(index') /\ best' \in data' /\ data' \subseteq index'
      BY <2>1, <2>2, IndexedKeeps
    <2> QED
      BY <1>1, <2>1, <2>2, <2>3 DEF Verified
  <1>4. ASSUME NEW b \in NonGenesis, CP!ProcessBlock(b) PROVE CheckpointInv'
    <2> DEFINE v == CP!CheckBlock(b)
    <2>1. /\ CacheOK(v.cache, best)
          /\ v.ok => CP!VerifyCheckpoint(b) /\ ~ CP!ForkTooOld(v.cache, b)
      BY CheckKeeps DEF NonGenesis
    <2>2. /\ Parent[b] \in index /\ CP!Remember(v.cache)
          /\ IF v.ok THEN index' = index \cup {b} /\ data' = data \cup {b} /\ best' \in {b, best}
             ELSE index' = index /\ data' = data /\ best' = best
      BY <1>4 DEF CP!ProcessBlock, CP!BestAfter
    <2> HIDE DEF v
    <2>3. Verified(index') /\ best' \in data' /\ data' \subseteq index'
      BY <2>1, <2>2, IndexedKeeps
    <2>4. CacheOK(v.cache, best')
      <3>1. CASE best' = best
        BY <2>1, <3>1
      <3>2. CASE best' # best
        <4>1. v.ok /\ best' = b /\ b \in index'
          BY <2>2, <3>2
        <4> QED
          BY <2>1, <2>3, <4>1, PassedStays
      <3> QED
        BY <3>1, <3>2
    <2> QED
      BY <1>1, <2>2, <2>3, <2>4 DEF Verified
  <1>5. ASSUME CP!Restart PROVE CheckpointInv'
    BY <1>5 DEF CP!Restart, Verified, CacheOK
  <1>6. ASSUME UNCHANGED CP!vars PROVE CheckpointInv'
    BY <1>6 DEF CP!vars, Verified, CacheOK
  <1>7. CASE CP!Next
    BY <1>3, <1>4, <1>5, <1>7 DEF CP!Next, CP!NonGenesis, NonGenesis
  <1> QED
    BY <1>6, <1>7

(* For every tree of blocks and every list of checkpoints, whatever the    *)
(* order of headers, blocks and restarts and whatever work the branches    *)
(* have: the cached checkpoint stays on the best chain, its lookup never   *)
(* fails, and no other block is indexed at the height of a checkpoint      *)
(* (findPreviousCheckpoint, verifyCheckpoint).                             *)
THEOREM CheckpointsAlwaysKept ==
    CP!PointsAssumption => (CP!Spec => []CP!CheckpointsKept)
  <1> SUFFICES ASSUME CP!PointsAssumption
               PROVE  CP!Spec => []CP!CheckpointsKept
    OBVIOUS
  <1>1. CP!Init => CheckpointInv
    <2> SUFFICES ASSUME CP!Init PROVE CheckpointInv
      OBVIOUS
    <2>1. ASSUME NEW i \in DOMAIN Points, Height[Points[i]] = 0 PROVE Points[i] = Genesis
      <3>1. Points[i] \in Blocks
        BY DEF CP!PointsAssumption
      <3>2. ASSUME Points[i] \in NonGenesis PROVE FALSE
        <4>1. Height[Points[i]] = Height[Parent[Points[i]]] + 1 /\ Parent[Points[i]] \in Blocks
          BY <3>2, TreeAssumption
        <4>2. Height[Parent[Points[i]]] \in Nat
          BY <4>1, TreeAssumption
        <4> QED
          BY <2>1, <4>1, <4>2
      <3> QED
        BY <3>1, <3>2 DEF NonGenesis
    <2>2. Verified(index)
      BY <2>1, TreeAssumption DEF CP!Init, Verified
    <2>3. 0 \in 0..Len(Points)
      BY DEF CP!PointsAssumption
    <2> QED
      BY <2>2, <2>3 DEF CP!Init, CheckpointInv, CacheOK
  <1>2. CheckpointInv /\ [CP!Next]_(CP!vars) => CheckpointInv'
    BY CheckpointStep
  <1>3. CheckpointInv => CP!CheckpointsKept
    <2> SUFFICES ASSUME CheckpointInv PROVE CP!CheckpointsKept
      OBVIOUS
    <2>1. CP!CheckpointStays /\ CP!LookupSucceeds
      BY DEF CheckpointInv, CacheOK, CP!CheckpointStays, CP!LookupSucceeds, CP!BestChain
    <2>2. CP!ChainThroughCheckpoints
      <3>1. Verified(index) /\ best \in index
        BY DEF CheckpointInv
      <3>2. \A i \in DOMAIN Points : Height[best] >= Height[Points[i]] => Points[i] \in Anc[best]
        BY <3>1, ThroughPoint
      <3> QED
        BY <3>1, <3>2 DEF Verified, CP!ChainThroughCheckpoints, CP!BestChain
    <2> QED
      BY <2>1, <2>2 DEF CP!CheckpointsKept
  <1> QED
    BY <1>1, <1>2, <1>3, PTL DEF CP!Spec
=============================================================================
