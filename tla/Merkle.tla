------------------------------- MODULE Merkle -------------------------------
(***************************************************************************)
(* blockchain/merkle.go and rolling_merkle.go: the tree of all hashes that *)
(* BuildMerkleTreeStore keeps, the rolling store of O(log n) roots that    *)
(* CalcMerkleRoot uses in its place, and the witness commitment.           *)
(*                                                                         *)
(* A hash is a term: a leaf is a transaction <<tx>>, a branch is the pair  *)
(* of its children, so that two hashes are equal only when what was hashed *)
(* is equal.                                                               *)
(***************************************************************************)
EXTENDS Integers, Sequences, SequencesExt, FiniteSetsExt

CONSTANTS
    Repeated,   \* transactions that may come again: positive integers
    MaxTxs      \* bound: transactions of a block

VARIABLES
    adds,       \* the transactions that have been added
    witness,    \* whether witness hashes are taken
    roots,      \* rollingMerkleTreeStore.roots
    numLeaves,
    result      \* the root that calcMerkleRoot has returned, or None

vars == <<adds, witness, roots, numLeaves, result>>

None == <<>>
ZeroHash == <<0>>
TxHash(t) == <<t>>

HashMerkleBranches(left, right) == <<left, right>>

\* the coinbase counts as the zero hash among the witness hashes
LeafOf(txs, i) == IF witness /\ i = 1 THEN ZeroHash ELSE TxHash(txs[i])

NextPowerOfTwo(n) == Min({2^k : k \in {j \in 0..MaxTxs : 2^j >= n}})

\* BuildMerkleTreeStore: a linear array, row by row; NilHash where there is no node
NilHash == <<>>
BuildMerkleTreeStore(txs) ==
    LET pot == NextPowerOfTwo(Len(txs))
        node[i \in 1..(2 * pot - 1)] ==
            IF i <= pot THEN IF i <= Len(txs) THEN LeafOf(txs, i) ELSE NilHash
            ELSE LET left == node[2 * (i - pot) - 1]
                     right == node[2 * (i - pot)]
                 IN  IF left = NilHash THEN NilHash
                     ELSE HashMerkleBranches(left, IF right = NilHash THEN left ELSE right)
    IN  node

-----------------------------------------------------------------------------
(* The rolling store *)

Bit(n, h) == (n \div 2^h) % 2

\* position of the lowest bit of n that is v
LowestBit(n, v) == Min({h \in 0..MaxTxs : Bit(n, h) = v})

\* As many roots as the leaf count has low ones are merged with the new one.
RootsAfter(rs, n, hash) ==
    LET k == LowestBit(n, 0)
    IN  SubSeq(rs, 1, Len(rs) - k) \o
        <<FoldRight(HashMerkleBranches, SubSeq(rs, Len(rs) - k + 1, Len(rs)), hash)>>

Add(t) ==
    /\ result = None
    /\ Len(adds) < MaxTxs
    /\ adds' = Append(adds, t)
    /\ roots' = RootsAfter(roots, numLeaves, LeafOf(adds', Len(adds')))
    /\ numLeaves' = numLeaves + 1
    /\ UNCHANGED <<witness, result>>

\* mutant: the leaf count is not moved up a row
MergeUp_SameRow(rs, n) ==
    IF Len(rs) = 1 THEN rs[1]
    ELSE IF Len(rs) = 2 THEN HashMerkleBranches(rs[1], rs[2])
    ELSE HashMerkleBranches(rs[1], HashMerkleBranches(rs[2], rs[3]))

\* As long as there are several roots the last one is added again, in the
\* row where it stands: the leaf count is shifted down to that row.
RECURSIVE MergeUp(_, _)
MergeUp(rs, n) ==
    IF Len(rs) = 1 THEN rs[1]
    ELSE LET row == n \div 2^LowestBit(n, 1)
         IN  MergeUp(RootsAfter(rs, row, Last(rs)), row + 1)

\* the end of calcMerkleRoot; the last transaction is added again by its hash
RootOf(txs, rs, n) ==
    IF n = 1 THEN rs[1]
    ELSE IF Len(txs) % 2 = 1 THEN MergeUp(RootsAfter(rs, n, TxHash(Last(txs))), n + 1)
    ELSE MergeUp(rs, n)

CalcMerkleRoot ==
    /\ result = None
    /\ adds # <<>>
    /\ result' = RootOf(adds, roots, numLeaves)
    /\ UNCHANGED <<adds, witness, roots, numLeaves>>

-----------------------------------------------------------------------------
(* Witness commitments *)

\* the last output of the coinbase that is long enough and has the magic bytes
ExtractWitnessCommitment(outs) ==
    LET i == SelectLastInSeq(outs, LAMBDA o : o.magic)
    IN  IF i = 0 THEN None ELSE outs[i].commitment

\* ValidateWitnessCommitment for a block with the given outputs and witness
\* stack of the coinbase; marked says whether a transaction has a witness.
ValidateWitnessCommitment(outs, stack, marked, root) ==
    LET commitment == ExtractWitnessCommitment(outs)
    IN  IF commitment = None THEN ~ marked
        ELSE /\ Len(stack) = 1
             /\ stack[1].len = 32
             /\ commitment = <<root, stack[1].data>>

-----------------------------------------------------------------------------
Init ==
    /\ adds = <<>> /\ witness \in BOOLEAN
    /\ roots = <<>> /\ numLeaves = 0 /\ result = None

\* The next transaction is a new one or one that may come again.
Next == (\E t \in Repeated \cup {Len(adds) + 1} : Add(t)) \/ CalcMerkleRoot

Spec == Init /\ [][Next]_vars

-----------------------------------------------------------------------------
(* Properties. *)

Rows(n) == {h \in 0..MaxTxs : Bit(n, h) = 1}

\* The store holds one root for each one in the binary leaf count (add).
RootsPerBit == result = None => /\ numLeaves = Len(adds)
                                /\ Len(roots) = Cardinality(Rows(numLeaves))

\* Both ways to compute the root agree for every number of transactions
\* (CalcMerkleRoot, BuildMerkleTreeStore).
RootsAgree == result # None => result = Last(BuildMerkleTreeStore(adds))

\* leaves of a hash from left to right, each where it occurs first
RECURSIVE LeavesOf(_)
LeavesOf(hash) ==
    IF Len(hash) = 1 THEN hash ELSE LeavesOf(hash[1]) \o LeavesOf(hash[2])

FirstOccurrences(s) == FoldLeft(LAMBDA acc, x : IF Contains(acc, x) THEN acc ELSE Append(acc, x), <<>>, s)

\* A root commits to its transactions: blocks without a repeated transaction,
\* which checkBlockSanity enforces, have different roots.
RootCommits ==
    result # None /\ IsInjective(adds) =>
        FirstOccurrences(LeavesOf(result)) = [i \in DOMAIN adds |-> LeafOf(adds, i)[1]]

\* Only the commitment to the witness root of the block and the nonce of its
\* coinbase is accepted, wherever the outputs of the coinbase hold others
\* (ValidateWitnessCommitment).
CommitmentChecked ==
    result # None => \A magic \in [1..2 -> BOOLEAN] : \A nonce \in 1..2 :
        LET stale == <<ZeroHash, nonce>>
            outs == <<[magic |-> magic[1], commitment |-> stale],
                      [magic |-> magic[2], commitment |-> <<result, 1>>]>>
            stack == <<[len |-> 32, data |-> nonce]>>
        IN  ValidateWitnessCommitment(outs, stack, TRUE, result) =
                (\/ magic[2] /\ nonce = 1
                 \/ magic[1] /\ ~ magic[2] /\ result = ZeroHash)
=============================================================================
