------------------------------ MODULE Numerics ------------------------------
(***************************************************************************)
(* Number formats and index arithmetic of the chain: the height in a       *)
(* coinbase script (blockchain/validate.go), difficulty bits and work      *)
(* (internal/workmath), and the skip pointers of block nodes               *)
(* (blockindex.go).  A number n goes through the cases.                    *)
(***************************************************************************)
EXTENDS Integers, Sequences, SequencesExt, FiniteSetsExt

CONSTANTS
    Starts, Run,    \* n goes through Run numbers from each start
    Digit,          \* 256: base of the exponent of compact numbers
    MaxTarget       \* 2^256: numerator of work

VARIABLES n, steps

vars == <<n, steps>>

-----------------------------------------------------------------------------
(* Heights in coinbase scripts *)

\* little endian bytes
Bytes[k \in Nat] == IF k = 0 THEN <<>> ELSE <<k % 256>> \o Bytes[k \div 256]

SerializeCoinbaseHeight(h) ==
    LET bytes == Bytes[h]
        signed == IF Last(bytes) >= 128 THEN Append(bytes, 0) ELSE bytes
    IN  IF h = 0 THEN <<0>> ELSE IF h <= 16 THEN <<80 + h>> ELSE <<Len(signed)>> \o signed

BadHeight == -1

\* the value of at most four bytes
ValueOf(bytes) == FoldRight(LAMBDA b, v : v * 256 + b, bytes, 0)

ExtractCoinbaseHeight(script) ==
    LET op == script[1]
        len == Min({op, 4})
        h == ValueOf(SubSeq(script, 2, len + 1))
    IN  IF script = <<>> THEN BadHeight
        ELSE IF op = 0 THEN 0
        ELSE IF op \in 81..96 THEN op - 80
        ELSE IF Len(script) - 1 < op THEN BadHeight
        ELSE IF IsPrefix(SerializeCoinbaseHeight(h), script) THEN h ELSE BadHeight

\* CheckSerializedHeight
CheckSerializedHeight(script, want) == ExtractCoinbaseHeight(script) = want

-----------------------------------------------------------------------------
(* Compact numbers: [exponent, mantissa, negative], the mantissa below half *)
(* of Digit^3                                                               *)

CompactToBig(c) ==
    LET m == IF c.exponent <= 3 THEN c.mantissa \div Digit^(3 - c.exponent)
             ELSE c.mantissa * Digit^(c.exponent - 3)
    IN  IF c.negative THEN -m ELSE m

\* number of digits
DigitsOf[k \in Nat] == IF k = 0 THEN 0 ELSE 1 + DigitsOf[k \div Digit]

BigToCompact(k) ==
    LET e == DigitsOf[k]
        m == IF e <= 3 THEN k * Digit^(3 - e) ELSE k \div Digit^(e - 3)
    IN  IF k = 0 THEN [exponent |-> 0, mantissa |-> 0, negative |-> FALSE]
        ELSE IF m >= (Digit * Digit * Digit) \div 2
        THEN [exponent |-> e + 1, mantissa |-> m \div Digit, negative |-> FALSE]
        ELSE [exponent |-> e, mantissa |-> m, negative |-> FALSE]

CalcWork(c) == IF CompactToBig(c) <= 0 THEN 0 ELSE MaxTarget \div (CompactToBig(c) + 1)

-----------------------------------------------------------------------------
(* Skip pointers *)

\* the lowest one bit becomes zero
InvertLowestOne(k) == IF k = 0 THEN 0 ELSE k - Max({2^j : j \in {i \in 0..20 : k % 2^i = 0}})

GetAncestorHeight(h) == InvertLowestOne(InvertLowestOne(h))

\* the next node on the way down from height h; the genesis block has no skip
Descend(h, want) == IF h > 0 /\ GetAncestorHeight(h) >= want THEN GetAncestorHeight(h) ELSE h - 1

\* heights passed from h to want
Path[h \in Nat, want \in Nat] == IF h <= want THEN <<h>> ELSE <<h>> \o Path[Descend(h, want), want]

-----------------------------------------------------------------------------
Init == n \in Starts /\ steps = 0

\* the next case
Advance == steps < Run /\ n' = n + 1 /\ steps' = steps + 1

Next == Advance

Spec == Init /\ [][Next]_vars

-----------------------------------------------------------------------------
(* Properties. *)

\* The height a miner writes is read back, also in front of other data, and
\* passes for no other height (SerializeCoinbaseHeight, CheckSerializedHeight).
HeightReadBack ==
    /\ CheckSerializedHeight(SerializeCoinbaseHeight(n) \o <<7, 200>>, n)
    /\ Last(SerializeCoinbaseHeight(n)) < 128
    /\ \A m \in {n - 1, n + 1, n + 128, n + 256} :
            m >= 0 => ~ CheckSerializedHeight(SerializeCoinbaseHeight(n), m)

\* Difficulty bits never stand for more than the number they were made from,
\* lose less than one unit of the last digit of the mantissa, and are made of
\* their own value again (BigToCompact, CompactToBig).
CompactRoundsDown ==
    LET c == BigToCompact(n)
        r == CompactToBig(c)
    IN  /\ r <= n /\ n - r < Digit^(Max({c.exponent, 3}) - 3)
        /\ BigToCompact(r) = c

\* A lower target never counts for less work (CalcWork).
WorkDecreases == n > 0 => CalcWork(BigToCompact(n)) >= CalcWork(BigToCompact(n + 1))

\* The way down by skip pointers ends at the height that was asked for, and is
\* short (Ancestor).
SkipsArrive ==
    n <= 4 * Run => \A want \in 0..n :
        LET path == Path[n, want] IN Last(path) = want /\ Len(path) <= 30
=============================================================================
