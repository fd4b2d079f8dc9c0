----------------------------- MODULE RowFormats -----------------------------
(***************************************************************************)
(* The formats of the rows of the chain database: blockchain/compress.go   *)
(* and the serialization functions of blockchain/chainio.go.               *)
(*                                                                         *)
(* A row is a sequence of bytes below 2 * Base, where Base is 128 in the   *)
(* code; a smaller one, above the 6 forms of scripts, brings the values    *)
(* where a number needs another byte within reach.  A script is a record   *)
(* of its recognized form and its data, without the opcodes around it.     *)
(***************************************************************************)
EXTENDS Integers, Sequences, SequencesExt, FiniteSetsExt

CONSTANTS
    Base,           \* values of a byte without its high bit
    MaxExponent,    \* 9: most decimal zeros that are taken off an amount
    HashLen, KeyLen \* bytes of a script hash (20) and of a public key (32)

-----------------------------------------------------------------------------
(* Variable length quantities *)

RECURSIVE SerializeSizeVLQ(_)
SerializeSizeVLQ(n) == IF n < Base THEN 1 ELSE 1 + SerializeSizeVLQ(n \div Base - 1)

\* all bytes but the last one have the high bit
RECURSIVE HighBytes(_)
HighBytes(n) ==
    IF n < Base THEN <<Base + n>> ELSE Append(HighBytes(n \div Base - 1), Base + (n % Base))

PutVLQ(n) == IF n < Base THEN <<n>> ELSE Append(HighBytes(n \div Base - 1), n % Base)

\* the number at the start of s: its bytes end with the first one that has no
\* high bit
VLQSize(s) ==
    LET ends == {i \in DOMAIN s : s[i] < Base} IN IF ends = {} THEN Len(s) ELSE Min(ends)

RECURSIVE VLQValue(_)
VLQValue(s) ==
    IF s = <<>> THEN 0
    ELSE VLQValue(Front(s)) * Base + (IF Last(s) < Base THEN Last(s) ELSE Last(s) - Base + 1)

DeserializeVLQ(s) == VLQValue(SubSeq(s, 1, VLQSize(s)))

Rest(bytes, offset) == SubSeq(bytes, offset + 1, Len(bytes))
AfterVLQ(s) == Rest(s, VLQSize(s))

-----------------------------------------------------------------------------
(* Amounts *)

Zeros(amount) == Max({e \in 0..MaxExponent : amount % 10^e = 0})

CompressTxOutAmount(amount) ==
    LET e == Zeros(amount)
        n == amount \div 10^e
    IN  IF amount = 0 THEN 0
        ELSE IF e < MaxExponent
        THEN 1 + (MaxExponent + 1) * (9 * (n \div 10) + (n % 10) - 1) + e
        ELSE 1 + (MaxExponent + 1) * (n - 1) + e

DecompressTxOutAmount(x) ==
    LET e == (x - 1) % (MaxExponent + 1)
        m == (x - 1) \div (MaxExponent + 1)
    IN  IF x = 0 THEN 0
        ELSE IF e < MaxExponent THEN ((m \div 9) * 10 + (m % 9) + 1) * 10^e ELSE (m + 1) * 10^e

-----------------------------------------------------------------------------
(* Scripts.  The forms are numbered as in the code: 0 pay to public key     *)
(* hash, 1 pay to script hash, 2 and 3 compressed public keys, 4 and 5      *)
(* uncompressed ones by the oddness of the key; any other script is plain.  *)

NumSpecialScripts == 6
Plain == NumSpecialScripts

DataLen(form) == IF form \in {0, 1} THEN HashLen ELSE KeyLen

CompressedScriptSize(s) ==
    IF s.form # Plain THEN 1 + DataLen(s.form)
    ELSE SerializeSizeVLQ(Len(s.data) + NumSpecialScripts) + Len(s.data)

PutCompressedScript(s) ==
    IF s.form # Plain THEN <<s.form>> \o s.data ELSE PutVLQ(Len(s.data) + NumSpecialScripts) \o s.data

ScriptSizeOf(code, size) ==
    IF size = 0 THEN 0
    ELSE IF code < NumSpecialScripts THEN 1 + DataLen(code)
    ELSE code - NumSpecialScripts + size

DecodeCompressedScriptSize(bytes) == ScriptSizeOf(DeserializeVLQ(bytes), VLQSize(bytes))

\* For the forms 4 and 5 the key is found again from its x coordinate and its
\* oddness.
DecompressScript(bytes) ==
    [form |-> Min({DeserializeVLQ(bytes), Plain}), data |-> AfterVLQ(bytes)]

-----------------------------------------------------------------------------
(* Outputs: an amount and a script.  Decoding gives an error where the row  *)
(* ends too early.                                                          *)

Error == [err |-> TRUE]

CompressedTxOutSize(out) ==
    SerializeSizeVLQ(CompressTxOutAmount(out.amount)) + CompressedScriptSize(out.script)

PutCompressedTxOut(out) == PutVLQ(CompressTxOutAmount(out.amount)) \o PutCompressedScript(out.script)

\* a script of that size follows the amount
DecodedTxOut(amount, script, size) ==
    IF script = <<>> \/ Len(script) < size THEN Error
    ELSE [err |-> FALSE, rest |-> Rest(script, size),
          out |-> [amount |-> DecompressTxOutAmount(amount), script |-> DecompressScript(SubSeq(script, 1, size))]]

DecodeCompressedTxOut(bytes) ==
    DecodedTxOut(DeserializeVLQ(bytes), AfterVLQ(bytes), DecodeCompressedScriptSize(AfterVLQ(bytes)))

-----------------------------------------------------------------------------
(* Entries: an output with the height and kind of its transaction *)

\* spentTxOutHeaderCode, utxoEntryHeaderCode
HeaderCode(e) == e.height * 2 + (IF e.coinbase THEN 1 ELSE 0)

OutOf(e) == [amount |-> e.amount, script |-> e.script]
EntryOf(code, out) == [height |-> code \div 2, coinbase |-> code % 2 = 1,
                       amount |-> out.amount, script |-> out.script]

SerializeUtxoEntry(e) == PutVLQ(HeaderCode(e)) \o PutCompressedTxOut(OutOf(e))

\* an entry whose output was decoded, and what is left of the row
DecodedEntry(code, out) ==
    IF out.err THEN Error ELSE [err |-> FALSE, rest |-> out.rest, entry |-> EntryOf(code, out.out)]

DeserializeUtxoEntry(bytes) ==
    IF AfterVLQ(bytes) = <<>> THEN Error
    ELSE DecodedEntry(DeserializeVLQ(bytes), DecodeCompressedTxOut(AfterVLQ(bytes)))

\* a transaction hash is one byte here
OutpointKey(op) == <<op[1]>> \o PutVLQ(op[2])

\* bytewise order of keys
KeyBefore(k, l) ==
    \/ Len(k) < Len(l) /\ SubSeq(l, 1, Len(k)) = k
    \/ \E i \in 1..Min({Len(k), Len(l)}) : SubSeq(k, 1, i - 1) = SubSeq(l, 1, i - 1) /\ k[i] < l[i]

-----------------------------------------------------------------------------
(* The spend journal of a block.  The rows of its spent outputs follow each *)
(* other from the last to the first; how many there are is known from the   *)
(* block only.  A zero is reserved after the header code.                   *)

SpentTxOutSerializeSize(e) ==
    SerializeSizeVLQ(HeaderCode(e)) + (IF e.height > 0 THEN SerializeSizeVLQ(0) ELSE 0)
        + CompressedTxOutSize(OutOf(e))

PutSpentTxOut(e) ==
    PutVLQ(HeaderCode(e)) \o (IF e.height > 0 THEN PutVLQ(0) ELSE <<>>) \o PutCompressedTxOut(OutOf(e))

AfterHeader(bytes) ==
    IF DeserializeVLQ(bytes) \div 2 > 0 THEN AfterVLQ(AfterVLQ(bytes)) ELSE AfterVLQ(bytes)

DecodeSpentTxOut(bytes) ==
    IF AfterHeader(bytes) = <<>> THEN Error
    ELSE DecodedEntry(DeserializeVLQ(bytes), DecodeCompressedTxOut(AfterHeader(bytes)))

SerializeSpendJournalEntry(stxos) == FlattenSeq([i \in DOMAIN stxos |-> PutSpentTxOut(stxos[Len(stxos) + 1 - i])])

\* the spent outputs of count rows that follow each other, in the order of the
\* block
RECURSIVE DecodeJournal(_, _)
DecodeJournal(count, bytes) ==
    IF count = 0 THEN [err |-> FALSE, stxos |-> <<>>]
    ELSE LET last == DecodeSpentTxOut(bytes)
             others == IF last.err THEN last ELSE DecodeJournal(count - 1, last.rest)
         IN  IF others.err THEN [err |-> TRUE, stxos |-> <<>>]
             ELSE [err |-> FALSE, stxos |-> Append(others.stxos, last.entry)]

DeserializeSpendJournalEntry(bytes, count) ==
    IF bytes = <<>> THEN [err |-> count # 0, stxos |-> <<>>] ELSE DecodeJournal(count, bytes)
=============================================================================
