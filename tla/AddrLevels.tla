----------------------------- MODULE AddrLevels -----------------------------
(***************************************************************************)
(* blockchain/indexers/addrindex.go: how the address index stores the      *)
(* transactions of one address.  Level n holds at most Level0Max * 2^n     *)
(* entries; new entries go to level 0 and full levels move up, so that     *)
(* higher levels hold older entries.  A level with no row in the database  *)
(* is the empty sequence.                                                  *)
(***************************************************************************)
EXTENDS Integers, Sequences, SequencesExt, FiniteSets, FiniteSetsExt, TLC

CONSTANTS
    Level0Max,  \* level0MaxEntries
    MaxLevel    \* bound on the levels an address reaches

LevelAssumption == Level0Max \in Nat \ {0} /\ MaxLevel \in Nat \ {0}

Levels == 0..MaxLevel
NoEntries == [l \in Levels |-> <<>>]

MaxEntriesForLevel(l) == Level0Max * 2^l

MinEntriesToReachLevel(l) ==
    1 + MapThenSumSet(MaxEntriesForLevel, 0..(l - 1))

\* What the levels stand for: the entries from the oldest to the newest.
Entries(lv) == FlattenSeq([i \in 1..(MaxLevel + 1) |-> lv[MaxLevel + 1 - i]])

\* mutant: a level that takes in the one below it puts the newer entries first
PutAddrIndexEntry_NewerFirst(lv, e) ==
    IF Len(lv[0]) < Level0Max THEN [lv EXCEPT ![0] = Append(@, e)]
    ELSE LET room == Min({l \in 1..MaxLevel : Len(lv[l]) # MaxEntriesForLevel(l)})
         IN  [l \in Levels |-> IF l = 0 THEN <<e>>
                               ELSE IF l < room THEN lv[l - 1]
                               ELSE IF l = room THEN lv[l - 1] \o lv[l]
                               ELSE lv[l]]

\* dbPutAddrIndexEntry: the lowest level with room takes in the level below
\* it, and the ones under that move up by one.
PutAddrIndexEntry(lv, e) ==
    IF Len(lv[0]) < Level0Max THEN [lv EXCEPT ![0] = Append(@, e)]
    ELSE LET room == Min({l \in 1..MaxLevel : Len(lv[l]) # MaxEntriesForLevel(l)})
         IN  [l \in Levels |-> IF l = 0 THEN <<e>>
                               ELSE IF l < room THEN lv[l - 1]
                               ELSE IF l = room THEN lv[l] \o lv[l - 1]
                               ELSE lv[l]]

\* The entries of `data' that level l keeps; the rest is for the levels below.
Keeps(l, n) ==
    LET least == MinEntriesToReachLevel(l - 1)
    IN  IF n < MaxEntriesForLevel(l - 1) + least THEN 0
        ELSE IF n - MaxEntriesForLevel(l) >= least THEN MaxEntriesForLevel(l)
        ELSE MaxEntriesForLevel(l - 1)

\* What remains in the highest loaded level, spread over it and the levels below.
Squash(top, data) ==
    LET upTo[l \in 0..top] ==  \* entries that the levels top..l+1 have kept
            IF l = top THEN 0
            ELSE LET above == upTo[l + 1]
                 IN  above + Keeps(l + 1, Len(data) - above)
    IN  [l \in 0..top |->
            LET from == upTo[l]
                kept == IF l = 0 THEN Len(data) - from ELSE Keeps(l, Len(data) - from)
            IN  SubSeq(data, from + 1, from + kept)]

\* Halves `data', which fills level l, over the levels l..low.
Halve(l, low, data) ==
    [k \in low..l |->
        LET from == MaxEntriesForLevel(l) - MaxEntriesForLevel(k)
        IN  IF k = low THEN SubSeq(data, from + 1, Len(data))
            ELSE SubSeq(data, from + 1, from + MaxEntriesForLevel(k - 1))]

\* The last loop of dbRemoveAddrIndexEntries: as long as the highest loaded
\* level is empty, the next one fills the gap down to the lowest empty one.
Backfill(lv, pending, top, low) ==
    LET fill(s, h) ==
            LET data == lv[h + 1]
                full == Len(data) = MaxEntriesForLevel(h + 1)
                moved == IF full THEN Halve(h + 1, s.low, data)
                         ELSE (h + 1 :> <<>>) @@ Halve(h, s.low, data)
            IN  IF s.p[h] # <<>> \/ data = <<>> THEN s
                ELSE [p |-> moved @@ s.p, low |-> h + 1]
    IN  FoldLeft(fill, [p |-> pending, low |-> low], [i \in 1..(MaxLevel - top) |-> top + i - 1]).p

\* dbRemoveAddrIndexEntries; removing more than there is is an assertion
\* error, so the caller must not (see EnoughEntries).
EnoughEntries(lv, count) ==
    count <= Len(Entries(lv))

RemoveAddrIndexEntries(lv, count) ==
    LET upTo[l \in Levels] == Len(lv[l]) + (IF l = 0 THEN 0 ELSE upTo[l - 1])
        top == Min({l \in Levels : upTo[l] >= count})
        rest == SubSeq(lv[top], 1, upTo[top] - count)
        squashed == Squash(top, rest)
        empty == {l \in 0..top : squashed[l] = <<>>}
    IN  IF count = 0 THEN lv
        ELSE IF top = 0 /\ rest # <<>> THEN [lv EXCEPT ![0] = rest]
        ELSE IF empty = {} THEN squashed @@ lv
        ELSE Backfill(lv, squashed @@ lv, top, Min(empty))

\* dbFetchAddrIndexEntries: the entries found and the number skipped.  The
\* sum that bounds the levels to load is a word of 2^Word values.
FetchAddrIndexEntries(lv, skip, requested, reverse, word) ==
    LET wanted == (skip + requested) % word
        present == {l \in Levels : \A k \in 0..l : lv[k] # <<>>}
        below[l \in 0..(MaxLevel + 1)] ==  \* entries in the levels under l
            IF l = 0 THEN 0 ELSE below[l - 1] + Len(lv[l - 1])
        loaded == {l \in present : ~ reverse \/ below[l] < wanted}
        all == Entries([l \in Levels |-> IF l \in loaded THEN lv[l] ELSE <<>>])
        n == Min({Len(all) - skip, requested})
    IN  IF skip >= Len(all) THEN [found |-> <<>>, skipped |-> Len(all)]
        ELSE [found |-> [i \in 1..n |-> IF reverse THEN all[Len(all) - skip - i + 1]
                                        ELSE all[skip + i]],
              skipped |-> skip]

-----------------------------------------------------------------------------
\* The rules of the format comment: level 0 up to its maximum, the others
\* empty, half full or full, and no empty level under one with entries.
LevelRules(lv) ==
    /\ Len(lv[0]) <= Level0Max
    /\ \A l \in 1..MaxLevel :
        /\ Len(lv[l]) \in {0, MaxEntriesForLevel(l - 1), MaxEntriesForLevel(l)}
        /\ lv[l] # <<>> => lv[l - 1] # <<>>
=============================================================================
