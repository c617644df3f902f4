---------------------------- MODULE FirmwareImages ----------------------------
(***************************************************************************)
(* The two container formats in which firmware/boards/kconfig.py looks for *)
(* the build's fingerprint: UF2 blocks and Intel HEX records.  A file is   *)
(* any sequence of blocks or records; the reference is the flash memory    *)
(* that a programmer leaves when it writes them in the order of the file.  *)
(* The fingerprint, plain or as a zlib stream, is two adjacent bytes.      *)
(***************************************************************************)
EXTENDS Integers, Sequences, FiniteSets, FiniteSetsExt, Functions

CONSTANTS
    Start, End,             \* the two bytes of the fingerprint
    Blank,                  \* a byte 0
    None,
    Address, Base,          \* addresses of items, bases of extended records
    MaxBlocks, MaxRecords,  \* bounds of the files
    MaxSpan                 \* bytes that a UF2 image may span

AddressAssumption == Address \subseteq Nat /\ Base \subseteq Nat

Datum == {<<Start>>, <<End>>, <<Start, End>>, <<End, Start>>}

VARIABLES format, items
vars == <<format, items>>

Blocks == [at : Address, data : Datum, number : {0, 2}, count : {2, 3}]
Records == [kind : {"data"}, at : Address, data : Datum \cup {<<>>}]
           \cup [kind : {"base"}, at : Base, data : {<<>>}]
           \cup [kind : {"eof", "start", "unknown"}, at : {0}, data : {<<>>, <<End>>}]

TypeOK ==
    /\ format \in {"uf2", "hex"}
    /\ items \in Seq(IF format = "uf2" THEN Blocks ELSE Records)

Init == format \in {"uf2", "hex"} /\ items = <<>>

Append_ ==
    /\ Len(items) < (IF format = "uf2" THEN MaxBlocks ELSE MaxRecords)
    /\ \E i \in (IF format = "uf2" THEN Blocks ELSE Records) : items' = Append(items, i)
    /\ UNCHANGED format

Spec == Init /\ [][Append_]_vars

-----------------------------------------------------------------------------
(* The decoders.                                                           *)

\* Mutant: the decoder forgets the base of extended records.
BaseIgnored(i) == 0

\* The base in force at a record: the loop carries the last one it has read.
BaseAt(i) ==
    LET base[j \in 0..(i - 1)] ==
            IF j = 0 THEN 0
            ELSE IF items[j].kind = "base" THEN items[j].at ELSE base[j - 1]
    IN base[i - 1]

\* The chunks that a decoder collects, by the items they come from.
Chunks == {i \in DOMAIN items : format = "hex" => items[i].kind = "data"}
At(i) == items[i].at + (IF format = "uf2" THEN 0 ELSE BaseAt(i))
Size(i) == Len(items[i].data)

\* The order of chunks: by address, the empty one first.
Precedes(i, j) == At(i) < At(j) \/ (At(i) = At(j) /\ Size(i) <= Size(j))
Sorted ==
    CHOOSE p \in Bijection(1..Cardinality(Chunks), Chunks) :
        \A j, k \in DOMAIN p : j < k => Precedes(p[j], p[k])

\* Mutant: every chunk is laid where it begins, and later ones overwrite.
JoinOverlaps(sorted, gaps) ==
    LET joined[k \in 0..Cardinality(Chunks)] ==
            IF k = 0 THEN [bytes |-> <<>>, end |-> At(sorted[1]), ok |-> TRUE]
            ELSE LET before == joined[k - 1]
                     i == sorted[k]
                     overlap == before.end - At(i)
                     kept == IF overlap > 0
                             THEN SubSeq(before.bytes, 1, Len(before.bytes) - overlap)
                             ELSE before.bytes \o [x \in 1..(-overlap) |-> Blank]
                 IN [bytes |-> kept \o items[i].data, end |-> At(i) + Size(i),
                     ok |-> before.ok /\ (gaps \/ overlap >= 0)]
    IN joined[Cardinality(Chunks)]

\* Sorted chunks are joined; one that overlaps is refused, and a gap is filled
\* with zeros in UF2 and refused in Intel HEX.
Join(sorted, gaps) ==
    LET joined[k \in 0..Cardinality(Chunks)] ==
            IF k = 0 THEN [bytes |-> <<>>, end |-> At(sorted[1]), ok |-> TRUE]
            ELSE LET before == joined[k - 1]
                     i == sorted[k]
                 IN [bytes |-> before.bytes \o [x \in 1..(At(i) - before.end) |-> Blank]
                                 \o items[i].data,
                     end |-> At(i) + Size(i),
                     ok |-> /\ before.ok
                            /\ At(i) = before.end \/ (gaps /\ At(i) > before.end)]
    IN joined[Cardinality(Chunks)]

Joined(gaps) ==
    LET joined == Join(Sorted, gaps) IN IF joined.ok THEN joined.bytes ELSE None

\* _decode_uf2_payload: one declared count, every number below it, as many
\* blocks as declared.  A number that occurs twice is not noticed.
Uf2Accepted ==
    /\ items # <<>>
    /\ \A b \in Range(items) : b.count = items[1].count /\ b.number < b.count
    /\ items[1].count = Len(items)
    /\ Max({b.at + Len(b.data) : b \in Range(items)}) - Min({b.at : b \in Range(items)})
            <= MaxSpan

\* _decode_ihex_payload: known records only, nothing after an empty end record.
HexAccepted ==
    /\ Chunks # {}
    /\ \A i \in 1..Len(items) :
        /\ items[i].kind # "unknown"
        /\ (items[i].kind = "eof" /\ items[i].data = <<>>) <=> i = Len(items)

Payload ==
    IF format = "uf2"
    THEN IF Uf2Accepted THEN Joined(TRUE) ELSE None
    ELSE IF HexAccepted THEN Joined(FALSE) ELSE None

Has(bytes) == \E i \in 1..(Len(bytes) - 1) : bytes[i] = Start /\ bytes[i + 1] = End

\* Mutant: only the bytes of the file are searched.
ContainedInFile == \E i \in Range(items) : Has(i.data)

\* artifact_contains_firmware_fingerprint: the file as it is, then its payload.
Contained ==
    \/ format = "uf2" /\ \E i \in Range(items) : Has(i.data)
    \/ Payload # None /\ Has(Payload)

-----------------------------------------------------------------------------
(* What a programmer writes.                                               *)

\* The addresses of an item: the last extended record before it sets the base.
Placed(i) ==
    LET bases == {j \in 1..(i - 1) : items[j].kind = "base"}
    IN items[i].at + (IF format = "uf2" \/ bases = {} THEN 0 ELSE items[Max(bases)].at)
Place(i) == Placed(i)..(Placed(i) + Len(items[i].data) - 1)

Writers(a) == {i \in Chunks : a \in Place(i)}
Written == UNION {Place(i) : i \in Chunks}
Flash(a) == LET last == Max(Writers(a)) IN items[last].data[a - Placed(last) + 1]

\* A payload is the flash memory: every written byte is at its place, whatever
\* the order of the items, and nothing else is in it but the filled gaps.
PayloadIsFlash ==
    (Payload # None /\ Written # {}) =>
        LET first == Min(Written)
        IN /\ Len(Payload) = Max(Written) - first + 1
           /\ \A a \in first..Max(Written) :
                Payload[a - first + 1] = IF a \in Written THEN Flash(a) ELSE Blank

\* A fingerprint in the flash memory of an accepted file is found, also when
\* it crosses from one block or record into another, or these are not in order.
FingerprintIsNotMissed ==
    (Payload # None /\ \E a \in Written :
        a + 1 \in Written /\ Flash(a) = Start /\ Flash(a + 1) = End) => Contained
=============================================================================
