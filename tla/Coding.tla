------------------------------- MODULE Coding -------------------------------
(***************************************************************************)
(* The integer and slice encodings of leveldb (util/coding.cc), on bytes   *)
(* of fewer bits: a byte is below 2 * Radix, its upper half the            *)
(* continuation bit of a varint.                                           *)
(*                                                                         *)
(* A decoder returns [ok, value, rest]: rest is the input behind it.       *)
(***************************************************************************)
EXTENDS Integers, Sequences, SequencesExt, FiniteSetsExt

CONSTANTS
    Radix,      \* 128: values of a varint digit
    Bytes32,    \* bytes of a fixed32
    Bytes64     \* bytes of a fixed64

ASSUME CodingAssumption == {Radix, Bytes32, Bytes64} \subseteq Nat \ {0, 1}

ByteValues == 2 * Radix
Word(n) == ByteValues ^ n

\* Digits a varint of n bytes may have: as many as hold all its bits.
Digits(n) == Min({d \in 1 .. 2 * n : Radix ^ d >= Word(n)})

EncodeFixed(v, n) == [i \in 1 .. n |-> (v \div ByteValues ^ (i - 1)) % ByteValues]
DecodeFixed(s, from, n) ==
    FoldLeft(LAMBDA sum, i : sum + s[from + i - 1] * ByteValues ^ (i - 1), 0, [i \in 1 .. n |-> i])

\* EncodeVarint32, EncodeVarint64: digits from the least, all but the last marked.
VarintLength(v) == Min({d \in 1 .. Digits(Bytes64) : v < Radix ^ d})
\* Mutant: the higher digits are left in.
PutVarintUnmasked(v) ==
    LET n == VarintLength(v)
    IN  [i \in 1 .. n |-> (v \div Radix ^ (i - 1)) + (IF i < n THEN Radix ELSE 0)]

PutVarint(v) ==
    LET n == VarintLength(v)
    IN  [i \in 1 .. n |-> ((v \div Radix ^ (i - 1)) % Radix) + (IF i < n THEN Radix ELSE 0)]

PutLengthPrefixedSlice(s) == PutVarint(Len(s)) \o s

Refused == [ok |-> FALSE]
Decoded(value, rest) == [ok |-> TRUE, value |-> value, rest |-> rest]
After(input, n) == SubSeq(input, n + 1, Len(input))

\* GetVarint32, GetVarint64: refused when no digit within the limits is the last.
\* Bits past the width of the result are shifted out.
GetVarint(input, width) ==
    LET ends == {i \in 1 .. Min({Len(input), Digits(width)}) : input[i] < Radix}
        n == Min(ends)
        sum == FoldLeft(LAMBDA v, i : v + (input[i] % Radix) * Radix ^ (i - 1), 0, [i \in 1 .. n |-> i])
    IN  IF ends = {} THEN Refused ELSE Decoded(sum % Word(width), After(input, n))

GetVarint32(input) == GetVarint(input, Bytes32)
GetVarint64(input) == GetVarint(input, Bytes64)

Cut(len) ==
    IF ~len.ok \/ Len(len.rest) < len.value THEN Refused
    ELSE Decoded(SubSeq(len.rest, 1, len.value), After(len.rest, len.value))
GetLengthPrefixedSlice(input) == Cut(GetVarint32(input))

\* Several decoders one after the other, each given what the last one left; the
\* value is the sequence of theirs.
InTurn(input, kinds) ==
    LET Get(kind, rest) ==
            CASE kind = "varint32" -> GetVarint32(rest)
              [] kind = "varint64" -> GetVarint64(rest)
              [] kind = "slice"    -> GetLengthPrefixedSlice(rest)
        Joined(got, next) == IF ~got.ok \/ ~next.ok THEN Refused
                             ELSE Decoded(Append(got.value, next.value), next.rest)
        Step(got, kind) == Joined(got, Get(kind, got.rest))
    IN  FoldLeft(Step, Decoded(<<>>, input), kinds)
=============================================================================
