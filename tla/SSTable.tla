------------------------------ MODULE SSTable -------------------------------
(***************************************************************************)
(* The table files of leveldb: how TableBuilder, BlockBuilder, the filter *)
(* block and the Bloom filter lay out sorted entries (table/              *)
(* table_builder.cc, block_builder.cc, filter_block.cc, util/bloom.cc),   *)
(* and how a lookup reads them back (table/table.cc, block.cc).           *)
(*                                                                         *)
(* A key is an internal key as a sequence: the bytes of the user key and  *)
(* one element for the tag, the sequence number and type.  An offset in a *)
(* block is the number of an entry; an offset in a file is in bytes.      *)
(***************************************************************************)
EXTENDS Integers, FiniteSets, Sequences, SequencesExt, FiniteSetsExt

CONSTANTS
    Bytes,            \* the values of a byte; the greatest stands for 0xff
    RestartInterval,  \* options.block_restart_interval
    BlockSize,        \* options.block_size
    FilterBase,       \* kFilterBase
    BitsPerKey,       \* bits_per_key_ of the Bloom filter
    HashBits          \* width of a hash value

ASSUME TableAssumption ==
    /\ Bytes # {} /\ IsFiniteSet(Bytes) /\ Bytes \subseteq Nat
    /\ {RestartInterval, BlockSize, FilterBase, BitsPerKey, HashBits} \subseteq Nat \ {0}

MaxTag == 1000                    \* kMaxSequenceNumber with kValueTypeForSeek
Tag(seq, type) == 2 * seq + (IF type = "val" THEN 1 ELSE 0)
InternalKey(user, seq, type) == Append(user, Tag(seq, type))
ExtractUserKey(k) == Front(k)
SequenceOf(k) == Last(k) \div 2
TypeOf(k) == IF Last(k) % 2 = 1 THEN "val" ELSE "del"

\* BytewiseComparatorImpl::Compare (Slice::compare), as "less than".
BytesLess(a, b) ==
    \E i \in DOMAIN b :
        /\ \A j \in 1 .. i - 1 : j <= Len(a) /\ a[j] = b[j]
        /\ i > Len(a) \/ a[i] < b[i]

\* InternalKeyComparator::Compare.
KeyLess(a, b) ==
    \/ BytesLess(ExtractUserKey(a), ExtractUserKey(b))
    \/ ExtractUserKey(a) = ExtractUserKey(b) /\ Last(a) > Last(b)

SharedPrefix(a, b) ==
    Max({0} \cup {n \in 1 .. Min({Len(a), Len(b)}) : SubSeq(a, 1, n) = SubSeq(b, 1, n)})

\* BytewiseComparatorImpl::FindShortestSeparator: a short string in [start, limit).
BytesSeparator(start, limit) ==
    LET d == SharedPrefix(start, limit) + 1
    IN  IF d <= Len(start) /\ d <= Len(limit) /\ start[d] < Max(Bytes) /\ start[d] + 1 < limit[d]
        THEN Append(SubSeq(start, 1, d - 1), start[d] + 1) ELSE start

\* BytewiseComparatorImpl::FindShortSuccessor: a short string >= key.
BytesSuccessor(key) ==
    LET low == {i \in DOMAIN key : key[i] # Max(Bytes)}
        i == Min(low)
    IN  IF low = {} THEN key ELSE Append(SubSeq(key, 1, i - 1), key[i] + 1)

\* InternalKeyComparator: shorten the user key if that makes it larger and
\* shorter, with the earliest possible tag.
Shortened(key, user) ==
    IF Len(user) < Len(ExtractUserKey(key)) /\ BytesLess(ExtractUserKey(key), user)
    THEN Append(user, MaxTag) ELSE key

FindShortestSeparator(start, limit) ==
    Shortened(start, BytesSeparator(ExtractUserKey(start), ExtractUserKey(limit)))
FindShortSuccessor(key) == Shortened(key, BytesSuccessor(ExtractUserKey(key)))

-----------------------------------------------------------------------------
\* BlockBuilder: entries with the prefix they share with the one before left
\* out, and restart points where nothing is left out.
EmptyBlock == [entries |-> <<>>, restarts |-> <<1>>, counter |-> 0, last |-> <<>>]

BlockAdd(b, key, value, interval) ==
    LET restart == b.counter >= interval
        shared == IF restart THEN 0 ELSE SharedPrefix(b.last, key)
    IN  [entries |-> Append(b.entries, [shared |-> shared,
                                        delta |-> SubSeq(key, shared + 1, Len(key)),
                                        value |-> value]),
         restarts |-> IF restart THEN Append(b.restarts, Len(b.entries) + 1) ELSE b.restarts,
         counter |-> (IF restart THEN 0 ELSE b.counter) + 1,
         last |-> key]

\* CurrentSizeEstimate: three length bytes, the delta and a value byte per entry.
CurrentSizeEstimate(b) ==
    FoldLeft(LAMBDA n, e : n + 4 + Len(e.delta), 0, b.entries) + 4 * Len(b.restarts) + 4

Block(b) == [entries |-> b.entries, restarts |-> b.restarts]

\* BloomFilterPolicy: k probes per key by double hashing.  BloomHash stands for
\* Hash of util/hash.cc; which function it is does not matter.
Probes == LET k == (BitsPerKey * 69) \div 100
          IN  IF k < 1 THEN 1 ELSE IF k > 30 THEN 30 ELSE k
BloomHash(user) == FoldLeft(LAMBDA h, b : (7 * h + 3 * b + 5) % 2^HashBits, 1, user)
BitsOf(user, bits, k) ==
    LET h == BloomHash(user)
        half == 2^(HashBits \div 2)
        delta == (h \div half) + (h % half) * (2^HashBits \div half)    \* rotated
    IN  {((h + j * delta) % 2^HashBits) % bits : j \in 0 .. k - 1}

\* A filter: its size in bits, the number of probes, the bits that are set.
EmptyFilter == [bits |-> 0, k |-> 0, set |-> {}]
CreateFilter(keys) ==
    LET wanted == Max({64, Len(keys) * BitsPerKey})
        bits == 8 * ((wanted + 7) \div 8)
    IN  [bits |-> bits, k |-> Probes,
         set |-> UNION {BitsOf(ExtractUserKey(keys[i]), bits, Probes) : i \in DOMAIN keys}]
FilterMatches(f, key) ==
    /\ f.bits > 0
    /\ f.k > 30 \/ BitsOf(ExtractUserKey(key), f.bits, f.k) \subseteq f.set

\* FilterBlockBuilder: filter number n covers the blocks that start in the n-th
\* stretch of FilterBase bytes.  StartBlock closes the filters before that of the
\* block that starts now; GenerateFilter of no keys is an empty filter.
NoFilters == [keys |-> <<>>, filters |-> <<>>]
GenerateFilter(fb) ==
    [keys |-> <<>>,
     filters |-> Append(fb.filters, IF fb.keys = <<>> THEN EmptyFilter ELSE CreateFilter(fb.keys))]
\* Mutant: the filter of the next block is closed as well.
StartBlockOneMore(fb, offset) ==
    FoldLeft(LAMBDA f, i : GenerateFilter(f), fb,
             [i \in 1 .. (offset \div FilterBase) + 1 - Len(fb.filters) |-> i])

StartBlock(fb, offset) ==
    FoldLeft(LAMBDA f, i : GenerateFilter(f), fb,
             [i \in 1 .. (offset \div FilterBase) - Len(fb.filters) |-> i])
FinishFilters(fb) == (IF fb.keys = <<>> THEN fb ELSE GenerateFilter(fb)).filters

\* FilterBlockReader::KeyMayMatch: a block past the last filter may match.
KeyMayMatch(filters, offset, key) ==
    LET i == offset \div FilterBase + 1
    IN  i > Len(filters) \/ FilterMatches(filters[i], key)

\* TableBuilder: data blocks by offset, the index block, the filters.  The index
\* entry of a block waits for the first key of the next one.
NoTable == [blocks |-> <<>>, index |-> EmptyBlock, filter |-> NoFilters, data |-> EmptyBlock,
            offset |-> 0, last |-> <<>>, pending |-> -1]

TrailerSize == 5            \* kBlockTrailerSize

AddIndexEntry(t, key) ==
    [t EXCEPT !.index = BlockAdd(@, key, t.pending, 1), !.pending = -1]

Flush(t) ==
    IF t.data.entries = <<>> THEN t
    ELSE LET next == t.offset + CurrentSizeEstimate(t.data) + TrailerSize
         IN  [t EXCEPT !.blocks = [o \in DOMAIN @ \cup {t.offset} |->
                                      IF o = t.offset THEN Block(t.data) ELSE t.blocks[o]],
                       !.pending = t.offset, !.offset = next,
                       !.data = EmptyBlock, !.filter = StartBlock(@, next)]

TableAdd(t, item) ==
    LET indexed == IF t.pending < 0 THEN t
                   ELSE AddIndexEntry(t, FindShortestSeparator(t.last, item.key))
        FlushIfFull(added) ==
            IF CurrentSizeEstimate(added.data) >= BlockSize THEN Flush(added) ELSE added
    IN  FlushIfFull([indexed EXCEPT !.filter.keys = Append(@, item.key), !.last = item.key,
                                    !.data = BlockAdd(@, item.key, item.value, RestartInterval)])

\* The table of a sorted sequence of [key, value]: TableBuilder::Add for each and
\* Finish.
FinishTable(t) ==
    LET done == IF t.pending < 0 THEN t ELSE AddIndexEntry(t, FindShortSuccessor(t.last))
    IN  [blocks |-> done.blocks, index |-> Block(done.index), bad |-> {},
         filters |-> FinishFilters(done.filter), end |-> done.offset]
BuildTable(items) == FinishTable(Flush(FoldLeft(TableAdd, NoTable, items)))

-----------------------------------------------------------------------------
\* Block::Iter: the entry it is at (one past the last when invalid), the restart
\* point it is behind, the key put together so far.
BlockIter(b) ==
    [kind |-> "block", block |-> b, cur |-> Len(b.entries) + 1, restart |-> Len(b.restarts) + 1,
     key |-> <<>>, failed |-> FALSE]

BlockValid(it) == it.cur <= Len(it.block.entries)
BlockInvalid(it) ==
    [it EXCEPT !.cur = Len(it.block.entries) + 1, !.restart = Len(it.block.restarts) + 1]
CorruptionError(it) == [BlockInvalid(it) EXCEPT !.key = <<>>, !.failed = TRUE]

\* ParseNextKey at entry "at": the key is what it shares with the last one and
\* its own bytes; the restart point follows behind.
ParseNextKey(it, at) ==
    LET b == it.block
        e == b.entries[at]
    IN  IF at > Len(b.entries) THEN BlockInvalid(it)
        ELSE IF Len(it.key) < e.shared THEN CorruptionError(it)
        ELSE [it EXCEPT !.cur = at, !.key = SubSeq(it.key, 1, e.shared) \o e.delta,
                        !.restart = Max({@} \cup {r \in @ + 1 .. Len(b.restarts) : b.restarts[r] < at})]

\* SeekToRestartPoint and then ParseNextKey until the end or until Stop.
ScanFrom(it, restart, Stop(_)) ==
    LET from == it.block.restarts[restart]
        start == [it |-> [it EXCEPT !.key = <<>>, !.restart = restart], done |-> FALSE]
        Step(s, at) ==
            LET next == ParseNextKey(s.it, at)
            IN  IF s.done THEN s
                ELSE [it |-> next, done |-> ~BlockValid(next) \/ Stop(next)]
    IN  FoldLeft(Step, start,
                 [i \in 1 .. Len(it.block.entries) + 2 - from |-> from + i - 1]).it

\* Block::Iter::Seek: binary search among the restart points for the last one with
\* a key before the target (0: one that is not a restart point), then a scan.
RestartBefore(it, target) ==
    LET b == it.block
        n == Len(b.restarts)
        search[l \in 0 .. n, r \in 0 .. n] ==
            LET mid == (l + r + 1) \div 2
                e == b.entries[b.restarts[mid]]
            IN  IF l >= r THEN l
                ELSE IF e.shared # 0 THEN 0
                ELSE IF KeyLess(e.delta, target) THEN search[mid, r] ELSE search[l, mid - 1]
    IN  search[1, n]

BlockSeek(it, target) ==
    LET r == RestartBefore(it, target)
    IN  IF r = 0 THEN CorruptionError(it)
        ELSE ScanFrom(it, r, LAMBDA x : ~KeyLess(x.key, target))

BlockSeekToFirst(it) == ScanFrom(it, 1, LAMBDA x : TRUE)
BlockSeekToLast(it) ==
    ScanFrom(it, Len(it.block.restarts), LAMBDA x : x.cur = Len(it.block.entries))
BlockNext(it) == ParseNextKey(it, it.cur + 1)

\* Block::Iter::Prev: back to a restart point before the entry, then forward.
BlockPrev(it) ==
    LET before == {r \in 1 .. it.restart : it.block.restarts[r] < it.cur}
    IN  IF before = {} THEN BlockInvalid(it)
        ELSE ScanFrom(it, Max(before), LAMBDA x : x.cur + 1 >= it.cur)

-----------------------------------------------------------------------------
\* Table::BlockReader: a block that cannot be read gives an error iterator.
ErrorIterator == [kind |-> "error", failed |-> TRUE]
BlockReader(t, offset) ==
    IF offset \in t.bad THEN ErrorIterator ELSE BlockIter(t.blocks[offset])

\* Table::InternalGet with SaveValue: what a table says about a user key at a
\* sequence number: {} for nothing, else the one entry's tag; "failed" on errors.
InternalGet(t, key) ==
    LET Answer(at) == [failed |-> at.failed,
                       found |-> IF BlockValid(at) /\ ExtractUserKey(at.key) = ExtractUserKey(key)
                                 THEN {at.key} ELSE {}]
        InBlock(data) == IF data.failed THEN [failed |-> TRUE, found |-> {}]
                         ELSE Answer(BlockSeek(data, key))
        Behind(index) ==
            LET offset == t.index.entries[index.cur].value
            IN  IF ~BlockValid(index) \/ ~KeyMayMatch(t.filters, offset, key)
                THEN [failed |-> index.failed, found |-> {}]
                ELSE InBlock(BlockReader(t, offset))
    IN  Behind(BlockSeek(BlockIter(t.index), key))

\* Table::ApproximateOffsetOf.
ApproximateOffsetOf(t, key) ==
    LET index == BlockSeek(BlockIter(t.index), key)
    IN  IF BlockValid(index) THEN t.index.entries[index.cur].value ELSE t.end
=============================================================================
