----------------------------- MODULE Iterators ------------------------------
(***************************************************************************)
(* The iterators of leveldb, from blocks up to DBIter: TwoLevelIterator    *)
(* over a table and over the files of a level (table/                      *)
(* two_level_iterator.cc), MergingIterator over memtable, level-0 tables   *)
(* and level (table/merger.cc), DBIter on top (db/db_iter.cc).  A database *)
(* is first filled by writes, flushes and a compaction, then iterated at   *)
(* one snapshot by any sequence of operations, with any one block of a     *)
(* table unreadable.                                                       *)
(***************************************************************************)
EXTENDS SSTable

CONSTANTS
    UserKeys,     \* the user keys written and sought
    MaxEntries,   \* bound: writes; iteration starts after them
    MaxTables,    \* bound: level-0 tables at a time
    FileSize,     \* entries per file of the level
    MaxBad        \* bound: unreadable blocks

VARIABLES
    mem,      \* the memtable: sorted sequence of [key, value]
    level0,   \* the tables of level 0
    level,    \* the files of the level below: sequence of [largest, table]
    written,  \* sequence number of the last write
    sequence, \* DBIter::sequence_
    iter,     \* DBIter, or NoIter
    view,     \* ghost: the map iter should show
    op        \* the operation performed last

iterVars == <<mem, level0, level, written, sequence, iter, view, op>>

-----------------------------------------------------------------------------
\* A list iterator: MemTableIterator, and LevelFileNumIterator over the largest
\* keys of the files of a level.  One past the end is invalid, for both.
ListIter(items) == [kind |-> "list", items |-> items, cur |-> Len(items) + 1, failed |-> FALSE]
ListSeek(it, target) ==
    [it EXCEPT !.cur = Min({Len(it.items) + 1} \cup
                           {i \in DOMAIN it.items : ~KeyLess(it.items[i].key, target)})]
ListPrev(it) == [it EXCEPT !.cur = IF @ = 1 THEN Len(it.items) + 1 ELSE @ - 1]
ListSeekToLast(it) == [it EXCEPT !.cur = IF it.items = <<>> THEN 1 ELSE Len(it.items)]

NullIter == [kind |-> "null", failed |-> FALSE]     \* an IteratorWrapper of NULL

\* TwoLevelIterator: block_function_ and arg_ are "source", index_iter_,
\* data_iter_, data_block_handle_ and status_ follow.
TwoLevelIter(source, index) ==
    [kind |-> "two", source |-> source, index |-> index, data |-> NullIter,
     handle |-> -1, failed |-> FALSE]

\* Table::NewIterator, and Version::NewConcatenatingIterator.
TableIter(t) == TwoLevelIter([kind |-> "table", table |-> t], BlockIter(t.index))
LevelIter(files) ==
    TwoLevelIter([kind |-> "files", files |-> files],
                 ListIter([i \in DOMAIN files |-> [key |-> files[i].largest, value |-> i]]))

\* Table::BlockReader on a table, GetFileIterator on a file of the level.
BlockFunction(source, handle) ==
    IF source.kind = "table" THEN BlockReader(source.table, handle)
    ELSE TableIter(source.files[handle].table)

RECURSIVE Valid(_), Key(_), Value(_), Failed(_), Seek(_, _), SeekToFirst(_), SeekToLast(_),
          Next(_), Prev(_), SkipEmptyDataBlocksForward(_), SkipEmptyDataBlocksBackward(_)

Valid(it) ==
    CASE it.kind = "block" -> BlockValid(it)
      [] it.kind = "list"  -> it.cur <= Len(it.items)
      [] it.kind = "two"   -> Valid(it.data)
      [] it.kind = "merge" -> it.current # 0
      [] OTHER             -> FALSE

Key(it) ==
    CASE it.kind = "block" -> it.key
      [] it.kind = "list"  -> it.items[it.cur].key
      [] it.kind = "two"   -> Key(it.data)
      [] it.kind = "merge" -> Key(it.children[it.current])

Value(it) ==
    CASE it.kind = "block" -> it.block.entries[it.cur].value
      [] it.kind = "list"  -> it.items[it.cur].value
      [] it.kind = "two"   -> Value(it.data)
      [] it.kind = "merge" -> Value(it.children[it.current])

\* status(), as "not ok".
Failed(it) ==
    CASE it.kind = "two"   -> Failed(it.index) \/ Failed(it.data) \/ it.failed
      [] it.kind = "merge" -> \E i \in DOMAIN it.children : Failed(it.children[i])
      [] OTHER             -> it.failed

\* SetDataIterator keeps the error of the data iterator it replaces.
SetDataIterator(it, data) == [it EXCEPT !.failed = @ \/ Failed(it.data), !.data = data]

InitDataBlock(it) ==
    IF ~Valid(it.index) THEN SetDataIterator(it, NullIter)
    ELSE IF it.data # NullIter /\ it.handle = Value(it.index) THEN it
    ELSE [SetDataIterator(it, BlockFunction(it.source, Value(it.index)))
            EXCEPT !.handle = Value(it.index)]

SkipEmptyDataBlocksForward(it) ==
    IF Valid(it.data) THEN it
    ELSE IF ~Valid(it.index) THEN SetDataIterator(it, NullIter)
    ELSE LET at == InitDataBlock([it EXCEPT !.index = Next(@)])
         IN  SkipEmptyDataBlocksForward([at EXCEPT !.data = SeekToFirst(@)])

SkipEmptyDataBlocksBackward(it) ==
    IF Valid(it.data) THEN it
    ELSE IF ~Valid(it.index) THEN SetDataIterator(it, NullIter)
    ELSE LET at == InitDataBlock([it EXCEPT !.index = Prev(@)])
         IN  SkipEmptyDataBlocksBackward([at EXCEPT !.data = SeekToLast(@)])

\* MergingIterator: children_, current_ (0: NULL) and direction_.  No children
\* and one child are not merged (NewMergingIterator).
MergingIter(children) ==
    IF Len(children) = 1 THEN children[1]
    ELSE [kind |-> "merge", children |-> children, current |-> 0, direction |-> "forward"]

Among(it) == {i \in DOMAIN it.children : Valid(it.children[i])}
FindSmallest(it) ==
    LET S == {i \in Among(it) : \A j \in Among(it) :
                 ~KeyLess(Key(it.children[j]), Key(it.children[i]))}
    IN  [it EXCEPT !.current = IF S = {} THEN 0 ELSE Min(S), !.direction = "forward"]
FindLargest(it) ==
    LET S == {i \in Among(it) : \A j \in Among(it) :
                 ~KeyLess(Key(it.children[i]), Key(it.children[j]))}
    IN  [it EXCEPT !.current = IF S = {} THEN 0 ELSE Max(S), !.direction = "reverse"]

EachChild(it, Op(_)) == [it EXCEPT !.children = [i \in DOMAIN @ |-> Op(@[i])]]

\* When the direction changes, every child but the current one is moved to the
\* other side of the key.
OtherChildren(it, Op(_)) ==
    [it EXCEPT !.children = [i \in DOMAIN @ |-> IF i = it.current THEN @[i] ELSE Op(@[i])]]
AfterKey(child, key) ==
    LET Past(c) == IF Valid(c) /\ Key(c) = key THEN Next(c) ELSE c IN Past(Seek(child, key))
BeforeKey(child, key) ==
    LET Ahead(c) == IF Valid(c) THEN Prev(c) ELSE SeekToLast(c) IN Ahead(Seek(child, key))

\* Mutant: the other children stay where they are when the direction changes.
MergeNextUnturned(it) == FindSmallest([it EXCEPT !.children[it.current] = Next(@)])

MergeNext(it) ==
    LET turned == IF it.direction = "forward" THEN it
                  ELSE OtherChildren(it, LAMBDA c : AfterKey(c, Key(it)))
    IN  FindSmallest([turned EXCEPT !.children[it.current] = Next(@)])
MergePrev(it) ==
    LET turned == IF it.direction = "reverse" THEN it
                  ELSE OtherChildren(it, LAMBDA c : BeforeKey(c, Key(it)))
    IN  FindLargest([turned EXCEPT !.children[it.current] = Prev(@)])

Seek(it, target) ==
    CASE it.kind = "block" -> BlockSeek(it, target)
      [] it.kind = "list"  -> ListSeek(it, target)
      [] it.kind = "two"   ->
            LET at == InitDataBlock([it EXCEPT !.index = Seek(@, target)])
            IN  SkipEmptyDataBlocksForward([at EXCEPT !.data = Seek(@, target)])
      [] it.kind = "merge" -> FindSmallest(EachChild(it, LAMBDA c : Seek(c, target)))
      [] OTHER             -> it

SeekToFirst(it) ==
    CASE it.kind = "block" -> BlockSeekToFirst(it)
      [] it.kind = "list"  -> [it EXCEPT !.cur = 1]
      [] it.kind = "two"   ->
            LET at == InitDataBlock([it EXCEPT !.index = SeekToFirst(@)])
            IN  SkipEmptyDataBlocksForward([at EXCEPT !.data = SeekToFirst(@)])
      [] it.kind = "merge" -> FindSmallest(EachChild(it, SeekToFirst))
      [] OTHER             -> it

SeekToLast(it) ==
    CASE it.kind = "block" -> BlockSeekToLast(it)
      [] it.kind = "list"  -> ListSeekToLast(it)
      [] it.kind = "two"   ->
            LET at == InitDataBlock([it EXCEPT !.index = SeekToLast(@)])
            IN  SkipEmptyDataBlocksBackward([at EXCEPT !.data = SeekToLast(@)])
      [] it.kind = "merge" -> FindLargest(EachChild(it, SeekToLast))
      [] OTHER             -> it

Next(it) ==
    CASE it.kind = "block" -> BlockNext(it)
      [] it.kind = "list"  -> [it EXCEPT !.cur = @ + 1]
      [] it.kind = "two"   -> SkipEmptyDataBlocksForward([it EXCEPT !.data = Next(@)])
      [] it.kind = "merge" -> MergeNext(it)

Prev(it) ==
    CASE it.kind = "block" -> BlockPrev(it)
      [] it.kind = "list"  -> ListPrev(it)
      [] it.kind = "two"   -> SkipEmptyDataBlocksBackward([it EXCEPT !.data = Prev(@)])
      [] it.kind = "merge" -> MergePrev(it)

-----------------------------------------------------------------------------
\* DBIter: iter_, direction_, valid_, saved_key_ and saved_value_.
DBIter(internal) ==
    [iter |-> internal, direction |-> "forward", valid |-> FALSE,
     savedKey |-> <<>>, savedValue |-> 0]
NoIter == [valid |-> FALSE]

Clear(d) == [d EXCEPT !.savedKey = <<>>, !.savedValue = 0]
Hidden(k) == SequenceOf(k) > sequence       \* newer than the snapshot

RECURSIVE FindNextUserEntry(_, _, _), LastBefore(_, _), FindPrevUserEntry(_, _)

\* skip: the user key whose remaining entries are hidden, when skipping.
FindNextUserEntry(d, skipping, skip) ==
    LET k == Key(d.iter)
        user == ExtractUserKey(k)
        deleted == ~Hidden(k) /\ TypeOf(k) = "del"
        found == /\ ~Hidden(k) /\ TypeOf(k) = "val"
                 /\ ~(skipping /\ (user = skip \/ BytesLess(user, skip)))
    IN  IF ~Valid(d.iter) THEN [d EXCEPT !.valid = FALSE, !.savedKey = <<>>]
        ELSE IF found THEN [d EXCEPT !.valid = TRUE, !.savedKey = <<>>]
        ELSE FindNextUserEntry([d EXCEPT !.iter = Next(@)],
                               skipping \/ deleted, IF deleted THEN user ELSE skip)

\* The internal iterator moved back until its user key is before the given one.
LastBefore(it, user) ==
    IF ~Valid(it) \/ BytesLess(ExtractUserKey(Key(it)), user) THEN it
    ELSE LastBefore(Prev(it), user)

\* type: that of the entry saved last, a deletion if none is.
FindPrevUserEntry(d, type) ==
    LET k == Key(d.iter)
        user == ExtractUserKey(k)
        stop == ~Hidden(k) /\ type # "del" /\ BytesLess(user, d.savedKey)
        kept == IF Hidden(k) THEN d
                ELSE IF TypeOf(k) = "del" THEN Clear(d)
                ELSE [d EXCEPT !.savedKey = user, !.savedValue = Value(d.iter)]
    IN  IF ~Valid(d.iter) \/ stop
        THEN IF type = "del" THEN [Clear(d) EXCEPT !.valid = FALSE, !.direction = "forward"]
             ELSE [d EXCEPT !.valid = TRUE]
        ELSE FindPrevUserEntry([kept EXCEPT !.iter = Prev(@)],
                               IF Hidden(k) THEN type ELSE TypeOf(k))

DBSeek(d, user) ==
    LET target == InternalKey(user, sequence, "val")
        From(at) == IF Valid(at.iter) THEN FindNextUserEntry(at, FALSE, <<>>)
                    ELSE [at EXCEPT !.valid = FALSE, !.savedKey = target]
    IN  From([d EXCEPT !.iter = Seek(@, target), !.direction = "forward", !.savedValue = 0])

DBSeekToFirst(d) ==
    LET From(at) == IF Valid(at.iter) THEN FindNextUserEntry(at, FALSE, <<>>)
                    ELSE [at EXCEPT !.valid = FALSE]
    IN  From([d EXCEPT !.iter = SeekToFirst(@), !.direction = "forward", !.savedValue = 0])

DBSeekToLast(d) ==
    FindPrevUserEntry([d EXCEPT !.iter = SeekToLast(@), !.direction = "reverse",
                                !.savedValue = 0], "del")

DBNext(d) ==
    LET into == IF d.direction = "forward" THEN d
                ELSE [d EXCEPT !.direction = "forward",
                               !.iter = IF Valid(@) THEN Next(@) ELSE SeekToFirst(@)]
        skip == IF d.direction = "forward" THEN ExtractUserKey(Key(d.iter)) ELSE d.savedKey
    IN  FindNextUserEntry(into, TRUE, skip)

DBPrev(d) ==
    LET user == ExtractUserKey(Key(d.iter))
        From(before) == IF ~Valid(before.iter) THEN [Clear(before) EXCEPT !.valid = FALSE]
                        ELSE FindPrevUserEntry([before EXCEPT !.direction = "reverse"], "del")
    IN  IF d.direction = "reverse" THEN FindPrevUserEntry(d, "del")
        ELSE From([d EXCEPT !.iter = LastBefore(Prev(@), user), !.savedKey = user])

DBKey(d) == IF d.direction = "forward" THEN ExtractUserKey(Key(d.iter)) ELSE d.savedKey
DBValue(d) == IF d.direction = "forward" THEN Value(d.iter) ELSE d.savedValue

-----------------------------------------------------------------------------
\* Filling the database.  The value of an entry is its sequence number.  A file:
\* the items given to its builder, the table, the greatest key.
File(items) == [items |-> items, table |-> BuildTable(items), largest |-> Last(items).key]
ItemLess(a, b) == KeyLess(a.key, b.key)

IterInit ==
    /\ mem = <<>> /\ level0 = <<>> /\ level = <<>>
    /\ written = 0 /\ sequence = 0
    /\ iter = NoIter /\ view = [user \in {} |-> 0] /\ op = [name |-> "closed"]

Write(user, type) ==
    /\ iter = NoIter /\ written < MaxEntries
    /\ written' = written + 1
    /\ mem' = SortSeq(Append(mem, [key |-> InternalKey(user, written', type), value |-> written']),
                      ItemLess)
    /\ UNCHANGED <<level0, level, sequence, iter, view, op>>

\* WriteLevel0Table: the memtable becomes a table of level 0.
FlushMemTable ==
    /\ iter = NoIter /\ mem # <<>> /\ Len(level0) < MaxTables
    /\ level0' = Append(level0, File(mem))
    /\ mem' = <<>>
    /\ UNCHANGED <<level, written, sequence, iter, view, op>>

\* DoCompactionWork with nothing to drop: level 0 joins the level below, in files
\* of FileSize entries.  One user key may end a file and begin the next.
Compact ==
    LET items == SortSeq(FlattenSeq([i \in DOMAIN level0 |-> level0[i].items])
                           \o FlattenSeq([i \in DOMAIN level |-> level[i].items]), ItemLess)
        n == (Len(items) + FileSize - 1) \div FileSize
    IN  /\ iter = NoIter /\ level0 # <<>>
        /\ level' = [i \in 1 .. n |-> File(SubSeq(items, (i - 1) * FileSize + 1,
                                                 Min({i * FileSize, Len(items)})))]
        /\ level0' = <<>>
        /\ UNCHANGED <<mem, written, sequence, iter, view, op>>

\* Blocks that cannot be read, as <<table, offset>>: 0 for level 0, 1 below.
AllBlocks ==
    UNION {{<<0, i, o>> : o \in DOMAIN level0[i].table.blocks} : i \in DOMAIN level0}
      \cup UNION {{<<1, i, o>> : o \in DOMAIN level[i].table.blocks} : i \in DOMAIN level}
Damaged(files, n, bad) ==
    [i \in DOMAIN files |->
        [files[i] EXCEPT !.table.bad = {b[3] : b \in {x \in bad : x[1] = n /\ x[2] = i}}]]

\* What a DBIter should show: the newest entry of each user key that is not
\* newer than the snapshot, unless it is a deletion.
Entries ==
    ToSet(mem) \cup UNION {ToSet(level0[i].items) : i \in DOMAIN level0}
               \cup UNION {ToSet(level[i].items) : i \in DOMAIN level}
NewestOf(items, user, snapshot) ==
    LET S == {e \in items : ExtractUserKey(e.key) = user /\ SequenceOf(e.key) <= snapshot}
    IN  {e \in S : \A f \in S : SequenceOf(f.key) <= SequenceOf(e.key)}
Showing(snapshot) ==
    {e \in UNION {NewestOf(Entries, user, snapshot) : user \in UserKeys} : TypeOf(e.key) = "val"}
ViewOf(showing) ==
    [user \in {ExtractUserKey(e.key) : e \in showing} |->
        (CHOOSE e \in showing : ExtractUserKey(e.key) = user).value]

\* DBImpl::NewIterator: NewInternalIterator with Version::AddIterators, below a
\* DBIter.  The snapshot is any sequence number so far, so
\* that it may see fewer than the MaxEntries writes.
NewIterator(snapshot, bad) ==
    /\ iter = NoIter /\ written = MaxEntries
    /\ sequence' = snapshot
    /\ level0' = Damaged(level0, 0, bad) /\ level' = Damaged(level, 1, bad)
    /\ iter' = DBIter(MergingIter(<<ListIter(mem)>>
                  \o [i \in DOMAIN level0 |-> TableIter(level0'[i].table)]
                  \o (IF level = <<>> THEN <<>> ELSE <<LevelIter(level')>>)))
    /\ view' = ViewOf(Showing(snapshot))
    /\ op' = [name |-> "open"]
    /\ UNCHANGED <<mem, written>>

Perform(o, result) ==
    /\ iter # NoIter
    /\ op' = o /\ iter' = result
    /\ UNCHANGED <<mem, level0, level, written, sequence, view>>

IterSeek(user) == Perform([name |-> "seek", target |-> user], DBSeek(iter, user))
IterSeekToFirst == Perform([name |-> "first"], DBSeekToFirst(iter))
IterSeekToLast == Perform([name |-> "last"], DBSeekToLast(iter))
IterNext == iter.valid /\ Perform([name |-> "next"], DBNext(iter))
IterPrev == iter.valid /\ Perform([name |-> "prev"], DBPrev(iter))

IterStep ==
    \/ \E user \in UserKeys, type \in {"val", "del"} : Write(user, type)
    \/ FlushMemTable
    \/ Compact
    \/ \E snapshot \in 0 .. written, bad \in kSubset(0, AllBlocks) \cup kSubset(MaxBad, AllBlocks) :
          NewIterator(snapshot, bad)
    \/ \E user \in UserKeys : IterSeek(user)
    \/ IterSeekToFirst
    \/ IterSeekToLast
    \/ IterNext
    \/ IterPrev

IterSpec == IterInit /\ [][IterStep]_iterVars

-----------------------------------------------------------------------------
Cursor == INSTANCE UserCursor WITH
    at <- IF iter.valid THEN {DBKey(iter)} ELSE {},
    shown <- IF iter.valid THEN {DBValue(iter)} ELSE {},
    failed <- iter # NoIter /\ Failed(iter.iter)

\* A DBIter over memtable, level-0 tables and the files of a level is a cursor
\* over the map its snapshot sees: whatever the sequence of seeks, steps and
\* changes of direction (db_iter.cc, merger.cc, two_level_iterator.cc), and
\* wherever a block cannot be read, every operation lands on the right key with the
\* right value, or status() says that it may not have, then and ever after.
IterIsCursor == Cursor!CursorSpec

\* Table::InternalGet (table.cc): a lookup in a table finds the newest entry of
\* the user key at or before the sequence number, whichever block it is in and
\* whatever the filter says, or reports an error.
LookupsFindEntries ==
    \A f \in ToSet(level0) \cup ToSet(level) : op.name = "open" =>
        \A user \in UserKeys, snapshot \in 0 .. written :
            LET got == InternalGet(f.table, InternalKey(user, snapshot, "val"))
            IN  got.failed \/ got.found = {e.key : e \in NewestOf(ToSet(f.items), user, snapshot)}

\* Table::ApproximateOffsetOf (table.cc): the estimate of where a key is never
\* decreases with the key, so that the size of a range is not negative, also where an
\* index key was shortened.
OffsetsAreMonotone ==
    \A f \in ToSet(level0) \cup ToSet(level) : op.name = "open" =>
        LET keys == {InternalKey(user, n, "val") : user \in UserKeys, n \in {0, written}}
        IN  \A a, b \in keys :
               KeyLess(a, b) => ApproximateOffsetOf(f.table, a) <= ApproximateOffsetOf(f.table, b)

\* A table finds what was put into it and tells where.
TablesAnswer == LookupsFindEntries /\ OffsetsAreMonotone

IterTypeOK ==
    /\ \A i \in 1 .. Len(mem) - 1 : ItemLess(mem[i], mem[i + 1])
    /\ written \in 0 .. MaxEntries /\ sequence \in 0 .. written
    /\ Len(level0) <= MaxTables
    /\ \A i \in DOMAIN level : Len(level[i].items) \in 1 .. FileSize
=============================================================================
