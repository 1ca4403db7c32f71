----------------------------- MODULE VersionSet -----------------------------
(***************************************************************************)
(* The decisions leveldb takes about the files of one version of the      *)
(* database (db/version_set.cc): where a lookup goes, to which level a    *)
(* flushed memtable goes, which files a compaction takes, which entries   *)
(* it drops and where it cuts its output.                                  *)
(*                                                                         *)
(* An entry is an internal key: user key, sequence number, type; the      *)
(* value is left out, the sequence number identifies it.  A file is a     *)
(* number and a set of entries, each of which counts one byte.  A         *)
(* version is a function from levels to sets of files; files_[level] of   *)
(* the code is that set sorted by smallest key.                           *)
(***************************************************************************)
EXTENDS Naturals, FiniteSets, Sequences, SequencesExt, FiniteSetsExt

CONSTANTS
    Keys,                \* user keys, a set of naturals from 1 on
    NumLevels,           \* config::kNumLevels
    MaxMemCompactLevel,  \* config::kMaxMemCompactLevel
    L0Trigger,           \* config::kL0_CompactionTrigger
    MaxBytes,            \* MaxBytesForLevel of every level above 0
    MaxFileSize,         \* kTargetFileSize
    MaxGrandparent,      \* kMaxGrandParentOverlapBytes
    MaxExpanded          \* kExpandedCompactionByteSizeLimit

ASSUME VersionAssumption ==
    /\ Keys \subseteq Nat \ {0} /\ Keys # {}
    /\ NumLevels \in Nat /\ NumLevels >= 2
    /\ MaxMemCompactLevel \in 0 .. NumLevels - 1
    /\ {L0Trigger, MaxBytes, MaxFileSize} \subseteq Nat \ {0}
    /\ {MaxGrandparent, MaxExpanded} \subseteq Nat

Levels == 0 .. NumLevels - 1

\* kMaxSequenceNumber is above every number in use: the least user key with it
\* is before every entry of that key.
Entry(k, s, t) == [key |-> k, seq |-> s, type |-> t]

\* InternalKeyComparator::Compare: user keys ascending, then newest first.
Before(a, b) == a.key < b.key \/ (a.key = b.key /\ a.seq > b.seq)

First(es) == CHOOSE e \in es : \A o \in es : o = e \/ Before(e, o)
Final(es) == CHOOSE e \in es : \A o \in es : o = e \/ Before(o, e)

\* FileMetaData of a table with these entries.
FileMetaData(number, es) ==
    [number |-> number, smallest |-> First(es), largest |-> Final(es), entries |-> es]

\* An entry is in one file only.
TotalFileSize(fs) == Cardinality(UNION {f.entries : f \in fs})

\* BySmallestKey: the order of files_[level].
BySmallestKey(f, g) ==
    \/ Before(f.smallest, g.smallest)
    \/ f.smallest = g.smallest /\ f.number < g.number

\* FindFile: the first file of a level whose largest key is not below the key,
\* as a set of at most one file.
FindFile(fs, key) ==
    LET reach == {f \in fs : ~Before(f.largest, key)}
    IN  {f \in reach : \A g \in reach : g = f \/ BySmallestKey(f, g)}

\* SomeFileOverlapsRange: a scan of level 0, a search in the others.
OverlapInLevel(v, level, lo, hi) ==
    IF level = 0
    THEN \E f \in v[0] : lo <= f.largest.key /\ hi >= f.smallest.key
    ELSE \E f \in v[level] :
            /\ ~\E g \in v[level] : BySmallestKey(g, f) /\ g.largest.key >= lo
            /\ f.largest.key >= lo
            /\ hi >= f.smallest.key

\* Mutant: a file that sticks out of the range is overlooked.
GetOverlappingInputsWithin(v, level, lo, hi) ==
    {f \in v[level] : f.largest.key <= hi /\ f.smallest.key >= lo}

\* Version::GetOverlappingInputs: in level 0 a file that sticks out of the
\* range widens it and the search starts again.
GetOverlappingInputs(v, level, lo, hi) ==
    LET Hit(r) == {f \in v[level] : f.largest.key >= r[1] /\ f.smallest.key <= r[2]}
        Widen(r) == <<Min({r[1]} \cup {f.smallest.key : f \in Hit(r)}),
                      Max({r[2]} \cup {f.largest.key : f \in Hit(r)})>>
        range[n \in 0 .. Cardinality(v[level])] ==
            IF n = 0 THEN <<lo, hi>> ELSE Widen(range[n - 1])
    IN  IF level = 0 THEN Hit(range[Cardinality(v[0])]) ELSE Hit(<<lo, hi>>)

\* Version::PickLevelForMemTableOutput.
PickLevelForMemTableOutput(v, lo, hi) ==
    LET Passes(m) ==
            /\ ~OverlapInLevel(v, m + 1, lo, hi)
            /\ m + 2 < NumLevels =>
                  TotalFileSize(GetOverlappingInputs(v, m + 2, lo, hi)) <= MaxGrandparent
    IN  IF OverlapInLevel(v, 0, lo, hi) THEN 0
        ELSE Max({l \in 0 .. MaxMemCompactLevel : \A m \in 0 .. l - 1 : Passes(m)})

\* The files of a level that Version::Get reads: those of level 0 around the key,
\* at most one of every other level.
SearchedFiles(v, level, k, s) ==
    IF level = 0 THEN {f \in v[0] : f.smallest.key <= k /\ k <= f.largest.key}
    ELSE {f \in FindFile(v[level], Entry(k, s, "val")) : k >= f.smallest.key}

\* All of them with their levels, and the order they are read in: level by level,
\* in level 0 the newest first.
FilesToSearch(v, k, s) ==
    UNION {{<<level, f>> : f \in SearchedFiles(v, level, k, s)} : level \in Levels}
SearchedBefore(x, y) == x[1] < y[1] \/ (x[1] = y[1] /\ x[2].number > y[2].number)
FirstSearched(files) == {x \in files : \A y \in files : y = x \/ SearchedBefore(x, y)}

\* What a search of a sorted run finds: the newest entry of the key that the
\* snapshot sees (MemTable::Get, Table::InternalGet with SaveValue).
Lookup(entries, k, s) ==
    LET seen == {e \in entries : e.key = k /\ e.seq <= s}
    IN  {e \in seen : \A o \in seen : o.seq <= e.seq}

\* Version::Get: the first file with an entry of the key decides, and no other is
\* read after it.
Hits(files, k, s) == {x \in files : Lookup(x[2].entries, k, s) # {}}
VersionGet(v, k, s) ==
    UNION {Lookup(x[2].entries, k, s) : x \in FirstSearched(Hits(FilesToSearch(v, k, s), k, s))}
FilesRead(v, k, s) ==
    LET files == FilesToSearch(v, k, s)
    IN  {x \in files : ~\E hit \in Hits(files, k, s) : SearchedBefore(hit, x)}

\* GetStats: the first of several files read is charged for the seek.
FirstOfSeveral(files) == {x \in FirstSearched(files) : files # {x}}

\* Mutant: the file with the answer is charged.
SeekFileLast(v, k, s) ==
    {x \in FilesRead(v, k, s) : \E y \in FilesRead(v, k, s) : y # x /\ ~SearchedBefore(x, y)}
SeekFile(v, k, s) == FirstOfSeveral(FilesRead(v, k, s))

\* Version::RecordReadSample: the same charge for a key an iterator passes;
\* it asks only whether two files cover the key.
SampleFile(v, e) == FirstOfSeveral(FilesToSearch(v, e.key, e.seq))

\* VersionSet::Finalize: the level with the highest score, the lowest of equals,
\* as <<level, numerator, denominator>>.
Finalize(v) ==
    LET score(l) == IF l = 0 THEN <<Cardinality(v[0]), L0Trigger>>
                    ELSE <<TotalFileSize(v[l]), MaxBytes>>
        best == CHOOSE l \in 0 .. NumLevels - 2 : \A m \in 0 .. NumLevels - 2 :
                   IF m < l THEN score(l)[1] * score(m)[2] > score(m)[1] * score(l)[2]
                   ELSE score(l)[1] * score(m)[2] >= score(m)[1] * score(l)[2]
    IN  [level |-> best, full |-> score(best)[1] >= score(best)[2]]

\* GetRange over a set of files.
RangeOf(fs) ==
    [smallest |-> First({f.smallest : f \in fs}), largest |-> Final({f.largest : f \in fs})]

\* The files of a level in the range of some others.
Under(v, level, fs) ==
    LET r == RangeOf(fs) IN GetOverlappingInputs(v, level, r.smallest.key, r.largest.key)

\* The two sets of inputs, the first one grown to expanded0 where that is free.
Grown(v, level, inputs0, inputs1, expanded0) ==
    LET expanded1 == Under(v, level + 1, expanded0)
        free == /\ inputs1 # {}
                /\ Cardinality(expanded0) > Cardinality(inputs0)
                /\ TotalFileSize(inputs1) + TotalFileSize(expanded0) < MaxExpanded
                /\ Cardinality(expanded1) = Cardinality(inputs1)
    IN  IF free THEN <<expanded0, expanded1>> ELSE <<inputs0, inputs1>>

WithGrandparents(v, level, in) ==
    [level |-> level, in0 |-> in[1], in1 |-> in[2],
     grandparents |-> IF level + 2 < NumLevels THEN Under(v, level + 2, in[1] \cup in[2]) ELSE {},
     pointer |-> RangeOf(in[1]).largest]

\* VersionSet::SetupOtherInputs: the files of level + 1 below the chosen ones,
\* more of the level itself when that takes no further file of level + 1, and
\* the grandparents.  "pointer" is where the next compaction of the level starts.
SetupOtherInputs(v, level, inputs0) ==
    LET inputs1 == Under(v, level + 1, inputs0)
    IN  WithGrandparents(v, level, Grown(v, level, inputs0, inputs1,
                                         Under(v, level, inputs0 \cup inputs1)))

\* VersionSet::PickCompaction by size: the first file after the level's pointer,
\* or the first of all; in level 0 with everything that overlaps it.
PickBySize(v, pointer) ==
    LET level == Finalize(v).level
        FirstFile(fs) == {f \in fs : \A g \in fs : g = f \/ BySmallestKey(f, g)}
        after == {f \in v[level] : pointer[level] = {} \/
                                   \E p \in pointer[level] : Before(p, f.largest)}
    IN  [level |-> level, file |-> FirstFile(IF after = {} THEN v[level] ELSE after)]

PickCompaction(v, chosen) ==
    SetupOtherInputs(v, chosen.level,
                     IF chosen.level = 0 THEN Under(v, 0, chosen.file) ELSE chosen.file)

\* VersionSet::CompactRange: the files of the range, cut off (above level 0) when
\* they reach the size of one output file.  A set of at most one compaction.
CompactRange(v, level, lo, hi) ==
    LET all == GetOverlappingInputs(v, level, lo, hi)
        Upto(f) == {g \in all : g = f \/ BySmallestKey(g, f)}
        enough == {f \in all : TotalFileSize(Upto(f)) >= MaxFileSize}
        cut == {f \in all : \A g \in enough : f \in Upto(g)}
    IN  IF all = {} THEN {}
        ELSE {SetupOtherInputs(v, level, IF level > 0 THEN cut ELSE all)}

\* Compaction::IsTrivialMove.
IsTrivialMove(c) ==
    /\ Cardinality(c.in0) = 1
    /\ c.in1 = {}
    /\ TotalFileSize(c.grandparents) <= MaxGrandparent

\* Mutant: the level after the next is not looked at.
IsBaseLevelForKeyFrom3(v, level, k) ==
    \A l \in level + 3 .. NumLevels - 1 : \A f \in v[l] :
        ~(f.smallest.key <= k /\ k <= f.largest.key)

\* Compaction::IsBaseLevelForKey: no deeper level has a file around the key.
IsBaseLevelForKey(v, level, k) ==
    \A l \in level + 2 .. NumLevels - 1 : \A f \in v[l] :
        ~(f.smallest.key <= k /\ k <= f.largest.key)

\* The drop rules of DBImpl::DoCompactionWork: an entry hidden from every
\* snapshot by a newer one (A), a deletion with nothing left to delete.
Dropped(v, level, inputs, smallestSnapshot, e) ==
    LET newer == {o.seq : o \in {x \in inputs : x.key = e.key /\ x.seq > e.seq}}
    IN  \/ newer # {} /\ Min(newer) <= smallestSnapshot
        \/ /\ e.type = "del"
           /\ e.seq <= smallestSnapshot
           /\ IsBaseLevelForKey(v, level, e.key)

\* Compaction::ShouldStopBefore: whether the grandparents passed since the last
\* cut are too many bytes.
ShouldStopBefore(c, st, e) ==
    LET passed == {g \in c.grandparents : Before(g.largest, e)}
        bytes == st.overlapped + (IF st.seen THEN TotalFileSize(passed \ st.passed) ELSE 0)
    IN  [stop |-> bytes > MaxGrandparent,
         st |-> [st EXCEPT !.seen = TRUE, !.passed = passed,
                           !.overlapped = IF bytes > MaxGrandparent THEN 0 ELSE bytes]]

\* A pass of the loop of DBImpl::DoCompactionWork, for the first entry still to
\* come: a drop, or an entry of the output, which is cut before a key that
\* ShouldStopBefore names and after a file that is big enough.
Close(st) == IF st.cur = {} THEN st ELSE [st EXCEPT !.outs = Append(@, st.cur), !.cur = {}]
CompactEntry(v, c, smallestSnapshot, inputs, st) ==
    LET e == First(st.rest)
        should == ShouldStopBefore(c, st, e)
        open == IF should.stop THEN Close(should.st) ELSE should.st
        with == [open EXCEPT !.cur = @ \cup {e}]
        next == IF Dropped(v, c.level, inputs, smallestSnapshot, e) THEN open
                ELSE IF Cardinality(with.cur) >= MaxFileSize THEN Close(with) ELSE with
    IN  [next EXCEPT !.rest = @ \ {e}]

\* The output of DoCompactionWork: the loop goes through all entries in order.
CompactionOutputs(v, c, smallestSnapshot) ==
    LET inputs == UNION {f.entries : f \in c.in0 \cup c.in1}
        run[n \in 0 .. Cardinality(inputs)] ==
            IF n = 0 THEN [rest |-> inputs, outs |-> <<>>, cur |-> {},
                           seen |-> FALSE, passed |-> {}, overlapped |-> 0]
            ELSE CompactEntry(v, c, smallestSnapshot, inputs, run[n - 1])
    IN  Close(run[Cardinality(inputs)]).outs

\* VersionSet::Builder: a version with files taken out and files put in.
Apply(v, deleted, level, added) ==
    [l \in Levels |-> (v[l] \ deleted) \cup (IF l = level THEN added ELSE {})]
=============================================================================
