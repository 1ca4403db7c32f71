----------------------------- MODULE LevelTree ------------------------------
(***************************************************************************)
(* The log-structured merge tree of leveldb over time: writes into the    *)
(* memtable, its flush, automatic, seek-triggered and manual compactions  *)
(* of the levels, snapshots and reads (db/db_impl.cc on top of            *)
(* db/version_set.cc).  Files are durable here; crashes and I/O errors    *)
(* are in DBImpl.                                                          *)
(*                                                                         *)
(* One background thread changes the version.  A compaction reads its     *)
(* inputs and the oldest snapshot when it starts and installs its output  *)
(* later; in between it flushes a full memtable, and writers and readers  *)
(* run.                                                                    *)
(***************************************************************************)
EXTENDS VersionSet

CONSTANTS
    Types,          \* what is written: "val" for Put, "del" for Delete
    WriteBuffer,    \* options_.write_buffer_size, in entries
    L0Stop,         \* config::kL0_StopWritesTrigger
    MaxSeq,         \* bound: number of writes
    MaxSnapshots,   \* bound: snapshots held at once
    MaxFiles,       \* bound: file numbers handed out
    MaxCalls,       \* bound: calls of CompactRange
    Ranges          \* the ranges CompactRange is called with, as sets of keys
                    \* of which the least and the greatest are the ends

ASSUME TreeAssumption ==
    /\ Types \subseteq {"val", "del"}
    /\ {WriteBuffer, L0Stop, MaxSeq, MaxSnapshots, MaxFiles, MaxCalls} \subseteq Nat
    /\ \A r \in Ranges : r \subseteq Keys /\ r # {} /\ IsFiniteSet(r)

VARIABLES
    mem,         \* mem_
    imm,         \* imm_: a sequence of at most one memtable
    version,     \* versions_->current()->files_
    pointer,     \* compact_pointer_, per level a set of at most one key
    toCompact,   \* file_to_compact_ with its level, a set of at most one pair
    nextFile,    \* next_file_number_
    snapshots,   \* the numbers in snapshots_
    compaction,  \* the CompactionState of a running compaction, or <<>>
    manual,      \* the CompactRange call under way, or <<>>
    calls,       \* number of CompactRange calls so far
    written,     \* history: the operations in the order of their numbers
    split,       \* history: some output file ended between entries of one key
    crossed      \* history: a flush put a file between the inputs of a manual compaction

treeVars == <<mem, imm, version, pointer, toCompact, nextFile, snapshots,
              compaction, manual, calls, written, split, crossed>>

LastSequence == Len(written)

TreeInit ==
    /\ mem = {} /\ imm = <<>>
    /\ version = [l \in Levels |-> {}]
    /\ pointer = [l \in Levels |-> {}]
    /\ toCompact = {}
    /\ nextFile = 1
    /\ snapshots = {}
    /\ compaction = <<>> /\ manual = <<>> /\ calls = 0
    /\ written = <<>> /\ split = FALSE /\ crossed = FALSE

-----------------------------------------------------------------------------
\* DBImpl::Write of one Put or Delete, with MakeRoomForWrite: a full memtable
\* is handed over first, unless the last one is still there or level 0 is full.
\* BuildBatchGroup may take the batchless write of TEST_CompactMemTable into its
\* group: that one is answered then without having forced the memtable out.
Write(k, t) ==
    /\ LastSequence < MaxSeq
    /\ LET e == Entry(k, LastSequence + 1, t)
       IN  \/ /\ Cardinality(mem) <= WriteBuffer
              /\ mem' = mem \cup {e}
              /\ UNCHANGED imm
           \/ /\ Cardinality(mem) > WriteBuffer
              /\ imm = <<>>
              /\ Cardinality(version[0]) < L0Stop
              /\ imm' = <<mem>>
              /\ mem' = {e}
    /\ written' = Append(written, [key |-> k, type |-> t])
    /\ \/ UNCHANGED manual
       \/ manual # <<>> /\ manual.pc = "rotate" /\ manual' = [manual EXCEPT !.pc = "wait"]
    /\ UNCHANGED <<version, pointer, toCompact, nextFile, snapshots, compaction, split, crossed, calls>>

\* DBImpl::GetSnapshot and ReleaseSnapshot.
GetSnapshot ==
    /\ Cardinality(snapshots) < MaxSnapshots
    /\ LastSequence \notin snapshots
    /\ snapshots' = snapshots \cup {LastSequence}
    /\ UNCHANGED <<mem, imm, version, pointer, toCompact, nextFile, compaction, manual,
                   written, split, crossed, calls>>

ReleaseSnapshot(s) ==
    /\ s \in snapshots
    /\ snapshots' = snapshots \ {s}
    /\ UNCHANGED <<mem, imm, version, pointer, toCompact, nextFile, compaction, manual,
                   written, split, crossed, calls>>

\* What DBImpl::Get answers for a key at a sequence number: memtable, the one
\* being flushed, the files; a deletion is an answer too.
Get(k, s) ==
    LET inImm == Lookup(UNION ToSet(imm), k, s)
        found == IF Lookup(mem, k, s) # {} THEN Lookup(mem, k, s)
                 ELSE IF inImm # {} THEN inImm ELSE VersionGet(version, k, s)
    IN  {e.seq : e \in {x \in found : x.type = "val"}}

\* Version::UpdateStats after a Get or a read sample: the file that was charged
\* has no seeks left (allowed_seeks is not counted: any charge may be the last).
UpdateStats(charged) ==
    /\ toCompact = {}
    /\ charged # {}
    /\ toCompact' = charged
    /\ UNCHANGED <<mem, imm, version, pointer, nextFile, snapshots, compaction, manual,
                   written, split, crossed, calls>>

GetCharges(k, s) ==
    /\ Lookup(mem, k, s) = {}
    /\ \A m \in ToSet(imm) : Lookup(m, k, s) = {}
    /\ UpdateStats(SeekFile(version, k, s))

RecordReadSample(e) == UpdateStats(SampleFile(version, e))

-----------------------------------------------------------------------------
\* DBImpl::CompactMemTable: the background thread writes imm_ to a table (an
\* empty memtable leaves no file), first thing in a round or inside a compaction.
\* The level is picked in the current version, which knows nothing of the output that
\* a running compaction is going to put into it.
Crosses(f, level) ==
    /\ compaction # <<>> /\ compaction.manual /\ level = compaction.level + 1
    /\ \E o \in compaction.outs : ~Before(f.largest, o.smallest) /\ ~Before(o.largest, f.smallest)
CompactMemTable ==
    /\ imm # <<>>
    /\ IF imm[1] = {} THEN UNCHANGED <<version, nextFile, crossed>>
       ELSE LET f == FileMetaData(nextFile, imm[1])
                level == PickLevelForMemTableOutput(version, f.smallest.key, f.largest.key)
            IN  /\ nextFile < MaxFiles
                /\ version' = Apply(version, {}, level, {f})
                /\ nextFile' = nextFile + 1
                /\ crossed' = (crossed \/ Crosses(f, level))
    /\ imm' = <<>>
    /\ toCompact' = {}
    /\ UNCHANGED <<mem, pointer, snapshots, compaction, manual, written, split, calls>>

\* NeedsCompaction.
NeedsCompaction == Finalize(version).full \/ toCompact # {}

\* PickCompaction: size first, then seeks.
ToCompact == IF Finalize(version).full THEN PickBySize(version, pointer)
             ELSE LET seek == CHOOSE x \in toCompact : TRUE
                  IN  [level |-> seek[1], file |-> {seek[2]}]
Picked == PickCompaction(version, ToCompact)

Armed == manual # <<>> /\ manual.pc = "armed"

\* Mutant: a second compaction may start next to a running one.
IdleMeanwhile == imm = <<>>

\* The start of DBImpl::BackgroundCompaction: it only runs when there is no
\* memtable to flush, and takes a manual compaction first.
Idle == compaction = <<>> /\ imm = <<>>

\* A single file with nothing below it changes its level and is not rewritten.
TrivialMove ==
    /\ Idle /\ ~Armed /\ NeedsCompaction
    /\ \E c \in {Picked} :
           /\ IsTrivialMove(c)
           /\ version' = Apply(version, c.in0, c.level + 1, c.in0)
           /\ pointer' = [pointer EXCEPT ![c.level] = {c.pointer}]
    /\ toCompact' = {}
    /\ UNCHANGED <<mem, imm, nextFile, snapshots, compaction, manual, written, split, crossed, calls>>

\* DoCompactionWork up to the installation: the entries to keep depend on the
\* oldest snapshot, or the last number, at this moment.
StartCompaction(c, forManual) ==
    LET smallestSnapshot == IF snapshots = {} THEN LastSequence ELSE Min(snapshots)
    IN  \E outs \in {CompactionOutputs(version, c, smallestSnapshot)} :
        /\ nextFile + Len(outs) <= MaxFiles
        /\ compaction' = [inputs |-> c.in0 \cup c.in1, level |-> c.level,
                          outs |-> {FileMetaData(nextFile + i - 1, outs[i]) : i \in DOMAIN outs},
                          manual |-> forManual,
                          \* manual_end: the largest key of the last input file
                          end |-> (CHOOSE f \in c.in0 : \A g \in c.in0 :
                                      g = f \/ BySmallestKey(g, f)).largest.key]
        /\ nextFile' = nextFile + Len(outs)
        /\ pointer' = [pointer EXCEPT ![c.level] = {c.pointer}]
        /\ split' = (split \/ \E i, j \in DOMAIN outs : i < j /\
                        \E a \in outs[i], b \in outs[j] : a.key = b.key)
        /\ UNCHANGED <<mem, imm, version, toCompact, snapshots, written, crossed, calls>>

AutomaticCompaction ==
    /\ Idle /\ ~Armed /\ NeedsCompaction
    /\ \E c \in {Picked} : ~IsTrivialMove(c) /\ StartCompaction(c, FALSE)
    /\ UNCHANGED manual

\* InstallCompactionResults; a manual compaction goes on behind what it did.
InstallCompaction ==
    /\ compaction # <<>>
    /\ version' = Apply(version, compaction.inputs, compaction.level + 1, compaction.outs)
    /\ compaction' = <<>>
    /\ toCompact' = {}
    /\ manual' = IF compaction.manual
                 THEN [manual EXCEPT !.begin = compaction.end, !.pc = "idle"] ELSE manual
    /\ UNCHANGED <<mem, imm, pointer, nextFile, snapshots, written, split, crossed, calls>>

-----------------------------------------------------------------------------
\* DBImpl::CompactRange: find the deepest level with files of the range, flush
\* the memtable, then TEST_CompactRange level by level.
CallCompactRange(r) ==
    /\ manual = <<>>
    /\ calls < MaxCalls
    /\ calls' = calls + 1
    /\ manual' = [lo |-> Min(r), hi |-> Max(r), begin |-> Min(r), level |-> 0, pc |-> "rotate",
                  top |-> Max({1} \cup {l \in 1 .. NumLevels - 1 :
                                           OverlapInLevel(version, l, Min(r), Max(r))})]
    /\ UNCHANGED <<mem, imm, version, pointer, toCompact, nextFile, snapshots, compaction,
                   written, split, crossed>>

\* TEST_CompactMemTable: a write without a batch forces the memtable out ...
ForceMemTable ==
    /\ manual # <<>> /\ manual.pc = "rotate"
    /\ imm = <<>>
    /\ Cardinality(version[0]) < L0Stop
    /\ imm' = <<mem>>
    /\ mem' = {}
    /\ manual' = [manual EXCEPT !.pc = "wait"]
    /\ UNCHANGED <<version, pointer, toCompact, nextFile, snapshots, compaction, written, split, crossed, calls>>

\* ... and the caller waits until it is flushed.
MemTableForced ==
    /\ manual # <<>> /\ manual.pc = "wait"
    /\ imm = <<>>
    /\ manual' = [manual EXCEPT !.pc = "idle"]
    /\ UNCHANGED <<mem, imm, version, pointer, toCompact, nextFile, snapshots, compaction,
                   written, split, crossed, calls>>

\* TEST_CompactRange hands its request to the background thread, again after
\* every part.
ArmManual ==
    /\ manual # <<>> /\ manual.pc = "idle"
    /\ manual' = [manual EXCEPT !.pc = "armed"]
    /\ UNCHANGED <<mem, imm, version, pointer, toCompact, nextFile, snapshots, compaction,
                   written, split, crossed, calls>>

ManualCompaction ==
    /\ Idle /\ Armed
    /\ LET cs == CompactRange(version, manual.level, manual.begin, manual.hi)
       IN  \/ /\ cs = {}                          \* done with this level
              /\ manual' = IF manual.level + 1 = manual.top THEN <<>>
                           ELSE [manual EXCEPT !.level = @ + 1, !.begin = manual.lo,
                                               !.pc = "idle"]
              /\ UNCHANGED <<mem, imm, version, pointer, toCompact, nextFile, snapshots,
                             compaction, written, split, crossed, calls>>
           \/ /\ \E c \in cs : StartCompaction(c, TRUE)
              /\ manual' = [manual EXCEPT !.pc = "running"]

TreeNext ==
    \/ \E k \in Keys, t \in Types : Write(k, t)
    \/ GetSnapshot
    \/ \E s \in snapshots : ReleaseSnapshot(s)
    \/ \E k \in Keys : \E s \in snapshots \cup {LastSequence} : GetCharges(k, s)
    \/ \E l \in Levels : \E f \in version[l] : \E e \in f.entries : RecordReadSample(e)
    \/ CompactMemTable
    \/ TrivialMove
    \/ AutomaticCompaction
    \/ InstallCompaction
    \/ \E r \in Ranges : CallCompactRange(r)
    \/ ForceMemTable
    \/ MemTableForced
    \/ ArmManual
    \/ ManualCompaction

TreeSpec == TreeInit /\ [][TreeNext]_treeVars

-----------------------------------------------------------------------------
Files == UNION {version[l] : l \in Levels}

\* The types of the variables; a compaction asked for by seeks is of a file that still
\* exists and has a level to put its output in (version_set.cc:422-433, 1271-1273).
TreeTypeOK ==
    /\ \A e \in mem : e.key \in Keys /\ e.seq \in 1 .. LastSequence
    /\ Len(imm) <= 1
    /\ \A f \in Files : f.entries # {} /\ f.number < nextFile
    /\ \A l \in Levels : Cardinality(pointer[l]) <= 1
    /\ Cardinality(toCompact) <= 1
    /\ \A x \in toCompact : x[1] + 1 < NumLevels /\ x[2] \in version[x[1]]
    /\ snapshots \subseteq 0 .. LastSequence
    /\ split \in BOOLEAN /\ crossed \in BOOLEAN

\* "Must not overlap" (Builder::MaybeAddFile): above level 0 the files of a level
\* are disjoint.
LevelsDisjoint ==
    \A l \in 1 .. NumLevels - 1 : \A f, g \in version[l] :
        f = g \/ Before(f.largest, g.smallest) \/ Before(g.largest, f.smallest)

\* Only a flush during a manual compaction can break this: the inputs of an
\* automatic one leave no gap, so that what is flushed meanwhile into the level of
\* its output lies beside all of the output.
UncrossedLevelsDisjoint == crossed \/ LevelsDisjoint

\* A running compaction's inputs are still the files of their levels when it
\* installs its output (only then do the deletions of its edit take effect), and
\* nothing was put below them meanwhile.
InputsStayCurrent ==
    compaction # <<>> =>
        compaction.inputs \subseteq version[compaction.level] \cup version[compaction.level + 1]

\* The newest value that was written under a key up to a sequence number.
Newest(k, s) ==
    LET seen == {i \in 1 .. s : written[i].key = k}
    IN  {i \in seen : i = Max(seen) /\ written[i].type = "val"}

\* Every read, at the last number or at a held snapshot, answers with the newest
\* write it may see: no entry a reader needs is dropped, none comes back, none is
\* hidden by an older one in a level above it.
ReadsSeeNewest ==
    \A k \in Keys : \A s \in snapshots \cup {LastSequence} : Get(k, s) = Newest(k, s)

\* The same while no compaction has cut its output between two entries of a key and
\* no flush has crossed one.
UnsplitReadsSeeNewest == split \/ crossed \/ ReadsSeeNewest

\* "data in lower levels will have larger sequence numbers" (DoCompactionWork):
\* of one user key the newer entries are above the older ones, also in level 0
\* where the file number gives the order.
NewerEntriesAbove ==
    split \/ crossed \/ \A l, m \in Levels : \A f \in version[l], g \in version[m] :
        (l < m \/ (l = 0 /\ m = 0 /\ f.number > g.number)) =>
            \A a \in f.entries, b \in g.entries : a.key = b.key => a.seq > b.seq
=============================================================================
