------------------------------- MODULE DBImpl -------------------------------
(***************************************************************************)
(* A leveldb database between its threads and its files (db/db_impl.cc,   *)
(* the manifest half of db/version_set.cc, db/builder.cc): writers that   *)
(* queue up and commit in groups, the background thread that flushes and  *)
(* compacts, the manifest, the deletion of obsolete files, I/O errors,    *)
(* crashes of the process or the machine, and recovery.                   *)
(*                                                                         *)
(* Each step ends where the code releases mutex_ or may be cut by a       *)
(* crash.  A write is one numbered operation; its key, and the levels and *)
(* ranges of files, are in LevelTree: a compaction here replaces some     *)
(* tables by one with the same entries.                                   *)
(***************************************************************************)
EXTENDS Naturals, FiniteSets, Sequences, SequencesExt, FiniteSetsExt

CONSTANTS
    Writers,        \* client threads
    Kinds,          \* how they write: "sync", "async", or "null" for the
                    \* write without a batch of TEST_CompactMemTable
    WriteBuffer,    \* options_.write_buffer_size, in entries
    MaxGroup,       \* the size limit of BuildBatchGroup, in batches
    CompactAt,      \* number of tables from which NeedsCompaction is true
    StopAt,         \* config::kL0_StopWritesTrigger
    Paranoid,       \* options_.paranoid_checks
    Faults,         \* I/O errors that can happen, see Fault
    MaxOps,         \* bound: writes
    MaxFaults,      \* bound: I/O errors
    MaxCrashes,     \* bound: crashes and clean closes of an open database; one
                    \* more crash can hit it while it is being opened
    MaxIters        \* bound: iterators held at once

ASSUME DBAssumption ==
    /\ Kinds \subseteq {"sync", "async", "null"}
    /\ Faults \subseteq {"create", "append", "torn", "sync", "table", "recover", "replay"}
    /\ {WriteBuffer, MaxOps, MaxFaults, MaxCrashes, MaxIters} \subseteq Nat
    /\ {MaxGroup, CompactAt, StopAt} \subseteq Nat \ {0}
    /\ 2 <= CompactAt /\ CompactAt <= StopAt
    /\ Paranoid \in BOOLEAN

VARIABLES
    \* files: functions from the numbers of existing files to contents
    logs,            \* [recs, synced]: log records and how many are on disk for good
    tables,          \* [entries, synced]
    manifests,       \* [recs, synced]: version edits
    current,         \* the manifest CURRENT names, 0 without CURRENT
    \* memory
    phase,           \* where DB::Open or the destructor is
    opening,         \* locals of DB::Open and Recover
    mem, imm,        \* imm: a sequence of at most one memtable
    logfileNumber,   \* logfile_number_
    version,         \* the tables of versions_->current()
    nextFile, lastSequence, logNumber, manifestNumber,   \* of versions_
    pending,         \* pending_outputs_
    bgError,         \* ~bg_error_.ok()
    bg,              \* the background thread: pc, table being written, compaction
                     \* under way (a sequence of at most one), edit being logged
    iters,           \* versions held by iterators
    queue,           \* writers_
    writer,          \* per thread: pc, kind, op, error
    group,           \* the writers of the group being committed
    \* history and bounds
    ops, owed, created, faults, crashes

files == <<logs, tables, manifests, current>>
versionVars == <<version, nextFile, lastSequence, logNumber, manifestNumber>>
memVars == <<mem, imm, logfileNumber>>
writeVars == <<queue, writer, group>>
history == <<ops, owed, created, crashes>>
dbVars == <<files, phase, opening, memVars, versionVars, pending, bgError, bg, iters,
            writeVars, history, faults>>

Entry(s, o) == [seq |-> s, op |-> o]
Torn == [torn |-> TRUE]        \* a record of which only a part was written
NoBg == [pc |-> "none", file |-> 0, merge |-> <<>>, edit |-> <<>>, failed |-> FALSE]
NoWriter == [pc |-> "idle", kind |-> "async", op |-> 0, error |-> "none"]
NotOpening == [todo |-> {}, maxSequence |-> 0, add |-> {}, failed |-> FALSE]

\* Puts file n with content x on disk, over an old file of that name.
Put(f, n, x) == [m \in DOMAIN f \cup {n} |-> IF m = n THEN x ELSE f[m]]
Keep(f, P(_)) == [m \in {n \in DOMAIN f : P(n)} |-> f[m]]

\* An I/O error of this sort happens now.
Fault(sort) == sort \in Faults /\ faults < MaxFaults /\ faults' = faults + 1
NoFault == UNCHANGED faults

DropMemory ==
    /\ phase' = "closed" /\ opening' = NotOpening
    /\ mem' = {} /\ imm' = <<>> /\ logfileNumber' = 0
    /\ version' = {} /\ nextFile' = 2 /\ lastSequence' = 0
    /\ logNumber' = 0 /\ manifestNumber' = 0
    /\ pending' = {} /\ bgError' = FALSE /\ bg' = NoBg /\ iters' = {}
    /\ queue' = <<>> /\ group' = <<>> /\ writer' = [w \in Writers |-> NoWriter]

DBInit ==
    /\ logs = <<>> /\ tables = <<>> /\ manifests = <<>> /\ current = 0
    /\ phase = "closed" /\ opening = NotOpening
    /\ mem = {} /\ imm = <<>> /\ logfileNumber = 0
    /\ version = {} /\ nextFile = 2 /\ lastSequence = 0
    /\ logNumber = 0 /\ manifestNumber = 0
    /\ pending = {} /\ bgError = FALSE /\ bg = NoBg /\ iters = {}
    /\ queue = <<>> /\ group = <<>> /\ writer = [w \in Writers |-> NoWriter]
    /\ ops = 0 /\ owed = {} /\ created = FALSE /\ faults = 0 /\ crashes = 0

-----------------------------------------------------------------------------
\* What a log::Reader returns: the records up to a torn one; the rest of its
\* block is dropped, here the rest of the file.
Readable(recs) ==
    LET torn == {i \in DOMAIN recs : recs[i] = Torn}
    IN  IF torn = {} THEN recs ELSE SubSeq(recs, 1, Min(torn) - 1)

\* A torn record at the end is what a crash leaves and is passed over silently;
\* one in the middle is reported.
Corrupt(recs) == \E i \in 1 .. Len(recs) - 1 : recs[i] = Torn

\* What an append leaves in a file, and whether it failed.
Append1(recs, r) ==
    {[recs |-> Append(recs, r), failed |-> FALSE]}
    \cup (IF "append" \in Faults THEN {[recs |-> recs, failed |-> TRUE]} ELSE {})
    \cup (IF "torn" \in Faults THEN {[recs |-> Append(recs, Torn), failed |-> TRUE]} ELSE {})

\* Mutant: the manifest in use goes as well.
DeleteObsoleteFilesAll(error, live, log, manifest, ls, ts, ms) ==
    IF error THEN logs' = ls /\ tables' = ts /\ manifests' = ms
    ELSE /\ logs' = Keep(ls, LAMBDA n : n >= log)
         /\ tables' = Keep(ts, LAMBDA n : n \in live)
         /\ manifests' = Keep(ms, LAMBDA n : n > manifest)

\* DeleteObsoleteFiles, given the state it sees.
DeleteObsoleteFiles(error, live, log, manifest, ls, ts, ms) ==
    IF error THEN logs' = ls /\ tables' = ts /\ manifests' = ms
    ELSE /\ logs' = Keep(ls, LAMBDA n : n >= log)
         /\ tables' = Keep(ts, LAMBDA n : n \in live)
         /\ manifests' = Keep(ms, LAMBDA n : n >= manifest)

\* MaybeScheduleCompaction with the thread in state b.
MaybeScheduleCompaction(b, ph, error, im, v) ==
    IF b.pc = "none" /\ ph = "open" /\ ~error /\ (im # <<>> \/ Cardinality(v) >= CompactAt)
    THEN [NoBg EXCEPT !.pc = "scheduled"] ELSE b

\* bg_cv_.SignalAll(): writers that wait for room look again.
SignalAll(ws) ==
    [w \in Writers |-> IF ws[w].pc = "room" THEN [ws[w] EXCEPT !.pc = "front"] ELSE ws[w]]

-----------------------------------------------------------------------------
\* DBImpl::Write: a thread queues up; only the first one goes on, the others
\* sleep on their own condition variables.
EnterWrite(w, kind) ==
    /\ phase = "open" /\ ops < MaxOps
    /\ writer[w].pc = "idle"
    /\ ops' = ops + 1
    /\ queue' = Append(queue, w)
    /\ writer' = [writer EXCEPT ![w] = [pc |-> IF queue = <<>> THEN "front" ELSE "queue",
                                        kind |-> kind, op |-> ops + 1, error |-> "none"]]
    /\ UNCHANGED <<files, phase, opening, memVars, versionVars, pending, bgError, bg, iters,
                   group, owed, created, crashes, faults>>

\* Mutant: a sync write joins a group that is not synced.
BuildBatchGroupAny ==
    LET Batches(n) == Cardinality({i \in 1 .. n : writer[queue[i]].kind # "null"})
    IN  SubSeq(queue, 1, Max({m \in 1 .. Len(queue) : m = 1 \/ Batches(m) <= MaxGroup}))

\* BuildBatchGroup: how many of the queue join the first writer.  A sync write
\* does not join a group that will not be synced; a write without a batch joins
\* and adds nothing.
BuildBatchGroup ==
    LET Batches(n) == Cardinality({i \in 1 .. n : writer[queue[i]].kind # "null"})
        Joins(i) == /\ writer[queue[i]].kind = "sync" => writer[queue[1]].kind = "sync"
                    /\ Batches(i) <= MaxGroup
        n == Max({m \in 1 .. Len(queue) : \A i \in 2 .. m : Joins(i)})
    IN  SubSeq(queue, 1, n)

\* The end of DBImpl::Write: the writers of the group leave the queue with the
\* leader's status, the new head wakes up.  ok: the operation is promised.
Answer(g, ok) ==
    LET rest == SubSeq(queue, Len(g) + 1, Len(queue))
    IN  /\ queue' = rest
        /\ group' = <<>>
        /\ writer' = [w \in Writers |->
                        IF w \in ToSet(g) THEN NoWriter
                        ELSE IF rest # <<>> /\ w = Head(rest)
                        THEN [writer[w] EXCEPT !.pc = "front"] ELSE writer[w]]
        /\ owed' = IF ~ok THEN owed
                   ELSE owed \cup {[op |-> writer[w].op, sync |-> writer[w].kind = "sync"] :
                                       w \in {x \in ToSet(g) : writer[x].kind # "null"}}

\* MakeRoomForWrite of the first writer, up to the unlock in Write.
IsFull(w) == writer[w].kind = "null" \/ Cardinality(mem) > WriteBuffer

WriteFails(w) ==
    /\ writer[w].pc = "front" /\ bgError
    /\ Answer(<<w>>, FALSE)
    /\ UNCHANGED <<files, phase, opening, memVars, versionVars, pending, bgError, bg, iters,
                   ops, created, crashes, faults>>

\* Mutant: the leader leaves the queue before it writes.
StartGroupUnqueued(w) ==
    /\ group' = BuildBatchGroup
    /\ queue' = Tail(queue)
    /\ writer' = [x \in Writers |->
                    IF x = w THEN [writer[w] EXCEPT !.pc = "log"]
                    ELSE IF Tail(queue) # <<>> /\ x = Head(Tail(queue))
                    THEN [writer[x] EXCEPT !.pc = "front"] ELSE writer[x]]
    /\ UNCHANGED owed

StartGroup(w) ==
    /\ group' = BuildBatchGroup
    /\ writer' = [writer EXCEPT ![w].pc = "log"]
    /\ UNCHANGED <<queue, owed>>

HasRoom(w) ==
    /\ writer[w].pc = "front" /\ ~bgError /\ ~IsFull(w)
    /\ StartGroup(w)
    /\ UNCHANGED <<files, phase, opening, memVars, versionVars, pending, bgError, bg, iters,
                   ops, created, crashes, faults>>

WaitForRoom(w) ==
    /\ writer[w].pc = "front" /\ ~bgError /\ IsFull(w)
    /\ Len(imm) = 1 \/ Cardinality(version) >= StopAt
    /\ writer' = [writer EXCEPT ![w].pc = "room"]
    /\ UNCHANGED <<files, phase, opening, memVars, versionVars, pending, bgError, bg, iters,
                   queue, group, history, faults>>

\* A new log file and a new memtable; the old one is handed to the background
\* thread.  A write without a batch is then done.
SwitchMemTable(w) ==
    /\ writer[w].pc = "front" /\ ~bgError /\ IsFull(w)
    /\ imm = <<>> /\ Cardinality(version) < StopAt
    /\ logs' = Put(logs, nextFile, [recs |-> <<>>, synced |-> 0])
    /\ logfileNumber' = nextFile
    /\ nextFile' = nextFile + 1
    /\ imm' = <<mem>> /\ mem' = {}
    /\ bg' = MaybeScheduleCompaction(bg, phase, bgError, imm', version)
    /\ IF writer[w].kind = "null" THEN Answer(<<w>>, TRUE) ELSE StartGroup(w)
    /\ NoFault
    /\ UNCHANGED <<tables, manifests, current, phase, opening, version, lastSequence, logNumber,
                   manifestNumber, pending, bgError, iters, ops, created, crashes>>

\* The log file cannot be created: ReuseFileNumber, and the write fails.
SwitchFails(w) ==
    /\ writer[w].pc = "front" /\ ~bgError /\ IsFull(w)
    /\ imm = <<>> /\ Cardinality(version) < StopAt
    /\ Fault("create")
    /\ Answer(<<w>>, FALSE)
    /\ UNCHANGED <<files, phase, opening, memVars, versionVars, pending, bgError, bg, iters,
                   ops, created, crashes>>

\* The batches of the group, one after the other.
GroupOps ==
    LET batches[i \in 0 .. Len(group)] ==
            IF i = 0 THEN <<>>
            ELSE IF writer[group[i]].kind = "null" THEN batches[i - 1]
            ELSE Append(batches[i - 1], writer[group[i]].op)
    IN  batches[Len(group)]

\* Without the mutex: append the group to the log, sync it if the leader asks
\* for that, insert it into the memtable.
AddRecord(w) ==
    /\ writer[w].pc = "log"
    /\ LET log == logs[logfileNumber]
           entries == {Entry(lastSequence + i, GroupOps[i]) : i \in DOMAIN GroupOps}
           record == [seq |-> lastSequence + 1, ops |-> GroupOps]
           sync == writer[w].kind = "sync"
           Logged(a, synced, error) ==
               /\ logs' = Put(logs, logfileNumber,
                              [recs |-> a.recs, synced |-> IF synced THEN Len(a.recs) ELSE log.synced])
               /\ mem' = IF error = "none" THEN mem \cup entries ELSE mem
               /\ writer' = [writer EXCEPT ![w].pc = "logged", ![w].error = error]
       IN  \E a \in Append1(log.recs, record) :
              \/ ~a.failed /\ NoFault /\ Logged(a, sync, "none")
              \/ a.failed /\ (Fault("append") \/ Fault("torn")) /\ Logged(a, FALSE, "append")
              \/ ~a.failed /\ sync /\ Fault("sync") /\ Logged(a, FALSE, "sync")
    /\ UNCHANGED <<tables, manifests, current, phase, opening, imm, logfileNumber, versionVars,
                   pending, bgError, bg, iters, queue, group, history>>

\* The mutex again: a failed sync stops all later writes; the numbers are used
\* up even when the write failed.
FinishWrite(w) ==
    /\ writer[w].pc = "logged"
    /\ bgError' = (bgError \/ writer[w].error = "sync")
    /\ lastSequence' = lastSequence + Len(GroupOps)
    /\ Answer(group, writer[w].error = "none")
    /\ UNCHANGED <<files, phase, opening, memVars, version, nextFile, logNumber, manifestNumber,
                   pending, bg, iters, ops, created, crashes, faults>>

-----------------------------------------------------------------------------
\* Mutant: nobody is woken.
BackgroundDoneQuietly(error, im, v) ==
    /\ bg' = MaybeScheduleCompaction(NoBg, phase, error, im, v)
    /\ bgError' = error
    /\ UNCHANGED writer

\* The end of BackgroundCall: look for more work, wake everyone who waits.
BackgroundDone(error, im, v) ==
    /\ bg' = MaybeScheduleCompaction(NoBg, phase, error, im, v)
    /\ writer' = SignalAll(writer)
    /\ bgError' = error

\* The end of CompactMemTable: back to the compaction it interrupted, if any.
FlushDone(error, im, v) ==
    IF bg.merge = <<>> THEN BackgroundDone(error, im, v)
    ELSE /\ bg' = [NoBg EXCEPT !.pc = "merge", !.merge = bg.merge]
         /\ writer' = SignalAll(writer)
         /\ bgError' = error

\* Mutant: the last number is forgotten.
EditWithoutLast(log, add, del) ==
    [log |-> log, next |-> nextFile, last |-> 0, add |-> add, del |-> del]

\* LogAndApply, before it unlocks: the edit takes the numbers of this moment.
Edit(log, add, del) ==
    [log |-> log, next |-> nextFile, last |-> lastSequence, add |-> add, del |-> del]

\* BackgroundCall finds the database closing or broken, or nothing to do.
NothingToDo ==
    /\ bg.pc = "scheduled"
    /\ phase = "closing" \/ bgError \/ (imm = <<>> /\ Cardinality(version) < CompactAt)
    /\ BackgroundDone(bgError, imm, version)
    /\ UNCHANGED <<files, phase, opening, memVars, versionVars, pending, iters, queue, group,
                   history, faults>>

\* CompactMemTable and WriteLevel0Table take a file number and start to write
\* the table, first thing or in the middle of a compaction, there even after
\* an error.
StartFlush ==
    /\ imm # <<>> /\ phase = "open"
    /\ bg.pc = "merge" \/ (bg.pc = "scheduled" /\ ~bgError)
    /\ bg' = [bg EXCEPT !.pc = "build", !.file = nextFile]
    /\ nextFile' = nextFile + 1
    /\ pending' = pending \cup {nextFile}
    /\ tables' = IF imm[1] = {} THEN tables
                 ELSE Put(tables, nextFile, [entries |-> {}, synced |-> FALSE])
    /\ UNCHANGED <<logs, manifests, current, phase, opening, memVars, version, lastSequence,
                   logNumber, manifestNumber, bgError, iters, writeVars, history, faults>>

\* BuildTable finishes: the table is synced; an empty memtable leaves no table.
\* The edit makes the logs before the current one superfluous.
BuildTable ==
    /\ bg.pc = "build"
    /\ pending' = pending \ {bg.file}
    /\ tables' = IF imm[1] = {} THEN tables
                 ELSE Put(tables, bg.file, [entries |-> imm[1], synced |-> TRUE])
    /\ IF phase = "closing"
       THEN FlushDone(TRUE, imm, version)
       ELSE /\ bg' = [bg EXCEPT !.pc = "edit",
                                !.edit = Edit(logfileNumber, IF imm[1] = {} THEN {} ELSE {bg.file}, {})]
            /\ UNCHANGED <<writer, bgError>>
    /\ NoFault
    /\ UNCHANGED <<logs, manifests, current, phase, opening, memVars, versionVars, iters,
                   queue, group, history>>

BuildTableFails ==
    /\ bg.pc = "build" /\ Fault("table")
    /\ pending' = pending \ {bg.file}
    /\ tables' = Keep(tables, LAMBDA n : n # bg.file)
    /\ FlushDone(TRUE, imm, version)
    /\ UNCHANGED <<logs, manifests, current, phase, opening, memVars, versionVars, iters,
                   queue, group, history>>

\* LogAndApply without the mutex: append to the manifest and sync it.
AddManifestRecord ==
    /\ bg.pc = "edit"
    /\ LET m == manifests[manifestNumber]
           Logged(a, synced) ==
               manifests' = Put(manifests, manifestNumber,
                                [recs |-> a.recs, synced |-> IF synced THEN Len(a.recs) ELSE m.synced])
           Ends(failed) == bg' = [bg EXCEPT !.pc = "applied", !.failed = failed]
       IN  \E a \in Append1(m.recs, bg.edit) :
              \/ ~a.failed /\ NoFault /\ Logged(a, TRUE) /\ Ends(FALSE)
              \/ a.failed /\ (Fault("append") \/ Fault("torn")) /\ Logged(a, FALSE) /\ Ends(TRUE)
              \/ ~a.failed /\ Fault("sync") /\ Logged(a, FALSE) /\ Ends(TRUE)
    /\ UNCHANGED <<logs, tables, current, phase, opening, memVars, versionVars, pending, bgError,
                   iters, writeVars, history>>

\* Mutant: only the current version counts.
LiveFilesCurrent(v, p, merge) == v \cup p

\* The files AddLiveFiles names, with the version that is about to be current.
LiveFiles(v, p, merge) == v \cup p \cup (UNION iters) \cup UNION {m.base : m \in ToSet(merge)}

\* The rest of LogAndApply and of CompactMemTable.
InstallFlush ==
    /\ bg.pc = "applied" /\ bg.edit.del = {}
    /\ IF bg.failed
       THEN /\ FlushDone(TRUE, imm, version)
            /\ UNCHANGED <<version, logNumber, imm, logs, tables, manifests>>
       ELSE /\ version' = version \cup bg.edit.add
            /\ logNumber' = bg.edit.log
            /\ imm' = <<>>
            /\ DeleteObsoleteFiles(bgError, LiveFiles(version', pending, bg.merge), logNumber',
                                   manifestNumber, logs, tables, manifests)
            /\ FlushDone(bgError, <<>>, version')
    /\ UNCHANGED <<current, phase, opening, mem, logfileNumber, nextFile, lastSequence,
                   manifestNumber, pending, iters, queue, group, history, faults>>

\* DoCompactionWork: some tables of the current version, which it keeps alive,
\* are merged into one new table.
StartMerge ==
    /\ bg.pc = "scheduled" /\ phase = "open" /\ ~bgError
    /\ imm = <<>> /\ Cardinality(version) >= CompactAt
    /\ nextFile' = nextFile + 1
    /\ \/ /\ \E inputs \in SUBSET version :
                /\ Cardinality(inputs) >= 2
                /\ bg' = [NoBg EXCEPT !.pc = "merge",
                             !.merge = <<[out |-> nextFile, inputs |-> inputs, base |-> version]>>]
          /\ pending' = pending \cup {nextFile}
          /\ tables' = Put(tables, nextFile, [entries |-> {}, synced |-> FALSE])
          /\ NoFault
          /\ UNCHANGED <<writer, bgError>>
       \/ /\ Fault("create")                  \* OpenCompactionOutputFile fails
          /\ BackgroundDone(TRUE, imm, version)
          /\ UNCHANGED <<tables, pending>>
    /\ UNCHANGED <<logs, manifests, current, phase, opening, memVars, version, lastSequence,
                   logNumber, manifestNumber, iters, queue, group, history>>

\* The merge ends early: RecordBackgroundError, CleanupCompaction.
MergeFails ==
    /\ bg.pc = "merge"
    /\ (phase = "closing" /\ NoFault) \/ Fault("table")
    /\ pending' = pending \ {bg.merge[1].out}
    /\ BackgroundDone(TRUE, imm, version)
    /\ UNCHANGED <<files, phase, opening, memVars, versionVars, iters, queue, group, history>>

\* FinishCompactionOutputFile and InstallCompactionResults up to the manifest.
FinishMerge ==
    /\ bg.pc = "merge" /\ phase = "open"
    /\ LET m == bg.merge[1]
       IN  /\ tables' = Put(tables, m.out, [entries |-> UNION {tables[n].entries : n \in m.inputs},
                                            synced |-> TRUE])
           /\ bg' = [bg EXCEPT !.pc = "edit", !.edit = Edit(logNumber, {m.out}, m.inputs)]
    /\ UNCHANGED <<logs, manifests, current, phase, opening, memVars, versionVars, pending,
                   bgError, iters, writeVars, history, faults>>

InstallMerge ==
    /\ bg.pc = "applied" /\ bg.edit.del # {}
    /\ pending' = pending \ {bg.merge[1].out}
    /\ IF bg.failed
       THEN /\ BackgroundDone(TRUE, imm, version)
            /\ UNCHANGED <<version, logNumber, logs, tables, manifests>>
       ELSE /\ version' = (version \ bg.edit.del) \cup bg.edit.add
            /\ logNumber' = bg.edit.log
            /\ DeleteObsoleteFiles(bgError, LiveFiles(version', pending', <<>>), logNumber',
                                   manifestNumber, logs, tables, manifests)
            /\ BackgroundDone(bgError, imm, version')
    /\ UNCHANGED <<current, phase, opening, memVars, nextFile, lastSequence, manifestNumber,
                   iters, queue, group, history, faults>>

-----------------------------------------------------------------------------
\* NewIterator holds the version it reads; CleanupIteratorState lets go.
NewIterator ==
    /\ phase = "open" /\ Cardinality(iters) < MaxIters
    /\ iters' = iters \cup {version}
    /\ UNCHANGED <<files, phase, opening, memVars, versionVars, pending, bgError, bg, writeVars,
                   history, faults>>

CleanupIterator(v) ==
    /\ v \in iters
    /\ iters' = iters \ {v}
    /\ UNCHANGED <<files, phase, opening, memVars, versionVars, pending, bgError, bg, writeVars,
                   history, faults>>

\* The destructor, called when nothing uses the database: it waits for the
\* background thread and drops the memory.
Close ==
    /\ phase = "open" /\ queue = <<>> /\ iters = {} /\ crashes < MaxCrashes
    /\ phase' = "closing"
    /\ crashes' = crashes + 1
    /\ UNCHANGED <<files, opening, memVars, versionVars, pending, bgError, bg, iters, writeVars,
                   ops, owed, created, faults>>

CloseDone ==
    /\ phase = "closing" /\ bg.pc = "none"
    /\ DropMemory
    /\ UNCHANGED <<files, history, faults>>

\* What a crash of the machine may leave of a file: at least what was synced.
Truncations(f) == {[recs |-> SubSeq(f.recs, 1, n), synced |-> n] : n \in f.synced .. Len(f.recs)}
Cuts(fs) == {g \in [DOMAIN fs -> UNION {Truncations(fs[n]) : n \in DOMAIN fs}] :
                \A n \in DOMAIN fs : g[n] \in Truncations(fs[n])}

CanCrash == crashes < (IF phase \in {"open", "closing"} THEN MaxCrashes ELSE MaxCrashes + 1)

ProcessCrash ==
    /\ phase \notin {"closed", "corrupt"} /\ CanCrash
    /\ crashes' = crashes + 1
    /\ DropMemory
    /\ UNCHANGED <<files, ops, owed, created, faults>>

MachineCrash ==
    /\ phase # "corrupt" /\ CanCrash
    /\ crashes' = crashes + 1
    /\ DropMemory
    /\ logs' \in Cuts(logs) /\ manifests' \in Cuts(manifests)
    /\ tables' = [n \in DOMAIN tables |-> IF tables[n].synced THEN tables[n]
                                          ELSE [entries |-> {}, synced |-> FALSE]]
    /\ owed' = {o \in owed : o.sync}
    /\ UNCHANGED <<current, ops, created, faults>>

-----------------------------------------------------------------------------
\* DB::Open, Recover: NewDB writes manifest 1, does not sync it, and lets
\* CURRENT name it.
NewDB ==
    /\ phase = "closed" /\ current = 0
    /\ manifests' = Put(manifests, 1, [recs |-> <<[log |-> 0, next |-> 2, last |-> 0,
                                                   add |-> {}, del |-> {}]>>, synced |-> 0])
    /\ current' = 1
    /\ UNCHANGED <<logs, tables, phase, opening, memVars, versionVars, pending, bgError, bg,
                   iters, writeVars, history, faults>>

\* The tables of the version that a manifest describes: VersionSet::Builder keeps
\* what was added and not deleted since.
Replay(edits) ==
    UNION {edits[i].add \ UNION {edits[j].del : j \in i + 1 .. Len(edits)} : i \in DOMAIN edits}

\* VersionSet::Recover replays the manifest; Recover checks that all tables are
\* there and lists the logs to replay.
RecoverVersions ==
    /\ phase = "closed" /\ current # 0
    /\ LET recs == manifests[current].recs
           edits == Readable(recs)
           last == Last(edits)
           v == Replay(edits)
       IN  IF Corrupt(recs) \/ edits = <<>>
              \/ ~(v \subseteq DOMAIN tables \cup DOMAIN logs \cup DOMAIN manifests)
           THEN /\ phase' = "corrupt"
                /\ UNCHANGED <<opening, versionVars>>
           ELSE /\ phase' = "recovering"
                /\ version' = v
                /\ manifestNumber' = last.next
                /\ nextFile' = last.next + 1
                /\ lastSequence' = last.last
                /\ logNumber' = last.log
                /\ opening' = [NotOpening EXCEPT !.todo = {n \in DOMAIN logs : n >= last.log}]
    /\ UNCHANGED <<files, memVars, pending, bgError, bg, iters, writeVars, history, faults>>

\* What WriteBatchInternal::InsertInto makes of a log record.
EntriesOfRecord(r) == {Entry(r.seq + i - 1, r.ops[i]) : i \in DOMAIN r.ops}

\* RecoverLogFile, the oldest log first: the records go through a memtable into
\* tables, one whenever the memtable is full and one at the end.
MemTables(recs) ==
    LET replayed[i \in 0 .. Len(recs)] ==
            IF i = 0 THEN [mem |-> {}, full |-> <<>>]
            ELSE LET st == replayed[i - 1]
                     m == st.mem \cup EntriesOfRecord(recs[i])
                 IN  IF Cardinality(m) > WriteBuffer THEN [mem |-> {}, full |-> Append(st.full, m)]
                     ELSE [st EXCEPT !.mem = m]
        end == replayed[Len(recs)]
    IN  IF end.mem = {} THEN end.full ELSE Append(end.full, end.mem)

RecoverLogFile ==
    /\ phase = "recovering" /\ opening.todo # {}
    /\ LET log == Min(opening.todo)
           recs == Readable(logs[log].recs)
           mems == MemTables(recs)
           unreadable == Paranoid /\ Corrupt(logs[log].recs)
           ends == {opening.maxSequence} \cup {r.seq + Len(r.ops) - 1 : r \in ToSet(recs)}
           Written(n, failed) ==
               /\ tables' = [m \in DOMAIN tables \cup (nextFile .. nextFile + n - 1) |->
                               IF m \in nextFile .. nextFile + n - 1
                               THEN [entries |-> mems[m - nextFile + 1], synced |-> TRUE]
                               ELSE tables[m]]
               \* the status of the last log decides, and each number is marked used
               /\ opening' = [todo |-> opening.todo \ {log}, maxSequence |-> Max(ends),
                              add |-> opening.add \cup (nextFile .. nextFile + n - 1),
                              failed |-> failed]
               /\ nextFile' = Max({nextFile + n, log + 1})
       IN  \/ ~unreadable /\ NoFault /\ Written(Len(mems), FALSE)
           \/ unreadable /\ NoFault /\ Written(0, TRUE)
           \* a table cannot be written: of any log, or only of the last one
           \/ /\ ~unreadable
              /\ Fault("recover") \/ (opening.todo = {log} /\ Fault("replay"))
              /\ \E n \in 0 .. Len(mems) - 1 : Written(n, TRUE)
    /\ UNCHANGED <<logs, manifests, current, phase, memVars, version, lastSequence, logNumber,
                   manifestNumber, pending, bgError, bg, iters, writeVars, history>>

\* An error of the last log: DB::Open deletes the database object.
OpenFails ==
    /\ phase = "recovering" /\ opening.todo = {} /\ opening.failed
    /\ DropMemory
    /\ UNCHANGED <<files, history, faults>>

\* Mutant: CURRENT will name a manifest that is not synced.
WriteNewManifestUnsynced ==
    /\ phase = "recovering" /\ opening.todo = {} /\ ~opening.failed
    /\ lastSequence' = Max({lastSequence, opening.maxSequence})
    /\ logs' = Put(logs, nextFile, [recs |-> <<>>, synced |-> 0])
    /\ logfileNumber' = nextFile
    /\ nextFile' = nextFile + 1
    /\ manifests' = Put(manifests, manifestNumber,
                        [recs |-> <<[log |-> nextFile, next |-> nextFile', last |-> lastSequence',
                                     add |-> version \cup opening.add, del |-> {}]>>,
                         synced |-> 0])
    /\ phase' = "current"
    /\ UNCHANGED <<tables, current, opening, mem, imm, version, logNumber, manifestNumber, pending,
                   bgError, bg, iters, writeVars, history, faults>>

\* The rest of DB::Open up to SetCurrentFile: a new log, and a new manifest with
\* the whole version and the tables of the logs.
WriteNewManifest ==
    /\ phase = "recovering" /\ opening.todo = {} /\ ~opening.failed
    /\ lastSequence' = Max({lastSequence, opening.maxSequence})
    /\ logs' = Put(logs, nextFile, [recs |-> <<>>, synced |-> 0])
    /\ logfileNumber' = nextFile
    /\ nextFile' = nextFile + 1
    /\ manifests' = Put(manifests, manifestNumber,
                        [recs |-> <<[log |-> nextFile, next |-> nextFile', last |-> lastSequence',
                                     add |-> version \cup opening.add, del |-> {}]>>,
                         synced |-> 1])
    /\ phase' = "current"
    /\ UNCHANGED <<tables, current, opening, mem, imm, version, logNumber, manifestNumber, pending,
                   bgError, bg, iters, writeVars, history, faults>>

\* SetCurrentFile and the end of DB::Open.
SetCurrentFile ==
    /\ phase = "current"
    /\ current' = manifestNumber
    /\ version' = version \cup opening.add
    /\ logNumber' = logfileNumber
    /\ phase' = "open" /\ opening' = NotOpening
    /\ created' = TRUE
    /\ DeleteObsoleteFiles(FALSE, version', logNumber', manifestNumber, logs, tables, manifests)
    /\ bg' = MaybeScheduleCompaction(bg, "open", FALSE, imm, version')
    /\ UNCHANGED <<memVars, nextFile, lastSequence, manifestNumber, pending, bgError, iters,
                   writeVars, ops, owed, crashes, faults>>

\* The manifest or CURRENT cannot be written: the manifest is deleted, Open fails.
ManifestFails ==
    /\ phase = "current" /\ Fault("create")
    /\ manifests' = Keep(manifests, LAMBDA n : n # manifestNumber)
    /\ DropMemory
    /\ UNCHANGED <<logs, tables, current, history>>

WriterStep(w) ==
    \/ WriteFails(w) \/ HasRoom(w) \/ WaitForRoom(w) \/ SwitchMemTable(w) \/ SwitchFails(w)
    \/ AddRecord(w) \/ FinishWrite(w)

BackgroundStep ==
    \/ NothingToDo \/ StartFlush \/ BuildTable \/ BuildTableFails \/ AddManifestRecord
    \/ InstallFlush \/ StartMerge \/ MergeFails \/ FinishMerge \/ InstallMerge

OpenStep ==
    \/ NewDB \/ RecoverVersions \/ RecoverLogFile \/ OpenFails \/ WriteNewManifest
    \/ SetCurrentFile \/ ManifestFails

DBNext ==
    \/ \E w \in Writers, kind \in Kinds : EnterWrite(w, kind)
    \/ \E w \in Writers : WriterStep(w)
    \/ BackgroundStep
    \/ OpenStep
    \/ NewIterator
    \/ \E v \in iters : CleanupIterator(v)
    \/ Close \/ CloseDone
    \/ ProcessCrash \/ MachineCrash

DBSpec == DBInit /\ [][DBNext]_dbVars

\* Threads that can go on do go on.
FairDBSpec ==
    /\ DBSpec
    /\ WF_dbVars(BackgroundStep)
    /\ WF_dbVars(CloseDone)
    /\ \A w \in Writers : WF_dbVars(WriterStep(w))

-----------------------------------------------------------------------------
EntriesOf(ns) == UNION {tables[n].entries : n \in ns \cap DOMAIN tables}

\* The types of the variables, and who may be where.
DBTypeOK ==
    /\ phase \in {"closed", "corrupt", "recovering", "current", "open", "closing"}
    /\ bg.pc \in {"none", "scheduled", "build", "edit", "applied", "merge"}
    /\ Len(imm) <= 1
    /\ \A n \in DOMAIN logs : logs[n].synced \in 0 .. Len(logs[n].recs)
    /\ \A w \in Writers : writer[w].pc \in {"idle", "queue", "front", "room", "log", "logged"}
    /\ current = 0 \/ current \in DOMAIN manifests

\* Operations a reader finds: in a memtable or a table of the version.
Visible ==
    {e.op : e \in {x \in mem \cup (UNION ToSet(imm)) \cup EntriesOf(version) :
                      x.seq <= lastSequence}}

\* options.h on WriteOptions::sync: an acknowledged write is there while the database
\* is open, also after a crash of the process, and after a crash of the machine
\* if it asked for sync.
AckedWritesSurvive == phase \in {"open", "closing"} => \A o \in owed : o.op \in Visible

\* Two operations never share a sequence number, whatever was lost or failed in
\* between: the newest one would not be decided.
SequencesAreUnique ==
    phase \in {"open", "closing"} =>
        \A a, b \in mem \cup (UNION ToSet(imm)) \cup EntriesOf(version) :
            a.seq = b.seq => a.op = b.op

\* Every table a reader or the current version needs is whole and on disk: no
\* clean-up deletes a file in use, no version names a half-written one.
LiveTablesAreWhole ==
    phase \in {"open", "closing"} =>
        \A n \in version \cup UNION iters : n \in DOMAIN tables /\ tables[n].synced

\* A database that was opened once can be opened again: no crash leaves a
\* manifest that cannot be read or that names missing tables.
ReopenSucceeds == created => phase # "corrupt"

\* At most one thread writes to the log and the memtable, and it is the first one.
OneLogger ==
    \A w \in Writers : writer[w].pc \in {"log", "logged"} =>
        group # <<>> /\ IsPrefix(group, queue) /\ w = Head(queue)

\* Every write is answered and every close returns, unless the process dies: no
\* group is left behind, nobody waits for a flush that is never scheduled or
\* misses the signal.  (After the last of finitely many writes, all are.)
Waiting == queue # <<>> \/ phase = "closing"
EveryoneIsAnswered == Waiting ~> ~Waiting
=============================================================================
