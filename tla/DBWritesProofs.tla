--------------------------- MODULE DBWritesProofs ---------------------------
(***************************************************************************)
(* What becomes of the writes of DBImpl: no sequence number is used for   *)
(* two operations, and no write that was promised is lost.  Both rest on  *)
(* FilesInv, which says which files there are and that they are whole.    *)
(***************************************************************************)
EXTENDS DBImplProofs

\* The entries in some log files and in some tables.
EntriesOfRecs(recs) == UNION {EntriesOfRecord(recs[j]) : j \in DOMAIN recs}
Records(ls, ns) == UNION {EntriesOfRecs(ls[n].recs) : n \in ns \cap DOMAIN ls}
Contents(ts, ns) == UNION {ts[n].entries : n \in ns \cap DOMAIN ts}
Under(n) == {m \in Nat : m < n}

\* Every entry that the database may still read, in a file or in memory, and those that
\* no writer is busy with.
Named == IF current = 0 THEN {} ELSE Adds(Recs)
Frozen == UNION ToSet(imm)
InUse == Records(logs, Nat) \cup Contents(tables, Named) \cup mem \cup Frozen
Settled == Records(logs, Nat \ {logfileNumber}) \cup Contents(tables, Named) \cup Frozen

Consistent(S) == \A a, b \in S : a.seq = b.seq => a.op = b.op
AtMost(S, s) == \A e \in S : e.seq <= s

\* The numbers of a group that is in the log, but has not returned yet, are taken.
Logged == queue # <<>> /\ writer[queue[1]].pc = "logged"
Taken == IF Logged THEN lastSequence + Len(GroupOps) ELSE lastSequence

\* An edit of the manifest knows a number that is at least those in the tables it or
\* an earlier one adds, and those in the logs it makes superfluous.
EditBounds(ls, ts, e, ns) ==
    /\ e.log < e.next
    /\ AtMost(Contents(ts, ns), e.last)
    /\ AtMost(Records(ls, Under(e.log)), e.last)
DiskBounds ==
    current # 0 => \A k \in DOMAIN Recs : EditBounds(logs, tables, Recs[k], Adds(SubSeq(Recs, 1, k)))

\* An open database.
OpenBounds ==
    IsOpen =>
        /\ AtMost(InUse, Taken) /\ AtMost(Settled, lastSequence)
        /\ \A n \in DOMAIN logs : n <= logfileNumber
        /\ \A k \in DOMAIN Recs : Recs[k].log <= logfileNumber
BgBounds ==
    IsOpen =>
        /\ \A i \in DOMAIN bg.merge :
              /\ bg.merge[i].out \notin Adds(Recs) \/ (bg.pc = "applied" /\ bg.edit.del # {})
              /\ bg.pc = "build" => bg.merge[i].out # bg.file
              /\ bg.pc \in {"edit", "applied"} /\ bg.edit.del = {} => bg.merge[i].out \notin bg.edit.add
        /\ bg.pc = "edit" => /\ EditBounds(logs, tables, bg.edit, Adds(Recs) \cup bg.edit.add)
                             /\ Contents(tables, bg.edit.add) \subseteq Settled

\* A database that is being opened: what is replayed is counted, and every log that is
\* still to be replayed keeps its number.
RecoverBounds ==
    phase \in {"recovering", "current"} =>
        /\ Below(Adds(Recs), nextFile) /\ version \subseteq Adds(Recs)
        /\ Contents(tables, opening.add) \subseteq InUse
        /\ AtMost(Contents(tables, version), lastSequence)
        /\ phase = "recovering" =>
              /\ AtMost(Contents(tables, opening.add), opening.maxSequence)
              /\ \A n \in DOMAIN logs : n < nextFile \/ n \in opening.todo
        /\ phase = "current" =>
              /\ AtMost(Contents(tables, opening.add), lastSequence)
              /\ \A n \in DOMAIN logs : n <= logfileNumber
              /\ logs[logfileNumber].recs = <<>>
              /\ LET e == manifests[manifestNumber].recs[1]
                 IN  e.last = lastSequence /\ e.log = logfileNumber /\ logfileNumber < e.next

NumbersInv ==
    /\ ~IsOpen => mem = {}
    /\ Consistent(InUse)
    /\ DiskBounds /\ OpenBounds /\ BgBounds /\ RecoverBounds

-----------------------------------------------------------------------------
\* The operations of a group stay while others queue up or are woken (BuildBatchGroup).
LEMMA GroupOpsStay ==
    ASSUME group' = group,
           \A i \in 1 .. Len(group) : /\ writer'[group[i]].kind = writer[group[i]].kind
                                      /\ writer'[group[i]].op = writer[group[i]].op
    PROVE  GroupOps' = GroupOps
<1> DEFINE F(f) == [i \in 0 .. Len(group) |->
                       IF i = 0 THEN <<>>
                       ELSE IF writer[group[i]].kind = "null" THEN f[i - 1]
                       ELSE Append(f[i - 1], writer[group[i]].op)]
           G(f) == [i \in 0 .. Len(group) |->
                       IF i = 0 THEN <<>>
                       ELSE IF writer'[group[i]].kind = "null" THEN f[i - 1]
                       ELSE Append(f[i - 1], writer'[group[i]].op)]
<1>1. \A f : F(f) = G(f)
    OBVIOUS
<1>2. GroupOps = (CHOOSE f : f = F(f))[Len(group)]
    BY DEF GroupOps
<1>3. GroupOps' = (CHOOSE f : f = G(f))[Len(group)]
    BY DEF GroupOps
<1>4. (CHOOSE f : f = F(f)) = (CHOOSE f : f = G(f))
  <2> HIDE DEF F, G
  <2> QED BY <1>1
<1> QED BY <1>2, <1>3, <1>4

-----------------------------------------------------------------------------
\* Files that hold no entry they did not hold before.
FewerRecords(ls, ls2, ns) ==
    \A n \in ns \cap DOMAIN ls2 :
        \/ EntriesOfRecs(ls2[n].recs) = {}
        \/ n \in DOMAIN ls /\ EntriesOfRecs(ls2[n].recs) \subseteq EntriesOfRecs(ls[n].recs)
FewerContents(ts, ts2, ns) ==
    \A n \in ns \cap DOMAIN ts2 : n \in DOMAIN ts /\ ts2[n].entries \subseteq ts[n].entries

\* Fewer files hold fewer entries (DeleteObsoleteFiles, a crash).
LEMMA FewerFiles ==
    ASSUME NEW ls, NEW ls2, NEW ts, NEW ts2, NEW ns, NEW ms \in SUBSET ns
    PROVE  /\ FewerRecords(ls, ls2, ns) => Records(ls2, ms) \subseteq Records(ls, ms)
           /\ FewerContents(ts, ts2, ns) => Contents(ts2, ms) \subseteq Contents(ts, ms)
           /\ Records(ls, ms) \subseteq Records(ls, ns) /\ Contents(ts, ms) \subseteq Contents(ts, ns)
BY DEF FewerRecords, FewerContents, Records, Contents

\* What bounds an edit bounds it when there are fewer entries.
LEMMA BoundsStay ==
    ASSUME NEW ls, NEW ls2, NEW ts, NEW ts2, NEW e, NEW ns, EditBounds(ls, ts, e, ns),
           FewerRecords(ls, ls2, Under(e.log)), FewerContents(ts, ts2, ns)
    PROVE  EditBounds(ls2, ts2, e, ns)
<1>1. Records(ls2, Under(e.log)) \subseteq Records(ls, Under(e.log))
    BY FewerFiles
<1>2. Contents(ts2, ns) \subseteq Contents(ts, ns)
    BY FewerFiles
<1> QED BY <1>1, <1>2 DEF EditBounds, AtMost

\* The bounds of the manifest in use stay when the logs that its edits make superfluous and
\* the tables that they name hold no more than before, and the manifest is a prefix of
\* what it was.
LEMMA DiskBoundsStay ==
    ASSUME DiskBounds, FilesTypeOK, current # 0 => current \in DOMAIN manifests, current' = current,
           current # 0 => \A k \in DOMAIN Recs' :
               /\ k \in DOMAIN Recs /\ Recs'[k] = Recs[k]
               /\ SubSeq(Recs', 1, k) = SubSeq(Recs, 1, k)
               /\ FewerRecords(logs, logs', Under(Recs[k].log)),
           FewerContents(tables, tables', Named)
    PROVE  DiskBounds'
<1> SUFFICES ASSUME current # 0, NEW k \in DOMAIN Recs'
             PROVE  EditBounds(logs', tables', Recs'[k], Adds(SubSeq(Recs', 1, k)))
    BY DEF DiskBounds
<1>1. EditBounds(logs, tables, Recs[k], Adds(SubSeq(Recs, 1, k)))
    BY DEF DiskBounds
<1>2. Adds(SubSeq(Recs, 1, k)) \subseteq Named
  <2>1. Recs \in Seq(EditRecord)
      BY NumbersOfRecs
  <2>2. k \in 1 .. Len(Recs)
      BY <2>1
  <2> QED BY <2>1, <2>2 DEF Adds, Named
<1>3. FewerContents(tables, tables', Adds(SubSeq(Recs, 1, k)))
    BY <1>2 DEF FewerContents
<1> QED BY <1>1, <1>3, BoundsStay

\* The numbers of a group are taken from the moment its record is in the log, and until
\* it has returned its writers neither leave nor change what they write.
LEMMA TakenStays ==
    ASSUME lastSequence' = lastSequence, Logged' <=> Logged,
           Logged => /\ group' = group
                     /\ \A i \in 1 .. Len(group) : /\ writer'[group[i]].kind = writer[group[i]].kind
                                                /\ writer'[group[i]].op = writer[group[i]].op
    PROVE  Taken' = Taken
<1>1. CASE Logged
  <2>1. GroupOps' = GroupOps
      BY <1>1, GroupOpsStay
  <2> QED BY <1>1, <2>1 DEF Taken
<1>2. CASE ~Logged
    BY <1>2 DEF Taken
<1> QED BY <1>1, <1>2

\* A step of an open database that writes no new entry and sets no number.
LEMMA OpenStepBounds ==
    ASSUME FilesInv, NumbersInv, IsOpen, IsOpen',
           UNCHANGED <<current, mem, logfileNumber, lastSequence>>, Taken' = Taken,
           Recs' = Recs, Frozen' \subseteq Frozen,
           FewerRecords(logs, logs', Nat), FewerContents(tables, tables', Adds(Recs)),
           \A n \in DOMAIN logs' : n <= logfileNumber,
           BgBounds'
    PROVE  NumbersInv'
<1>1. current # 0 /\ current \in DOMAIN manifests /\ FilesTypeOK
    BY DEF FilesInv, OpenInv, DiskInv
<1>2. Named = Adds(Recs) /\ Named' = Adds(Recs) /\ Recs \in Seq(EditRecord)
    BY <1>1, NumbersOfRecs DEF Named
<1>3. Records(logs', Nat) \subseteq Records(logs, Nat)
    BY FewerFiles
<1>4. Records(logs', Nat \ {logfileNumber}) \subseteq Records(logs, Nat \ {logfileNumber})
    BY FewerFiles
<1>5. Contents(tables', Named) \subseteq Contents(tables, Named)
    BY <1>2, FewerFiles
<1>6. InUse' \subseteq InUse
    BY <1>2, <1>3, <1>5 DEF InUse
<1>7. Settled' \subseteq Settled
    BY <1>2, <1>4, <1>5 DEF Settled
<1>8. Consistent(InUse)'
    BY <1>6 DEF NumbersInv, Consistent
<1>9. DiskBounds'
  <2>1. \A k \in DOMAIN Recs : FewerRecords(logs, logs', Under(Recs[k].log))
      BY DEF FewerRecords, Under
  <2>2. FewerContents(tables, tables', Named)
      BY <1>2
  <2> QED BY <1>1, <2>1, <2>2, DiskBoundsStay DEF NumbersInv
<1>10. OpenBounds'
  <2>1. AtMost(InUse', Taken') /\ AtMost(Settled', lastSequence')
      BY <1>6, <1>7 DEF NumbersInv, OpenBounds, AtMost
  <2> QED BY <2>1 DEF NumbersInv, OpenBounds
<1>11. RecoverBounds' /\ (~IsOpen' => mem' = {})
    BY DEF RecoverBounds, IsOpen
<1> QED BY <1>8, <1>9, <1>10, <1>11 DEF NumbersInv

-----------------------------------------------------------------------------
\* Who returns from Write leaves the next writer to begin (the end of DBImpl::Write).
LEMMA AnswerFrees ==
    ASSUME WritersInv, WritersInv', NEW g, NEW ok, Answer(g, ok) PROVE ~Logged'
<1> SUFFICES ASSUME queue' # <<>> PROVE writer'[queue'[1]].pc # "logged"
    BY DEF Logged
<1>1. queue'[1] \in Writers
    BY EmptySequence DEF WritersInv, QueueTypeOK
<1>2. Head(queue') = queue'[1]
    BY DEF WritersInv, QueueTypeOK
<1>3. writer'[queue'[1]] = IF queue'[1] \in ToSet(g) THEN NoWriter ELSE [writer[queue'[1]] EXCEPT !.pc = "front"]
    BY <1>1, <1>2 DEF Answer
<1>4. writer[queue'[1]] \in WriterRecord
    BY <1>1 DEF WritersInv, QueueTypeOK
<1> QED BY <1>3, <1>4 DEF NoWriter, WriterRecord

\* A thread that enters Write finds the group that writes unchanged (DBImpl::Write).
LEMMA EnterTakes ==
    ASSUME WritersInv, NEW w \in Writers, NEW kind \in Kinds, EnterWrite(w, kind), lastSequence' = lastSequence
    PROVE  Taken' = Taken
<1> DEFINE r == [pc |-> IF queue = <<>> THEN "front" ELSE "queue", kind |-> kind, op |-> ops + 1,
                 error |-> "none"]
<1>1. /\ queue' = Append(queue, w) /\ writer' = [writer EXCEPT ![w] = r]
      /\ group' = group /\ writer[w].pc = "idle" /\ r.pc # "logged"
    BY DEF EnterWrite
<1> HIDE DEF r
<1>2. /\ queue \in Seq(Writers) /\ Len(queue) \in Nat /\ (queue = <<>> <=> Len(queue) = 0)
      /\ \A i \in 1 .. Len(queue) : queue[i] \in Writers
    BY DEF WritersInv, QueueTypeOK
<1>3. /\ queue' # <<>> /\ (queue = <<>> => queue'[1] = w)
      /\ (queue # <<>> => queue'[1] = queue[1])
    BY <1>1, <1>2
<1>4. writer'[w] = r /\ \A x \in Writers : x # w => writer'[x] = writer[x]
    BY <1>1 DEF WritersInv, QueueTypeOK
<1>5. Logged' <=> Logged
  <2>1. CASE queue = <<>>
      BY <1>1, <1>3, <1>4, <2>1 DEF Logged
  <2>2. CASE queue # <<>>
    <3>1. queue[1] \in Writers /\ queue[1] # w
        BY <1>1, <1>2, <2>2 DEF WritersInv, HeadIsAwake
    <3> QED BY <1>3, <1>4, <2>2, <3>1 DEF Logged
  <2> QED BY <2>1, <2>2
<1>6. ASSUME Logged, NEW i \in 1 .. Len(group) PROVE writer'[group[i]] = writer[group[i]]
  <2>1. Len(group) \in 1 .. Len(queue) /\ group[i] = queue[i]
      BY <1>6 DEF WritersInv, GroupOfHead, Logged, Writing
  <2>2. i \in 1 .. Len(queue)
      BY <1>2, <2>1
  <2>3. writer[queue[i]].pc # "idle"
      BY <1>2, <2>2 DEF WritersInv, OthersSleep, HeadIsAwake
  <2> QED BY <1>1, <1>2, <1>4, <2>1, <2>2, <2>3
<1> QED BY <1>1, <1>5, <1>6, TakenStays

\* The steps of a writer that reach no file take no number (MakeRoomForWrite).
LEMMA RoomTakes ==
    ASSUME WritersInv, WritersInv', NEW w \in Writers, lastSequence' = lastSequence,
           WriteFails(w) \/ HasRoom(w) \/ WaitForRoom(w) \/ SwitchFails(w) \/ SwitchMemTable(w)
    PROVE  Taken' = Taken /\ ~Logged /\ ~Logged'
<1>1. writer[w].pc = "front"
    BY DEF WriteFails, HasRoom, WaitForRoom, SwitchFails, SwitchMemTable
<1>2. queue # <<>> /\ w = queue[1]
    BY <1>1, AwakeIsHead
<1>3. ~Logged
    BY <1>1, <1>2 DEF Logged
<1>4. ~Logged'
  <2>1. CASE \E ok \in BOOLEAN : Answer(<<w>>, ok)
      BY <2>1, AnswerFrees
  <2>2. CASE StartGroup(w) \/ WaitForRoom(w)
    <3>1. queue' = queue /\ writer'[w].pc \in {"log", "room"}
        BY <2>2 DEF StartGroup, WaitForRoom, WritersInv, QueueTypeOK, WriterRecord
    <3> QED BY <1>2, <3>1 DEF Logged
  <2> QED BY <2>1, <2>2 DEF WriteFails, HasRoom, WaitForRoom, SwitchFails, SwitchMemTable
<1> QED BY <1>3, <1>4, TakenStays

\* A signal to those who wait for room does not concern who writes (SignalAll).
LEMMA SignalTakes ==
    ASSUME WritersInv, lastSequence' = lastSequence, UNCHANGED <<queue, group>>,
           writer' = SignalAll(writer) \/ writer' = writer
    PROVE  Taken' = Taken /\ (Logged' <=> Logged)
<1>1. \A w \in Writers : /\ writer'[w].kind = writer[w].kind /\ writer'[w].op = writer[w].op
                         /\ (writer'[w].pc = "logged" <=> writer[w].pc = "logged")
                         /\ writer'[w].error = writer[w].error
  <2> SUFFICES ASSUME NEW w \in Writers
               PROVE  /\ writer'[w].kind = writer[w].kind /\ writer'[w].op = writer[w].op
                      /\ (writer'[w].pc = "logged" <=> writer[w].pc = "logged")
                      /\ writer'[w].error = writer[w].error
      OBVIOUS
  <2>1. writer[w] \in WriterRecord
      BY DEF WritersInv, QueueTypeOK
  <2>2. writer'[w] = writer[w] \/ (writer[w].pc = "room" /\ writer'[w] = [writer[w] EXCEPT !.pc = "front"])
      BY DEF SignalAll
  <2> QED BY <2>1, <2>2 DEF WriterRecord
<1>2. (queue # <<>> => queue[1] \in Writers) /\ \A i \in 1 .. Len(group) : group[i] \in Writers
    BY EmptySequence DEF WritersInv, QueueTypeOK
<1>3. Logged' <=> Logged
    BY <1>1, <1>2 DEF Logged
<1> QED BY <1>1, <1>2, <1>3, TakenStays

-----------------------------------------------------------------------------
\* A log record holds entries (WriteBatchInternal::InsertInto).
LEMMA RecordIsEntries == ASSUME NEW r \in LogRecord PROVE EntriesOfRecord(r) \subseteq EntryRecord
<1>1. r.seq \in Nat \ {0} /\ r.ops \in Seq(Nat)
    BY DEF LogRecord
<1>2. \A i \in DOMAIN r.ops : r.ops[i] \in Nat /\ r.seq + i - 1 \in Nat
    BY <1>1
<1> QED BY <1>2 DEF EntriesOfRecord, Entry, EntryRecord

\* Entries are entries, wherever they are.
LEMMA EntriesAreEntries ==
    ASSUME FilesTypeOK
    PROVE  /\ \A r \in LogRecord : EntriesOfRecord(r) \subseteq EntryRecord
           /\ \A recs \in Seq(LogRecord) : EntriesOfRecs(recs) \subseteq EntryRecord
           /\ \A ns : Records(logs, ns) \subseteq EntryRecord /\ Contents(tables, ns) \subseteq EntryRecord
<1>1. \A r \in LogRecord : EntriesOfRecord(r) \subseteq EntryRecord
    BY RecordIsEntries
<1>2. ASSUME NEW recs \in Seq(LogRecord) PROVE EntriesOfRecs(recs) \subseteq EntryRecord
  <2>1. \A j \in DOMAIN recs : recs[j] \in LogRecord
      OBVIOUS
  <2> QED BY <1>1, <2>1 DEF EntriesOfRecs
<1>3. \A n \in DOMAIN logs : logs[n].recs \in Seq(LogRecord)
  <2>1. \A n \in DOMAIN logs : logs[n] \in LogFile
      BY DEF FilesTypeOK
  <2> QED BY <2>1 DEF LogFile
<1>4. \A n \in DOMAIN tables : tables[n].entries \subseteq EntryRecord
  <2>1. \A n \in DOMAIN tables : tables[n] \in TableFile
      BY DEF FilesTypeOK
  <2> QED BY <2>1 DEF TableFile
<1>5. \A ns : Records(logs, ns) \subseteq EntryRecord /\ Contents(tables, ns) \subseteq EntryRecord
    BY <1>2, <1>3, <1>4 DEF Records, Contents
<1> QED BY <1>1, <1>2, <1>5

\* What the memtables hold are entries.
LEMMA MemoryIsEntries ==
    ASSUME FilesInv
    PROVE  /\ InUse \subseteq EntryRecord /\ Settled \subseteq InUse /\ Frozen \subseteq EntryRecord
           /\ (imm = <<>> => Frozen = {}) /\ (imm # <<>> => Frozen = imm[1] /\ Len(imm) = 1)
<1>1. imm \in Seq(SUBSET EntryRecord) /\ Len(imm) <= 1 /\ mem \subseteq EntryRecord /\ FilesTypeOK
    BY DEF FilesInv, MemoryTypeOK
<1>2. imm = <<>> => Frozen = {}
  <2>1. DOMAIN <<>> = {}
      OBVIOUS
  <2> QED BY <2>1 DEF Frozen, ToSet
<1>3. imm # <<>> => Frozen = imm[1] /\ Len(imm) = 1 /\ imm[1] \subseteq EntryRecord
  <2> SUFFICES ASSUME imm # <<>> PROVE Frozen = imm[1] /\ Len(imm) = 1 /\ imm[1] \subseteq EntryRecord
      OBVIOUS
  <2>1. Len(imm) = 1 /\ DOMAIN imm = {1} /\ imm[1] \in SUBSET EntryRecord
      BY <1>1, OnlyElement
  <2>2. ToSet(imm) = {imm[1]}
      BY <2>1 DEF ToSet
  <2> QED BY <2>1, <2>2 DEF Frozen
<1>4. Frozen \subseteq EntryRecord
    BY <1>2, <1>3
<1>5. Settled \subseteq InUse
    BY FewerFiles DEF Settled, InUse
<1> QED BY <1>1, <1>2, <1>3, <1>4, <1>5, EntriesAreEntries DEF InUse

\* A step that touches neither files nor memory.
LEMMA QuietBounds ==
    ASSUME FilesInv, NumbersInv, IsOpen, IsOpen', Taken' = Taken,
           UNCHANGED <<logs, tables, manifests, current, mem, imm, logfileNumber, lastSequence, bg>>
    PROVE  NumbersInv'
<1>1. Recs' = Recs /\ Frozen' = Frozen
    BY DEF Recs, Frozen
<1>2. FewerRecords(logs, logs', Nat) /\ FewerContents(tables, tables', Adds(Recs))
    BY DEF FewerRecords, FewerContents
<1>3. Settled' = Settled
    BY <1>1 DEF Settled, Named
<1>4. BgBounds'
    BY <1>1, <1>3 DEF NumbersInv, BgBounds, EditBounds
<1>5. \A n \in DOMAIN logs' : n <= logfileNumber
    BY DEF NumbersInv, OpenBounds
<1> QED BY <1>1, <1>2, <1>4, <1>5, OpenStepBounds

\* An append adds the entries of the record (log::Writer::AddRecord).
LEMMA RecordsOfAppend ==
    ASSUME NEW R \in Seq(LogRecord), NEW r
    PROVE  EntriesOfRecs(Append(R, r)) = EntriesOfRecs(R) \cup EntriesOfRecord(r)
<1>1. /\ Len(R) \in Nat /\ DOMAIN R = 1 .. Len(R) /\ DOMAIN Append(R, r) = 1 .. Len(R) + 1
      /\ Append(R, r)[Len(R) + 1] = r /\ \A i \in 1 .. Len(R) : Append(R, r)[i] = R[i]
    OBVIOUS
<1>2. \A i \in 1 .. Len(R) + 1 : i = Len(R) + 1 \/ i \in 1 .. Len(R)
    BY <1>1
<1>3. Len(R) + 1 \in 1 .. Len(R) + 1 /\ \A i \in 1 .. Len(R) : i \in 1 .. Len(R) + 1
    BY <1>1
<1> QED BY <1>1, <1>2, <1>3 DEF EntriesOfRecs

\* A new log is empty, the old memtable frozen (MakeRoomForWrite).
LEMMA SwitchBounds ==
    ASSUME FilesInv, FilesInv', NumbersInv, NEW w \in Writers, SwitchMemTable(w), phase = "open"
    PROVE  NumbersInv'
<1> DEFINE new == [recs |-> <<>>, synced |-> 0]
<1>1. /\ logs' = Put(logs, nextFile, new) /\ logfileNumber' = nextFile
      /\ imm = <<>> /\ imm' = <<mem>> /\ mem' = {}
      /\ bg' = MaybeScheduleCompaction(bg, phase, bgError, imm', version)
      /\ UNCHANGED <<tables, manifests, current, phase, lastSequence>>
    BY DEF SwitchMemTable
<1>2. Taken' = Taken /\ ~Logged /\ Taken = lastSequence
    BY <1>1, RoomTakes DEF Taken, FilesInv
<1>3. /\ DOMAIN logs' = DOMAIN logs \cup {nextFile} /\ logs'[nextFile] = new
      /\ \A n \in DOMAIN logs : n # nextFile => logs'[n] = logs[n]
    BY <1>1 DEF Put
<1>4. EntriesOfRecs(new.recs) = {}
  <2>1. DOMAIN <<>> = {}
      OBVIOUS
  <2> QED BY <2>1 DEF EntriesOfRecs
<1> HIDE DEF new
<1>5. Recs' = Recs /\ current # 0 /\ current \in DOMAIN manifests /\ FilesTypeOK /\ Named' = Named
    BY <1>1 DEF Recs, Named, FilesInv, OpenInv, DiskInv, IsOpen
<1>6. /\ nextFile \in Nat /\ logfileNumber \in Nat /\ logfileNumber < nextFile /\ nextFile \notin DOMAIN logs
      /\ \A n \in DOMAIN logs : n <= logfileNumber /\ n \in Nat
    BY DEF FilesInv, VersionTypeOK, OpenInv, IsOpen, FilesTypeOK, NumbersInv, OpenBounds
<1>7. FewerRecords(logs, logs', Nat) /\ FewerContents(tables, tables', Named)
    BY <1>1, <1>3, <1>4 DEF FewerRecords, FewerContents
<1>8. Frozen = {} /\ Frozen' = mem
    BY <1>1, MemoryIsEntries DEF Frozen, ToSet
<1>9. Records(logs', Nat) \subseteq Records(logs, Nat) /\ Contents(tables', Named') = Contents(tables, Named)
    BY <1>1, <1>5, <1>7, FewerFiles
<1>10. InUse' \subseteq InUse
    BY <1>1, <1>8, <1>9 DEF InUse
<1>11. Settled' \subseteq InUse'
    BY FewerFiles DEF Settled, InUse
<1>12. Consistent(InUse)'
    BY <1>10 DEF NumbersInv, Consistent
<1>13. DiskBounds'
  <2>1. \A k \in DOMAIN Recs : FewerRecords(logs, logs', Under(Recs[k].log))
      BY <1>7 DEF FewerRecords, Under
  <2> QED BY <1>1, <1>5, <1>7, <2>1, DiskBoundsStay DEF NumbersInv
<1>14. OpenBounds'
  <2>1. AtMost(InUse', Taken') /\ AtMost(Settled', lastSequence')
      BY <1>1, <1>2, <1>10, <1>11 DEF NumbersInv, OpenBounds, AtMost, IsOpen
  <2>2. \A n \in DOMAIN logs' : n <= logfileNumber'
      BY <1>1, <1>3, <1>6
  <2>3. Recs \in Seq(EditRecord)
      BY <1>5, NumbersOfRecs
  <2>6. \A k \in DOMAIN Recs : Recs[k] \in EditRecord
      BY <2>3
  <2>4. \A k \in DOMAIN Recs : Recs[k].log \in Nat /\ Recs[k].log <= logfileNumber
    <3>1. IsOpen
        BY DEF IsOpen
    <3> QED BY <2>6, <3>1 DEF EditRecord, NumbersInv, OpenBounds
  <2>5. \A k \in DOMAIN Recs' : Recs'[k].log <= logfileNumber'
      BY <1>1, <1>5, <1>6, <2>4
  <2> QED BY <2>1, <2>2, <2>5 DEF OpenBounds
<1>15. BgBounds'
  <2>1. CASE bg' = [NoBg EXCEPT !.pc = "scheduled"]
    <3>1. bg'.pc = "scheduled" /\ DOMAIN bg'.merge = {}
        BY <2>1, ScheduleFacts
    <3> QED BY <3>1 DEF BgBounds
  <2>2. CASE bg' = bg
    <3>1. ASSUME bg.pc = "edit"
          PROVE  /\ EditBounds(logs', tables', bg.edit, Adds(Recs) \cup bg.edit.add)
                 /\ Contents(tables, bg.edit.add) \subseteq Settled'
      <4>1. FewerRecords(logs, logs', Under(bg.edit.log))
          BY <1>7 DEF FewerRecords, Under
      <4>2. FewerContents(tables, tables', Adds(Recs) \cup bg.edit.add)
          BY <1>1 DEF FewerContents
      <4>3. EditBounds(logs', tables', bg.edit, Adds(Recs) \cup bg.edit.add)
          BY <3>1, <4>1, <4>2, BoundsStay DEF NumbersInv, BgBounds, IsOpen
      <4>4. Records(logs, Nat \ {logfileNumber}) \subseteq Records(logs', Nat \ {nextFile})
          BY <1>3, <1>6 DEF Records
      <4>5. Settled \subseteq Settled'
          BY <1>1, <1>8, <1>9, <4>4 DEF Settled
      <4> QED BY <3>1, <4>3, <4>5 DEF NumbersInv, BgBounds, IsOpen
    <3> QED BY <1>1, <1>5, <2>2, <3>1 DEF NumbersInv, BgBounds, IsOpen
  <2> QED BY <1>1, <2>1, <2>2, ScheduleFacts
<1>16. RecoverBounds' /\ (~IsOpen' => mem' = {})
    BY <1>1 DEF RecoverBounds, IsOpen
<1> QED BY <1>12, <1>13, <1>14, <1>15, <1>16 DEF NumbersInv

-----------------------------------------------------------------------------
\* The record of the group at work.
NewRecord == [seq |-> lastSequence + 1, ops |-> GroupOps]

\* What AddRecord leaves: the record is in the log and the memtable, or it is in neither,
\* or a failed sync keeps it out of the memtable.
LEMMA AddRecordFacts ==
    ASSUME NoTornWrites, FilesInv, NEW w \in Writers, AddRecord(w)
    PROVE  /\ queue # <<>> /\ w = queue[1] /\ writer[w].pc = "log" /\ logfileNumber \in DOMAIN logs
           /\ NewRecord \in LogRecord /\ logs[logfileNumber] \in LogFile
           /\ UNCHANGED <<tables, manifests, current, created, phase, opening, imm, logfileNumber, version, nextFile,
                          lastSequence, logNumber, manifestNumber, pending, bgError, bg, queue, group, owed>>
           /\ DOMAIN logs' = DOMAIN logs /\ \A n \in DOMAIN logs : n # logfileNumber => logs'[n] = logs[n]
           /\ \A x \in Writers : /\ writer'[x].kind = writer[x].kind /\ writer'[x].op = writer[x].op
                                 /\ x # w => writer'[x] = writer[x]
           /\ writer'[w].pc = "logged"
           /\ LET log == logs[logfileNumber]
                  log2 == logs'[logfileNumber]
              IN  \/ /\ writer'[w].error = "none" /\ log2.recs = Append(log.recs, NewRecord)
                     /\ mem' = mem \cup EntriesOfRecord(NewRecord)
                     /\ log2.synced = IF writer[w].kind = "sync" THEN Len(log2.recs) ELSE log.synced
                  \/ /\ writer'[w].error = "append" /\ log2 = log /\ mem' = mem
                  \/ /\ writer'[w].error = "sync" /\ log2.recs = Append(log.recs, NewRecord) /\ mem' = mem
                     /\ log2.synced = log.synced
<1> DEFINE log == logs[logfileNumber]
           sync == writer[w].kind = "sync"
           File(a, synced) == [recs |-> a.recs, synced |-> IF synced THEN Len(a.recs) ELSE log.synced]
           Done(a, synced, error) ==
               /\ logs' = Put(logs, logfileNumber, File(a, synced))
               /\ mem' = IF error = "none" THEN mem \cup EntriesOfRecord(NewRecord) ELSE mem
               /\ writer' = [writer EXCEPT ![w].pc = "logged", ![w].error = error]
<1>1. /\ writer[w].pc = "log"
      /\ UNCHANGED <<tables, manifests, current, created, phase, opening, imm, logfileNumber, version, nextFile,
                     lastSequence, logNumber, manifestNumber, pending, bgError, bg, queue, group, owed>>
    BY DEF AddRecord, versionVars, history
<1>2. queue # <<>> /\ w = queue[1] /\ phase = "open"
    BY <1>1, AwakeIsHead DEF FilesInv, OnlyWhenOpen
<1>3. logfileNumber \in DOMAIN logs /\ log \in LogFile /\ lastSequence \in Nat
    BY <1>2 DEF FilesInv, OpenInv, IsOpen, FilesTypeOK, VersionTypeOK
<1>4. GroupOps \in Seq(Nat)
    BY GroupOpsAreSome DEF FilesInv, WritersInv
<1>5. NewRecord \in LogRecord
    BY <1>3, <1>4 DEF NewRecord, LogRecord
<1>6. {Entry(lastSequence + i, GroupOps[i]) : i \in DOMAIN GroupOps} = EntriesOfRecord(NewRecord)
  <2>1. \A i \in DOMAIN GroupOps : NewRecord.seq + i - 1 = lastSequence + i
      BY <1>3, <1>4 DEF NewRecord
  <2>2. NewRecord.ops = GroupOps
      BY DEF NewRecord
  <2> QED BY <2>1, <2>2 DEF EntriesOfRecord
<1>7. PICK a \in Append1(log.recs, NewRecord) :
         \/ ~a.failed /\ Done(a, sync, "none")
         \/ a.failed /\ Done(a, FALSE, "append")
         \/ ~a.failed /\ sync /\ Done(a, FALSE, "sync")
    BY <1>6 DEF AddRecord, NewRecord
<1>8. (~a.failed /\ a.recs = Append(log.recs, NewRecord)) \/ (a.failed /\ a.recs = log.recs)
    BY AppendCases
<1>9. writer \in [Writers -> WriterRecord]
    BY DEF FilesInv, WritersInv, QueueTypeOK
<1>10. ASSUME NEW synced, NEW error, Done(a, synced, error)
       PROVE  /\ DOMAIN logs' = DOMAIN logs /\ \A n \in DOMAIN logs : n # logfileNumber => logs'[n] = logs[n]
              /\ logs'[logfileNumber].recs = a.recs
              /\ logs'[logfileNumber].synced = (IF synced THEN Len(a.recs) ELSE log.synced)
              /\ \A x \in Writers : /\ writer'[x].kind = writer[x].kind /\ writer'[x].op = writer[x].op
                                    /\ x # w => writer'[x] = writer[x]
              /\ writer'[w].pc = "logged" /\ writer'[w].error = error
              /\ mem' = (IF error = "none" THEN mem \cup EntriesOfRecord(NewRecord) ELSE mem)
              /\ logs'[logfileNumber] = File(a, synced)
  <2>1. \A x \in Writers : /\ writer'[x].kind = writer[x].kind /\ writer'[x].op = writer[x].op
                           /\ x # w => writer'[x] = writer[x]
      BY <1>9, <1>10 DEF WriterRecord
  <2>2. writer'[w].pc = "logged" /\ writer'[w].error = error
      BY <1>9, <1>10 DEF WriterRecord
  <2>3. DOMAIN logs' = DOMAIN logs \cup {logfileNumber} /\ logs'[logfileNumber] = File(a, synced)
        /\ \A n \in DOMAIN logs : n # logfileNumber => logs'[n] = logs[n]
      BY <1>10 DEF Put
  <2>4. mem' = (IF error = "none" THEN mem \cup EntriesOfRecord(NewRecord) ELSE mem)
      BY <1>10
  <2>5. File(a, synced).recs = a.recs /\ File(a, synced).synced = (IF synced THEN Len(a.recs) ELSE log.synced)
      OBVIOUS
  <2> HIDE DEF File
  <2> QED BY <1>3, <2>1, <2>2, <2>3, <2>4, <2>5
<1>11. log = [recs |-> log.recs, synced |-> log.synced]
    BY <1>3 DEF LogFile
<1>12. CASE ~a.failed /\ Done(a, sync, "none")
  <2> HIDE DEF Done
  <2> QED BY <1>1, <1>2, <1>3, <1>5, <1>8, <1>10, <1>12
<1>13. CASE a.failed /\ Done(a, FALSE, "append")
  <2>1. a.recs = log.recs /\ File(a, FALSE) = log
      BY <1>8, <1>11, <1>13
  <2>2. logs'[logfileNumber] = log
      BY <1>10, <1>13, <2>1
  <2>3. mem' = mem
      BY <1>13
  <2> HIDE DEF Done
  <2> QED BY <1>1, <1>2, <1>3, <1>5, <1>10, <1>13, <2>2, <2>3
<1>14. CASE ~a.failed /\ sync /\ Done(a, FALSE, "sync")
  <2> HIDE DEF Done
  <2> QED BY <1>1, <1>2, <1>3, <1>5, <1>8, <1>10, <1>14
<1> QED BY <1>7, <1>12, <1>13, <1>14

\* The group gets the next numbers (WriteBatchInternal::SetSequence in DBImpl::Write).
LEMMA AddRecordBounds ==
    ASSUME NoTornWrites, FilesInv, NumbersInv, NEW w \in Writers, AddRecord(w)
    PROVE  NumbersInv'
<1> DEFINE new == EntriesOfRecord(NewRecord)
<1>1. /\ queue # <<>> /\ w = queue[1] /\ writer[w].pc = "log" /\ logfileNumber \in DOMAIN logs
      /\ NewRecord \in LogRecord /\ logs[logfileNumber] \in LogFile
      /\ UNCHANGED <<tables, manifests, current, created, phase, opening, imm, logfileNumber, version, nextFile,
                     lastSequence, logNumber, manifestNumber, pending, bgError, bg, queue, group>>
      /\ DOMAIN logs' = DOMAIN logs /\ \A n \in DOMAIN logs : n # logfileNumber => logs'[n] = logs[n]
      /\ \A x \in Writers : writer'[x].kind = writer[x].kind /\ writer'[x].op = writer[x].op
      /\ writer'[w].pc = "logged"
    BY AddRecordFacts
<1>2. /\ mem' = mem \/ mem' = mem \cup new
      /\ \/ logs'[logfileNumber].recs = Append(logs[logfileNumber].recs, NewRecord)
         \/ logs'[logfileNumber].recs = logs[logfileNumber].recs
    BY AddRecordFacts
<1>3. IsOpen /\ IsOpen' /\ phase = "open"
    BY <1>1 DEF FilesInv, OnlyWhenOpen, IsOpen
<1>4. GroupOps \in Seq(Nat) /\ Len(GroupOps) \in Nat /\ lastSequence \in Nat
    BY GroupOpsAreSome DEF FilesInv, WritersInv, VersionTypeOK
<1>5. GroupOps' = GroupOps
  <2>1. group \in Seq(Writers)
      BY DEF FilesInv, WritersInv, QueueTypeOK
  <2>2. \A i \in 1 .. Len(group) : group[i] \in Writers
      BY <2>1
  <2> QED BY <1>1, <2>2, GroupOpsStay
<1>6. Taken = lastSequence /\ Taken' = lastSequence + Len(GroupOps)
    BY <1>1, <1>5 DEF Taken, Logged
<1>7. \A e \in new : e.seq > lastSequence /\ e.seq <= lastSequence + Len(GroupOps)
  <2>1. NewRecord.ops = GroupOps /\ DOMAIN GroupOps = 1 .. Len(GroupOps)
      BY <1>4 DEF NewRecord
  <2>2. \A i \in 1 .. Len(GroupOps) : /\ NewRecord.seq + i - 1 > lastSequence
                                      /\ NewRecord.seq + i - 1 <= lastSequence + Len(GroupOps)
      BY <1>4 DEF NewRecord
  <2> QED BY <2>1, <2>2 DEF EntriesOfRecord, Entry
<1>8. Consistent(new)
  <2>1. NewRecord.ops = GroupOps /\ DOMAIN GroupOps = 1 .. Len(GroupOps) /\ NewRecord.seq \in Nat
      BY <1>4 DEF NewRecord
  <2>2. \A i, j \in 1 .. Len(GroupOps) : NewRecord.seq + i - 1 = NewRecord.seq + j - 1 => i = j
      BY <2>1
  <2> QED BY <2>1, <2>2 DEF EntriesOfRecord, Entry, Consistent
<1>9. FilesTypeOK /\ new \subseteq EntryRecord /\ InUse \subseteq EntryRecord
    BY <1>1, EntriesAreEntries, MemoryIsEntries DEF FilesInv
<1>10. EntriesOfRecs(logs'[logfileNumber].recs) \subseteq EntriesOfRecs(logs[logfileNumber].recs) \cup new
  <2>1. logs[logfileNumber].recs \in Seq(LogRecord)
      BY <1>1 DEF LogFile
  <2> HIDE DEF new
  <2> QED BY <1>1, <1>2, <2>1, RecordsOfAppend DEF new
<1> HIDE DEF new
<1>11. Records(logs', Nat) \subseteq Records(logs, Nat) \cup new
    BY <1>1, <1>10 DEF Records
<1>12. Recs' = Recs /\ Named' = Named /\ Frozen' = Frozen
    BY <1>1 DEF Recs, Named, Frozen
<1>13. InUse' \subseteq InUse \cup new
    BY <1>1, <1>2, <1>11, <1>12 DEF InUse
<1>14. Settled' = Settled
  <2>1. Records(logs', Nat \ {logfileNumber}) = Records(logs, Nat \ {logfileNumber})
      BY <1>1 DEF Records
  <2> QED BY <1>1, <1>12, <2>1 DEF Settled
<1>15. AtMost(InUse, lastSequence)
    BY <1>3, <1>6 DEF NumbersInv, OpenBounds
<1>16. Consistent(InUse)'
  <2> SUFFICES ASSUME NEW a \in InUse \cup new, NEW b \in InUse \cup new, a.seq = b.seq PROVE a.op = b.op
      BY <1>13 DEF Consistent
  <2>1. \A e \in InUse \cup new : e.seq \in Nat
      BY <1>9 DEF EntryRecord
  <2>2. (a \in InUse /\ b \in InUse) \/ (a \in new /\ b \in new)
    <3>1. \A e \in InUse : ~(e.seq > lastSequence)
        BY <1>4, <1>15, <2>1 DEF AtMost
    <3> QED BY <1>7, <3>1
  <2> QED BY <1>8, <2>2 DEF NumbersInv, Consistent
<1>17. current # 0 /\ current \in DOMAIN manifests /\ logfileNumber \in Nat /\ DOMAIN logs \subseteq Nat
    BY <1>3 DEF FilesInv, OpenInv, DiskInv, FilesTypeOK, VersionTypeOK
<1>18. \A l \in Nat : l <= logfileNumber => FewerRecords(logs, logs', Under(l))
  <2> SUFFICES ASSUME NEW l \in Nat, l <= logfileNumber, NEW n \in Under(l), n \in DOMAIN logs
               PROVE  EntriesOfRecs(logs'[n].recs) \subseteq EntriesOfRecs(logs[n].recs)
      BY <1>1 DEF FewerRecords
  <2>1. n # logfileNumber
      BY <1>17 DEF Under
  <2> QED BY <1>1, <2>1
<1>19. \A k \in DOMAIN Recs : Recs[k].log \in Nat /\ Recs[k].log <= logfileNumber
  <2>1. Recs \in Seq(EditRecord)
      BY <1>9, <1>17, NumbersOfRecs
  <2>2. \A k \in DOMAIN Recs : Recs[k] \in EditRecord
      BY <2>1
  <2> QED BY <1>3, <2>2 DEF EditRecord, NumbersInv, OpenBounds
<1>20. DiskBounds'
  <2>1. \A k \in DOMAIN Recs : FewerRecords(logs, logs', Under(Recs[k].log))
      BY <1>18, <1>19
  <2>2. FewerContents(tables, tables', Named)
      BY <1>1 DEF FewerContents
  <2> QED BY <1>1, <1>9, <1>12, <1>17, <2>1, <2>2, DiskBoundsStay DEF NumbersInv
<1>21. OpenBounds'
  <2>1. AtMost(InUse', Taken')
    <3>1. \A e \in InUse \cup new : e.seq \in Nat
        BY <1>9 DEF EntryRecord
    <3>2. \A e \in InUse \cup new : e.seq <= lastSequence + Len(GroupOps)
        BY <1>4, <1>7, <1>15, <3>1 DEF AtMost
    <3> QED BY <1>6, <1>13, <3>2 DEF AtMost
  <2>2. AtMost(Settled', lastSequence')
      BY <1>1, <1>3, <1>14 DEF NumbersInv, OpenBounds
  <2> QED BY <1>1, <1>3, <1>12, <2>1, <2>2 DEF NumbersInv, OpenBounds
<1>22. BgBounds'
  <2>1. ASSUME bg.pc = "edit" PROVE EditBounds(logs', tables', bg.edit, Adds(Recs) \cup bg.edit.add)
    <3>1. bg.edit.log \in Nat /\ bg.edit.log <= logfileNumber
        BY <1>3, <2>1 DEF FilesInv, BgInv, BgTypeOK, EditRecord
    <3>2. FewerContents(tables, tables', Adds(Recs) \cup bg.edit.add)
        BY <1>1 DEF FewerContents
    <3>3. FewerRecords(logs, logs', Under(bg.edit.log))
        BY <1>18, <3>1
    <3> QED BY <1>3, <2>1, <3>2, <3>3, BoundsStay DEF NumbersInv, BgBounds
  <2> QED BY <1>1, <1>3, <1>12, <1>14, <2>1 DEF NumbersInv, BgBounds
<1>23. RecoverBounds' /\ (~IsOpen' => mem' = {})
    BY <1>1, <1>3 DEF RecoverBounds
<1> QED BY <1>16, <1>20, <1>21, <1>22, <1>23 DEF NumbersInv

\* The numbers of the group are used up (the end of DBImpl::Write).
LEMMA FinishWriteBounds ==
    ASSUME FilesInv, FilesInv', NumbersInv, NEW w \in Writers, FinishWrite(w)
    PROVE  NumbersInv'
<1>1. /\ writer[w].pc = "logged" /\ lastSequence' = lastSequence + Len(GroupOps)
      /\ Answer(group, writer[w].error = "none")
      /\ UNCHANGED <<logs, tables, manifests, current, created, phase, opening, mem, imm, logfileNumber, version,
                     nextFile, logNumber, manifestNumber, pending, bg>>
    BY DEF FinishWrite, files, memVars
<1>2. queue # <<>> /\ w = queue[1] /\ phase = "open"
    BY <1>1, AwakeIsHead DEF FilesInv, OnlyWhenOpen
<1>3. ~Logged'
    BY <1>1, AnswerFrees DEF FilesInv
<1>4. GroupOps \in Seq(Nat) /\ Len(GroupOps) \in Nat /\ lastSequence \in Nat
    BY GroupOpsAreSome DEF FilesInv, WritersInv, VersionTypeOK
<1>5. Taken' = Taken /\ Taken = lastSequence' /\ lastSequence <= lastSequence'
    BY <1>1, <1>2, <1>3, <1>4 DEF Taken, Logged
<1>6. Recs' = Recs /\ Named' = Named /\ Frozen' = Frozen /\ (IsOpen' <=> IsOpen) /\ IsOpen
    BY <1>1, <1>2 DEF Recs, Named, Frozen, IsOpen
<1>7. InUse' = InUse /\ Settled' = Settled /\ Settled \subseteq InUse
    BY <1>1, <1>6, FewerFiles DEF InUse, Settled
<1>8. Consistent(InUse)' /\ DiskBounds' /\ BgBounds'
  <2>1. DiskBounds'
      BY <1>1, <1>6 DEF NumbersInv, DiskBounds
  <2>2. BgBounds'
      BY <1>1, <1>6, <1>7 DEF NumbersInv, BgBounds
  <2> QED BY <1>7, <2>1, <2>2 DEF NumbersInv, Consistent
<1>9. OpenBounds'
  <2>1. AtMost(InUse', Taken') /\ AtMost(Settled', lastSequence')
      BY <1>5, <1>6, <1>7 DEF NumbersInv, OpenBounds, AtMost
  <2> QED BY <1>1, <1>6, <2>1 DEF NumbersInv, OpenBounds
<1>10. RecoverBounds' /\ (~IsOpen' => mem' = {})
    BY <1>1, <1>2, <1>6 DEF RecoverBounds
<1> QED BY <1>8, <1>9, <1>10 DEF NumbersInv

\* Threads that enter Write, that find no room or no log file, and users of the database that
\* do not write.
LEMMA UsersBounds ==
    ASSUME FilesInv, FilesInv', NumbersInv,
           \/ \E w \in Writers, kind \in Kinds : EnterWrite(w, kind)
           \/ \E w \in Writers : WriteFails(w) \/ HasRoom(w) \/ WaitForRoom(w) \/ SwitchFails(w)
           \/ NewIterator \/ (\E v \in iters : CleanupIterator(v)) \/ Close
           \/ UNCHANGED dbVars
    PROVE  NumbersInv'
<1> DEFINE quiet == UNCHANGED <<logs, tables, manifests, current, mem, imm, logfileNumber, lastSequence, bg>>
<1>1. CASE \E w \in Writers, kind \in Kinds : EnterWrite(w, kind)
  <2>1. PICK w \in Writers, kind \in Kinds : EnterWrite(w, kind)
      BY <1>1
  <2>2. quiet /\ phase = "open" /\ phase' = phase
      BY <2>1 DEF EnterWrite, files, memVars, versionVars
  <2>3. Taken' = Taken
      BY <2>1, <2>2, EnterTakes DEF FilesInv
  <2> QED BY <2>2, <2>3, QuietBounds DEF IsOpen
<1>2. CASE \E w \in Writers : WriteFails(w) \/ HasRoom(w) \/ WaitForRoom(w) \/ SwitchFails(w)
  <2>1. PICK w \in Writers : WriteFails(w) \/ HasRoom(w) \/ WaitForRoom(w) \/ SwitchFails(w)
      BY <1>2
  <2>2. quiet /\ phase' = phase /\ writer[w].pc = "front"
      BY <2>1 DEF WriteFails, HasRoom, WaitForRoom, SwitchFails, files, memVars, versionVars
  <2>3. phase = "open"
      BY <2>2, AwakeIsHead DEF FilesInv, OnlyWhenOpen
  <2>4. Taken' = Taken
      BY <2>1, <2>2, RoomTakes DEF FilesInv
  <2> QED BY <2>2, <2>3, <2>4, QuietBounds DEF IsOpen
<1>3. CASE NewIterator \/ (\E v \in iters : CleanupIterator(v)) \/ Close
  <2>1. quiet /\ UNCHANGED <<queue, group, writer>>
      BY <1>3 DEF NewIterator, CleanupIterator, Close, files, memVars, versionVars, writeVars
  <2>2. Taken' = Taken
      BY <2>1, SignalTakes DEF FilesInv
  <2>3. CASE phase' = phase /\ ~IsOpen
    <3>1. \E v \in iters : CleanupIterator(v)
        BY <1>3, <2>3 DEF NewIterator, Close, IsOpen
    <3>2. iters = {}
        BY <2>3 DEF FilesInv, OnlyWhenOpen
    <3> QED BY <3>1, <3>2
  <2>4. CASE IsOpen /\ IsOpen'
      BY <2>1, <2>2, <2>4, QuietBounds
  <2> QED BY <1>3, <2>3, <2>4 DEF NewIterator, CleanupIterator, Close, IsOpen
<1>4. CASE UNCHANGED dbVars
  <2> USE <1>4 DEF dbVars, files, memVars, versionVars, writeVars
  <2>1. GroupOps' = GroupOps /\ Recs' = Recs /\ IsOpen' = IsOpen /\ Frozen' = Frozen
      BY DEF GroupOps, Recs, IsOpen, Frozen
  <2>2. Taken' = Taken /\ Named' = Named
      BY <2>1 DEF Taken, Logged, Named
  <2>3. InUse' = InUse /\ Settled' = Settled
      BY <2>1, <2>2 DEF InUse, Settled
  <2>4. DiskBounds' /\ OpenBounds' /\ BgBounds'
      BY <2>1, <2>2, <2>3 DEF NumbersInv, DiskBounds, OpenBounds, BgBounds
  <2>5. RecoverBounds'
      BY <2>1, <2>2, <2>3 DEF NumbersInv, RecoverBounds
  <2> QED BY <2>1, <2>3, <2>4, <2>5 DEF NumbersInv, Consistent
<1> QED BY <1>1, <1>2, <1>3, <1>4

-----------------------------------------------------------------------------
\* The background thread goes to rest or back to its compaction.
LEMMA RestBounds ==
    ASSUME FilesInv, FilesInv', NumbersInv, IsOpen, IsOpen', NEW error, NEW im, NEW v,
           FlushDone(error, im, v) \/ BackgroundDone(error, im, v), Recs' = Recs,
           bg.pc = "applied" /\ bg.edit.del # {} => BackgroundDone(error, im, v)
    PROVE  BgBounds'
<1>1. /\ bg'.pc \in {"none", "scheduled", "merge"} /\ (bg'.merge = <<>> \/ bg'.merge = bg.merge)
      /\ (BackgroundDone(error, im, v) => bg'.merge = <<>>)
    BY RestFacts DEF FilesInv
<1>2. CASE bg'.merge = <<>>
  <2>1. DOMAIN bg'.merge = {}
      BY <1>2, ScheduleFacts
  <2> QED BY <1>1, <2>1 DEF BgBounds
<1>3. CASE bg'.merge = bg.merge /\ ~(bg.pc = "applied" /\ bg.edit.del # {})
  <2>1. \A i \in DOMAIN bg'.merge : bg'.merge[i].out \notin Adds(Recs')
      BY <1>3 DEF NumbersInv, BgBounds
  <2> QED BY <1>1, <2>1 DEF BgBounds
<1> QED BY <1>1, <1>2, <1>3

\* A background step that adds nothing to a table in use.
LEMMA BackgroundBounds ==
    ASSUME FilesInv, FilesInv', NumbersInv, IsOpen, BgBounds',
           UNCHANGED <<current, phase, mem, logfileNumber, lastSequence, queue, group>>, Recs' = Recs,
           writer' = SignalAll(writer) \/ writer' = writer,
           imm' = imm \/ imm' = <<>>,
           \A n \in DOMAIN logs' : n \in DOMAIN logs /\ logs'[n] = logs[n],
           FewerContents(tables, tables', Adds(Recs))
    PROVE  NumbersInv'
<1>1. Taken' = Taken
    BY SignalTakes DEF FilesInv
<1>2. IsOpen'
    BY DEF IsOpen
<1>3. FewerRecords(logs, logs', Nat)
    BY DEF FewerRecords
<1>4. Frozen' \subseteq Frozen
  <2>1. imm' = <<>> => Frozen' = {}
      BY MemoryIsEntries DEF Frozen, ToSet
  <2> QED BY <2>1 DEF Frozen
<1>5. \A n \in DOMAIN logs' : n <= logfileNumber
    BY DEF NumbersInv, OpenBounds
<1> QED BY <1>1, <1>2, <1>3, <1>4, <1>5, OpenStepBounds

\* What the background thread changes of the writers.
LEMMA RestSignals ==
    ASSUME NEW error, NEW im, NEW v, FlushDone(error, im, v) \/ BackgroundDone(error, im, v)
    PROVE  writer' = SignalAll(writer)
BY DEF FlushDone, BackgroundDone

\* A table under a number that the manifest does not name.
LEMMA NewTableAddsNothing ==
    ASSUME NEW n, NEW x, NEW ns, n \notin ns, tables' = tables \/ tables' = Put(tables, n, x)
    PROVE  FewerContents(tables, tables', ns)
BY DEF FewerContents, Put

\* BackgroundCall without work, and compactions and flushes that fail or begin.
LEMMA BeginBounds ==
    ASSUME FilesInv, FilesInv', NumbersInv,
           NothingToDo \/ StartFlush \/ BuildTableFails \/ StartMerge \/ MergeFails
    PROVE  NumbersInv'
<1>1. bg.pc \in {"scheduled", "merge", "build"}
    BY DEF NothingToDo, StartFlush, BuildTableFails, StartMerge, MergeFails
<1>2. IsOpen
    BY <1>1, AtWorkIsOpen DEF FilesInv
<1>3. UNCHANGED <<logs, manifests, current, phase, mem, imm, logfileNumber, lastSequence, queue, group>>
    BY DEF NothingToDo, StartFlush, BuildTableFails, StartMerge, MergeFails, files, memVars, versionVars, writeVars
<1>4. Recs' = Recs /\ IsOpen' /\ Adds(Recs) \subseteq Nat /\ nextFile \in Nat /\ Below(Adds(Recs), nextFile)
    BY <1>2, <1>3, NumbersOfRecs DEF Recs, IsOpen, FilesInv, OpenInv, DiskInv, VersionTypeOK
<1>5. nextFile \notin Adds(Recs)
    BY <1>4 DEF Below
<1>6. ASSUME BgBounds', writer' = SignalAll(writer) \/ writer' = writer,
             FewerContents(tables, tables', Adds(Recs))
      PROVE  NumbersInv'
  <2>1. \A n \in DOMAIN logs' : n \in DOMAIN logs /\ logs'[n] = logs[n]
      BY <1>3
  <2> QED BY <1>2, <1>3, <1>4, <1>6, <2>1, BackgroundBounds
<1>7. ASSUME NEW error, NEW im, NEW v, FlushDone(error, im, v) \/ BackgroundDone(error, im, v)
      PROVE  BgBounds' /\ (writer' = SignalAll(writer) \/ writer' = writer)
    BY <1>1, <1>2, <1>4, <1>7, RestBounds, RestSignals
<1>8. CASE NothingToDo \/ MergeFails
  <2>1. tables' = tables /\ \E error : BackgroundDone(error, imm, version)
      BY <1>8 DEF NothingToDo, MergeFails, files
  <2>2. FewerContents(tables, tables', Adds(Recs))
      BY <2>1 DEF FewerContents
  <2> QED BY <1>6, <1>7, <2>1, <2>2
<1>9. CASE BuildTableFails
  <2>1. tables' = Keep(tables, LAMBDA n : n # bg.file) /\ FlushDone(TRUE, imm, version)
      BY <1>9 DEF BuildTableFails
  <2>2. FewerContents(tables, tables', Adds(Recs))
      BY <2>1 DEF FewerContents, Keep
  <2> QED BY <1>6, <1>7, <2>1, <2>2
<1>10. CASE StartFlush
  <2> DEFINE x == [entries |-> {}, synced |-> FALSE]
  <2>1. /\ bg' = [bg EXCEPT !.pc = "build", !.file = nextFile] /\ writer' = writer
        /\ (tables' = tables \/ tables' = Put(tables, nextFile, x)) /\ bg.pc \in {"scheduled", "merge"}
      BY <1>10 DEF StartFlush, writeVars
  <2> HIDE DEF x
  <2>2. bg'.pc = "build" /\ bg'.file = nextFile /\ bg'.merge = bg.merge
      BY <2>1 DEF FilesInv, BgTypeOK, BgRecord
  <2>3. \A i \in DOMAIN bg.merge : bg.merge[i].out \notin Adds(Recs)
      BY <1>2, <2>1 DEF NumbersInv, BgBounds
  <2>4. \A i \in DOMAIN bg.merge : bg.merge[i].out # nextFile
      BY <1>2, <1>4 DEF FilesInv, BgInv
  <2>5. BgBounds'
      BY <1>4, <2>2, <2>3, <2>4 DEF BgBounds
  <2> QED BY <1>5, <1>6, <2>1, <2>5, NewTableAddsNothing
<1>11. CASE StartMerge
  <2> DEFINE x == [entries |-> {}, synced |-> FALSE]
             job(inputs) == [out |-> nextFile, inputs |-> inputs, base |-> version]
  <2>1. \/ /\ \E inputs \in SUBSET version : bg' = [NoBg EXCEPT !.pc = "merge", !.merge = <<job(inputs)>>]
           /\ tables' = Put(tables, nextFile, x) /\ writer' = writer
        \/ BackgroundDone(TRUE, imm, version) /\ tables' = tables
      BY <1>11 DEF StartMerge
  <2>2. CASE BackgroundDone(TRUE, imm, version) /\ tables' = tables
    <3>1. FewerContents(tables, tables', Adds(Recs))
        BY <2>2 DEF FewerContents
    <3> QED BY <1>6, <1>7, <2>2, <3>1
  <2>3. CASE \E inputs \in SUBSET version : bg' = [NoBg EXCEPT !.pc = "merge", !.merge = <<job(inputs)>>]
    <3>1. PICK inputs \in SUBSET version : bg' = [NoBg EXCEPT !.pc = "merge", !.merge = <<job(inputs)>>]
        BY <2>3
    <3>2. job(inputs).out = nextFile
        OBVIOUS
    <3> HIDE DEF job
    <3>3. bg'.pc = "merge" /\ bg'.merge = <<job(inputs)>>
        BY <3>1 DEF NoBg
    <3>4. \A i \in DOMAIN bg'.merge : bg'.merge[i].out = nextFile
        BY <3>2, <3>3
    <3>5. BgBounds'
        BY <1>4, <1>5, <3>3, <3>4 DEF BgBounds
    <3> QED BY <1>5, <1>6, <2>1, <2>2, <3>5, NewTableAddsNothing
  <2> QED BY <2>1, <2>2, <2>3
<1> QED BY <1>8, <1>9, <1>10, <1>11

\* The flushed table holds the frozen memtable, and its edit bounds both (BuildTable).
LEMMA BuildTableBounds == ASSUME FilesInv, FilesInv', NumbersInv, BuildTable PROVE NumbersInv'
<1> DEFINE x == [entries |-> imm[1], synced |-> TRUE]
           edit == Edit(logfileNumber, IF imm[1] = {} THEN {} ELSE {bg.file}, {})
<1>1. /\ bg.pc = "build"
      /\ tables' = IF imm[1] = {} THEN tables ELSE Put(tables, bg.file, x)
      /\ UNCHANGED <<logs, manifests, current, phase, mem, imm, logfileNumber, lastSequence, nextFile, queue, group>>
      /\ \/ FlushDone(TRUE, imm, version)
         \/ bg' = [bg EXCEPT !.pc = "edit", !.edit = edit] /\ writer' = writer
    BY DEF BuildTable, memVars, versionVars
<1>2. IsOpen /\ bg.file \notin Adds(Recs)
    BY <1>1, AtWorkIsOpen DEF FilesInv, BgInv
<1>3. Recs' = Recs /\ IsOpen' /\ current # 0
    BY <1>1, <1>2 DEF Recs, IsOpen, FilesInv, OpenInv
<1>4. FewerContents(tables, tables', Adds(Recs))
    BY <1>1, <1>2, NewTableAddsNothing
<1>5. ASSUME BgBounds', writer' = SignalAll(writer) \/ writer' = writer PROVE NumbersInv'
  <2>1. \A n \in DOMAIN logs' : n \in DOMAIN logs /\ logs'[n] = logs[n]
      BY <1>1
  <2> QED BY <1>1, <1>2, <1>3, <1>4, <1>5, <2>1, BackgroundBounds
<1>6. CASE FlushDone(TRUE, imm, version)
    BY <1>1, <1>2, <1>3, <1>5, <1>6, RestBounds, RestSignals
<1>7. CASE bg' = [bg EXCEPT !.pc = "edit", !.edit = edit] /\ writer' = writer
  <2>1. Frozen = imm[1] /\ Frozen' = Frozen
    <3>1. Len(imm) = 1 /\ imm \in Seq(SUBSET EntryRecord)
        BY <1>1 DEF FilesInv, BgTypeOK, MemoryTypeOK
    <3>2. imm # <<>>
        BY <3>1, EmptySequence
    <3> QED BY <1>1, <3>2, MemoryIsEntries DEF Frozen
  <2>2. /\ edit.log = logfileNumber /\ edit.next = nextFile /\ edit.last = lastSequence /\ edit.del = {}
        /\ edit.add = IF imm[1] = {} THEN {} ELSE {bg.file}
      BY DEF Edit
  <2> HIDE DEF edit
  <2>3. bg'.pc = "edit" /\ bg'.edit = edit /\ bg'.merge = bg.merge
      BY <1>7 DEF FilesInv, BgTypeOK, BgRecord
  <2>4. Contents(tables', edit.add) \subseteq Frozen
    <3>1. CASE imm[1] = {}
        BY <2>2, <3>1 DEF Contents
    <3>2. CASE imm[1] # {}
      <4>1. edit.add = {bg.file} /\ tables'[bg.file] = x
          BY <1>1, <2>2, <3>2 DEF Put
      <4> QED BY <2>1, <4>1 DEF Contents
    <3> QED BY <3>1, <3>2
  <2>5. Contents(tables', Adds(Recs)) \subseteq Contents(tables, Adds(Recs))
      BY <1>4, FewerFiles
  <2>6. Contents(tables', Adds(Recs) \cup edit.add) \subseteq Settled
    <3>1. Contents(tables', Adds(Recs) \cup edit.add) = Contents(tables', Adds(Recs)) \cup Contents(tables', edit.add)
        BY DEF Contents
    <3> QED BY <1>3, <2>4, <2>5, <3>1 DEF Settled, Named
  <2>7. Records(logs', Under(edit.log)) \subseteq Settled
    <3>1. logfileNumber \in Nat
        BY DEF FilesInv, VersionTypeOK
    <3>2. Under(logfileNumber) \subseteq Nat \ {logfileNumber}
        BY <3>1 DEF Under
    <3>3. Records(logs, Under(logfileNumber)) \subseteq Records(logs, Nat \ {logfileNumber})
        BY <3>2, FewerFiles
    <3> QED BY <1>1, <2>2, <3>3 DEF Settled
  <2>8. EditBounds(logs', tables', edit, Adds(Recs) \cup edit.add)
    <3>1. AtMost(Settled, lastSequence) /\ logfileNumber < nextFile
        BY <1>2 DEF NumbersInv, OpenBounds, FilesInv, OpenInv
    <3> QED BY <2>2, <2>6, <2>7, <3>1 DEF EditBounds, AtMost
  <2>9. Contents(tables', edit.add) \subseteq Settled'
      BY <2>1, <2>4 DEF Settled
  <2>10. BgBounds'
    <3>1. \A i \in DOMAIN bg.merge : bg.merge[i].out \notin Adds(Recs) /\ bg.merge[i].out \notin edit.add
        BY <1>1, <1>2, <2>2 DEF NumbersInv, BgBounds
    <3> QED BY <1>3, <2>3, <2>8, <2>9, <3>1 DEF BgBounds
  <2> QED BY <1>5, <1>7, <2>10
<1> QED BY <1>1, <1>6, <1>7

\* The output of a compaction holds what its inputs hold (DoCompactionWork).
LEMMA FinishMergeBounds == ASSUME FilesInv, FilesInv', NumbersInv, FinishMerge PROVE NumbersInv'
<1> DEFINE m == bg.merge[1]
           x == [entries |-> UNION {tables[n].entries : n \in m.inputs}, synced |-> TRUE]
           edit == Edit(logNumber, {m.out}, m.inputs)
<1>1. /\ bg.pc = "merge" /\ tables' = Put(tables, m.out, x) /\ bg' = [bg EXCEPT !.pc = "edit", !.edit = edit]
      /\ UNCHANGED <<logs, manifests, current, phase, mem, imm, logfileNumber, lastSequence, nextFile, queue, group,
                     writer>>
    BY DEF FinishMerge, memVars, versionVars, writeVars
<1>2. IsOpen /\ DOMAIN bg.merge = {1}
  <2>1. bg.merge \in Seq(Merge) /\ Len(bg.merge) = 1
      BY <1>1 DEF FilesInv, BgTypeOK, BgRecord
  <2>2. DOMAIN bg.merge = {1}
      BY <2>1
  <2> QED BY <1>1, <2>2, AtWorkIsOpen DEF FilesInv
<1>3. Recs' = Recs /\ IsOpen' /\ current # 0 /\ Frozen' = Frozen
    BY <1>1, <1>2 DEF Recs, IsOpen, FilesInv, OpenInv, Frozen
<1>4. m.out \notin Adds(Recs) /\ m.inputs # {} /\ m.inputs \subseteq Good \cap Adds(Recs)
    BY <1>1, <1>2 DEF NumbersInv, BgBounds, FilesInv, BgInv
<1>5. FewerContents(tables, tables', Adds(Recs))
    BY <1>1, <1>4, NewTableAddsNothing
<1>6. x.entries \subseteq Contents(tables, Adds(Recs))
    BY <1>4 DEF Contents, Good
<1> HIDE DEF x
<1>7. /\ edit.log = logNumber /\ edit.next = nextFile /\ edit.last = lastSequence /\ edit.del = m.inputs
      /\ edit.add = {m.out}
    BY DEF Edit
<1> HIDE DEF edit
<1>8. bg'.pc = "edit" /\ bg'.edit = edit /\ bg'.merge = bg.merge
    BY <1>1 DEF FilesInv, BgTypeOK, BgRecord
<1> HIDE DEF m
<1>9. Contents(tables', {m.out}) = x.entries
    BY <1>1 DEF Contents, Put
<1>10. Contents(tables', Adds(Recs) \cup {m.out}) \subseteq Settled
  <2>1. Contents(tables', Adds(Recs) \cup {m.out}) = Contents(tables', Adds(Recs)) \cup Contents(tables', {m.out})
      BY DEF Contents
  <2>2. Contents(tables', Adds(Recs)) \subseteq Contents(tables, Adds(Recs))
      BY <1>5, FewerFiles
  <2> QED BY <1>3, <1>6, <1>9, <2>1, <2>2 DEF Settled, Named
<1>11. logNumber \in Nat /\ logfileNumber \in Nat /\ nextFile \in Nat /\ logNumber <= logfileNumber /\ logfileNumber < nextFile
    BY <1>2 DEF FilesInv, OpenInv, VersionTypeOK
<1>12. Records(logs', Under(logNumber)) \subseteq Settled
  <2>1. Under(logNumber) \subseteq Nat \ {logfileNumber}
      BY <1>11 DEF Under
  <2>2. Records(logs, Under(logNumber)) \subseteq Records(logs, Nat \ {logfileNumber})
      BY <2>1, FewerFiles
  <2> QED BY <1>1, <2>2 DEF Settled
<1>13. EditBounds(logs', tables', edit, Adds(Recs) \cup edit.add)
  <2>1. AtMost(Settled, lastSequence) /\ logNumber < nextFile
      BY <1>2, <1>11 DEF NumbersInv, OpenBounds
  <2> QED BY <1>7, <1>10, <1>12, <2>1 DEF EditBounds, AtMost
<1>14. BgBounds'
  <2>1. \A n \in Adds(Recs) \cap DOMAIN tables : n \in DOMAIN tables' /\ tables'[n] = tables[n]
      BY <1>1, <1>4 DEF Put
  <2>2. Contents(tables, Adds(Recs)) \subseteq Contents(tables', Adds(Recs))
      BY <2>1 DEF Contents
  <2>3. Contents(tables', edit.add) \subseteq Settled'
      BY <1>1, <1>3, <1>6, <1>7, <1>9, <2>2 DEF Settled, Named
  <2>4. \A i \in DOMAIN bg'.merge : bg'.merge[i].out \notin Adds(Recs')
      BY <1>2, <1>3, <1>4, <1>8 DEF m
  <2> QED BY <1>3, <1>4, <1>7, <1>8, <1>13, <2>3, <2>4 DEF BgBounds
<1>15. \A n \in DOMAIN logs' : n \in DOMAIN logs /\ logs'[n] = logs[n]
    BY <1>1
<1> QED BY <1>1, <1>2, <1>3, <1>5, <1>14, <1>15, BackgroundBounds

\* A flush or a compaction is installed and obsolete files go.
LEMMA InstallBounds == ASSUME FilesInv, FilesInv', NumbersInv, InstallFlush \/ InstallMerge PROVE NumbersInv'
<1>1. /\ bg.pc = "applied" /\ UNCHANGED <<current, phase, mem, logfileNumber, lastSequence, queue, group>>
      /\ imm' = imm \/ imm' = <<>>
    BY DEF InstallFlush, InstallMerge, memVars
<1>2. IsOpen
    BY <1>1, AtWorkIsOpen DEF FilesInv
<1>3. /\ manifestNumber = current /\ current # 0 /\ current \in DOMAIN manifests /\ FilesTypeOK /\ current \in Nat
      /\ bgError \in BOOLEAN /\ IsOpen'
    BY <1>1, <1>2 DEF FilesInv, OpenInv, DiskInv, FilesTypeOK, MemoryTypeOK, IsOpen
<1>4. /\ \A n \in DOMAIN tables' : n \in DOMAIN tables /\ tables'[n] = tables[n]
      /\ \A n \in DOMAIN logs' : n \in DOMAIN logs /\ logs'[n] = logs[n]
      /\ Recs' = Recs
  <2>1. CASE UNCHANGED <<logs, tables, manifests>>
      BY <1>1, <2>1 DEF Recs
  <2>2. CASE \E live : DeleteObsoleteFiles(bgError, live, bg.edit.log, manifestNumber, logs, tables, manifests)
    <3>1. PICK live : DeleteObsoleteFiles(bgError, live, bg.edit.log, manifestNumber, logs, tables, manifests)
        BY <2>2
    <3>2. CASE bgError
        BY <1>1, <3>1, <3>2 DEF DeleteObsoleteFiles, Recs
    <3>3. CASE ~bgError
      <4>1. /\ logs' = Keep(logs, LAMBDA n : n >= bg.edit.log) /\ tables' = Keep(tables, LAMBDA n : n \in live)
            /\ manifests' = Keep(manifests, LAMBDA n : n >= manifestNumber)
          BY <3>1, <3>3 DEF DeleteObsoleteFiles
      <4>2. manifests'[current] = manifests[current]
          BY <1>3, <4>1 DEF Keep
      <4> QED BY <1>1, <4>1, <4>2 DEF Keep, Recs
    <3> QED BY <3>2, <3>3
  <2> QED BY <2>1, <2>2 DEF InstallFlush, InstallMerge
<1>5. BgBounds' /\ writer' = SignalAll(writer)
  <2>1. \E error, im, v : /\ FlushDone(error, im, v) \/ BackgroundDone(error, im, v)
                          /\ bg.edit.del # {} => BackgroundDone(error, im, v)
      BY DEF InstallFlush, InstallMerge
  <2> QED BY <1>1, <1>2, <1>3, <1>4, <2>1, RestBounds, RestSignals
<1>6. FewerContents(tables, tables', Adds(Recs))
    BY <1>4 DEF FewerContents
<1> QED BY <1>1, <1>2, <1>4, <1>5, <1>6, BackgroundBounds

\* What LogAndApply appends to the manifest: the edit, or nothing; it is on disk unless the
\* sync failed.
LEMMA AddManifestRecordFacts ==
    ASSUME NoTornWrites, FilesInv, AddManifestRecord
    PROVE  /\ bg.pc = "edit" /\ IsOpen /\ IsOpen' /\ current # 0 /\ current \in DOMAIN manifests
           /\ Recs \in Seq(EditRecord) /\ bg.edit \in EditRecord
           /\ UNCHANGED <<logs, tables, current, created, phase, opening, mem, imm, logfileNumber, version, nextFile,
                          lastSequence, logNumber, manifestNumber, pending, bgError, iters, queue, group, writer, owed>>
           /\ bg'.pc = "applied" /\ bg'.edit = bg.edit /\ bg'.merge = bg.merge /\ bg'.failed \in BOOLEAN
           /\ Recs' = Append(Recs, bg.edit) \/ (Recs' = Recs /\ bg'.failed)
           /\ manifests'[current].synced = IF bg'.failed THEN manifests[current].synced ELSE Len(Recs')
<1> DEFINE m == manifests[current]
           e == bg.edit
           New(recs, synced) == [recs |-> recs, synced |-> synced]
<1>1. /\ bg.pc = "edit"
      /\ UNCHANGED <<logs, tables, current, created, phase, opening, mem, imm, logfileNumber, version, nextFile,
                     lastSequence, logNumber, manifestNumber, pending, bgError, iters, queue, group, writer, owed>>
    BY DEF AddManifestRecord, memVars, versionVars, writeVars, history
<1>2. IsOpen /\ IsOpen' /\ manifestNumber = current /\ current # 0 /\ current \in DOMAIN manifests
    BY <1>1, AtWorkIsOpen DEF FilesInv, OpenInv, DiskInv, IsOpen
<1>3. m.recs = Recs /\ Recs \in Seq(EditRecord) /\ e \in EditRecord
    BY <1>1, <1>2, NumbersOfRecs DEF FilesInv, Recs, BgTypeOK
<1>4. PICK a \in Append1(m.recs, e), synced \in BOOLEAN :
         /\ manifests' = Put(manifests, current, New(a.recs, IF synced THEN Len(a.recs) ELSE m.synced))
         /\ bg' = [bg EXCEPT !.pc = "applied", !.failed = ~synced] /\ (synced => ~a.failed)
  <2> HIDE DEF m, New
  <2>1. \E a \in Append1(m.recs, e) : \E synced \in BOOLEAN :
           /\ manifests' = Put(manifests, current, New(a.recs, IF synced THEN Len(a.recs) ELSE m.synced))
           /\ bg' = [bg EXCEPT !.pc = "applied", !.failed = ~synced] /\ (synced => ~a.failed)
      BY <1>2 DEF AddManifestRecord, New, m
  <2> QED BY <2>1
<1>5. (~a.failed /\ a.recs = Append(Recs, e)) \/ (a.failed /\ a.recs = Recs)
    BY <1>3, AppendCases
<1>6. bg'.pc = "applied" /\ bg'.failed = ~synced /\ bg'.edit = e /\ bg'.merge = bg.merge
  <2>1. bg \in BgRecord
      BY DEF FilesInv, BgTypeOK
  <2> QED BY <1>4, <2>1 DEF BgRecord
<1>7. manifests'[current] = New(a.recs, IF synced THEN Len(a.recs) ELSE m.synced)
    BY <1>2, <1>4 DEF Put
<1>8. Recs' = a.recs /\ manifests'[current].synced = (IF synced THEN Len(a.recs) ELSE m.synced)
    BY <1>1, <1>7 DEF Recs
<1> QED BY <1>1, <1>2, <1>3, <1>4, <1>5, <1>6, <1>8

\* An edit that names tables that were settled changes nothing of what is in use.
LEMMA AddManifestRecordBounds ==
    ASSUME NoTornWrites, FilesInv, NumbersInv, AddManifestRecord
    PROVE  NumbersInv'
<1> DEFINE e == bg.edit
<1>1. /\ bg.pc = "edit" /\ IsOpen /\ IsOpen' /\ current # 0 /\ current \in DOMAIN manifests
      /\ Recs \in Seq(EditRecord) /\ e \in EditRecord
      /\ UNCHANGED <<logs, tables, current, phase, mem, imm, logfileNumber, lastSequence, queue, group, writer>>
      /\ bg'.pc = "applied" /\ bg'.edit = e /\ bg'.merge = bg.merge
      /\ Recs' = Append(Recs, e) \/ Recs' = Recs
    BY AddManifestRecordFacts
<1>2. Taken' = Taken /\ Frozen' = Frozen
    BY <1>1, SignalTakes DEF FilesInv, Frozen
<1>3. EditBounds(logs, tables, e, Adds(Recs) \cup e.add) /\ Contents(tables, e.add) \subseteq Settled
    BY <1>1 DEF NumbersInv, BgBounds
<1> HIDE DEF e
<1>4. /\ Adds(Append(Recs, e)) = Adds(Recs) \cup e.add /\ Append(Recs, e) \in Seq(EditRecord)
      /\ Len(Append(Recs, e)) = Len(Recs) + 1 /\ Append(Recs, e)[Len(Recs) + 1] = e /\ Len(Recs) \in Nat
      /\ DOMAIN Append(Recs, e) = 1 .. Len(Recs) + 1 /\ DOMAIN Recs = 1 .. Len(Recs)
      /\ \A k \in 1 .. Len(Recs) : Append(Recs, e)[k] = Recs[k]
    BY <1>1, ReplayOfAppend
<1>5. Named = Adds(Recs) /\ Named' = Adds(Recs')
    BY <1>1 DEF Named
<1>6. Contents(tables, Named') \subseteq Contents(tables, Named) \cup Contents(tables, e.add)
  <2>1. Named' \subseteq Named \cup e.add
      BY <1>1, <1>4, <1>5
  <2> QED BY <2>1 DEF Contents
<1>7. InUse' \subseteq InUse /\ Settled' \subseteq Settled
  <2>1. Settled' \subseteq Settled
      BY <1>1, <1>2, <1>3, <1>6 DEF Settled
  <2>2. Settled \subseteq InUse
      BY FewerFiles DEF Settled, InUse
  <2> QED BY <1>1, <1>2, <1>3, <1>6, <2>1, <2>2 DEF InUse
<1>8. Consistent(InUse)'
    BY <1>7 DEF NumbersInv, Consistent
<1>9. DiskBounds'
  <2>1. \A k \in DOMAIN Recs : EditBounds(logs, tables, Recs[k], Adds(SubSeq(Recs, 1, k)))
      BY <1>1 DEF NumbersInv, DiskBounds
  <2>2. CASE Recs' = Recs
      BY <1>1, <2>1, <2>2 DEF DiskBounds
  <2>3. CASE Recs' = Append(Recs, e)
    <3> SUFFICES ASSUME NEW k \in 1 .. Len(Recs) + 1
                 PROVE  EditBounds(logs, tables, Append(Recs, e)[k], Adds(SubSeq(Append(Recs, e), 1, k)))
        BY <1>1, <1>4, <2>3 DEF DiskBounds
    <3>1. CASE k \in 1 .. Len(Recs)
      <4>1. SubSeq(Append(Recs, e), 1, k) = SubSeq(Recs, 1, k)
          BY <1>1, <3>1, PrefixOfAppend
      <4> QED BY <1>4, <2>1, <3>1, <4>1
    <3>2. CASE k = Len(Recs) + 1
      <4>1. SubSeq(Append(Recs, e), 1, k) = Append(Recs, e)
          BY <1>4, <3>2, ReplayIsAdded
      <4> QED BY <1>3, <1>4, <3>2, <4>1
    <3> QED BY <1>4, <3>1, <3>2
  <2> QED BY <1>1, <2>2, <2>3
<1>10. OpenBounds'
  <2>1. AtMost(InUse', Taken') /\ AtMost(Settled', lastSequence')
      BY <1>1, <1>2, <1>7 DEF NumbersInv, OpenBounds, AtMost
  <2>2. e.log <= logfileNumber /\ \A k \in DOMAIN Recs : Recs[k].log <= logfileNumber
      BY <1>1 DEF FilesInv, BgInv, NumbersInv, OpenBounds, e
  <2>3. \A k \in DOMAIN Recs' : Recs'[k].log <= logfileNumber
      BY <1>1, <1>4, <2>2
  <2> QED BY <1>1, <2>1, <2>3 DEF NumbersInv, OpenBounds
<1>11. BgBounds'
  <2>1. \A i \in DOMAIN bg.merge : bg.merge[i].out \notin Adds(Recs)
      BY <1>1 DEF NumbersInv, BgBounds
  <2>2. e.del = {} => \A i \in DOMAIN bg.merge : bg.merge[i].out \notin e.add
      BY <1>1 DEF NumbersInv, BgBounds, e
  <2> QED BY <1>1, <1>4, <2>1, <2>2 DEF BgBounds
<1>12. RecoverBounds' /\ (~IsOpen' => mem' = {})
    BY <1>1 DEF RecoverBounds, IsOpen
<1> QED BY <1>8, <1>9, <1>10, <1>11, <1>12 DEF NumbersInv

-----------------------------------------------------------------------------
\* The memory goes, and of the files only beginnings stay (a crash, the destructor, an
\* Open that fails).
LEMMA DropBounds ==
    ASSUME FilesInv, NumbersInv, DropMemory, current' = current,
           current # 0 => \E n \in 0 .. Len(Recs) : Recs' = SubSeq(Recs, 1, n),
           FewerRecords(logs, logs', Nat), FewerContents(tables, tables', Nat)
    PROVE  NumbersInv'
<1>1. phase' = "closed" /\ mem' = {} /\ imm' = <<>>
    BY DEF DropMemory
<1>2. Frozen' = {}
  <2>1. DOMAIN <<>> = {}
      OBVIOUS
  <2> QED BY <1>1, <2>1 DEF Frozen, ToSet
<1>3. FilesTypeOK /\ (current # 0 => current \in DOMAIN manifests)
    BY DEF FilesInv, DiskInv
<1>4. ASSUME current # 0
      PROVE  /\ Recs \in Seq(EditRecord) /\ Adds(Recs) \subseteq Nat
             /\ \A k \in DOMAIN Recs' : k \in DOMAIN Recs /\ Recs'[k] = Recs[k]
                                        /\ SubSeq(Recs', 1, k) = SubSeq(Recs, 1, k)
  <2>1. Recs \in Seq(EditRecord) /\ Adds(Recs) \subseteq Nat
      BY <1>3, <1>4, NumbersOfRecs
  <2>2. PICK n \in 0 .. Len(Recs) : Recs' = SubSeq(Recs, 1, n)
      BY <1>4
  <2>3. DOMAIN Recs' = 1 .. n /\ \A k \in 1 .. n : k \in DOMAIN Recs /\ Recs'[k] = Recs[k]
    <3> DEFINE R == Recs
    <3>1. R \in Seq(EditRecord) /\ n \in 0 .. Len(R)
        BY <2>1
    <3> HIDE DEF R
    <3>2. DOMAIN SubSeq(R, 1, n) = 1 .. n /\ \A k \in 1 .. n : k \in DOMAIN R /\ SubSeq(R, 1, n)[k] = R[k]
        BY <3>1
    <3> QED BY <2>2, <3>2 DEF R
  <2>4. \A k \in 1 .. n : SubSeq(Recs', 1, k) = SubSeq(Recs, 1, k)
      BY <2>1, <2>2, PrefixOfPrefix
  <2> QED BY <2>1, <2>3, <2>4
<1>5. Named' \subseteq Named /\ Named \subseteq Nat
  <2>1. CASE current = 0
      BY <2>1 DEF Named
  <2>2. CASE current # 0
    <3>1. Adds(Recs') \subseteq Adds(Recs)
        BY <1>4, <2>2 DEF Adds
    <3> QED BY <1>4, <2>2, <3>1 DEF Named
  <2> QED BY <2>1, <2>2
<1>6. InUse' \subseteq InUse
  <2>1. Records(logs', Nat) \subseteq Records(logs, Nat)
      BY FewerFiles
  <2>2. Contents(tables', Named') \subseteq Contents(tables, Named')
      BY <1>5, FewerFiles
  <2>3. Contents(tables, Named') \subseteq Contents(tables, Named)
      BY <1>5, FewerFiles
  <2> QED BY <1>1, <1>2, <2>1, <2>2, <2>3 DEF InUse
<1>7. Consistent(InUse)'
    BY <1>6 DEF NumbersInv, Consistent
<1>8. DiskBounds'
  <2>1. \A l : FewerRecords(logs, logs', Under(l))
      BY DEF FewerRecords, Under
  <2>2. FewerContents(tables, tables', Named)
      BY <1>5 DEF FewerContents
  <2> QED BY <1>3, <1>4, <2>1, <2>2, DiskBoundsStay DEF NumbersInv
<1>9. OpenBounds' /\ BgBounds' /\ RecoverBounds'
    BY <1>1 DEF OpenBounds, BgBounds, RecoverBounds, IsOpen
<1> QED BY <1>1, <1>7, <1>8, <1>9 DEF NumbersInv

\* Crashes, the end of the destructor and of an Open that fails.
LEMMA EndBounds ==
    ASSUME FilesInv, FilesInv', NumbersInv,
           OpenFails \/ ManifestFails \/ CloseDone \/ ProcessCrash \/ MachineCrash
    PROVE  NumbersInv'
<1>1. DropMemory /\ current' = current
    BY DEF OpenFails, ManifestFails, CloseDone, ProcessCrash, MachineCrash, files
<1>2. FilesTypeOK /\ (current # 0 => current \in DOMAIN manifests)
    BY DEF FilesInv, DiskInv
<1>3. ASSUME current # 0 PROVE Recs \in Seq(EditRecord) /\ Len(Recs) \in Nat /\ Recs = SubSeq(Recs, 1, Len(Recs))
    BY <1>2, <1>3, NumbersOfRecs, ReplayIsAdded
<1>4. CASE ~MachineCrash
  <2>1. UNCHANGED <<logs, tables>>
      BY <1>4 DEF OpenFails, ManifestFails, CloseDone, ProcessCrash, files
  <2>2. ASSUME current # 0 PROVE Recs' = Recs
    <3>1. CASE ManifestFails
      <4>1. current # manifestNumber
        <5>1. current \in Nat /\ manifestNumber \in Nat /\ current < manifestNumber
            BY <3>1 DEF ManifestFails, FilesInv, FilesTypeOK, VersionTypeOK, RecoverInv
        <5> QED BY <5>1
      <4>2. manifests'[current] = manifests[current]
          BY <1>2, <2>2, <3>1, <4>1 DEF ManifestFails, Keep
      <4> QED BY <1>1, <4>2 DEF Recs
    <3>2. CASE ~ManifestFails
        BY <1>4, <3>2 DEF OpenFails, CloseDone, ProcessCrash, files, Recs
    <3> QED BY <3>1, <3>2
  <2>3. current # 0 => \E n \in 0 .. Len(Recs) : Recs' = SubSeq(Recs, 1, n)
    <3>1. ASSUME current # 0 PROVE Len(Recs) \in 0 .. Len(Recs) /\ Recs' = SubSeq(Recs, 1, Len(Recs))
        BY <1>3, <2>2, <3>1
    <3> QED BY <3>1
  <2>4. FewerRecords(logs, logs', Nat) /\ FewerContents(tables, tables', Nat)
      BY <2>1 DEF FewerRecords, FewerContents
  <2> QED BY <1>1, <2>3, <2>4, DropBounds
<1>5. CASE MachineCrash
  <2>1. /\ logs' \in Cuts(logs) /\ manifests' \in Cuts(manifests)
        /\ tables' = [n \in DOMAIN tables |-> IF tables[n].synced THEN tables[n]
                                              ELSE [entries |-> {}, synced |-> FALSE]]
      BY <1>5 DEF MachineCrash
  <2>2. FewerContents(tables, tables', Nat)
      BY <2>1 DEF FewerContents
  <2>3. FewerRecords(logs, logs', Nat)
    <3> SUFFICES ASSUME NEW n \in DOMAIN logs'
                 PROVE  n \in DOMAIN logs /\ EntriesOfRecs(logs'[n].recs) \subseteq EntriesOfRecs(logs[n].recs)
        BY DEF FewerRecords
    <3>1. n \in DOMAIN logs /\ logs'[n] \in Truncations(logs[n])
        BY <2>1 DEF Cuts
    <3>2. PICK k \in logs[n].synced .. Len(logs[n].recs) : logs'[n] = [recs |-> SubSeq(logs[n].recs, 1, k), synced |-> k]
        BY <3>1 DEF Truncations
    <3>3. logs[n] \in LogFile
        BY <1>2, <3>1 DEF FilesTypeOK
    <3> DEFINE R == logs[n].recs
    <3>4. R \in Seq(LogRecord) /\ k \in 0 .. Len(R)
        BY <3>2, <3>3 DEF LogFile
    <3> HIDE DEF R
    <3>5. \A i \in DOMAIN SubSeq(R, 1, k) : i \in DOMAIN R /\ SubSeq(R, 1, k)[i] = R[i]
        BY <3>4
    <3>6. EntriesOfRecs(SubSeq(R, 1, k)) \subseteq EntriesOfRecs(R)
        BY <3>5 DEF EntriesOfRecs
    <3> QED BY <3>1, <3>2, <3>6 DEF R
  <2>4. ASSUME current # 0 PROVE \E n \in 0 .. Len(Recs) : Recs' = SubSeq(Recs, 1, n)
    <3>1. manifests'[current] \in Truncations(manifests[current])
        BY <1>2, <2>1, <2>4 DEF Cuts
    <3>2. PICK k \in manifests[current].synced .. Len(Recs) :
             manifests'[current] = [recs |-> SubSeq(Recs, 1, k), synced |-> k]
        BY <3>1 DEF Truncations, Recs
    <3>3. manifests[current].synced \in Nat /\ Len(Recs) \in Nat
        BY <1>2, <2>4, NumbersOfRecs
    <3>4. Recs' = SubSeq(Recs, 1, k) /\ k \in 0 .. Len(Recs)
        BY <1>1, <3>2, <3>3 DEF Recs
    <3> QED BY <3>4
  <2> QED BY <1>1, <2>2, <2>3, <2>4, DropBounds
<1> QED BY <1>4, <1>5

-----------------------------------------------------------------------------
\* The tables that RecoverLogFile makes of a log hold the entries of its records, no other
\* ones and all of them.
LEMMA MemTablesHoldTheLog ==
    ASSUME NEW recs \in Seq(LogRecord)
    PROVE  UNION {MemTables(recs)[i] : i \in DOMAIN MemTables(recs)} = EntriesOfRecs(recs)
<1> DEFINE n == Len(recs)
           Full(t) == UNION {t.full[i] : i \in DOMAIN t.full}
           Read(i) == UNION {EntriesOfRecord(recs[j]) : j \in 1 .. i}
           P(f, i) == f[i].mem \cup Full(f[i]) = Read(i)
<1>1. PICK f : MadeBy(recs, f)
    BY MemTablesAreMade
<1>2. n \in Nat /\ DOMAIN recs = 1 .. n /\ \A i \in 0 .. n : f[i] \in ReplayState
    BY <1>1 DEF MadeBy
<1> HIDE DEF n
<1>3. \A t \in ReplayState, m \in SUBSET EntryRecord :
         UNION {Append(t.full, m)[i] : i \in DOMAIN Append(t.full, m)} = Full(t) \cup m
  <2> SUFFICES ASSUME NEW t \in ReplayState, NEW m \in SUBSET EntryRecord
               PROVE  UNION {Append(t.full, m)[i] : i \in DOMAIN Append(t.full, m)} = Full(t) \cup m
      OBVIOUS
  <2> DEFINE q == t.full
  <2>1. q \in Seq(SUBSET EntryRecord)
      BY DEF ReplayState
  <2> HIDE DEF q
  <2>2. /\ Len(q) \in Nat /\ DOMAIN q = 1 .. Len(q) /\ DOMAIN Append(q, m) = 1 .. Len(q) + 1
        /\ Append(q, m)[Len(q) + 1] = m /\ \A i \in 1 .. Len(q) : Append(q, m)[i] = q[i]
      BY <2>1
  <2>3. \A i \in 1 .. Len(q) + 1 : i = Len(q) + 1 \/ i \in 1 .. Len(q)
      BY <2>2
  <2>4. Len(q) + 1 \in 1 .. Len(q) + 1 /\ \A i \in 1 .. Len(q) : i \in 1 .. Len(q) + 1
      BY <2>2
  <2>5. UNION {Append(q, m)[i] : i \in DOMAIN Append(q, m)} = (UNION {q[i] : i \in DOMAIN q}) \cup m
      BY <2>2, <2>3, <2>4
  <2> QED BY <2>5 DEF q
<1>4. P(f, 0)
  <2>1. 1 .. 0 = {} /\ DOMAIN <<>> = {}
      OBVIOUS
  <2>2. f[0].mem = {} /\ f[0].full = <<>>
      BY <1>1 DEF MadeBy
  <2> QED BY <2>1, <2>2
<1>5. ASSUME NEW i \in 1 .. n, P(f, i - 1) PROVE P(f, i)
  <2> DEFINE t == f[i - 1]
             m == t.mem \cup EntriesOfRecord(recs[i])
  <2>1. f[i] = ReplayRecord(recs[i], t) /\ i - 1 \in 0 .. n /\ f[i] \in ReplayState
      BY <1>1, <1>2 DEF MadeBy, n
  <2>2. t \in ReplayState
      BY <1>2, <2>1
  <2>3. Read(i) = Read(i - 1) \cup EntriesOfRecord(recs[i])
    <3>1. \A j \in 1 .. i : j = i \/ j \in 1 .. i - 1
        BY <1>2
    <3>2. i \in 1 .. i /\ \A j \in 1 .. i - 1 : j \in 1 .. i
        BY <1>2
    <3> QED BY <3>1, <3>2
  <2>4. m \cup Full(t) = Read(i)
      BY <1>5, <2>3
  <2> HIDE DEF Read
  <2>5. CASE Cardinality(m) > WriteBuffer
    <3>1. f[i].mem = {} /\ f[i].full = Append(t.full, m)
        BY <2>1, <2>5 DEF ReplayRecord
    <3>2. m \in SUBSET EntryRecord
      <4>1. recs[i] \in LogRecord
          BY <1>2
      <4>2. EntriesOfRecord(recs[i]) \subseteq EntryRecord
          BY <4>1, RecordIsEntries
      <4> QED BY <2>2, <4>2 DEF ReplayState
    <3> HIDE DEF m
    <3>3. UNION {Append(t.full, m)[j] : j \in DOMAIN Append(t.full, m)} = Full(t) \cup m
        BY <1>3, <2>2, <3>2
    <3>4. Full(f[i]) = Full(t) \cup m
        BY <3>1, <3>3
    <3> HIDE DEF Full, t
    <3> QED BY <2>4, <3>1, <3>4
  <2>6. CASE ~(Cardinality(m) > WriteBuffer)
    <3>1. f[i].mem = m /\ f[i].full = t.full
        BY <2>1, <2>2, <2>6 DEF ReplayRecord, ReplayState
    <3> QED BY <2>4, <3>1
  <2> QED BY <2>5, <2>6
<1>6. P(f, n)
  <2> DEFINE T == {i \in 0 .. n : ~P(f, i)}
  <2> HIDE DEF P
  <2>1. ASSUME T # {} PROVE FALSE
    <3>1. T \in SUBSET Nat
        BY <1>2
    <3>2. PICK m \in T : \A k \in T : m <= k
      <4> HIDE DEF T
      <4> QED BY <2>1, <3>1, LeastNatural
    <3>3. m \in 1 .. n /\ m - 1 \in 0 .. n /\ ~P(f, m) /\ ~(m <= m - 1)
        BY <1>2, <1>4, <3>2
    <3>4. m - 1 \notin T
        BY <3>1, <3>2, <3>3
    <3> QED BY <1>5, <3>3, <3>4
  <2>2. n \in 0 .. n
      BY <1>2
  <2> QED BY <2>1, <2>2
<1>7. f[n] \in ReplayState /\ Read(n) = EntriesOfRecs(recs)
  <2>1. n \in 0 .. n
      BY <1>2
  <2> QED BY <1>2, <2>1 DEF EntriesOfRecs
<1>8. MemTables(recs) = IF f[n].mem = {} THEN f[n].full ELSE Append(f[n].full, f[n].mem)
    BY <1>1 DEF MadeBy, n
<1>9. UNION {Append(f[n].full, f[n].mem)[i] : i \in DOMAIN Append(f[n].full, f[n].mem)} = Full(f[n]) \cup f[n].mem
  <2>1. f[n].mem \in SUBSET EntryRecord
      BY <1>7 DEF ReplayState
  <2> QED BY <1>3, <1>7, <2>1
<1> HIDE DEF Read
<1> QED BY <1>6, <1>7, <1>8, <1>9

\* What replaying a log does (RecoverLogFile): its entries go to new tables, unless it fails,
\* and its numbers are counted.
LEMMA RecoverLogFileFacts ==
    ASSUME FilesInv, RecoverLogFile
    PROVE  LET log == Min(opening.todo)
               recs == logs[log].recs
           IN  /\ phase = "recovering" /\ log \in opening.todo /\ log \in DOMAIN logs /\ log \in Nat
               /\ UNCHANGED <<logs, manifests, current, created, phase, mem, imm, logfileNumber, version, lastSequence,
                              logNumber, manifestNumber, pending, bgError, bg, iters, queue, group, writer, owed>>
               /\ opening'.todo = opening.todo \ {log} /\ opening.add \subseteq opening'.add
               /\ opening'.failed \in BOOLEAN
               /\ \A n \in DOMAIN tables : n < nextFile => n \in DOMAIN tables' /\ tables'[n] = tables[n]
               /\ \A n \in DOMAIN tables' : n < nextFile => n \in DOMAIN tables
               /\ \A n \in opening'.add \ opening.add : ~(n < nextFile)
               /\ Contents(tables, opening.add) \subseteq Contents(tables', opening'.add)
               /\ Contents(tables', opening'.add) \subseteq Contents(tables, opening.add) \cup EntriesOfRecs(recs)
               /\ ~opening'.failed => EntriesOfRecs(recs) \subseteq Contents(tables', opening'.add)
               /\ opening'.maxSequence \in Nat /\ opening.maxSequence <= opening'.maxSequence
               /\ AtMost(EntriesOfRecs(recs), opening'.maxSequence)
               /\ nextFile' \in Nat /\ nextFile <= nextFile' /\ log < nextFile'
<1> DEFINE log == Min(opening.todo)
           file == logs[log].recs
           recs == Readable(file)
           mems == MemTables(recs)
           ends == {opening.maxSequence} \cup {r.seq + Len(r.ops) - 1 : r \in ToSet(recs)}
           new(n) == nextFile .. nextFile + n - 1
           Put1(n) == [m \in DOMAIN tables \cup new(n) |->
                          IF m \in new(n) THEN [entries |-> mems[m - nextFile + 1], synced |-> TRUE]
                          ELSE tables[m]]
<1>1. /\ phase = "recovering" /\ opening.todo # {}
      /\ UNCHANGED <<logs, manifests, current, created, phase, mem, imm, logfileNumber, version, lastSequence,
                     logNumber, manifestNumber, pending, bgError, bg, iters, queue, group, writer, owed>>
    BY DEF RecoverLogFile, memVars, writeVars, history
<1>2. /\ opening.todo \subseteq Nat /\ opening.maxSequence \in Nat /\ opening.add \subseteq Nat /\ nextFile \in Nat
      /\ log \in opening.todo /\ log \in Nat /\ log \in DOMAIN logs
  <2>1. opening.todo \subseteq Nat /\ opening.maxSequence \in Nat /\ opening.add \subseteq Nat /\ nextFile \in Nat
      BY DEF FilesInv, VersionTypeOK
  <2>2. log \in opening.todo
      BY <1>1, <2>1, MinIsMember
  <2> QED BY <1>1, <2>1, <2>2 DEF FilesInv, RecoverInv
<1>3. file \in Seq(LogRecord) /\ recs = file
  <2>1. logs[log] \in LogFile
      BY <1>2 DEF FilesInv, FilesTypeOK
  <2>2. file \in Seq(LogRecord)
      BY <2>1 DEF LogFile
  <2> QED BY <2>2, AllIsReadable, NoneIsTorn
<1> HIDE DEF file
<1>4. mems \in Seq(SUBSET EntryRecord) /\ Len(mems) \in Nat /\ DOMAIN mems = 1 .. Len(mems)
  <2>1. mems \in Seq(SUBSET EntryRecord)
      BY <1>3, MemTablesAreEntries
  <2> HIDE DEF mems
  <2> QED BY <2>1
<1>5. UNION {mems[i] : i \in DOMAIN mems} = EntriesOfRecs(file)
    BY <1>3, MemTablesHoldTheLog
<1>6. PICK k \in 0 .. Len(mems), failed \in BOOLEAN :
         /\ tables' = Put1(k)
         /\ opening' = [todo |-> opening.todo \ {log}, maxSequence |-> Max(ends),
                        add |-> opening.add \cup new(k), failed |-> failed]
         /\ nextFile' = Max({nextFile + k, log + 1})
         /\ (failed \/ k = Len(mems))
  <2> DEFINE Written(k, failed) ==
               /\ tables' = Put1(k)
               /\ opening' = [todo |-> opening.todo \ {log}, maxSequence |-> Max(ends),
                              add |-> opening.add \cup new(k), failed |-> failed]
               /\ nextFile' = Max({nextFile + k, log + 1})
  <2>1. Written(Len(mems), FALSE) \/ Written(0, TRUE) \/ \E n \in 0 .. Len(mems) - 1 : Written(n, TRUE)
      BY DEF RecoverLogFile, file
  <2> HIDE DEF Written
  <2>2. Len(mems) \in 0 .. Len(mems) /\ 0 \in 0 .. Len(mems)
      BY <1>4
  <2>3. \A n \in 0 .. Len(mems) - 1 : n \in 0 .. Len(mems)
      BY <1>4
  <2>4. \E k \in 0 .. Len(mems) : \E failed \in BOOLEAN : Written(k, failed) /\ (failed \/ k = Len(mems))
      BY <2>1, <2>2, <2>3
  <2> QED BY <2>4 DEF Written
<1>7. \A i \in DOMAIN file : /\ file[i].seq \in Nat \ {0} /\ file[i].ops \in Seq(Nat) /\ Len(file[i].ops) \in Nat
                             /\ DOMAIN file[i].ops = 1 .. Len(file[i].ops)
  <2>1. \A i \in DOMAIN file : file[i] \in LogRecord
      BY <1>3
  <2>2. \A r \in LogRecord : r.seq \in Nat \ {0} /\ r.ops \in Seq(Nat)
      BY DEF LogRecord
  <2>3. \A q \in Seq(Nat) : Len(q) \in Nat /\ DOMAIN q = 1 .. Len(q)
      OBVIOUS
  <2> QED BY <2>1, <2>2, <2>3
<1>8. /\ ends \subseteq Nat /\ Max(ends) \in Nat /\ opening.maxSequence <= Max(ends)
      /\ \A i \in DOMAIN file : file[i].seq + Len(file[i].ops) - 1 <= Max(ends)
  <2> DEFINE f == [i \in 1 .. Len(file) |-> file[i].seq + Len(file[i].ops) - 1]
  <2>1. f \in [1 .. Len(file) -> Nat] /\ Len(file) \in Nat /\ DOMAIN file = 1 .. Len(file)
    <3>1. \A i \in 1 .. Len(file) : file[i].seq + Len(file[i].ops) - 1 \in Nat
        BY <1>3, <1>7
    <3> QED BY <1>3, <3>1
  <2>2. PICK b \in Nat : \A i \in 1 .. Len(file) : f[i] <= b
    <3> HIDE DEF f
    <3> QED BY <2>1, BoundOfSome
  <2>3. ends = {opening.maxSequence} \cup {f[i] : i \in 1 .. Len(file)}
    <3>1. ToSet(recs) = {file[i] : i \in 1 .. Len(file)}
        BY <1>3, <2>1 DEF ToSet
    <3> QED BY <3>1
  <2> HIDE DEF ends
  <2> DEFINE n == b + opening.maxSequence
  <2>4. n \in Nat /\ opening.maxSequence <= n /\ b <= n
      BY <1>2
  <2> HIDE DEF n
  <2>5. \A i \in 1 .. Len(file) : f[i] \in 0 .. n
    <3> SUFFICES ASSUME NEW i \in 1 .. Len(file) PROVE f[i] \in 0 .. n
        OBVIOUS
    <3>1. f[i] \in Nat /\ f[i] <= b
        BY <2>1, <2>2
    <3> HIDE DEF f
    <3> QED BY <2>4, <3>1
  <2> HIDE DEF f
  <2>6. ends \in SUBSET (0 .. n) /\ ends # {}
      BY <1>2, <2>3, <2>4, <2>5
  <2>7. Max(ends) \in ends /\ \A x \in ends : x <= Max(ends)
      BY <2>4, <2>6, MaxOfNaturals
  <2>8. ends \subseteq Nat
      BY <2>4, <2>6
  <2>9. \A i \in DOMAIN file : f[i] <= Max(ends)
      BY <2>1, <2>3, <2>7
  <2>10. opening.maxSequence <= Max(ends)
      BY <2>3, <2>7
  <2> QED BY <2>1, <2>7, <2>8, <2>9, <2>10 DEF f
<1>9. AtMost(EntriesOfRecs(file), Max(ends))
  <2> SUFFICES ASSUME NEW i \in DOMAIN file, NEW j \in DOMAIN file[i].ops
               PROVE  file[i].seq + j - 1 <= Max(ends)
      BY DEF AtMost, EntriesOfRecs, EntriesOfRecord, Entry
  <2> HIDE DEF ends
  <2> DEFINE s == file[i].seq
             l == Len(file[i].ops)
             x == Max(ends)
  <2>1. s \in Nat /\ l \in Nat /\ j \in 1 .. l /\ s + l - 1 <= x /\ x \in Nat
      BY <1>7, <1>8
  <2> HIDE DEF s, l, x
  <2>2. s + j - 1 <= x
      BY <2>1
  <2> QED BY <2>2 DEF s, x
<1>10. nextFile' \in Nat /\ nextFile <= nextFile' /\ log < nextFile' /\ k \in Nat
  <2>1. k \in Nat /\ nextFile + k \in Nat /\ log + 1 \in Nat
      BY <1>2, <1>4
  <2> HIDE DEF log
  <2>2. nextFile' \in Nat /\ nextFile + k <= nextFile' /\ log + 1 <= nextFile'
      BY <1>6, <2>1, MaxOfTwo
  <2> QED BY <1>2, <2>1, <2>2
<1> HIDE DEF mems, log, ends, recs
<1>11. \A m \in new(k) : m \in Nat /\ ~(m < nextFile) /\ m - nextFile + 1 \in 1 .. Len(mems)
    BY <1>2, <1>4, <1>10
<1>12. k = Len(mems) => \A i \in 1 .. Len(mems) : /\ nextFile + i - 1 \in new(k)
                                                  /\ (nextFile + i - 1) - nextFile + 1 = i
    BY <1>2, <1>4
<1>13. /\ DOMAIN tables' = DOMAIN tables \cup new(k)
       /\ \A m \in new(k) : tables'[m].entries = mems[m - nextFile + 1]
       /\ \A m \in DOMAIN tables : m \notin new(k) => tables'[m] = tables[m]
  <2> HIDE DEF new
  <2> QED BY <1>6
<1> HIDE DEF new
<1>14. \A n \in opening.add : n < nextFile
    BY <1>1 DEF FilesInv, RecoverInv, Below
<1>15. /\ \A n \in DOMAIN tables : n < nextFile => n \in DOMAIN tables' /\ tables'[n] = tables[n]
       /\ \A n \in DOMAIN tables' : n < nextFile => n \in DOMAIN tables
    BY <1>11, <1>13
<1>16. Contents(tables, opening.add) = Contents(tables', opening.add)
    BY <1>14, <1>15 DEF Contents
<1>17. Contents(tables', new(k)) \subseteq EntriesOfRecs(file)
  <2>1. \A m \in new(k) : mems[m - nextFile + 1] \subseteq EntriesOfRecs(file)
      BY <1>4, <1>5, <1>11
  <2> QED BY <1>13, <2>1 DEF Contents
<1>18. k = Len(mems) => EntriesOfRecs(file) \subseteq Contents(tables', new(k))
  <2> SUFFICES ASSUME k = Len(mems), NEW i \in 1 .. Len(mems)
               PROVE  mems[i] \subseteq Contents(tables', new(k))
      BY <1>4, <1>5
  <2>1. nextFile + i - 1 \in new(k) /\ tables'[nextFile + i - 1].entries = mems[i]
      BY <1>12, <1>13
  <2> QED BY <1>13, <2>1 DEF Contents
<1>19. Contents(tables', opening.add \cup new(k)) = Contents(tables', opening.add) \cup Contents(tables', new(k))
    BY DEF Contents
<1>20. /\ opening'.todo = opening.todo \ {log} /\ opening'.add = opening.add \cup new(k) /\ opening'.failed = failed
       /\ opening'.maxSequence = Max(ends)
    BY <1>6
<1>21. logs[log].recs = file
    BY DEF file
<1>22. \A n \in opening'.add \ opening.add : ~(n < nextFile)
    BY <1>11, <1>20
<1>23. /\ Contents(tables, opening.add) \subseteq Contents(tables', opening'.add)
       /\ Contents(tables', opening'.add) \subseteq Contents(tables, opening.add) \cup EntriesOfRecs(file)
       /\ ~opening'.failed => EntriesOfRecs(file) \subseteq Contents(tables', opening'.add)
    BY <1>6, <1>16, <1>17, <1>18, <1>19, <1>20
<1>24. opening.add \subseteq opening'.add /\ opening'.failed \in BOOLEAN
    BY <1>6, <1>20
<1> QED BY <1>1, <1>2, <1>8, <1>9, <1>10, <1>15, <1>20, <1>21, <1>22, <1>23, <1>24 DEF log

\* NewDB: a manifest that names nothing.
LEMMA NewDBBounds == ASSUME FilesInv, NumbersInv, NewDB PROVE NumbersInv'
<1> DEFINE e == [log |-> 0, next |-> 2, last |-> 0, add |-> {}, del |-> {}]
<1>1. /\ phase = "closed" /\ current = 0 /\ current' = 1
      /\ manifests' = Put(manifests, 1, [recs |-> <<e>>, synced |-> 0])
      /\ UNCHANGED <<logs, tables, phase, mem, imm, bg>>
    BY DEF NewDB, memVars
<1>2. e \in EditRecord /\ e.add = {} /\ e.log = 0 /\ e.next = 2
    BY DEF EditRecord
<1>3. Recs' = <<e>>
    BY <1>1 DEF Put, Recs
<1> HIDE DEF e
<1>4. <<e>> \in Seq(EditRecord) /\ Len(<<e>>) = 1 /\ <<e>>[1] = e /\ DOMAIN <<e>> = {1}
    BY <1>2
<1>5. Adds(<<e>>) = {} /\ SubSeq(<<e>>, 1, 1) = <<e>>
    BY <1>2, <1>4, ReplayOfOne, ReplayIsAdded
<1>6. Named' = {} /\ Contents(tables, {}) = {} /\ Frozen' = Frozen
    BY <1>1, <1>3, <1>5 DEF Named, Contents, Frozen
<1>7. InUse' \subseteq InUse
    BY <1>1, <1>6 DEF InUse
<1>8. DiskBounds'
  <2>1. Under(0) = {} /\ Records(logs, {}) = {}
      BY DEF Under, Records
  <2>2. EditBounds(logs, tables, e, {})
      BY <1>2, <1>6, <2>1 DEF EditBounds, AtMost
  <2> QED BY <1>1, <1>3, <1>4, <1>5, <2>2 DEF DiskBounds
<1>9. OpenBounds' /\ BgBounds' /\ RecoverBounds' /\ mem' = {}
    BY <1>1 DEF OpenBounds, BgBounds, RecoverBounds, IsOpen, NumbersInv
<1> QED BY <1>7, <1>8, <1>9 DEF NumbersInv, Consistent

\* VersionSet::Recover takes the numbers of the last edit, and they are large enough.
LEMMA RecoverVersionsBounds == ASSUME FilesInv, FilesInv', NumbersInv, RecoverVersions PROVE NumbersInv'
<1> DEFINE last == Last(Recs)
           todo == {n \in DOMAIN logs : n >= last.log}
<1>1. /\ phase = "closed" /\ current # 0
      /\ UNCHANGED <<logs, tables, manifests, current, mem, imm, logfileNumber, bg>>
    BY DEF RecoverVersions, files, memVars
<1>2. current \in DOMAIN manifests /\ NumbersRise(current, Recs) /\ FilesTypeOK /\ manifests[current].recs = Recs
    BY <1>1 DEF FilesInv, DiskInv, Recs
<1>3. Recs \in Seq(EditRecord) /\ Len(Recs) \in Nat /\ DOMAIN Recs = 1 .. Len(Recs)
    BY <1>2, NumbersOfRecs
<1>4. Readable(Recs) = Recs
    BY <1>3, AllIsReadable, NoneIsTorn
<1>5. \/ phase' = "corrupt"
      \/ /\ Recs # <<>> /\ phase' = "recovering" /\ version' = Replay(Recs)
         /\ nextFile' = last.next + 1 /\ lastSequence' = last.last
         /\ opening' = [NotOpening EXCEPT !.todo = todo]
    BY <1>4 DEF RecoverVersions, Recs
<1>6. Recs' = Recs /\ Frozen' = Frozen /\ Named' = Named /\ Named = Adds(Recs)
    BY <1>1 DEF Recs, Frozen, Named
<1>7. InUse' = InUse
    BY <1>1, <1>6 DEF InUse
<1>8. DiskBounds' /\ mem' = {}
    BY <1>1, <1>6 DEF DiskBounds, NumbersInv, IsOpen
<1>9. OpenBounds' /\ BgBounds'
    BY <1>5 DEF OpenBounds, BgBounds, IsOpen
<1>10. RecoverBounds'
  <2>1. CASE phase' = "corrupt"
      BY <2>1 DEF RecoverBounds
  <2>2. CASE phase' # "corrupt"
    <3>1. /\ Recs # <<>> /\ phase' = "recovering" /\ version' = Replay(Recs)
          /\ nextFile' = last.next + 1 /\ lastSequence' = last.last
          /\ opening' = [NotOpening EXCEPT !.todo = todo]
        BY <1>5, <2>2
    <3>2. Len(Recs) \in 1 .. Len(Recs)
      <4>1. Len(Recs) # 0
          BY <1>3, <3>1, EmptySequence
      <4> QED BY <1>3, <4>1
    <3>3. last = Recs[Len(Recs)] /\ Recs[Len(Recs)] \in EditRecord /\ SubSeq(Recs, 1, Len(Recs)) = Recs
        BY <1>3, <3>2, ReplayIsAdded DEF Last
    <3>4. last.next \in Nat /\ last.log \in Nat /\ Below(Adds(Recs), last.next)
      <4>1. \A j \in 1 .. Len(Recs) : Below(Recs[j].add, last.next)
          BY <1>2, <3>2, <3>3 DEF NumbersRise
      <4> QED BY <1>3, <3>3, <4>1 DEF Adds, Below, EditRecord
    <3>5. Below(Adds(Recs), nextFile')
      <4>1. Adds(Recs) \subseteq Nat
          BY <1>2, NumbersOfRecs
      <4> QED BY <3>1, <3>4, <4>1 DEF Below
    <3>6. EditBounds(logs, tables, last, Adds(Recs))
      <4>1. EditBounds(logs, tables, Recs[Len(Recs)], Adds(SubSeq(Recs, 1, Len(Recs))))
          BY <1>1, <1>3, <3>2 DEF NumbersInv, DiskBounds
      <4> QED BY <3>3, <4>1
    <3>7. version' \subseteq Adds(Recs)
        BY <1>3, <3>1, ReplayIsAdded
    <3>8. AtMost(Contents(tables, version'), lastSequence')
        BY <3>1, <3>6, <3>7 DEF EditBounds, AtMost, Contents
    <3>9. opening'.add = {} /\ opening'.todo = todo
        BY <3>1 DEF NotOpening
    <3>10. Contents(tables, {}) = {}
        BY DEF Contents
    <3>11. \A n \in DOMAIN logs : n < nextFile' \/ n \in todo
      <4> SUFFICES ASSUME NEW n \in DOMAIN logs, n \notin todo PROVE n < nextFile'
          OBVIOUS
      <4>1. n \in Nat /\ ~(n >= last.log)
          BY <1>2 DEF FilesTypeOK
      <4>2. last.log < last.next
          BY <3>6 DEF EditBounds
      <4> HIDE DEF last
      <4> QED BY <3>1, <3>4, <4>1, <4>2
    <3> HIDE DEF last, todo
    <3> QED BY <1>1, <1>6, <3>1, <3>5, <3>7, <3>8, <3>9, <3>10, <3>11 DEF RecoverBounds, AtMost
  <2> QED BY <2>1, <2>2
<1> QED BY <1>7, <1>8, <1>9, <1>10 DEF NumbersInv, Consistent

\* RecoverLogFile: the entries of a log are in tables as well, and counted.
LEMMA RecoverLogFileBounds == ASSUME FilesInv, NumbersInv, RecoverLogFile PROVE NumbersInv'
<1> DEFINE log == Min(opening.todo)
           file == logs[log].recs
<1>1. /\ phase = "recovering" /\ log \in opening.todo /\ log \in DOMAIN logs /\ log \in Nat
      /\ UNCHANGED <<logs, manifests, current, phase, mem, imm, logfileNumber, version, lastSequence, bg>>
      /\ opening'.todo = opening.todo \ {log}
      /\ \A n \in DOMAIN tables : n < nextFile => n \in DOMAIN tables' /\ tables'[n] = tables[n]
      /\ \A n \in DOMAIN tables' : n < nextFile => n \in DOMAIN tables
      /\ Contents(tables', opening'.add) \subseteq Contents(tables, opening.add) \cup EntriesOfRecs(file)
      /\ opening'.maxSequence \in Nat /\ opening.maxSequence <= opening'.maxSequence
      /\ AtMost(EntriesOfRecs(file), opening'.maxSequence)
      /\ nextFile' \in Nat /\ nextFile <= nextFile' /\ log < nextFile'
    BY RecoverLogFileFacts
<1> HIDE DEF file, log
<1>2. /\ current # 0 /\ current \in DOMAIN manifests /\ FilesTypeOK /\ nextFile \in Nat /\ opening.maxSequence \in Nat
      /\ DOMAIN logs \subseteq Nat
    BY <1>1 DEF FilesInv, RecoverInv, DiskInv, VersionTypeOK, FilesTypeOK
<1>3. Recs \in Seq(EditRecord) /\ Adds(Recs) \subseteq Nat
    BY <1>2, NumbersOfRecs
<1>4. /\ Below(Adds(Recs), nextFile) /\ version \subseteq Adds(Recs) /\ Contents(tables, opening.add) \subseteq InUse
      /\ AtMost(Contents(tables, version), lastSequence)
      /\ AtMost(Contents(tables, opening.add), opening.maxSequence)
      /\ \A n \in DOMAIN logs : n < nextFile \/ n \in opening.todo
    BY <1>1 DEF NumbersInv, RecoverBounds
<1>5. Recs' = Recs /\ Frozen' = Frozen /\ Named' = Named /\ Named = Adds(Recs)
    BY <1>1, <1>2 DEF Recs, Frozen, Named
<1>6. /\ Contents(tables', Adds(Recs)) = Contents(tables, Adds(Recs)) /\ Contents(tables', version) = Contents(tables, version)
      /\ FewerContents(tables, tables', Named)
    BY <1>1, <1>4, <1>5 DEF Contents, FewerContents, Below
<1>7. InUse' = InUse
    BY <1>1, <1>5, <1>6 DEF InUse
<1>8. DiskBounds'
  <2>1. \A k \in DOMAIN Recs : FewerRecords(logs, logs', Under(Recs[k].log))
      BY <1>1 DEF FewerRecords
  <2> QED BY <1>1, <1>2, <1>5, <1>6, <2>1, DiskBoundsStay DEF NumbersInv
<1>9. OpenBounds' /\ BgBounds' /\ (~IsOpen' => mem' = {})
    BY <1>1 DEF OpenBounds, BgBounds, IsOpen, NumbersInv
<1>10. RecoverBounds'
  <2>1. Below(Adds(Recs), nextFile')
      BY <1>1, <1>2, <1>3, <1>4 DEF Below
  <2>2. EntriesOfRecs(file) \subseteq InUse
      BY <1>1 DEF InUse, Records, file
  <2>3. AtMost(Contents(tables', opening'.add), opening'.maxSequence)
    <3>1. \A x \in Contents(tables, opening.add) : x.seq \in Nat
        BY <1>2, EntriesAreEntries DEF EntryRecord
    <3>2. AtMost(Contents(tables, opening.add), opening'.maxSequence)
        BY <1>1, <1>2, <1>4, <3>1 DEF AtMost
    <3> QED BY <1>1, <3>2 DEF AtMost
  <2>4. \A n \in DOMAIN logs : n < nextFile' \/ n \in opening'.todo
      BY <1>1, <1>2, <1>4
  <2> QED BY <1>1, <1>4, <1>5, <1>6, <1>7, <2>1, <2>2, <2>3, <2>4 DEF RecoverBounds
<1> QED BY <1>7, <1>8, <1>9, <1>10 DEF NumbersInv, Consistent

\* The new manifest has the numbers that recovery counted; it is not in use yet.
LEMMA WriteNewManifestBounds == ASSUME FilesInv, NumbersInv, WriteNewManifest PROVE NumbersInv'
<1> DEFINE e == [log |-> nextFile, next |-> nextFile', last |-> lastSequence', add |-> version \cup opening.add,
                 del |-> {}]
           new == [recs |-> <<>>, synced |-> 0]
<1>1. /\ phase = "recovering" /\ opening.todo = {} /\ phase' = "current"
      /\ lastSequence' = Max({lastSequence, opening.maxSequence})
      /\ logs' = Put(logs, nextFile, new) /\ logfileNumber' = nextFile /\ nextFile' = nextFile + 1
      /\ manifests' = Put(manifests, manifestNumber, [recs |-> <<e>>, synced |-> 1])
      /\ UNCHANGED <<tables, current, opening, mem, imm, version, manifestNumber, bg>>
    BY DEF WriteNewManifest
<1>2. /\ current # 0 /\ current \in DOMAIN manifests /\ FilesTypeOK /\ nextFile \in Nat /\ DOMAIN logs \subseteq Nat
      /\ lastSequence \in Nat /\ opening.maxSequence \in Nat
      /\ current \in Nat /\ manifestNumber \in Nat /\ current < manifestNumber
    BY <1>1 DEF FilesInv, RecoverInv, DiskInv, VersionTypeOK, FilesTypeOK
<1>3. Recs \in Seq(EditRecord) /\ Adds(Recs) \subseteq Nat
    BY <1>2, NumbersOfRecs
<1>4. /\ Below(Adds(Recs), nextFile) /\ version \subseteq Adds(Recs) /\ Contents(tables, opening.add) \subseteq InUse
      /\ AtMost(Contents(tables, version), lastSequence)
      /\ AtMost(Contents(tables, opening.add), opening.maxSequence)
      /\ \A n \in DOMAIN logs : n < nextFile
    BY <1>1 DEF NumbersInv, RecoverBounds
<1>5. /\ DOMAIN logs' = DOMAIN logs \cup {nextFile} /\ logs'[nextFile] = new
      /\ \A n \in DOMAIN logs : n # nextFile => logs'[n] = logs[n]
    BY <1>1 DEF Put
<1>6. EntriesOfRecs(<<>>) = {} /\ new.recs = <<>>
  <2>1. DOMAIN <<>> = {}
      OBVIOUS
  <2> QED BY <2>1 DEF EntriesOfRecs
<1>7. manifests'[manifestNumber].recs[1] = e /\ manifests'[current] = manifests[current]
  <2> HIDE DEF e
  <2>1. manifests'[manifestNumber] = [recs |-> <<e>>, synced |-> 1]
      BY <1>1 DEF Put
  <2>2. manifests'[current] = manifests[current]
      BY <1>1, <1>2 DEF Put
  <2>3. <<e>>[1] = e
      OBVIOUS
  <2> QED BY <2>1, <2>2, <2>3
<1>8. e.last = lastSequence' /\ e.log = nextFile /\ e.next = nextFile'
    OBVIOUS
<1> HIDE DEF new, e
<1>9. Recs' = Recs /\ Frozen' = Frozen /\ Named' = Named /\ Named = Adds(Recs)
    BY <1>1, <1>2, <1>7 DEF Recs, Frozen, Named
<1>10. FewerRecords(logs, logs', Nat) /\ FewerContents(tables, tables', Named)
    BY <1>1, <1>5, <1>6 DEF FewerRecords, FewerContents
<1>11. Records(logs', Nat) = Records(logs, Nat)
  <2>1. Records(logs', Nat) \subseteq Records(logs, Nat)
      BY <1>10, FewerFiles
  <2>2. \A n \in DOMAIN logs : n # nextFile
      BY <1>2, <1>4
  <2>3. Records(logs, Nat) \subseteq Records(logs', Nat)
      BY <1>5, <2>2 DEF Records
  <2> QED BY <2>1, <2>3
<1>12. InUse' = InUse
    BY <1>1, <1>9, <1>11 DEF InUse
<1>13. DiskBounds'
  <2>1. \A k \in DOMAIN Recs : FewerRecords(logs, logs', Under(Recs[k].log))
      BY <1>10 DEF FewerRecords, Under
  <2> QED BY <1>1, <1>2, <1>9, <1>10, <2>1, DiskBoundsStay DEF NumbersInv
<1>14. OpenBounds' /\ BgBounds' /\ (~IsOpen' => mem' = {})
    BY <1>1 DEF OpenBounds, BgBounds, IsOpen, NumbersInv
<1>15. RecoverBounds'
  <2>1. Below(Adds(Recs), nextFile') /\ nextFile < nextFile'
      BY <1>1, <1>2, <1>3, <1>4 DEF Below
  <2>2. lastSequence' \in Nat /\ lastSequence <= lastSequence' /\ opening.maxSequence <= lastSequence'
      BY <1>1, <1>2, MaxOfTwo
  <2>3. \A ns : \A x \in Contents(tables, ns) : x.seq \in Nat
      BY <1>2, EntriesAreEntries DEF EntryRecord
  <2>4. AtMost(Contents(tables, version), lastSequence') /\ AtMost(Contents(tables, opening.add), lastSequence')
      BY <1>2, <1>4, <2>2, <2>3 DEF AtMost
  <2>5. \A n \in DOMAIN logs' : n <= nextFile
      BY <1>2, <1>4, <1>5
  <2> QED BY <1>1, <1>4, <1>5, <1>6, <1>7, <1>8, <1>9, <1>12, <2>1, <2>4, <2>5 DEF RecoverBounds
<1> QED BY <1>12, <1>13, <1>14, <1>15 DEF NumbersInv, Consistent

\* SetCurrentFile and the deletions that follow: the new manifest names all that is kept, and
\* no entry is in memory yet.
LEMMA SetCurrentFileBounds == ASSUME FilesInv, FilesInv', NumbersInv, SetCurrentFile PROVE NumbersInv'
<1> DEFINE m == manifests[manifestNumber]
           e == m.recs[1]
           log == logfileNumber
           v == version \cup opening.add
<1>1. /\ phase = "current" /\ phase' = "open" /\ current' = manifestNumber
      /\ logs' = [k \in {n \in DOMAIN logs : n >= log} |-> logs[k]]
      /\ tables' = [k \in {n \in DOMAIN tables : n \in v} |-> tables[k]]
      /\ manifests' = [k \in {n \in DOMAIN manifests : n >= manifestNumber} |-> manifests[k]]
      /\ bg' = MaybeScheduleCompaction(bg, "open", FALSE, imm, version')
      /\ UNCHANGED <<mem, imm, logfileNumber, lastSequence, queue, writer>>
    BY DEF SetCurrentFile, DeleteObsoleteFiles, Keep, memVars, writeVars
<1>2. /\ current # 0 /\ current \in DOMAIN manifests /\ FilesTypeOK /\ DOMAIN logs \subseteq Nat /\ log \in Nat
      /\ manifestNumber \in Nat /\ manifestNumber # 0 /\ manifestNumber \in DOMAIN manifests /\ log \in DOMAIN logs
      /\ Len(m.recs) = 1 /\ e.add = v /\ lastSequence \in Nat
    BY <1>1 DEF FilesInv, RecoverInv, DiskInv, VersionTypeOK, FilesTypeOK, NewManifestInv
<1>3. m.recs \in Seq(EditRecord)
    BY <1>2 DEF FilesTypeOK, ManifestFile
<1>4. /\ version \subseteq Adds(Recs) /\ Contents(tables, opening.add) \subseteq InUse
      /\ AtMost(Contents(tables, version), lastSequence) /\ AtMost(Contents(tables, opening.add), lastSequence)
      /\ (\A n \in DOMAIN logs : n <= log) /\ logs[log].recs = <<>>
      /\ e.last = lastSequence /\ e.log = log /\ log < e.next
    BY <1>1 DEF NumbersInv, RecoverBounds
<1>5. bg = NoBg /\ imm = <<>> /\ queue = <<>> /\ mem = {}
    BY <1>1 DEF FilesInv, OnlyWhenOpen, IsOpen, NumbersInv
<1>6. Recs' = m.recs
  <2>1. manifestNumber >= manifestNumber
      BY <1>2
  <2>2. manifests'[manifestNumber] = manifests[manifestNumber]
      BY <1>1, <1>2, <2>1
  <2> QED BY <1>1, <2>2 DEF Recs
<1> HIDE DEF e
<1>7. Adds(m.recs) = v /\ SubSeq(m.recs, 1, 1) = m.recs /\ DOMAIN m.recs = {1} /\ m.recs[1] = e
  <2> DEFINE R == m.recs
  <2>1. R \in Seq(EditRecord) /\ Len(R) = 1
      BY <1>2, <1>3
  <2> HIDE DEF R
  <2>2. Adds(R) = R[1].add /\ SubSeq(R, 1, Len(R)) = R /\ DOMAIN R = 1 .. 1 /\ 1 .. 1 = {1}
      BY <2>1, ReplayOfOne, ReplayIsAdded
  <2> QED BY <1>2, <2>1, <2>2 DEF R, e
<1> HIDE DEF m
<1>8. Named' = v /\ Named = Adds(Recs) /\ Frozen = {} /\ Frozen' = {}
    BY <1>1, <1>2, <1>5, <1>6, <1>7, MemoryIsEntries DEF Named, Frozen
<1>9. Records(logs', Nat) = {} /\ DOMAIN logs' \subseteq {log}
  <2>1. \A n \in DOMAIN logs' : n = log /\ logs'[n] = logs[log]
      BY <1>1, <1>2, <1>4
  <2>2. EntriesOfRecs(<<>>) = {}
    <3>1. DOMAIN <<>> = {}
        OBVIOUS
    <3> QED BY <3>1 DEF EntriesOfRecs
  <2> QED BY <1>4, <2>1, <2>2 DEF Records
<1>10. Contents(tables', v) \subseteq Contents(tables, version) \cup Contents(tables, opening.add)
    BY <1>1 DEF Contents
<1>11. Contents(tables, version) \subseteq Contents(tables, Adds(Recs))
    BY <1>4, FewerFiles
<1>12. mem' = {}
    BY <1>1, <1>5
<1>13. InUse' = Contents(tables', v)
    BY <1>8, <1>9, <1>12 DEF InUse
<1>14. InUse' \subseteq InUse
    BY <1>4, <1>8, <1>10, <1>11, <1>13 DEF InUse
<1>15. AtMost(Contents(tables', v), lastSequence)
    BY <1>4, <1>10 DEF AtMost
<1>16. DiskBounds'
  <2>1. AtMost(Records(logs', Under(log)), lastSequence)
      BY <1>9 DEF AtMost, Records, Under
  <2>2. EditBounds(logs', tables', e, v)
      BY <1>4, <1>15, <2>1 DEF EditBounds
  <2> QED BY <1>6, <1>7, <2>2 DEF DiskBounds
<1>17. OpenBounds'
  <2>1. ~Logged' /\ Taken' = lastSequence
      BY <1>1, <1>5 DEF Logged, Taken
  <2>2. Settled' \subseteq InUse'
      BY FewerFiles DEF Settled, InUse
  <2>3. AtMost(InUse', Taken') /\ AtMost(Settled', lastSequence')
      BY <1>1, <1>13, <1>15, <2>1, <2>2 DEF AtMost
  <2>4. \A n \in DOMAIN logs' : n <= log
      BY <1>2, <1>9
  <2>5. log <= log
      BY <1>2
  <2> QED BY <1>1, <1>4, <1>6, <1>7, <2>3, <2>4, <2>5 DEF OpenBounds
<1>18. BgBounds'
  <2>1. (bg' = NoBg \/ bg' = [NoBg EXCEPT !.pc = "scheduled"])
    <3> HIDE DEF NoBg
    <3> QED BY <1>1, <1>5 DEF MaybeScheduleCompaction
  <2>2. bg'.pc \in {"none", "scheduled"} /\ DOMAIN bg'.merge = {}
      BY <2>1, ScheduleFacts
  <2> QED BY <2>2 DEF BgBounds
<1>19. RecoverBounds'
    BY <1>1 DEF RecoverBounds
<1> QED BY <1>12, <1>14, <1>16, <1>17, <1>18, <1>19 DEF NumbersInv, Consistent

-----------------------------------------------------------------------------
\* Initially nothing is written.
LEMMA NumbersInitially == ASSUME DBInit PROVE NumbersInv
<1> USE DEF DBInit
<1>1. DOMAIN <<>> = {}
    OBVIOUS
<1>2. InUse = {}
  <2>1. Records(logs, Nat) = {} /\ Frozen = {}
      BY <1>1 DEF Records, Frozen, ToSet
  <2>2. Contents(tables, Named) = {}
      BY <1>1 DEF Contents
  <2> QED BY <2>1, <2>2 DEF InUse
<1> QED BY <1>2 DEF NumbersInv, Consistent, DiskBounds, OpenBounds, BgBounds, RecoverBounds, IsOpen

\* Every step keeps the numbers in order.
LEMMA NumbersStep ==
    ASSUME NoTornWrites, FilesInv, FilesInv', NumbersInv, [DBNext]_dbVars
    PROVE  NumbersInv'
<1>1. CASE \/ \E w \in Writers, kind \in Kinds : EnterWrite(w, kind)
           \/ \E w \in Writers : WriteFails(w) \/ HasRoom(w) \/ WaitForRoom(w) \/ SwitchFails(w)
           \/ NewIterator \/ (\E v \in iters : CleanupIterator(v)) \/ Close
           \/ UNCHANGED dbVars
    BY <1>1, UsersBounds
<1>2. ASSUME NEW w \in Writers, SwitchMemTable(w) \/ AddRecord(w) \/ FinishWrite(w) PROVE NumbersInv'
  <2>1. writer[w].pc \in {"front", "log", "logged"}
      BY <1>2 DEF SwitchMemTable, AddRecord, FinishWrite
  <2>2. phase = "open"
      BY <2>1, AwakeIsHead DEF FilesInv, OnlyWhenOpen
  <2> QED BY <1>2, <2>2, SwitchBounds, AddRecordBounds, FinishWriteBounds
<1>3. CASE BackgroundStep
    BY <1>3, BeginBounds, BuildTableBounds, FinishMergeBounds, InstallBounds, AddManifestRecordBounds DEF BackgroundStep
<1>4. CASE OpenStep \/ CloseDone \/ ProcessCrash \/ MachineCrash
    BY <1>4, EndBounds, NewDBBounds, RecoverVersionsBounds, RecoverLogFileBounds, WriteNewManifestBounds,
       SetCurrentFileBounds DEF OpenStep
<1> QED BY <1>1, <1>2, <1>3, <1>4 DEF DBNext, WriterStep

\* The numbers are in order in every state, if no append is torn.
LEMMA NumbersInvariant == ASSUME NoTornWrites PROVE DBSpec => [](FilesInv /\ NumbersInv)
<1>1. DBInit => FilesInv /\ NumbersInv
    BY FilesInitially, NumbersInitially
<1>2. FilesInv /\ NumbersInv /\ [DBNext]_dbVars => FilesInv' /\ NumbersInv'
    BY FilesStep, NumbersStep
<1> QED BY <1>1, <1>2, PTL DEF DBSpec

\* Whatever fails, crashes or is retried, as long as no append is torn: two operations that a
\* reader of the database can find never have the same sequence number (WriteBatchInternal::
\* SetSequence in DBImpl::Write, SetLastSequence in DBImpl::Recover).
THEOREM SequencesStayUnique == ASSUME NoTornWrites PROVE DBSpec => []SequencesAreUnique
<1>1. FilesInv /\ NumbersInv => SequencesAreUnique
  <2> SUFFICES ASSUME FilesInv, NumbersInv, IsOpen
               PROVE  \A a, b \in mem \cup (UNION ToSet(imm)) \cup EntriesOf(version) : a.seq = b.seq => a.op = b.op
      BY DEF SequencesAreUnique, IsOpen
  <2>1. version \subseteq Named
      BY DEF FilesInv, OpenInv, Named
  <2>2. EntriesOf(version) = Contents(tables, version)
      BY DEF EntriesOf, Contents
  <2>3. Contents(tables, version) \subseteq Contents(tables, Named)
      BY <2>1, FewerFiles
  <2>4. mem \cup (UNION ToSet(imm)) \cup EntriesOf(version) \subseteq InUse
      BY <2>2, <2>3 DEF InUse, Frozen
  <2> QED BY <2>4 DEF NumbersInv, Consistent
<1> QED BY <1>1, NumbersInvariant, PTL

-----------------------------------------------------------------------------
\* Writes that were promised.  What is on disk of a log: all of it while the machine runs,
\* what was synced after it crashed.
Part(f, synced) == SubSeq(f.recs, 1, IF synced THEN f.synced ELSE Len(f.recs))
Over(n) == {m \in Nat : m >= n}
LogEntries(ls, ns, synced) == UNION {EntriesOfRecs(Part(ls[n], synced)) : n \in ns \cap DOMAIN ls}
OpsOf(S) == {e.op : e \in S}

\* What a recovery finds that reads the first k edits of a manifest.
Found(ls, ts, recs, k, synced) ==
    Contents(ts, Replay(SubSeq(recs, 1, k))) \cup LogEntries(ls, Over(recs[k].log), synced)

\* A recovery finds a promised write, and whatever a crash of the machine leaves one that
\* asked for sync.
IsFound(o, ls, ts, m) ==
    /\ o.op \in OpsOf(Found(ls, ts, m.recs, Len(m.recs), FALSE))
    /\ o.sync => \A k \in DOMAIN m.recs : k >= m.synced => o.op \in OpsOf(Found(ls, ts, m.recs, k, TRUE))
DiskKeeps ==
    owed # {} => /\ created
                 /\ \A o \in owed : IsFound(o, logs, tables, manifests[current])

\* An open database: what the logs that still count hold is in memory, and what an edit takes
\* away it also adds.
SyncFailed == Logged /\ writer[queue[1]].error = "sync"
OpenKeeps ==
    IsOpen =>
        /\ created
        /\ \A o \in owed : o.op \in Visible
        /\ Recs[Len(Recs)].log >= logNumber
        /\ Records(logs, Over(logNumber) \ {logfileNumber}) \subseteq Frozen
        /\ ~bgError /\ ~SyncFailed => Records(logs, {logfileNumber}) \subseteq mem
EditKeeps ==
    bg.pc \in {"edit", "applied"} =>
        /\ bg.edit.del = {} => imm # <<>> /\ bg.edit.log = logfileNumber /\ Frozen \subseteq Contents(tables, bg.edit.add)
        /\ bg.edit.del # {} => /\ bg.edit.log = logNumber
                               /\ Contents(tables, bg.edit.del) \subseteq Contents(tables, bg.edit.add)
        /\ bg.pc = "applied" /\ ~bg.failed => Recs[Len(Recs)] = bg.edit

\* The group at work: one that is not synced promises no sync write, and its record is in the
\* log and the memtable.
GroupKeeps ==
    queue # <<>> /\ writer[queue[1]].pc \in Writing =>
        /\ \A i \in DOMAIN group : writer[group[i]].kind = "sync" => writer[queue[1]].kind = "sync"
        /\ Logged /\ writer[queue[1]].error = "none" =>
              /\ EntriesOfRecord(NewRecord) \subseteq mem
              /\ EntriesOfRecord(NewRecord) \subseteq EntriesOfRecs(Part(logs[logfileNumber], FALSE))
              /\ writer[queue[1]].kind = "sync" =>
                    EntriesOfRecord(NewRecord) \subseteq EntriesOfRecs(Part(logs[logfileNumber], TRUE))

\* A database that is being opened: what was found is in tables, or in logs still to replay.
RecoverKeeps ==
    /\ phase = "recovering" /\ opening.failed => opening.todo = {}
    /\ phase = "current" => opening.todo = {}
    /\ phase = "current" \/ (phase = "recovering" /\ ~opening.failed) =>
          \A o \in owed : o.op \in OpsOf(Contents(tables, version \cup opening.add) \cup Records(logs, opening.todo))

KeptInv == DiskKeeps /\ OpenKeeps /\ EditKeeps /\ GroupKeeps /\ RecoverKeeps

\* Only the last log may fail to be replayed: the error of another one is lost in DBImpl::Recover.
NoSkippedLogs == "recover" \notin Faults

-----------------------------------------------------------------------------
\* Files that hold at least what they held.
MoreLogs(ls, ls2, ns) ==
    \A n \in ns \cap DOMAIN ls :
        n \in DOMAIN ls2 /\ \A s \in BOOLEAN : EntriesOfRecs(Part(ls[n], s)) \subseteq EntriesOfRecs(Part(ls2[n], s))
MoreContents(ts, ts2, ns) ==
    \A n \in ns \cap DOMAIN ts : n \in DOMAIN ts2 /\ ts[n].entries \subseteq ts2[n].entries

\* What is on disk for good of a log is part of it.
LEMMA PartFacts ==
    ASSUME NEW f \in LogFile
    PROVE  Part(f, FALSE) = f.recs /\ EntriesOfRecs(Part(f, TRUE)) \subseteq EntriesOfRecs(Part(f, FALSE))
<1>1. f.recs \in Seq(LogRecord) /\ f.synced \in Nat /\ f.synced <= Len(f.recs)
    BY DEF LogFile
<1> DEFINE R == f.recs
           n == f.synced
<1>2. R \in Seq(LogRecord) /\ n \in Nat /\ n <= Len(R) /\ Len(R) \in Nat
    BY <1>1
<1>3. Part(f, TRUE) = SubSeq(R, 1, n) /\ Part(f, FALSE) = SubSeq(R, 1, Len(R))
    BY DEF Part
<1> HIDE DEF R, n
<1>4. SubSeq(R, 1, Len(R)) = R
    BY <1>2
<1>5. \A i \in DOMAIN SubSeq(R, 1, n) : i \in DOMAIN R /\ SubSeq(R, 1, n)[i] = R[i]
    BY <1>2
<1>6. EntriesOfRecs(SubSeq(R, 1, n)) \subseteq EntriesOfRecs(R)
    BY <1>5 DEF EntriesOfRecs
<1> QED BY <1>3, <1>4, <1>6 DEF R

\* The entries of all of a set of logs are their records.
LEMMA AllOfTheLogs ==
    ASSUME FilesTypeOK, NEW ns
    PROVE  LogEntries(logs, ns, FALSE) = Records(logs, ns) /\ LogEntries(logs, ns, TRUE) \subseteq Records(logs, ns)
<1>1. \A n \in DOMAIN logs : logs[n] \in LogFile
    BY DEF FilesTypeOK
<1>2. \A n \in DOMAIN logs : /\ Part(logs[n], FALSE) = logs[n].recs
                             /\ EntriesOfRecs(Part(logs[n], TRUE)) \subseteq EntriesOfRecs(logs[n].recs)
    BY <1>1, PartFacts
<1> QED BY <1>2 DEF LogEntries, Records

\* More is found where more is.
LEMMA FoundStays ==
    ASSUME NEW ls, NEW ls2, NEW ts, NEW ts2, NEW recs, NEW k, NEW s \in BOOLEAN,
           MoreLogs(ls, ls2, Over(recs[k].log)), MoreContents(ts, ts2, Replay(SubSeq(recs, 1, k)))
    PROVE  Found(ls, ts, recs, k, s) \subseteq Found(ls2, ts2, recs, k, s)
<1>1. Contents(ts, Replay(SubSeq(recs, 1, k))) \subseteq Contents(ts2, Replay(SubSeq(recs, 1, k)))
    BY DEF MoreContents, Contents
<1>2. LogEntries(ls, Over(recs[k].log), s) \subseteq LogEntries(ls2, Over(recs[k].log), s)
    BY DEF MoreLogs, LogEntries
<1> QED BY <1>1, <1>2 DEF Found

\* A database that was promised to someone exists.
LEMMA OwedFacts ==
    ASSUME FilesInv, DiskKeeps, owed # {}
    PROVE  /\ created /\ current # 0 /\ current \in DOMAIN manifests /\ FilesTypeOK
           /\ Recs \in Seq(EditRecord) /\ Len(Recs) \in Nat /\ DOMAIN Recs = 1 .. Len(Recs) /\ manifests[current].recs = Recs
           /\ manifests[current].synced \in 1 .. Len(Recs) /\ Len(Recs) \in DOMAIN Recs
           /\ \A k \in DOMAIN Recs : Replay(SubSeq(Recs, 1, k)) \subseteq Adds(Recs)
<1>1. created /\ current # 0 /\ current \in DOMAIN manifests /\ FilesTypeOK /\ manifests[current].synced >= 1
    BY DEF FilesInv, DiskInv, DiskKeeps
<1>2. Recs \in Seq(EditRecord) /\ Len(Recs) \in Nat /\ manifests[current].synced \in Nat
      /\ manifests[current].synced <= Len(Recs) /\ manifests[current].recs = Recs
    BY <1>1, NumbersOfRecs DEF Recs
<1>3. manifests[current].synced \in 1 .. Len(Recs) /\ Len(Recs) \in 1 .. Len(Recs)
    BY <1>1, <1>2
<1>4. DOMAIN Recs = 1 .. Len(Recs)
    BY <1>2
<1>5. \A k \in DOMAIN Recs : Replay(SubSeq(Recs, 1, k)) \subseteq Adds(Recs)
    BY <1>2, <1>4, PrefixIsAdded
<1> QED BY <1>1, <1>2, <1>3, <1>4, <1>5

\* What is promised stays on disk while the manifest stays and no file that it names loses
\* anything.
LEMMA DiskKeepsOn ==
    ASSUME FilesInv, DiskKeeps, owed' = owed,
           owed # {} => /\ current' = current /\ manifests'[current] = manifests[current] /\ created' = created
                        /\ \A k \in DOMAIN Recs : MoreLogs(logs, logs', Over(Recs[k].log))
                        /\ MoreContents(tables, tables', Adds(Recs))
    PROVE  DiskKeeps'
<1> SUFFICES ASSUME owed # {}, NEW o \in owed PROVE created' /\ IsFound(o, logs', tables', manifests'[current'])
    BY DEF DiskKeeps
<1> DEFINE m == manifests[current]
<1>1. /\ created /\ m.recs = Recs /\ Len(Recs) \in DOMAIN Recs
      /\ \A k \in DOMAIN Recs : Replay(SubSeq(Recs, 1, k)) \subseteq Adds(Recs)
    BY OwedFacts
<1>2. IsFound(o, logs, tables, m)
    BY DEF DiskKeeps
<1>3. ASSUME NEW k \in DOMAIN Recs, NEW s \in BOOLEAN
      PROVE  Found(logs, tables, Recs, k, s) \subseteq Found(logs', tables', Recs, k, s)
  <2>1. MoreContents(tables, tables', Replay(SubSeq(Recs, 1, k)))
      BY <1>1 DEF MoreContents
  <2> QED BY <2>1, FoundStays
<1> HIDE DEF m
<1>4. IsFound(o, logs', tables', m)
    BY <1>1, <1>2, <1>3 DEF IsFound, OpsOf
<1> QED BY <1>1, <1>4 DEF m

\* More is visible when more is in memory and in the version.
LEMMA VisibleStays ==
    ASSUME FilesInv, lastSequence' \in Nat, lastSequence <= lastSequence',
           mem \cup Frozen \cup Contents(tables, version) \subseteq mem' \cup Frozen' \cup Contents(tables', version')
    PROVE  Visible \subseteq Visible'
<1>1. mem \cup Frozen \cup Contents(tables, version) \subseteq EntryRecord /\ lastSequence \in Nat
    BY MemoryIsEntries, EntriesAreEntries DEF FilesInv, MemoryTypeOK, VersionTypeOK
<1>2. EntriesOf(version) = Contents(tables, version) /\ EntriesOf(version)' = Contents(tables', version')
    BY DEF EntriesOf, Contents
<1>3. \A x \in EntryRecord : x.seq <= lastSequence => x.seq <= lastSequence'
    BY <1>1 DEF EntryRecord
<1> QED BY <1>1, <1>2, <1>3 DEF Visible, Frozen

\* The group at work stays as it is.
LEMMA GroupKeepsOn ==
    ASSUME FilesInv, GroupKeeps, UNCHANGED <<mem, logfileNumber, lastSequence, group>>,
           logfileNumber \in DOMAIN logs => logs'[logfileNumber] = logs[logfileNumber],
           \A i \in 1 .. Len(group) : /\ writer'[group[i]].kind = writer[group[i]].kind
                                      /\ writer'[group[i]].op = writer[group[i]].op,
           queue' # <<>> /\ writer'[queue'[1]].pc \in Writing =>
               queue # <<>> /\ queue'[1] = queue[1] /\ writer'[queue[1]] = writer[queue[1]]
    PROVE  GroupKeeps'
<1> SUFFICES ASSUME queue' # <<>>, writer'[queue'[1]].pc \in Writing
             PROVE  /\ \A i \in DOMAIN group : writer'[group[i]].kind = "sync" => writer'[queue'[1]].kind = "sync"
                    /\ Logged' /\ writer'[queue'[1]].error = "none" =>
                          /\ EntriesOfRecord(NewRecord') \subseteq mem
                          /\ EntriesOfRecord(NewRecord') \subseteq EntriesOfRecs(Part(logs'[logfileNumber], FALSE))
                          /\ writer'[queue'[1]].kind = "sync" =>
                                EntriesOfRecord(NewRecord') \subseteq EntriesOfRecs(Part(logs'[logfileNumber], TRUE))
    BY DEF GroupKeeps
<1>1. queue # <<>> /\ queue'[1] = queue[1] /\ writer'[queue[1]] = writer[queue[1]]
    OBVIOUS
<1>2. NewRecord' = NewRecord /\ (Logged' => Logged)
    BY <1>1, GroupOpsStay DEF NewRecord, Logged
<1>3. DOMAIN group = 1 .. Len(group)
    BY DEF FilesInv, WritersInv, QueueTypeOK
<1>4. logfileNumber \in DOMAIN logs
    BY DEF FilesInv, OnlyWhenOpen, OpenInv, IsOpen
<1> QED BY <1>1, <1>2, <1>3, <1>4 DEF GroupKeeps

\* No group, nothing to keep (the end of DBImpl::Write).
LEMMA NoGroupKeeps == ASSUME WritersInv', group' = <<>> PROVE GroupKeeps' /\ ~SyncFailed'
<1>1. ~(queue' # <<>> /\ writer'[queue'[1]].pc \in Writing)
  <2> SUFFICES ASSUME queue' # <<>>, writer'[queue'[1]].pc \in Writing PROVE FALSE
      OBVIOUS
  <2>1. Len(group') \in 1 .. Len(queue')
      BY DEF WritersInv, GroupOfHead
  <2>2. Len(group') = 0
      OBVIOUS
  <2> QED BY <2>1, <2>2
<1> QED BY <1>1 DEF GroupKeeps, SyncFailed, Logged, Writing

\* A step of an open database that at most adds to the tables.
LEMMA KeptWhileOpen ==
    ASSUME FilesInv, KeptInv, IsOpen, IsOpen', EditKeeps', GroupKeeps',
           UNCHANGED <<logs, manifests, current, created, owed, logNumber, logfileNumber, lastSequence, mem, imm, version>>,
           MoreContents(tables, tables', Adds(Recs)),
           ~bgError' /\ ~SyncFailed' => ~bgError /\ ~SyncFailed
    PROVE  KeptInv'
<1>1. DiskKeeps'
  <2>1. \A ns : MoreLogs(logs, logs', ns)
      BY DEF MoreLogs
  <2> QED BY <2>1, DiskKeepsOn DEF KeptInv
<1>2. Frozen' = Frozen /\ Recs' = Recs
    BY DEF Frozen, Recs
<1>3. Visible \subseteq Visible'
  <2>1. version \subseteq Adds(Recs) /\ lastSequence \in Nat /\ lastSequence <= lastSequence
      BY DEF FilesInv, OpenInv, VersionTypeOK
  <2>2. Contents(tables, version) \subseteq Contents(tables', version)
      BY <2>1 DEF MoreContents, Contents
  <2> QED BY <1>2, <2>1, <2>2, VisibleStays
<1>4. OpenKeeps'
    BY <1>2, <1>3 DEF KeptInv, OpenKeeps
<1>5. RecoverKeeps'
    BY DEF RecoverKeeps, IsOpen
<1> QED BY <1>1, <1>4, <1>5 DEF KeptInv

\* The edit under way stays good.
LEMMA EditKeepsOn ==
    ASSUME EditKeeps, UNCHANGED <<tables, manifests, current, imm, logfileNumber, logNumber, bg>>
    PROVE  EditKeeps'
<1>1. Frozen' = Frozen /\ Recs' = Recs
    BY DEF Frozen, Recs
<1> QED BY <1>1 DEF EditKeeps

\* BuildBatchGroup: no sync write in a group that is not synced.
LEMMA StartGroupKeeps ==
    ASSUME WritersInv, NEW w \in Writers, writer[w].pc = "front", StartGroup(w)
    PROVE  GroupKeeps' /\ ~SyncFailed'
<1>1. queue # <<>> /\ w = queue[1] /\ Len(queue) \in Nat \ {0}
    BY AwakeIsHead
<1>2. /\ group' = BuildBatchGroup /\ queue' = queue /\ writer' = [writer EXCEPT ![w].pc = "log"]
      /\ writer \in [Writers -> WriterRecord]
    BY DEF StartGroup, WritersInv, QueueTypeOK
<1>3. \A x \in Writers : writer'[x].kind = writer[x].kind
    BY <1>2 DEF WriterRecord
<1>4. writer'[w].pc = "log"
    BY <1>2 DEF WriterRecord
<1>5. /\ BuildBatchGroup \in Seq(Writers) /\ Len(BuildBatchGroup) \in 1 .. Len(queue)
      /\ \A i \in 1 .. Len(BuildBatchGroup) : BuildBatchGroup[i] = queue[i]
    BY <1>1, GroupIsPrefix
<1>6. \A i \in 1 .. Len(BuildBatchGroup) : writer[queue[i]].kind = "sync" => writer[queue[1]].kind = "sync"
  <2> DEFINE Batches(n) == Cardinality({i \in 1 .. n : writer[queue[i]].kind # "null"})
             Joins(i) == /\ writer[queue[i]].kind = "sync" => writer[queue[1]].kind = "sync"
                         /\ Batches(i) <= MaxGroup
             T == {m \in 1 .. Len(queue) : \A i \in 2 .. m : Joins(i)}
  <2>1. BuildBatchGroup = SubSeq(queue, 1, Max(T))
      BY DEF BuildBatchGroup
  <2>2. Max(T) \in T
    <3> HIDE DEF Joins
    <3>1. 1 \in T /\ T \in SUBSET (0 .. Len(queue)) /\ Len(queue) \in Nat
        BY <1>1
    <3>2. T # {}
        BY <3>1
    <3> HIDE DEF T
    <3> QED BY <3>1, <3>2, MaxOfNaturals
  <2>3. Max(T) \in 1 .. Len(queue) /\ \A i \in 2 .. Max(T) : writer[queue[i]].kind = "sync" => writer[queue[1]].kind = "sync"
      BY <2>2
  <2> HIDE DEF T
  <2>4. Len(BuildBatchGroup) = Max(T)
      BY <1>1, <2>1, <2>3 DEF WritersInv, QueueTypeOK
  <2>5. \A i \in 1 .. Max(T) : i = 1 \/ i \in 2 .. Max(T)
      BY <1>1, <2>3
  <2> QED BY <2>3, <2>4, <2>5
<1>7. \A i \in DOMAIN group' : writer'[group'[i]].kind = "sync" => writer'[queue'[1]].kind = "sync"
  <2>1. DOMAIN group' = 1 .. Len(BuildBatchGroup) /\ \A i \in 1 .. Len(BuildBatchGroup) : BuildBatchGroup[i] \in Writers
      BY <1>2, <1>5
  <2> QED BY <1>1, <1>2, <1>3, <1>5, <1>6, <2>1
<1>8. ~Logged'
    BY <1>1, <1>2, <1>4 DEF Logged
<1> QED BY <1>7, <1>8 DEF GroupKeeps, SyncFailed

\* Threads that enter Write, that find no room or no log file, and users of the database that
\* do not write.
LEMMA UsersKept ==
    ASSUME FilesInv, FilesInv', KeptInv,
           \/ \E w \in Writers, kind \in Kinds : EnterWrite(w, kind)
           \/ \E w \in Writers : WriteFails(w) \/ HasRoom(w) \/ WaitForRoom(w) \/ SwitchFails(w)
           \/ NewIterator \/ (\E v \in iters : CleanupIterator(v)) \/ Close
    PROVE  KeptInv'
<1> DEFINE quiet == UNCHANGED <<logs, tables, manifests, current, created, owed, logNumber, logfileNumber, lastSequence,
                                mem, imm, version, bg, bgError>>
<1>1. quiet
  <2>1. CASE \E w \in Writers, kind \in Kinds : EnterWrite(w, kind)
      BY <2>1 DEF EnterWrite, files, memVars, versionVars
  <2>2. CASE \E w \in Writers : WriteFails(w) \/ HasRoom(w) \/ WaitForRoom(w) \/ SwitchFails(w)
      BY <2>2 DEF WriteFails, HasRoom, WaitForRoom, SwitchFails, Answer, StartGroup, files, memVars, versionVars, history
  <2>3. CASE NewIterator \/ (\E v \in iters : CleanupIterator(v)) \/ Close
      BY <2>3 DEF NewIterator, CleanupIterator, Close, files, memVars, versionVars, history
  <2> QED BY <2>1, <2>2, <2>3
<1>2. IsOpen /\ IsOpen'
  <2>1. CASE \E w \in Writers, kind \in Kinds : EnterWrite(w, kind)
      BY <2>1 DEF EnterWrite, IsOpen
  <2>2. CASE \E w \in Writers : WriteFails(w) \/ HasRoom(w) \/ WaitForRoom(w) \/ SwitchFails(w)
    <3>1. PICK w \in Writers : writer[w].pc = "front" /\ phase' = phase
        BY <2>2 DEF WriteFails, HasRoom, WaitForRoom, SwitchFails
    <3> QED BY <3>1, AwakeIsHead DEF FilesInv, OnlyWhenOpen, IsOpen
  <2>3. CASE NewIterator \/ (\E v \in iters : CleanupIterator(v)) \/ Close
      BY <2>3 DEF NewIterator, CleanupIterator, Close, FilesInv, OnlyWhenOpen, IsOpen
  <2> QED BY <2>1, <2>2, <2>3
<1>3. EditKeeps'
    BY <1>1, EditKeepsOn DEF KeptInv
<1>4. ASSUME GroupKeeps', SyncFailed => SyncFailed' PROVE KeptInv'
  <2>1. MoreContents(tables, tables', Adds(Recs))
      BY <1>1 DEF MoreContents
  <2> QED BY <1>1, <1>2, <1>3, <1>4, <2>1, KeptWhileOpen
<1>5. CASE \E w \in Writers, kind \in Kinds : EnterWrite(w, kind)
  <2>1. PICK w \in Writers, kind \in Kinds : EnterWrite(w, kind)
      BY <1>5
  <2> DEFINE r == [pc |-> IF queue = <<>> THEN "front" ELSE "queue", kind |-> kind, op |-> ops + 1,
                   error |-> "none"]
  <2>2. /\ queue' = Append(queue, w) /\ writer' = [writer EXCEPT ![w] = r] /\ group' = group /\ writer[w].pc = "idle"
        /\ r.pc = IF queue = <<>> THEN "front" ELSE "queue"
      BY <2>1 DEF EnterWrite
  <2> HIDE DEF r
  <2>3. writer \in [Writers -> WriterRecord] /\ queue \in Seq(Writers) /\ group \in Seq(Writers)
      BY DEF FilesInv, WritersInv, QueueTypeOK
  <2>4. \A x \in Writers : writer'[x] = IF x = w THEN r ELSE writer[x]
      BY <2>2, <2>3
  <2>5. \A i \in 1 .. Len(queue) : queue[i] \in Writers /\ queue[i] # w
    <3>1. \A i \in 1 .. Len(queue) : queue[i] \in Writers
        BY <2>3
    <3>2. \A i \in 1 .. Len(queue) : writer[queue[i]].pc # "idle"
      <4>1. 1 \in 1 .. Len(queue) => writer[queue[1]].pc # "idle"
        <5>1. 1 \in 1 .. Len(queue) => queue # <<>>
            BY <2>3
        <5> QED BY <5>1 DEF FilesInv, WritersInv, HeadIsAwake
      <4>2. \A i \in 1 .. Len(queue) : i = 1 \/ i \in 2 .. Len(queue)
          BY <2>3
      <4> QED BY <4>1, <4>2 DEF FilesInv, WritersInv, OthersSleep
    <3> QED BY <2>2, <3>1, <3>2
  <2>6. \A i \in 1 .. Len(group) : writer'[group[i]] = writer[group[i]]
    <3>1. \A i \in 1 .. Len(group) : group[i] \in Writers /\ writer[group[i]].pc # "idle"
      <4>1. CASE queue # <<>> /\ writer[queue[1]].pc \in Writing
        <5>1. Len(group) \in 1 .. Len(queue) /\ \A i \in 1 .. Len(group) : group[i] = queue[i]
            BY <4>1 DEF FilesInv, WritersInv, GroupOfHead
        <5>2. \A i \in 1 .. Len(group) : i \in 1 .. Len(queue)
            BY <2>3, <5>1
        <5>3. \A i \in 1 .. Len(queue) : writer[queue[i]].pc # "idle"
          <6>1. \A i \in 1 .. Len(queue) : i = 1 \/ i \in 2 .. Len(queue)
              BY <2>3
          <6> QED BY <4>1, <6>1 DEF FilesInv, WritersInv, OthersSleep, HeadIsAwake
        <5> QED BY <2>5, <5>1, <5>2, <5>3
      <4>2. CASE ~(queue # <<>> /\ writer[queue[1]].pc \in Writing)
        <5>1. group = <<>>
            BY <4>2 DEF FilesInv, WritersInv, GroupOfHead
        <5> QED BY <5>1
      <4> QED BY <4>1, <4>2
    <3> QED BY <2>2, <2>4, <3>1
  <2>7. CASE queue = <<>>
    <3>1. queue' = <<w>> /\ writer'[queue'[1]].pc = "front"
        BY <2>2, <2>4, <2>7
    <3>2. GroupKeeps'
        BY <3>1 DEF GroupKeeps, Writing
    <3> QED BY <1>4, <2>7, <3>2 DEF SyncFailed, Logged
  <2>8. CASE queue # <<>>
    <3>1. queue' # <<>> /\ queue'[1] = queue[1] /\ 1 \in 1 .. Len(queue)
        BY <2>2, <2>3, <2>8
    <3>2. writer'[queue[1]] = writer[queue[1]]
        BY <2>4, <2>5, <3>1
    <3>3. GroupKeeps'
        BY <1>1, <2>2, <2>6, <2>8, <3>1, <3>2, GroupKeepsOn DEF KeptInv
    <3> QED BY <1>4, <2>8, <3>1, <3>2, <3>3 DEF SyncFailed, Logged
  <2> QED BY <2>7, <2>8
<1>6. ASSUME NEW w \in Writers, WriteFails(w) \/ HasRoom(w) \/ WaitForRoom(w) \/ SwitchFails(w) PROVE KeptInv'
  <2>1. writer[w].pc = "front"
      BY <1>6 DEF WriteFails, HasRoom, WaitForRoom, SwitchFails
  <2>2. queue # <<>> /\ w = queue[1]
      BY <2>1, AwakeIsHead DEF FilesInv
  <2>3. ~SyncFailed
      BY <2>1, <2>2 DEF SyncFailed, Logged
  <2>4. GroupKeeps'
    <3>1. CASE WriteFails(w) \/ SwitchFails(w)
      <4>1. group' = <<>>
          BY <3>1 DEF WriteFails, SwitchFails, Answer
      <4> QED BY <4>1, NoGroupKeeps DEF FilesInv
    <3>2. CASE HasRoom(w)
      <4>1. StartGroup(w)
          BY <3>2 DEF HasRoom
      <4> QED BY <2>1, <4>1, StartGroupKeeps DEF FilesInv
    <3>3. CASE WaitForRoom(w)
      <4>1. group' = group
          BY <3>3 DEF WaitForRoom
      <4>2. group = <<>>
          BY <2>1, <2>2 DEF FilesInv, WritersInv, GroupOfHead, Writing
      <4> QED BY <4>1, <4>2, NoGroupKeeps DEF FilesInv
    <3> QED BY <1>6, <3>1, <3>2, <3>3
  <2> QED BY <1>4, <2>3, <2>4
<1>7. CASE NewIterator \/ (\E v \in iters : CleanupIterator(v)) \/ Close
  <2>1. UNCHANGED <<queue, group, writer>>
      BY <1>7 DEF NewIterator, CleanupIterator, Close, writeVars
  <2>2. GroupKeeps'
      BY <1>1, <2>1, GroupKeepsOn DEF KeptInv
  <2> QED BY <1>4, <2>1, <2>2 DEF SyncFailed, Logged
<1> QED BY <1>5, <1>6, <1>7

\* Nothing happens.
LEMMA StutterKept == ASSUME FilesInv, KeptInv, UNCHANGED dbVars PROVE KeptInv'
<1>1. /\ UNCHANGED <<logs, tables, manifests, current, created, owed, logNumber, logfileNumber, lastSequence,
                     mem, imm, version, bg, bgError, queue, group, writer, phase, opening>>
    BY DEF dbVars, files, memVars, versionVars, writeVars, history
<1>2. Frozen' = Frozen /\ Recs' = Recs /\ Visible' = Visible /\ (SyncFailed' <=> SyncFailed)
    BY <1>1 DEF Frozen, Recs, Visible, EntriesOf, SyncFailed, Logged
<1>3. DiskKeeps'
  <2>1. \A ns : MoreLogs(logs, logs', ns) /\ MoreContents(tables, tables', ns)
      BY <1>1 DEF MoreLogs, MoreContents
  <2> QED BY <1>1, <2>1, DiskKeepsOn DEF KeptInv
<1>4. OpenKeeps'
    BY <1>1, <1>2 DEF KeptInv, OpenKeeps, IsOpen
<1>5. EditKeeps'
    BY <1>1, EditKeepsOn DEF KeptInv
<1>6. GroupKeeps'
    BY <1>1, GroupKeepsOn DEF KeptInv
<1>7. RecoverKeeps'
    BY <1>1 DEF KeptInv, RecoverKeeps
<1> QED BY <1>3, <1>4, <1>5, <1>6, <1>7 DEF KeptInv

\* The old memtable and its log wait for the flush together (MakeRoomForWrite).
LEMMA SwitchKept ==
    ASSUME FilesInv, FilesInv', NumbersInv, KeptInv, NEW w \in Writers, SwitchMemTable(w)
    PROVE  KeptInv'
<1> DEFINE new == [recs |-> <<>>, synced |-> 0]
<1>1. /\ writer[w].pc = "front" /\ ~bgError
      /\ logs' = Put(logs, nextFile, new) /\ logfileNumber' = nextFile
      /\ imm = <<>> /\ imm' = <<mem>> /\ mem' = {}
      /\ bg' = MaybeScheduleCompaction(bg, phase, bgError, imm', version)
      /\ IF writer[w].kind = "null" THEN Answer(<<w>>, TRUE) ELSE StartGroup(w)
      /\ UNCHANGED <<tables, manifests, current, created, phase, opening, version, lastSequence, logNumber, bgError>>
    BY DEF SwitchMemTable
<1>2. queue # <<>> /\ w = queue[1] /\ phase = "open" /\ ~SyncFailed
    BY <1>1, AwakeIsHead DEF FilesInv, OnlyWhenOpen, SyncFailed, Logged
<1>3. /\ DOMAIN logs' = DOMAIN logs \cup {nextFile} /\ logs'[nextFile] = new
      /\ \A n \in DOMAIN logs : n # nextFile => logs'[n] = logs[n]
    BY <1>1 DEF Put
<1>4. EntriesOfRecs(new.recs) = {}
  <2>1. DOMAIN <<>> = {}
      OBVIOUS
  <2> QED BY <2>1 DEF EntriesOfRecs
<1> HIDE DEF new
<1>5. Recs' = Recs /\ IsOpen /\ IsOpen'
    BY <1>1, <1>2 DEF Recs, IsOpen
<1>6. nextFile \notin DOMAIN logs /\ DOMAIN logs \subseteq Nat /\ nextFile \in Nat
    BY <1>5 DEF FilesInv, VersionTypeOK, OpenInv, FilesTypeOK, NumbersInv, OpenBounds
<1>7. Frozen = {} /\ Frozen' = mem
    BY <1>1, MemoryIsEntries DEF Frozen, ToSet
<1>8. owed' = owed
  <2>1. CASE writer[w].kind = "null"
    <3>1. owed' = owed \cup {[op |-> writer[x].op, sync |-> writer[x].kind = "sync"] :
                                 x \in {y \in ToSet(<<w>>) : writer[y].kind # "null"}}
        BY <1>1, <2>1 DEF Answer
    <3>2. ToSet(<<w>>) = {w}
        BY DEF ToSet
    <3> QED BY <2>1, <3>1, <3>2
  <2>2. CASE writer[w].kind # "null"
      BY <1>1, <2>2 DEF StartGroup
  <2> QED BY <2>1, <2>2
<1>9. DiskKeeps'
  <2>1. \A ns : MoreLogs(logs, logs', ns) /\ MoreContents(tables, tables', ns)
      BY <1>1, <1>3, <1>6 DEF MoreLogs, MoreContents
  <2> QED BY <1>1, <1>8, <2>1, DiskKeepsOn DEF KeptInv
<1>10. OpenKeeps'
  <2>1. Visible \subseteq Visible'
    <3>1. lastSequence' \in Nat /\ lastSequence <= lastSequence'
        BY <1>1 DEF FilesInv, VersionTypeOK
    <3> QED BY <1>1, <1>7, <3>1, VisibleStays
  <2>2. Records(logs, Over(logNumber) \ {logfileNumber}) \subseteq {} /\ Records(logs, {logfileNumber}) \subseteq mem
      BY <1>1, <1>2, <1>5, <1>7 DEF KeptInv, OpenKeeps
  <2>3. Records(logs', Over(logNumber) \ {nextFile}) \subseteq Frozen'
    <3>1. Records(logs', Over(logNumber) \ {nextFile}) \subseteq Records(logs, Over(logNumber))
        BY <1>3 DEF Records
    <3>2. Records(logs, Over(logNumber)) \subseteq
              Records(logs, Over(logNumber) \ {logfileNumber}) \cup Records(logs, {logfileNumber})
        BY DEF Records
    <3> QED BY <1>7, <2>2, <3>1, <3>2
  <2>4. Records(logs', {nextFile}) = {}
      BY <1>3, <1>4 DEF Records
  <2> QED BY <1>1, <1>5, <1>8, <2>1, <2>3, <2>4 DEF KeptInv, OpenKeeps
<1>11. EditKeeps'
  <2>1. CASE bg' = [NoBg EXCEPT !.pc = "scheduled"]
    <3>1. bg'.pc = "scheduled"
        BY <2>1, ScheduleFacts
    <3> QED BY <3>1 DEF EditKeeps
  <2>2. CASE bg' = bg
      BY <1>1, <1>5, <2>2 DEF KeptInv, EditKeeps
  <2> QED BY <1>1, <2>1, <2>2, ScheduleFacts
<1>12. GroupKeeps'
  <2>1. CASE writer[w].kind = "null"
    <3>1. group' = <<>>
        BY <1>1, <2>1 DEF Answer
    <3> QED BY <3>1, NoGroupKeeps DEF FilesInv
  <2>2. CASE writer[w].kind # "null"
      BY <1>1, <2>2, StartGroupKeeps DEF FilesInv
  <2> QED BY <2>1, <2>2
<1>13. RecoverKeeps'
    BY <1>1, <1>2 DEF RecoverKeeps
<1> QED BY <1>9, <1>10, <1>11, <1>12, <1>13 DEF KeptInv

\* What an append adds to a log: nothing is lost, and a sync makes all of it last.
LEMMA PartsOfAppend ==
    ASSUME NEW f \in LogFile, NEW g \in LogFile, NEW r \in LogRecord, g.recs = Append(f.recs, r),
           g.synced = f.synced \/ g.synced = Len(g.recs)
    PROVE  /\ \A s \in BOOLEAN : EntriesOfRecs(Part(f, s)) \subseteq EntriesOfRecs(Part(g, s))
           /\ EntriesOfRecs(Part(g, FALSE)) = EntriesOfRecs(Part(f, FALSE)) \cup EntriesOfRecord(r)
           /\ g.synced = Len(g.recs) => EntriesOfRecord(r) \subseteq EntriesOfRecs(Part(g, TRUE))
<1>1. f.recs \in Seq(LogRecord) /\ f.synced \in Nat /\ f.synced <= Len(f.recs)
    BY DEF LogFile
<1>2. Part(f, FALSE) = f.recs /\ Part(g, FALSE) = g.recs
      /\ EntriesOfRecs(Part(f, TRUE)) \subseteq EntriesOfRecs(Part(f, FALSE))
    BY PartFacts
<1>3. EntriesOfRecs(Part(g, FALSE)) = EntriesOfRecs(Part(f, FALSE)) \cup EntriesOfRecord(r)
    BY <1>1, <1>2, RecordsOfAppend
<1>4. g.synced = Len(g.recs) => Part(g, TRUE) = g.recs
  <2>1. Part(g, TRUE) = SubSeq(g.recs, 1, g.synced) /\ Part(g, FALSE) = SubSeq(g.recs, 1, Len(g.recs))
      BY DEF Part
  <2> QED BY <1>2, <2>1
<1>5. g.synced = f.synced => Part(g, TRUE) = Part(f, TRUE)
  <2> DEFINE R == f.recs
             n == f.synced
  <2>1. Part(f, TRUE) = SubSeq(R, 1, n) /\ Part(g, TRUE) = SubSeq(Append(R, r), 1, g.synced)
      BY DEF Part
  <2>2. R \in Seq(LogRecord) /\ n \in Nat /\ n <= Len(R) /\ Len(R) \in Nat
      BY <1>1
  <2> HIDE DEF R, n
  <2>3. SubSeq(Append(R, r), 1, n) = SubSeq(R, 1, n)
      BY <2>2
  <2> QED BY <2>1, <2>3 DEF n
<1> QED BY <1>2, <1>3, <1>4, <1>5

\* A group that is logged, synced if its first writer asks for it (AddRecord).
LEMMA AddRecordKept ==
    ASSUME NoTornWrites, FilesInv, FilesInv', KeptInv, NEW w \in Writers, AddRecord(w)
    PROVE  KeptInv'
<1> DEFINE log == logs[logfileNumber]
           log2 == logs'[logfileNumber]
           E == EntriesOfRecord(NewRecord)
<1>1. /\ queue # <<>> /\ w = queue[1] /\ writer[w].pc = "log" /\ logfileNumber \in DOMAIN logs
      /\ NewRecord \in LogRecord /\ log \in LogFile
      /\ UNCHANGED <<tables, manifests, current, created, phase, opening, imm, logfileNumber, version, nextFile,
                     lastSequence, logNumber, manifestNumber, pending, bgError, bg, queue, group, owed>>
      /\ DOMAIN logs' = DOMAIN logs /\ \A n \in DOMAIN logs : n # logfileNumber => logs'[n] = logs[n]
      /\ \A x \in Writers : /\ writer'[x].kind = writer[x].kind /\ writer'[x].op = writer[x].op
      /\ writer'[w].pc = "logged"
    BY AddRecordFacts
<1>2. \/ /\ writer'[w].error = "none" /\ log2.recs = Append(log.recs, NewRecord) /\ mem' = mem \cup E
         /\ log2.synced = IF writer[w].kind = "sync" THEN Len(log2.recs) ELSE log.synced
      \/ /\ writer'[w].error = "append" /\ log2 = log /\ mem' = mem
      \/ /\ writer'[w].error = "sync" /\ log2.recs = Append(log.recs, NewRecord) /\ mem' = mem
         /\ log2.synced = log.synced
    BY AddRecordFacts
<1>3. log2 \in LogFile
    BY <1>1 DEF FilesInv, FilesTypeOK
<1>4. IsOpen /\ phase' = phase /\ Recs' = Recs /\ Frozen' = Frozen /\ ~Logged
      /\ (SyncFailed' <=> writer'[w].error = "sync")
    BY <1>1 DEF FilesInv, OnlyWhenOpen, IsOpen, Recs, Frozen, SyncFailed, Logged
<1>5. \A s \in BOOLEAN : EntriesOfRecs(Part(log, s)) \subseteq EntriesOfRecs(Part(log2, s))
  <2>1. CASE log2 = log
      BY <2>1
  <2>2. CASE log2 # log
    <3>1. log2.recs = Append(log.recs, NewRecord) /\ (log2.synced = log.synced \/ log2.synced = Len(log2.recs))
        BY <1>2, <2>2
    <3> HIDE DEF log, log2
    <3> QED BY <1>1, <1>3, <3>1, PartsOfAppend
  <2> QED BY <2>1, <2>2
<1>6. \A ns : MoreLogs(logs, logs', ns) /\ MoreContents(tables, tables', ns)
    BY <1>1, <1>5 DEF MoreLogs, MoreContents
<1>7. Part(log, FALSE) = log.recs /\ Part(log2, FALSE) = log2.recs
    BY <1>1, <1>3, PartFacts
<1>8. \A ns : Records(logs', ns \ {logfileNumber}) = Records(logs, ns \ {logfileNumber})
    BY <1>1 DEF Records
<1>9. /\ Records(logs, {logfileNumber}) = EntriesOfRecs(log.recs)
      /\ Records(logs', {logfileNumber}) = EntriesOfRecs(log2.recs)
  <2>1. {logfileNumber} \cap DOMAIN logs = {logfileNumber} /\ {logfileNumber} \cap DOMAIN logs' = {logfileNumber}
      BY <1>1
  <2> QED BY <2>1 DEF Records
<1>10. DiskKeeps'
    BY <1>1, <1>6, DiskKeepsOn DEF KeptInv
<1>11. ASSUME writer'[w].error = "none"
       PROVE  /\ mem' = mem \cup E /\ EntriesOfRecs(log2.recs) = EntriesOfRecs(log.recs) \cup E
              /\ writer[w].kind = "sync" => E \subseteq EntriesOfRecs(Part(log2, TRUE))
  <2>1. /\ log2.recs = Append(log.recs, NewRecord) /\ mem' = mem \cup E
        /\ log2.synced = IF writer[w].kind = "sync" THEN Len(log2.recs) ELSE log.synced
      BY <1>2, <1>11
  <2>2. log2.synced = log.synced \/ log2.synced = Len(log2.recs)
      BY <2>1
  <2> HIDE DEF log, log2
  <2>3. /\ EntriesOfRecs(Part(log2, FALSE)) = EntriesOfRecs(Part(log, FALSE)) \cup E
        /\ log2.synced = Len(log2.recs) => E \subseteq EntriesOfRecs(Part(log2, TRUE))
      BY <1>1, <1>3, <2>1, <2>2, PartsOfAppend
  <2> QED BY <1>7, <2>1, <2>3
<1> HIDE DEF E, log, log2
<1>12. OpenKeeps'
  <2>1. Visible \subseteq Visible'
    <3>1. lastSequence' \in Nat /\ lastSequence <= lastSequence'
        BY <1>1 DEF FilesInv, VersionTypeOK
    <3>2. mem \subseteq mem'
        BY <1>2
    <3> QED BY <1>1, <1>4, <3>1, <3>2, VisibleStays
  <2>2. ASSUME ~bgError, writer'[w].error # "sync" PROVE EntriesOfRecs(log2.recs) \subseteq mem'
    <3>1. EntriesOfRecs(log.recs) \subseteq mem
        BY <1>4, <1>9, <2>2 DEF KeptInv, OpenKeeps, SyncFailed
    <3>2. CASE writer'[w].error = "none"
        BY <1>11, <3>1, <3>2
    <3>3. CASE writer'[w].error = "append"
        BY <1>2, <3>1, <3>3
    <3> QED BY <1>2, <2>2, <3>2, <3>3
  <2> QED BY <1>1, <1>4, <1>8, <1>9, <2>1, <2>2 DEF KeptInv, OpenKeeps
<1>13. EditKeeps'
    BY <1>1, EditKeepsOn DEF KeptInv
<1>14. GroupKeeps'
  <2>1. \A i \in DOMAIN group : group[i] \in Writers
    <3>1. group \in Seq(Writers)
        BY DEF FilesInv, WritersInv, QueueTypeOK
    <3> QED BY <3>1
  <2>2. \A i \in DOMAIN group : writer'[group[i]].kind = "sync" => writer'[queue[1]].kind = "sync"
      BY <1>1, <2>1 DEF KeptInv, GroupKeeps, Writing
  <2>3. NewRecord' = NewRecord
    <3>1. \A i \in 1 .. Len(group) : i \in DOMAIN group
      <4>1. group \in Seq(Writers)
          BY DEF FilesInv, WritersInv, QueueTypeOK
      <4> QED BY <4>1
    <3>2. GroupOps' = GroupOps
        BY <1>1, <2>1, <3>1, GroupOpsStay
    <3> QED BY <1>1, <3>2 DEF NewRecord
  <2>4. EntriesOfRecord(NewRecord') = E
      BY <2>3 DEF E
  <2> QED BY <1>1, <1>7, <1>11, <2>2, <2>4 DEF GroupKeeps, log2
<1>15. RecoverKeeps'
    BY <1>4 DEF RecoverKeeps, IsOpen
<1> QED BY <1>10, <1>12, <1>13, <1>14, <1>15 DEF KeptInv

\* What is promised at the end of DBImpl::Write is in the memtable, in the log, and on disk for
\* good if it was to be synced.
LEMMA FinishWriteOwes ==
    ASSUME FilesInv, NumbersInv, KeptInv, NEW w \in Writers, FinishWrite(w), NEW o \in owed' \ owed
    PROVE  /\ IsFound(o, logs, tables, manifests[current])
           /\ \E e \in mem : e.op = o.op /\ e.seq <= lastSequence + Len(GroupOps)
<1> DEFINE E == EntriesOfRecord(NewRecord)
<1>1. writer[w].pc = "logged" /\ Answer(group, writer[w].error = "none")
    BY DEF FinishWrite
<1>2. queue # <<>> /\ w = queue[1] /\ IsOpen /\ Logged
    BY <1>1, AwakeIsHead DEF FilesInv, OnlyWhenOpen, IsOpen, Logged
<1>3. PICK x \in ToSet(group) : writer[x].kind # "null" /\ o = [op |-> writer[x].op, sync |-> writer[x].kind = "sync"]
                                /\ writer[w].error = "none"
    BY <1>1 DEF Answer
<1>4. /\ E \subseteq mem /\ E \subseteq EntriesOfRecs(Part(logs[logfileNumber], FALSE))
      /\ writer[w].kind = "sync" => E \subseteq EntriesOfRecs(Part(logs[logfileNumber], TRUE))
      /\ \A i \in DOMAIN group : writer[group[i]].kind = "sync" => writer[w].kind = "sync"
    BY <1>1, <1>2, <1>3 DEF KeptInv, GroupKeeps, Writing
<1>5. group \in Seq(Writers) /\ QueueTypeOK /\ lastSequence \in Nat
    BY DEF FilesInv, WritersInv, QueueTypeOK, VersionTypeOK
<1>6. PICK j \in 1 .. Len(group) : x = group[j]
    BY <1>3, <1>5 DEF ToSet
<1>7. GroupOps \in Seq(Nat) /\ \E k \in DOMAIN GroupOps : GroupOps[k] = writer[x].op
    BY <1>3, <1>5, <1>6, GroupOpsAreSome
<1>8. PICK e \in E : e.op = o.op /\ e.seq <= lastSequence + Len(GroupOps)
  <2>1. PICK k \in DOMAIN GroupOps : GroupOps[k] = writer[x].op
      BY <1>7
  <2>2. Entry(lastSequence + 1 + k - 1, GroupOps[k]) \in E
    <3>1. NewRecord.seq = lastSequence + 1 /\ NewRecord.ops = GroupOps
        BY DEF NewRecord
    <3> QED BY <2>1, <3>1 DEF EntriesOfRecord
  <2>3. k \in Nat /\ k <= Len(GroupOps) /\ Len(GroupOps) \in Nat
      BY <1>7
  <2>4. lastSequence + 1 + k - 1 <= lastSequence + Len(GroupOps)
      BY <1>5, <2>3
  <2>5. o.op = writer[x].op
      BY <1>3
  <2> QED BY <2>1, <2>2, <2>4, <2>5 DEF Entry
<1>9. j \in DOMAIN group /\ o.sync = (writer[x].kind = "sync")
    BY <1>3, <1>5
<1>10. o.sync => E \subseteq EntriesOfRecs(Part(logs[logfileNumber], TRUE))
    BY <1>4, <1>6, <1>9
<1>11. /\ logfileNumber \in DOMAIN logs /\ logfileNumber \in Nat /\ current \in DOMAIN manifests /\ FilesTypeOK
       /\ \A k \in DOMAIN Recs : Recs[k].log <= logfileNumber
    BY <1>2 DEF FilesInv, OpenInv, VersionTypeOK, NumbersInv, OpenBounds, DiskInv
<1>12. Len(Recs) \in DOMAIN Recs
  <2>1. current # 0 /\ created
      BY <1>2 DEF FilesInv, OpenInv, KeptInv, OpenKeeps
  <2>2. manifests[current].synced >= 1 /\ Recs \in Seq(EditRecord) /\ manifests[current].synced <= Len(Recs)
        /\ manifests[current].synced \in Nat /\ Len(Recs) \in Nat
      BY <1>11, <2>1, NumbersOfRecs DEF FilesInv, DiskInv
  <2> QED BY <2>2
<1>13. \A k \in DOMAIN Recs, s \in BOOLEAN :
          EntriesOfRecs(Part(logs[logfileNumber], s)) \subseteq Found(logs, tables, Recs, k, s)
    BY <1>11 DEF Found, LogEntries, Over
<1>14. IsFound(o, logs, tables, manifests[current])
  <2>1. o.op \in OpsOf(Found(logs, tables, Recs, Len(Recs), FALSE))
      BY <1>4, <1>8, <1>12, <1>13 DEF OpsOf
  <2>2. o.sync => \A k \in DOMAIN Recs : o.op \in OpsOf(Found(logs, tables, Recs, k, TRUE))
      BY <1>8, <1>10, <1>13 DEF OpsOf
  <2> QED BY <2>1, <2>2 DEF IsFound, Recs
<1> QED BY <1>4, <1>8, <1>14

\* The group returns.
LEMMA FinishWriteKept ==
    ASSUME FilesInv, FilesInv', NumbersInv, KeptInv, NEW w \in Writers, FinishWrite(w)
    PROVE  KeptInv'
<1>1. /\ writer[w].pc = "logged" /\ lastSequence' = lastSequence + Len(GroupOps)
      /\ bgError' = (bgError \/ writer[w].error = "sync") /\ group' = <<>>
      /\ owed' = owed \/ owed \subseteq owed'
      /\ UNCHANGED <<logs, tables, manifests, current, created, phase, opening, mem, imm, logfileNumber, version,
                     nextFile, logNumber, manifestNumber, pending, bg>>
    BY DEF FinishWrite, Answer, files, memVars
<1>2. queue # <<>> /\ w = queue[1] /\ phase = "open" /\ Logged /\ (SyncFailed <=> writer[w].error = "sync")
    BY <1>1, AwakeIsHead DEF FilesInv, OnlyWhenOpen, Logged, SyncFailed
<1>3. GroupOps \in Seq(Nat) /\ Len(GroupOps) \in Nat /\ lastSequence \in Nat
    BY GroupOpsAreSome DEF FilesInv, WritersInv, VersionTypeOK
<1>4. Recs' = Recs /\ Frozen' = Frozen /\ IsOpen /\ IsOpen'
    BY <1>1, <1>2 DEF Recs, Frozen, IsOpen
<1>5. GroupKeeps' /\ ~SyncFailed'
    BY <1>1, NoGroupKeeps DEF FilesInv
<1>6. EditKeeps'
    BY <1>1, EditKeepsOn DEF KeptInv
<1>7. created
    BY <1>4 DEF KeptInv, OpenKeeps
<1>8. DiskKeeps'
  <2> SUFFICES ASSUME NEW o \in owed' PROVE created /\ IsFound(o, logs, tables, manifests[current])
      BY <1>1 DEF DiskKeeps
  <2>1. CASE o \in owed
      BY <1>7, <2>1 DEF KeptInv, DiskKeeps
  <2>2. CASE o \notin owed
      BY <1>7, <2>2, FinishWriteOwes
  <2> QED BY <2>1, <2>2
<1>9. \A o \in owed' : o.op \in Visible'
  <2> TAKE o \in owed'
  <2>1. CASE o \in owed
    <3>1. lastSequence' \in Nat /\ lastSequence <= lastSequence'
        BY <1>1, <1>3
    <3>2. Visible \subseteq Visible'
        BY <1>1, <1>4, <3>1, VisibleStays
    <3> QED BY <1>4, <2>1, <3>2 DEF KeptInv, OpenKeeps
  <2>2. CASE o \notin owed
    <3>1. PICK e \in mem : e.op = o.op /\ e.seq <= lastSequence + Len(GroupOps)
        BY <2>2, FinishWriteOwes
    <3> QED BY <1>1, <3>1 DEF Visible
  <2> QED BY <2>1, <2>2
<1>10. OpenKeeps'
    BY <1>1, <1>2, <1>4, <1>9 DEF KeptInv, OpenKeeps
<1>11. RecoverKeeps'
    BY <1>1, <1>2 DEF RecoverKeeps
<1> QED BY <1>5, <1>6, <1>8, <1>10, <1>11 DEF KeptInv

-----------------------------------------------------------------------------
\* The signal to writers that wait for room changes no group.
LEMMA SignalKeepsGroup ==
    ASSUME FilesInv, GroupKeeps, UNCHANGED <<mem, logfileNumber, lastSequence, queue, group>>,
           logfileNumber \in DOMAIN logs => logs'[logfileNumber] = logs[logfileNumber],
           writer' = SignalAll(writer) \/ writer' = writer
    PROVE  GroupKeeps' /\ (SyncFailed' <=> SyncFailed)
<1>1. \A w \in Writers : /\ writer'[w].kind = writer[w].kind /\ writer'[w].op = writer[w].op
                         /\ (writer'[w].pc \in Writing \/ writer[w].pc \in Writing => writer'[w] = writer[w])
  <2> SUFFICES ASSUME NEW w \in Writers
               PROVE  /\ writer'[w].kind = writer[w].kind /\ writer'[w].op = writer[w].op
                      /\ (writer'[w].pc \in Writing \/ writer[w].pc \in Writing => writer'[w] = writer[w])
      OBVIOUS
  <2>1. writer[w] \in WriterRecord
      BY DEF FilesInv, WritersInv, QueueTypeOK
  <2>2. writer'[w] = writer[w] \/ (writer[w].pc = "room" /\ writer'[w] = [writer[w] EXCEPT !.pc = "front"])
      BY DEF SignalAll
  <2> QED BY <2>1, <2>2 DEF WriterRecord, Writing
<1>2. (queue # <<>> => queue[1] \in Writers) /\ \A i \in 1 .. Len(group) : group[i] \in Writers
    BY EmptySequence DEF FilesInv, WritersInv, QueueTypeOK
<1>3. SyncFailed' <=> SyncFailed
    BY <1>1, <1>2 DEF SyncFailed, Logged, Writing
<1>4. GroupKeeps'
    BY <1>1, <1>2, GroupKeepsOn
<1> QED BY <1>3, <1>4

\* A step of the background thread that deletes no file in use and installs nothing.
LEMMA BackgroundKept ==
    ASSUME FilesInv, KeptInv, IsOpen, EditKeeps',
           UNCHANGED <<logs, manifests, current, created, owed, phase, logNumber, logfileNumber, lastSequence, mem, imm,
                       version, queue, group>>,
           writer' = SignalAll(writer) \/ writer' = writer,
           MoreContents(tables, tables', Adds(Recs)), ~bgError' => ~bgError
    PROVE  KeptInv'
<1>1. GroupKeeps' /\ (SyncFailed' <=> SyncFailed)
    BY SignalKeepsGroup DEF KeptInv
<1>2. IsOpen'
    BY DEF IsOpen
<1> QED BY <1>1, <1>2, KeptWhileOpen

\* A table under a new number takes nothing away.
LEMMA NewTableLosesNothing ==
    ASSUME NEW n, NEW x, NEW ns, n \notin ns, tables' = tables \/ tables' = Put(tables, n, x)
    PROVE  MoreContents(tables, tables', ns)
BY DEF MoreContents, Put

\* BackgroundCall without work, and compactions and flushes that fail or begin.
LEMMA BeginKept ==
    ASSUME FilesInv, KeptInv, NothingToDo \/ StartFlush \/ BuildTableFails \/ StartMerge \/ MergeFails
    PROVE  KeptInv'
<1>1. bg.pc \in {"scheduled", "merge", "build"}
    BY DEF NothingToDo, StartFlush, BuildTableFails, StartMerge, MergeFails
<1>2. IsOpen
    BY <1>1, AtWorkIsOpen DEF FilesInv
<1>3. UNCHANGED <<logs, manifests, current, created, owed, phase, logNumber, logfileNumber, lastSequence, mem, imm,
                  version, queue, group>>
    BY DEF NothingToDo, StartFlush, BuildTableFails, StartMerge, MergeFails, files, memVars, versionVars, writeVars, history
<1>4. Adds(Recs) \subseteq Nat /\ nextFile \in Nat /\ Below(Adds(Recs), nextFile)
    BY <1>2, NumbersOfRecs DEF FilesInv, OpenInv, DiskInv, VersionTypeOK
<1>5. nextFile \notin Adds(Recs)
    BY <1>4 DEF Below
<1>6. ASSUME bg'.pc \notin {"edit", "applied"}, writer' = SignalAll(writer) \/ writer' = writer,
             MoreContents(tables, tables', Adds(Recs)), ~bgError' => ~bgError
      PROVE  KeptInv'
    BY <1>2, <1>3, <1>6, BackgroundKept DEF EditKeeps
<1>7. ASSUME NEW error, NEW im, NEW v, FlushDone(error, im, v) \/ BackgroundDone(error, im, v), ~error => ~bgError,
             MoreContents(tables, tables', Adds(Recs))
      PROVE  KeptInv'
  <2>1. bg'.pc \in {"none", "scheduled", "merge"} /\ bgError' = error
      BY <1>7, RestFacts DEF FilesInv
  <2>2. writer' = SignalAll(writer)
      BY <1>7, RestSignals
  <2> QED BY <1>6, <1>7, <2>1, <2>2
<1>8. CASE NothingToDo \/ MergeFails
  <2>1. tables' = tables /\ \E error : BackgroundDone(error, imm, version) /\ (~error => ~bgError)
      BY <1>8 DEF NothingToDo, MergeFails, files
  <2>2. MoreContents(tables, tables', Adds(Recs))
      BY <2>1 DEF MoreContents
  <2> QED BY <1>7, <2>1, <2>2
<1>9. CASE BuildTableFails
  <2>1. tables' = Keep(tables, LAMBDA n : n # bg.file) /\ FlushDone(TRUE, imm, version) /\ bg.pc = "build"
      BY <1>9 DEF BuildTableFails
  <2>2. bg.file \notin Adds(Recs)
      BY <1>2, <2>1 DEF FilesInv, BgInv
  <2>3. MoreContents(tables, tables', Adds(Recs))
      BY <2>1, <2>2 DEF MoreContents, Keep
  <2> QED BY <1>7, <2>1, <2>3
<1>10. CASE StartFlush
  <2> DEFINE x == [entries |-> {}, synced |-> FALSE]
  <2>1. /\ bg' = [bg EXCEPT !.pc = "build", !.file = nextFile] /\ writer' = writer /\ bgError' = bgError
        /\ (tables' = tables \/ tables' = Put(tables, nextFile, x))
      BY <1>10 DEF StartFlush, writeVars
  <2> HIDE DEF x
  <2>2. bg'.pc = "build"
      BY <2>1 DEF FilesInv, BgTypeOK, BgRecord
  <2> QED BY <1>5, <1>6, <2>1, <2>2, NewTableLosesNothing
<1>11. CASE StartMerge
  <2> DEFINE x == [entries |-> {}, synced |-> FALSE]
             job(inputs) == [out |-> nextFile, inputs |-> inputs, base |-> version]
  <2>1. \/ /\ \E inputs \in SUBSET version : bg' = [NoBg EXCEPT !.pc = "merge", !.merge = <<job(inputs)>>]
           /\ tables' = Put(tables, nextFile, x) /\ writer' = writer /\ bgError' = bgError
        \/ BackgroundDone(TRUE, imm, version) /\ tables' = tables
      BY <1>11 DEF StartMerge
  <2>2. CASE BackgroundDone(TRUE, imm, version) /\ tables' = tables
    <3>1. MoreContents(tables, tables', Adds(Recs))
        BY <2>2 DEF MoreContents
    <3> QED BY <1>7, <2>2, <3>1
  <2>3. CASE /\ \E inputs \in SUBSET version : bg' = [NoBg EXCEPT !.pc = "merge", !.merge = <<job(inputs)>>]
             /\ tables' = Put(tables, nextFile, x) /\ writer' = writer /\ bgError' = bgError
    <3>1. bg'.pc = "merge"
        BY <2>3 DEF NoBg
    <3> QED BY <1>5, <1>6, <2>3, <3>1, NewTableLosesNothing
  <2> QED BY <2>1, <2>2, <2>3
<1> QED BY <1>8, <1>9, <1>10, <1>11

\* The flushed table holds what the logs hold that its edit makes superfluous (BuildTable).
LEMMA BuildTableKept == ASSUME FilesInv, KeptInv, BuildTable PROVE KeptInv'
<1> DEFINE x == [entries |-> imm[1], synced |-> TRUE]
           edit == Edit(logfileNumber, IF imm[1] = {} THEN {} ELSE {bg.file}, {})
<1>1. /\ bg.pc = "build"
      /\ tables' = IF imm[1] = {} THEN tables ELSE Put(tables, bg.file, x)
      /\ UNCHANGED <<logs, manifests, current, created, owed, phase, logNumber, logfileNumber, lastSequence, mem, imm,
                     version, queue, group>>
      /\ \/ FlushDone(TRUE, imm, version)
         \/ bg' = [bg EXCEPT !.pc = "edit", !.edit = edit] /\ writer' = writer /\ bgError' = bgError
    BY DEF BuildTable, memVars, versionVars, history
<1>2. IsOpen /\ bg.file \notin Adds(Recs)
    BY <1>1, AtWorkIsOpen DEF FilesInv, BgInv
<1>3. MoreContents(tables, tables', Adds(Recs))
    BY <1>1, <1>2, NewTableLosesNothing
<1>4. CASE FlushDone(TRUE, imm, version)
  <2>1. bg'.pc \in {"none", "scheduled", "merge"} /\ bgError' = TRUE /\ writer' = SignalAll(writer)
      BY <1>4, RestFacts, RestSignals DEF FilesInv
  <2>2. EditKeeps'
      BY <2>1 DEF EditKeeps
  <2> QED BY <1>1, <1>2, <1>3, <2>1, <2>2, BackgroundKept
<1>5. CASE bg' = [bg EXCEPT !.pc = "edit", !.edit = edit] /\ writer' = writer /\ bgError' = bgError
  <2>1. Frozen = imm[1] /\ Frozen' = Frozen /\ imm # <<>>
    <3>1. Len(imm) = 1 /\ imm \in Seq(SUBSET EntryRecord)
        BY <1>1 DEF FilesInv, BgTypeOK, MemoryTypeOK
    <3>2. imm # <<>>
        BY <3>1, EmptySequence
    <3> QED BY <1>1, <3>2, MemoryIsEntries DEF Frozen
  <2>2. edit.log = logfileNumber /\ edit.del = {} /\ edit.add = IF imm[1] = {} THEN {} ELSE {bg.file}
      BY DEF Edit
  <2> HIDE DEF edit
  <2>3. bg'.pc = "edit" /\ bg'.edit = edit
      BY <1>5 DEF FilesInv, BgTypeOK, BgRecord
  <2>4. Frozen \subseteq Contents(tables', edit.add)
    <3>1. CASE imm[1] = {}
        BY <2>1, <3>1
    <3>2. CASE imm[1] # {}
      <4>1. edit.add = {bg.file} /\ bg.file \in DOMAIN tables' /\ tables'[bg.file] = x
          BY <1>1, <2>2, <3>2 DEF Put
      <4> QED BY <2>1, <4>1 DEF Contents
    <3> QED BY <3>1, <3>2
  <2>5. EditKeeps'
      BY <1>1, <2>1, <2>2, <2>3, <2>4 DEF EditKeeps
  <2> QED BY <1>1, <1>2, <1>3, <1>5, <2>5, BackgroundKept
<1> QED BY <1>1, <1>4, <1>5

\* The output of a compaction holds what its inputs hold (DoCompactionWork).
LEMMA FinishMergeKept == ASSUME FilesInv, NumbersInv, KeptInv, FinishMerge PROVE KeptInv'
<1> DEFINE m == bg.merge[1]
           x == [entries |-> UNION {tables[n].entries : n \in m.inputs}, synced |-> TRUE]
           edit == Edit(logNumber, {m.out}, m.inputs)
<1>1. /\ bg.pc = "merge" /\ tables' = Put(tables, m.out, x) /\ bg' = [bg EXCEPT !.pc = "edit", !.edit = edit]
      /\ UNCHANGED <<logs, manifests, current, created, owed, phase, logNumber, logfileNumber, lastSequence, mem, imm,
                     version, queue, group, writer, bgError>>
    BY DEF FinishMerge, memVars, versionVars, writeVars, history
<1>2. IsOpen /\ DOMAIN bg.merge = {1}
  <2>1. bg.merge \in Seq(Merge) /\ Len(bg.merge) = 1
      BY <1>1 DEF FilesInv, BgTypeOK, BgRecord
  <2>2. DOMAIN bg.merge = {1}
      BY <2>1
  <2> QED BY <1>1, <2>2, AtWorkIsOpen DEF FilesInv
<1>3. m.out \notin Adds(Recs) /\ m.inputs # {} /\ m.inputs \subseteq Good \cap Adds(Recs)
    BY <1>1, <1>2 DEF NumbersInv, BgBounds, FilesInv, BgInv
<1>4. MoreContents(tables, tables', Adds(Recs))
    BY <1>1, <1>3, NewTableLosesNothing
<1>5. Contents(tables', m.inputs) \subseteq Contents(tables', {m.out})
  <2>1. \A n \in m.inputs : n \in DOMAIN tables /\ tables'[n] = tables[n]
      BY <1>1, <1>3 DEF Good, Put
  <2>2. m.out \in DOMAIN tables' /\ tables'[m.out] = x
      BY <1>1 DEF Put
  <2> QED BY <2>1, <2>2 DEF Contents
<1> HIDE DEF x
<1>6. edit.log = logNumber /\ edit.del = m.inputs /\ edit.add = {m.out}
    BY DEF Edit
<1> HIDE DEF edit
<1>7. bg'.pc = "edit" /\ bg'.edit = edit
    BY <1>1 DEF FilesInv, BgTypeOK, BgRecord
<1>8. EditKeeps'
    BY <1>1, <1>3, <1>5, <1>6, <1>7 DEF EditKeeps
<1> QED BY <1>1, <1>2, <1>4, <1>8, BackgroundKept

\* What the manifest describes after an edit of the background thread holds all that was found
\* before: what the edit takes away, tables or logs, is in the tables that it adds.
LEMMA EditLosesNothing ==
    ASSUME FilesInv, KeptInv, IsOpen, bg.pc = "edit", Recs \in Seq(EditRecord), Len(Recs) \in DOMAIN Recs,
           NEW s \in BOOLEAN
    PROVE  Found(logs, tables, Recs, Len(Recs), s) \subseteq Found(logs, tables, Append(Recs, bg.edit), Len(Recs) + 1, s)
<1> DEFINE R == Recs
           K == Len(R)
           e == bg.edit
           Q == Append(R, e)
<1>1. R \in Seq(EditRecord) /\ K \in Nat /\ K \in DOMAIN R /\ e \in EditRecord /\ FilesTypeOK
    BY DEF FilesInv, BgTypeOK
<1>2. /\ e.del = {} => e.log = logfileNumber /\ Frozen \subseteq Contents(tables, e.add)
      /\ e.del # {} => e.log = logNumber /\ Contents(tables, e.del) \subseteq Contents(tables, e.add)
      /\ R[K].log >= logNumber /\ Records(logs, Over(logNumber) \ {logfileNumber}) \subseteq Frozen
    BY DEF KeptInv, EditKeeps, OpenKeeps
<1>3. logNumber \in Nat /\ logfileNumber \in Nat /\ R[K].log \in Nat
  <2>1. \A i \in DOMAIN R : R[i] \in EditRecord
      BY <1>1
  <2> QED BY <1>1, <2>1 DEF EditRecord, FilesInv, VersionTypeOK
<1> HIDE DEF R, K, e
<1>4. /\ SubSeq(R, 1, K) = R /\ SubSeq(Q, 1, K + 1) = Q /\ Q[K + 1] = e
      /\ Replay(Q) = (Replay(R) \ e.del) \cup e.add
  <2>1. Len(Q) = K + 1 /\ Q \in Seq(EditRecord) /\ Q[K + 1] = e
      BY <1>1 DEF K
  <2>2. SubSeq(R, 1, K) = R
      BY <1>1, ReplayIsAdded DEF K
  <2>3. SubSeq(Q, 1, Len(Q)) = Q
      BY <2>1, ReplayIsAdded
  <2> QED BY <1>1, <2>1, <2>2, <2>3, ReplayOfAppend
<1> HIDE DEF Q
<1>5. Contents(tables, Replay(R)) \subseteq Contents(tables, Replay(Q))
  <2>1. Contents(tables, Replay(R)) \subseteq Contents(tables, Replay(R) \ e.del) \cup Contents(tables, e.del)
      BY DEF Contents
  <2>2. Contents(tables, Replay(Q)) = Contents(tables, Replay(R) \ e.del) \cup Contents(tables, e.add)
      BY <1>4 DEF Contents
  <2>3. e.del = {} => Contents(tables, e.del) = {}
      BY DEF Contents
  <2> QED BY <1>2, <2>1, <2>2, <2>3
<1>6. LogEntries(logs, Over(R[K].log), s) \subseteq LogEntries(logs, Over(e.log), s) \cup Contents(tables, Replay(Q))
  <2>1. CASE e.del = {}
    <3>1. LogEntries(logs, Over(R[K].log), s) \subseteq
             LogEntries(logs, Over(e.log), s) \cup LogEntries(logs, Over(logNumber) \ {logfileNumber}, s)
      <4>1. \A n \in Over(R[K].log) : n \in Over(e.log) \/ n \in Over(logNumber) \ {logfileNumber}
          BY <1>2, <1>3, <2>1 DEF Over
      <4> QED BY <4>1 DEF LogEntries
    <3>2. LogEntries(logs, Over(logNumber) \ {logfileNumber}, s) \subseteq
              Records(logs, Over(logNumber) \ {logfileNumber})
        BY <1>1, AllOfTheLogs
    <3>3. Contents(tables, e.add) \subseteq Contents(tables, Replay(Q))
        BY <1>4 DEF Contents
    <3> QED BY <1>2, <2>1, <3>1, <3>2, <3>3
  <2>2. CASE e.del # {}
    <3>1. Over(R[K].log) \subseteq Over(e.log)
        BY <1>2, <1>3, <2>2 DEF Over
    <3> QED BY <3>1 DEF LogEntries
  <2> QED BY <2>1, <2>2
<1>7. /\ Found(logs, tables, R, K, s) = Contents(tables, Replay(R)) \cup LogEntries(logs, Over(R[K].log), s)
      /\ Found(logs, tables, Q, K + 1, s) = Contents(tables, Replay(Q)) \cup LogEntries(logs, Over(e.log), s)
    BY <1>4 DEF Found
<1>8. Found(logs, tables, R, K, s) \subseteq Found(logs, tables, Q, K + 1, s)
    BY <1>5, <1>6, <1>7
<1> QED BY <1>8 DEF Q, R, K, e

\* The edits before the last one stay what they are.
LEMMA FoundBefore ==
    ASSUME NEW R \in Seq(EditRecord), NEW e \in EditRecord, NEW k \in DOMAIN R, NEW s
    PROVE  Found(logs, tables, Append(R, e), k, s) = Found(logs, tables, R, k, s)
<1>1. k \in 1 .. Len(R) /\ Append(R, e)[k] = R[k]
    OBVIOUS
<1>2. SubSeq(Append(R, e), 1, k) = SubSeq(R, 1, k)
    BY <1>1, PrefixOfAppend
<1> QED BY <1>1, <1>2 DEF Found

\* An edit of the background thread reaches the manifest, and may or may not be on disk for good.
LEMMA AddManifestRecordKept ==
    ASSUME NoTornWrites, FilesInv, KeptInv, AddManifestRecord
    PROVE  KeptInv'
<1> DEFINE e == bg.edit
<1>1. /\ bg.pc = "edit" /\ IsOpen /\ IsOpen' /\ current # 0 /\ current \in DOMAIN manifests
      /\ Recs \in Seq(EditRecord) /\ e \in EditRecord
      /\ UNCHANGED <<logs, tables, current, created, phase, opening, mem, imm, logfileNumber, version, nextFile,
                     lastSequence, logNumber, manifestNumber, pending, bgError, iters, queue, group, writer, owed>>
      /\ bg'.pc = "applied" /\ bg'.edit = e /\ bg'.failed \in BOOLEAN
      /\ Recs' = Append(Recs, e) \/ (Recs' = Recs /\ bg'.failed)
      /\ manifests'[current].synced = IF bg'.failed THEN manifests[current].synced ELSE Len(Recs')
    BY AddManifestRecordFacts
<1>2. /\ e.del = {} => imm # <<>> /\ e.log = logfileNumber /\ Frozen \subseteq Contents(tables, e.add)
      /\ e.del # {} => e.log = logNumber /\ Contents(tables, e.del) \subseteq Contents(tables, e.add)
    BY <1>1 DEF KeptInv, EditKeeps
<1>3. /\ Len(Recs) \in Nat /\ DOMAIN Recs = 1 .. Len(Recs) /\ manifests[current].synced \in 1 .. Len(Recs)
      /\ manifests[current].recs = Recs /\ manifests'[current].recs = Recs'
  <2>1. created
      BY <1>1 DEF KeptInv, OpenKeeps
  <2>2. manifests[current].synced >= 1 /\ manifests[current].synced <= Len(Recs) /\ manifests[current].synced \in Nat
        /\ Len(Recs) \in Nat
      BY <1>1, <2>1, NumbersOfRecs DEF FilesInv, DiskInv
  <2> QED BY <1>1, <2>2 DEF Recs
<1>4. Len(Recs) \in DOMAIN Recs
    BY <1>3
<1>5. Recs' = Append(Recs, e) => /\ Len(Recs') = Len(Recs) + 1 /\ Recs'[Len(Recs) + 1] = e
                                 /\ \A k \in DOMAIN Recs' : k \in DOMAIN Recs \/ k = Len(Recs) + 1
    BY <1>1, <1>3
<1> HIDE DEF e
<1>6. DiskKeeps'
  <2> SUFFICES ASSUME owed # {}, NEW o \in owed PROVE created /\ IsFound(o, logs, tables, manifests'[current])
      BY <1>1 DEF DiskKeeps
  <2>1. created /\ IsFound(o, logs, tables, manifests[current])
      BY DEF KeptInv, DiskKeeps
  <2>2. /\ o.op \in OpsOf(Found(logs, tables, Recs, Len(Recs), FALSE))
        /\ o.sync => \A k \in DOMAIN Recs : k >= manifests[current].synced => o.op \in OpsOf(Found(logs, tables, Recs, k, TRUE))
      BY <1>3, <2>1 DEF IsFound
  <2>3. CASE Recs' = Recs /\ bg'.failed
      BY <1>1, <1>3, <2>1, <2>3 DEF IsFound
  <2>4. CASE Recs' = Append(Recs, e)
    <3>1. \A s \in BOOLEAN : Found(logs, tables, Recs, Len(Recs), s) \subseteq Found(logs, tables, Recs', Len(Recs) + 1, s)
        BY <1>1, <1>4, <2>4, EditLosesNothing DEF e
    <3>2. \A k \in DOMAIN Recs : Found(logs, tables, Recs', k, TRUE) = Found(logs, tables, Recs, k, TRUE)
        BY <1>1, <2>4, FoundBefore
    <3>3. o.op \in OpsOf(Found(logs, tables, Recs', Len(Recs'), FALSE))
        BY <1>5, <2>2, <2>4, <3>1 DEF OpsOf
    <3>4. ASSUME o.sync, NEW k \in DOMAIN Recs', k >= manifests'[current].synced
          PROVE  o.op \in OpsOf(Found(logs, tables, Recs', k, TRUE))
      <4>1. CASE k \in DOMAIN Recs
        <5>1. k >= manifests[current].synced
            BY <1>1, <1>3, <1>5, <2>4, <3>4, <4>1
        <5> QED BY <2>2, <3>2, <3>4, <4>1, <5>1
      <4>2. CASE k = Len(Recs) + 1
        <5>1. Len(Recs) >= manifests[current].synced
            BY <1>3
        <5>2. o.op \in OpsOf(Found(logs, tables, Recs, Len(Recs), TRUE))
            BY <1>4, <2>2, <3>4, <5>1
        <5> QED BY <3>1, <4>2, <5>2 DEF OpsOf
      <4> QED BY <1>5, <2>4, <4>1, <4>2
    <3> QED BY <1>3, <2>1, <3>3, <3>4 DEF IsFound
  <2> QED BY <1>1, <2>3, <2>4
<1>7. Frozen' = Frozen /\ Visible' = Visible /\ (SyncFailed' <=> SyncFailed)
    BY <1>1 DEF Frozen, Visible, EntriesOf, SyncFailed, Logged
<1>8. OpenKeeps'
  <2>1. Recs'[Len(Recs')].log >= logNumber
    <3>1. CASE Recs' = Recs
        BY <1>1, <3>1 DEF KeptInv, OpenKeeps
    <3>2. CASE Recs' = Append(Recs, e)
      <4>1. logNumber \in Nat /\ logfileNumber \in Nat /\ logNumber <= logfileNumber
          BY <1>1 DEF FilesInv, OpenInv, VersionTypeOK
      <4> QED BY <1>2, <1>5, <3>2, <4>1
    <3> QED BY <1>1, <3>1, <3>2
  <2> QED BY <1>1, <1>7, <2>1 DEF KeptInv, OpenKeeps
<1>9. EditKeeps'
    BY <1>1, <1>2, <1>5, <1>7 DEF EditKeeps
<1>10. GroupKeeps'
    BY <1>1, GroupKeepsOn DEF KeptInv
<1>11. RecoverKeeps'
    BY <1>1 DEF RecoverKeeps, IsOpen
<1> QED BY <1>6, <1>8, <1>9, <1>10, <1>11 DEF KeptInv

\* An installed edit: what it takes away is in the tables that the version now has, and the
\* manifest that is read by a recovery says so before any file goes (LogAndApply,
\* DeleteObsoleteFiles).
LEMMA InstallEditKept ==
    ASSUME FilesInv, FilesInv', NumbersInv, KeptInv, IsOpen, bg.pc = "applied", ~bg.failed, NEW live, version' \subseteq live,
           UNCHANGED <<current, created, owed, phase, mem, logfileNumber, lastSequence, manifestNumber, queue, group>>,
           imm' = IF bg.edit.del = {} THEN <<>> ELSE imm,
           version' = (version \ bg.edit.del) \cup bg.edit.add, logNumber' = bg.edit.log,
           DeleteObsoleteFiles(bgError, live, logNumber', manifestNumber, logs, tables, manifests),
           bgError' = bgError, bg'.pc \notin {"edit", "applied"}, writer' = SignalAll(writer)
    PROVE  KeptInv'
<1> DEFINE e == bg.edit
<1>1. /\ manifestNumber = current /\ current # 0 /\ current \in DOMAIN manifests /\ logfileNumber \in DOMAIN logs
      /\ current \in Nat /\ bgError \in BOOLEAN /\ logfileNumber \in Nat /\ logNumber \in Nat /\ lastSequence \in Nat
      /\ FilesTypeOK /\ e \in EditRecord /\ e.log \in Nat
    BY DEF FilesInv, OpenInv, DiskInv, FilesTypeOK, MemoryTypeOK, VersionTypeOK, BgTypeOK, EditRecord
<1>2. /\ e.del = {} => e.log = logfileNumber /\ Frozen \subseteq Contents(tables, e.add)
      /\ e.del # {} => e.log = logNumber /\ Contents(tables, e.del) \subseteq Contents(tables, e.add)
      /\ Recs[Len(Recs)] = e
    BY DEF KeptInv, EditKeeps
<1>3. /\ \A n \in DOMAIN tables : bgError \/ n \in live => n \in DOMAIN tables'
      /\ \A n \in DOMAIN logs : n >= e.log => n \in DOMAIN logs'
      /\ \A n \in DOMAIN manifests : n >= manifestNumber => n \in DOMAIN manifests'
      /\ \A n \in DOMAIN tables' : n \in DOMAIN tables /\ tables'[n] = tables[n]
      /\ \A n \in DOMAIN logs' : n \in DOMAIN logs /\ logs'[n] = logs[n]
      /\ \A n \in DOMAIN manifests' : n \in DOMAIN manifests /\ manifests'[n] = manifests[n]
    BY <1>1, DeleteFacts
<1>4. manifests'[current] = manifests[current] /\ Recs' = Recs /\ IsOpen'
    BY <1>1, <1>3 DEF Recs, IsOpen
<1>5. logfileNumber \in DOMAIN logs' /\ logs'[logfileNumber] = logs[logfileNumber]
    BY <1>3, <1>4 DEF FilesInv, OpenInv
<1> HIDE DEF e
<1>6. Contents(tables, version') \subseteq Contents(tables', version')
    BY <1>3 DEF Contents
<1>7. Contents(tables, version) \cup Frozen \subseteq Contents(tables', version') \cup Frozen'
  <2>1. Contents(tables, version') = Contents(tables, version \ e.del) \cup Contents(tables, e.add)
      BY DEF Contents, e
  <2>2. Contents(tables, version) \subseteq Contents(tables, version \ e.del) \cup Contents(tables, e.del)
      BY DEF Contents
  <2>3. e.del = {} => Contents(tables, e.del) = {}
      BY DEF Contents
  <2>4. e.del # {} => Frozen' = Frozen
      BY DEF Frozen, e
  <2> QED BY <1>2, <1>6, <2>1, <2>2, <2>3, <2>4
<1>8. DiskKeeps'
  <2>1. CASE bgError
    <3>1. logs' = logs /\ tables' = tables
        BY <2>1 DEF DeleteObsoleteFiles
    <3>2. \A ns : MoreLogs(logs, logs', ns) /\ MoreContents(tables, tables', ns)
        BY <3>1 DEF MoreLogs, MoreContents
    <3> QED BY <1>4, <3>2, DiskKeepsOn DEF KeptInv
  <2>2. CASE ~bgError
    <3> SUFFICES ASSUME owed # {}, NEW o \in owed PROVE created /\ IsFound(o, logs', tables', manifests[current])
        BY <1>4 DEF DiskKeeps
    <3>1. created /\ IsFound(o, logs, tables, manifests[current]) /\ manifests[current].recs = Recs
        BY DEF KeptInv, DiskKeeps, Recs
    <3>2. manifests[current].synced = Len(Recs) /\ Replay(Recs) = version'
        BY <2>2 DEF FilesInv, VersionIsLogged
    <3>3. /\ Len(Recs) \in DOMAIN Recs /\ SubSeq(Recs, 1, Len(Recs)) = Recs
          /\ \A k \in DOMAIN Recs : k >= Len(Recs) => k = Len(Recs)
      <4>1. Recs \in Seq(EditRecord) /\ Len(Recs) \in Nat /\ Len(Recs) >= 1
          BY <1>1, <3>1, <3>2, NumbersOfRecs DEF FilesInv, DiskInv
      <4> QED BY <4>1, ReplayIsAdded
    <3>4. MoreLogs(logs, logs', Over(Recs[Len(Recs)].log))
        BY <1>2, <1>3 DEF MoreLogs, Over
    <3>5. MoreContents(tables, tables', Replay(SubSeq(Recs, 1, Len(Recs))))
        BY <1>3, <3>2, <3>3 DEF MoreContents
    <3>6. \A s \in BOOLEAN : Found(logs, tables, Recs, Len(Recs), s) \subseteq Found(logs', tables', Recs, Len(Recs), s)
        BY <3>4, <3>5, FoundStays
    <3>7. o.op \in OpsOf(Found(logs', tables', Recs, Len(Recs), FALSE))
        BY <3>1, <3>6 DEF IsFound, OpsOf
    <3>8. o.sync => o.op \in OpsOf(Found(logs', tables', Recs, Len(Recs), TRUE))
      <4>1. Len(Recs) >= manifests[current].synced
          BY <1>1, <3>2, NumbersOfRecs
      <4> QED BY <3>1, <3>3, <3>6, <4>1 DEF IsFound, OpsOf
    <3> QED BY <3>1, <3>2, <3>3, <3>7, <3>8 DEF IsFound
  <2> QED BY <1>1, <2>1, <2>2
<1>9. GroupKeeps' /\ (SyncFailed' <=> SyncFailed)
    BY <1>5, SignalKeepsGroup DEF KeptInv
<1>10. OpenKeeps'
  <2>1. Visible \subseteq Visible'
    <3>1. mem \cup Frozen \cup Contents(tables, version) \subseteq mem' \cup Frozen' \cup Contents(tables', version')
        BY <1>7
    <3>2. lastSequence' \in Nat /\ lastSequence <= lastSequence'
        BY <1>1
    <3> QED BY <3>1, <3>2, VisibleStays
  <2>2. Recs'[Len(Recs')].log >= logNumber'
      BY <1>1, <1>2, <1>4 DEF e
  <2>3. \A ns : Records(logs', ns) \subseteq Records(logs, ns)
      BY <1>3 DEF Records
  <2>4. Records(logs', Over(logNumber') \ {logfileNumber}) \subseteq Frozen'
    <3>1. CASE e.del = {}
      <4>1. \A n \in DOMAIN logs' : n \in Nat /\ n <= logfileNumber
          BY <1>1, <1>3 DEF NumbersInv, OpenBounds, FilesTypeOK
      <4>2. (Over(logNumber') \ {logfileNumber}) \cap DOMAIN logs' = {}
          BY <1>1, <1>2, <3>1, <4>1 DEF Over, e
      <4> QED BY <4>2 DEF Records
    <3>2. CASE e.del # {}
      <4>1. logNumber' = logNumber /\ Frozen' = Frozen
          BY <1>2, <3>2 DEF e, Frozen
      <4>2. Records(logs, Over(logNumber) \ {logfileNumber}) \subseteq Frozen
          BY DEF KeptInv, OpenKeeps
      <4> QED BY <2>3, <4>1, <4>2
    <3> QED BY <3>1, <3>2
  <2>5. ~bgError' /\ ~SyncFailed' => Records(logs', {logfileNumber}) \subseteq mem
    <3>1. ~bgError /\ ~SyncFailed => Records(logs, {logfileNumber}) \subseteq mem
        BY DEF KeptInv, OpenKeeps
    <3> QED BY <1>9, <2>3, <3>1
  <2>6. created
      BY DEF KeptInv, OpenKeeps
  <2>7. \A o \in owed : o.op \in Visible'
      BY <2>1 DEF KeptInv, OpenKeeps
  <2> QED BY <2>2, <2>4, <2>5, <2>6, <2>7 DEF OpenKeeps
<1>11. EditKeeps'
    BY DEF EditKeeps
<1>12. RecoverKeeps'
    BY <1>4 DEF RecoverKeeps, IsOpen
<1> QED BY <1>8, <1>9, <1>10, <1>11, <1>12 DEF KeptInv

\* The flush or the compaction is installed, or its edit could not be logged.
LEMMA InstallKept ==
    ASSUME FilesInv, FilesInv', NumbersInv, KeptInv, InstallFlush \/ InstallMerge
    PROVE  KeptInv'
<1>1. /\ bg.pc = "applied"
      /\ UNCHANGED <<current, created, owed, phase, mem, logfileNumber, lastSequence, manifestNumber, queue, group>>
    BY DEF InstallFlush, InstallMerge, memVars, history
<1>2. IsOpen
    BY <1>1, AtWorkIsOpen DEF FilesInv
<1>3. CASE bg.failed
  <2>1. /\ FlushDone(TRUE, imm, version) \/ BackgroundDone(TRUE, imm, version)
        /\ UNCHANGED <<version, logNumber, imm, logs, tables, manifests>>
      BY <1>3 DEF InstallFlush, InstallMerge, memVars
  <2>2. bgError' = TRUE /\ bg'.pc \in {"none", "scheduled", "merge"} /\ writer' = SignalAll(writer)
      BY <2>1, RestFacts, RestSignals DEF FilesInv
  <2>3. MoreContents(tables, tables', Adds(Recs)) /\ EditKeeps'
      BY <2>1, <2>2 DEF MoreContents, EditKeeps
  <2> QED BY <1>1, <1>2, <2>1, <2>2, <2>3, BackgroundKept
<1>4. CASE ~bg.failed
  <2>1. PICK live :
           /\ version' \subseteq live /\ version' = (version \ bg.edit.del) \cup bg.edit.add /\ logNumber' = bg.edit.log
           /\ imm' = IF bg.edit.del = {} THEN <<>> ELSE imm
           /\ DeleteObsoleteFiles(bgError, live, logNumber', manifestNumber, logs, tables, manifests)
           /\ \E im : FlushDone(bgError, im, version') \/ BackgroundDone(bgError, im, version')
    <3>1. CASE InstallFlush
      <4>1. /\ bg.edit.del = {} /\ version' = version \cup bg.edit.add /\ logNumber' = bg.edit.log /\ imm' = <<>>
            /\ DeleteObsoleteFiles(bgError, LiveFiles(version', pending, bg.merge), logNumber', manifestNumber,
                                   logs, tables, manifests)
            /\ FlushDone(bgError, <<>>, version')
          BY <1>4, <3>1 DEF InstallFlush
      <4>2. version' \subseteq LiveFiles(version', pending, bg.merge)
          BY DEF LiveFiles
      <4> QED BY <4>1, <4>2
    <3>2. CASE InstallMerge
      <4>1. /\ bg.edit.del # {} /\ version' = (version \ bg.edit.del) \cup bg.edit.add /\ logNumber' = bg.edit.log
            /\ imm' = imm
            /\ DeleteObsoleteFiles(bgError, LiveFiles(version', pending', <<>>), logNumber', manifestNumber,
                                   logs, tables, manifests)
            /\ BackgroundDone(bgError, imm, version')
          BY <1>4, <3>2 DEF InstallMerge, memVars
      <4>2. version' \subseteq LiveFiles(version', pending', <<>>)
          BY DEF LiveFiles
      <4> QED BY <4>1, <4>2
    <3> QED BY <3>1, <3>2
  <2>2. bgError' = bgError /\ bg'.pc \notin {"edit", "applied"} /\ writer' = SignalAll(writer)
      BY <2>1, RestFacts, RestSignals DEF FilesInv
  <2> QED BY <1>1, <1>2, <1>4, <2>1, <2>2, InstallEditKept
<1> QED BY <1>3, <1>4

-----------------------------------------------------------------------------
\* Without memory only the disk has to keep anything (a crash, the end of the destructor, an
\* Open that fails).
LEMMA DropKept ==
    ASSUME DropMemory, DiskKeeps' PROVE KeptInv'
<1>1. phase' = "closed" /\ bg'.pc = "none" /\ queue' = <<>>
    BY ScheduleFacts DEF DropMemory
<1>2. OpenKeeps' /\ EditKeeps' /\ GroupKeeps' /\ RecoverKeeps'
    BY <1>1 DEF OpenKeeps, IsOpen, EditKeeps, GroupKeeps, RecoverKeeps
<1> QED BY <1>2 DEF KeptInv

\* The end of the process: the files stay.
LEMMA ProcessEndKept ==
    ASSUME FilesInv, KeptInv, OpenFails \/ ManifestFails \/ CloseDone \/ ProcessCrash
    PROVE  KeptInv'
<1>1. DropMemory /\ UNCHANGED <<logs, tables, current, created, owed>>
    BY DEF OpenFails, ManifestFails, CloseDone, ProcessCrash, files, history
<1>2. ASSUME owed # {} PROVE manifests'[current] = manifests[current]
  <2>1. CASE ManifestFails
    <3>1. current # manifestNumber
      <4>1. current \in Nat /\ manifestNumber \in Nat /\ current < manifestNumber
          BY <2>1 DEF ManifestFails, FilesInv, FilesTypeOK, VersionTypeOK, RecoverInv
      <4> QED BY <4>1
    <3>2. current \in DOMAIN manifests
        BY <1>2, OwedFacts DEF KeptInv
    <3> QED BY <2>1, <3>1, <3>2 DEF ManifestFails, Keep
  <2>2. CASE ~ManifestFails
      BY <2>2 DEF OpenFails, CloseDone, ProcessCrash, files
  <2> QED BY <2>1, <2>2
<1>3. \A ns : MoreLogs(logs, logs', ns) /\ MoreContents(tables, tables', ns)
    BY <1>1 DEF MoreLogs, MoreContents
<1>4. DiskKeeps'
    BY <1>1, <1>2, <1>3, DiskKeepsOn DEF KeptInv
<1> QED BY <1>1, <1>4, DropKept

\* What was synced of a log stays through a crash of the machine, and all that is left of it
\* is then on disk.
LEMMA PartAfterCut ==
    ASSUME NEW f \in LogFile, NEW g \in Truncations(f), NEW s \in BOOLEAN
    PROVE  EntriesOfRecs(Part(f, TRUE)) \subseteq EntriesOfRecs(Part(g, s))
<1> DEFINE R == f.recs
           n == f.synced
<1>1. R \in Seq(LogRecord) /\ n \in Nat /\ n <= Len(R) /\ Len(R) \in Nat
    BY DEF LogFile
<1>2. PICK k \in n .. Len(R) : g = [recs |-> SubSeq(R, 1, k), synced |-> k]
    BY DEF Truncations
<1>3. Part(f, TRUE) = SubSeq(R, 1, n)
    BY DEF Part
<1> HIDE DEF R, n
<1>4. k \in Nat /\ n <= k /\ k <= Len(R) /\ k \in 0 .. Len(R) /\ Len(SubSeq(R, 1, k)) = k
    BY <1>1, <1>2
<1>5. Part(g, s) = SubSeq(SubSeq(R, 1, k), 1, k)
    BY <1>2, <1>4 DEF Part
<1>6. SubSeq(SubSeq(R, 1, k), 1, k) = SubSeq(R, 1, k)
    BY <1>1, <1>4
<1>7. \A i \in DOMAIN SubSeq(R, 1, n) : i \in DOMAIN SubSeq(R, 1, k) /\ SubSeq(R, 1, n)[i] = SubSeq(R, 1, k)[i]
    BY <1>1, <1>4
<1> QED BY <1>3, <1>5, <1>6, <1>7 DEF EntriesOfRecs

\* A crash of the machine keeps the writes that were to be synced: each beginning of the
\* manifest that can be left finds them.
LEMMA MachineCrashKept == ASSUME FilesInv, KeptInv, MachineCrash PROVE KeptInv'
<1>1. /\ DropMemory /\ UNCHANGED <<current, created>>
      /\ logs' \in Cuts(logs) /\ manifests' \in Cuts(manifests)
      /\ tables' = [n \in DOMAIN tables |-> IF tables[n].synced THEN tables[n]
                                            ELSE [entries |-> {}, synced |-> FALSE]]
      /\ owed' = {o \in owed : o.sync}
    BY DEF MachineCrash
<1>2. DiskKeeps'
  <2> SUFFICES ASSUME owed # {}, NEW o \in owed, o.sync
               PROVE  created /\ IsFound(o, logs', tables', manifests'[current])
      BY <1>1 DEF DiskKeeps
  <2>1. /\ created /\ current # 0 /\ current \in DOMAIN manifests /\ FilesTypeOK
        /\ Recs \in Seq(EditRecord) /\ Len(Recs) \in Nat /\ DOMAIN Recs = 1 .. Len(Recs) /\ manifests[current].recs = Recs
        /\ manifests[current].synced \in 1 .. Len(Recs)
      BY OwedFacts DEF KeptInv
  <2>2. \A k \in DOMAIN Recs : k >= manifests[current].synced => o.op \in OpsOf(Found(logs, tables, Recs, k, TRUE))
      BY <2>1 DEF KeptInv, DiskKeeps, IsFound
  <2>3. PICK n \in manifests[current].synced .. Len(Recs) :
           manifests'[current] = [recs |-> SubSeq(Recs, 1, n), synced |-> n]
    <3>1. manifests'[current] \in Truncations(manifests[current])
        BY <1>1, <2>1 DEF Cuts
    <3> QED BY <2>1, <3>1 DEF Truncations
  <2> DEFINE R == Recs
             Q == SubSeq(R, 1, n)
  <2>4. R \in Seq(EditRecord) /\ n \in 1 .. Len(R) /\ n >= manifests[current].synced /\ n \in DOMAIN R
      BY <2>1, <2>3
  <2>5. Replay(SubSeq(R, 1, n)) \subseteq Good
      BY <2>1, <2>4 DEF FilesInv, DiskInv, ManifestIsSafe
  <2>6. o.op \in OpsOf(Found(logs, tables, R, n, TRUE))
      BY <2>2, <2>4
  <2> HIDE DEF R
  <2>7. Len(Q) = n /\ DOMAIN Q = 1 .. n /\ Q[n] = R[n] /\ SubSeq(Q, 1, n) = SubSeq(R, 1, n) /\ n \in 1 .. n
      BY <2>4
  <2> HIDE DEF Q
  <2>8. ASSUME NEW s \in BOOLEAN PROVE Found(logs, tables, R, n, TRUE) \subseteq Found(logs', tables', Q, n, s)
    <3>1. Contents(tables, Replay(SubSeq(R, 1, n))) \subseteq Contents(tables', Replay(SubSeq(R, 1, n)))
      <4>1. \A m \in Good : m \in DOMAIN tables' /\ tables'[m] = tables[m]
          BY <1>1 DEF Good
      <4>2. Replay(SubSeq(R, 1, n)) \cap DOMAIN tables \subseteq Good
          BY <2>5
      <4> QED BY <4>1, <4>2 DEF Contents
    <3>2. \A ns : LogEntries(logs, ns, TRUE) \subseteq LogEntries(logs', ns, s)
      <4>1. \A m \in DOMAIN logs : /\ m \in DOMAIN logs'
                                   /\ EntriesOfRecs(Part(logs[m], TRUE)) \subseteq EntriesOfRecs(Part(logs'[m], s))
        <5> TAKE m \in DOMAIN logs
        <5>1. DOMAIN logs' = DOMAIN logs /\ logs'[m] \in Truncations(logs[m])
            BY <1>1 DEF Cuts
        <5>2. logs[m] \in LogFile
            BY <2>1 DEF FilesTypeOK
        <5> QED BY <5>1, <5>2, PartAfterCut
      <4> QED BY <4>1 DEF LogEntries
    <3> QED BY <2>7, <3>1, <3>2 DEF Found
  <2>9. o.op \in OpsOf(Found(logs', tables', Q, n, FALSE)) /\ o.op \in OpsOf(Found(logs', tables', Q, n, TRUE))
      BY <2>6, <2>8 DEF OpsOf
  <2>10. manifests'[current].recs = Q /\ manifests'[current].synced = n
      BY <2>3 DEF Q, R
  <2>11. \A k \in DOMAIN Q : k >= n => k = n
      BY <2>4, <2>7
  <2> QED BY <2>1, <2>7, <2>9, <2>10, <2>11 DEF IsFound
<1> QED BY <1>1, <1>2, DropKept

-----------------------------------------------------------------------------
\* While a database is opened, only what is on disk and what is read of it counts.
LEMMA OpeningKept ==
    ASSUME FilesInv, ~IsOpen, ~IsOpen', UNCHANGED <<bg, queue>>, DiskKeeps', RecoverKeeps'
    PROVE  KeptInv'
<1>1. bg = NoBg /\ queue = <<>>
    BY DEF FilesInv, OnlyWhenOpen, IsOpen
<1>2. bg'.pc = "none"
    BY <1>1, ScheduleFacts
<1>3. OpenKeeps' /\ EditKeeps' /\ GroupKeeps'
    BY <1>1, <1>2 DEF OpenKeeps, EditKeeps, GroupKeeps
<1> QED BY <1>3 DEF KeptInv

\* NewDB: nothing was promised before.
LEMMA NewDBKept == ASSUME FilesInv, KeptInv, NewDB PROVE KeptInv'
<1>1. phase = "closed" /\ current = 0 /\ UNCHANGED <<phase, bg, queue, owed>>
    BY DEF NewDB, writeVars, history
<1>2. owed = {}
    BY <1>1 DEF FilesInv, DiskInv, KeptInv, DiskKeeps
<1>3. DiskKeeps' /\ RecoverKeeps'
    BY <1>1, <1>2 DEF DiskKeeps, RecoverKeeps
<1>4. ~IsOpen /\ ~IsOpen'
    BY <1>1 DEF IsOpen
<1> QED BY <1>1, <1>3, <1>4, OpeningKept

\* The whole manifest is replayed and all logs that it still counts are listed (Recover).
LEMMA RecoverVersionsKept == ASSUME FilesInv, KeptInv, RecoverVersions PROVE KeptInv'
<1> DEFINE last == Last(Recs)
           todo == {n \in DOMAIN logs : n >= last.log}
<1>1. /\ phase = "closed" /\ current # 0
      /\ UNCHANGED <<logs, tables, manifests, current, created, owed, bg, queue>>
    BY DEF RecoverVersions, files, writeVars, history
<1>2. current \in DOMAIN manifests /\ FilesTypeOK
    BY <1>1 DEF FilesInv, DiskInv
<1>3. Recs \in Seq(EditRecord)
    BY <1>2, NumbersOfRecs
<1>4. Readable(Recs) = Recs
    BY <1>3, AllIsReadable, NoneIsTorn
<1>5. phase' = "corrupt" \/ (phase' = "recovering" /\ version' = Replay(Recs) /\ opening' = [NotOpening EXCEPT !.todo = todo])
    BY <1>4 DEF RecoverVersions, Recs
<1>6. DiskKeeps'
  <2>1. \A ns : MoreLogs(logs, logs', ns) /\ MoreContents(tables, tables', ns)
      BY <1>1 DEF MoreLogs, MoreContents
  <2> QED BY <1>1, <2>1, DiskKeepsOn DEF KeptInv
<1>7. RecoverKeeps'
  <2>1. CASE phase' = "corrupt"
      BY <2>1 DEF RecoverKeeps
  <2>2. CASE phase' # "corrupt"
    <3>1. /\ phase' = "recovering" /\ version' = Replay(Recs) /\ opening'.todo = todo /\ opening'.add = {}
          /\ opening'.failed = FALSE
        BY <1>5, <2>2 DEF NotOpening
    <3>2. ASSUME NEW o \in owed
          PROVE  o.op \in OpsOf(Contents(tables, Replay(Recs)) \cup Records(logs, todo))
      <4>1. /\ manifests[current].recs = Recs /\ Len(Recs) \in DOMAIN Recs
            /\ o.op \in OpsOf(Found(logs, tables, Recs, Len(Recs), FALSE))
          BY OwedFacts DEF KeptInv, DiskKeeps, IsFound
      <4>2. last = Recs[Len(Recs)] /\ SubSeq(Recs, 1, Len(Recs)) = Recs
          BY <1>3, ReplayIsAdded DEF Last
      <4>3. Over(last.log) \cap DOMAIN logs = todo \cap DOMAIN logs
          BY <1>2 DEF Over, FilesTypeOK
      <4>4. LogEntries(logs, Over(last.log), FALSE) = Records(logs, todo)
        <5> HIDE DEF last, todo
        <5>1. LogEntries(logs, Over(last.log), FALSE) = Records(logs, Over(last.log))
            BY <1>2, AllOfTheLogs
        <5> QED BY <4>3, <5>1 DEF Records
      <4>5. Found(logs, tables, Recs, Len(Recs), FALSE) = Contents(tables, Replay(Recs)) \cup Records(logs, todo)
          BY <4>2, <4>4 DEF Found
      <4> QED BY <4>1, <4>5
    <3> HIDE DEF todo
    <3> QED BY <1>1, <3>1, <3>2 DEF RecoverKeeps
  <2> QED BY <2>1, <2>2
<1>8. ~IsOpen /\ ~IsOpen'
    BY <1>1, <1>5 DEF IsOpen
<1> QED BY <1>1, <1>6, <1>7, <1>8, OpeningKept

\* A log that cannot be replayed is the last one: no other is passed over.
LEMMA OnlyTheLastFails ==
    ASSUME NoSkippedLogs, FilesInv, RecoverLogFile, opening'.failed PROVE opening'.todo = {}
<1> DEFINE log == Min(opening.todo)
           recs == logs[log].recs
<1>1. opening.todo # {} /\ phase = "recovering" /\ opening.todo \subseteq Nat
    BY DEF RecoverLogFile, FilesInv, VersionTypeOK
<1>2. log \in opening.todo
    BY <1>1, MinIsMember
<1>3. recs \in Seq(LogRecord)
    BY <1>1, <1>2 DEF FilesInv, RecoverInv, FilesTypeOK, LogFile
<1> HIDE DEF recs
<1>4. ~Corrupt(recs)
  <2>1. \A i \in 1 .. Len(recs) - 1 : recs[i] \in LogRecord
      BY <1>3
  <2> QED BY <2>1, NoneIsTorn DEF Corrupt
<1>5. \/ opening'.failed = FALSE
      \/ Corrupt(recs)
      \/ Fault("recover")
      \/ opening.todo = {log} /\ opening'.todo = opening.todo \ {log}
  <2> DEFINE kept == Readable(recs)
             mems == MemTables(kept)
             ends == {opening.maxSequence} \cup {r.seq + Len(r.ops) - 1 : r \in ToSet(kept)}
             Written(n, failed) ==
               /\ tables' = [m \in DOMAIN tables \cup (nextFile .. nextFile + n - 1) |->
                               IF m \in nextFile .. nextFile + n - 1
                               THEN [entries |-> mems[m - nextFile + 1], synced |-> TRUE]
                               ELSE tables[m]]
               /\ opening' = [todo |-> opening.todo \ {log}, maxSequence |-> Max(ends),
                              add |-> opening.add \cup (nextFile .. nextFile + n - 1), failed |-> failed]
               /\ nextFile' = Max({nextFile + n, log + 1})
  <2>1. \/ Written(Len(mems), FALSE)
        \/ Corrupt(recs) /\ Written(0, TRUE)
        \/ /\ Fault("recover") \/ (opening.todo = {log} /\ Fault("replay"))
           /\ \E n \in 0 .. Len(mems) - 1 : Written(n, TRUE)
      BY DEF RecoverLogFile, recs
  <2>2. \A n, failed : Written(n, failed) => opening'.failed = failed /\ opening'.todo = opening.todo \ {log}
    <3> HIDE DEF ends, log, mems
    <3> QED OBVIOUS
  <2> HIDE DEF Written, log, mems
  <2> QED BY <2>1, <2>2
<1>6. ~Fault("recover")
    BY DEF NoSkippedLogs, Fault
<1> QED BY <1>4, <1>5, <1>6

\* What was found in a log is then in a table (RecoverLogFile).
LEMMA RecoverLogFileKept ==
    ASSUME NoSkippedLogs, FilesInv, NumbersInv, KeptInv, RecoverLogFile PROVE KeptInv'
<1> DEFINE log == Min(opening.todo)
           file == logs[log].recs
<1>1. /\ phase = "recovering" /\ log \in opening.todo /\ log \in DOMAIN logs
      /\ UNCHANGED <<logs, manifests, current, created, phase, version, bg, queue, owed>>
      /\ opening'.todo = opening.todo \ {log}
      /\ \A n \in DOMAIN tables : n < nextFile => n \in DOMAIN tables' /\ tables'[n] = tables[n]
      /\ Contents(tables, opening.add) \subseteq Contents(tables', opening'.add)
      /\ ~opening'.failed => EntriesOfRecs(file) \subseteq Contents(tables', opening'.add)
    BY RecoverLogFileFacts
<1>2. Records(logs, opening.todo) \subseteq Records(logs, opening'.todo) \cup EntriesOfRecs(file)
    BY <1>1 DEF Records
<1> HIDE DEF log, file
<1>3. Below(Adds(Recs), nextFile) /\ version \subseteq Adds(Recs)
    BY <1>1 DEF NumbersInv, RecoverBounds
<1>4. DiskKeeps'
  <2>1. MoreContents(tables, tables', Adds(Recs)) /\ \A ns : MoreLogs(logs, logs', ns)
      BY <1>1, <1>3 DEF MoreContents, MoreLogs, Below
  <2> QED BY <1>1, <2>1, DiskKeepsOn DEF KeptInv
<1>5. ~opening.failed
    BY <1>1 DEF KeptInv, RecoverKeeps
<1>6. RecoverKeeps'
  <2>1. opening'.failed => opening'.todo = {}
      BY OnlyTheLastFails
  <2>2. ASSUME ~opening'.failed, NEW o \in owed
        PROVE  o.op \in OpsOf(Contents(tables', version \cup opening'.add) \cup Records(logs, opening'.todo))
    <3>1. Contents(tables, version) \subseteq Contents(tables', version)
        BY <1>1, <1>3 DEF Contents, Below
    <3>2. \A ts, v, w : Contents(ts, v \cup w) = Contents(ts, v) \cup Contents(ts, w)
        BY DEF Contents
    <3>3. Contents(tables, version \cup opening.add) \cup Records(logs, opening.todo) \subseteq
              Contents(tables', version \cup opening'.add) \cup Records(logs, opening'.todo)
      <4>1. /\ Contents(tables, version \cup opening.add) = Contents(tables, version) \cup Contents(tables, opening.add)
            /\ Contents(tables', version \cup opening'.add) = Contents(tables', version) \cup Contents(tables', opening'.add)
          BY <3>2
      <4>2. EntriesOfRecs(file) \subseteq Contents(tables', opening'.add)
          BY <1>1, <2>2
      <4> QED BY <1>1, <1>2, <3>1, <4>1, <4>2
    <3>4. o.op \in OpsOf(Contents(tables, version \cup opening.add) \cup Records(logs, opening.todo))
        BY <1>1, <1>5 DEF KeptInv, RecoverKeeps
    <3> QED BY <3>3, <3>4 DEF OpsOf
  <2> QED BY <1>1, <2>1, <2>2 DEF RecoverKeeps
<1>7. ~IsOpen /\ ~IsOpen'
    BY <1>1 DEF IsOpen
<1> QED BY <1>1, <1>4, <1>6, <1>7, OpeningKept

\* The new manifest is another file, and the new log is empty.
LEMMA WriteNewManifestKept == ASSUME FilesInv, NumbersInv, KeptInv, WriteNewManifest PROVE KeptInv'
<1> DEFINE new == [recs |-> <<>>, synced |-> 0]
<1>1. /\ phase = "recovering" /\ opening.todo = {} /\ ~opening.failed /\ phase' = "current"
      /\ logs' = Put(logs, nextFile, new)
      /\ \E m : manifests' = Put(manifests, manifestNumber, m)
      /\ UNCHANGED <<tables, current, created, owed, opening, version, bg, queue>>
    BY DEF WriteNewManifest, writeVars, history
<1> HIDE DEF new
<1>2. /\ current \in DOMAIN manifests /\ current # manifestNumber /\ nextFile \notin DOMAIN logs
  <2>1. current # 0 /\ current \in Nat /\ manifestNumber \in Nat /\ current < manifestNumber
      BY <1>1 DEF FilesInv, RecoverInv, VersionTypeOK, FilesTypeOK
  <2>2. nextFile \in Nat /\ \A n \in DOMAIN logs : n < nextFile
      BY <1>1 DEF FilesInv, VersionTypeOK, NumbersInv, RecoverBounds
  <2> QED BY <2>1, <2>2 DEF FilesInv, DiskInv
<1>3. manifests'[current] = manifests[current]
    BY <1>1, <1>2 DEF Put
<1>4. \A ns : MoreLogs(logs, logs', ns) /\ MoreContents(tables, tables', ns)
    BY <1>1, <1>2 DEF MoreLogs, MoreContents, Put
<1>5. DiskKeeps'
    BY <1>1, <1>3, <1>4, DiskKeepsOn DEF KeptInv
<1>6. RecoverKeeps'
  <2>1. Records(logs, {}) = {} /\ Records(logs', {}) = {}
      BY DEF Records
  <2> QED BY <1>1, <2>1 DEF KeptInv, RecoverKeeps
<1>7. ~IsOpen /\ ~IsOpen'
    BY <1>1 DEF IsOpen
<1> QED BY <1>1, <1>5, <1>6, <1>7, OpeningKept

\* SetCurrentFile: the new manifest names all tables that were found or made, and they become
\* visible.
LEMMA SetCurrentFileKept == ASSUME FilesInv, FilesInv', NumbersInv, KeptInv, SetCurrentFile PROVE KeptInv'
<1> DEFINE m == manifests[manifestNumber]
           e == m.recs[1]
           log == logfileNumber
           v == version \cup opening.add
<1>1. /\ phase = "current" /\ phase' = "open" /\ current' = manifestNumber /\ created' = TRUE
      /\ version' = v /\ logNumber' = log
      /\ logs' = [k \in {n \in DOMAIN logs : n >= log} |-> logs[k]]
      /\ tables' = [k \in {n \in DOMAIN tables : n \in v} |-> tables[k]]
      /\ manifests' = [k \in {n \in DOMAIN manifests : n >= manifestNumber} |-> manifests[k]]
      /\ bg' = MaybeScheduleCompaction(bg, "open", FALSE, imm, version')
      /\ UNCHANGED <<mem, imm, logfileNumber, lastSequence, queue, writer, owed>>
    BY DEF SetCurrentFile, DeleteObsoleteFiles, Keep, memVars, writeVars
<1>2. /\ FilesTypeOK /\ DOMAIN logs \subseteq Nat /\ log \in Nat
      /\ manifestNumber \in Nat /\ manifestNumber \in DOMAIN manifests
      /\ Len(m.recs) = 1 /\ e.add = v /\ lastSequence \in Nat
    BY <1>1 DEF FilesInv, VersionTypeOK, FilesTypeOK, NewManifestInv
<1>3. m.recs \in Seq(EditRecord)
    BY <1>2 DEF FilesTypeOK, ManifestFile
<1>4. /\ AtMost(Contents(tables, version), lastSequence) /\ AtMost(Contents(tables, opening.add), lastSequence)
      /\ (\A n \in DOMAIN logs : n <= log) /\ logs[log].recs = <<>> /\ e.log = log
    BY <1>1 DEF NumbersInv, RecoverBounds
<1>5. bg = NoBg /\ imm = <<>> /\ queue = <<>>
    BY <1>1 DEF FilesInv, OnlyWhenOpen, IsOpen
<1>6. manifests'[manifestNumber] = m
  <2>1. manifestNumber >= manifestNumber
      BY <1>2
  <2> QED BY <1>1, <1>2, <2>1
<1> HIDE DEF e
<1>7. Replay(SubSeq(m.recs, 1, 1)) = v /\ DOMAIN m.recs = {1} /\ m.recs[1] = e
  <2> DEFINE R == m.recs
  <2>1. R \in Seq(EditRecord) /\ Len(R) = 1
      BY <1>2, <1>3
  <2> HIDE DEF R
  <2>2. Replay(R) = R[1].add /\ SubSeq(R, 1, Len(R)) = R /\ DOMAIN R = 1 .. 1 /\ 1 .. 1 = {1}
      BY <2>1, ReplayOfOne, ReplayIsAdded
  <2> QED BY <1>2, <2>1, <2>2 DEF R, e
<1> HIDE DEF m, v
<1>8. Contents(tables, v) = Contents(tables', v)
    BY <1>1 DEF Contents
<1>9. AtMost(Contents(tables, v), lastSequence)
    BY <1>4 DEF AtMost, Contents, v
<1>10. ASSUME NEW o \in owed PROVE o.op \in OpsOf(Contents(tables', v))
  <2>1. opening.todo = {} /\ Records(logs, {}) = {}
      BY <1>1 DEF KeptInv, RecoverKeeps, Records
  <2>2. o.op \in OpsOf(Contents(tables, v) \cup Records(logs, opening.todo))
      BY <1>1 DEF KeptInv, RecoverKeeps, v
  <2> QED BY <1>8, <2>1, <2>2
<1>11. DiskKeeps'
  <2> SUFFICES ASSUME NEW o \in owed PROVE IsFound(o, logs', tables', m)
      BY <1>1, <1>6 DEF DiskKeeps
  <2>1. \A s : Contents(tables', v) \subseteq Found(logs', tables', m.recs, 1, s)
      BY <1>7 DEF Found
  <2>2. \A s : o.op \in OpsOf(Found(logs', tables', m.recs, 1, s))
      BY <1>10, <2>1 DEF OpsOf
  <2> QED BY <1>2, <1>7, <2>2 DEF IsFound, m
<1>12. Recs' = m.recs
    BY <1>1, <1>6 DEF Recs
<1>13. \A n \in DOMAIN logs' : n = log /\ logs'[n] = logs[log]
    BY <1>1, <1>2, <1>4
<1>14. \A ns : Records(logs', ns) = {}
  <2>1. EntriesOfRecs(<<>>) = {}
    <3>1. DOMAIN <<>> = {}
        OBVIOUS
    <3> QED BY <3>1 DEF EntriesOfRecs
  <2> QED BY <1>4, <1>13, <2>1 DEF Records
<1>15. OpenKeeps'
  <2>1. \A o \in owed : o.op \in Visible'
    <3>1. EntriesOf(version)' = Contents(tables', v)
        BY <1>1 DEF EntriesOf, Contents
    <3> QED BY <1>1, <1>8, <1>9, <1>10, <3>1 DEF OpsOf, Visible, AtMost
  <2>2. Len(Recs') = 1 /\ Recs'[1].log = log /\ log >= log
      BY <1>2, <1>4, <1>7, <1>12 DEF m
  <2> QED BY <1>1, <1>14, <2>1, <2>2 DEF OpenKeeps
<1>16. EditKeeps'
  <2>1. (bg' = NoBg \/ bg' = [NoBg EXCEPT !.pc = "scheduled"])
    <3> HIDE DEF NoBg
    <3> QED BY <1>1, <1>5 DEF MaybeScheduleCompaction
  <2>2. bg'.pc \in {"none", "scheduled"}
      BY <2>1, ScheduleFacts
  <2> QED BY <2>2 DEF EditKeeps
<1>17. GroupKeeps'
    BY <1>1, <1>5 DEF GroupKeeps
<1>18. RecoverKeeps'
    BY <1>1 DEF RecoverKeeps
<1> QED BY <1>11, <1>15, <1>16, <1>17, <1>18 DEF KeptInv

-----------------------------------------------------------------------------
\* Initially nothing is promised.
LEMMA KeptInitially == ASSUME DBInit PROVE KeptInv
<1>1. owed = {} /\ phase = "closed" /\ bg.pc = "none" /\ queue = <<>>
  <2>1. owed = {} /\ phase = "closed" /\ bg = NoBg /\ queue = <<>>
      BY DEF DBInit
  <2> QED BY <2>1 DEF NoBg
<1> QED BY <1>1 DEF KeptInv, DiskKeeps, OpenKeeps, EditKeeps, GroupKeeps, RecoverKeeps, IsOpen

\* Every step keeps what was promised.
LEMMA KeptStep ==
    ASSUME NoTornWrites, NoSkippedLogs, FilesInv, FilesInv', NumbersInv, KeptInv, [DBNext]_dbVars
    PROVE  KeptInv'
<1>1. CASE UNCHANGED dbVars
    BY <1>1, StutterKept
<1>2. CASE \/ \E w \in Writers, kind \in Kinds : EnterWrite(w, kind)
           \/ \E w \in Writers : WriteFails(w) \/ HasRoom(w) \/ WaitForRoom(w) \/ SwitchFails(w)
           \/ NewIterator \/ (\E v \in iters : CleanupIterator(v)) \/ Close
    BY <1>2, UsersKept
<1>3. ASSUME NEW w \in Writers, SwitchMemTable(w) \/ AddRecord(w) \/ FinishWrite(w) PROVE KeptInv'
    BY <1>3, SwitchKept, AddRecordKept, FinishWriteKept
<1>4. CASE BackgroundStep
    BY <1>4, BeginKept, BuildTableKept, FinishMergeKept, InstallKept, AddManifestRecordKept DEF BackgroundStep
<1>5. CASE OpenStep \/ CloseDone \/ ProcessCrash \/ MachineCrash
    BY <1>5, ProcessEndKept, MachineCrashKept, NewDBKept, RecoverVersionsKept, RecoverLogFileKept,
       WriteNewManifestKept, SetCurrentFileKept DEF OpenStep
<1> QED BY <1>1, <1>2, <1>3, <1>4, <1>5 DEF DBNext, WriterStep

\* What was promised is kept in every state.
LEMMA KeptInvariant ==
    ASSUME NoTornWrites, NoSkippedLogs PROVE DBSpec => [](FilesInv /\ NumbersInv /\ KeptInv)
<1>1. DBInit => KeptInv
    BY KeptInitially
<1>2. FilesInv /\ FilesInv' /\ NumbersInv /\ KeptInv /\ [DBNext]_dbVars => KeptInv'
    BY KeptStep
<1>3. DBSpec => [](FilesInv /\ NumbersInv)
    BY NumbersInvariant
<1> QED BY <1>1, <1>2, <1>3, PTL DEF DBSpec

\* Whatever fails, crashes or is retried, as long as no append is torn and no log that cannot be
\* replayed is passed over: every write whose Write returned OK, if it asked for sync or only
\* processes crashed since, is visible whenever the database is open (DBImpl::Write,
\* WriteLevel0Table, LogAndApply, DBImpl::Recover, DeleteObsoleteFiles).
THEOREM WritesSurvive ==
    ASSUME NoTornWrites, NoSkippedLogs PROVE DBSpec => []AckedWritesSurvive
<1>1. KeptInv => AckedWritesSurvive
    BY DEF KeptInv, OpenKeeps, AckedWritesSurvive, IsOpen
<1> QED BY <1>1, KeptInvariant, PTL
=============================================================================
