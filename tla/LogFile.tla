------------------------------ MODULE LogFile -------------------------------
(***************************************************************************)
(* The write-ahead log and MANIFEST format of leveldb: log::Writer cuts a  *)
(* record into fragments that do not cross block boundaries                *)
(* (db/log_writer.cc); log::Reader puts records together again from what a *)
(* crash, a failed append or a flipped byte left of them                   *)
(* (db/log_reader.cc).                                                     *)
(*                                                                         *)
(* A byte of the file is [of, i]: byte i of a fragment, header included.   *)
(* The fragment carries the record it is part of.  Offsets count from 0.   *)
(***************************************************************************)
EXTENDS Integers, Sequences, SequencesExt, FiniteSets

CONSTANTS
    BlockBytes,     \* kBlockSize
    HeaderBytes,    \* kHeaderSize; its last byte stands for the length
    Lengths,        \* lengths of records
    Offsets,        \* values of initial_offset
    LogFaults,      \* what may go wrong: subset of {"append", "crash", "flip",
                    \* "read"}
    MaxRecords      \* bound: records written

ASSUME LogAssumption ==
    /\ HeaderBytes \in Nat \ {0, 1} /\ BlockBytes \in Nat /\ BlockBytes > HeaderBytes
    /\ Lengths \subseteq Nat /\ Offsets \subseteq Nat

VARIABLES
    file,       \* the bytes of the file
    flipped,    \* the offsets of bytes that changed on the disk
    offset,     \* Writer::block_offset_
    pending,    \* the record being added: its number, bytes left, whether begun
    records,    \* lengths of the records added, in order; ghost
    faults,     \* the faults that happened; ghost
    reader      \* the Reader with its caller's results, or NoReader

logVars == <<file, flipped, offset, pending, records, faults, reader>>

NoReader == [pc |-> "none"]
Idle == [left |-> 0, begun |-> TRUE, active |-> FALSE]

LogInit ==
    /\ file = <<>> /\ flipped = {} /\ offset = 0 /\ pending = Idle
    /\ records = <<>> /\ faults = {} /\ reader = NoReader

-----------------------------------------------------------------------------
\* Writer::AddRecord is entered with a record of n bytes.
AddRecord(n) ==
    /\ reader = NoReader /\ ~pending.active /\ "crash" \notin faults
    /\ Len(records) < MaxRecords
    /\ records' = Append(records, n)
    /\ pending' = [left |-> n, begun |-> FALSE, active |-> TRUE]
    /\ UNCHANGED <<file, flipped, offset, faults, reader>>

\* The start of a turn of its loop: a new block when the header does not fit.
Leftover == BlockBytes - offset
BlockOffset == IF Leftover < HeaderBytes THEN 0 ELSE offset
Trailer == IF Leftover < HeaderBytes
           THEN [i \in 1 .. Leftover |-> [of |-> [type |-> "zero"], i |-> i]] ELSE <<>>

FragmentType(begin, end) ==
    IF begin THEN IF end THEN "full" ELSE "first"
    ELSE IF end THEN "last" ELSE "middle"

\* The fragment of this turn.  "from" is where its payload starts in the record.
Fragment ==
    LET avail == BlockBytes - BlockOffset - HeaderBytes
        n == IF pending.left < avail THEN pending.left ELSE avail
    IN  [type |-> FragmentType(~pending.begun, n = pending.left), record |-> Len(records),
         from |-> records[Len(records)] - pending.left, length |-> n]

BytesOf(f) == [i \in 1 .. HeaderBytes + f.length |-> [of |-> f, i |-> i]]

\* A turn of the loop, EmitPhysicalRecord included.
EmitPhysicalRecord ==
    LET f == Fragment
    IN  /\ pending.active
        /\ file' = file \o Trailer \o BytesOf(f)
        /\ offset' = BlockOffset + HeaderBytes + f.length
        /\ pending' = [left |-> pending.left - f.length, begun |-> TRUE,
                       active |-> pending.left > f.length]
        /\ UNCHANGED <<flipped, records, faults, reader>>

\* An Append fails after n bytes of the fragment: the rest of the record is not
\* written, and block_offset_ advances as if the fragment were.
AppendFails(n) ==
    LET f == Fragment
    IN  /\ pending.active /\ "append" \in LogFaults \ faults
        /\ n < HeaderBytes + f.length
        /\ file' = file \o Trailer \o SubSeq(BytesOf(f), 1, n)
        /\ offset' = BlockOffset + HeaderBytes + f.length
        /\ pending' = Idle
        /\ faults' = faults \cup {"append"}
        /\ UNCHANGED <<flipped, records, reader>>

-----------------------------------------------------------------------------
\* The process or machine stops, and the file keeps its first n bytes.
LogCrash(n) ==
    /\ reader = NoReader /\ "crash" \in LogFaults \ faults
    /\ file' = SubSeq(file, 1, n)
    /\ flipped' = {at \in flipped : at < n}
    /\ pending' = Idle
    /\ faults' = faults \cup {"crash"}
    /\ UNCHANGED <<offset, records, reader>>

\* The writer is done: it has written its records or was stopped.
WriterDone == ~pending.active /\ ("crash" \in faults \/ Len(records) = MaxRecords)

\* A byte of the file changes on the disk; when it does so makes no difference, as
\* the writer does not read.
Flip(at) ==
    /\ reader = NoReader /\ WriterDone /\ "flip" \in LogFaults \ faults
    /\ flipped' = {at}
    /\ faults' = faults \cup {"flip"}
    /\ UNCHANGED <<file, offset, pending, records, reader>>

-----------------------------------------------------------------------------
\* Reader: the block in buffer_ is [at, end) (end is end_of_buffer_offset_),
\* scratch and in_fragmented_record are ReadRecord's, "start" is its
\* prospective_record_offset, "physical" its physical_record_offset: where the buffer
\* began when it called ReadPhysicalRecord, before a trailer was skipped.  "got" and
\* "reports" are what its caller has seen.
\* SkipToInitialBlock is part of the first ReadRecord; its Skip cannot fail.  No
\* record starts before initial_offset, so later calls do not skip again.
InitialBlock(initial) ==
    LET inBlock == initial % BlockBytes
        start == initial - inBlock
    IN  IF inBlock > BlockBytes - (HeaderBytes - 1) THEN start + BlockBytes ELSE start

NewReader(initial) ==
    /\ reader = NoReader /\ WriterDone
    /\ reader' = [pc |-> "read", initial |-> initial, at |-> InitialBlock(initial),
                  end |-> InitialBlock(initial), eof |-> FALSE, inside |-> FALSE,
                  physical |-> InitialBlock(initial), scratch |-> <<>>, start |-> 0,
                  got |-> <<>>, reports |-> 0]
    /\ UNCHANGED <<file, flipped, offset, pending, records, faults>>

\* ReportDrop: the reporter hears of dropped bytes behind the initial offset.  When
\* more are dropped than there are in front, the unsigned difference wraps around.
ReportDrop(r, bytes) ==
    IF r.at < bytes \/ r.at - bytes >= r.initial THEN [r EXCEPT !.reports = @ + 1] ELSE r

Drop(r) == [r EXCEPT !.at = r.end]        \* buffer_.clear()
Between(n, lo, hi) == IF n < lo THEN lo ELSE IF n > hi THEN hi ELSE n

\* The next block is read when less than a header is left.
BlockIsDue == reader.pc = "read" /\ reader.end - reader.at < HeaderBytes /\ ~reader.eof
LeftToRead(r) == Between(Len(file) - r.end, 0, BlockBytes)
ReadBlock ==
    LET size == LeftToRead(reader)
    IN  /\ BlockIsDue
        /\ reader' = [reader EXCEPT !.at = reader.end, !.end = @ + size, !.eof = size < BlockBytes]
        /\ UNCHANGED <<file, flipped, offset, pending, records, faults>>

\* kEof: the caller gets no more records; a record begun is ignored.
AtEof(r) == [Drop(r) EXCEPT !.pc = "done", !.scratch = <<>>, !.inside = FALSE]

\* file_->Read fails with n bytes read: they are dropped, and a block is reported.
ReadFails(n) ==
    LET r == [reader EXCEPT !.at = reader.end + n, !.end = @ + n, !.eof = TRUE]
    IN  /\ BlockIsDue /\ "read" \in LogFaults \ faults /\ n <= LeftToRead(reader)
        /\ reader' = AtEof(ReportDrop(r, BlockBytes))
        /\ faults' = faults \cup {"read"}
        /\ UNCHANGED <<file, flipped, offset, pending, records>>

\* What ReadPhysicalRecord makes of the buffer: the fragment at its start if all
\* its bytes are there, in order and unchanged ("ok"); zeros; too short for the
\* length it claims; or not matching its checksum.  Bytes that are not a header,
\* or a header with a flipped byte, may be any of the latter two.
Byte(n) == file[n + 1]
Whole(f, at, n) == \A i \in 1 .. n : Byte(at + i - 1) = [of |-> f, i |-> i]
Parse(at, end) ==
    LET f == Byte(at).of
        header == at .. at + HeaderBytes - 1
        size == HeaderBytes + f.length
    IN  IF \E n \in header : n \in flipped \/ Byte(n).of # f \/ Byte(n).i # n - at + 1
        THEN {"short", "mismatch"}
             \cup (IF \A n \in header : Byte(n).of.type = "zero" THEN {"zero"} ELSE {})
        ELSE IF f.type = "zero" THEN {"zero"}
        ELSE IF at + size > end THEN {"short"}
        ELSE IF Whole(f, at, size) /\ flipped \cap (at .. at + size - 1) = {} THEN {"ok"}
        ELSE {"mismatch"}

\* kBadRecord: what is inside is dropped, and said so.
BadRecord(r) ==
    LET told == IF r.inside THEN ReportDrop(r, Len(r.scratch)) ELSE r
    IN  [told EXCEPT !.inside = FALSE, !.scratch = <<>>]
Told(r) == ReportDrop(Drop(r), r.end - r.at)

Payload(f) == [i \in 1 .. f.length |-> <<f.record, f.from + i>>]
Finish(r, payload, start) ==
    [r EXCEPT !.got = Append(@, [bytes |-> payload, start |-> start]), !.inside = FALSE,
              !.scratch = <<>>]

\* A later fragment of a record whose first one was not read.
Orphan(r, f) == f.type \in {"middle", "last"} /\ ~r.inside

\* Mutant: what is left of the record before stays in scratch.
TakeTogether(r, f) ==
    IF Orphan(r, f) THEN ReportDrop(r, f.length)
    ELSE CASE f.type = "full"   -> Finish(r, r.scratch \o Payload(f), r.physical)
           [] f.type = "first"  -> [r EXCEPT !.scratch = @ \o Payload(f), !.inside = TRUE,
                                           !.start = r.physical]
           [] f.type = "middle" -> [r EXCEPT !.scratch = @ \o Payload(f)]
           [] f.type = "last"   -> Finish(r, r.scratch \o Payload(f), r.start)

\* ReadRecord's switch on a fragment that was read.
Take(r, f) ==
    LET told == IF r.inside /\ r.scratch # <<>> THEN ReportDrop(r, Len(r.scratch)) ELSE r
    IN  IF Orphan(r, f) THEN ReportDrop(r, f.length)
        ELSE CASE f.type = "full"   -> Finish(told, Payload(f), r.physical)
               [] f.type = "first"  -> [told EXCEPT !.scratch = Payload(f), !.inside = TRUE,
                                           !.start = r.physical]
               [] f.type = "middle" -> [r EXCEPT !.scratch = @ \o Payload(f)]
               [] f.type = "last"   -> Finish(r, r.scratch \o Payload(f), r.start)

\* ReadRecord calls ReadPhysicalRecord again.
Again(r) == [r EXCEPT !.physical = r.at]

ReadPhysicalRecord ==
    LET r == reader
        at == r.at
        f == Byte(at).of
    IN  /\ r.pc = "read" /\ r.end - r.at >= HeaderBytes
        /\ \E what \in Parse(r.at, r.end) :
              reader' = Again(
                 CASE what = "short" -> IF r.eof THEN AtEof(r) ELSE BadRecord(Told(r))
                   [] what = "zero"     -> BadRecord(Drop(r))
                   [] what = "mismatch" -> BadRecord(Told(r))
                   [] what = "ok"       ->
                        LET past == [r EXCEPT !.at = at + HeaderBytes + f.length]
                        IN  IF at < r.initial THEN BadRecord(past) ELSE Take(past, f))
        /\ UNCHANGED <<file, flipped, offset, pending, records, faults>>

EndOfFile ==
    /\ reader.pc = "read" /\ reader.end - reader.at < HeaderBytes /\ reader.eof
    /\ reader' = AtEof(reader)
    /\ UNCHANGED <<file, flipped, offset, pending, records, faults>>

LogNext ==
    \/ \E n \in Lengths : AddRecord(n)
    \/ EmitPhysicalRecord
    \/ \E n \in 0 .. BlockBytes : AppendFails(n)
    \/ \E n \in 0 .. Len(file) : LogCrash(n)
    \/ \E at \in 0 .. Len(file) - 1 : Flip(at)
    \/ \E initial \in Offsets : NewReader(initial)
    \/ ReadBlock
    \/ \E n \in 0 .. BlockBytes - 1 : ReadFails(n)
    \/ ReadPhysicalRecord
    \/ EndOfFile

LogSpec == LogInit /\ [][LogNext]_logVars /\ WF_logVars(ReadBlock \/ ReadPhysicalRecord \/ EndOfFile)

-----------------------------------------------------------------------------
LogTypeOK ==
    /\ offset \in 0 .. BlockBytes
    /\ \A n \in flipped : n < Len(file)
    /\ pending.active => records # <<>> /\ pending.left \in 0 .. records[Len(records)]
    /\ faults \subseteq LogFaults
    /\ reader # NoReader => reader.physical <= reader.at /\ reader.at <= reader.end

\* The whole payload of record r, and where its bytes are in the file.
RecordBytes(r) == [i \in 1 .. records[r] |-> <<r, i>>]
Placed(r) == {n \in 0 .. Len(file) - 1 : Byte(n).of.type # "zero" /\ Byte(n).of.record = r}
\* Every byte of record r was written and has survived.
Intact(r) ==
    \E n \in Placed(r) : Byte(n).of.type \in {"full", "last"}
                            /\ Byte(n).i = HeaderBytes + Byte(n).of.length
Start(r) == CHOOSE n \in Placed(r) : \A m \in Placed(r) : n <= m
BlockOf(n) == n \div BlockBytes
\* LastRecordOffset names the trailer in front of a record, if the reader came by it.
TrailerBefore(n) ==
    IF n % BlockBytes # 0 THEN 0
    ELSE Cardinality({m \in 0 .. n - 1 : BlockOf(m) = BlockOf(n) - 1 /\ Byte(m).of.type = "zero"})
Reported(r) ==
    LET n == Start(r)
    IN  IF n = InitialBlock(reader.initial) THEN n ELSE n - TrailerBefore(n)
Read == IF reader = NoReader THEN <<>> ELSE reader.got

\* Reader never makes up a record: whatever was torn, cut off or flipped, each one
\* it returns is one that was written, whole, and in the order of writing
\* (ReadRecord never joins fragments of two records, log_reader.cc:74-162).
NothingInvented ==
    \E number \in [DOMAIN Read -> 1 .. Len(records)] :
        /\ \A i \in DOMAIN Read : Read[i].bytes = RecordBytes(number[i])
        /\ \A i, j \in DOMAIN Read : i < j => number[i] < number[j]

\* A crash is not corruption: when nothing but the end of the file is missing, the
\* reader returns every record that is still whole and starts at or after
\* initial_offset, and from offset 0 reports nothing (log_reader.cc:135-141,
\* 199-205, 221-224).
CutOffIsNotCorruption ==
    (reader.pc = "done" /\ faults \subseteq {"crash"}) =>
        /\ {Read[i].start : i \in DOMAIN Read} =
              {Reported(r) : r \in {x \in DOMAIN records : Intact(x) /\ Start(x) >= reader.initial}}
        /\ reader.initial = 0 => reader.reports = 0

\* A flipped byte costs only the records that have a byte in its block: dropping
\* the rest of the buffer (log_reader.cc:239-248) never loses more.
DamageStaysInBlock ==
    (reader.pc = "done" /\ faults \subseteq {"crash", "flip"}) =>
        \A r \in DOMAIN records :
            (/\ Intact(r) /\ Start(r) >= reader.initial
             /\ \A n \in flipped, m \in Placed(r) : BlockOf(n) # BlockOf(m))
              => \E i \in DOMAIN Read : Read[i].start \in {Start(r), Reported(r)}

\* A log that is read from its beginning is never cut short in silence: a failed read
\* is reported even in the first block, where the offset of what is dropped wraps
\* around (log_reader.cc:174-177, 188-194).  No record that is returned has an offset
\* before initial_offset, so SkipToInitialBlock is not entered a second time.
OffsetsHold ==
    /\ \A i \in DOMAIN Read : Read[i].start >= reader.initial
    /\ (reader.pc = "done" /\ "read" \in faults /\ reader.initial = 0) => reader.reports > 0

\* Reading a log ends, however it is damaged.
ReadingEnds == [](reader.pc = "read" => <>(reader.pc = "done"))

\* What a crash, a failed append or a flipped byte leaves of a log is read as what it
\* is: records that were written, all that are whole, no more lost than the damage.
LogReadsBack == NothingInvented /\ CutOffIsNotCorruption /\ DamageStaysInBlock /\ OffsetsHold
=============================================================================
