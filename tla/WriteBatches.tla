---------------------------- MODULE WriteBatches ----------------------------
(***************************************************************************)
(* WriteBatch and WriteBatchInternal (db/write_batch.cc): batches as the   *)
(* bytes that go to the log and come back from it, joined when writes are  *)
(* grouped (DBImpl::BuildBatchGroup) and replayed into a memtable.         *)
(***************************************************************************)
EXTENDS Coding

CONSTANTS
    SliceLengths,   \* lengths of keys and values
    MaxUpdates      \* bound: updates in the batches

VARIABLES
    batch,      \* rep_ of a batch
    other,      \* rep_ of a second one, to be appended
    updates     \* the updates each holds; ghost

batchVars == <<batch, other, updates>>

Header == Bytes64 + Bytes32            \* kHeader
SliceOf(n) == [i \in 1 .. n |-> (n + i) % ByteValues]
kTypeDeletion == 0
kTypeValue == 1

EmptyRep == [i \in 1 .. Header |-> 0]
Count(rep) == DecodeFixed(rep, Bytes64 + 1, Bytes32)
Sequence(rep) == DecodeFixed(rep, 1, Bytes64)
Data(rep) == After(rep, Header)
SetCount(rep, n) == SubSeq(rep, 1, Bytes64) \o EncodeFixed(n, Bytes32) \o Data(rep)
SetSequence(rep, seq) == EncodeFixed(seq, Bytes64) \o After(rep, Bytes64)

Put(rep, key, value) ==
    SetCount(rep, Count(rep) + 1) \o <<kTypeValue>>
      \o PutLengthPrefixedSlice(key) \o PutLengthPrefixedSlice(value)
Delete(rep, key) ==
    SetCount(rep, Count(rep) + 1) \o <<kTypeDeletion>> \o PutLengthPrefixedSlice(key)
\* Mutant: the count is that of the second batch.
AppendBatchRecount(dst, src) == SetCount(dst, Count(src)) \o Data(src)

AppendBatch(dst, src) == SetCount(dst, Count(dst) + Count(src)) \o Data(src)

\* WriteBatch::Iterate: the updates handed to the handler, and whether the batch is
\* well formed.  Updates are handed over before a later fault is met.
Iterate(rep) ==
    LET kinds == [t \in {kTypeValue, kTypeDeletion} |->
                    IF t = kTypeValue THEN <<"slice", "slice">> ELSE <<"slice">>]
        Bad == [ok |-> FALSE, found |-> <<>>]
        Before(value, more) == [more EXCEPT !.found = <<value>> \o @]
        step[input \in Seq(0 .. ByteValues - 1)] ==
            LET Go(got) == IF got.ok THEN Before(got.value, step[got.rest]) ELSE Bad
            IN  IF input = <<>> THEN [ok |-> TRUE, found |-> <<>>]
                ELSE IF Head(input) \notin DOMAIN kinds THEN Bad
                ELSE Go(InTurn(Tail(input), kinds[Head(input)]))
        Counted(all) == [all EXCEPT !.ok = @ /\ Len(all.found) = Count(rep)]
    IN  IF Len(rep) < Header THEN Bad ELSE Counted(step[Data(rep)])

\* WriteBatchInternal::InsertInto with MemTableInserter: one sequence number per
\* update, from that of the batch.
Numbered(rep, found) == {[sequence |-> Sequence(rep) + i - 1, update |-> found[i]] : i \in DOMAIN found}
InsertInto(rep) ==
    LET Inserted(got) == [ok |-> got.ok, mem |-> Numbered(rep, got.found)] IN Inserted(Iterate(rep))

-----------------------------------------------------------------------------
BatchInit == batch = EmptyRep /\ other = EmptyRep /\ updates = [batch |-> <<>>, other |-> <<>>]

BatchPut(key, value) ==
    /\ Len(updates.batch \o updates.other) < MaxUpdates
    /\ batch' = Put(batch, key, value)
    /\ updates' = [updates EXCEPT !.batch = Append(@, <<key, value>>)]
    /\ UNCHANGED other

BatchDelete(key) ==
    /\ Len(updates.batch \o updates.other) < MaxUpdates
    /\ batch' = Delete(batch, key)
    /\ updates' = [updates EXCEPT !.batch = Append(@, <<key>>)]
    /\ UNCHANGED other

\* The batch of the first writer is put aside, and joined by the next one's.
NextWriter ==
    /\ updates.batch # <<>> /\ updates.other = <<>>
    /\ other' = batch /\ batch' = EmptyRep
    /\ updates' = [batch |-> <<>>, other |-> updates.batch]
Group ==
    /\ updates.other # <<>>
    /\ batch' = AppendBatch(other, batch) /\ other' = EmptyRep
    /\ updates' = [batch |-> updates.other \o updates.batch, other |-> <<>>]
Number(seq) ==
    /\ batch' = SetSequence(batch, seq)
    /\ UNCHANGED <<other, updates>>

Slices == {SliceOf(n) : n \in SliceLengths}
Sequences == {1, Word(Bytes32) - 1, Word(Bytes32)}

BatchNext ==
    \/ \E key, value \in Slices : BatchPut(key, value)
    \/ \E key \in Slices : BatchDelete(key)
    \/ NextWriter
    \/ Group
    \/ \E seq \in Sequences : Number(seq)

\* A batch replays to the updates it was built and grouped from, in their order and
\* under consecutive sequence numbers (write_batch.cc:42-80, 117-134, 141-145), and
\* a batch of which the log kept only a part is never taken for a whole one.
BatchReplays ==
    /\ InsertInto(batch) = [ok |-> TRUE, mem |-> Numbered(batch, updates.batch)]
    /\ \A n \in 0 .. Len(batch) - 1 : ~InsertInto(SubSeq(batch, 1, n)).ok
=============================================================================
