---------------------------- MODULE VersionEdits ----------------------------
(***************************************************************************)
(* VersionEdit (db/version_edit.cc): the records of a MANIFEST, encoded as *)
(* tagged fields and decoded when the database is opened.                  *)
(***************************************************************************)
EXTENDS Coding

CONSTANTS
    Numbers,        \* file numbers, sizes and sequence numbers
    EditLevels,     \* levels; kNumLevels is one more than the greatest
    EditKeys,       \* lengths of internal keys and names
    MaxFields       \* bound: fields of an edit

VARIABLE edit       \* a VersionEdit: fields that are set, as sets, and lists

NoEdit == [comparator |-> {}, scalars |-> {}, pointers |-> <<>>, deleted |-> {}, added |-> <<>>]

\* Tags of the numbers, in the order EncodeTo writes them: log, previous log, next
\* file, last sequence.
ScalarTags == <<2, 9, 3, 4>>
kComparator == 1
kCompactPointer == 5
kDeletedFile == 6
kNewFile == 7

KeyOf(n) == [i \in 1 .. n |-> i]

Concat(parts) == FoldLeft(LAMBDA a, b : a \o b, <<>>, parts)

\* A set of <<level, number>> in the order of std::set.
DeletedInOrder(S) ==
    SortSeq(SetToSeq(S), LAMBDA a, b : a[1] < b[1] \/ (a[1] = b[1] /\ a[2] < b[2]))

EncodeTo(e) ==
    Concat(SetToSeq({PutVarint(kComparator) \o PutLengthPrefixedSlice(name) : name \in e.comparator}))
    \o Concat([i \in DOMAIN ScalarTags |->
               Concat(SetToSeq({PutVarint(f[1]) \o PutVarint(f[2]) :
                                   f \in {x \in e.scalars : x[1] = ScalarTags[i]}}))])
    \o Concat([i \in DOMAIN e.pointers |->
               PutVarint(kCompactPointer) \o PutVarint(e.pointers[i][1])
                 \o PutLengthPrefixedSlice(e.pointers[i][2])])
    \o Concat([i \in DOMAIN DeletedInOrder(e.deleted) |->
               LET d == DeletedInOrder(e.deleted)[i]
               IN  PutVarint(kDeletedFile) \o PutVarint(d[1]) \o PutVarint(d[2])])
    \o Concat([i \in DOMAIN e.added |->
               LET f == e.added[i]
               IN  PutVarint(kNewFile) \o PutVarint(f[1]) \o PutVarint(f[2]) \o PutVarint(f[3])
                     \o PutLengthPrefixedSlice(f[4]) \o PutLengthPrefixedSlice(f[5])])

\* What DecodeFrom reads behind a tag.
Layout(tag) ==
    CASE tag = kComparator            -> <<"slice">>
      [] tag \in {2, 3, 4, 9}         -> <<"varint64">>
      [] tag = kCompactPointer        -> <<"varint32", "slice">>
      [] tag = kDeletedFile           -> <<"varint32", "varint64">>
      [] tag = kNewFile               -> <<"varint32", "varint64", "varint64", "slice", "slice">>
      [] OTHER                        -> <<>>
HasLevel(tag) == tag \in {kCompactPointer, kDeletedFile, kNewFile}

Put1(e, tag, value) ==
    CASE tag = kComparator     -> [e EXCEPT !.comparator = {value[1]}]
      [] tag = kCompactPointer -> [e EXCEPT !.pointers = Append(@, value)]
      [] tag = kDeletedFile    -> [e EXCEPT !.deleted = @ \cup {value}]
      [] tag = kNewFile        -> [e EXCEPT !.added = Append(@, value)]
      [] OTHER                 -> [e EXCEPT !.scalars = {x \in @ : x[1] # tag} \cup {<<tag, value[1]>>}]

\* DecodeFrom, into a new VersionEdit.
DecodeFrom(src) ==
    LET Taken(s, tag, got) ==
            IF ~got.ok \/ (HasLevel(tag) /\ got.value[1] > Max(EditLevels))
            THEN [s EXCEPT !.ok = FALSE]
            ELSE [ok |-> TRUE, rest |-> got.rest, edit |-> Put1(s.edit, tag, got.value)]
        Tagged(s, tag) ==
            IF ~tag.ok \/ Layout(tag.value) = <<>> THEN [s EXCEPT !.ok = FALSE]
            ELSE Taken(s, tag.value, InTurn(tag.rest, Layout(tag.value)))
        Turn(s, i) == IF ~s.ok \/ s.rest = <<>> THEN s ELSE Tagged(s, GetVarint32(s.rest))
    IN  FoldLeft(Turn, [ok |-> TRUE, rest |-> src, edit |-> NoEdit], [i \in 1 .. Len(src) |-> i])

-----------------------------------------------------------------------------
Fields(e) ==
    Cardinality(e.comparator) + Cardinality(e.scalars) + Len(e.pointers) + Cardinality(e.deleted) + Len(e.added)

EditInit == edit = NoEdit

SetField(tag, value) ==
    /\ Fields(edit) < MaxFields
    /\ edit' = Put1(edit, tag, value)

EditNext ==
    \/ \E n \in EditKeys : SetField(kComparator, <<KeyOf(n)>>)                  \* SetComparatorName
    \/ \E tag \in {2, 3, 4, 9}, n \in Numbers : SetField(tag, <<n>>)            \* SetLogNumber, ...
    \/ \E l \in EditLevels, n \in EditKeys : SetField(kCompactPointer, <<l, KeyOf(n)>>)
    \/ \E l \in EditLevels, n \in Numbers : SetField(kDeletedFile, <<l, n>>)    \* DeleteFile
    \/ \E l \in EditLevels, n, size \in Numbers, a, b \in EditKeys :            \* AddFile
          SetField(kNewFile, <<l, n, size, KeyOf(a), KeyOf(b)>>)

\* Every edit decodes from its encoding to itself (version_edit.cc:41-86, 109-210),
\* and the encoding cut short anywhere is refused or decodes to a part of it.
EditDecodesBack ==
    LET Part(e) == /\ e.comparator \subseteq edit.comparator
                   /\ e.scalars \subseteq edit.scalars /\ e.deleted \subseteq edit.deleted
                   /\ IsPrefix(e.pointers, edit.pointers) /\ IsPrefix(e.added, edit.added)
        PartOrRefused(got) == got.ok => Part(got.edit)
        Back(src) ==
            /\ DecodeFrom(src) = [ok |-> TRUE, rest |-> <<>>, edit |-> edit]
            /\ \A n \in 0 .. Len(src) - 1 : PartOrRefused(DecodeFrom(SubSeq(src, 1, n)))
    IN  Back(EncodeTo(edit))
=============================================================================
