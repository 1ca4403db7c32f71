------------------------------- MODULE NanoPb -------------------------------
(***************************************************************************)
(* nanopb, the protocol-buffer coder of the Firebase pods: pb_encode.c,    *)
(* pb_decode.c and the field iterator of pb_common.c, as this build        *)
(* compiles them (without PB_ENABLE_MALLOC).                               *)
(*                                                                         *)
(* A message type is a sequence of field descriptors (pb_field_t); zeroed  *)
(* marks a field of a struct that was set to zero bytes, callbacks too.  A *)
(* struct gives each field the sequence of the values it holds: one for a  *)
(* field that is always there, none or one for an optional field and for a *)
(* member of a oneof, any number for an array or what a callback got; for  *)
(* an extension placeholder, such a sequence for each extension.           *)
(*                                                                         *)
(* An output stream is [ok, sizing, max, out]; an input stream is what is  *)
(* left of the input.  A decoder returns [ok, value, rest].                *)
(***************************************************************************)
EXTENDS Coding

CONSTANTS
    Types,          \* the message types: a function from names to descriptors
    TopType,        \* the type that is encoded and decoded
    WordBits,       \* bits of a word of fields_seen: 32
    MaxRequired,    \* PB_MAX_REQUIRED_FIELDS
    MaxSet,         \* bound: fields set in the two messages
    BufferSizes,    \* sizes of the output buffer
    Unknown         \* encoded fields of other versions of the type

ASSUME PbAssumption == WordBits \in Nat \ {0} /\ MaxRequired % WordBits = 0

VARIABLES
    pbPc,       \* what the caller does next
    first,      \* a message
    second,     \* another one, encoded behind it
    drift,      \* an encoding callback writes more when called again
    buffer,     \* size of the output buffer
    wire,       \* the bytes written
    wrote,      \* whether encoding succeeded
    dest,       \* the result of decoding: [ok, value, rest]
    shifted     \* what a shift by the width of a word yields, where one happens

pbVars == <<pbPc, first, second, drift, buffer, wire, wrote, dest, shifted>>

-----------------------------------------------------------------------------
WireType(ltype) ==
    CASE ltype \in {"varint", "uvarint", "svarint"} -> 0
      [] ltype = "fixed64"                          -> 1
      [] ltype = "fixed32"                          -> 5
      [] OTHER                                      -> 2
Packable(f) == f.ltype \in {"varint", "uvarint", "svarint", "fixed32", "fixed64"}

ToSigned(v, n) == IF v >= Word(n) \div 2 THEN v - Word(n) ELSE v
Zeros(n) == [i \in 1 .. n |-> 0]

\* pb_write: past the size of the stream nothing is written.
Buffer(n) == [ok |-> TRUE, sizing |-> FALSE, max |-> n, out |-> <<>>]
Sizing == [ok |-> TRUE, sizing |-> TRUE, max |-> 0, out |-> <<>>]
pb_write(s, bytes) ==
    IF ~s.ok THEN s
    ELSE IF ~s.sizing /\ Len(s.out) + Len(bytes) > s.max THEN [s EXCEPT !.ok = FALSE]
    ELSE [s EXCEPT !.out = @ \o bytes]

pb_encode_varint(s, v) == pb_write(s, PutVarint(v % Word(Bytes64)))
pb_encode_svarint(s, v) == pb_encode_varint(s, IF v < 0 THEN -2 * v - 1 ELSE 2 * v)
pb_encode_tag(s, wiretype, tag) == pb_encode_varint(s, 8 * tag + wiretype)
pb_encode_tag_for_field(s, f) == pb_encode_tag(s, WireType(f.ltype), f.tag)
pb_encode_string(s, bytes) == pb_write(pb_encode_varint(s, Len(bytes)), bytes)

RECURSIVE pb_encode(_, _, _), pb_decode_noinit(_, _, _), Defaults(_), IsZero(_, _)

\* The size, and behind it a body of that size.
Enclosed(s, sized, body) ==
    LET size == Len(sized.out)
        head == pb_encode_varint(s, size)
    IN  IF ~sized.ok \/ ~head.ok THEN [s EXCEPT !.ok = FALSE]
        ELSE IF s.sizing THEN pb_write(head, sized.out)
        ELSE IF Len(head.out) + size > s.max THEN [s EXCEPT !.ok = FALSE]
        ELSE [head EXCEPT !.out = @ \o body.out, !.ok = body.ok /\ Len(body.out) = size]

\* pb_encode_submessage: sized first, then written to a stream of that size, which a
\* callback that writes something else the second time overruns or leaves short.
pb_encode_submessage(s, type, msg) ==
    LET sized == pb_encode(Sizing, type, msg)
    IN  Enclosed(s, sized, pb_encode(Buffer(Len(sized.out)), type, msg))

\* PB_ENCODERS.
EncodeItem(s, f, v) ==
    CASE f.ltype \in {"varint", "uvarint"} -> pb_encode_varint(s, v)
      [] f.ltype = "svarint"               -> pb_encode_svarint(s, v)
      [] f.ltype = "fixed32"               -> pb_write(s, EncodeFixed(v, Bytes32))
      [] f.ltype = "fixed64"               -> pb_write(s, EncodeFixed(v, Bytes64))
      [] f.ltype = "bytes"                 ->
            IF f.atype = "static" /\ Len(v) + 1 > f.size THEN [s EXCEPT !.ok = FALSE]
            ELSE pb_encode_string(s, v)
      [] f.ltype \in {"string", "fixed_length_bytes"} -> pb_encode_string(s, v)
      [] f.ltype = "submessage"            -> pb_encode_submessage(s, f.sub, v)

EncodeItems(s, f, items) == FoldLeft(LAMBDA t, v : EncodeItem(t, f, v), s, items)
Tagged(s, f, items) ==
    FoldLeft(LAMBDA t, v : EncodeItem(pb_encode_tag_for_field(t, f), f, v), s, items)

\* encode_array: packed where the type allows it, after a pass for the size.
encode_array(s, f, items) ==
    LET sized == EncodeItems(Sizing, f, items)
        head == pb_encode_varint(pb_encode_tag(s, 2, f.tag), Len(sized.out))
    IN  IF items = <<>> THEN s
        ELSE IF f.atype # "pointer" /\ Len(items) > f.max THEN [s EXCEPT !.ok = FALSE]
        ELSE IF ~Packable(f) THEN Tagged(s, f, items)
        ELSE IF s.sizing THEN pb_write(head, sized.out) ELSE EncodeItems(head, f, items)

\* pb_check_proto3_default_value: of an array it looks at the first entry only.
IsZero(f, items) ==
    CASE f.atype = "static" /\ f.ltype \in {"bytes", "string"} -> items = <<>> \/ items[1] = <<>>
      [] f.atype = "static" /\ f.ltype = "fixed_length_bytes"  -> f.size = 0
      [] f.atype = "static" /\ f.ltype = "submessage" ->
            \A i \in DOMAIN Types[f.sub] : IsZero(Types[f.sub][i], items[1][i])
      [] f.atype = "callback" -> ~f.callback
      [] f.atype # "callback" /\ f.ltype = "extension" -> f.extensions = <<>>
      [] OTHER -> items = <<>> \/ items[1] = 0

\* encode_basic_field and encode_callback_field.  An encoding callback writes its
\* items, tags included; with drift, one more when it is not sizing.
encode_field(s, f, items) ==
    IF f.atype = "callback"
    THEN IF ~f.callback THEN s
         ELSE Tagged(s, f, IF drift /\ ~s.sizing THEN items \o <<<<1>>>> ELSE items)
    ELSE CASE f.atype = "pointer" /\ f.htype = "required" /\ items = <<>> -> [s EXCEPT !.ok = FALSE]
           [] f.htype = "repeated" -> encode_array(s, f, items)
           [] f.atype = "static" /\ f.htype = "optional" /\ f.implicit /\ IsZero(f, items) -> s
           [] OTHER -> Tagged(s, f, items)

\* encode_extension_field: each extension as a field of its own.
encode_extension_field(s, f, found) ==
    FoldLeft(LAMBDA t, j : encode_field(t, f.extensions[j], found[j]), s,
             [j \in DOMAIN f.extensions |-> j])

pb_encode(s, type, msg) ==
    FoldLeft(LAMBDA t, i :
                IF Types[type][i].ltype = "extension"
                THEN encode_extension_field(t, Types[type][i], msg[i])
                ELSE encode_field(t, Types[type][i], msg[i]),
             s, [i \in DOMAIN Types[type] |-> i])

-----------------------------------------------------------------------------
\* pb_read of n bytes, pb_make_string_substream: the substream and what follows it.
pb_read(in, n) ==
    IF Len(in) < n THEN Refused ELSE Decoded(SubSeq(in, 1, n), After(in, n))
pb_make_string_substream(in) ==
    LET size == GetVarint32(in) IN IF ~size.ok THEN Refused ELSE pb_read(size.rest, size.value)

\* read_raw_value and pb_skip_field: the bytes of a value of a wire type.
RawVarint(in, max) ==
    LET ends == {i \in 1 .. Min({Len(in), max}) : in[i] < Radix}
    IN  IF ends = {} THEN Refused ELSE pb_read(in, Min(ends))
pb_skip_field(in, wiretype) ==
    CASE wiretype = 0 -> RawVarint(in, Len(in))
      [] wiretype = 1 -> pb_read(in, Bytes64)
      [] wiretype = 2 -> pb_make_string_substream(in)
      [] wiretype = 5 -> pb_read(in, Bytes32)
      [] OTHER        -> Refused

\* What pb_dec_varint, pb_dec_uvarint and pb_dec_svarint make of 64 bits: a value
\* that does not survive the cast to the field's size is refused.
CastTo(f, v) ==
    LET small == ToSigned(v % Word(Bytes32), Bytes32)
        half == v \div 2
        zigzag == IF v % 2 = 1 THEN -half - 1 ELSE half
        wanted == CASE f.ltype = "uvarint" -> v
                    [] f.ltype = "svarint" -> zigzag
                    [] f.ltype = "varint"  -> IF f.size = Bytes64 THEN ToSigned(v, Bytes64) ELSE small
        cast == IF f.ltype = "uvarint" THEN wanted % Word(f.size)
                ELSE ToSigned(wanted % Word(f.size), f.size)
    IN  [ok |-> cast = wanted, value |-> cast]

Cast(f, raw) ==
    IF ~raw.ok \/ ~CastTo(f, raw.value).ok THEN Refused
    ELSE Decoded(CastTo(f, raw.value).value, raw.rest)
DecodeInteger(in, f) == Cast(f, GetVarint64(in))

DecodeFixedBytes(in, n) ==
    LET raw == pb_read(in, n)
    IN  IF raw.ok THEN Decoded(DecodeFixed(raw.value, 1, n), raw.rest) ELSE Refused

\* pb_dec_bytes and pb_dec_string: one more than the content must fit, for the
\* size field and the terminator; adding it must not wrap around.
DecodeText(in, f) ==
    LET size == GetVarint32(in)
    IN  IF \/ ~size.ok \/ (size.value + 1) % Word(Bytes32) < size.value
           \/ size.value + 1 > f.size \/ f.atype = "pointer"
        THEN Refused ELSE pb_read(size.rest, size.value)

DecodeFixedLength(in, f) ==
    LET size == GetVarint32(in)
    IN  IF ~size.ok \/ size.value \notin {0, f.size} THEN Refused
        ELSE IF size.value = 0 THEN Decoded(Zeros(f.size), size.rest)
        ELSE pb_read(size.rest, f.size)

\* A field in memory set to zero: its callback and its list of extensions are NULL,
\* and so are those of a submessage in it.
Zeroed(f) == [f EXCEPT !.zeroed = TRUE, !.callback = FALSE, !.extensions = <<>>]

\* pb_dec_submessage: decoded onto what is there, from a substream of which the
\* remainder is skipped.
Leave(sub, got) == IF ~sub.ok \/ ~got.ok THEN Refused ELSE Decoded(got.value, sub.rest)
SubFields(f) ==
    [i \in DOMAIN Types[f.sub] |-> IF f.zeroed THEN Zeroed(Types[f.sub][i]) ELSE Types[f.sub][i]]
DecodeSubmessage(in, f, old) ==
    LET sub == pb_make_string_substream(in)
    IN  Leave(sub, pb_decode_noinit(sub.value, SubFields(f), old))

\* PB_DECODERS.
DecodeItem(in, f, old) ==
    CASE f.ltype \in {"varint", "uvarint", "svarint"} -> DecodeInteger(in, f)
      [] f.ltype = "fixed32"            -> DecodeFixedBytes(in, Bytes32)
      [] f.ltype = "fixed64"            -> DecodeFixedBytes(in, Bytes64)
      [] f.ltype \in {"bytes", "string"} -> DecodeText(in, f)
      [] f.ltype = "fixed_length_bytes" -> DecodeFixedLength(in, f)
      [] f.ltype = "submessage"         -> DecodeSubmessage(in, f, old)

\* pb_field_set_to_default.
DefaultItem(f) ==
    CASE f.ltype = "submessage"                -> Defaults(f.sub)
      [] f.ltype \in {"bytes", "string"}       -> <<>>
      [] f.ltype = "fixed_length_bytes"        -> Zeros(f.size)
      [] OTHER                                 -> f.default
Default(f) ==
    IF f.ltype = "extension" THEN [j \in DOMAIN f.extensions |-> <<>>]
    ELSE IF f.atype = "static" /\ (f.htype = "required" \/ (f.htype = "optional" /\ f.implicit))
    THEN <<DefaultItem(f)>> ELSE <<>>
Defaults(type) == [i \in DOMAIN Types[type] |-> Default(Types[type][i])]

\* decode_static_field: the field's new items.  A submessage of a oneof is set to
\* zero and to its defaults before it is decoded.
Alone(got) == IF got.ok THEN Decoded(<<got.value>>, got.rest) ELSE Refused
One(in, f, old) == Alone(DecodeItem(in, f, old))

Behind(items, max, got) ==
    IF Len(items) >= max \/ ~got.ok THEN Refused ELSE Decoded(Append(items, got.value), got.rest)
\* Mutant: an array that is full takes one more entry.
AppendOneMore(in, f, items) == Behind(items, f.max + 1, DecodeItem(in, f, DefaultItem(f)))

AppendOne(in, f, items) == Behind(items, f.max, DecodeItem(in, f, DefaultItem(f)))
Unpacked(sub, f, items) ==
    LET Turn(s, i) == IF ~s.ok \/ s.rest = <<>> THEN s ELSE AppendOne(s.rest, f, s.value)
    IN  Leave(sub, FoldLeft(Turn, Decoded(items, sub.value), [i \in 1 .. Len(sub.value) |-> i]))
Packed(in, f, items) == Unpacked(pb_make_string_substream(in), f, items)
\* Mutant: a submessage that is there is replaced, not merged.
decode_static_fieldAnew(in, wiretype, f, items) ==
    CASE f.htype \in {"required", "optional"} -> One(in, f, DefaultItem(f))
      [] f.htype = "oneof" -> One(in, Zeroed(f), DefaultItem(f))
      [] f.htype = "repeated" ->
            IF wiretype = 2 /\ Packable(f) THEN Packed(in, f, items) ELSE AppendOne(in, f, items)

decode_static_field(in, wiretype, f, items) ==
    CASE f.htype \in {"required", "optional"} ->
            One(in, f, IF items = <<>> THEN DefaultItem(f) ELSE items[1])
      [] f.htype = "oneof" -> One(in, Zeroed(f), DefaultItem(f))
      [] f.htype = "repeated" ->
            IF wiretype = 2 /\ Packable(f) THEN Packed(in, f, items) ELSE AppendOne(in, f, items)

\* decode_callback_field: the callback takes all of its substream at once, which is
\* a string or the raw bytes of a scalar.
decode_callback_field(in, wiretype, f, items) ==
    LET raw == IF wiretype = 0 THEN RawVarint(in, Digits(Bytes64)) ELSE pb_skip_field(in, wiretype)
    IN  IF ~f.callback
        THEN LET skipped == pb_skip_field(in, wiretype)
             IN  IF skipped.ok THEN Decoded(items, skipped.rest) ELSE Refused
        ELSE IF raw.ok THEN Decoded(Append(items, raw.value), raw.rest) ELSE Refused

\* decode_field.  Without malloc, decode_pointer_field only fails.
decode_field(in, wiretype, f, items) ==
    CASE f.atype = "static"   -> decode_static_field(in, wiretype, f, items)
      [] f.atype = "pointer"  -> Refused
      [] f.atype = "callback" -> decode_callback_field(in, wiretype, f, items)

\* decode_extension: the extensions with this tag, in turn while nothing is read.
decode_extension(in, tag, wiretype, f, found) ==
    LET mine == {j \in DOMAIN f.extensions : f.extensions[j].tag = tag}
        j == Min(mine)
        In(got) == IF got.ok THEN Decoded([found EXCEPT ![j] = got.value], got.rest) ELSE Refused
    IN  IF mine = {} THEN Decoded(found, in)
        ELSE In(decode_field(in, wiretype, f.extensions[j], found[j]))

\* pb_decode_tag: [ok, eof, tag, wiretype, rest].  A tag that is cut off by the end
\* of the stream, and a zero, end the message.
pb_decode_tag(in) ==
    LET v == GetVarint32(in)
        \* a varint that is too long stops the reader before the end, unless it is the end
        cut == \A i \in DOMAIN in : in[i] >= Radix
    IN  IF ~v.ok THEN [ok |-> FALSE, eof |-> cut /\ Len(in) <= Digits(Bytes32)]
        ELSE IF v.value = 0 THEN [ok |-> FALSE, eof |-> TRUE]
        ELSE [ok |-> TRUE, tag |-> v.value \div 8, wiretype |-> v.value % 8, rest |-> v.rest]

\* The members of a oneof share one place: storing one forgets the others.
Store(fields, msg, i, items) ==
    LET Same(j) == /\ j # i /\ fields[i].htype = "oneof"
                   /\ fields[j].htype = "oneof" /\ fields[j].union = fields[i].union
    IN  [j \in DOMAIN msg |-> IF j = i THEN items ELSE IF Same(j) THEN <<>> ELSE msg[j]]

\* What a turn of the loop of pb_decode_noinit makes of d = [ok, done, msg, seen, rest]
\* when it knows the field, when an extension may, and when it skips the field.
GiveUp(d) == [d EXCEPT !.ok = FALSE, !.done = TRUE]
Stored(fields, d, i, got) ==
    IF got.ok THEN [d EXCEPT !.msg = Store(fields, @, i, got.value), !.rest = got.rest,
                             !.seen = IF fields[i].htype = "required" THEN @ \cup {i} ELSE @]
    ELSE GiveUp(d)
Skipped(d, skipped) == IF skipped.ok THEN [d EXCEPT !.rest = skipped.rest] ELSE GiveUp(d)
Extended(fields, d, t, e, got) ==
    IF got.ok /\ got.rest = t.rest THEN Skipped(d, pb_skip_field(t.rest, t.wiretype))
    ELSE Stored(fields, d, e, got)
DecodeTagged(fields, d, t) ==
    LET known == {i \in DOMAIN fields : fields[i].tag = t.tag /\ fields[i].ltype # "extension"}
        i == Min(known)
        ext == {e \in DOMAIN fields : fields[e].ltype = "extension" /\ t.tag >= fields[e].tag}
        e == Min(ext)
    IN  CASE ~t.ok -> [d EXCEPT !.ok = t.eof, !.done = TRUE]
          [] t.ok /\ known # {} ->
                Stored(fields, d, i, decode_field(t.rest, t.wiretype, fields[i], d.msg[i]))
          [] t.ok /\ known = {} /\ ext # {} ->
                Extended(fields, d, t, e, decode_extension(t.rest, t.tag, t.wiretype, fields[e], d.msg[e]))
          [] OTHER -> Skipped(d, pb_skip_field(t.rest, t.wiretype))

DecodeTurn(fields, d) ==
    IF d.done \/ d.rest = <<>> THEN [d EXCEPT !.done = TRUE]
    ELSE DecodeTagged(fields, d, pb_decode_tag(d.rest))

\* The check of fields_seen, word by word.  The last comparison is with allbits
\* shifted by the bits of a word that are not used; when all are, the shift is
\* undefined.
RequiredOf(fields) == SelectSeq([i \in DOMAIN fields |-> i], LAMBDA i : fields[i].htype = "required")
ShiftOutcomes == IF \E type \in DOMAIN Types : Len(RequiredOf(Types[type])) % WordBits = 0
                 THEN {"allbits", "none"} ELSE {"defined"}
RequiredSeen(fields, seen) ==
    LET count == Len(RequiredOf(fields))
        Seen(n) == \* bit n of fields_seen, from 1
            n <= Min({count, MaxRequired}) /\ RequiredOf(fields)[n] \in seen
        words == count \div WordBits
        left == count % WordBits
    IN  \/ count = 0
        \/ /\ \A n \in 1 .. words * WordBits : Seen(n)
           /\ \A n \in 1 .. WordBits :
                 Seen(words * WordBits + n) = (IF left = 0 THEN shifted = "allbits" ELSE n <= left)

pb_decode_noinit(in, fields, msg) ==
    LET start == [ok |-> TRUE, done |-> FALSE, msg |-> msg, seen |-> {}, rest |-> in]
        Result(end) == IF end.ok /\ RequiredSeen(fields, end.seen) THEN Decoded(end.msg, end.rest)
                       ELSE Refused
    IN  Result(FoldLeft(LAMBDA d, i : DecodeTurn(fields, d), start, [i \in 1 .. Len(in) |-> i]))

pb_decode(in, type) == pb_decode_noinit(in, Types[type], Defaults(type))

-----------------------------------------------------------------------------
Empty == Defaults(TopType)
TopFields == Types[TopType]
IsSet(msg) == {i \in DOMAIN msg : msg[i] # Empty[i]}

PbInit ==
    /\ pbPc = "fill" /\ first = Empty /\ second = Empty
    /\ drift \in BOOLEAN /\ shifted \in ShiftOutcomes
    /\ buffer \in BufferSizes
    /\ wire = <<>> /\ wrote = TRUE /\ dest = Refused

\* The program sets a field of its message struct.
FillFirst(i, items) ==
    /\ pbPc = "fill" /\ Cardinality(IsSet(first)) + Cardinality(IsSet(second)) < MaxSet
    /\ first' = Store(TopFields, first, i, items)
    /\ UNCHANGED <<pbPc, second, drift, buffer, wire, wrote, dest, shifted>>
FillSecond(i, items) ==
    /\ pbPc = "fill" /\ Cardinality(IsSet(first)) + Cardinality(IsSet(second)) < MaxSet
    /\ second' = Store(TopFields, second, i, items)
    /\ UNCHANGED <<pbPc, first, drift, buffer, wire, wrote, dest, shifted>>

\* It encodes the message to a buffer, and again to the same stream: the second
\* copy has other values.
EncodeSecond(one) ==
    IF one.ok /\ IsSet(second) # {} THEN pb_encode(one, TopType, second) ELSE one
EncodeBoth ==
    /\ pbPc = "fill" /\ pbPc' = "encoded"
    /\ \E two \in {EncodeSecond(pb_encode(Buffer(buffer), TopType, first))} :
          wire' = two.out /\ wrote' = two.ok
    /\ UNCHANGED <<first, second, drift, buffer, dest, shifted>>

\* A newer sender's fields come with it.
AddUnknown(bytes) ==
    /\ pbPc = "encoded" /\ wrote
    /\ pbPc' = "sent" /\ wire' = bytes \o wire
    /\ UNCHANGED <<first, second, drift, buffer, wrote, dest, shifted>>

\* A message on its own arrives cut short or with a byte changed.
Damage(n, b) ==
    /\ pbPc = "encoded" /\ wrote /\ ~drift /\ n \in DOMAIN wire
    /\ IsSet(second) = {} /\ Cardinality(IsSet(first)) < MaxSet
    /\ pbPc' = "damaged" /\ wire' = IF b < 0 THEN SubSeq(wire, 1, n - 1) ELSE [wire EXCEPT ![n] = b]
    /\ UNCHANGED <<first, second, drift, buffer, wrote, dest, shifted>>

Decode ==
    /\ pbPc \in {"encoded", "sent", "damaged"} /\ wrote
    /\ pbPc' = (IF pbPc = "damaged" THEN "misread" ELSE "decoded")
    /\ dest' = pb_decode(wire, TopType)
    /\ UNCHANGED <<first, second, drift, buffer, wire, wrote, shifted>>

PbNext ==
    \/ \E i \in DOMAIN TopFields : \E items \in TopFields[i].choices : FillFirst(i, items)
    \/ \E i \in DOMAIN TopFields : \E items \in TopFields[i].choices : FillSecond(i, items)
    \/ EncodeBoth
    \/ \E bytes \in Unknown : AddUnknown(bytes)
    \/ \E n \in DOMAIN wire, b \in {-1, 0, ByteValues - 1} : Damage(n, b)
    \/ Decode

PbSpec == PbInit /\ [][PbNext]_pbVars

-----------------------------------------------------------------------------
\* What decoding should give: the second message merged into the first, as the
\* encoding of protocol buffers means it, with two exceptions that nanopb makes for a
\* submessage of a oneof (pb_decode.c:416-424): sent again it replaces the one before,
\* where protocol buffers merge the two, and what it holds for callbacks is lost
\* (Received).  A drifting callback adds its item.
RECURSIVE Merged(_, _, _)
MergedField(type, i, a, b) ==
    LET f == Types[type][i]
        union == {j \in DOMAIN a : f.htype = "oneof" /\ Types[type][j].htype = "oneof"
                                     /\ Types[type][j].union = f.union /\ b[j] # <<>>}
        given == b[i] # <<>> /\ ~(f.implicit /\ IsZero(f, b[i]))
    IN  IF f.ltype = "extension"
        THEN [k \in DOMAIN a[i] |-> IF b[i][k] = <<>> THEN a[i][k] ELSE b[i][k]]
        ELSE IF f.atype = "callback" \/ f.htype = "repeated" THEN a[i] \o b[i]
        ELSE IF f.htype = "oneof" THEN IF union = {} THEN a[i] ELSE b[i]
        ELSE IF ~given THEN a[i]
        ELSE IF f.ltype = "submessage" /\ a[i] # <<>> THEN <<Merged(f.sub, a[i][1], b[i][1])>>
        ELSE b[i]
Merged(type, a, b) == [i \in DOMAIN a |-> MergedField(type, i, a, b)]

RECURSIVE WithoutCallbacks(_, _), Received(_, _)
WithoutCallbacks(type, msg) ==
    [i \in DOMAIN msg |->
        LET f == Types[type][i]
        IN  IF f.atype = "callback" \/ f.ltype = "extension" THEN Default(f)
            ELSE [k \in DOMAIN msg[i] |->
                    IF f.ltype = "submessage" THEN WithoutCallbacks(f.sub, msg[i][k]) ELSE msg[i][k]]]
Received(type, msg) ==
    [i \in DOMAIN msg |->
        LET f == Types[type][i]
        IN  IF f.ltype # "submessage" THEN msg[i]
            ELSE [k \in DOMAIN msg[i] |-> IF f.htype = "oneof" THEN WithoutCallbacks(f.sub, msg[i][k])
                                           ELSE Received(f.sub, msg[i][k])]]

Drifted(msg) ==
    [i \in DOMAIN msg |-> IF drift /\ TopFields[i].atype = "callback" /\ TopFields[i].callback
                           THEN Append(msg[i], <<1>>) ELSE msg[i]]
Expected == Received(TopType, IF IsSet(second) = {} THEN Drifted(first)
                              ELSE Merged(TopType, Drifted(first), Drifted(second)))

\* A struct whose fields fit where the descriptors put them.
RECURSIVE Fits(_, _)
FitsItem(f, v) ==
    CASE f.ltype = "uvarint"                -> v \in 0 .. Word(f.size) - 1
      [] f.ltype \in {"varint", "svarint"}  -> v \in -(Word(f.size) \div 2) .. (Word(f.size) \div 2) - 1
      [] f.ltype \in {"bytes", "string"}    -> f.atype = "callback" \/ Len(v) < f.size
      [] f.ltype = "fixed_length_bytes"     -> Len(v) = f.size
      [] f.ltype = "submessage"             -> Fits(f.sub, v)
      [] OTHER                              -> TRUE
Fits(type, msg) ==
    \A i \in DOMAIN msg :
        LET f == Types[type][i]
        IN  f.ltype # "extension" =>
               /\ f.atype = "static" => Len(msg[i]) <= (IF f.htype = "repeated" THEN f.max ELSE 1)
               /\ \A k \in DOMAIN msg[i] : FitsItem(f, msg[i][k])

PbTypeOK ==
    /\ pbPc \in {"fill", "encoded", "sent", "damaged", "decoded", "misread"}
    /\ wire \in Seq(0 .. ByteValues - 1)
    /\ Fits(TopType, first) /\ Fits(TopType, second)

\* What pb_encode wrote, pb_decode reads back: messages encoded one behind the other
\* decode to their merge (up to the exceptions above), fields unknown to the receiver are skipped, and a message
\* that does not fit (too many entries, a pointer field without malloc) is refused.
MessagesSurvive ==
    pbPc = "decoded" =>
        dest = IF Fits(TopType, Expected) /\ \A i \in DOMAIN TopFields : TopFields[i].atype = "pointer" =>
                                                                       Expected[i] = <<>>
               THEN Decoded(Expected, <<>>) ELSE Refused

\* The two passes of pb_encode_submessage and encode_array agree: a message takes the
\* size pb_get_encoded_size says, fails exactly when the buffer is smaller, and
\* never overruns it, whatever callbacks do (pb_encode.c:91-109, 600-648).
SizesAreExact ==
    LET size == Len(EncodeSecond(pb_encode(Sizing, TopType, first)).out)
    IN  /\ pbPc = "encoded" => Len(wire) <= buffer
        /\ (pbPc = "encoded" /\ ~drift) => (wrote <=> size <= buffer) /\ (wrote => Len(wire) = size)

\* Input cut short or changed in one byte never decodes to more than the struct
\* holds: entries, characters and integers stay within their fields.
DecodingStaysInBounds ==
    pbPc \in {"decoded", "misread"} /\ dest.ok => Fits(TopType, dest.value)

\* Neither direction goes beyond its memory, and the sizes computed first are right.
CodecStaysInBounds == SizesAreExact /\ DecodingStaysInBounds
=============================================================================
