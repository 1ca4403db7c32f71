------------------------------ MODULE MCNanoPb ------------------------------
\* A message type with a field of every kind, for NanoPb.
EXTENDS NanoPb

Field(tag, atype, htype, ltype, size, choices) ==
    [tag |-> tag, atype |-> atype, htype |-> htype, ltype |-> ltype, size |-> size, max |-> 2,
     sub |-> "inner", implicit |-> FALSE, callback |-> TRUE, zeroed |-> FALSE, union |-> 1, default |-> 0,
     extensions |-> <<>>, choices |-> choices]

Inner(n, list, got) == <<<<n>>, list, got>>

MCTypes ==
    [inner |-> <<Field(1, "static", "required", "uvarint", 1, {}),
                 Field(2, "static", "repeated", "uvarint", 2, {}),
                 Field(3, "callback", "optional", "bytes", 0, {})>>,
     outer |-> <<Field(1, "static", "required", "uvarint", 2, {<<255>>}),
                 Field(2, "static", "optional", "svarint", 1, {<<-8>>, <<0>>}),
                 Field(3, "static", "repeated", "varint", 2, {<<-1>>, <<9, 0>>}),
                 Field(4, "static", "optional", "submessage", 0,
                       {<<Inner(3, <<8>>, <<>>)>>, <<Inner(0, <<>>, <<<<2>>>>)>>}),
                 Field(5, "static", "oneof", "string", 4, {<<<<1, 2, 3>>>>}),
                 Field(6, "static", "oneof", "submessage", 0, {<<Inner(15, <<1, 2>>, <<<<2>>>>)>>}),
                 Field(7, "callback", "repeated", "bytes", 0, {<<<<>>, <<5>>>>}),
                 [Field(20, "static", "optional", "extension", 0, {<<<<77>>, <<>>>>, <<<<>>, <<6>>>>})
                    EXCEPT !.extensions = <<Field(21, "static", "optional", "fixed32", 2, {}),
                                            Field(30, "static", "optional", "uvarint", 4, {})>>],
                 [Field(9, "static", "optional", "bytes", 4, {<<<<1, 1>>>>}) EXCEPT !.implicit = TRUE],
                 Field(10, "static", "optional", "fixed_length_bytes", 2, {<<<<0, 4>>>>}),
                 Field(11, "static", "optional", "fixed64", 4, {<<300>>}),
                 Field(12, "static", "repeated", "string", 3, {<<<<>>, <<1, 2>>>>}),
                 Field(13, "pointer", "optional", "uvarint", 2, {<<4>>}),
                 Field(14, "static", "required", "varint", 4, {<<-3>>}),
                 [Field(15, "callback", "optional", "bytes", 0, {}) EXCEPT !.callback = FALSE]>>]

\* A varint, a string, a fixed64 and a field whose callback is NULL.
MCUnknown == {PutVarint(8 * 18) \o PutVarint(200), PutVarint(8 * 18 + 2) \o <<2, 1, 1>>,
              PutVarint(8 * 40 + 1) \o <<1, 2, 3, 4>>, PutVarint(8 * 15 + 2) \o <<1, 9>>}
=============================================================================
