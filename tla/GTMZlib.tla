------------------------------ MODULE GTMZlib -------------------------------
(***************************************************************************)
(* GTMNSData+zlib.m: data compressed and inflated through a buffer of      *)
(* kChunkSize bytes, by one of the class methods.  zlib itself is external *)
(* and stands here by what its manual promises of deflate and inflate.     *)
(*                                                                         *)
(* Data is a length: of the payload, and of the stream zlib makes of it.   *)
(***************************************************************************)
EXTENDS Integers

CONSTANTS
    ChunkSize,      \* kChunkSize: 1024
    DataLengths,    \* lengths of a payload
    StreamLengths,  \* lengths of the stream zlib makes of it
    MaxChange       \* bound: bytes cut off or added on the way

\* A chunk holds something, and zlib makes a stream of whatever it compresses.
ASSUME ZlibAssumption ==
    /\ ChunkSize \in Nat \ {0} /\ MaxChange \in Nat
    /\ DataLengths \subseteq Nat /\ StreamLengths \subseteq Nat \ {0}

VARIABLES
    zpc,            \* where the program is
    payload,        \* length of the data
    via,            \* the method that compresses
    back,           \* the method that inflates
    stream,         \* length of the stream
    sent,           \* bytes of it collected by the sender
    arrived,            \* bytes the receiver has: more or less than that
    consumed,       \* bytes inflate has taken
    inflated,       \* bytes of the payload that came out
    result,         \* what the receiver gets: a length, or nil
    error           \* whether it was told of an error

zlibVars == <<zpc, payload, via, back, stream, sent, arrived, consumed, inflated, result, error>>

Nil == -1

\* The class methods and their mode; data or bytes, with or without a level and an
\* error, make no difference except where a method passes something else on.
GzippingMethods == [gzippingBytes |-> "gzip", gzippingData |-> "gzip"]
DeflatingMethods == [deflatingBytes |-> "zlib", deflatingData |-> "zlib"]
RawDeflatingMethods == [rawDeflatingBytes |-> "raw", rawDeflatingData |-> "raw"]
ModeOf(m) ==
    CASE m \in DOMAIN GzippingMethods     -> GzippingMethods[m]
      [] m \in DOMAIN DeflatingMethods    -> DeflatingMethods[m]
      [] m \in DOMAIN RawDeflatingMethods -> RawDeflatingMethods[m]
Compressors == DOMAIN GzippingMethods \cup DOMAIN DeflatingMethods \cup DOMAIN RawDeflatingMethods
\* isRawData; rawInflatingBytes:length: passes on to the method that is not raw.
InflatingMethods == [inflatingBytes |-> FALSE, inflatingBytesError |-> FALSE, inflatingData |-> FALSE]
RawInflatingMethods == [rawInflatingBytes |-> FALSE, rawInflatingBytesError |-> TRUE, rawInflatingData |-> TRUE]
Inflaters == DOMAIN InflatingMethods \cup DOMAIN RawInflatingMethods
IsRaw(m) == IF m \in DOMAIN InflatingMethods THEN InflatingMethods[m] ELSE RawInflatingMethods[m]

ZlibInit ==
    /\ zpc = "start" /\ payload \in DataLengths /\ via \in Compressors /\ back \in Inflaters
    /\ stream \in StreamLengths /\ sent = 0 /\ arrived = 0
    /\ consumed = 0 /\ inflated = 0 /\ result = Nil /\ error = FALSE

\* gtm_dataByCompressingBytes: nothing comes of nothing, or of an error of zlib's.
Compress ==
    /\ zpc = "start"
    /\ zpc' = IF payload = 0 THEN "done" ELSE "deflate"
    /\ UNCHANGED <<payload, via, back, stream, sent, arrived, consumed, inflated, result, error>>
CompressFails ==
    /\ zpc \in {"start", "deflate"} /\ payload > 0
    /\ zpc' = "done" /\ error' = TRUE
    /\ UNCHANGED <<payload, via, back, stream, sent, arrived, consumed, inflated, result>>

\* deflate with Z_FINISH fills the chunk; it says Z_STREAM_END with the last byte, or
\* on the call after that when the chunk was full.
Deflate(n) ==
    n = (IF stream - sent < ChunkSize THEN stream - sent ELSE ChunkSize)
DeflateOutcomes(n) == (IF sent + n = stream THEN {"end"} ELSE {}) \cup (IF n = ChunkSize THEN {"ok"} ELSE {})

\* A turn of the loop collects the chunk, of the last call too.
CompressChunk(n, code) ==
    /\ zpc = "deflate" /\ Deflate(n) /\ code \in DeflateOutcomes(n)
    /\ sent' = sent + n
    /\ zpc' = IF code = "end" THEN "sent" ELSE "deflate"
    /\ UNCHANGED <<payload, via, back, stream, arrived, consumed, inflated, result, error>>

\* The stream arrives, or less of it, or with something behind it.
Arrive(change) ==
    /\ zpc = "sent" /\ sent + change >= 0
    /\ arrived' = sent + change
    /\ zpc' = IF arrived' = 0 THEN "done" ELSE "inflate"
    /\ UNCHANGED <<payload, via, back, stream, sent, consumed, inflated, result, error>>

\* inflate takes input and fills the chunk as far as it can: what it says then.
Inflate(taken, made) ==
    /\ taken \in 0 .. (IF arrived < stream THEN arrived ELSE stream) - consumed
    /\ made \in 0 .. (IF payload - inflated < ChunkSize THEN payload - inflated ELSE ChunkSize)
    \* all of the payload comes out only with all of the stream before its trailer
    /\ consumed + taken < stream - 1 => inflated + made < payload
    /\ consumed + taken = stream => inflated + made = payload
    \* it stops only when the chunk is full or the input is used up
    /\ made < ChunkSize => consumed + taken = (IF arrived < stream THEN arrived ELSE stream)
InflateCode(taken, made) ==
    IF IsRaw(back) # (ModeOf(via) = "raw")   THEN "data error"
    ELSE IF consumed + taken = stream        THEN "end"
    ELSE IF taken = 0 /\ made = 0            THEN "buffer error"
    ELSE "ok"

\* Mutants: what follows the stream is not looked at; a buffer error is none.
InflateChunkTrusting(taken, made) ==
    LET code == InflateCode(taken, made)
    IN  /\ zpc = "inflate" /\ Inflate(taken, made)
        /\ IF code \in {"ok", "end"}
           THEN consumed' = consumed + taken /\ inflated' = inflated + made
           ELSE UNCHANGED <<consumed, inflated>>
        /\ zpc' = IF code = "ok" THEN "inflate" ELSE "done"
        /\ result' = IF code = "end" THEN inflated' ELSE result
        /\ error' = (error \/ code \notin {"ok", "end"})
        /\ UNCHANGED <<payload, via, back, stream, sent, arrived>>
InflateChunkPatient(taken, made) ==
    LET code == InflateCode(taken, made)
    IN  /\ zpc = "inflate" /\ Inflate(taken, made)
        /\ IF code \in {"ok", "end"}
           THEN consumed' = consumed + taken /\ inflated' = inflated + made
           ELSE UNCHANGED <<consumed, inflated>>
        /\ zpc' = IF code \in {"ok", "buffer error"} THEN "inflate" ELSE "done"
        /\ result' = IF code = "end" /\ arrived = stream THEN inflated' ELSE result
        /\ error' = (error \/ code = "data error" \/ (code = "end" /\ arrived > stream))
        /\ UNCHANGED <<payload, via, back, stream, sent, arrived>>

\* gtm_dataByInflatingBytes: a turn of its loop, and what follows it.
InflateChunk(taken, made) ==
    LET code == InflateCode(taken, made)
    IN  /\ zpc = "inflate" /\ Inflate(taken, made)
        /\ IF code \in {"ok", "end"}
           THEN consumed' = consumed + taken /\ inflated' = inflated + made
           ELSE UNCHANGED <<consumed, inflated>>
        /\ zpc' = IF code = "ok" THEN "inflate" ELSE "done"
        /\ result' = IF code = "end" /\ arrived = stream THEN inflated' ELSE result
        /\ error' = (error \/ code \notin {"ok", "end"} \/ (code = "end" /\ arrived > stream))
        /\ UNCHANGED <<payload, via, back, stream, sent, arrived>>

ZlibNext ==
    \/ Compress
    \/ CompressFails
    \/ \E n \in 0 .. ChunkSize, code \in {"ok", "end"} : CompressChunk(n, code)
    \/ \E change \in -MaxChange .. MaxChange : Arrive(change)
    \/ \E taken \in 0 .. stream, made \in 0 .. ChunkSize : InflateChunk(taken, made)

ZlibSpec == ZlibInit /\ [][ZlibNext]_zlibVars

-----------------------------------------------------------------------------
\* All of the payload comes back exactly when all of the stream, and nothing more,
\* arrives at a method for its kind; anything else gives nil and an error.  The raw
\* inflating method without an error (GTMNSData+zlib.m:502-507) is not for raw data.
DataComesBack ==
    zpc = "done" =>
        /\ result \in {Nil, payload} /\ (result = Nil \/ payload > 0)
        /\ arrived > 0 => (result = payload <=> arrived = stream /\ IsRaw(back) = (ModeOf(via) = "raw"))
        /\ arrived > 0 => (error <=> result = Nil)

\* What the header says of the raw methods: each of them gives back what was raw
\* deflated (GTMNSData+zlib.h:167, "Return an autoreleased NSData w/ the result of *raw*
\* decompressing the bytes"); rawInflatingBytes without an error does not.
RawDataComesBack ==
    zpc = "done" /\ arrived > 0 /\ arrived = stream /\ ModeOf(via) = "raw"
                 /\ back \in DOMAIN RawInflatingMethods => result = payload

\* Both loops come to an end, whatever the chunk boundaries.
LoopsEnd == [](zpc \in {"deflate", "inflate"} => <>(zpc \in {"sent", "done"}))
=============================================================================
