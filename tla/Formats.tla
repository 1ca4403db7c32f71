------------------------------- MODULE Formats -------------------------------
(***************************************************************************)
(* What the pods write as bytes and read back, damaged or not: leveldb's   *)
(* log files, the batches in a log, the edits in a MANIFEST, and tables    *)
(* with the iterators over them; nanopb's messages; and the data that      *)
(* GTMNSData+zlib compresses.  The formats are independent: a behaviour    *)
(* exercises one of them.                                                  *)
(***************************************************************************)
EXTENDS LogFile, WriteBatches, VersionEdits, Iterators, NanoPb, GTMZlib

VARIABLE subject    \* the format that is exercised

formatVars == <<logVars, batchVars, edit, iterVars, pbVars, zlibVars, subject>>

FormatInit ==
    /\ LogInit /\ BatchInit /\ EditInit /\ IterInit /\ PbInit /\ ZlibInit
    /\ subject \in {"log", "batch", "edit", "tables", "message", "zlib"}
    \* what a behaviour does not exercise starts in one way only
    /\ subject # "message" => ~drift /\ \A n \in BufferSizes : n <= buffer
    /\ subject # "zlib" => /\ via = "gzippingBytes" /\ back = "inflatingBytes"
                           /\ \A n \in DataLengths : n <= payload
                           /\ \A n \in StreamLengths : n <= stream

FormatNext ==
    \/ subject = "log" /\ LogNext
       /\ UNCHANGED <<batchVars, edit, iterVars, pbVars, zlibVars, subject>>
    \/ subject = "batch" /\ BatchNext
       /\ UNCHANGED <<logVars, edit, iterVars, pbVars, zlibVars, subject>>
    \/ subject = "edit" /\ EditNext
       /\ UNCHANGED <<logVars, batchVars, iterVars, pbVars, zlibVars, subject>>
    \/ subject = "tables" /\ IterStep
       /\ UNCHANGED <<logVars, batchVars, edit, pbVars, zlibVars, subject>>
    \/ subject = "message" /\ PbNext
       /\ UNCHANGED <<logVars, batchVars, edit, iterVars, zlibVars, subject>>
    \/ subject = "zlib" /\ ZlibNext
       /\ UNCHANGED <<logVars, batchVars, edit, iterVars, pbVars, subject>>

FormatSpec ==
    /\ FormatInit /\ [][FormatNext]_formatVars
    /\ WF_formatVars(\/ /\ subject = "log"
                        /\ ReadBlock \/ ReadPhysicalRecord \/ EndOfFile
                        /\ UNCHANGED <<batchVars, edit, iterVars, pbVars, zlibVars, subject>>
                     \/ /\ subject = "zlib" /\ ZlibNext
                        /\ UNCHANGED <<logVars, batchVars, edit, iterVars, pbVars, subject>>)

\* The types of what the formats keep.
FormatsTypeOK ==
    /\ subject = "tables" => IterTypeOK
    /\ subject = "log" => LogTypeOK
    /\ subject = "message" => PbTypeOK

\* What the write path of leveldb encodes, recovery decodes: batches from the log and
\* edits from the MANIFEST, whole or cut short.
EncodingsReadBack ==
    /\ subject = "batch" => BatchReplays
    /\ subject = "edit" => EditDecodesBack

\* The loops over damaged or badly sized input end: the log reader's and zlib's.
ReadersEnd == ReadingEnds /\ LoopsEnd
=============================================================================
