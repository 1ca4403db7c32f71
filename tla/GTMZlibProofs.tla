----------------------------- MODULE GTMZlibProofs -----------------------------
(***************************************************************************)
(* Compressed data comes back or an error does, for every length of data,  *)
(* of stream and of chunk, and whatever is cut off or added on the way.    *)
(***************************************************************************)
EXTENDS GTMZlib, TLAPS

\* The inflating method is one for the kind of stream that was made.
Fits == IsRaw(back) = (ModeOf(via) = "raw")

\* What the receiver can inflate: of its input, what belongs to the stream.
Usable == IF arrived < stream THEN arrived ELSE stream

\* Until the loop of gtm_dataByInflatingBytes returns, there is neither a result nor an
\* error, and the end of the stream was not seen; sizes stay within what there is.
Sizes ==
    /\ payload \in Nat /\ stream \in Nat \ {0} /\ sent \in 0 .. stream /\ arrived \in Nat
    /\ consumed \in 0 .. Usable /\ inflated \in 0 .. payload /\ error \in BOOLEAN
Pending ==
    /\ result = Nil /\ error = FALSE
    /\ zpc # "start" => payload > 0
    /\ zpc = "inflate" => arrived > 0 /\ consumed < stream /\ (consumed > 0 \/ inflated > 0 => Fits)
    /\ zpc # "inflate" => arrived = 0 /\ inflated = 0
ZlibInv ==
    /\ Sizes /\ (zpc \in {"start", "deflate", "sent", "inflate"} => Pending)
    /\ zpc \in {"start", "deflate", "sent", "inflate", "done"}
    /\ DataComesBack

LEMMA ZlibInitInv == ZlibInit => ZlibInv
<1> USE ZlibAssumption
<1> SUFFICES ASSUME ZlibInit PROVE ZlibInv
  OBVIOUS
<1>1. /\ zpc = "start" /\ payload \in Nat /\ stream \in Nat \ {0} /\ sent = 0 /\ arrived = 0 /\ consumed = 0
      /\ inflated = 0 /\ result = Nil /\ error = FALSE
  BY DEF ZlibInit
<1>2. Usable = 0
  BY <1>1 DEF Usable
<1>3. Sizes
  <2>1. error \in BOOLEAN
    BY <1>1
  <2>2. 0 \in 0 .. stream /\ 0 \in 0 .. Usable /\ 0 \in 0 .. payload
    BY <1>1, <1>2
  <2> QED
    BY <1>1, <2>1, <2>2 DEF Sizes
<1>4. Pending
  BY <1>1 DEF Pending
<1> QED
  BY <1>1, <1>3, <1>4 DEF ZlibInv, DataComesBack

\* The sender's steps leave the receiver's variables alone; nothing arrives before all is
\* sent.
LEMMA SenderKeeps ==
    ASSUME ZlibInv,
           \/ Compress \/ CompressFails
           \/ \E n \in 0 .. ChunkSize, code \in {"ok", "end"} : CompressChunk(n, code)
    PROVE  ZlibInv'
<1> USE ZlibAssumption
<1>1. /\ UNCHANGED <<payload, via, back, stream, arrived, consumed, inflated, result>>
      /\ zpc \in {"start", "deflate"} /\ zpc' \in {"deflate", "sent", "done"}
      /\ zpc' # "done" => payload # 0 /\ error' = error
      /\ error' = error \/ error' = TRUE
  BY DEF Compress, CompressFails, CompressChunk, ZlibInv, Pending
<1>2. sent' \in 0 .. stream
  <2>1. ASSUME NEW n \in 0 .. ChunkSize, NEW code \in {"ok", "end"}, CompressChunk(n, code)
        PROVE  sent' \in 0 .. stream
    BY <2>1 DEF CompressChunk, Deflate, ZlibInv, Sizes
  <2> QED
    BY <2>1 DEF Compress, CompressFails, ZlibInv, Sizes
<1>3. Pending /\ arrived = 0 /\ Usable' = Usable
  BY <1>1 DEF ZlibInv, Pending, Usable
<1>4. Sizes'
  BY <1>1, <1>2, <1>3 DEF ZlibInv, Sizes
<1>5. zpc' # "done" => Pending'
  BY <1>1, <1>3 DEF Pending, ZlibInv, Sizes
<1>6. DataComesBack'
  BY <1>1, <1>3 DEF Pending, DataComesBack
<1> QED
  BY <1>1, <1>4, <1>5, <1>6 DEF ZlibInv

\* Something arrives, or nothing does.
LEMMA ArriveKeeps ==
    ASSUME ZlibInv, NEW change \in -MaxChange .. MaxChange, Arrive(change)
    PROVE  ZlibInv'
<1> USE ZlibAssumption
<1>1. /\ UNCHANGED <<payload, via, back, stream, sent, consumed, inflated, result, error>>
      /\ zpc = "sent" /\ arrived' = sent + change /\ sent + change >= 0
      /\ zpc' = IF arrived' = 0 THEN "done" ELSE "inflate"
  BY DEF Arrive
<1>2. Pending /\ Sizes /\ arrived = 0
  BY <1>1 DEF ZlibInv, Pending
<1>3. arrived' \in Nat /\ Usable = 0
  BY <1>1, <1>2 DEF Sizes, Usable
<1>4. consumed = 0
  BY <1>2, <1>3 DEF Sizes
<1>5. Usable' \in Nat
  BY <1>1, <1>2, <1>3 DEF Sizes, Usable
<1>6. Sizes'
  BY <1>1, <1>2, <1>3, <1>4, <1>5 DEF Sizes
<1>7. zpc' = "inflate" => Pending'
  BY <1>1, <1>2, <1>4 DEF Sizes, Pending
<1>8. DataComesBack'
  BY <1>1, <1>2 DEF Pending, DataComesBack
<1> QED
  BY <1>1, <1>6, <1>7, <1>8 DEF ZlibInv

\* A turn of the loop: the sizes of what inflate takes and makes.
LEMMA InflateTakes ==
    ASSUME ZlibInv, NEW taken \in 0 .. stream, NEW made \in 0 .. ChunkSize,
           zpc = "inflate", Inflate(taken, made)
    PROVE  /\ consumed + taken \in 0 .. Usable /\ inflated + made \in 0 .. payload
           /\ Usable \in Nat /\ Usable <= stream /\ Usable <= arrived
           /\ consumed + taken = stream => inflated + made = payload /\ arrived >= stream
           /\ consumed + taken <= stream
           /\ taken = 0 /\ made = 0 => arrived < stream
<1> USE ZlibAssumption
<1>1. Sizes /\ consumed < stream
  BY DEF ZlibInv, Pending
<1>2. Usable \in Nat /\ Usable <= stream /\ Usable <= arrived
  BY <1>1 DEF Sizes, Usable
<1>3. taken <= Usable - consumed /\ (made < ChunkSize => consumed + taken = Usable)
  BY DEF Inflate, Usable
<1>4. made <= payload - inflated
  BY <1>1 DEF Inflate, Sizes
<1>5. consumed + taken = stream => inflated + made = payload
  BY DEF Inflate
<1>6. taken = 0 /\ made = 0 => arrived < stream
  BY <1>1, <1>2, <1>3 DEF Sizes, Usable
<1> QED
  BY <1>1, <1>2, <1>3, <1>4, <1>5, <1>6 DEF Sizes

LEMMA InflateKeeps ==
    ASSUME ZlibInv, NEW taken \in 0 .. stream, NEW made \in 0 .. ChunkSize, InflateChunk(taken, made)
    PROVE  ZlibInv'
<1> DEFINE code == InflateCode(taken, made)
<1>1. /\ zpc = "inflate" /\ Inflate(taken, made)
      /\ IF code \in {"ok", "end"}
         THEN consumed' = consumed + taken /\ inflated' = inflated + made
         ELSE UNCHANGED <<consumed, inflated>>
      /\ zpc' = IF code = "ok" THEN "inflate" ELSE "done"
      /\ result' = IF code = "end" /\ arrived = stream THEN inflated' ELSE result
      /\ error' = (error \/ code \notin {"ok", "end"} \/ (code = "end" /\ arrived > stream))
      /\ UNCHANGED <<payload, via, back, stream, sent, arrived>>
  BY DEF InflateChunk
<1>2. Sizes /\ Pending /\ payload > 0 /\ arrived > 0 /\ consumed < stream
  BY <1>1 DEF ZlibInv, Pending
<1>3. /\ ~Fits => code = "data error"
      /\ Fits /\ consumed + taken = stream => code = "end"
      /\ Fits /\ consumed + taken # stream /\ taken = 0 /\ made = 0 => code = "buffer error"
      /\ Fits /\ consumed + taken # stream /\ ~(taken = 0 /\ made = 0) => code = "ok"
  BY DEF InflateCode, Fits
<1>4. /\ consumed + taken \in 0 .. Usable /\ inflated + made \in 0 .. payload
      /\ consumed + taken = stream => inflated + made = payload /\ arrived >= stream
      /\ consumed + taken <= stream
      /\ taken = 0 /\ made = 0 => arrived < stream
  BY <1>1, InflateTakes
<1>5. Fits' = Fits /\ Usable' = Usable
  BY <1>1 DEF Fits, Usable
<1>6. Sizes'
  <2>1. consumed' \in 0 .. Usable /\ inflated' \in 0 .. payload
    BY <1>1, <1>2, <1>4 DEF Sizes
  <2>2. error' \in BOOLEAN
    BY <1>1, Zenon
  <2> QED
    BY <1>1, <1>2, <1>5, <2>1, <2>2 DEF Sizes
<1>e. error = FALSE /\ result = Nil
  BY <1>2 DEF Pending
<1>n. payload # Nil /\ payload \in Nat /\ stream \in Nat /\ arrived \in Nat /\ taken \in Nat /\ made \in Nat
  BY <1>2, ZlibAssumption DEF Sizes, Nil
<1> HIDE DEF code
<1>7. CASE ~Fits
  <2>1. code = "data error"
    BY <1>3, <1>7
  <2>2. zpc' = "done" /\ result' = Nil /\ error' = TRUE
    BY <1>1, <1>e, <2>1
  <2>3. DataComesBack'
    BY <1>1, <1>2, <1>5, <1>7, <1>n, <2>2 DEF DataComesBack, Fits
  <2> QED
    BY <1>6, <2>2, <2>3 DEF ZlibInv
<1>8. CASE Fits /\ consumed + taken = stream
  <2>1. code = "end" /\ inflated' = payload /\ arrived >= stream
    BY <1>1, <1>3, <1>4, <1>8
  <2>2. zpc' = "done" /\ result' = IF arrived = stream THEN payload ELSE Nil
    BY <1>1, <1>e, <2>1
  <2>3. error' <=> arrived > stream
    BY <1>1, <1>e, <2>1
  <2>4. DataComesBack'
    <3>1. CASE arrived = stream
      <4>1. result' = payload /\ ~error'
        BY <1>n, <2>2, <2>3, <3>1
      <4> QED
        BY <1>1, <1>2, <1>5, <1>8, <1>n, <3>1, <4>1 DEF DataComesBack, Fits
    <3>2. CASE arrived # stream
      <4>1. result' = Nil /\ error'
        BY <1>n, <2>1, <2>2, <2>3, <3>2
      <4> QED
        BY <1>1, <1>2, <1>5, <1>8, <1>n, <3>2, <4>1 DEF DataComesBack, Fits
    <3> QED
      BY <3>1, <3>2
  <2> QED
    BY <1>6, <2>2, <2>4 DEF ZlibInv
<1>9. CASE Fits /\ consumed + taken # stream /\ taken = 0 /\ made = 0
  <2>1. code = "buffer error"
    BY <1>3, <1>9
  <2>2. zpc' = "done" /\ result' = Nil /\ error' = TRUE
    BY <1>1, <1>e, <2>1
  <2>3. arrived # stream
    BY <1>4, <1>9, <1>n
  <2>4. DataComesBack'
    BY <1>1, <1>n, <2>2, <2>3 DEF DataComesBack
  <2> QED
    BY <1>6, <2>2, <2>4 DEF ZlibInv
<1>10. CASE Fits /\ consumed + taken # stream /\ ~(taken = 0 /\ made = 0)
  <2>1. code = "ok"
    BY <1>3, <1>10
  <2>2. zpc' = "inflate" /\ result' = Nil /\ consumed' = consumed + taken
    BY <1>1, <1>e, <2>1
  <2>3. error' = FALSE
    BY <1>1, <1>e, <2>1
  <2>4. consumed' < stream
    BY <1>2, <1>4, <1>10, <1>n, <2>2 DEF Sizes
  <2>5. Pending'
    BY <1>1, <1>2, <1>5, <1>10, <2>2, <2>3, <2>4 DEF Pending
  <2> QED
    BY <1>6, <2>2, <2>5 DEF ZlibInv, DataComesBack
<1> QED
  BY <1>7, <1>8, <1>9, <1>10

LEMMA ZlibNextInv == ZlibInv /\ [ZlibNext]_zlibVars => ZlibInv'
<1> SUFFICES ASSUME ZlibInv, [ZlibNext]_zlibVars PROVE ZlibInv'
  OBVIOUS
<1>1. CASE UNCHANGED zlibVars
  BY <1>1 DEF zlibVars, ZlibInv, Sizes, Pending, Usable, Fits, DataComesBack
<1>2. CASE ZlibNext
  BY <1>2, SenderKeeps, ArriveKeeps, InflateKeeps DEF ZlibNext
<1> QED
  BY <1>1, <1>2

\* What the inflating methods of GTMNSData+zlib return: for every length of the data, of
\* the stream and of kChunkSize, all of the data comes back exactly when all of the stream
\* and nothing more arrives at a method for its kind; otherwise nil and an error.
THEOREM CompressedComesBack == ZlibSpec => []DataComesBack
<1>1. ZlibInv => DataComesBack
  BY DEF ZlibInv
<1> QED
  BY <1>1, ZlibInitInv, ZlibNextInv, PTL DEF ZlibSpec
=============================================================================
