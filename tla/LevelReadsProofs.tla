--------------------------- MODULE LevelReadsProofs ---------------------------
(***************************************************************************)
(* What readers see of the tree: of a key the newer entries are above the  *)
(* older ones, and a read answers with the newest write it may see, for    *)
(* any number of levels, files, keys and snapshots, as long as no output   *)
(* was cut between two entries of a key and no flush crossed one.           *)
(*                                                                         *)
(* The invariant says three things.  In memory is newer than in files; of  *)
(* every key a reader may ask for, the newest entry it may see is still    *)
(* there, or was a deletion with nothing older left; and the output of a   *)
(* running compaction can take the place of its inputs, whatever is        *)
(* written, flushed and released before it does.                           *)
(***************************************************************************)
EXTENDS LevelTreeProofs

-----------------------------------------------------------------------------
(* Files and the order of the levels. *)

\* Two files with no user key in common, and a file that has newer entries of the keys it
\* shares with another one.
Strangers(f, g) == \A a \in f.entries, b \in g.entries : a.key # b.key
Newer(f, g) == \A a \in f.entries, b \in g.entries : a.key = b.key => a.seq > b.seq
AllStrangers(fs) == \A f, g \in fs : f = g \/ Strangers(f, g)

\* Above level 0 no two files of a level have a key in common; what is higher up is newer.
KeysInOneFile(v) == \A l \in Levels : l # 0 => AllStrangers(v[l])
Higher(l, f, m, g) == l < m \/ (l = 0 /\ m = 0 /\ f.number > g.number)
Stacked(v) == \A l, m \in Levels : \A f \in v[l], g \in v[m] : Higher(l, f, m, g) => Newer(f, g)

\* Files of two levels that may be replaced by files of the lower one.
Movable(v, level, ins) ==
    /\ \A f \in v[level] \ ins, h \in ins : Newer(f, h)
    /\ \A g \in v[level + 1] \ ins, h \in ins : Strangers(g, h)

\* Files whose ranges of user keys are disjoint have no key in common.
LEMMA ClearOfKeys ==
    ASSUME NEW f, IsFile(f), NEW g, IsFile(g), Clear(f, g)
    PROVE  Strangers(f, g) /\ Strangers(g, f)
<1>1. \A e \in f.entries : e.key \in Nat /\ f.smallest.key <= e.key /\ e.key <= f.largest.key
  BY FileKeys
<1>2. \A e \in g.entries : e.key \in Nat /\ g.smallest.key <= e.key /\ e.key <= g.largest.key
  BY FileKeys
<1>3. /\ f.smallest.key \in Nat /\ f.largest.key \in Nat /\ g.smallest.key \in Nat /\ g.largest.key \in Nat
  BY FileKeys
<1> QED
  BY <1>1, <1>2, <1>3 DEF Clear, Strangers

\* What a compaction takes can be replaced by its output.
LEMMA ChosenIsMovable ==
    ASSUME NEW v, FileSet(FilesOf(v)), KeysInOneFile(v), Stacked(v), NEW c, Chosen(c, v)
    PROVE  Movable(v, c.level, c.in0 \cup c.in1)
<1> DEFINE ins == c.in0 \cup c.in1
           lo == RangeOf(c.in0).smallest.key
           hi == RangeOf(c.in0).largest.key
<1>1. /\ c.level \in Nat /\ c.level + 1 < NumLevels /\ c.level \in Levels /\ c.level + 1 \in Levels
      /\ c.level < c.level + 1 /\ c.level + 1 # 0
      /\ c.in0 \subseteq v[c.level] /\ c.in0 # {} /\ c.in1 \subseteq v[c.level + 1]
      /\ \A g \in v[c.level + 1] : g \in c.in1 <=> Meets(g, lo, hi)
  BY VersionAssumption DEF Chosen, Levels
<1>2. FileSet(v[c.level]) /\ FileSet(v[c.level + 1])
  <2>1. c.level < NumLevels /\ c.level + 1 \in Nat
    BY <1>1, VersionAssumption
  <2> QED
    BY <1>1, <2>1, LevelIsFileSet
<1>3. \A f \in v[c.level] \cup v[c.level + 1] : IsFile(f)
  BY <1>2 DEF FileSet
<1>4. FileSet(c.in0)
  BY <1>1, <1>2, FileSubset
<1>5. lo \in Nat /\ hi \in Nat /\ \A h \in c.in0 : lo <= h.smallest.key /\ h.largest.key <= hi
  BY <1>1, <1>4, EndsOfRange
<1> HIDE DEF lo, hi
<1>6. ASSUME NEW f \in v[c.level], f \notin ins, NEW h \in ins PROVE Newer(f, h)
  <2>1. CASE h \in c.in0 /\ c.level = 0
    <3>1. Clear(h, f)
      BY <1>6, <2>1 DEF Chosen, Alone
    <3>2. Strangers(f, h)
      BY <1>1, <1>3, <2>1, <3>1, ClearOfKeys
    <3> QED
      BY <3>2 DEF Strangers, Newer
  <2>2. CASE h \in c.in0 /\ c.level # 0
    <3>1. Strangers(f, h)
      BY <1>1, <1>6, <2>2 DEF KeysInOneFile, AllStrangers
    <3> QED
      BY <3>1 DEF Strangers, Newer
  <2>3. CASE h \in c.in1
    <3>1. h \in v[c.level + 1] /\ Higher(c.level, f, c.level + 1, h)
      BY <1>1, <2>3 DEF Higher
    <3> QED
      BY <1>1, <3>1 DEF Stacked
  <2> QED
    BY <2>1, <2>2, <2>3
<1>7. ASSUME NEW g \in v[c.level + 1], g \notin ins, NEW h \in ins PROVE Strangers(g, h)
  <2>1. CASE h \in c.in0
    <3>1. ~Meets(g, lo, hi)
      BY <1>1, <1>7
    <3>2. IsFile(g) /\ IsFile(h) /\ lo <= h.smallest.key /\ h.largest.key <= hi
      BY <1>1, <1>3, <1>5, <2>1
    <3>3. /\ g.smallest.key \in Nat /\ g.largest.key \in Nat
          /\ h.smallest.key \in Nat /\ h.largest.key \in Nat
      BY <3>2, FileKeys
    <3>4. Clear(g, h)
      BY <1>5, <3>1, <3>2, <3>3 DEF Meets, Clear
    <3> QED
      BY <3>2, <3>4, ClearOfKeys
  <2>2. CASE h \in c.in1
    BY <1>1, <1>7, <2>2 DEF KeysInOneFile, AllStrangers
  <2> QED
    BY <2>1, <2>2
<1> QED
  BY <1>6, <1>7 DEF Movable

\* An entry of an output was an entry of an input.
LEMMA ComesFromInput ==
    ASSUME NEW ins, NEW outs, Contents(outs) \subseteq Contents(ins), NEW o \in outs, NEW e \in o.entries
    PROVE  \E h \in ins : e \in h.entries
BY DEF Contents

\* Replacing such files by others with no more entries, of which no two share a key, keeps
\* the order of the levels.
LEMMA ReplacedStayStacked ==
    ASSUME NEW v, KeysInOneFile(v), Stacked(v), NEW level \in Levels, level + 1 \in Levels, level \in Nat,
           NEW ins, ins \subseteq v[level] \cup v[level + 1], Movable(v, level, ins),
           NEW outs, AllStrangers(outs), Contents(outs) \subseteq Contents(ins),
           NEW w, w = Apply(v, ins, level + 1, outs)
    PROVE  KeysInOneFile(w) /\ Stacked(w)
<1> DEFINE next == level + 1
<1>0. next # 0 /\ level < next /\ next \in Nat /\ \A l \in Levels : l \in Nat
  BY VersionAssumption DEF Levels
<1>1. \A l \in Levels : w[l] = (v[l] \ ins) \cup (IF l = next THEN outs ELSE {})
  BY AppliedLevels
<1>2. ASSUME NEW g \in v[next], g \notin ins, NEW o \in outs PROVE Strangers(g, o)
  <2> SUFFICES ASSUME NEW a \in g.entries, NEW b \in o.entries PROVE a.key # b.key
    BY DEF Strangers
  <2>1. PICK h \in ins : b \in h.entries
    BY <1>2, ComesFromInput
  <2>2. Strangers(g, h)
    BY <1>2 DEF Movable
  <2> QED
    BY <2>1, <2>2 DEF Strangers
<1>3. KeysInOneFile(w)
  <2> SUFFICES ASSUME NEW l \in Levels, l # 0 PROVE AllStrangers(w[l])
    BY DEF KeysInOneFile
  <2>1. AllStrangers(v[l])
    BY DEF KeysInOneFile
  <2>2. CASE l # next
    BY <1>1, <2>1, <2>2 DEF AllStrangers
  <2>3. CASE l = next
    <3>1. w[l] = (v[l] \ ins) \cup outs
      BY <1>1, <2>3
    <3> QED
      BY <1>2, <2>1, <2>3, <3>1 DEF AllStrangers, Strangers
  <2> QED
    BY <2>2, <2>3
<1>4. ASSUME NEW m \in Levels, next < m, NEW g \in v[m], NEW h \in ins PROVE Newer(h, g)
  <2>1. \/ h \in v[level] /\ Higher(level, h, m, g)
        \/ h \in v[next] /\ Higher(next, h, m, g)
    BY <1>0, <1>4 DEF Higher
  <2> QED
    BY <2>1 DEF Stacked
<1>5. ASSUME NEW l \in Levels, l < next, NEW f \in v[l], f \notin ins, NEW h \in ins PROVE Newer(f, h)
  <2>1. CASE l = level
    BY <1>5, <2>1 DEF Movable
  <2>2. CASE l # level
    <3>1. l < level
      BY <1>0, <1>5, <2>2
    <3>2. \/ h \in v[level] /\ Higher(l, f, level, h)
          \/ h \in v[next] /\ Higher(l, f, next, h)
      BY <1>5, <3>1 DEF Higher
    <3> QED
      BY <3>2 DEF Stacked
  <2> QED
    BY <2>1, <2>2
<1>6. ASSUME NEW l \in Levels, NEW m \in Levels, NEW f \in w[l], NEW g \in w[m], Higher(l, f, m, g)
      PROVE  Newer(f, g)
  <2>1. CASE f \in v[l] \ ins /\ g \in v[m] \ ins
    BY <1>6, <2>1 DEF Stacked
  <2>2. CASE l = next /\ f \in outs
    <3>1. next < m /\ m # next
      BY <1>0, <1>6, <2>2 DEF Higher
    <3>2. g \in v[m]
      BY <1>1, <3>1
    <3> QED
      BY <1>4, <2>2, <3>1, <3>2, ComesFromInput DEF Newer
  <2>3. CASE m = next /\ g \in outs
    <3>1. l < next /\ l # next
      BY <1>0, <1>6, <2>3 DEF Higher
    <3>2. f \in v[l] /\ f \notin ins
      BY <1>1, <3>1
    <3> QED
      BY <1>5, <2>3, <3>1, <3>2, ComesFromInput DEF Newer
  <2>4. /\ f \in v[l] \ ins \/ (l = next /\ f \in outs)
        /\ g \in v[m] \ ins \/ (m = next /\ g \in outs)
    BY <1>1
  <2> QED
    BY <2>1, <2>2, <2>3, <2>4
<1> QED
  BY <1>3, <1>6 DEF Stacked

\* A flushed file is newer than all others and above those it shares a key with.
FlushedTo(v, w, f, level) ==
    /\ level \in Levels
    /\ \A l \in Levels : w[l] = v[l] \cup (IF l = level THEN {f} ELSE {})
    /\ \A l \in Levels : \A g \in v[l] : f.number > g.number /\ g.number \in Nat /\ Newer(f, g)
    /\ f.number \in Nat
    /\ level # 0 => \A n \in Levels : n <= level => \A g \in v[n] : Strangers(f, g)
LEMMA FlushedStayStacked ==
    ASSUME NEW v, KeysInOneFile(v), Stacked(v), NEW w, NEW f, NEW level, FlushedTo(v, w, f, level)
    PROVE  KeysInOneFile(w) /\ Stacked(w)
<1>0. \A l \in Levels : l \in Nat
  BY VersionAssumption DEF Levels
<1>1. \A l \in Levels : w[l] = v[l] \cup (IF l = level THEN {f} ELSE {})
  BY DEF FlushedTo
<1>2. KeysInOneFile(w)
  <2> SUFFICES ASSUME NEW l \in Levels, l # 0 PROVE AllStrangers(w[l])
    BY DEF KeysInOneFile
  <2>1. AllStrangers(v[l])
    BY DEF KeysInOneFile
  <2>2. CASE l # level
    BY <1>1, <2>1, <2>2
  <2>3. CASE l = level
    <3>1. w[l] = v[l] \cup {f}
      BY <1>1, <2>3
    <3>2. \A g \in v[l] : Strangers(f, g)
      BY <1>0, <2>3 DEF FlushedTo
    <3> QED
      BY <2>1, <3>1, <3>2 DEF AllStrangers, Strangers
  <2> QED
    BY <2>2, <2>3
<1>3. ASSUME NEW l \in Levels, NEW m \in Levels, NEW a \in w[l], NEW b \in w[m], Higher(l, a, m, b)
      PROVE  Newer(a, b)
  <2>1. CASE a \in v[l] /\ b \in v[m]
    BY <1>3, <2>1 DEF Stacked
  <2>2. CASE a = f /\ b \in v[m]
    BY <2>2 DEF FlushedTo
  <2>3. CASE a \in v[l] /\ b = f /\ m = level
    <3>1. CASE level # 0
      <4>1. l <= level
        BY <1>0, <1>3, <2>3, <3>1 DEF Higher
      <4>2. Strangers(f, a)
        BY <2>3, <3>1, <4>1 DEF FlushedTo
      <4> QED
        BY <2>3, <4>2 DEF Strangers, Newer
    <3>2. CASE level = 0
      <4>1. l = 0 /\ a.number > f.number
        BY <1>0, <1>3, <2>3, <3>2 DEF Higher
      <4>2. f.number > a.number /\ a.number \in Nat /\ f.number \in Nat
        BY <2>3 DEF FlushedTo
      <4> QED
        BY <4>1, <4>2
    <3> QED
      BY <3>1, <3>2
  <2>4. CASE a = f /\ b = f /\ l = level /\ m = level
    <3>1. f.number \in Nat
      BY DEF FlushedTo
    <3> QED
      BY <1>0, <1>3, <2>4, <3>1 DEF Higher
  <2>5. /\ a \in v[l] \/ (a = f /\ l = level)
        /\ b \in v[m] \/ (b = f /\ m = level)
    BY <1>1
  <2> QED
    BY <2>1, <2>2, <2>3, <2>4, <2>5
<1> QED
  BY <1>2, <1>3 DEF Stacked

\* A flush during a compaction leaves its inputs replaceable.
LEMMA FlushedStayMovable ==
    ASSUME NEW v, NEW w, NEW f, NEW level, FlushedTo(v, w, f, level),
           NEW n \in Levels, n + 1 \in Levels, NEW ins, ins \subseteq v[n] \cup v[n + 1], Movable(v, n, ins)
    PROVE  Movable(w, n, ins)
<1>0. n \in Nat /\ n + 1 # 0 /\ n < n + 1
  BY VersionAssumption DEF Levels
<1>1. \A l \in Levels : w[l] = v[l] \cup (IF l = level THEN {f} ELSE {})
  BY DEF FlushedTo
<1>2. \A h \in ins : Newer(f, h)
  BY DEF FlushedTo
<1>3. ASSUME n + 1 = level, NEW h \in ins PROVE Strangers(f, h)
  <2>1. n <= level /\ n + 1 <= level /\ level # 0
    BY <1>0, <1>3
  <2> QED
    BY <2>1 DEF FlushedTo
<1>4. \A a \in w[n] \ ins : a \in v[n] \ ins \/ a = f
  BY <1>1
<1>5. \A a \in w[n + 1] \ ins : a \in v[n + 1] \ ins \/ (a = f /\ n + 1 = level)
  BY <1>1
<1> QED
  BY <1>2, <1>3, <1>4, <1>5 DEF Movable

-----------------------------------------------------------------------------
(* What a compaction may leave out. *)

\* An entry that a newer one of its key hides from every reader down to a number, and one
\* that may be left out: no reader down to that number misses it.
Hidden(e, es, snap) == \E o \in es : o.key = e.key /\ o.seq > e.seq /\ o.seq <= snap
Bottom(v, level, k) == \A m \in Levels : m >= level + 2 => \A f \in v[m] : \A a \in f.entries : a.key # k
Needless(v, level, es, snap, e) ==
    Hidden(e, es, snap) \/ (e.type = "del" /\ e.seq <= snap /\ Bottom(v, level, e.key))

\* What a compaction wrote instead of its inputs.
Pruned(v, level, ins, outs, snap) ==
    /\ Contents(outs) \subseteq Contents(ins)
    /\ \A e \in Contents(outs) : ~Hidden(e, Contents(ins), snap)
    /\ \A e \in Contents(ins) : e \notin Contents(outs) => Needless(v, level, Contents(ins), snap, e)

\* Of the newest write of a key up to a number the entry is there; or it was a deletion,
\* and nothing older is.
Wrote(w, k, s) == {i \in 1 .. s : w[i].key = k}
LastWrite(w, k, s, n) == n \in Wrote(w, k, s) /\ \A i \in Wrote(w, k, s) : i <= n
KeptFor(all, w, k, s) ==
    \A n : LastWrite(w, k, s, n) =>
        \/ \E e \in all : e.seq = n
        \/ w[n].type = "del" /\ \A e \in all : e.key = k => e.seq > n

\* The entries of a version some of whose files were replaced.
LEMMA ReplacedContents ==
    ASSUME NEW v, NEW level \in Levels, level + 1 \in Levels, NEW ins, NEW outs,
           NEW w, w = Apply(v, ins, level + 1, outs)
    PROVE  /\ FilesOf(w) = (FilesOf(v) \ ins) \cup outs
           /\ \A e \in Contents(FilesOf(v)) : e \in Contents(FilesOf(w)) \/ e \in Contents(ins)
           /\ \A e \in Contents(FilesOf(w)) :
                  e \in Contents(outs) \/ \E m \in Levels : \E g \in v[m] \ ins : e \in g.entries
<1>1. \A l \in Levels : w[l] = (v[l] \ ins) \cup (IF l = level + 1 THEN outs ELSE {})
  BY AppliedLevels
<1>2. FilesOf(w) = (FilesOf(v) \ ins) \cup outs
  BY <1>1 DEF FilesOf
<1>3. \A e \in Contents(FilesOf(v)) : e \in Contents(FilesOf(w)) \/ e \in Contents(ins)
  BY <1>2 DEF Contents
<1>4. \A e \in Contents(FilesOf(w)) :
          e \in Contents(outs) \/ \E m \in Levels : \E g \in v[m] \ ins : e \in g.entries
  BY <1>2 DEF Contents, FilesOf
<1> QED
  BY <1>2, <1>3, <1>4

\* A file that stays has no older entry of the keys of the inputs above the bottom.
LEMMA StayingIsNewer ==
    ASSUME NEW v, Stacked(v), NEW level \in Levels, level + 1 \in Levels,
           NEW ins, ins \subseteq v[level] \cup v[level + 1], Movable(v, level, ins),
           NEW e \in Contents(ins), Bottom(v, level, e.key),
           NEW m \in Levels, NEW g \in v[m] \ ins, NEW x \in g.entries, x.key = e.key
    PROVE  x.seq > e.seq
<1>0. level \in Nat /\ m \in Nat
  BY VersionAssumption DEF Levels
<1>1. PICK h \in ins : e \in h.entries
  BY DEF Contents
<1>2. CASE m < level
  <2>1. \/ h \in v[level] /\ Higher(m, g, level, h)
        \/ h \in v[level + 1] /\ Higher(m, g, level + 1, h)
    BY <1>0, <1>2 DEF Higher
  <2>2. Newer(g, h)
    BY <2>1 DEF Stacked
  <2> QED
    BY <1>1, <2>2 DEF Newer
<1>3. CASE m = level
  <2>1. Newer(g, h)
    BY <1>3 DEF Movable
  <2> QED
    BY <1>1, <2>1 DEF Newer
<1>4. CASE m = level + 1
  <2>1. Strangers(g, h)
    BY <1>4 DEF Movable
  <2> QED
    BY <1>1, <2>1 DEF Strangers
<1>5. CASE m >= level + 2
  BY <1>5 DEF Bottom
<1> QED
  BY <1>0, <1>2, <1>3, <1>4, <1>5

\* The installation of such an output takes no reader's entry away, and brings none back.
LEMMA PrunedKeeps ==
    ASSUME NEW w \in Seq(Operations), NEW v, NEW upper,
           \A e \in upper \cup Contents(FilesOf(v)) : IsEntry(w, e),
           \A a \in upper, b \in Contents(FilesOf(v)) : a.seq > b.seq,
           Stacked(v), NEW level \in Levels, level + 1 \in Levels,
           NEW ins, ins \subseteq v[level] \cup v[level + 1], Movable(v, level, ins),
           NEW outs, NEW snap \in Nat, Pruned(v, level, ins, outs, snap),
           NEW k, NEW s \in Nat, snap <= s, KeptFor(upper \cup Contents(FilesOf(v)), w, k, s),
           NEW z, z = Apply(v, ins, level + 1, outs)
    PROVE  KeptFor(upper \cup Contents(FilesOf(z)), w, k, s)
<1> DEFINE all == upper \cup Contents(FilesOf(v))
           new == upper \cup Contents(FilesOf(z))
<1>1. /\ FilesOf(z) = (FilesOf(v) \ ins) \cup outs
      /\ \A e \in Contents(FilesOf(v)) : e \in Contents(FilesOf(z)) \/ e \in Contents(ins)
      /\ \A e \in Contents(FilesOf(z)) :
             e \in Contents(outs) \/ \E m \in Levels : \E g \in v[m] \ ins : e \in g.entries
  BY ReplacedContents
<1>2. Contents(ins) \subseteq Contents(FilesOf(v)) /\ Contents(outs) \subseteq Contents(ins)
  BY DEF Contents, FilesOf, Pruned
<1>3. Contents(FilesOf(z)) \subseteq Contents(FilesOf(v))
  <2>1. \A e : (\E m \in Levels : \E g \in v[m] \ ins : e \in g.entries) => e \in Contents(FilesOf(v))
    BY DEF Contents, FilesOf
  <2> QED
    BY <1>1, <1>2, <2>1
<1>4. \A e \in all : e.seq \in Nat /\ e.seq \in 1 .. Len(w) /\ e.key = w[e.seq].key /\ e.type = w[e.seq].type
  BY DEF IsEntry, Entry
<1>5. \A a, b \in all : a.seq = b.seq => a = b
  BY DEF IsEntry
<1> SUFFICES ASSUME NEW n, LastWrite(w, k, s, n)
             PROVE  \/ \E e \in new : e.seq = n
                    \/ w[n].type = "del" /\ \A e \in new : e.key = k => e.seq > n
  BY DEF KeptFor
<1>6. n \in Nat /\ n <= s /\ w[n].key = k /\ \A i \in Nat : 1 <= i /\ i <= s /\ w[i].key = k => i <= n
  BY DEF LastWrite, Wrote
<1>7. CASE w[n].type = "del" /\ \A e \in all : e.key = k => e.seq > n
  BY <1>3, <1>7
<1>8. ASSUME NEW e \in all, e.seq = n, e \notin new
      PROVE  w[n].type = "del" /\ \A x \in new : x.key = k => x.seq > n
  <2>1. e \in Contents(ins) /\ e \notin Contents(outs)
    <3>1. e \in Contents(FilesOf(v)) /\ e \notin Contents(FilesOf(z))
      BY <1>8
    <3>2. Contents(outs) \subseteq Contents(FilesOf(z))
      BY <1>1 DEF Contents
    <3> QED
      BY <1>1, <3>1, <3>2
  <2>2. e.key = k /\ e.type = w[n].type
    BY <1>4, <1>6, <1>8
  <2>3. ~Hidden(e, Contents(ins), snap)
    <3> SUFFICES ASSUME NEW o \in Contents(ins), o.key = e.key, o.seq > e.seq, o.seq <= snap PROVE FALSE
      BY DEF Hidden
    <3>1. o \in all
      BY <1>2
    <3>2. o.seq \in Nat /\ 1 <= o.seq /\ o.seq <= s /\ w[o.seq].key = k
      BY <1>4, <2>2, <3>1
    <3> QED
      BY <1>6, <1>8, <3>2
  <2>4. e.type = "del" /\ e.seq <= snap /\ Bottom(v, level, e.key)
    BY <2>1, <2>3 DEF Pruned, Needless
  <2>5. ASSUME NEW x \in new, x.key = k PROVE x.seq > n
    <3>1. CASE x \in upper
      BY <1>2, <1>8, <2>1, <3>1
    <3>2. CASE \E m \in Levels : \E g \in v[m] \ ins : x \in g.entries
      <4>1. PICK m \in Levels : \E g \in v[m] \ ins : x \in g.entries
        BY <3>2
      <4>2. PICK g \in v[m] \ ins : x \in g.entries
        BY <4>1
      <4>3. x.seq > e.seq
        BY <2>1, <2>2, <2>4, <2>5, <4>2, StayingIsNewer
      <4> QED
        BY <1>8, <4>3
    <3>3. CASE x \in Contents(outs)
      <4>1. x \in Contents(ins) /\ ~Hidden(x, Contents(ins), snap) /\ x \in all
        BY <1>2, <3>3 DEF Pruned
      <4>2. ~(e.seq > x.seq)
        BY <2>1, <2>2, <2>4, <2>5, <4>1 DEF Hidden
      <4>3. e.seq # x.seq
        BY <1>5, <2>1, <3>3, <4>1
      <4>4. x.seq \in Nat /\ e.seq \in Nat
        BY <1>4, <4>1
      <4> QED
        BY <1>8, <4>2, <4>3, <4>4
    <3> QED
      BY <1>1, <3>1, <3>2, <3>3
  <2> QED
    BY <2>2, <2>4, <2>5
<1>9. (\E e \in all : e.seq = n) \/ (w[n].type = "del" /\ \A e \in all : e.key = k => e.seq > n)
  BY DEF KeptFor
<1> HIDE DEF all, new
<1> QED
  BY <1>7, <1>8, <1>9

-----------------------------------------------------------------------------
(* The inductive invariant, and a write. *)

\* The entries in memory, and all there are.
Flushing == UNION ToSet(imm)
InMemory == mem \cup Flushing
Everything == InMemory \cup Contents(FilesOf(version))

\* The memtable is newer than the one that is being flushed, and both than the files.
Layered ==
    /\ \A a \in mem, b \in Flushing : a.seq > b.seq
    /\ \A a \in InMemory, b \in Contents(FilesOf(version)) : a.seq > b.seq

\* Nothing a reader may ask for is lost; the output of a running compaction can take the
\* place of its inputs for every reader there is.
Readers == snapshots \cup {LastSequence}
Kept == \A k \in Keys : \A s \in Readers : KeptFor(Everything, written, k, s)
Replaceable(c) ==
    /\ Movable(version, c.level, c.inputs) /\ AllStrangers(c.outs)
    /\ \E snap \in Nat : (\A s \in Readers : snap <= s) /\ Pruned(version, c.level, c.inputs, c.outs, snap)
Intact ==
    /\ KeysInOneFile(version) /\ Stacked(version) /\ Kept
    /\ compaction = <<>> \/ Replaceable(compaction)
ReadInv == Layered /\ (split \/ crossed \/ Intact)

\* What is in memory: the memtable and at most one that is being flushed.
LEMMA FlushingIs ==
    ASSUME MemInv
    PROVE  /\ imm = <<>> => Flushing = {}
           /\ \A m : imm = <<m>> => Flushing = m
           /\ \A e \in Flushing : IsEntry(written, e)
<1>1. imm = <<>> => Flushing = {}
  BY DEF Flushing, ToSet
<1>2. ASSUME NEW m, imm = <<m>> PROVE Flushing = m
  <2>1. ToSet(imm) = {m}
    BY <1>2 DEF ToSet
  <2> QED
    BY <2>1 DEF Flushing
<1> QED
  BY <1>1, <1>2 DEF MemInv

\* All entries are of the history, and no two have one number.
LEMMA AllAreEntries ==
    ASSUME TreeInv
    PROVE  /\ written \in Seq(Operations)
           /\ \A e \in Everything : IsEntry(written, e)
           /\ \A a, b \in Everything : a.seq = b.seq => a = b
           /\ LastSequence \in Nat /\ \A s \in Readers : s \in Nat /\ s <= LastSequence
<1>1. written \in Seq(Operations) /\ \A e \in mem : IsEntry(written, e)
  BY DEF TreeInv, MemInv
<1>2. \A e \in Everything : IsEntry(written, e)
  BY <1>1, FlushingIs, VersionFiles DEF Everything, InMemory, TreeInv
<1>3. \A a, b \in Everything : a.seq = b.seq => a = b
  BY <1>2 DEF IsEntry
<1>4. LastSequence \in Nat
  BY <1>1 DEF LastSequence
<1>5. \A s \in Readers : s \in Nat /\ s <= LastSequence
  BY <1>4 DEF Readers, TreeInv, RestInv
<1> QED
  BY <1>1, <1>2, <1>3, <1>4, <1>5

\* Steps that change neither files nor entries, and add no reader.
LEMMA SameReads ==
    ASSUME ReadInv, Layered', UNCHANGED <<version, compaction, written, split, crossed>>,
           Everything' = Everything, Readers' \subseteq Readers
    PROVE  ReadInv'
<1>1. Kept => Kept'
  BY DEF Kept
<1>2. ASSUME NEW c, c = compaction, Replaceable(c) PROVE Replaceable(c)'
  <2>1. PICK snap \in Nat : (\A s \in Readers : snap <= s) /\ Pruned(version, c.level, c.inputs, c.outs, snap)
    BY <1>2 DEF Replaceable
  <2> QED
    BY <1>2, <2>1 DEF Replaceable
<1>3. compaction = <<>> \/ Replaceable(compaction) => (compaction = <<>> \/ Replaceable(compaction))'
  BY <1>2
<1> QED
  BY <1>1, <1>3 DEF ReadInv, Intact

\* Of an operation that is done, a later one is not the newest write up to its number.
LEMMA OlderWrites ==
    ASSUME NEW w \in Seq(Operations), NEW x \in Operations, NEW k, NEW s \in 0 .. Len(w), NEW n,
           LastWrite(Append(w, x), k, s, n)
    PROVE  LastWrite(w, k, s, n) /\ n \in 1 .. Len(w)
<1>1. \A i \in 1 .. Len(w) : Append(w, x)[i] = w[i]
  OBVIOUS
<1>2. 1 .. s \subseteq 1 .. Len(w)
  OBVIOUS
<1>3. Wrote(Append(w, x), k, s) = Wrote(w, k, s)
  BY <1>1, <1>2 DEF Wrote
<1>4. n \in 1 .. s
  BY DEF LastWrite, Wrote
<1> QED
  BY <1>1, <1>2, <1>3, <1>4 DEF LastWrite

\* Of another key's operation nothing is seen at its own number.
LEMMA OtherWrites ==
    ASSUME NEW w \in Seq(Operations), NEW x \in Operations, NEW k, x.key # k, NEW n,
           LastWrite(Append(w, x), k, Len(w) + 1, n)
    PROVE  LastWrite(w, k, Len(w), n) /\ Append(w, x)[n] = w[n] /\ n \in Nat /\ n <= Len(w)
<1> DEFINE y == Append(w, x)
<1>1. \A i \in 1 .. Len(w) : y[i] = w[i]
  OBVIOUS
<1>2. y[Len(w) + 1] = x /\ Len(w) \in Nat
  OBVIOUS
<1> HIDE DEF y
<1>3. n \in 1 .. Len(w) + 1 /\ y[n].key = k /\ \A i \in 1 .. Len(w) + 1 : y[i].key = k => i <= n
  BY DEF LastWrite, Wrote, y
<1>4. n \in 1 .. Len(w)
  BY <1>2, <1>3
<1>5. n \in Wrote(w, k, Len(w)) /\ \A i \in Wrote(w, k, Len(w)) : i <= n
  <2>1. \A i \in 1 .. Len(w) : i \in 1 .. Len(w) + 1
    OBVIOUS
  <2> QED
    BY <1>1, <1>3, <1>4, <2>1 DEF Wrote
<1> QED
  BY <1>1, <1>4, <1>5 DEF LastWrite, y

\* A write is the newest of its key, and all else stays what it was.
LEMMA WriteStaysRead ==
    ASSUME TreeInv, ReadInv, NEW k \in Keys, NEW t \in Types, Write(k, t)
    PROVE  ReadInv'
<1> DEFINE e == Entry(k, LastSequence + 1, t)
           x == [key |-> k, type |-> t]
<1>0. e.key = k /\ e.seq = LastSequence + 1
  BY DEF Entry
<1>1. /\ written' = Append(written, x)
      /\ UNCHANGED <<version, snapshots, compaction, split, crossed>>
  BY DEF Write
<1>2. \/ mem' = mem \cup {e} /\ imm' = imm
      \/ mem' = {e} /\ imm' = <<mem>> /\ imm = <<>>
  BY DEF Write
<1>x. x \in Operations /\ x.key = k
  BY DEF Operations
<1> HIDE DEF e, x
<1>3. \/ Flushing' = Flushing /\ mem' = mem \cup {e}
      \/ Flushing' = mem /\ mem' = {e} /\ Flushing = {}
  <2>1. imm' = imm => Flushing' = Flushing
    BY DEF Flushing
  <2>2. imm' = <<mem>> => Flushing' = mem
    <3>1. ASSUME imm' = <<mem>> PROVE ToSet(imm)' = {mem}
      BY <3>1 DEF ToSet
    <3> QED
      BY <3>1 DEF Flushing
  <2>3. imm = <<>> => Flushing = {}
    BY FlushingIs DEF TreeInv
  <2> QED
    BY <1>2, <2>1, <2>2, <2>3
<1>4. /\ written \in Seq(Operations) /\ LastSequence \in Nat /\ LastSequence = Len(written)
      /\ \A o \in Everything : o.seq \in Nat /\ o.seq <= LastSequence
  BY AllAreEntries DEF IsEntry, LastSequence
<1>5. \A o \in Everything : e.seq > o.seq
  <2> HIDE DEF LastSequence
  <2> QED
    BY <1>0, <1>4
<1>6. Everything' = Everything \cup {e}
  BY <1>1, <1>3 DEF Everything, InMemory
<1>7. Layered'
  BY <1>1, <1>3, <1>5 DEF Layered, ReadInv, Everything, InMemory
<1>8. LastSequence' = LastSequence + 1 /\ Readers' = snapshots \cup {LastSequence + 1}
  <2>1. Len(Append(written, x)) = Len(written) + 1
    BY <1>4
  <2> QED
    BY <1>1, <2>1 DEF LastSequence, Readers
<1>9. ASSUME Kept, NEW q \in Keys, NEW s \in Readers' PROVE KeptFor(Everything', written', q, s)
  <2> SUFFICES ASSUME NEW n, LastWrite(written', q, s, n)
               PROVE  \/ \E o \in Everything' : o.seq = n
                      \/ written'[n].type = "del" /\ \A o \in Everything' : o.key = q => o.seq > n
    BY DEF KeptFor
  <2>1. ASSUME NEW r \in Readers, LastWrite(written, q, r, n), written'[n] = written[n], n \in Nat, n <= LastSequence,
               n < e.seq
        PROVE  \/ \E o \in Everything' : o.seq = n
               \/ written'[n].type = "del" /\ \A o \in Everything' : o.key = q => o.seq > n
    <3>1. \/ \E o \in Everything : o.seq = n
          \/ written[n].type = "del" /\ \A o \in Everything : o.key = q => o.seq > n
      BY <1>9, <2>1 DEF Kept, KeptFor
    <3> QED
      BY <1>6, <2>1, <3>1
  <2>2. \A i \in Nat : i <= LastSequence => i < e.seq
    <3> HIDE DEF LastSequence
    <3> QED
      BY <1>0, <1>4
  <2>3. CASE s \in snapshots
    <3>1. s \in Nat /\ s <= Len(written) /\ s \in Readers
      BY <1>4, <2>3, AllAreEntries DEF Readers
    <3>2. LastWrite(Append(written, x), q, s, n) /\ s \in 0 .. Len(written)
      BY <1>1, <1>4, <3>1
    <3>3. LastWrite(written, q, s, n) /\ n \in 1 .. Len(written)
      BY <1>4, <1>x, <3>2, OlderWrites
    <3>4. written'[n] = written[n] /\ n \in Nat /\ n <= Len(written)
      BY <1>1, <1>4, <1>x, <3>3
    <3> QED
      BY <1>4, <2>1, <2>2, <3>1, <3>3, <3>4
  <2>4. CASE s = LastSequence + 1 /\ q # k
    <3>1. LastWrite(written, q, Len(written), n) /\ written'[n] = written[n] /\ n \in Nat /\ n <= Len(written)
      BY <1>1, <1>4, <1>x, <2>4, OtherWrites
    <3> QED
      BY <1>4, <2>1, <2>2, <3>1 DEF Readers
  <2>5. CASE s = LastSequence + 1 /\ q = k
    <3>1. written'[s] = x
      BY <1>1, <1>4, <2>5
    <3>2. s \in Wrote(written', q, s)
      BY <1>4, <1>x, <2>5, <3>1 DEF Wrote
    <3>3. n \in 1 .. s /\ s <= n
      BY <3>2 DEF LastWrite, Wrote
    <3>4. n = e.seq
      BY <1>0, <1>4, <2>5, <3>3
    <3> QED
      BY <1>6, <3>4
  <2> QED
    BY <1>8, <2>3, <2>4, <2>5
<1>10. Kept => Kept'
  BY <1>9 DEF Kept
<1>11. ASSUME NEW c, c = compaction, Replaceable(c) PROVE Replaceable(c)'
  <2>1. PICK snap \in Nat : (\A s \in Readers : snap <= s) /\ Pruned(version, c.level, c.inputs, c.outs, snap)
    BY <1>11 DEF Replaceable
  <2>2. \A s \in Readers' : snap <= s
    <3>1. snap <= LastSequence /\ \A s \in snapshots : snap <= s
      BY <2>1 DEF Readers
    <3> HIDE DEF LastSequence
    <3> QED
      BY <1>4, <1>8, <3>1
  <2> QED
    BY <1>1, <1>11, <2>1, <2>2 DEF Replaceable
<1>12. compaction = <<>> \/ Replaceable(compaction) => (compaction = <<>> \/ Replaceable(compaction))'
  BY <1>1, <1>11
<1> QED
  BY <1>1, <1>7, <1>10, <1>12 DEF ReadInv, Intact

-----------------------------------------------------------------------------
(* Flushes, trivial moves and installations. *)

\* Snapshots are taken and released, statistics change, CompactRange waits: the entries are
\* where they were, or the memtable was handed over.
LEMMA QuietStepsStayRead ==
    ASSUME TreeInv, ReadInv, UNCHANGED <<version, compaction, written, split, crossed>>,
           snapshots' \subseteq Readers,
           (mem' = mem /\ imm' = imm) \/ (mem' = {} /\ imm' = <<mem>> /\ imm = <<>>)
    PROVE  ReadInv'
<1>1. (mem' = mem /\ Flushing' = Flushing) \/ (mem' = {} /\ Flushing' = mem /\ Flushing = {})
  <2>1. imm' = imm => Flushing' = Flushing
    BY DEF Flushing
  <2>2. imm' = <<mem>> => Flushing' = mem
    <3>1. ASSUME imm' = <<mem>> PROVE ToSet(imm)' = {mem}
      BY <3>1 DEF ToSet
    <3> QED
      BY <3>1 DEF Flushing
  <2>3. imm = <<>> => Flushing = {}
    BY FlushingIs DEF TreeInv
  <2> QED
    BY <2>1, <2>2, <2>3
<1>2. Everything' = Everything /\ InMemory' = InMemory
  BY <1>1 DEF Everything, InMemory
<1>3. Layered'
  BY <1>1, <1>2 DEF Layered, ReadInv
<1>4. LastSequence' = LastSequence
  BY DEF LastSequence
<1>5. Readers' \subseteq Readers
  BY <1>4 DEF Readers
<1> QED
  BY <1>2, <1>3, <1>5, SameReads

\* A flush during a compaction leaves its output right: below the levels of the compaction
\* the new file has none of its keys.
LEMMA FlushedStayPruned ==
    ASSUME NEW v, NEW w, NEW f, NEW level, FlushedTo(v, w, f, level), NEW n \in Levels, n + 1 \in Levels,
           NEW ins, ins \subseteq v[n] \cup v[n + 1], NEW outs, NEW snap, Pruned(v, n, ins, outs, snap)
    PROVE  Pruned(w, n, ins, outs, snap)
<1>0. n \in Nat /\ level \in Nat /\ level \in Levels
  BY VersionAssumption DEF Levels, FlushedTo
<1>1. \A l \in Levels : w[l] = v[l] \cup (IF l = level THEN {f} ELSE {})
  BY DEF FlushedTo
<1>2. ASSUME level >= n + 2, NEW e \in Contents(ins), NEW a \in f.entries PROVE a.key # e.key
  <2>1. PICK h \in ins : e \in h.entries
    BY DEF Contents
  <2>2. level # 0 /\ n <= level /\ n + 1 <= level
    BY <1>0, <1>2
  <2>3. Strangers(f, h)
    BY <2>2 DEF FlushedTo
  <2> QED
    BY <2>1, <2>3 DEF Strangers
<1>3. ASSUME NEW e \in Contents(ins), Bottom(v, n, e.key) PROVE Bottom(w, n, e.key)
  <2> SUFFICES ASSUME NEW m \in Levels, m >= n + 2, NEW g \in w[m], NEW a \in g.entries PROVE a.key # e.key
    BY DEF Bottom
  <2>1. CASE g \in v[m]
    BY <1>3, <2>1 DEF Bottom
  <2>2. CASE m = level /\ g = f
    BY <1>2, <2>2
  <2> QED
    BY <1>1, <2>1, <2>2
<1>4. ASSUME NEW e \in Contents(ins), Needless(v, n, Contents(ins), snap, e)
      PROVE  Needless(w, n, Contents(ins), snap, e)
  BY <1>3, <1>4 DEF Needless
<1> QED
  BY <1>4 DEF Pruned

\* What CompactMemTable does to the version, in the terms of the lemmas above.
LEMMA FlushGoesTo ==
    ASSUME TreeInv, Layered, CompactMemTable, NEW m, imm = <<m>>, m # {}
    PROVE  \E f, level : FlushedTo(version, version', f, level) /\ f.entries = m
<1>0. imm[1] = m /\ Flushing = m
  BY FlushingIs DEF TreeInv
<1>1. IsFiniteSet(m) /\ \A e \in m : IsEntry(written, e)
  <2>1. PICK q : imm = <<q>> /\ IsFiniteSet(q) /\ \A e \in q : IsEntry(written, e)
    BY DEF TreeInv, MemInv
  <2>2. <<q>>[1] = q /\ <<m>>[1] = m
    OBVIOUS
  <2>3. q = m
    BY <2>1, <2>2
  <2> QED
    BY <2>1, <2>3
<1> DEFINE f == FileMetaData(nextFile, m)
           level == PickLevelForMemTableOutput(version, f.smallest.key, f.largest.key)
<1>2. version' = Apply(version, {}, level, {f})
  BY <1>0 DEF CompactMemTable
<1>3. /\ IsFile(f) /\ f.entries = m /\ f.number = nextFile
      /\ level \in Nat /\ level \in Levels
      /\ level # 0 => \A n \in 0 .. level : \A g \in version[n] :
             g.largest.key < f.smallest.key \/ f.largest.key < g.smallest.key
  BY <1>1, FlushedFile
<1> HIDE DEF f, level
<1>4. \A l \in Levels : version'[l] = version[l] \cup (IF l = level THEN {f} ELSE {})
  BY <1>2, AppliedLevels
<1>5. ASSUME NEW l \in Levels, NEW g \in version[l]
      PROVE  f.number > g.number /\ g.number \in Nat /\ Newer(f, g)
  <2>1. g \in FilesOf(version)
    BY DEF FilesOf
  <2>2. g.number < nextFile /\ nextFile \in Nat
    BY <2>1 DEF TreeInv, FilesInv
  <2>3. g.number \in Nat
    BY <2>1, VersionFiles DEF FileSet, IsFile
  <2>4. \A b \in g.entries : b \in Contents(FilesOf(version))
    BY <2>1 DEF Contents
  <2>5. Newer(f, g)
    BY <1>0, <1>3, <2>4 DEF Newer, Layered, InMemory
  <2> QED
    BY <1>3, <2>2, <2>3, <2>5
<1>6. ASSUME level # 0, NEW n \in Levels, n <= level, NEW g \in version[n] PROVE Strangers(f, g)
  <2>1. n \in 0 .. level
    BY <1>3, <1>6, VersionAssumption DEF Levels
  <2>2. Clear(f, g)
    BY <1>3, <1>6, <2>1 DEF Clear
  <2>3. IsFile(g)
    BY VersionFiles DEF FileSet
  <2> QED
    BY <1>3, <2>2, <2>3, ClearOfKeys
<1>7. f.number \in Nat
  BY <1>3 DEF IsFile
<1>8. FlushedTo(version, version', f, level)
  BY <1>3, <1>4, <1>5, <1>6, <1>7 DEF FlushedTo
<1> QED
  BY <1>3, <1>8

\* A flushed memtable is what it was, and newer than the other files.
LEMMA FlushStaysRead == TreeInv /\ ReadInv /\ CompactMemTable => ReadInv'
<1> SUFFICES ASSUME TreeInv, ReadInv, CompactMemTable PROVE ReadInv'
  OBVIOUS
<1>1. UNCHANGED <<mem, snapshots, compaction, written, split>> /\ imm' = <<>> /\ (crossed => crossed')
  BY DEF CompactMemTable, TreeInv, RestInv
<1>2. PICK m : imm = <<m>>
  BY DEF CompactMemTable, TreeInv, MemInv
<1>3. Flushing = m /\ Flushing' = {}
  <2>1. ToSet(imm)' = {}
    BY <1>1 DEF ToSet
  <2> QED
    BY <1>2, <2>1, FlushingIs DEF TreeInv, Flushing
<1>4. LastSequence' = LastSequence /\ Readers' = Readers
  BY <1>1 DEF LastSequence, Readers
<1>5. CASE m = {}
  <2>1. version' = version /\ crossed' = crossed
    <3>1. imm[1] = {}
      BY <1>2, <1>5
    <3> QED
      BY <3>1 DEF CompactMemTable
  <2>2. Everything' = Everything /\ InMemory' = InMemory
    BY <1>1, <1>3, <1>5, <2>1 DEF Everything, InMemory
  <2>3. Layered'
    BY <1>1, <1>3, <2>1, <2>2 DEF Layered, ReadInv
  <2> QED
    BY <1>1, <1>4, <2>1, <2>2, <2>3, SameReads
<1>6. CASE m # {}
  <2>1. PICK f, level : FlushedTo(version, version', f, level) /\ f.entries = m
    BY <1>2, <1>6, FlushGoesTo DEF ReadInv
  <2>2. Contents(FilesOf(version')) = Contents(FilesOf(version)) \cup m
    <3>1. level \in Levels /\ \A l \in Levels : version'[l] = version[l] \cup (IF l = level THEN {f} ELSE {})
      BY <2>1 DEF FlushedTo
    <3>2. FilesOf(version') = FilesOf(version) \cup {f}
      BY <3>1 DEF FilesOf
    <3> QED
      BY <2>1, <3>2 DEF Contents
  <2>3. Contents(FilesOf(version))' = Contents(FilesOf(version'))
    BY DEF FilesOf
  <2>4. Everything' = Everything /\ InMemory' = mem
    BY <1>1, <1>3, <2>2, <2>3 DEF Everything, InMemory
  <2>5. Layered'
    BY <1>1, <1>3, <2>2, <2>3, <2>4 DEF Layered, InMemory, ReadInv
  <2>6. ASSUME Intact PROVE Intact'
    <3>1. KeysInOneFile(version') /\ Stacked(version')
      BY <2>1, <2>6, FlushedStayStacked DEF Intact
    <3>2. Kept'
      BY <1>1, <1>4, <2>4, <2>6 DEF Kept, Intact
    <3>3. ASSUME NEW c, c = compaction, c # <<>> PROVE Replaceable(c)'
      <4>1. Replaceable(c) /\ Running(c)
        BY <2>6, <3>3 DEF Intact, TreeInv
      <4>2. PICK snap \in Nat : (\A s \in Readers : snap <= s) /\ Pruned(version, c.level, c.inputs, c.outs, snap)
        BY <4>1 DEF Replaceable
      <4>3. /\ c.level \in Levels /\ c.level + 1 \in Levels
            /\ c.inputs \subseteq version[c.level] \cup version[c.level + 1]
        BY <4>1, VersionAssumption DEF Running, Levels
      <4>4. Movable(version', c.level, c.inputs)
        BY <2>1, <4>1, <4>3, FlushedStayMovable DEF Replaceable
      <4>5. Pruned(version', c.level, c.inputs, c.outs, snap)
        BY <2>1, <4>2, <4>3, FlushedStayPruned
      <4> QED
        BY <1>4, <4>1, <4>2, <4>4, <4>5 DEF Replaceable
    <3> QED
      BY <1>1, <3>1, <3>2, <3>3 DEF Intact
  <2> QED
    BY <1>1, <2>5, <2>6 DEF ReadInv
<1> QED
  BY <1>5, <1>6

\* A file that is moved one level down, still newer than all below it.
LEMMA TrivialMoveStaysRead == TreeInv /\ ReadInv /\ TrivialMove => ReadInv'
<1> SUFFICES ASSUME TreeInv, ReadInv, TrivialMove PROVE ReadInv'
  OBVIOUS
<1>1. /\ UNCHANGED <<mem, imm, snapshots, compaction, written, split, crossed>>
      /\ compaction = <<>> /\ NeedsCompaction
  BY DEF TrivialMove, Idle
<1>2. PICK c : c = Picked /\ IsTrivialMove(c) /\ version' = Apply(version, c.in0, c.level + 1, c.in0)
  BY DEF TrivialMove
<1>3. Chosen(c, version)
  BY <1>1, <1>2, PickedLeavesNoGap
<1>4. /\ c.level \in Levels /\ c.level + 1 \in Levels /\ c.level \in Nat
      /\ c.in0 \cup c.in1 \subseteq version[c.level] \cup version[c.level + 1]
      /\ c.in0 \subseteq FilesOf(version) /\ FileSet(c.in0)
  BY <1>3, ChosenFiles DEF Chosen
<1>5. c.in0 \cup c.in1 = c.in0
  BY <1>2 DEF IsTrivialMove
<1>6. PICK f : c.in0 = {f}
  BY <1>2, <1>4, FS_Singleton DEF IsTrivialMove, FileSet
<1>7. AllStrangers(c.in0)
  BY <1>6 DEF AllStrangers
<1>8. FilesOf(version)' = FilesOf(version)
  <2>1. FilesOf(version') = (FilesOf(version) \ c.in0) \cup c.in0
    BY <1>2, <1>4, ReplacedContents
  <2>2. FilesOf(version)' = FilesOf(version')
    BY DEF FilesOf
  <2> QED
    BY <1>4, <2>1, <2>2
<1>9. LastSequence' = LastSequence /\ Readers' = Readers
  BY <1>1 DEF LastSequence, Readers
<1>10. Flushing' = Flushing /\ InMemory' = InMemory /\ Contents(FilesOf(version))' = Contents(FilesOf(version))
  BY <1>1, <1>8 DEF Flushing, InMemory, Contents
<1>11. Everything' = Everything
  BY <1>10 DEF Everything
<1>12. Layered'
  BY <1>1, <1>10 DEF Layered, ReadInv
<1>13. ASSUME Intact PROVE Intact'
  <2>1. KeysInOneFile(version) /\ Stacked(version)
    BY <1>13 DEF Intact
  <2>2. Movable(version, c.level, c.in0)
    BY <1>3, <1>5, <2>1, VersionFiles, ChosenIsMovable
  <2>3. KeysInOneFile(version') /\ Stacked(version')
    BY <1>2, <1>4, <1>5, <1>7, <2>1, <2>2, ReplacedStayStacked
  <2>4. Kept'
    BY <1>1, <1>9, <1>11, <1>13 DEF Kept, Intact
  <2> QED
    BY <1>1, <2>3, <2>4 DEF Intact
<1> QED
  BY <1>1, <1>12, <1>13 DEF ReadInv

\* The output of a compaction takes the place of its inputs.
LEMMA InstallStaysRead == TreeInv /\ ReadInv /\ InstallCompaction => ReadInv'
<1> SUFFICES ASSUME TreeInv, ReadInv, InstallCompaction PROVE ReadInv'
  OBVIOUS
<1>0. PICK c : c = compaction
  OBVIOUS
<1>1. /\ UNCHANGED <<mem, imm, snapshots, written, split, crossed>>
      /\ compaction' = <<>> /\ c # <<>>
      /\ version' = Apply(version, c.inputs, c.level + 1, c.outs)
  BY <1>0 DEF InstallCompaction
<1>2. Running(c)
  BY <1>0, <1>1 DEF TreeInv
<1>3. /\ c.level \in Levels /\ c.level + 1 \in Levels /\ c.level \in Nat
      /\ c.inputs \subseteq version[c.level] \cup version[c.level + 1]
      /\ \A o \in c.outs : o.entries \subseteq Contents(c.inputs)
  BY <1>2, VersionAssumption DEF Running, Levels
<1>4. Contents(c.outs) \subseteq Contents(c.inputs) /\ Contents(c.inputs) \subseteq Contents(FilesOf(version))
  BY <1>3 DEF Contents, FilesOf
<1>5. Contents(FilesOf(version')) \subseteq Contents(FilesOf(version))
  <2>1. FilesOf(version') \subseteq FilesOf(version) \cup c.outs
    BY <1>1, AppliedLevels
  <2>2. Contents(FilesOf(version')) \subseteq Contents(FilesOf(version)) \cup Contents(c.outs)
    BY <2>1 DEF Contents
  <2> QED
    BY <1>4, <2>2
<1>6. Contents(FilesOf(version))' = Contents(FilesOf(version'))
  BY DEF FilesOf
<1>7. LastSequence' = LastSequence /\ Readers' = Readers
  BY <1>1 DEF LastSequence, Readers
<1>8. Flushing' = Flushing /\ InMemory' = InMemory
  BY <1>1 DEF Flushing, InMemory
<1>9. Layered'
  BY <1>1, <1>5, <1>6, <1>8 DEF Layered, ReadInv
<1>10. ASSUME Intact PROVE Intact'
  <2>1. KeysInOneFile(version) /\ Stacked(version) /\ Replaceable(c)
    BY <1>0, <1>1, <1>10 DEF Intact
  <2>2. KeysInOneFile(version') /\ Stacked(version')
    BY <1>1, <1>3, <1>4, <2>1, ReplacedStayStacked DEF Replaceable
  <2>3. PICK snap \in Nat : (\A s \in Readers : snap <= s) /\ Pruned(version, c.level, c.inputs, c.outs, snap)
    BY <2>1 DEF Replaceable
  <2>4. /\ written \in Seq(Operations)
        /\ \A e \in InMemory \cup Contents(FilesOf(version)) : IsEntry(written, e)
        /\ \A a \in InMemory, b \in Contents(FilesOf(version)) : a.seq > b.seq
    BY AllAreEntries DEF Everything, ReadInv, Layered
  <2>5. ASSUME NEW k \in Keys, NEW s \in Readers
        PROVE  KeptFor(InMemory \cup Contents(FilesOf(version')), written, k, s)
    <3>1. s \in Nat /\ snap <= s
      BY <2>3, AllAreEntries
    <3>2. KeptFor(InMemory \cup Contents(FilesOf(version)), written, k, s)
      BY <1>10 DEF Intact, Kept, Everything
    <3>3. Movable(version, c.level, c.inputs)
      BY <2>1 DEF Replaceable
    <3> QED
      BY <1>1, <1>3, <2>1, <2>3, <2>4, <3>1, <3>2, <3>3, PrunedKeeps
  <2>6. Everything' = InMemory \cup Contents(FilesOf(version'))
    BY <1>6, <1>8 DEF Everything
  <2>7. Kept'
    BY <1>1, <1>7, <2>5, <2>6 DEF Kept
  <2> QED
    BY <1>1, <2>2, <2>7 DEF Intact
<1> QED
  BY <1>1, <1>9, <1>10 DEF ReadInv

-----------------------------------------------------------------------------
(* The start of a compaction, and every step. *)

\* The oldest number a reader may ask for.
LEMMA OldestReader ==
    ASSUME TreeInv
    PROVE  LET snap == IF snapshots = {} THEN LastSequence ELSE Min(snapshots)
           IN  snap \in Nat /\ \A s \in Readers : snap <= s
<1>1. LastSequence \in Nat /\ snapshots \subseteq 0 .. LastSequence
  BY AllAreEntries DEF TreeInv, RestInv
<1> HIDE DEF LastSequence
<1>2. CASE snapshots = {}
  BY <1>1, <1>2 DEF Readers
<1>3. CASE snapshots # {}
  <2>1. Min(snapshots) \in snapshots /\ \A s \in snapshots : Min(snapshots) <= s
    BY <1>1, <1>3, FiniteInterval, LeastAndGreatest
  <2>2. PICK n : n = Min(snapshots)
    OBVIOUS
  <2>3. n \in 0 .. LastSequence
    BY <1>1, <2>1, <2>2
  <2>4. Min(snapshots) \in Nat /\ Min(snapshots) <= LastSequence
    BY <1>1, <2>2, <2>3
  <2> QED
    BY <1>3, <2>1, <2>4 DEF Readers
<1> QED
  BY <1>2, <1>3

\* The drop rules of DoCompactionWork leave out what no reader misses, and nothing hidden is
\* kept.
LEMMA DroppedIsNeedless ==
    ASSUME NEW v, FileSet(FilesOf(v)), NEW level \in Nat, NEW es, Run(es), NEW snap \in Nat, NEW e \in es
    PROVE  /\ Dropped(v, level, es, snap, e) => Needless(v, level, es, snap, e)
           /\ ~Dropped(v, level, es, snap, e) => ~Hidden(e, es, snap)
<1> DEFINE newer == {o.seq : o \in {x \in es : x.key = e.key /\ x.seq > e.seq}}
           later == {x \in es : x.key = e.key /\ x.seq > e.seq}
<1>1. newer # {} => Min(newer) \in newer /\ \A n \in newer : Min(newer) <= n /\ Min(newer) \in Nat
  <2>1. IsFiniteSet(later)
    BY FS_Subset DEF Run
  <2>2. IsFiniteSet(newer)
    <3> DEFINE F == [o \in later |-> o.seq]
    <3>1. F \in Surjection(later, newer)
      BY DEF Surjection
    <3> HIDE DEF F, later, newer
    <3> QED
      BY <2>1, <3>1, FS_Surjection
  <2>3. newer \in SUBSET Nat
    BY DEF Run
  <2> HIDE DEF newer
  <2> QED
    BY <2>2, <2>3, LeastAndGreatest
<1>2. Hidden(e, es, snap) <=> newer # {} /\ Min(newer) <= snap
  <2>1. ASSUME NEW o \in es, o.key = e.key, o.seq > e.seq, o.seq <= snap PROVE newer # {} /\ Min(newer) <= snap
    <3>1. o.seq \in newer /\ o.seq \in Nat
      BY <2>1 DEF Run
    <3> HIDE DEF newer
    <3> QED
      BY <1>1, <2>1, <3>1
  <2>2. ASSUME newer # {}, Min(newer) <= snap PROVE Hidden(e, es, snap)
    <3>1. PICK n : n = Min(newer)
      OBVIOUS
    <3>2. n \in newer /\ n <= snap
      BY <1>1, <2>2, <3>1
    <3> QED
      BY <3>2 DEF Hidden
  <2> QED
    BY <2>1, <2>2 DEF Hidden
<1>3. IsBaseLevelForKey(v, level, e.key) => Bottom(v, level, e.key)
  <2> SUFFICES ASSUME IsBaseLevelForKey(v, level, e.key), NEW m \in Levels, m >= level + 2,
                      NEW f \in v[m], NEW a \in f.entries
               PROVE  a.key # e.key
    BY DEF Bottom
  <2>1. m \in level + 2 .. NumLevels - 1
    BY VersionAssumption DEF Levels
  <2>2. ~(f.smallest.key <= e.key /\ e.key <= f.largest.key)
    BY <2>1 DEF IsBaseLevelForKey
  <2>3. IsFile(f)
    BY DEF FileSet, FilesOf
  <2> QED
    BY <2>2, <2>3, FileKeys
<1>4. Dropped(v, level, es, snap, e) <=>
        \/ newer # {} /\ Min(newer) <= snap
        \/ e.type = "del" /\ e.seq <= snap /\ IsBaseLevelForKey(v, level, e.key)
  BY DEF Dropped
<1> HIDE DEF newer
<1> QED
  BY <1>2, <1>3, <1>4 DEF Needless

\* The files of an output that is never cut between two entries of one key.
Uncut(outs) == \A i, j \in DOMAIN outs : i < j => \A a \in outs[i], b \in outs[j] : a.key # b.key
LEMMA OutputIsPruned ==
    ASSUME NEW v, FileSet(FilesOf(v)), NEW c, FileSet(c.in0 \cup c.in1), FileSet(c.grandparents),
           c.level \in Nat, NEW snap \in Nat, NEW outs, outs = CompactionOutputs(v, c, snap),
           NEW n \in Nat, NEW gs, gs = WrittenFiles(n, outs)
    PROVE  /\ Pruned(v, c.level, c.in0 \cup c.in1, gs, snap)
           /\ Uncut(outs) => AllStrangers(gs)
<1> DEFINE ins == c.in0 \cup c.in1
           es == Contents(c.in0 \cup c.in1)
<1>1. /\ outs \in Seq(SUBSET es)
      /\ \A e \in es : InSome(e, outs) <=> ~Dropped(v, c.level, es, snap, e)
  BY OutputsAreSorted
<1>2. Run(es)
  BY SizesAreNumbers
<1>3. \A i \in DOMAIN outs : FileMetaData(n + i - 1, outs[i]).entries = outs[i]
  BY DEF FileMetaData
<1>4. gs = {FileMetaData(n + i - 1, outs[i]) : i \in DOMAIN outs}
  BY DEF WrittenFiles
<1> HIDE DEF es
<1>5. \A e : e \in Contents(gs) <=> InSome(e, outs)
  <2>1. ASSUME NEW e, e \in Contents(gs) PROVE InSome(e, outs)
    <3>1. PICK g \in gs : e \in g.entries
      BY <2>1 DEF Contents
    <3>2. PICK i \in DOMAIN outs : g = FileMetaData(n + i - 1, outs[i])
      BY <1>4
    <3> QED
      BY <1>3, <3>1, <3>2 DEF InSome
  <2>2. ASSUME NEW e, InSome(e, outs) PROVE e \in Contents(gs)
    <3>1. PICK i \in DOMAIN outs : e \in outs[i]
      BY <2>2 DEF InSome
    <3>2. PICK g : g = FileMetaData(n + i - 1, outs[i])
      OBVIOUS
    <3>3. g \in gs /\ e \in g.entries
      BY <1>3, <1>4, <3>1, <3>2
    <3> QED
      BY <3>3 DEF Contents
  <2> QED
    BY <2>1, <2>2
<1>6. Contents(gs) \subseteq es
  <2>1. \A i \in DOMAIN outs : outs[i] \subseteq es
    BY <1>1
  <2> QED
    BY <1>5, <2>1 DEF InSome
<1>7. ASSUME NEW e \in es
      PROVE  /\ Dropped(v, c.level, es, snap, e) => Needless(v, c.level, es, snap, e)
             /\ ~Dropped(v, c.level, es, snap, e) => ~Hidden(e, es, snap)
  BY <1>2, DroppedIsNeedless
<1>8. Pruned(v, c.level, ins, gs, snap)
  <2>1. es = Contents(ins)
    BY DEF es
  <2>2. \A e \in Contents(gs) : ~Hidden(e, es, snap)
    BY <1>1, <1>5, <1>6, <1>7
  <2>3. \A e \in es : e \notin Contents(gs) => Needless(v, c.level, es, snap, e)
    BY <1>1, <1>5, <1>7
  <2> HIDE DEF ins
  <2> QED
    BY <1>6, <2>1, <2>2, <2>3 DEF Pruned
<1>9. ASSUME Uncut(outs) PROVE AllStrangers(gs)
  <2> SUFFICES ASSUME NEW g \in gs, NEW h \in gs PROVE g = h \/ Strangers(g, h)
    BY DEF AllStrangers
  <2>1. PICK i \in DOMAIN outs : g = FileMetaData(n + i - 1, outs[i])
    BY <1>4
  <2>2. PICK j \in DOMAIN outs : h = FileMetaData(n + j - 1, outs[j])
    BY <1>4
  <2>3. g.entries = outs[i] /\ h.entries = outs[j]
    BY <1>3, <2>1, <2>2
  <2>4. i \in Nat /\ j \in Nat
    BY <1>1
  <2>5. i < j \/ j < i => Strangers(g, h)
    BY <1>9, <2>3 DEF Strangers, Uncut
  <2> QED
    BY <2>1, <2>2, <2>4, <2>5
<1> QED
  BY <1>8, <1>9

\* A compaction starts.
LEMMA StartStaysRead ==
    ASSUME TreeInv, ReadInv, Idle, NEW forManual, NEW c, Chosen(c, version), StartCompaction(c, forManual)
    PROVE  ReadInv'
<1> DEFINE ins == c.in0 \cup c.in1
           snap == IF snapshots = {} THEN LastSequence ELSE Min(snapshots)
           last == (CHOOSE f \in c.in0 : \A g \in c.in0 : g = f \/ BySmallestKey(g, f)).largest.key
<1>1. PICK outs : /\ outs = CompactionOutputs(version, c, snap)
                  /\ compaction' = [inputs |-> ins, level |-> c.level,
                          outs |-> {FileMetaData(nextFile + i - 1, outs[i]) : i \in DOMAIN outs},
                          manual |-> forManual, end |-> last]
                  /\ split' = (split \/ \E i, j \in DOMAIN outs : i < j /\
                                  \E a \in outs[i], b \in outs[j] : a.key = b.key)
                  /\ UNCHANGED <<mem, imm, version, snapshots, written, crossed>>
  <2> HIDE DEF last
  <2> QED
    BY DEF StartCompaction, last
<1> HIDE DEF last
<1>2. /\ FileSet(ins) /\ FileSet(c.grandparents) /\ c.level \in Nat /\ FileSet(FilesOf(version))
      /\ nextFile \in Nat
  BY ChosenFiles, VersionFiles DEF Chosen, TreeInv, FilesInv
<1>3. snap \in Nat /\ \A s \in Readers : snap <= s
  BY OldestReader
<1> HIDE DEF snap
<1> DEFINE gs == WrittenFiles(nextFile, outs)
<1>4. compaction' = [inputs |-> ins, level |-> c.level, outs |-> gs, manual |-> forManual, end |-> last]
  BY <1>1 DEF WrittenFiles
<1> HIDE DEF gs
<1>5. compaction'.inputs = ins /\ compaction'.level = c.level /\ compaction'.outs = gs
  BY <1>4
<1>6. Pruned(version, c.level, ins, gs, snap) /\ (Uncut(outs) => AllStrangers(gs))
  <2>1. PICK v, n, all : v = version /\ n = nextFile /\ all = gs
    OBVIOUS
  <2>2. FileSet(FilesOf(v)) /\ n \in Nat /\ outs = CompactionOutputs(v, c, snap) /\ all = WrittenFiles(n, outs)
    BY <1>1, <1>2, <2>1 DEF gs
  <2>3. Pruned(v, c.level, c.in0 \cup c.in1, all, snap) /\ (Uncut(outs) => AllStrangers(all))
    BY <1>2, <1>3, <2>2, OutputIsPruned
  <2> QED
    BY <2>1, <2>3
<1>7. LastSequence' = LastSequence /\ Readers' = Readers /\ Flushing' = Flushing
      /\ InMemory' = InMemory /\ Everything' = Everything
  BY <1>1 DEF LastSequence, Readers, Flushing, InMemory, Everything
<1>8. Layered'
  BY <1>1, <1>7 DEF Layered, ReadInv
<1>9. ASSUME Intact, ~split' PROVE Intact'
  <2>1. AllStrangers(gs)
    <3>1. Uncut(outs)
      <4>1. split' = (split \/ \E i, j \in DOMAIN outs : i < j /\
                        \E a \in outs[i], b \in outs[j] : a.key = b.key)
        BY <1>1
      <4>2. ~\E i, j \in DOMAIN outs : i < j /\ \E a \in outs[i], b \in outs[j] : a.key = b.key
        BY <1>9, <4>1, Zenon
      <4> QED
        BY <4>2 DEF Uncut
    <3> QED
      BY <1>6, <3>1
  <2>2. Movable(version, c.level, ins)
    BY <1>2, <1>9, ChosenIsMovable DEF Intact
  <2>3. Replaceable(compaction)'
    BY <1>1, <1>3, <1>5, <1>6, <1>7, <2>1, <2>2 DEF Replaceable
  <2>4. Kept'
    BY <1>1, <1>7, <1>9 DEF Kept, Intact
  <2> QED
    BY <1>1, <1>9, <2>3, <2>4 DEF Intact
<1> QED
  BY <1>1, <1>8, <1>9 DEF ReadInv

\* A manual compaction starts, or is done with a level.
LEMMA ManualStaysRead == TreeInv /\ ReadInv /\ ManualCompaction => ReadInv'
<1> SUFFICES ASSUME TreeInv, ReadInv, ManualCompaction PROVE ReadInv'
  OBVIOUS
<1> DEFINE cs == CompactRange(version, manual.level, manual.begin, manual.hi)
<1>1. Idle /\ ManualOK
  BY DEF ManualCompaction, Armed, TreeInv, RestInv
<1>2. /\ manual.hi \in Nat /\ manual.begin \in Nat /\ manual.level \in Nat
      /\ manual.level + 1 < NumLevels
  BY <1>1, VersionAssumption DEF ManualOK, ManualStates
<1> HIDE DEF cs
<1>3. CASE UNCHANGED <<mem, imm, version, pointer, toCompact, nextFile, snapshots,
                       compaction, written, split, crossed, calls>>
  BY <1>3, QuietStepsStayRead DEF Readers
<1>4. ASSUME NEW c \in cs, StartCompaction(c, TRUE) PROVE ReadInv'
  <2>1. Chosen(c, version)
    BY <1>2, VersionFiles, CompactedRange DEF cs
  <2> QED
    BY <1>1, <1>4, <2>1, StartStaysRead
<1> QED
  BY <1>3, <1>4 DEF ManualCompaction, cs

\* An empty tree has nothing to read.
LEMMA ReadInitInv == TreeInit => ReadInv
<1> SUFFICES ASSUME TreeInit PROVE ReadInv
  OBVIOUS
<1>1. \A l \in Levels : version[l] = {}
  BY DEF TreeInit
<1>2. Contents(FilesOf(version)) = {} /\ mem = {} /\ compaction = <<>> /\ written = <<>> /\ snapshots = {}
  BY <1>1 DEF TreeInit, FilesOf, Contents
<1>3. Flushing = {}
  BY DEF TreeInit, Flushing, ToSet
<1>4. Layered
  BY <1>2 DEF Layered
<1>5. KeysInOneFile(version) /\ Stacked(version)
  BY <1>1 DEF KeysInOneFile, Stacked, AllStrangers
<1>6. Kept
  <2>1. \A s \in Readers : s = 0
    BY <1>2 DEF Readers, LastSequence
  <2>2. \A k : Wrote(written, k, 0) = {}
    BY DEF Wrote
  <2> QED
    BY <2>1, <2>2 DEF Kept, KeptFor, LastWrite
<1> QED
  BY <1>2, <1>4, <1>5, <1>6 DEF ReadInv, Intact

\* Every step keeps it.
LEMMA ReadNextInv == TreeInv /\ ReadInv /\ [TreeNext]_treeVars => ReadInv'
<1> SUFFICES ASSUME TreeInv, ReadInv, [TreeNext]_treeVars PROVE ReadInv'
  OBVIOUS
<1>1. ASSUME NEW k \in Keys, NEW t \in Types, Write(k, t) PROVE ReadInv'
  BY <1>1, WriteStaysRead
<1>2. CASE GetSnapshot \/ \E s \in snapshots : ReleaseSnapshot(s)
  <2>1. UNCHANGED <<version, compaction, written, split, crossed, mem, imm>> /\ snapshots' \subseteq Readers
    BY <1>2 DEF GetSnapshot, ReleaseSnapshot, Readers
  <2> QED
    BY <2>1, QuietStepsStayRead
<1>3. CASE \/ \E k \in Keys : \E s \in snapshots \cup {LastSequence} : GetCharges(k, s)
           \/ \E l \in Levels : \E f \in version[l] : \E e \in f.entries : RecordReadSample(e)
           \/ \E r \in Ranges : CallCompactRange(r)
           \/ MemTableForced \/ ArmManual \/ UNCHANGED treeVars
  <2>1. UNCHANGED <<version, compaction, written, split, crossed, mem, imm, snapshots>>
    BY <1>3 DEF GetCharges, RecordReadSample, UpdateStats, CallCompactRange, MemTableForced, ArmManual, treeVars
  <2> QED
    BY <2>1, QuietStepsStayRead DEF Readers
<1>4. CASE CompactMemTable
  BY <1>4, FlushStaysRead
<1>5. CASE TrivialMove
  BY <1>5, TrivialMoveStaysRead
<1>6. CASE AutomaticCompaction
  <2>1. PICK c : c = Picked /\ StartCompaction(c, FALSE)
    BY <1>6 DEF AutomaticCompaction
  <2>2. Idle /\ Chosen(c, version)
    BY <1>6, <2>1, PickedLeavesNoGap DEF AutomaticCompaction
  <2> QED
    BY <2>1, <2>2, StartStaysRead
<1>7. CASE InstallCompaction
  BY <1>7, InstallStaysRead
<1>8. CASE ForceMemTable
  <2>1. UNCHANGED <<version, compaction, written, split, crossed, snapshots>>
        /\ mem' = {} /\ imm' = <<mem>> /\ imm = <<>>
    BY <1>8 DEF ForceMemTable
  <2> QED
    BY <2>1, QuietStepsStayRead DEF Readers
<1>9. CASE ManualCompaction
  BY <1>9, ManualStaysRead
<1> QED
  BY <1>1, <1>2, <1>3, <1>4, <1>5, <1>6, <1>7, <1>8, <1>9 DEF TreeNext

-----------------------------------------------------------------------------
(* Reads. *)

\* The entries of a key up to a number, and the newest of them.
Visible(e, k, s) == e.key = k /\ e.seq <= s
Top(e, es, k, s) == e \in es /\ Visible(e, k, s) /\ \A o \in es : Visible(o, k, s) => o.seq <= e.seq

\* A search finds the newest entry it may see, if there is one.
LEMMA LookupFinds ==
    ASSUME NEW es, Run(es), NEW k, NEW s \in Nat
    PROVE  /\ \A e : e \in Lookup(es, k, s) <=> Top(e, es, k, s)
           /\ (\E e \in es : Visible(e, k, s)) => Lookup(es, k, s) # {}
<1>1. \A e : e \in Lookup(es, k, s) <=> Top(e, es, k, s)
  BY DEF Lookup, Top, Visible
<1>2. ASSUME NEW x \in es, Visible(x, k, s) PROVE \E e : Top(e, es, k, s)
  <2> DEFINE seen == {e \in es : Visible(e, k, s)}
             R == {p \in seen \X seen : p[1].seq > p[2].seq}
  <2>1. \A a, b \in seen : <<a, b>> \in R <=> a.seq > b.seq
    OBVIOUS
  <2>2. IsFiniteSet(seen) /\ seen # {} /\ \A a \in seen : a.seq \in Nat /\ a \in es /\ Visible(a, k, s)
    BY <1>2, FS_Subset DEF Run
  <2>3. \A a \in es : Visible(a, k, s) => a \in seen
    OBVIOUS
  <2> HIDE DEF R, seen
  <2>4. \A a, b, c \in seen : <<a, b>> \in R /\ <<b, c>> \in R => <<a, c>> \in R
    BY <2>1, <2>2
  <2>5. \A a \in seen : <<a, a>> \notin R
    BY <2>1, <2>2
  <2>6. PICK m \in seen : \A y \in seen : <<y, m>> \notin R
    BY <2>2, <2>4, <2>5, SomethingIsLeast
  <2>7. ASSUME NEW y \in seen PROVE y.seq <= m.seq
    <3>1. ~(y.seq > m.seq)
      BY <2>1, <2>6
    <3>2. y.seq \in Nat /\ m.seq \in Nat
      BY <2>2
    <3> QED
      BY <3>1, <3>2
  <2> QED
    BY <2>2, <2>3, <2>7 DEF Top
<1> QED
  BY <1>1, <1>2

\* A search of two runs of which one is newer: the other one matters only when the first
\* has nothing.
LEMMA LayeredLookup ==
    ASSUME NEW es, Run(es), NEW ds, Run(ds), \A a \in es, b \in ds : a.seq > b.seq, NEW k, NEW s \in Nat
    PROVE  \A e : Top(e, es \cup ds, k, s) <=>
                  e \in (IF Lookup(es, k, s) # {} THEN Lookup(es, k, s) ELSE Lookup(ds, k, s))
<1>1. \A e : e \in Lookup(es, k, s) <=> Top(e, es, k, s)
  BY LookupFinds
<1>2. \A e : e \in Lookup(ds, k, s) <=> Top(e, ds, k, s)
  BY LookupFinds
<1>3. \A e \in es \cup ds : e.seq \in Nat
  BY DEF Run
<1>4. CASE Lookup(es, k, s) # {}
  <2>1. PICK x : Top(x, es, k, s)
    BY <1>1, <1>4
  <2>2. ASSUME NEW e, Top(e, es \cup ds, k, s) PROVE Top(e, es, k, s)
    <3>1. x \in es /\ Visible(x, k, s) /\ x.seq <= e.seq /\ e \in es \cup ds
      BY <2>1, <2>2 DEF Top
    <3>2. e \in es
      BY <1>3, <3>1
    <3> QED
      BY <2>2, <3>2 DEF Top
  <2>3. ASSUME NEW e, Top(e, es, k, s) PROVE Top(e, es \cup ds, k, s)
    <3>1. e \in es /\ \A o \in ds : o.seq <= e.seq
      BY <1>3, <2>3 DEF Top
    <3> QED
      BY <2>3, <3>1 DEF Top
  <2> QED
    BY <1>1, <1>4, <2>2, <2>3
<1>5. CASE Lookup(es, k, s) = {}
  <2>1. \A o \in es : ~Visible(o, k, s)
    BY <1>5, LookupFinds
  <2>2. \A e : Top(e, es \cup ds, k, s) <=> Top(e, ds, k, s)
    BY <2>1 DEF Top
  <2> QED
    BY <1>2, <1>5, <2>2
<1> QED
  BY <1>4, <1>5

\* Version::Get reads every file that has something to find.
LEMMA FileIsSearched ==
    ASSUME NEW v, FileSet(FilesOf(v)), KeysInOneFile(v), NEW l \in Levels, l # 0 => MustNotOverlap(v[l]),
           NEW f \in v[l], NEW e \in f.entries, NEW k, NEW s \in Nat, Visible(e, k, s)
    PROVE  f \in SearchedFiles(v, l, k, s)
<1>1. \A g \in v[l] : IsFile(g) /\ g \in FilesOf(v)
  BY DEF FileSet, FilesOf
<1>2. /\ e.key = k /\ e.seq <= s /\ k \in Nat /\ e.seq \in Nat
      /\ f.smallest.key <= k /\ k <= f.largest.key
      /\ f.smallest.key \in Nat /\ f.largest.key \in Nat
      /\ f.smallest.seq \in Nat /\ f.largest.seq \in Nat
  BY <1>1, FileKeys DEF Visible
<1>3. CASE l = 0
  BY <1>2, <1>3 DEF SearchedFiles
<1>4. CASE l # 0
  <2> DEFINE key == Entry(k, s, "val")
             reach == {g \in v[l] : ~Before(g.largest, key)}
  <2>0. key.key = k /\ key.seq = s
    BY DEF Entry
  <2> HIDE DEF key
  <2>1. f \in reach
    <3>1. e = f.largest \/ Before(e, f.largest)
      BY <1>1 DEF IsFile
    <3> QED
      BY <1>2, <2>0, <3>1 DEF Before
  <2>2. ASSUME NEW g \in reach, BySmallestKey(g, f), g # f PROVE FALSE
    <3>1. g \in v[l] /\ IsFile(g) /\ IsFile(f)
      BY <1>1
    <3>2. /\ g.smallest.key \in Nat /\ g.largest.key \in Nat /\ g.smallest.key <= g.largest.key
          /\ g.smallest.seq \in Nat /\ g.largest.seq \in Nat
          /\ g.largest \in g.entries
      BY <3>1, FileKeys DEF IsFile
    <3>3. Before(g.largest, f.smallest) \/ Before(f.largest, g.smallest)
      BY <1>4, <2>2, <3>1 DEF MustNotOverlap, Apart
    <3>4. ~Before(f.largest, g.smallest)
      <4>1. f.smallest = f.largest \/ Before(f.smallest, f.largest)
        BY <3>1 DEF IsFile
      <4>2. f.smallest = g.smallest \/ Before(g.smallest, f.smallest)
        BY <2>2 DEF BySmallestKey
      <4> QED
        BY <1>2, <3>2, <4>1, <4>2 DEF Before
    <3>5. g.largest.key <= f.smallest.key /\ g.largest.key >= k
      BY <1>2, <2>0, <3>2, <3>3, <3>4 DEF Before
    <3>6. g.largest.key = e.key
      BY <1>2, <3>2, <3>5
    <3>7. Strangers(g, f)
      BY <1>4, <2>2, <3>1 DEF KeysInOneFile, AllStrangers
    <3> QED
      BY <3>2, <3>6, <3>7 DEF Strangers
  <2>3. FileSet(v[l])
    <3>1. v[l] \subseteq FilesOf(v)
      BY DEF FilesOf
    <3> QED
      BY <3>1, FileSubset
  <2>4. \A g \in reach : g = f \/ BySmallestKey(f, g)
    BY <2>2, <2>3, FilesAreOrdered
  <2>5. f \in FindFile(v[l], key)
    BY <2>1, <2>4 DEF FindFile
  <2> QED
    BY <1>2, <1>4, <2>5 DEF SearchedFiles, key
<1> QED
  BY <1>3, <1>4

\* The files in which it finds something.
HitIn(v, x, l, f, k, s) ==
    x = <<l, f>> /\ l \in Levels /\ f \in v[l] /\ \E e \in f.entries : Visible(e, k, s)
LEMMA FilesHit ==
    ASSUME NEW v, FileSet(FilesOf(v)), KeysInOneFile(v), \A l \in Levels : l # 0 => MustNotOverlap(v[l]),
           NEW k, NEW s \in Nat
    PROVE  \A x : x \in Hits(FilesToSearch(v, k, s), k, s) <=> \E l, f : HitIn(v, x, l, f, k, s)
<1>1. \A l \in Levels : \A f \in v[l] : Run(f.entries)
  BY DEF FileSet, FilesOf, IsFile
<1>2. ASSUME NEW l \in Levels, NEW f \in v[l]
      PROVE  Lookup(f.entries, k, s) # {} <=> \E e \in f.entries : Visible(e, k, s)
  <2>1. Run(f.entries)
    BY <1>1
  <2> QED
    BY <2>1, LookupFinds DEF Top
<1>3. ASSUME NEW x, x \in Hits(FilesToSearch(v, k, s), k, s) PROVE \E l, f : HitIn(v, x, l, f, k, s)
  <2>1. x \in FilesToSearch(v, k, s) /\ Lookup(x[2].entries, k, s) # {}
    BY <1>3 DEF Hits
  <2>2. PICK l \in Levels : x \in {<<l, f>> : f \in SearchedFiles(v, l, k, s)}
    BY <2>1 DEF FilesToSearch
  <2>3. PICK f \in SearchedFiles(v, l, k, s) : x = <<l, f>>
    BY <2>2
  <2>4. f \in v[l]
    BY DEF SearchedFiles, FindFile
  <2>5. x[2] = f
    BY <2>3
  <2> QED
    BY <1>2, <2>1, <2>3, <2>4, <2>5 DEF HitIn
<1>4. ASSUME NEW x, NEW l, NEW f, HitIn(v, x, l, f, k, s) PROVE x \in Hits(FilesToSearch(v, k, s), k, s)
  <2>1. PICK e \in f.entries : Visible(e, k, s)
    BY <1>4 DEF HitIn
  <2>2. l \in Levels /\ f \in v[l] /\ x = <<l, f>> /\ x[2] = f
    BY <1>4 DEF HitIn
  <2>3. f \in SearchedFiles(v, l, k, s)
    BY <2>1, <2>2, FileIsSearched
  <2>4. x \in FilesToSearch(v, k, s)
    BY <2>2, <2>3 DEF FilesToSearch
  <2>5. Lookup(f.entries, k, s) # {}
    BY <1>2, <2>1, <2>2
  <2> QED
    BY <2>2, <2>4, <2>5 DEF Hits
<1> QED
  BY <1>3, <1>4

\* Version::Get answers with the newest entry of all files.
LEMMA VersionGetFinds ==
    ASSUME NEW v, FileSet(FilesOf(v)), KeysInOneFile(v), \A l \in Levels : l # 0 => MustNotOverlap(v[l]),
           Stacked(v), NEW k, NEW s \in Nat
    PROVE  VersionGet(v, k, s) = Lookup(Contents(FilesOf(v)), k, s)
<1> DEFINE es == Contents(FilesOf(v))
           hits == Hits(FilesToSearch(v, k, s), k, s)
<1>1. \A x : x \in hits <=> \E l, f : HitIn(v, x, l, f, k, s)
  BY FilesHit
<1>2. /\ VersionGet(v, k, s) = UNION {Lookup(x[2].entries, k, s) : x \in FirstSearched(hits)}
      /\ FirstSearched(hits) = {x \in hits : \A y \in hits : y = x \/ SearchedBefore(x, y)}
  BY DEF VersionGet, FirstSearched
<1>3. Run(es)
  BY SizesAreNumbers
<1>4. \A l \in Levels : \A f \in v[l] : /\ f \in FilesOf(v) /\ f.number \in Nat
                                        /\ \A e \in f.entries : e \in es /\ e.seq \in Nat
  BY FileKeys DEF FileSet, FilesOf, Contents, IsFile
<1>5. \A e \in es : \E l \in Levels : \E f \in v[l] : e \in f.entries
  BY DEF FilesOf, Contents
<1>6. \A e : e \in Lookup(es, k, s) <=> Top(e, es, k, s)
  BY <1>3, LookupFinds
<1> HIDE DEF hits, es
<1>7. CASE Lookup(es, k, s) = {}
  <2>1. \A e \in es : ~Visible(e, k, s)
    BY <1>3, <1>7, LookupFinds
  <2>2. hits = {}
    <3> SUFFICES ASSUME NEW x \in hits PROVE FALSE
      OBVIOUS
    <3>1. PICK l, f : HitIn(v, x, l, f, k, s)
      BY <1>1
    <3> QED
      BY <1>4, <2>1, <3>1 DEF HitIn
  <2>3. FirstSearched(hits) = {}
    BY <1>2, <2>2
  <2>4. VersionGet(v, k, s) = {}
    BY <1>2, <2>3
  <2> QED
    BY <1>7, <2>4 DEF es
<1>8. ASSUME NEW e, e \in Lookup(es, k, s) PROVE VersionGet(v, k, s) = Lookup(es, k, s)
  <2>1. Top(e, es, k, s) /\ e \in es /\ Visible(e, k, s)
    BY <1>6, <1>8 DEF Top
  <2>2. PICK l \in Levels : \E f \in v[l] : e \in f.entries
    BY <1>5, <2>1
  <2>3. PICK f \in v[l] : e \in f.entries
    BY <2>2
  <2>4. PICK x : x = <<l, f>>
    OBVIOUS
  <2>5. x \in hits
    BY <1>1, <2>1, <2>3, <2>4 DEF HitIn
  <2>6. ASSUME NEW y \in hits PROVE y = x \/ SearchedBefore(x, y)
    <3>1. PICK m, g : HitIn(v, y, m, g, k, s)
      BY <1>1
    <3>2. PICK a \in g.entries : Visible(a, k, s)
      BY <3>1 DEF HitIn
    <3>3. y = <<m, g>> /\ m \in Levels /\ g \in v[m] /\ a.key = e.key
      BY <2>1, <3>1, <3>2 DEF HitIn, Visible
    <3>4. a.seq <= e.seq /\ a.seq \in Nat /\ e.seq \in Nat /\ ~(a.seq > e.seq)
      <4>1. a.seq <= e.seq /\ a.seq \in Nat /\ e.seq \in Nat
        BY <1>4, <2>1, <2>3, <3>2, <3>3 DEF Top
      <4> QED
        BY <4>1
    <3>5. ~Newer(g, f)
      BY <2>3, <3>2, <3>3, <3>4 DEF Newer
    <3>6. ~Higher(m, g, l, f)
      BY <3>3, <3>5 DEF Stacked
    <3>7. l \in Nat /\ m \in Nat /\ f.number \in Nat /\ g.number \in Nat
      BY <1>4, <3>3, VersionAssumption DEF Levels
    <3>8. CASE m # l
      <4>1. l < m
        BY <3>6, <3>7, <3>8 DEF Higher
      <4> QED
        BY <2>4, <3>3, <4>1 DEF SearchedBefore
    <3>9. CASE m = l /\ l # 0
      <4>1. ~Strangers(g, f)
        BY <2>3, <3>2, <3>3 DEF Strangers
      <4>2. g = f
        BY <3>3, <3>9, <4>1 DEF KeysInOneFile, AllStrangers
      <4> QED
        BY <2>4, <3>3, <3>9, <4>2
    <3>10. CASE m = l /\ l = 0
      <4>1. ~(g.number > f.number)
        BY <3>6, <3>10 DEF Higher
      <4>2. g = f \/ g.number # f.number
        BY <1>4, <3>3 DEF FileSet
      <4>3. g = f \/ f.number > g.number
        BY <3>7, <4>1, <4>2
      <4> QED
        BY <2>4, <3>3, <3>10, <4>3 DEF SearchedBefore
    <3> QED
      BY <3>8, <3>9, <3>10
  <2>7. ASSUME NEW y \in hits, y # x, SearchedBefore(y, x) PROVE FALSE
    <3>1. SearchedBefore(x, y)
      BY <2>6, <2>7
    <3>2. PICK m, g : HitIn(v, y, m, g, k, s)
      BY <1>1
    <3>3. y = <<m, g>> /\ m \in Levels /\ g \in v[m]
      BY <3>2 DEF HitIn
    <3>4. l \in Nat /\ m \in Nat /\ f.number \in Nat /\ g.number \in Nat
      BY <1>4, <3>3, VersionAssumption DEF Levels
    <3>5. x[1] = l /\ x[2] = f /\ y[1] = m /\ y[2] = g
      BY <2>4, <3>3
    <3> QED
      BY <2>7, <3>1, <3>4, <3>5 DEF SearchedBefore
  <2>8. FirstSearched(hits) = {x}
    BY <1>2, <2>5, <2>6, <2>7
  <2>9. VersionGet(v, k, s) = Lookup(f.entries, k, s)
    <3>1. x[2] = f
      BY <2>4
    <3> QED
      BY <1>2, <2>8, <3>1
  <2>10. Lookup(f.entries, k, s) = {e}
    <3>1. Run(f.entries)
      BY <1>4 DEF FileSet, IsFile
    <3>2. Top(e, f.entries, k, s)
      BY <1>4, <2>1, <2>3 DEF Top
    <3>3. \A a \in f.entries : Top(a, f.entries, k, s) => a = e
      BY <1>4, <2>1, <2>3, <3>1, <3>2 DEF Top, Run
    <3> QED
      BY <3>1, <3>2, <3>3, LookupFinds DEF Top
  <2>11. Lookup(es, k, s) = {e}
    <3>1. \A a \in es : Top(a, es, k, s) => a = e
      BY <1>3, <2>1 DEF Top, Run
    <3> QED
      BY <1>6, <2>1, <3>1 DEF Top
  <2> QED
    BY <2>9, <2>10, <2>11
<1> QED
  BY <1>7, <1>8 DEF es

\* DBImpl::Get answers with the newest entry there is.
Found(k, s) ==
    IF Lookup(mem, k, s) # {} THEN Lookup(mem, k, s)
    ELSE IF Lookup(Flushing, k, s) # {} THEN Lookup(Flushing, k, s) ELSE VersionGet(version, k, s)
LEMMA GetFinds ==
    ASSUME TreeInv, ReadInv, ~split, ~crossed, NEW k, NEW s \in Nat
    PROVE  \A e : e \in Found(k, s) <=> Top(e, Everything, k, s)
<1> DEFINE es == Contents(FilesOf(version))
<1>1. /\ \A a \in mem, b \in Flushing : a.seq > b.seq
      /\ \A a \in InMemory, b \in es : a.seq > b.seq
      /\ KeysInOneFile(version) /\ Stacked(version)
  BY DEF ReadInv, Layered, Intact
<1>2. FileSet(FilesOf(version)) /\ Run(es)
  BY VersionFiles, SizesAreNumbers
<1>3. written \in Seq(Operations) /\ IsFiniteSet(mem) /\ IsFiniteSet(Flushing)
  <2>1. IsFiniteSet(Flushing)
    <3>1. CASE imm = <<>>
      BY <3>1, FlushingIs, FS_EmptySet DEF TreeInv
    <3>2. ASSUME NEW m, imm = <<m>>, IsFiniteSet(m) PROVE IsFiniteSet(Flushing)
      BY <3>2, FlushingIs DEF TreeInv
    <3> QED
      BY <3>1, <3>2 DEF TreeInv, MemInv
  <2> QED
    BY <2>1 DEF TreeInv, MemInv
<1>4. \A e \in Everything : IsEntry(written, e)
  BY AllAreEntries
<1>5. IsFiniteSet(InMemory) /\ mem \subseteq Everything /\ Flushing \subseteq Everything /\ InMemory \subseteq Everything
  BY <1>3, FS_Union DEF InMemory, Everything
<1>6. Run(mem) /\ Run(Flushing) /\ Run(InMemory)
  BY <1>3, <1>4, <1>5, EntriesOfRun
<1>7. \A l \in Levels : l # 0 => MustNotOverlap(version[l])
  BY VersionAssumption DEF TreeInv, Levels
<1>8. VersionGet(version, k, s) = Lookup(es, k, s)
  BY <1>1, <1>2, <1>7, VersionGetFinds
<1>9. \A e : Top(e, InMemory, k, s) <=>
             e \in (IF Lookup(mem, k, s) # {} THEN Lookup(mem, k, s) ELSE Lookup(Flushing, k, s))
  BY <1>1, <1>6, LayeredLookup DEF InMemory
<1>10. \A e : Top(e, Everything, k, s) <=>
             e \in (IF Lookup(InMemory, k, s) # {} THEN Lookup(InMemory, k, s) ELSE Lookup(es, k, s))
  BY <1>1, <1>2, <1>6, LayeredLookup DEF Everything
<1>11. \A e : e \in Lookup(InMemory, k, s) <=> Top(e, InMemory, k, s)
  BY <1>6, LookupFinds
<1>12. Lookup(InMemory, k, s) = IF Lookup(mem, k, s) # {} THEN Lookup(mem, k, s) ELSE Lookup(Flushing, k, s)
  BY <1>9, <1>11
<1> HIDE DEF es
<1> QED
  BY <1>8, <1>10, <1>12 DEF Found

\* And that is the newest write.
LEMMA NewestIsRead == TreeInv /\ ReadInv => UnsplitReadsSeeNewest
<1> SUFFICES ASSUME TreeInv, ReadInv, ~split, ~crossed, NEW k \in Keys, NEW s \in Readers
             PROVE  Get(k, s) = Newest(k, s)
  BY DEF UnsplitReadsSeeNewest, ReadsSeeNewest, Readers
<1> DEFINE seen == Wrote(written, k, s)
<1>1. /\ \A e \in Everything : e.seq \in 1 .. Len(written) /\ e.key = written[e.seq].key
                               /\ e.type = written[e.seq].type /\ e.seq \in Nat
      /\ \A a, b \in Everything : a.seq = b.seq => a = b
  BY AllAreEntries DEF IsEntry, Entry
<1>2. s \in Nat
  BY AllAreEntries
<1>3. \A e : e \in Found(k, s) <=> Top(e, Everything, k, s)
  BY <1>2, GetFinds
<1>4. Get(k, s) = {e.seq : e \in {x \in Found(k, s) : x.type = "val"}}
  BY DEF Get, Found, Flushing
<1>5. Newest(k, s) = {i \in seen : i = Max(seen) /\ written[i].type = "val"}
  BY DEF Newest, Wrote
<1>6. KeptFor(Everything, written, k, s)
  BY DEF ReadInv, Intact, Kept
<1>7. \A e \in Everything : Visible(e, k, s) <=> e.seq \in seen
  BY <1>1, <1>2 DEF Visible, Wrote
<1>8. seen \in SUBSET (0 .. s) /\ seen \in SUBSET Nat
  BY <1>2 DEF Wrote
<1>9. CASE seen = {}
  <2>1. \A e : ~Top(e, Everything, k, s)
    BY <1>7, <1>9 DEF Top
  <2> QED
    BY <1>3, <1>4, <1>5, <1>9, <2>1
<1>10. CASE seen # {}
  <2>1. PICK n : n = Max(seen)
    OBVIOUS
  <2>2. n \in seen /\ n \in Nat /\ \A i \in seen : i <= n
    <3> HIDE DEF seen
    <3> QED
      BY <1>2, <1>8, <1>10, <2>1, FiniteInterval, LeastAndGreatest
  <2>3. LastWrite(written, k, s, n)
    BY <2>2 DEF LastWrite
  <2> HIDE DEF seen
  <2>4. ASSUME NEW e \in Everything, e.seq = n PROVE Get(k, s) = Newest(k, s)
    <3>1. Top(e, Everything, k, s)
      BY <1>7, <2>2, <2>4 DEF Top
    <3>2. \A a \in Everything : Top(a, Everything, k, s) => a = e
      BY <1>1, <2>4, <3>1 DEF Top
    <3>3. Found(k, s) = {e}
      BY <1>3, <3>1, <3>2 DEF Top
    <3>4. e.type = written[n].type
      BY <1>1, <2>4
    <3>5. Get(k, s) = IF written[n].type = "val" THEN {n} ELSE {}
      BY <1>4, <2>4, <3>3, <3>4
    <3>6. Newest(k, s) = IF written[n].type = "val" THEN {n} ELSE {}
      BY <1>5, <2>1, <2>2
    <3> QED
      BY <3>5, <3>6
  <2>5. CASE written[n].type = "del" /\ \A e \in Everything : e.key = k => e.seq > n
    <3>1. \A e \in Everything : ~Visible(e, k, s)
      <4> SUFFICES ASSUME NEW e \in Everything, Visible(e, k, s) PROVE FALSE
        OBVIOUS
      <4>1. e.seq <= n /\ e.seq > n /\ e.seq \in Nat
        BY <1>1, <1>7, <2>2, <2>5 DEF Visible
      <4> QED
        BY <2>2, <4>1
    <3>2. Get(k, s) = {}
      BY <1>3, <1>4, <3>1 DEF Top
    <3>3. Newest(k, s) = {}
      BY <1>5, <2>1, <2>5
    <3> QED
      BY <3>2, <3>3
  <2> QED
    BY <1>6, <2>3, <2>4, <2>5 DEF KeptFor
<1> QED
  BY <1>9, <1>10

\* The order of the levels is that of the property.
LEMMA StackedIsNewer == ReadInv => NewerEntriesAbove
BY DEF ReadInv, Intact, Stacked, Higher, Newer, NewerEntriesAbove

\* In every reachable state.
LEMMA ReadsCorrect == TreeSpec => [](NewerEntriesAbove /\ UnsplitReadsSeeNewest)
<1>1. TreeInit => TreeInv /\ ReadInv
  BY TreeInitInv, ReadInitInv
<1>2. TreeInv /\ ReadInv /\ [TreeNext]_treeVars => (TreeInv /\ ReadInv)'
  BY TreeNextInv, ReadNextInv
<1>3. TreeInv /\ ReadInv => NewerEntriesAbove /\ UnsplitReadsSeeNewest
  BY NewestIsRead, StackedIsNewer
<1> QED
  BY <1>1, <1>2, <1>3, PTL DEF TreeSpec

\* DoCompactionWork's "data in lower levels will have larger sequence numbers": what is
\* flushed, moved and compacted leaves the newer entries of a key above the older ones, in
\* level 0 in the files with the higher numbers.
THEOREM EntriesStayStacked == TreeSpec => []NewerEntriesAbove
BY ReadsCorrect, PTL

\* DBImpl::Get at the last number or at a snapshot answers with the newest write up to it:
\* DoCompactionWork drops no entry that a reader needs, brings none back and hides none,
\* although snapshots come and go and memtables are flushed while it runs.
THEOREM ReadsStayNewest == TreeSpec => []UnsplitReadsSeeNewest
BY ReadsCorrect, PTL
=============================================================================
