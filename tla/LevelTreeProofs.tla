--------------------------- MODULE LevelTreeProofs ---------------------------
(***************************************************************************)
(* The levels of LevelTree stay disjoint and a compaction's inputs stay    *)
(* current, for any keys, levels, sizes, snapshots and calls.  The first   *)
(* parts are about VersionSet's operators: which files an automatic        *)
(* compaction takes (they leave no gap), what it makes of them (sorted     *)
(* runs), and where a flush puts its file.  TreeInv is the inductive       *)
(* invariant; the last part has one lemma per step.                        *)
(***************************************************************************)
EXTENDS LevelTree, FiniteSetTheorems, WellFoundedInduction, TLAPS

\* A finite set that is not empty has an element that no other one precedes, whatever
\* strict order is given on it.
LEMMA SomethingIsLeast ==
    ASSUME NEW S, IsFiniteSet(S), S # {}, NEW R,
           \A a, b, c \in S : <<a, b>> \in R /\ <<b, c>> \in R => <<a, c>> \in R,
           \A a \in S : <<a, a>> \notin R
    PROVE  \E m \in S : \A x \in S : <<x, m>> \notin R
<1> DEFINE Without(T) == \A m \in T : \E x \in T : <<x, m>> \in R
           U == {T \in SUBSET S : T # {} /\ Without(T)}
<1> SUFFICES ASSUME Without(S) PROVE FALSE
  OBVIOUS
<1>1. U \subseteq FiniteSubsetsOf(S) /\ S \in U
  <2>1. \A T \in SUBSET S : IsFiniteSet(T)
    BY FS_Subset
  <2> QED
    BY <2>1 DEF FiniteSubsetsOf
<1>2. IsWellFoundedOn(StrictSubsetOrdering(S), FiniteSubsetsOf(S))
  BY FS_StrictSubsetOrderingWellFounded
<1>3. PICK T \in U : \A V \in U : ~ (<<V, T>> \in StrictSubsetOrdering(S))
  <2> HIDE DEF U
  <2> QED
    BY <1>1, <1>2, WFMin
<1>4. PICK x \in T : TRUE
  OBVIOUS
<1> DEFINE V == T \ {x}
<1>5. V \notin U
  <2>1. V \subseteq S /\ V \subseteq T /\ V # T /\ T \subseteq S
    BY <1>4
  <2> QED
    BY <1>3, <2>1 DEF StrictSubsetOrdering
<1>6. V # {}
  BY <1>4
<1>7. PICK m \in V : \A y \in V : <<y, m>> \notin R
  BY <1>5, <1>6
<1>8. <<x, m>> \in R
  BY <1>7
<1>9. PICK y \in T : <<y, x>> \in R
  BY <1>4
<1>10. <<y, m>> \in R /\ y # x
  BY <1>4, <1>7, <1>8, <1>9
<1> QED
  BY <1>7, <1>9, <1>10

\* A finite set of naturals has a least and a greatest element.
LEMMA LeastAndGreatest ==
    ASSUME NEW S \in SUBSET Nat, IsFiniteSet(S), S # {}
    PROVE  /\ Min(S) \in S /\ \A n \in S : Min(S) <= n
           /\ Max(S) \in S /\ \A n \in S : n <= Max(S)
<1>1. \E m \in S : \A n \in S : m <= n
  <2> DEFINE R == {p \in S \X S : p[1] < p[2]}
  <2>1. \A a, b \in S : <<a, b>> \in R <=> a < b
    OBVIOUS
  <2> HIDE DEF R
  <2>2. \A a, b, c \in S : <<a, b>> \in R /\ <<b, c>> \in R => <<a, c>> \in R
    BY <2>1
  <2>3. \A a \in S : <<a, a>> \notin R
    BY <2>1
  <2>4. PICK m \in S : \A x \in S : <<x, m>> \notin R
    BY <2>2, <2>3, SomethingIsLeast
  <2>5. \A n \in S : ~(n < m)
    BY <2>1, <2>4
  <2> QED
    BY <2>5
<1>2. \E m \in S : \A n \in S : m >= n
  <2> DEFINE R == {p \in S \X S : p[1] > p[2]}
  <2>1. \A a, b \in S : <<a, b>> \in R <=> a > b
    OBVIOUS
  <2> HIDE DEF R
  <2>2. \A a, b, c \in S : <<a, b>> \in R /\ <<b, c>> \in R => <<a, c>> \in R
    BY <2>1
  <2>3. \A a \in S : <<a, a>> \notin R
    BY <2>1
  <2>4. PICK m \in S : \A x \in S : <<x, m>> \notin R
    BY <2>2, <2>3, SomethingIsLeast
  <2>5. \A n \in S : ~(n > m)
    BY <2>1, <2>4
  <2> QED
    BY <2>5
<1>3. Min(S) \in S /\ \A n \in S : Min(S) <= n
  BY <1>1 DEF Min
<1>4. Max(S) \in S /\ \A n \in S : n <= Max(S)
  BY <1>2 DEF Max
<1> QED
  BY <1>3, <1>4

-----------------------------------------------------------------------------
\* Internal keys, no two with one number.
Run(es) ==
    /\ IsFiniteSet(es)
    /\ \A e \in es : e.key \in Nat /\ e.seq \in Nat
    /\ \A a, b \in es : a.seq = b.seq => a = b

\* The ends of a run.
LEMMA EndsOfRun ==
    ASSUME NEW es, Run(es), es # {}
    PROVE  /\ First(es) \in es /\ \A o \in es : o = First(es) \/ Before(First(es), o)
           /\ Final(es) \in es /\ \A o \in es : o = Final(es) \/ Before(o, Final(es))
<1>0. \A a, b \in es : a = b \/ Before(a, b) \/ Before(b, a)
  BY DEF Run, Before
<1>1. \E m \in es : \A o \in es : o = m \/ Before(m, o)
  <2> DEFINE R == {p \in es \X es : Before(p[1], p[2])}
  <2>1. \A a, b \in es : <<a, b>> \in R <=> Before(a, b)
    OBVIOUS
  <2> HIDE DEF R
  <2>2. \A a, b, c \in es : <<a, b>> \in R /\ <<b, c>> \in R => <<a, c>> \in R
    BY <2>1 DEF Run, Before
  <2>3. \A a \in es : <<a, a>> \notin R
    BY <2>1 DEF Run, Before
  <2>4. PICK m \in es : \A x \in es : <<x, m>> \notin R
    BY <2>2, <2>3, SomethingIsLeast DEF Run
  <2> QED
    BY <1>0, <2>1, <2>4
<1>2. \E m \in es : \A o \in es : o = m \/ Before(o, m)
  <2> DEFINE R == {p \in es \X es : Before(p[2], p[1])}
  <2>1. \A a, b \in es : <<a, b>> \in R <=> Before(b, a)
    OBVIOUS
  <2> HIDE DEF R
  <2>2. \A a, b, c \in es : <<a, b>> \in R /\ <<b, c>> \in R => <<a, c>> \in R
    BY <2>1 DEF Run, Before
  <2>3. \A a \in es : <<a, a>> \notin R
    BY <2>1 DEF Run, Before
  <2>4. PICK m \in es : \A x \in es : <<x, m>> \notin R
    BY <2>2, <2>3, SomethingIsLeast DEF Run
  <2> QED
    BY <1>0, <2>1, <2>4
<1>3. First(es) \in es /\ \A o \in es : o = First(es) \/ Before(First(es), o)
  BY <1>1 DEF First
<1>4. Final(es) \in es /\ \A o \in es : o = Final(es) \/ Before(o, Final(es))
  BY <1>2 DEF Final
<1> QED
  BY <1>3, <1>4

\* A table file: a run that is not empty, with its ends.
IsFile(f) ==
    /\ f.number \in Nat
    /\ Run(f.entries) /\ f.entries # {}
    /\ f.smallest \in f.entries /\ f.largest \in f.entries
    /\ \A e \in f.entries : e = f.smallest \/ Before(f.smallest, e)
    /\ \A e \in f.entries : e = f.largest \/ Before(e, f.largest)

\* Files of which no two share a number, or a sequence number.
Contents(fs) == UNION {f.entries : f \in fs}
FileSet(fs) ==
    /\ IsFiniteSet(fs)
    /\ \A f \in fs : IsFile(f)
    /\ \A f, g \in fs : f.number = g.number => f = g
    /\ \A a, b \in Contents(fs) : a.seq = b.seq => a = b

\* The user keys of a file lie between those of its ends.
LEMMA FileKeys ==
    ASSUME NEW f, IsFile(f)
    PROVE  /\ f.smallest.key \in Nat /\ f.largest.key \in Nat /\ f.smallest.key <= f.largest.key
           /\ f.smallest.seq \in Nat /\ f.largest.seq \in Nat
           /\ \A e \in f.entries : /\ e.key \in Nat /\ e.seq \in Nat
                                   /\ f.smallest.key <= e.key /\ e.key <= f.largest.key
BY DEF IsFile, Run, Before

\* DoCompactionWork and BuildTable describe a file by its first and last entry.
LEMMA MetaDataOfFile ==
    ASSUME NEW n \in Nat, NEW es, Run(es), es # {}
    PROVE  /\ IsFile(FileMetaData(n, es))
           /\ FileMetaData(n, es).number = n /\ FileMetaData(n, es).entries = es
BY EndsOfRun DEF IsFile, FileMetaData

\* Some of the files are files.
LEMMA FileSubset == ASSUME NEW fs, FileSet(fs), NEW gs \in SUBSET fs PROVE FileSet(gs)
<1>1. IsFiniteSet(gs)
  BY FS_Subset DEF FileSet
<1>2. Contents(gs) \subseteq Contents(fs)
  BY DEF Contents
<1> QED
  BY <1>1, <1>2 DEF FileSet

\* files_[level] is sorted by smallest key, and that leaves no two files equal.
LEMMA FilesAreOrdered ==
    ASSUME NEW fs, FileSet(fs)
    PROVE  /\ \A f, g \in fs : f = g \/ BySmallestKey(f, g) \/ BySmallestKey(g, f)
           /\ \A f, g \in fs : BySmallestKey(f, g) => ~BySmallestKey(g, f) /\ f # g
           /\ \A f, g, h \in fs : BySmallestKey(f, g) /\ BySmallestKey(g, h) => BySmallestKey(f, h)
           /\ \A f, g \in fs : BySmallestKey(f, g) => f.smallest.key <= g.smallest.key
<1>1. \A f \in fs : /\ f.smallest.key \in Nat /\ f.smallest.seq \in Nat /\ f.number \in Nat
                    /\ f.smallest \in Contents(fs)
  BY FileKeys DEF FileSet, IsFile, Contents
<1>2. \A f, g \in fs : f.smallest.seq = g.smallest.seq => f.smallest = g.smallest
  BY <1>1 DEF FileSet
<1>3. \A f, g \in fs : f.smallest = g.smallest \/ Before(f.smallest, g.smallest) \/ Before(g.smallest, f.smallest)
  BY <1>1, <1>2 DEF Before
<1>4. \A f, g \in fs : f.number = g.number => f = g
  BY DEF FileSet
<1>5. \A f, g \in fs : f = g \/ BySmallestKey(f, g) \/ BySmallestKey(g, f)
  BY <1>1, <1>3, <1>4 DEF BySmallestKey
<1>6. \A f, g \in fs : BySmallestKey(f, g) => ~BySmallestKey(g, f) /\ f # g
  BY <1>1 DEF BySmallestKey, Before
<1>7. ASSUME NEW f \in fs, NEW g \in fs, NEW h \in fs, BySmallestKey(f, g), BySmallestKey(g, h)
      PROVE  BySmallestKey(f, h)
  BY <1>1, <1>7 DEF BySmallestKey, Before
<1>8. \A f, g \in fs : BySmallestKey(f, g) => f.smallest.key <= g.smallest.key
  BY <1>1 DEF BySmallestKey, Before
<1> QED
  BY <1>5, <1>6, <1>7, <1>8

\* So there is a first file, and a last one.
LEMMA FirstFileExists ==
    ASSUME NEW fs, FileSet(fs), fs # {}
    PROVE  /\ \E f \in fs : \A g \in fs : g = f \/ BySmallestKey(f, g)
           /\ \E f \in fs : \A g \in fs : f = g \/ BySmallestKey(g, f)
<1>1. \E f \in fs : \A g \in fs : g = f \/ BySmallestKey(f, g)
  <2> DEFINE R == {p \in fs \X fs : BySmallestKey(p[1], p[2])}
  <2>1. \A a, b \in fs : <<a, b>> \in R <=> BySmallestKey(a, b)
    OBVIOUS
  <2> HIDE DEF R
  <2>2. \A a, b, c \in fs : <<a, b>> \in R /\ <<b, c>> \in R => <<a, c>> \in R
    BY <2>1, FilesAreOrdered
  <2>3. \A a \in fs : <<a, a>> \notin R
    BY <2>1, FilesAreOrdered
  <2>4. PICK m \in fs : \A x \in fs : <<x, m>> \notin R
    BY <2>2, <2>3, SomethingIsLeast DEF FileSet
  <2> QED
    BY <2>1, <2>4, FilesAreOrdered
<1>2. \E f \in fs : \A g \in fs : f = g \/ BySmallestKey(g, f)
  <2> DEFINE R == {p \in fs \X fs : BySmallestKey(p[2], p[1])}
  <2>1. \A a, b \in fs : <<a, b>> \in R <=> BySmallestKey(b, a)
    OBVIOUS
  <2> HIDE DEF R
  <2>2. \A a, b, c \in fs : <<a, b>> \in R /\ <<b, c>> \in R => <<a, c>> \in R
    BY <2>1, FilesAreOrdered
  <2>3. \A a \in fs : <<a, a>> \notin R
    BY <2>1, FilesAreOrdered
  <2>4. PICK m \in fs : \A x \in fs : <<x, m>> \notin R
    BY <2>2, <2>3, SomethingIsLeast DEF FileSet
  <2> QED
    BY <2>1, <2>4, FilesAreOrdered
<1> QED
  BY <1>1, <1>2

\* What the files of a set hold together is finite.
LEMMA SizesAreNumbers ==
    ASSUME NEW fs, FileSet(fs)
    PROVE  /\ TotalFileSize(fs) \in Nat /\ (TotalFileSize(fs) # 0 => fs # {})
           /\ Run(Contents(fs))
<1> DEFINE es == {f.entries : f \in fs}
<1>1. IsFiniteSet(es)
  <2> DEFINE F == [f \in fs |-> f.entries]
  <2>1. F \in Surjection(fs, es)
    BY DEF Surjection
  <2> QED
    BY <2>1, FS_Surjection DEF FileSet
<1>2. \A x \in es : IsFiniteSet(x)
  BY DEF FileSet, IsFile, Run
<1>3. IsFiniteSet(UNION es)
  BY <1>1, <1>2, FS_UNION
<1>4. fs = {} => UNION es = {}
  OBVIOUS
<1>5. Cardinality(UNION es) \in Nat /\ (UNION es = {} => Cardinality(UNION es) = 0)
  BY <1>3, FS_CardinalityType, FS_EmptySet
<1>6. \A e \in Contents(fs) : e.key \in Nat /\ e.seq \in Nat
  BY FileKeys DEF FileSet, Contents
<1>7. Run(Contents(fs))
  BY <1>3, <1>6 DEF Run, Contents, FileSet
<1> QED
  BY <1>4, <1>5, <1>7 DEF TotalFileSize

-----------------------------------------------------------------------------
\* SomeFileOverlapsRange overlooks no file of the level.
LEMMA NoOverlapInLevel ==
    ASSUME NEW v, NEW level \in Nat, FileSet(v[level]), NEW lo \in Nat, NEW hi \in Nat,
           ~OverlapInLevel(v, level, lo, hi), NEW f \in v[level]
    PROVE  f.largest.key < lo \/ hi < f.smallest.key
<1> DEFINE fs == v[level]
           reach == {g \in fs : g.largest.key >= lo /\ (g = f \/ BySmallestKey(g, f))}
<1>1. \A g \in fs : IsFile(g)
  BY DEF FileSet
<1> SUFFICES ASSUME ~(f.largest.key < lo), ~(hi < f.smallest.key) PROVE FALSE
  OBVIOUS
<1>2. f.largest.key >= lo /\ hi >= f.smallest.key
  BY <1>1, FileKeys
<1>3. CASE level = 0
  BY <1>2, <1>3, <1>1, FileKeys DEF OverlapInLevel
<1>4. CASE level # 0
  <2>1. FileSet(reach) /\ f \in reach /\ reach \subseteq fs
    BY <1>2, FileSubset
  <2>2. PICK m \in reach : \A g \in reach : g = m \/ BySmallestKey(m, g)
    BY <2>1, FirstFileExists
  <2>3. \A g \in fs : BySmallestKey(g, m) => ~(g.largest.key >= lo)
    <3> SUFFICES ASSUME NEW g \in fs, BySmallestKey(g, m), g.largest.key >= lo PROVE FALSE
      OBVIOUS
    <3>1. g = f \/ BySmallestKey(g, f)
      BY <2>1, <2>2, FilesAreOrdered
    <3>2. g \in reach
      BY <3>1
    <3> QED
      BY <2>1, <2>2, <3>2, FilesAreOrdered
  <2>4. m.smallest.key <= f.smallest.key
    BY <2>1, <2>2, <1>1, FilesAreOrdered, FileKeys
  <2>5. hi >= m.smallest.key
    BY <2>4, <1>2, <1>1, <2>1, FileKeys
  <2> QED
    BY <1>4, <2>1, <2>2, <2>3, <2>5 DEF OverlapInLevel
<1> QED
  BY <1>3, <1>4

\* The numbers up to another one, and those of them with some property.
LEMMA FiniteInterval ==
    ASSUME NEW n \in Nat, NEW T \in SUBSET (0 .. n)
    PROVE  IsFiniteSet(T) /\ T \in SUBSET Nat
<1>1. IsFiniteSet(0 .. n)
  BY FS_Interval
<1>2. IsFiniteSet(T)
  BY <1>1, FS_Subset
<1> QED
  BY <1>2

\* What a recursive function on 0 .. n needs to be one: step after step from a base,
\* each step into what the next one starts from.
Steps(n, S, Q, base, step) ==
    /\ \A i \in 0 .. n : Q[i] \subseteq S
    /\ base \in Q[0]
    /\ \A i \in 1 .. n : \A s \in Q[i - 1] : step[s] \in Q[i]
\* A function given step by step exists, and what each step keeps holds of it.
LEMMA Iterates ==
    ASSUME NEW n \in Nat, NEW S, NEW Q, NEW base, NEW step, Steps(n, S, Q, base, step)
    PROVE  \E f \in [0 .. n -> S] : /\ f[0] = base /\ \A i \in 1 .. n : f[i] = step[f[i - 1]]
                                    /\ \A i \in 0 .. n : f[i] \in Q[i]
<1> DEFINE P(k) == \E f \in [0 .. k -> S] : /\ f[0] = base /\ \A i \in 1 .. k : f[i] = step[f[i - 1]]
                                            /\ \A i \in 0 .. k : f[i] \in Q[i]
           T == {k \in 0 .. n : ~P(k)}
<1>0. /\ \A i \in 0 .. n : Q[i] \subseteq S
      /\ base \in Q[0]
      /\ \A i \in 1 .. n : \A s \in Q[i - 1] : step[s] \in Q[i]
  BY DEF Steps
<1> SUFFICES ASSUME T # {} PROVE FALSE
  OBVIOUS
<1>1. IsFiniteSet(T) /\ T \in SUBSET Nat
  <2>1. T \in SUBSET (0 .. n)
    OBVIOUS
  <2> HIDE DEF T
  <2> QED
    BY <2>1, FiniteInterval
<1> DEFINE m == Min(T)
<1>2. m \in T /\ \A k \in T : m <= k
  <2> HIDE DEF T
  <2> QED
    BY <1>1, LeastAndGreatest
<1>3. P(0)
  <2> DEFINE f == [i \in 0 .. 0 |-> base]
  <2>1. f[0] = base /\ 0 .. 0 = {0} /\ 1 .. 0 = {} /\ base \in S
    BY <1>0
  <2>2. f \in [0 .. 0 -> S]
    BY <2>1
  <2> HIDE DEF f
  <2> QED
    BY <1>0, <2>1, <2>2
<1>4. m \in 1 .. n /\ ~P(m) /\ m - 1 \in 0 .. n /\ m - 1 \notin T
  <2> HIDE DEF P
  <2>1. m \in 0 .. n /\ ~P(m) /\ m # 0
    BY <1>2, <1>3
  <2> HIDE DEF m
  <2>2. m - 1 \in 0 .. n /\ m \in 1 .. n /\ ~(m <= m - 1)
    BY <2>1
  <2> HIDE DEF T
  <2> QED
    BY <1>2, <2>1, <2>2 DEF m
<1>5. P(m - 1)
  <2> HIDE DEF P, m
  <2> QED
    BY <1>4
<1> HIDE DEF m
<1>6. PICK g \in [0 .. (m - 1) -> S] : /\ g[0] = base /\ \A i \in 1 .. (m - 1) : g[i] = step[g[i - 1]]
                                       /\ \A i \in 0 .. (m - 1) : g[i] \in Q[i]
  BY <1>5
<1> DEFINE f == [i \in 0 .. m |-> IF i = m THEN step[g[m - 1]] ELSE g[i]]
<1>7. /\ m \in Nat /\ m # 0 /\ m - 1 \in 0 .. (m - 1) /\ m \in 0 .. m /\ 0 \in 0 .. m
      /\ \A i \in 0 .. m : i # m => i \in 0 .. (m - 1) /\ i \in 0 .. n
  BY <1>4
<1>8. \A i \in 1 .. m : /\ i \in 0 .. m /\ i - 1 \in 0 .. m /\ i - 1 # m
                        /\ i # m => i \in 1 .. (m - 1)
  BY <1>4
<1>9. f[0] = base
  BY <1>6, <1>7
<1>10. ASSUME NEW i \in 1 .. m PROVE f[i] = step[f[i - 1]]
  <2>1. f[i - 1] = g[i - 1] /\ f[i] = IF i = m THEN step[g[m - 1]] ELSE g[i]
    BY <1>8
  <2>2. CASE i = m
    BY <2>1, <2>2
  <2>3. CASE i # m
    <3>1. g[i] = step[g[i - 1]]
      BY <1>6, <1>8, <2>3
    <3> QED
      BY <2>1, <2>3, <3>1
  <2> QED
    BY <2>2, <2>3
<1>11. step[g[m - 1]] \in Q[m]
  BY <1>0, <1>4, <1>6, <1>7
<1>12. \A i \in 0 .. m : f[i] \in Q[i]
  BY <1>6, <1>7, <1>11
<1>13. \A i \in 0 .. m : f[i] \in S
  <2>1. \A i \in 0 .. m : i \in 0 .. n
    BY <1>4
  <2> HIDE DEF f
  <2> QED
    BY <1>0, <1>12, <2>1
<1>14. f \in [0 .. m -> S]
  BY <1>13
<1>15. P(m)
  <2> HIDE DEF f
  <2> QED
    BY <1>9, <1>10, <1>12, <1>14
<1> QED
  BY <1>4, <1>15

\* Functions that agree on 0, and on each number when they agree on the one before.
Alike(n, f, g) == f[0] = g[0] /\ \A i \in 1 .. n : f[i - 1] = g[i - 1] => f[i] = g[i]
\* Two functions with the same start and the same steps are equal.
LEMMA SameResults ==
    ASSUME NEW n \in Nat, NEW f, NEW g, Alike(n, f, g)
    PROVE  \A i \in 0 .. n : f[i] = g[i]
<1> DEFINE T == {k \in 0 .. n : f[k] # g[k]}
<1>1. IsFiniteSet(T) /\ T \in SUBSET Nat
  <2>1. T \in SUBSET (0 .. n)
    OBVIOUS
  <2> HIDE DEF T
  <2> QED
    BY <2>1, FiniteInterval
<1>2. T = {}
  <2> SUFFICES ASSUME T # {} PROVE FALSE
    OBVIOUS
  <2> DEFINE m == Min(T)
  <2>1. m \in T /\ \A k \in T : m <= k
    <3> HIDE DEF T
    <3> QED
      BY <1>1, LeastAndGreatest
  <2> HIDE DEF m
  <2>2. m \in 1 .. n /\ m - 1 \in 0 .. n /\ f[m] # g[m]
    BY <2>1 DEF Alike
  <2>3. m - 1 \notin T
    <3>1. ~(m <= m - 1)
      BY <2>2
    <3> HIDE DEF T
    <3> QED
      BY <2>1, <3>1
  <2>4. f[m - 1] = g[m - 1]
    BY <2>2, <2>3
  <2> QED
    BY <2>2, <2>4 DEF Alike
<1> QED
  BY <1>2

\* A file around a user key, one that meets a range of them, and files that reach from
\* a range to all their keys without a gap.
Covers(f, p) == f.smallest.key <= p /\ p <= f.largest.key
Meets(f, lo, hi) == f.largest.key >= lo /\ f.smallest.key <= hi
Linked(fs, lo, hi) ==
    \A f \in fs, p \in Nat :
        (f.smallest.key <= p /\ p < lo) \/ (hi < p /\ p <= f.largest.key) => \E h \in fs : Covers(h, p)

\* The range of a set of files with the range it started from.
LEMMA RangeWidens ==
    ASSUME NEW fs, FileSet(fs), NEW a \in Nat, NEW b \in Nat
    PROVE  /\ Min({a} \cup {f.smallest.key : f \in fs}) \in Nat
           /\ Min({a} \cup {f.smallest.key : f \in fs}) <= a
           /\ Min({a} \cup {f.smallest.key : f \in fs}) \in {a} \cup {f.smallest.key : f \in fs}
           /\ \A f \in fs : Min({a} \cup {g.smallest.key : g \in fs}) <= f.smallest.key
           /\ Max({b} \cup {f.largest.key : f \in fs}) \in Nat
           /\ Max({b} \cup {f.largest.key : f \in fs}) >= b
           /\ Max({b} \cup {f.largest.key : f \in fs}) \in {b} \cup {f.largest.key : f \in fs}
           /\ \A f \in fs : Max({b} \cup {g.largest.key : g \in fs}) >= f.largest.key
<1> DEFINE A == {f.smallest.key : f \in fs}
           B == {f.largest.key : f \in fs}
<1>1. \A f \in fs : f.smallest.key \in Nat /\ f.largest.key \in Nat
  BY FileKeys DEF FileSet
<1>2. IsFiniteSet(fs)
  BY DEF FileSet
<1>3. IsFiniteSet(A)
  <2> DEFINE F == [f \in fs |-> f.smallest.key]
  <2>1. F \in Surjection(fs, A)
    BY DEF Surjection
  <2> HIDE DEF F, A
  <2> QED
    BY <1>2, <2>1, FS_Surjection
<1>4. IsFiniteSet(B)
  <2> DEFINE F == [f \in fs |-> f.largest.key]
  <2>1. F \in Surjection(fs, B)
    BY DEF Surjection
  <2> HIDE DEF F, B
  <2> QED
    BY <1>2, <2>1, FS_Surjection
<1> DEFINE X == {a} \cup A
           Y == {b} \cup B
<1>5. X \in SUBSET Nat /\ X # {} /\ Y \in SUBSET Nat /\ Y # {}
  BY <1>1
<1>6. IsFiniteSet(X) /\ IsFiniteSet(Y)
  BY <1>3, <1>4, FS_Singleton, FS_Union
<1>7. /\ Min(X) \in X /\ \A n \in X : Min(X) <= n
      /\ Max(Y) \in Y /\ \A n \in Y : n <= Max(Y)
  <2> HIDE DEF X, Y
  <2> QED
    BY <1>5, <1>6, LeastAndGreatest
<1>8. a \in X /\ b \in Y /\ \A f \in fs : f.smallest.key \in X /\ f.largest.key \in Y
  OBVIOUS
<1> HIDE DEF A, B, X, Y
<1>9. Min(X) \in Nat /\ Max(Y) \in Nat /\ Min(X) <= a /\ Max(Y) >= b
  BY <1>5, <1>7, <1>8
<1>10. \A f \in fs : Min(X) <= f.smallest.key /\ Max(Y) >= f.largest.key
  BY <1>1, <1>5, <1>7, <1>8
<1> QED
  BY <1>7, <1>9, <1>10 DEF X, Y, A, B

\* Two files of which one ends at a smaller user key than the other begins; files of
\* level 0 that no other file there meets.
Clear(f, g) == f.largest.key < g.smallest.key \/ g.largest.key < f.smallest.key

Alone(fs, v, level) == level = 0 => \A f \in fs, g \in v[level] \ fs : Clear(f, g)

\* Version::GetOverlappingInputs: in level 0 the search starts again with a wider range,
\* which files link to the first one; it goes on until no other file meets a found one.
LEMMA Overlapping ==
    ASSUME NEW v, NEW level \in Nat, FileSet(v[level]), NEW lo \in Nat, NEW hi \in Nat
    PROVE  /\ GetOverlappingInputs(v, level, lo, hi) \subseteq v[level]
           /\ \A f \in v[level] : Meets(f, lo, hi) => f \in GetOverlappingInputs(v, level, lo, hi)
           /\ level # 0 => GetOverlappingInputs(v, level, lo, hi) = {f \in v[level] : Meets(f, lo, hi)}
           /\ lo <= hi => Linked(GetOverlappingInputs(v, level, lo, hi), lo, hi)
           /\ Alone(GetOverlappingInputs(v, level, lo, hi), v, level)
<1> DEFINE fs == v[level]
           n == Cardinality(fs)
           Hit(r) == {f \in fs : f.largest.key >= r[1] /\ f.smallest.key <= r[2]}
           Widen(r) == <<Min({r[1]} \cup {f.smallest.key : f \in Hit(r)}),
                         Max({r[2]} \cup {f.largest.key : f \in Hit(r)})>>
           range[i \in 0 .. n] == IF i = 0 THEN <<lo, hi>> ELSE Widen(range[i - 1])
<1>1. GetOverlappingInputs(v, level, lo, hi) = IF level = 0 THEN Hit(range[n]) ELSE Hit(<<lo, hi>>)
  BY DEF GetOverlappingInputs
<1>2. \A f \in fs : f.smallest.key \in Nat /\ f.largest.key \in Nat /\ f.smallest.key <= f.largest.key
  BY FileKeys DEF FileSet
<1>3. n \in Nat
  BY FS_CardinalityType DEF FileSet
\* Every key from the first range to the present one is covered.
<1> DEFINE Good(r) == /\ r \in Nat \X Nat /\ r[1] <= lo /\ r[2] >= hi
                      /\ lo <= hi => \A p \in Nat : (r[1] <= p /\ p < lo) \/ (hi < p /\ p <= r[2]) =>
                                           \E h \in Hit(r) : Covers(h, p)
<1>4. Good(<<lo, hi>>)
  <2>1. <<lo, hi>> \in Nat \X Nat /\ <<lo, hi>>[1] = lo /\ <<lo, hi>>[2] = hi
    OBVIOUS
  <2> QED
    BY <2>1
<1>5. ASSUME NEW r, Good(r) PROVE Good(Widen(r))
  <2> DEFINE w == Widen(r)
  <2>1. FileSet(Hit(r))
    BY FileSubset
  <2>2. r[1] \in Nat /\ r[2] \in Nat /\ r[1] <= lo /\ r[2] >= hi
    BY <1>5
  <2>3. /\ w = <<w[1], w[2]>> /\ w[1] \in Nat /\ w[2] \in Nat /\ w[1] <= r[1] /\ w[2] >= r[2]
        /\ w[1] \in {r[1]} \cup {f.smallest.key : f \in Hit(r)}
        /\ w[2] \in {r[2]} \cup {f.largest.key : f \in Hit(r)}
    <3> DEFINE H == Hit(r)
    <3> HIDE DEF H, Hit
    <3>1. FileSet(H)
      BY <2>1 DEF H
    <3> QED
      BY <2>2, <3>1, RangeWidens DEF H
  <2> HIDE DEF w
  <2>4. Hit(r) \subseteq Hit(w)
    BY <1>2, <2>2, <2>3
  <2>5. ASSUME lo <= hi, NEW p \in Nat, (w[1] <= p /\ p < lo) \/ (hi < p /\ p <= w[2])
        PROVE  \E h \in Hit(w) : Covers(h, p)
    <3>1. CASE (r[1] <= p /\ p < lo) \/ (hi < p /\ p <= r[2])
      BY <1>5, <2>4, <2>5, <3>1
    <3>2. CASE p < r[1]
      <4>0. w[1] # r[1] /\ w[1] <= p
        BY <2>2, <2>3, <2>5, <3>2
      <4>1. PICK f \in Hit(r) : f.smallest.key = w[1]
        BY <2>3, <4>0
      <4>2. f.smallest.key <= p /\ p <= f.largest.key
        BY <1>2, <2>2, <3>2, <4>0, <4>1
      <4> QED
        BY <2>4, <4>1, <4>2 DEF Covers
    <3>3. CASE r[2] < p
      <4>0. w[2] # r[2] /\ p <= w[2]
        BY <2>2, <2>3, <2>5, <3>3
      <4>1. PICK f \in Hit(r) : f.largest.key = w[2]
        BY <2>3, <4>0
      <4>2. f.smallest.key <= p /\ p <= f.largest.key
        BY <1>2, <2>2, <3>3, <4>0, <4>1
      <4> QED
        BY <2>4, <4>1, <4>2 DEF Covers
    <3> QED
      BY <2>2, <2>3, <2>5, <3>1, <3>2, <3>3
  <2>6. w \in Nat \X Nat /\ w[1] <= lo /\ w[2] >= hi
    BY <2>2, <2>3
  <2>7. Good(w)
    BY <2>5, <2>6
  <2> QED
    BY <2>7 DEF w
\* The range has come to stand, or one more file was found each time.
<1> DEFINE Fixed(r) == \A f \in Hit(r) : r[1] <= f.smallest.key /\ f.largest.key <= r[2]
           Counted(i, r) == Good(r) /\ (Fixed(r) \/ Cardinality(Hit(r)) >= i)
<1>h. \A r : IsFiniteSet(Hit(r)) /\ Cardinality(Hit(r)) \in Nat
  <2> TAKE r
  <2>1. Hit(r) \subseteq fs /\ IsFiniteSet(fs)
    BY DEF FileSet
  <2> HIDE DEF Hit
  <2> QED
    BY <2>1, FS_Subset, FS_CardinalityType
<1>c. ASSUME NEW i \in Nat, NEW r, Counted(i, r) PROVE Counted(i + 1, Widen(r))
  <2> DEFINE H == Hit(r)
             w == Widen(r)
  <2>1. FileSet(Hit(r)) /\ r[1] \in Nat /\ r[2] \in Nat
    BY <1>c, FileSubset
  <2>2. /\ w[1] \in Nat /\ w[2] \in Nat /\ w[1] <= r[1] /\ w[2] >= r[2] /\ w = <<w[1], w[2]>>
        /\ w[1] \in {r[1]} \cup {f.smallest.key : f \in H}
        /\ w[2] \in {r[2]} \cup {f.largest.key : f \in H}
        /\ \A f \in H : w[1] <= f.smallest.key /\ f.largest.key <= w[2]
    <3> HIDE DEF H, Hit
    <3>1. FileSet(H)
      BY <2>1 DEF H
    <3> QED
      BY <2>1, <3>1, RangeWidens DEF H
  <2>3. Good(w)
    <3> HIDE DEF Good, Widen, Hit
    <3> QED
      BY <1>5, <1>c
  <2>r. r = <<r[1], r[2]>>
    BY <1>c
  <2> HIDE DEF w, Widen
  <2>4. Hit(r) \subseteq Hit(w)
    BY <1>2, <2>1, <2>2
  <2>5. CASE Hit(w) = Hit(r)
    <3>1. Fixed(w)
      BY <2>2, <2>5
    <3> HIDE DEF Fixed, Good, Hit
    <3> QED
      BY <2>3, <3>1 DEF w
  <2>6. CASE Hit(w) # Hit(r)
    <3>1. ~Fixed(r)
      <4> SUFFICES ASSUME Fixed(r) PROVE FALSE
        OBVIOUS
      <4>1. w[1] >= r[1] /\ w[2] <= r[2]
        BY <1>2, <2>1, <2>2
      <4>2. w[1] = r[1] /\ w[2] = r[2]
        BY <2>1, <2>2, <4>1
      <4>3. w = r
        BY <2>2, <2>r, <4>2
      <4> QED
        BY <2>6, <4>3
    <3>2. Cardinality(Hit(r)) >= i
      <4> HIDE DEF Fixed, Good, Hit
      <4> QED
        BY <1>c, <3>1
    <3>3. Cardinality(Hit(w)) > Cardinality(Hit(r))
      <4> DEFINE A == Hit(r)
                 B == Hit(w)
      <4>1. A \subseteq B /\ A # B /\ IsFiniteSet(B)
        BY <1>h, <2>4, <2>6
      <4> HIDE DEF A, B
      <4>2. Cardinality(A) < Cardinality(B)
        <5>1. PICK x \in B : x \notin A
          BY <4>1
        <5>2. Cardinality(B \ {x}) = Cardinality(B) - 1 /\ IsFiniteSet(B \ {x}) /\ Cardinality(B) \in Nat
          BY <4>1, FS_RemoveElement, FS_CardinalityType
        <5>3. A \subseteq B \ {x}
          BY <4>1, <5>1
        <5>4. Cardinality(A) <= Cardinality(B \ {x}) /\ Cardinality(A) \in Nat
          BY <5>2, <5>3, FS_Subset, FS_CardinalityType
        <5> QED
          BY <5>2, <5>4
      <4>3. Cardinality(B) > Cardinality(A)
        BY <4>1, <4>2, FS_Subset, FS_CardinalityType
      <4> QED
        BY <4>3 DEF A, B
    <3>4. Cardinality(Hit(w)) >= i + 1
      <4> HIDE DEF Hit
      <4> QED
        BY <1>h, <3>2, <3>3
    <3> HIDE DEF Fixed, Good, Hit
    <3> QED
      BY <2>3, <3>4 DEF w
  <2> QED
    BY <2>5, <2>6
<1>6. Counted(n, range[n])
  <2>n. PICK N \in Nat : N = n
    BY <1>3
  <2>N. N \in Nat
    OBVIOUS
  <2> DEFINE S == Nat \X Nat
             Found(i) == {r \in S : Counted(i, r)}
             Q == [i \in 0 .. N |-> Found(i)]
             step == [r \in S |-> Widen(r)]
  <2>1. <<lo, hi>> \in Found(0) /\ \A i \in Nat : \A r \in Found(i) : Widen(r) \in Found(i + 1)
    <3>1. \A r : Good(r) => r \in S
      BY DEF Good
    <3> HIDE DEF Widen, Good, Hit, Fixed
    <3>2. Counted(0, <<lo, hi>>)
      BY <1>4, <1>h
    <3>3. \A i, r : Counted(i, r) => Good(r)
      OBVIOUS
    <3> HIDE DEF Counted
    <3> QED
      BY <1>c, <3>1, <3>2, <3>3
  <2>f. \A i : Found(i) \subseteq S
    OBVIOUS
  <2> HIDE DEF Found, Widen, Good, n
  <2>2. /\ Q \in [0 .. N -> SUBSET S] /\ <<lo, hi>> \in Q[0]
        /\ \A i \in 1 .. N : \A s \in Q[i - 1] : step[s] \in Q[i]
    <3>1. \A i \in 0 .. N : Q[i] = Found(i)
      OBVIOUS
    <3>2. \A i \in 1 .. N : i \in 0 .. N /\ i - 1 \in 0 .. N /\ i - 1 \in Nat /\ (i - 1) + 1 = i
      BY <2>n
    <3>3. \A s \in S : step[s] = Widen(s)
      OBVIOUS
    <3>4. 0 \in 0 .. N /\ Q \in [0 .. N -> SUBSET S]
      BY <2>f, <2>N
    <3> HIDE DEF Q, step, S
    <3>5. <<lo, hi>> \in Q[0]
      BY <2>1, <3>1, <3>4
    <3>6. ASSUME NEW i \in 1 .. N, NEW s \in Q[i - 1] PROVE step[s] \in Q[i]
      <4>1. PICK m \in Nat : m = i - 1
        BY <3>2
      <4>2. s \in Found(m) /\ m + 1 = i /\ s \in S
        BY <2>f, <3>1, <3>2, <4>1
      <4>3. Widen(s) \in Found(m + 1)
        BY <2>1, <4>2
      <4> QED
        BY <3>1, <3>2, <3>3, <4>2, <4>3
    <3> QED
      BY <3>4, <3>5, <3>6
  <2>3. PICK f \in [0 .. N -> S] : /\ f[0] = <<lo, hi>> /\ \A i \in 1 .. N : f[i] = step[f[i - 1]]
                                   /\ \A i \in 0 .. N : f[i] \in Q[i]
    <3> HIDE DEF Q, step, S
    <3> DEFINE base == <<lo, hi>>
    <3> HIDE DEF base
    <3>1. base = <<lo, hi>>
      BY DEF base
    <3>3. base \in Q[0]
      BY <2>2, <3>1
    <3>4. Steps(N, S, Q, base, step)
      BY <2>2, <3>3 DEF Steps
    <3>2. \E f \in [0 .. N -> S] : /\ f[0] = base /\ \A i \in 1 .. N : f[i] = step[f[i - 1]]
                                   /\ \A i \in 0 .. N : f[i] \in Q[i]
      BY <2>N, <3>4, Iterates
    <3> QED
      BY <3>1, <3>2
  <2>4. \A i \in 0 .. N : f[i] \in S
    BY <2>3
  <2>5. \A i \in 1 .. N : f[i] = Widen(f[i - 1])
    <3>1. \A i \in 1 .. N : i - 1 \in 0 .. N
      BY <2>n
    <3> QED
      BY <2>3, <2>4, <3>1
  <2>6. f = [i \in 0 .. N |-> IF i = 0 THEN <<lo, hi>> ELSE Widen(f[i - 1])]
    <3>1. \A i \in 0 .. N : i # 0 => i \in 1 .. N
      BY <2>n
    <3>2. \A i \in 0 .. N : f[i] = IF i = 0 THEN <<lo, hi>> ELSE Widen(f[i - 1])
      BY <2>3, <2>5, <3>1
    <3> HIDE DEF step
    <3> QED
      BY <2>3, <3>2
  <2>7. range = [i \in 0 .. N |-> IF i = 0 THEN <<lo, hi>> ELSE Widen(range[i - 1])]
    <3>1. f = [i \in 0 .. n |-> IF i = 0 THEN <<lo, hi>> ELSE Widen(f[i - 1])]
      BY <2>n, <2>6
    <3>2. range = [i \in 0 .. n |-> IF i = 0 THEN <<lo, hi>> ELSE Widen(range[i - 1])]
      BY <3>1, Zenon
    <3> HIDE DEF range
    <3> QED
      BY <2>n, <3>2
  <2> HIDE DEF range
  <2>8. \A i \in 0 .. N : f[i] = range[i]
    <3>1. 0 \in 0 .. N /\ \A i \in 1 .. N : i \in 0 .. N /\ i # 0
      BY <2>n
    <3>2. range[0] = <<lo, hi>> /\ \A i \in 1 .. N : range[i] = Widen(range[i - 1])
      BY <2>7, <3>1
    <3>3. f[0] = range[0] /\ \A i \in 1 .. N : f[i - 1] = range[i - 1] => f[i] = range[i]
      BY <2>3, <2>5, <3>2
    <3> HIDE DEF Widen
    <3>4. PICK g : g = range
      OBVIOUS
    <3>5. Alike(N, f, g)
      BY <3>3, <3>4 DEF Alike
    <3>7. \A i \in 0 .. N : f[i] = g[i]
      BY <2>N, <3>5, SameResults
    <3> QED
      BY <3>4, <3>7
  <2>9. n \in 0 .. N /\ n = N /\ Q[N] = Found(N)
    BY <2>n, <2>N
  <2>10. range[N] \in Found(N)
    <3> HIDE DEF Q
    <3> QED
      BY <2>3, <2>8, <2>9
  <2> QED
    BY <2>9, <2>10 DEF Found
<1> DEFINE G == GetOverlappingInputs(v, level, lo, hi)
<1>7. PICK r : Good(r) /\ G = Hit(r) /\ (level # 0 => r = <<lo, hi>>) /\ (level = 0 => Counted(n, r))
  <2>1. Good(range[n])
    <3> HIDE DEF Good, Hit, range
    <3> QED
      BY <1>6
  <2> HIDE DEF Good, Hit, range, Counted
  <2> QED
    BY <1>1, <1>4, <1>6, <2>1
<1>14. level = 0 => \A f \in G, g \in fs \ G : Clear(f, g)
  <2> SUFFICES ASSUME level = 0, NEW f \in Hit(r), NEW g \in fs, g \notin Hit(r)
               PROVE  Clear(f, g)
    BY <1>7
  <2>1. Fixed(r) \/ Cardinality(Hit(r)) >= n
    BY <1>7
  <2>2. CASE Fixed(r)
    <3>1. r[1] \in Nat /\ r[2] \in Nat /\ r[1] <= f.smallest.key /\ f.largest.key <= r[2] /\ f \in fs
      BY <1>7, <2>2
    <3>2. ~(g.largest.key >= r[1] /\ g.smallest.key <= r[2])
      OBVIOUS
    <3> QED
      BY <1>2, <3>1, <3>2 DEF Clear
  <2>3. CASE Cardinality(Hit(r)) >= n
    <3>1. IsFiniteSet(fs) /\ Hit(r) \subseteq fs \ {g}
      BY DEF FileSet
    <3> DEFINE H == Hit(r)
    <3> HIDE DEF H, Hit
    <3>2. Cardinality(fs \ {g}) = n - 1 /\ IsFiniteSet(fs \ {g})
      BY <3>1, FS_RemoveElement
    <3>3. Cardinality(H) <= Cardinality(fs \ {g}) /\ Cardinality(H) \in Nat
      BY <3>1, <3>2, FS_Subset, FS_CardinalityType DEF H
    <3> HIDE DEF n
    <3> QED
      BY <1>3, <2>3, <3>2, <3>3 DEF H
  <2> QED
    BY <2>1, <2>2, <2>3
<1> HIDE DEF G, range, Fixed, Counted
<1>8. r[1] \in Nat /\ r[2] \in Nat /\ r[1] <= lo /\ r[2] >= hi
  BY <1>7
<1>9. \A f \in fs : Meets(f, lo, hi) => f \in G
  BY <1>2, <1>7, <1>8 DEF Meets
<1>10. level # 0 => G = {f \in fs : Meets(f, lo, hi)}
  BY <1>7 DEF Meets
<1>11. ASSUME lo <= hi, NEW f \in G, NEW p \in Nat, (f.smallest.key <= p /\ p < lo) \/ (hi < p /\ p <= f.largest.key)
       PROVE  \E h \in G : Covers(h, p)
  <2>1. CASE (r[1] <= p /\ p < lo) \/ (hi < p /\ p <= r[2])
    BY <1>7, <1>11, <2>1
  <2>2. CASE ~((r[1] <= p /\ p < lo) \/ (hi < p /\ p <= r[2]))
    <3>1. f \in fs /\ f.largest.key >= r[1] /\ f.smallest.key <= r[2]
      BY <1>7
    <3>2. f.smallest.key <= p /\ p <= f.largest.key
      BY <1>2, <1>8, <1>11, <2>2, <3>1
    <3> QED
      BY <1>11, <3>2 DEF Covers
  <2> QED
    BY <2>1, <2>2
<1>12. lo <= hi => Linked(G, lo, hi)
  BY <1>11 DEF Linked
<1>13. G \subseteq fs
  BY <1>7
<1> QED
  BY <1>9, <1>10, <1>12, <1>13, <1>14 DEF G, Alone

\* Some entries of a run.
LEMMA RunSubset == ASSUME NEW es, Run(es), NEW xs \in SUBSET es PROVE Run(xs)
<1>1. IsFiniteSet(xs)
  BY FS_Subset DEF Run
<1> QED
  BY <1>1 DEF Run

\* VersionSet::GetRange: both ends of the range are attained, and no file sticks out.
LEMMA EndsOfRange ==
    ASSUME NEW fs, FileSet(fs), fs # {}
    PROVE  /\ RangeOf(fs).smallest.key \in Nat /\ RangeOf(fs).largest.key \in Nat
           /\ RangeOf(fs).smallest.key <= RangeOf(fs).largest.key
           /\ \E f \in fs : f.smallest = RangeOf(fs).smallest
           /\ \E f \in fs : f.largest = RangeOf(fs).largest
           /\ \A f \in fs : /\ RangeOf(fs).smallest.key <= f.smallest.key
                            /\ f.largest.key <= RangeOf(fs).largest.key
<1> DEFINE A == {f.smallest : f \in fs}
           B == {f.largest : f \in fs}
           a == RangeOf(fs).smallest
           b == RangeOf(fs).largest
<1>1. a = First(A) /\ b = Final(B)
  BY DEF RangeOf
<1>2. /\ A \in SUBSET Contents(fs) /\ B \in SUBSET Contents(fs) /\ A # {} /\ B # {}
  BY DEF FileSet, IsFile, Contents
<1>3. Run(A) /\ Run(B)
  BY <1>2, SizesAreNumbers, RunSubset
<1>4. \A f \in fs : f.smallest \in A /\ f.largest \in B
  OBVIOUS
<1>5. a \in A /\ \A o \in A : o = a \/ Before(a, o)
  <2> HIDE DEF A, B, a, b
  <2> QED
    BY <1>1, <1>2, <1>3, EndsOfRun
<1>6. b \in B /\ \A o \in B : o = b \/ Before(o, b)
  <2> HIDE DEF A, B, a, b
  <2> QED
    BY <1>1, <1>2, <1>3, EndsOfRun
<1>7. (\E f \in fs : f.smallest = a) /\ (\E f \in fs : f.largest = b)
  BY <1>5, <1>6
<1> HIDE DEF a, b, A, B
<1>8. \A f \in fs : /\ f.smallest.key \in Nat /\ f.largest.key \in Nat
                    /\ f.smallest.key <= f.largest.key
  BY FileKeys DEF FileSet
<1>9. a.key \in Nat /\ b.key \in Nat
  BY <1>7, <1>8
<1>10. \A f \in fs : a.key <= f.smallest.key /\ f.largest.key <= b.key
  <2> TAKE f \in fs
  <2>1. f.smallest = a \/ Before(a, f.smallest)
    BY <1>4, <1>5
  <2>2. f.largest = b \/ Before(f.largest, b)
    BY <1>4, <1>6
  <2>3. a.key <= f.smallest.key
    BY <1>8, <1>9, <2>1 DEF Before
  <2>4. f.largest.key <= b.key
    BY <1>8, <1>9, <2>2 DEF Before
  <2> QED
    BY <2>3, <2>4
<1>11. a.key <= b.key
  BY <1>7, <1>8, <1>9, <1>10
<1> QED
  BY <1>7, <1>9, <1>10, <1>11 DEF a, b

-----------------------------------------------------------------------------
\* Files that leave no user key uncovered between a smallest and a largest one.
Filled(fs, lo, hi) == \A p \in Nat : lo <= p /\ p <= hi => \E h \in fs : Covers(h, p)
Solid(fs) == \A f, g \in fs : Filled(fs, f.smallest.key, g.largest.key)

\* Solid files fill their range.
LEMMA SolidFillsRange ==
    ASSUME NEW fs, FileSet(fs), fs # {}, Solid(fs)
    PROVE  Filled(fs, RangeOf(fs).smallest.key, RangeOf(fs).largest.key)
<1>1. PICK f \in fs : f.smallest = RangeOf(fs).smallest
  BY EndsOfRange
<1>2. PICK g \in fs : g.largest = RangeOf(fs).largest
  BY EndsOfRange
<1>3. Filled(fs, f.smallest.key, g.largest.key)
  BY DEF Solid
<1> QED
  BY <1>1, <1>2, <1>3

\* A filled range with files linked to it is solid.
LEMMA LinkedIsSolid ==
    ASSUME NEW fs, FileSet(fs), NEW lo \in Nat, NEW hi \in Nat, Filled(fs, lo, hi), Linked(fs, lo, hi)
    PROVE  Solid(fs)
<1> SUFFICES ASSUME NEW f \in fs, NEW g \in fs, NEW p \in Nat, f.smallest.key <= p, p <= g.largest.key
             PROVE  \E h \in fs : Covers(h, p)
  BY DEF Solid, Filled
<1>1. CASE p < lo
  BY <1>1 DEF Linked
<1>2. CASE hi < p
  BY <1>2 DEF Linked
<1>3. CASE lo <= p /\ p <= hi
  BY <1>3 DEF Filled
<1> QED
  BY <1>1, <1>2, <1>3

\* Files that meet a range are linked to it.
LEMMA MeetingIsLinked ==
    ASSUME NEW fs, FileSet(fs), NEW lo \in Nat, NEW hi \in Nat, \A f \in fs : Meets(f, lo, hi)
    PROVE  Linked(fs, lo, hi)
<1>1. \A f \in fs : f.smallest.key \in Nat /\ f.largest.key \in Nat
  BY FileKeys DEF FileSet
<1> SUFFICES ASSUME NEW f \in fs, NEW p \in Nat,
                    (f.smallest.key <= p /\ p < lo) \/ (hi < p /\ p <= f.largest.key)
             PROVE  Covers(f, p)
  BY DEF Linked
<1>2. f.largest.key >= lo /\ f.smallest.key <= hi
  BY DEF Meets
<1> QED
  BY <1>1, <1>2 DEF Covers

\* Files are linked to their own range.
LEMMA LinkedOfRange ==
    ASSUME NEW fs, FileSet(fs), fs # {}
    PROVE  Linked(fs, RangeOf(fs).smallest.key, RangeOf(fs).largest.key)
<1>1. \A f \in fs : f.smallest.key \in Nat /\ f.largest.key \in Nat
  BY FileKeys DEF FileSet
<1>2. \A f \in fs : /\ RangeOf(fs).smallest.key <= f.smallest.key
                    /\ f.largest.key <= RangeOf(fs).largest.key
  BY EndsOfRange
<1>3. RangeOf(fs).smallest.key \in Nat /\ RangeOf(fs).largest.key \in Nat
  BY EndsOfRange
<1> QED
  BY <1>1, <1>2, <1>3 DEF Linked

\* More files break no link, and no filling.
LEMMA LinksAdd ==
    ASSUME NEW fs, NEW gs, NEW lo, NEW hi, Linked(fs, lo, hi), Linked(gs, lo, hi)
    PROVE  Linked(fs \cup gs, lo, hi)
BY DEF Linked

\* More files leave no new gap.
LEMMA FilledByMore ==
    ASSUME NEW fs, NEW gs, NEW lo, NEW hi, Filled(fs, lo, hi), fs \subseteq gs
    PROVE  Filled(gs, lo, hi)
BY DEF Filled

\* The files under some others: all that meet their range, and above level 0 no more.
LEMMA FilesUnder ==
    ASSUME NEW v, NEW level \in Nat, FileSet(v[level]), NEW fs, FileSet(fs), fs # {}
    PROVE  LET lo == RangeOf(fs).smallest.key
               hi == RangeOf(fs).largest.key
           IN  /\ Under(v, level, fs) \subseteq v[level]
               /\ FileSet(Under(v, level, fs))
               /\ \A f \in v[level] : Meets(f, lo, hi) => f \in Under(v, level, fs)
               /\ level # 0 => \A f \in Under(v, level, fs) : Meets(f, lo, hi)
               /\ Linked(Under(v, level, fs), lo, hi)
               /\ Alone(Under(v, level, fs), v, level)
               /\ \A f \in v[level] : f \in fs => f \in Under(v, level, fs)
<1> DEFINE lo == RangeOf(fs).smallest.key
           hi == RangeOf(fs).largest.key
           G == GetOverlappingInputs(v, level, lo, hi)
<1>1. lo \in Nat /\ hi \in Nat /\ lo <= hi /\ \A f \in fs : lo <= f.smallest.key /\ f.largest.key <= hi
  BY EndsOfRange
<1>2. Under(v, level, fs) = G
  BY DEF Under
<1> HIDE DEF lo, hi
<1>3. /\ G \subseteq v[level]
      /\ \A f \in v[level] : Meets(f, lo, hi) => f \in G
      /\ level # 0 => G = {f \in v[level] : Meets(f, lo, hi)}
      /\ Linked(G, lo, hi) /\ Alone(G, v, level)
  BY <1>1, Overlapping
<1>4. FileSet(G)
  BY <1>3, FileSubset
<1>5. ASSUME NEW f \in v[level], f \in fs PROVE f \in G
  <2>1. f.smallest.key \in Nat /\ f.largest.key \in Nat /\ f.smallest.key <= f.largest.key
    BY FileKeys DEF FileSet
  <2>2. lo <= f.smallest.key /\ f.largest.key <= hi
    BY <1>1, <1>5
  <2>3. Meets(f, lo, hi)
    BY <1>1, <2>1, <2>2 DEF Meets
  <2> QED
    BY <1>3, <2>3
<1> QED
  BY <1>2, <1>3, <1>4, <1>5 DEF lo, hi

\* Every file of a version.
FilesOf(v) == UNION {v[l] : l \in Levels}

\* What a compaction takes: files of one level, in level 0 all that meet, and all files
\* of the next level in their range.
Chosen(c, v) ==
    /\ c.level \in Nat /\ c.level + 1 < NumLevels
    /\ c.in0 \subseteq v[c.level] /\ c.in0 # {} /\ Alone(c.in0, v, c.level)
    /\ c.in1 \subseteq v[c.level + 1]
    /\ \A f \in v[c.level + 1] :
          f \in c.in1 <=> Meets(f, RangeOf(c.in0).smallest.key, RangeOf(c.in0).largest.key)
    /\ FileSet(c.grandparents)
    /\ \E f \in c.in0 : c.pointer = f.largest

\* A level of a version is a set of files of its own.
LEMMA LevelIsFileSet ==
    ASSUME NEW v, FileSet(FilesOf(v)), NEW l \in Nat, l < NumLevels
    PROVE  l \in Levels /\ FileSet(v[l]) /\ v[l] \subseteq FilesOf(v)
<1>1. l \in Levels
  BY VersionAssumption DEF Levels
<1>2. v[l] \subseteq FilesOf(v)
  BY <1>1 DEF FilesOf
<1> QED
  BY <1>1, <1>2, FileSubset

Inputs(v, level, in0) ==
    LET in1 == Under(v, level + 1, in0)
    IN  Grown(v, level, in0, in1, Under(v, level, in0 \cup in1))

\* VersionSet::SetupOtherInputs: the two sets of inputs.  When the files it starts from
\* leave no gap, all of the inputs together leave none.
LEMMA GrownInputs ==
    ASSUME NEW v, FileSet(FilesOf(v)), NEW level \in Nat, level + 1 < NumLevels,
           NEW in0 \in SUBSET v[level], in0 # {}
    PROVE  LET in == Inputs(v, level, in0)
           IN  /\ in[1] \subseteq v[level] /\ in[1] # {}
               /\ in[2] = Under(v, level + 1, in[1])
               /\ Solid(in0) => Solid(in[1] \cup in[2])
               /\ Alone(in0, v, level) => Alone(in[1], v, level)
<1> DEFINE in1 == Under(v, level + 1, in0)
           both == in0 \cup in1
           x0 == Under(v, level, both)
           x1 == Under(v, level + 1, x0)
           in == Inputs(v, level, in0)
           lo == RangeOf(in0).smallest.key
           hi == RangeOf(in0).largest.key
           LO == RangeOf(both).smallest.key
           HI == RangeOf(both).largest.key
           XL == RangeOf(x0).smallest.key
           XH == RangeOf(x0).largest.key
<1>1. /\ FileSet(v[level]) /\ v[level] \subseteq FilesOf(v)
      /\ FileSet(v[level + 1]) /\ v[level + 1] \subseteq FilesOf(v) /\ level + 1 \in Nat /\ level + 1 # 0
  BY LevelIsFileSet, VersionAssumption
<1>2. FileSet(in0)
  BY <1>1, FileSubset
<1>3. /\ in1 \subseteq v[level + 1] /\ FileSet(in1)
      /\ \A f \in v[level + 1] : Meets(f, lo, hi) => f \in in1
      /\ \A f \in in1 : Meets(f, lo, hi)
      /\ \A f \in v[level + 1] : f \in in0 => f \in in1
  BY <1>1, <1>2, FilesUnder
<1> HIDE DEF in1
<1>4. FileSet(both) /\ both # {} /\ both \subseteq FilesOf(v)
  BY <1>1, <1>3, FileSubset
<1>5. /\ x0 \subseteq v[level] /\ FileSet(x0) /\ Linked(x0, LO, HI) /\ Alone(x0, v, level)
      /\ \A f \in v[level] : f \in both => f \in x0
  BY <1>1, <1>4, FilesUnder
<1>6. in0 \subseteq x0 /\ x0 # {}
  BY <1>5
<1> HIDE DEF x0
<1>7. /\ x1 \subseteq v[level + 1] /\ FileSet(x1)
      /\ \A f \in v[level + 1] : Meets(f, XL, XH) => f \in x1
      /\ \A f \in x1 : Meets(f, XL, XH)
  BY <1>1, <1>5, <1>6, FilesUnder
<1> HIDE DEF x1
<1>8. \/ in = <<in0, in1>>
      \/ in = <<x0, x1>>
  BY DEF Inputs, Grown, in1, x0, x1
<1>e. /\ lo \in Nat /\ hi \in Nat /\ lo <= hi /\ LO \in Nat /\ HI \in Nat /\ LO <= HI
      /\ XL \in Nat /\ XH \in Nat /\ XL <= XH
  BY <1>2, <1>4, <1>5, <1>6, EndsOfRange
<1>9. XL <= lo /\ hi <= XH
  <2>1. PICK f \in in0 : f.smallest.key = lo
    BY <1>2, EndsOfRange
  <2>2. PICK g \in in0 : g.largest.key = hi
    BY <1>2, EndsOfRange
  <2> HIDE DEF lo, hi
  <2>3. XL <= f.smallest.key /\ g.largest.key <= XH
    BY <1>5, <1>6, <2>1, <2>2, EndsOfRange
  <2> QED
    BY <2>1, <2>2, <2>3
<1>10. in1 \subseteq x1
  <2> SUFFICES ASSUME NEW f \in in1 PROVE f \in x1
    OBVIOUS
  <2>1. f \in v[level + 1] /\ f.largest.key >= lo /\ f.smallest.key <= hi
    BY <1>3 DEF Meets
  <2>2. f.smallest.key \in Nat /\ f.largest.key \in Nat
    BY <1>3, FileKeys DEF FileSet
  <2> HIDE DEF lo, hi, XL, XH
  <2>3. Meets(f, XL, XH)
    BY <1>e, <1>9, <2>1, <2>2 DEF Meets
  <2> QED
    BY <1>7, <2>1, <2>3
<1>11. ASSUME Solid(in0) PROVE Solid(both)
  <2>1. Filled(in0, lo, hi)
    BY <1>2, <1>11, SolidFillsRange
  <2>2. Linked(in0, lo, hi)
    BY <1>2, <1>e, LinkedOfRange
  <2>3. Linked(in1, lo, hi)
    BY <1>3, <1>e, MeetingIsLinked
  <2> HIDE DEF lo, hi
  <2>4. Linked(both, lo, hi) /\ Filled(both, lo, hi)
    BY <2>1, <2>2, <2>3, LinksAdd, FilledByMore
  <2> QED
    BY <1>e, <1>4, <2>4, LinkedIsSolid
<1>12. ASSUME Solid(in0) PROVE Solid(x0 \cup x1)
  <2>1. Filled(both, LO, HI)
    BY <1>4, <1>11, <1>12, SolidFillsRange
  <2>2. Linked(both, LO, HI)
    BY <1>4, <1>e, LinkedOfRange
  <2> DEFINE more == both \cup x0
  <2>3. FileSet(more) /\ more # {}
    <3>1. more \in SUBSET FilesOf(v)
      BY <1>1, <1>4, <1>5
    <3> QED
      BY <1>6, <3>1, FileSubset
  <2>4. Solid(more)
    <3> HIDE DEF LO, HI
    <3>1. Linked(more, LO, HI) /\ Filled(more, LO, HI)
      BY <1>5, <2>1, <2>2, LinksAdd, FilledByMore
    <3> HIDE DEF more
    <3> QED
      BY <1>e, <2>3, <3>1, LinkedIsSolid
  <2>5. Filled(more, XL, XH)
    <3>1. PICK f \in x0 : f.smallest.key = XL
      BY <1>5, <1>6, EndsOfRange
    <3>2. PICK g \in x0 : g.largest.key = XH
      BY <1>5, <1>6, EndsOfRange
    <3>3. Filled(more, f.smallest.key, g.largest.key)
      BY <2>4 DEF Solid
    <3> QED
      BY <3>1, <3>2, <3>3
  <2> DEFINE all == x0 \cup x1
  <2>6. more \subseteq all /\ FileSet(all)
    <3>1. all \in SUBSET FilesOf(v)
      BY <1>1, <1>5, <1>7
    <3>2. more \subseteq all
      BY <1>6, <1>10
    <3> QED
      BY <3>1, <3>2, FileSubset
  <2>7. Linked(x0, XL, XH)
    BY <1>5, <1>6, <1>e, LinkedOfRange
  <2>8. Linked(x1, XL, XH)
    BY <1>7, <1>e, MeetingIsLinked
  <2> HIDE DEF XL, XH, more
  <2>9. Linked(all, XL, XH) /\ Filled(all, XL, XH)
    BY <2>5, <2>6, <2>7, <2>8, LinksAdd, FilledByMore
  <2> HIDE DEF all
  <2>10. Solid(all)
    BY <1>e, <2>6, <2>9, LinkedIsSolid
  <2> QED
    BY <2>10 DEF all
<1>13. CASE in = <<in0, in1>>
  <2> HIDE DEF in
  <2>1. in[1] = in0 /\ in[2] = in1
    BY <1>13
  <2>2. Solid(in0) => Solid(in[1] \cup in[2])
    BY <1>11, <2>1
  <2>3. in[2] = Under(v, level + 1, in[1])
    BY <2>1 DEF in1
  <2> QED
    BY <2>1, <2>2, <2>3 DEF in, in1, x0
<1>14. CASE in = <<x0, x1>>
  <2> HIDE DEF in
  <2>1. in[1] = x0 /\ in[2] = x1
    BY <1>14
  <2>2. Solid(in0) => Solid(in[1] \cup in[2])
    BY <1>12, <2>1
  <2>3. in[2] = Under(v, level + 1, in[1])
    BY <2>1 DEF x1
  <2>4. in[1] \subseteq v[level] /\ in[1] # {}
    BY <2>1, <1>5, <1>6
  <2> QED
    BY <1>14, <1>5, <2>1, <2>2, <2>3, <2>4 DEF in, in1, x0
<1> QED
  BY <1>8, <1>13, <1>14

\* SetupOtherInputs returns inputs of two adjacent levels, and leaves no gap if the first
\* ones left none.
LEMMA SetupInputs ==
    ASSUME NEW v, FileSet(FilesOf(v)), NEW level \in Nat, level + 1 < NumLevels,
           NEW in0 \in SUBSET v[level], in0 # {}, Alone(in0, v, level)
    PROVE  /\ Chosen(SetupOtherInputs(v, level, in0), v)
           /\ SetupOtherInputs(v, level, in0).level = level
           /\ Solid(in0) => Solid(SetupOtherInputs(v, level, in0).in0 \cup SetupOtherInputs(v, level, in0).in1)
<1> DEFINE in == Inputs(v, level, in0)
           c == SetupOtherInputs(v, level, in0)
<1>1. c = WithGrandparents(v, level, in)
  BY DEF SetupOtherInputs, Inputs
<1>2. /\ in[1] \subseteq v[level] /\ in[1] # {}
      /\ in[2] = Under(v, level + 1, in[1])
      /\ Solid(in0) => Solid(in[1] \cup in[2])
      /\ Alone(in[1], v, level)
  BY GrownInputs
<1> HIDE DEF in, c
<1>3. /\ FileSet(v[level]) /\ v[level] \subseteq FilesOf(v)
      /\ FileSet(v[level + 1]) /\ v[level + 1] \subseteq FilesOf(v) /\ level + 1 \in Nat /\ level + 1 # 0
  BY LevelIsFileSet, VersionAssumption
<1>4. FileSet(in[1])
  BY <1>2, <1>3, FileSubset
<1>5. /\ in[2] \subseteq v[level + 1]
      /\ \A f \in v[level + 1] :
          f \in in[2] <=> Meets(f, RangeOf(in[1]).smallest.key, RangeOf(in[1]).largest.key)
  BY <1>2, <1>3, <1>4, FilesUnder
<1> DEFINE grand == IF level + 2 < NumLevels THEN Under(v, level + 2, in[1] \cup in[2]) ELSE {}
<1>6. FileSet(grand)
  <2>1. FileSet({})
    BY <1>3, FileSubset
  <2>2. ASSUME level + 2 < NumLevels PROVE FileSet(Under(v, level + 2, in[1] \cup in[2]))
    <3>1. FileSet(v[level + 2]) /\ level + 2 \in Nat
      BY <2>2, LevelIsFileSet, VersionAssumption
    <3>2. FileSet(in[1] \cup in[2]) /\ in[1] \cup in[2] # {}
      BY <1>2, <1>3, <1>5, FileSubset
    <3> QED
      BY <3>1, <3>2, FilesUnder
  <2> QED
    BY <2>1, <2>2
<1>7. \E f \in in[1] : f.largest = RangeOf(in[1]).largest
  BY <1>2, <1>4, EndsOfRange
<1> HIDE DEF grand
<1>8. c = [level |-> level, in0 |-> in[1], in1 |-> in[2], grandparents |-> grand,
           pointer |-> RangeOf(in[1]).largest]
  BY <1>1 DEF WithGrandparents, grand
<1>9. /\ c.level = level /\ c.in0 = in[1] /\ c.in1 = in[2] /\ c.grandparents = grand
      /\ c.pointer = RangeOf(in[1]).largest
  BY <1>8
<1>10. Chosen(c, v)
  BY <1>2, <1>5, <1>6, <1>7, <1>9 DEF Chosen
<1> QED
  BY <1>2, <1>9, <1>10 DEF c

\* Products with one factor in common.
LEMMA SameFactor ==
    ASSUME NEW a \in Nat, NEW b \in Nat, NEW c \in Nat \ {0}
    PROVE  /\ a * c \in Nat /\ b * c \in Nat
           /\ (a * c > b * c <=> a > b) /\ (a * c >= b * c <=> a >= b)
BY Z3

\* VersionSet::Finalize: some level above the last has the highest score, and when that
\* is full it has a file.
LEMMA FinalizedLevel ==
    ASSUME NEW v, FileSet(FilesOf(v))
    PROVE  /\ Finalize(v).level \in Nat /\ Finalize(v).level + 1 < NumLevels
           /\ Finalize(v).full => v[Finalize(v).level] # {}
<1> DEFINE S == 0 .. NumLevels - 2
           score(l) == IF l = 0 THEN <<Cardinality(v[0]), L0Trigger>>
                       ELSE <<TotalFileSize(v[l]), MaxBytes>>
           size == [l \in S |-> score(l)[1]]
           w == [l \in S |-> IF l = 0 THEN size[l] * MaxBytes ELSE size[l] * L0Trigger]
           Best(l) == \A m \in S :
                   IF m < l THEN score(l)[1] * score(m)[2] > score(m)[1] * score(l)[2]
                   ELSE score(l)[1] * score(m)[2] >= score(m)[1] * score(l)[2]
           best == CHOOSE l \in S : Best(l)
<1>1. L0Trigger \in Nat \ {0} /\ MaxBytes \in Nat \ {0} /\ NumLevels \in Nat /\ NumLevels >= 2
  BY VersionAssumption
<1>2. \A l \in S : l \in Nat /\ l + 1 < NumLevels /\ FileSet(v[l])
  BY <1>1, LevelIsFileSet
<1>3. \A l \in S : size[l] \in Nat /\ (size[l] # 0 => v[l] # {})
  <2> TAKE l \in S
  <2>1. Cardinality(v[l]) \in Nat /\ (v[l] = {} => Cardinality(v[l]) = 0)
    BY <1>2, FS_CardinalityType, FS_EmptySet DEF FileSet
  <2>2. TotalFileSize(v[l]) \in Nat /\ (TotalFileSize(v[l]) # 0 => v[l] # {})
    BY <1>2, SizesAreNumbers
  <2> QED
    BY <2>1, <2>2
<1>4. \A l \in S : score(l)[1] = size[l] /\ score(l)[2] = IF l = 0 THEN L0Trigger ELSE MaxBytes
  OBVIOUS
<1>5. \A l, m \in S : /\ score(l)[1] * score(m)[2] > score(m)[1] * score(l)[2] <=> w[l] > w[m]
                      /\ score(l)[1] * score(m)[2] >= score(m)[1] * score(l)[2] <=> w[l] >= w[m]
  <2> TAKE l, m \in S
  <2> HIDE DEF score, size
  <2>1. /\ w[l] = IF l = 0 THEN size[l] * MaxBytes ELSE size[l] * L0Trigger
        /\ w[m] = IF m = 0 THEN size[m] * MaxBytes ELSE size[m] * L0Trigger
    OBVIOUS
  <2> HIDE DEF w
  <2>2. /\ size[l] \in Nat /\ size[m] \in Nat
        /\ score(l)[1] = size[l] /\ score(l)[2] = IF l = 0 THEN L0Trigger ELSE MaxBytes
        /\ score(m)[1] = size[m] /\ score(m)[2] = IF m = 0 THEN L0Trigger ELSE MaxBytes
    BY <1>3, <1>4
  <2>3. /\ size[l] * MaxBytes > size[m] * MaxBytes <=> size[l] > size[m]
        /\ size[l] * MaxBytes >= size[m] * MaxBytes <=> size[l] >= size[m]
        /\ size[l] * L0Trigger > size[m] * L0Trigger <=> size[l] > size[m]
        /\ size[l] * L0Trigger >= size[m] * L0Trigger <=> size[l] >= size[m]
    BY <1>1, <2>2, SameFactor
  <2>4. CASE (l = 0 /\ m = 0) \/ (l # 0 /\ m # 0)
    BY <2>1, <2>2, <2>3, <2>4
  <2>5. CASE (l = 0 /\ m # 0) \/ (l # 0 /\ m = 0)
    BY <2>1, <2>2, <2>5
  <2> QED
    BY <2>4, <2>5
<1>6. \A l \in S : w[l] \in Nat
  BY <1>1, <1>3, Z3
<1>7. \E l \in S : Best(l)
  <2> HIDE DEF w, score, size
  <2> DEFINE R == {p \in S \X S : w[p[1]] > w[p[2]] \/ (w[p[1]] = w[p[2]] /\ p[1] < p[2])}
  <2>1. \A a, b \in S : <<a, b>> \in R <=> w[a] > w[b] \/ (w[a] = w[b] /\ a < b)
    OBVIOUS
  <2>0. IsFiniteSet(S) /\ 0 \in S
    BY <1>1, FS_Interval
  <2>2. \A a \in S : a \in Nat
    BY <1>2
  <2> HIDE DEF R, S
  <2>3. \A a, b, c \in S : <<a, b>> \in R /\ <<b, c>> \in R => <<a, c>> \in R
    BY <2>1, <2>2, <1>6
  <2>4. \A a \in S : <<a, a>> \notin R
    BY <2>1, <2>2, <1>6
  <2>5. PICK l \in S : \A x \in S : <<x, l>> \notin R
    BY <2>0, <2>3, <2>4, SomethingIsLeast
  <2>6. \A x \in S : w[l] >= w[x] /\ (x < l => w[l] > w[x])
    <3>1. \A x \in S : ~(w[x] > w[l] \/ (w[x] = w[l] /\ x < l))
      BY <2>1, <2>5
    <3> QED
      BY <2>2, <3>1, <1>6
  <2>7. Best(l)
    BY <1>5, <2>6
  <2> HIDE DEF Best
  <2> QED
    BY <2>7
<1>8. best \in S
  <2> HIDE DEF S, Best
  <2> QED
    BY <1>7
<1>9. Finalize(v) = [level |-> best, full |-> score(best)[1] >= score(best)[2]]
  BY DEF Finalize
<1> HIDE DEF best
<1>10. Finalize(v).level = best /\ (Finalize(v).full => score(best)[1] >= score(best)[2])
  <2> HIDE DEF score
  <2> DEFINE full == score(best)[1] >= score(best)[2]
  <2>0. full \in BOOLEAN
    OBVIOUS
  <2> HIDE DEF full
  <2>1. Finalize(v) = [level |-> best, full |-> full]
    BY <1>9 DEF full
  <2>2. Finalize(v).level = best /\ Finalize(v).full = full
    BY <2>1
  <2>3. Finalize(v).full => full
    BY <2>2, Zenon
  <2> QED
    BY <2>2, <2>3 DEF full
<1>11. score(best)[1] >= score(best)[2] => size[best] # 0
  <2> HIDE DEF score, size
  <2> QED
    BY <1>1, <1>3, <1>4, <1>8
<1> QED
  BY <1>2, <1>3, <1>8, <1>10, <1>11

\* VersionSet::PickCompaction by size takes a file of that level.
LEMMA PickedBySize ==
    ASSUME NEW v, FileSet(FilesOf(v)), NEW ptr, Finalize(v).full
    PROVE  LET x == PickBySize(v, ptr)
           IN  /\ x.level \in Nat /\ x.level + 1 < NumLevels
               /\ \E f \in v[x.level] : x.file = {f}
<1> DEFINE level == Finalize(v).level
           FirstFile(fs) == {f \in fs : \A g \in fs : g = f \/ BySmallestKey(f, g)}
           after == {f \in v[level] : ptr[level] = {} \/ \E p \in ptr[level] : Before(p, f.largest)}
           from == IF after = {} THEN v[level] ELSE after
           x == PickBySize(v, ptr)
<1>1. x = [level |-> level, file |-> FirstFile(from)]
  BY DEF PickBySize
<1>2. level \in Nat /\ level + 1 < NumLevels /\ v[level] # {}
  BY FinalizedLevel
<1> HIDE DEF level
<1>3. FileSet(v[level])
  BY <1>2, LevelIsFileSet, VersionAssumption
<1>4. FileSet(from) /\ from # {} /\ from \subseteq v[level]
  BY <1>2, <1>3, FileSubset
<1> HIDE DEF from
<1>5. PICK f \in from : \A g \in from : g = f \/ BySmallestKey(f, g)
  BY <1>4, FirstFileExists
<1>6. \A g \in from : g # f => ~BySmallestKey(g, f)
  BY <1>4, <1>5, FilesAreOrdered
<1>7. FirstFile(from) = {f}
  BY <1>5, <1>6
<1> HIDE DEF x
<1>8. x.level = level /\ x.file = {f}
  BY <1>1, <1>7
<1> QED
  BY <1>2, <1>4, <1>8 DEF x

\* What is picked automatically, by size or for a seek, leaves no gap.
LEMMA PickedCompaction ==
    ASSUME NEW v, FileSet(FilesOf(v)), NEW x, x.level \in Nat, x.level + 1 < NumLevels,
           NEW f \in v[x.level], x.file = {f}
    PROVE  /\ Chosen(PickCompaction(v, x), v)
           /\ Solid(PickCompaction(v, x).in0 \cup PickCompaction(v, x).in1)
<1> DEFINE in0 == IF x.level = 0 THEN Under(v, 0, x.file) ELSE x.file
<1>1. FileSet(v[x.level]) /\ v[x.level] \subseteq FilesOf(v)
  BY LevelIsFileSet, VersionAssumption
<1>2. FileSet({f})
  BY <1>1, FileSubset
<1>3. Solid({f}) /\ Filled({f}, RangeOf({f}).smallest.key, RangeOf({f}).largest.key)
  <2>1. Solid({f})
    BY DEF Solid, Filled, Covers
  <2> QED
    BY <1>2, <2>1, SolidFillsRange
<1>4. CASE x.level = 0
  <2>1. /\ Under(v, 0, {f}) \subseteq v[0] /\ FileSet(Under(v, 0, {f})) /\ f \in Under(v, 0, {f})
        /\ Linked(Under(v, 0, {f}), RangeOf({f}).smallest.key, RangeOf({f}).largest.key)
        /\ Alone(Under(v, 0, {f}), v, 0)
    BY <1>1, <1>2, <1>4, FilesUnder
  <2>2. Filled(Under(v, 0, {f}), RangeOf({f}).smallest.key, RangeOf({f}).largest.key)
    BY <1>3, <2>1, FilledByMore
  <2>3. Solid(Under(v, 0, {f}))
    BY <1>2, <2>1, <2>2, EndsOfRange, LinkedIsSolid
  <2>4. in0 = Under(v, 0, {f})
    BY <1>4
  <2>5. in0 \in SUBSET v[x.level] /\ in0 # {} /\ Solid(in0) /\ Alone(in0, v, x.level)
    BY <1>4, <2>1, <2>3, <2>4
  <2> HIDE DEF in0
  <2> QED
    BY <2>5, SetupInputs DEF PickCompaction, in0
<1>5. CASE x.level # 0
  <2>1. in0 \in SUBSET v[x.level] /\ in0 # {} /\ Solid(in0) /\ Alone(in0, v, x.level)
    BY <1>3, <1>5 DEF Alone
  <2> HIDE DEF in0
  <2> QED
    BY <2>1, SetupInputs DEF PickCompaction, in0
<1> QED
  BY <1>4, <1>5

\* VersionSet::CompactRange takes at least one file, if there is any.
LEMMA CompactedRange ==
    ASSUME NEW v, FileSet(FilesOf(v)), NEW level \in Nat, level + 1 < NumLevels,
           NEW lo \in Nat, NEW hi \in Nat, NEW c \in CompactRange(v, level, lo, hi)
    PROVE  Chosen(c, v) /\ c.level = level
<1> DEFINE all == GetOverlappingInputs(v, level, lo, hi)
           Upto(f) == {g \in all : g = f \/ BySmallestKey(g, f)}
           enough == {f \in all : TotalFileSize(Upto(f)) >= MaxFileSize}
           cut == {f \in all : \A g \in enough : f \in Upto(g)}
           in0 == IF level > 0 THEN cut ELSE all
<1>1. all # {} /\ c = SetupOtherInputs(v, level, in0)
  BY DEF CompactRange
<1>2. FileSet(v[level]) /\ v[level] \subseteq FilesOf(v)
  BY LevelIsFileSet, VersionAssumption
<1>3. all \subseteq v[level] /\ Alone(all, v, level)
  BY <1>2, Overlapping
<1> HIDE DEF all
<1>4. FileSet(all)
  BY <1>2, <1>3, FileSubset
<1>5. PICK f \in all : \A g \in all : g = f \/ BySmallestKey(f, g)
  BY <1>1, <1>4, FirstFileExists
<1>6. f \in cut
  BY <1>5
<1>7. in0 \in SUBSET v[level] /\ in0 # {} /\ Alone(in0, v, level)
  BY <1>1, <1>3, <1>6 DEF Alone
<1> HIDE DEF in0
<1> QED
  BY <1>1, <1>7, SetupInputs

\* The output of a compaction so far: runs of the inputs, one after the other, the one
\* being written, and what is still to come.  Of what came nothing is missing but drops.
Ahead(xs, ys) == \A a \in xs, b \in ys : Before(a, b)
InSome(e, outs) == \E i \in DOMAIN outs : e \in outs[i]
Sorted(es, drops, outs, cur, rest) ==
    /\ outs \in Seq(SUBSET es) /\ cur \in SUBSET es
    /\ \A i \in DOMAIN outs : outs[i] # {} /\ Ahead(outs[i], cur) /\ Ahead(outs[i], rest)
    /\ \A i, j \in DOMAIN outs : i < j => Ahead(outs[i], outs[j])
    /\ Ahead(cur, rest)
    /\ \A e \in es : (e \in cur \/ InSome(e, outs)) <=> (e \notin rest /\ e \notin drops)

\* The first entry still to come is dropped or goes into the output.
LEMMA SortedTake ==
    ASSUME NEW es, NEW drops, NEW outs, NEW cur, NEW rest, Sorted(es, drops, outs, cur, rest),
           NEW e \in rest, e \in es, \A o \in rest : o = e \/ Before(e, o)
    PROVE  /\ e \in drops => Sorted(es, drops, outs, cur, rest \ {e})
           /\ e \notin drops => Sorted(es, drops, outs, cur \cup {e}, rest \ {e})
<1>1. Ahead(cur, rest \ {e}) /\ Ahead(cur \cup {e}, rest \ {e})
  BY DEF Sorted, Ahead
<1>2. \A i \in DOMAIN outs : Ahead(outs[i], cur \cup {e}) /\ Ahead(outs[i], rest \ {e})
  BY DEF Sorted, Ahead
<1>3. e \in drops => \A o \in es : (o \in cur \/ InSome(o, outs)) <=> (o \notin rest \ {e} /\ o \notin drops)
  BY DEF Sorted
<1>4. e \notin drops => \A o \in es : (o \in cur \cup {e} \/ InSome(o, outs)) <=> (o \notin rest \ {e} /\ o \notin drops)
  BY DEF Sorted
<1> QED
  BY <1>1, <1>2, <1>3, <1>4 DEF Sorted

\* Closing an output keeps the outputs sorted.
LEMMA SortedClose ==
    ASSUME NEW es, NEW drops, NEW outs, NEW cur, NEW rest, Sorted(es, drops, outs, cur, rest), cur # {}
    PROVE  Sorted(es, drops, Append(outs, cur), {}, rest)
<1> DEFINE more == Append(outs, cur)
<1>1. /\ more \in Seq(SUBSET es) /\ Len(more) = Len(outs) + 1 /\ Len(outs) \in Nat
      /\ more[Len(outs) + 1] = cur /\ \A i \in 1 .. Len(outs) : more[i] = outs[i]
      /\ DOMAIN outs = 1 .. Len(outs) /\ DOMAIN more = 1 .. Len(more)
  BY DEF Sorted
<1> HIDE DEF more
<1>2. \A i \in DOMAIN more : i \in DOMAIN outs \/ i = Len(outs) + 1
  BY <1>1
<1>3. \A i \in DOMAIN more : more[i] # {} /\ Ahead(more[i], rest)
  BY <1>1, <1>2 DEF Sorted
<1>4. \A i, j \in DOMAIN more : i < j => Ahead(more[i], more[j])
  <2> SUFFICES ASSUME NEW i \in DOMAIN more, NEW j \in DOMAIN more, i < j
               PROVE  Ahead(more[i], more[j])
    OBVIOUS
  <2>1. i \in DOMAIN outs /\ more[i] = outs[i]
    BY <1>1
  <2>2. CASE j \in DOMAIN outs
    BY <1>1, <2>1, <2>2 DEF Sorted
  <2>3. CASE j = Len(outs) + 1
    BY <1>1, <2>1, <2>3 DEF Sorted
  <2> QED
    BY <1>2, <2>2, <2>3
<1>5. \A i \in DOMAIN more : Ahead(more[i], {})
  BY DEF Ahead
<1>6. Ahead({}, rest)
  BY DEF Ahead
<1>7. \A e : InSome(e, more) <=> e \in cur \/ InSome(e, outs)
  <2>1. \A i \in DOMAIN outs : i \in DOMAIN more /\ more[i] = outs[i]
    BY <1>1
  <2>2. Len(outs) + 1 \in DOMAIN more
    BY <1>1
  <2> QED
    BY <1>1, <1>2, <2>1, <2>2 DEF InSome
<1>8. \A e \in es : (e \in {} \/ InSome(e, more)) <=> (e \notin rest /\ e \notin drops)
  BY <1>7 DEF Sorted
<1> QED
  BY <1>1, <1>3, <1>4, <1>5, <1>6, <1>8 DEF Sorted, more

-----------------------------------------------------------------------------
\* The state of DoCompactionWork's loop.
LoopStates(es, gs) ==
    [rest : SUBSET es, outs : Seq(SUBSET es), cur : SUBSET es, seen : BOOLEAN,
     passed : SUBSET gs, overlapped : Nat]

\* FinishCompactionOutputFile, called with or without an open output.
LEMMA CloseKeeps ==
    ASSUME NEW es, NEW drops, NEW gs, NEW st \in LoopStates(es, gs), NEW rest,
           Sorted(es, drops, st.outs, st.cur, rest)
    PROVE  /\ Close(st) \in LoopStates(es, gs)
           /\ Close(st).rest = st.rest /\ Close(st).cur = {}
           /\ Sorted(es, drops, Close(st).outs, Close(st).cur, rest)
<1>1. CASE st.cur = {}
  BY <1>1 DEF Close
<1>2. CASE st.cur # {}
  <2>1. Close(st) = [st EXCEPT !.outs = Append(@, st.cur), !.cur = {}]
    BY <1>2 DEF Close
  <2>2. /\ st \in [rest : SUBSET es, outs : Seq(SUBSET es), cur : SUBSET es, seen : BOOLEAN,
                   passed : SUBSET gs, overlapped : Nat]
        /\ Append(st.outs, st.cur) \in Seq(SUBSET es)
    BY DEF LoopStates
  <2>3. /\ Close(st).rest = st.rest /\ Close(st).outs = Append(st.outs, st.cur) /\ Close(st).cur = {}
        /\ Close(st) \in LoopStates(es, gs)
    BY <2>1, <2>2 DEF LoopStates
  <2> QED
    BY <1>2, <2>3, SortedClose
<1> QED
  BY <1>1, <1>2

\* ShouldStopBefore only moves on in the grandparents.
SameOutput(es, gs, new, st) ==
    new \in LoopStates(es, gs) /\ new.rest = st.rest /\ new.outs = st.outs /\ new.cur = st.cur
LEMMA StopKeeps ==
    ASSUME NEW es, NEW c, FileSet(c.grandparents), NEW st \in LoopStates(es, c.grandparents), NEW e
    PROVE  SameOutput(es, c.grandparents, ShouldStopBefore(c, st, e).st, st)
<1> DEFINE gs == c.grandparents
           passed == {g \in gs : Before(g.largest, e)}
           bytes == st.overlapped + (IF st.seen THEN TotalFileSize(passed \ st.passed) ELSE 0)
           over == IF bytes > MaxGrandparent THEN 0 ELSE bytes
           new == [st EXCEPT !.seen = TRUE, !.passed = passed, !.overlapped = over]
<1>1. TotalFileSize(passed \ st.passed) \in Nat
  <2>1. FileSet(passed \ st.passed)
    BY FileSubset
  <2> QED
    BY <2>1, SizesAreNumbers
<1>2. st \in [rest : SUBSET es, outs : Seq(SUBSET es), cur : SUBSET es, seen : BOOLEAN,
              passed : SUBSET gs, overlapped : Nat]
  BY DEF LoopStates
<1>3. over \in Nat
  BY <1>1, <1>2
<1>4. passed \in SUBSET gs
  OBVIOUS
<1>5. ShouldStopBefore(c, st, e).st = new
  BY DEF ShouldStopBefore
<1> HIDE DEF over, passed
<1>6. /\ new.rest = st.rest /\ new.outs = st.outs /\ new.cur = st.cur
      /\ new \in LoopStates(es, gs)
  BY <1>2, <1>3, <1>4 DEF LoopStates
<1> QED
  BY <1>5, <1>6 DEF SameOutput

\* A pass of the loop.
NextPass(es, drops, gs, new, st) ==
    /\ new \in LoopStates(es, gs)
    /\ Sorted(es, drops, new.outs, new.cur, new.rest)
    /\ IsFiniteSet(st.rest) /\ Cardinality(new.rest) = Cardinality(st.rest) - 1
LEMMA EntryKeeps ==
    ASSUME NEW es, Run(es), NEW v, NEW c, FileSet(c.grandparents), NEW snap,
           NEW drops, \A e \in es : e \in drops <=> Dropped(v, c.level, es, snap, e),
           NEW st \in LoopStates(es, c.grandparents), st.rest # {},
           Sorted(es, drops, st.outs, st.cur, st.rest)
    PROVE  NextPass(es, drops, c.grandparents, CompactEntry(v, c, snap, es, st), st)
<1> DEFINE gs == c.grandparents
           e == First(st.rest)
           should == ShouldStopBefore(c, st, e)
           open == IF should.stop THEN Close(should.st) ELSE should.st
           with == [open EXCEPT !.cur = @ \cup {e}]
           next == IF Dropped(v, c.level, es, snap, e) THEN open
                   ELSE IF Cardinality(with.cur) >= MaxFileSize THEN Close(with) ELSE with
           new == CompactEntry(v, c, snap, es, st)
           rest == st.rest \ {e}
<1>1. new = [next EXCEPT !.rest = @ \ {e}]
  BY DEF CompactEntry
<1>2. st.rest \in SUBSET es /\ Run(st.rest)
  BY RunSubset DEF LoopStates
<1>3. e \in st.rest /\ e \in es /\ \A o \in st.rest : o = e \/ Before(e, o)
  BY <1>2, EndsOfRun
<1>d. Dropped(v, c.level, es, snap, e) <=> e \in drops
  BY <1>3
<1> HIDE DEF e
<1>4. /\ should.st \in LoopStates(es, gs) /\ should.st.rest = st.rest
      /\ Sorted(es, drops, should.st.outs, should.st.cur, st.rest)
  <2>1. /\ should.st \in LoopStates(es, gs) /\ should.st.rest = st.rest
        /\ should.st.outs = st.outs /\ should.st.cur = st.cur
    <3>1. SameOutput(es, gs, should.st, st)
      BY StopKeeps
    <3> HIDE DEF should
    <3> QED
      BY <3>1 DEF SameOutput
  <2> HIDE DEF should
  <2> QED
    BY <2>1
<1> HIDE DEF should
<1>5. open \in LoopStates(es, gs) /\ open.rest = st.rest /\ Sorted(es, drops, open.outs, open.cur, st.rest)
  <2>1. CASE should.stop
    <3>1. PICK x : x = should.st
      OBVIOUS
    <3>2. x \in LoopStates(es, gs) /\ x.rest = st.rest /\ Sorted(es, drops, x.outs, x.cur, st.rest)
      BY <1>4, <3>1
    <3>3. Close(x) \in LoopStates(es, gs) /\ Close(x).rest = st.rest
          /\ Sorted(es, drops, Close(x).outs, Close(x).cur, st.rest)
      BY <3>2, CloseKeeps
    <3> QED
      BY <2>1, <3>1, <3>3
  <2>2. CASE ~should.stop
    BY <1>4, <2>2
  <2> QED
    BY <2>1, <2>2
<1> HIDE DEF open
<1>6. /\ e \in drops => Sorted(es, drops, open.outs, open.cur, rest)
      /\ e \notin drops => Sorted(es, drops, open.outs, open.cur \cup {e}, rest)
  BY <1>3, <1>5, SortedTake
<1>7. /\ with \in LoopStates(es, gs) /\ with.rest = st.rest
      /\ e \notin drops => Sorted(es, drops, with.outs, with.cur, rest)
  <2>1. open \in [rest : SUBSET es, outs : Seq(SUBSET es), cur : SUBSET es, seen : BOOLEAN,
                  passed : SUBSET gs, overlapped : Nat]
    BY <1>5 DEF LoopStates
  <2>2. open.cur \cup {e} \in SUBSET es
    BY <1>3, <2>1
  <2>3. /\ with.rest = open.rest /\ with.outs = open.outs /\ with.cur = open.cur \cup {e}
        /\ with \in LoopStates(es, gs)
    BY <2>1, <2>2 DEF LoopStates
  <2> HIDE DEF with, rest
  <2> QED
    BY <1>5, <1>6, <2>3
<1> HIDE DEF with, rest
<1>8. e \notin drops =>
          /\ Close(with) \in LoopStates(es, gs) /\ Close(with).rest = st.rest
          /\ Sorted(es, drops, Close(with).outs, Close(with).cur, rest)
  BY <1>7, CloseKeeps
<1>9. next \in LoopStates(es, gs) /\ next.rest = st.rest /\ Sorted(es, drops, next.outs, next.cur, rest)
  BY <1>5, <1>6, <1>7, <1>8, <1>d
<1> HIDE DEF next, new
<1>10. /\ new.rest = rest /\ new.outs = next.outs /\ new.cur = next.cur
       /\ new \in LoopStates(es, gs)
  <2>1. next \in [rest : SUBSET es, outs : Seq(SUBSET es), cur : SUBSET es, seen : BOOLEAN,
                  passed : SUBSET gs, overlapped : Nat]
    BY <1>9 DEF LoopStates
  <2>2. next.rest \ {e} \in SUBSET es /\ next.rest \ {e} = rest
    BY <1>9, <2>1 DEF rest
  <2> QED
    BY <1>1, <2>1, <2>2 DEF LoopStates
<1>11. IsFiniteSet(st.rest) /\ Cardinality(rest) = Cardinality(st.rest) - 1
  BY <1>2, <1>3, FS_RemoveElement DEF rest, Run
<1> QED
  BY <1>9, <1>10, <1>11 DEF new, NextPass

\* DoCompactionWork: its outputs are runs of the inputs' entries, one after the other, and
\* together all of them but those it drops.
LEMMA OutputsAreSorted ==
    ASSUME NEW v, NEW c, NEW snap, FileSet(c.in0 \cup c.in1), FileSet(c.grandparents)
    PROVE  LET outs == CompactionOutputs(v, c, snap)
           IN  /\ outs \in Seq(SUBSET Contents(c.in0 \cup c.in1))
               /\ \A i \in DOMAIN outs : outs[i] # {}
               /\ \A i, j \in DOMAIN outs : i < j => Ahead(outs[i], outs[j])
               /\ \A e \in Contents(c.in0 \cup c.in1) :
                      InSome(e, outs) <=> ~Dropped(v, c.level, Contents(c.in0 \cup c.in1), snap, e)
<1> DEFINE inputs == UNION {f.entries : f \in c.in0 \cup c.in1}
           gs == c.grandparents
           n == Cardinality(inputs)
           base == [rest |-> inputs, outs |-> <<>>, cur |-> {},
                    seen |-> FALSE, passed |-> {}, overlapped |-> 0]
           Pass(st) == CompactEntry(v, c, snap, inputs, st)
           run[i \in 0 .. n] == IF i = 0 THEN base ELSE Pass(run[i - 1])
<1>1. CompactionOutputs(v, c, snap) = Close(run[n]).outs
  BY DEF CompactionOutputs
<1>2. inputs = Contents(c.in0 \cup c.in1) /\ Run(inputs)
  BY SizesAreNumbers DEF Contents
<1>3. PICK N \in Nat : N = n
  BY <1>2, FS_CardinalityType DEF Run
<1>4. PICK es : es = inputs
  OBVIOUS
<1>r. Run(es)
  BY <1>2, <1>4
<1> DEFINE drops == {e \in es : Dropped(v, c.level, es, snap, e)}
<1>s. drops \in SUBSET es /\ \A e \in es : e \in drops <=> Dropped(v, c.level, es, snap, e)
  OBVIOUS
<1> HIDE DEF drops
<1>p. ASSUME NEW st \in LoopStates(es, c.grandparents), st.rest # {},
             Sorted(es, drops, st.outs, st.cur, st.rest)
      PROVE  NextPass(es, drops, c.grandparents, CompactEntry(v, c, snap, es, st), st)
  <2> HIDE DEF inputs
  <2> QED
    BY <1>r, <1>s, <1>p, EntryKeeps
<1> DEFINE S == LoopStates(es, gs)
           Good(i) == {st \in S : Sorted(es, drops, st.outs, st.cur, st.rest) /\ Cardinality(st.rest) = N - i}
           Q == [i \in 0 .. N |-> Good(i)]
           step == [st \in S |-> Pass(st)]
<1>5. base \in Good(0)
  <2>1. base \in S
    BY <1>4 DEF LoopStates
  <2>2. base.outs = <<>> /\ base.cur = {} /\ base.rest = es
    BY <1>4
  <2>3. Cardinality(es) = N - 0
    BY <1>3, <1>4
  <2>4. Sorted(es, drops, <<>>, {}, es)
    BY DEF Sorted, Ahead, InSome
  <2> HIDE DEF base
  <2> QED
    BY <2>1, <2>2, <2>3, <2>4
<1>6. ASSUME NEW i \in 1 .. N, NEW st \in Good(i - 1) PROVE Pass(st) \in Good(i)
  <2>1. st \in S /\ Sorted(es, drops, st.outs, st.cur, st.rest) /\ Cardinality(st.rest) = N - (i - 1)
    OBVIOUS
  <2>2. Cardinality(st.rest) # 0
    BY <2>1
  <2>3. st.rest # {}
    BY <2>2, FS_EmptySet
  <2>4. Pass(st) = CompactEntry(v, c, snap, es, st)
    BY <1>4
  <2> HIDE DEF Pass
  <2>5. /\ Pass(st) \in S /\ Sorted(es, drops, Pass(st).outs, Pass(st).cur, Pass(st).rest)
        /\ Cardinality(Pass(st).rest) = Cardinality(st.rest) - 1
    <3> DEFINE new == CompactEntry(v, c, snap, es, st)
    <3>2. st \in LoopStates(es, c.grandparents) /\ Sorted(es, drops, st.outs, st.cur, st.rest)
      BY <2>1
    <3>3. /\ new \in LoopStates(es, c.grandparents)
          /\ Sorted(es, drops, new.outs, new.cur, new.rest)
          /\ Cardinality(new.rest) = Cardinality(st.rest) - 1
      BY <2>3, <3>2, <1>p DEF NextPass
    <3> HIDE DEF new
    <3>4. Pass(st) = new
      BY <2>4 DEF new
    <3> QED
      BY <3>3, <3>4
  <2>6. Cardinality(Pass(st).rest) = N - i
    BY <2>1, <2>5
  <2> QED
    BY <2>5, <2>6
<1> HIDE DEF base, Pass
<1>7. Steps(N, S, Q, base, step)
  <2>1. \A i \in 0 .. N : Q[i] = Good(i) /\ Q[i] \subseteq S
    OBVIOUS
  <2>2. \A i \in 1 .. N : i \in 0 .. N /\ i - 1 \in 0 .. N
    OBVIOUS
  <2>3. 0 \in 0 .. N
    OBVIOUS
  <2>4. \A st \in S : step[st] = Pass(st)
    OBVIOUS
  <2> HIDE DEF Q, Good, S, step
  <2>5. base \in Q[0]
    BY <1>5, <2>1, <2>3
  <2>6. ASSUME NEW i \in 1 .. N, NEW st \in Q[i - 1] PROVE step[st] \in Q[i]
    <3>1. st \in Good(i - 1) /\ st \in S
      BY <2>1, <2>2
    <3>2. Pass(st) \in Good(i)
      BY <1>6, <3>1
    <3> QED
      BY <2>1, <2>2, <2>4, <3>1, <3>2
  <2> QED
    BY <2>1, <2>5, <2>6 DEF Steps
<1> HIDE DEF n, S, Good
<1>8. PICK f \in [0 .. N -> S] : /\ f[0] = base /\ \A i \in 1 .. N : f[i] = step[f[i - 1]]
                                 /\ \A i \in 0 .. N : f[i] \in Q[i]
  <2> HIDE DEF Q, step
  <2> QED
    BY <1>7, Iterates
<1>9. \A i \in 1 .. N : f[i] = Pass(f[i - 1])
  <2>1. \A i \in 1 .. N : i - 1 \in 0 .. N
    OBVIOUS
  <2>2. \A i \in 0 .. N : f[i] \in S
    BY <1>8
  <2> QED
    BY <1>8, <2>1, <2>2
<1>10. f = [i \in 0 .. N |-> IF i = 0 THEN base ELSE Pass(f[i - 1])]
  <2>1. \A i \in 0 .. N : i # 0 => i \in 1 .. N
    OBVIOUS
  <2>2. \A i \in 0 .. N : f[i] = IF i = 0 THEN base ELSE Pass(f[i - 1])
    BY <1>8, <1>9, <2>1
  <2> HIDE DEF step, Q
  <2> QED
    BY <1>8, <2>2
<1>11. run = [i \in 0 .. N |-> IF i = 0 THEN base ELSE Pass(run[i - 1])]
  <2>1. f = [i \in 0 .. n |-> IF i = 0 THEN base ELSE Pass(f[i - 1])]
    BY <1>3, <1>10
  <2>2. run = [i \in 0 .. n |-> IF i = 0 THEN base ELSE Pass(run[i - 1])]
    BY <2>1, Zenon
  <2> HIDE DEF run
  <2> QED
    BY <1>3, <2>2
<1> HIDE DEF run
<1>12. \A i \in 0 .. N : f[i] = run[i]
  <2>1. 0 \in 0 .. N /\ \A i \in 1 .. N : i \in 0 .. N /\ i # 0
    OBVIOUS
  <2>2. run[0] = base /\ \A i \in 1 .. N : run[i] = Pass(run[i - 1])
    BY <1>11, <2>1
  <2>3. Alike(N, f, run)
    BY <1>8, <1>9, <2>2 DEF Alike
  <2>4. PICK g : g = run
    OBVIOUS
  <2>5. Alike(N, f, g)
    BY <2>3, <2>4
  <2>6. \A i \in 0 .. N : f[i] = g[i]
    BY <2>5, SameResults
  <2> QED
    BY <2>4, <2>6
<1>13. run[n] \in Good(N)
  <2>1. N \in 0 .. N
    OBVIOUS
  <2>2. Q[N] = Good(N)
    BY <2>1
  <2> HIDE DEF Q
  <2> QED
    BY <1>3, <1>8, <1>12, <2>1, <2>2
<1>14. /\ run[n] \in LoopStates(es, gs) /\ Sorted(es, drops, run[n].outs, run[n].cur, run[n].rest)
       /\ Cardinality(run[n].rest) = 0
  BY <1>13 DEF Good, S
<1>15. PICK last : last = run[n]
  OBVIOUS
<1>16. Sorted(es, drops, Close(last).outs, Close(last).cur, last.rest) /\ Close(last).cur = {}
  BY <1>14, <1>15, CloseKeeps
<1>e. last.rest = {}
  <2>1. last.rest \in SUBSET es
    BY <1>14, <1>15 DEF LoopStates
  <2>2. IsFiniteSet(last.rest)
    BY <1>r, <2>1, RunSubset DEF Run
  <2> QED
    BY <1>14, <1>15, <2>2, FS_EmptySet
<1>17. CompactionOutputs(v, c, snap) = Close(last).outs
  BY <1>1, <1>15
<1> HIDE DEF inputs
<1>18. \A e \in es : InSome(e, Close(last).outs) <=> ~Dropped(v, c.level, es, snap, e)
  BY <1>16, <1>e, <1>s DEF Sorted
<1> QED
  BY <1>2, <1>4, <1>16, <1>17, <1>18 DEF Sorted

\* Two files of which one ends before the other begins, and a file on one side of others.
Apart(f, g) == Before(f.largest, g.smallest) \/ Before(g.largest, f.smallest)
Beside(g, fs) ==
    \/ \A f \in fs : Before(g.largest, f.smallest)
    \/ \A f \in fs : Before(f.largest, g.smallest)
MustNotOverlap(fs) == \A f, g \in fs : f = g \/ Apart(f, g)

\* A file of the level of the output that a compaction leaves where it is lies on one
\* side of all of its inputs.
LEMMA UnchosenBeside ==
    ASSUME NEW v, FileSet(FilesOf(v)), NEW c, Chosen(c, v), MustNotOverlap(v[c.level + 1]),
           NEW g \in v[c.level + 1], g \notin c.in1
    PROVE  Beside(g, c.in0 \cup c.in1)
<1> DEFINE lo == RangeOf(c.in0).smallest.key
           hi == RangeOf(c.in0).largest.key
<1>1. /\ c.level \in Nat /\ c.level + 1 \in Nat /\ c.level < NumLevels /\ c.level + 1 < NumLevels
      /\ c.in0 \subseteq v[c.level] /\ c.in0 # {} /\ c.in1 \subseteq v[c.level + 1]
      /\ \A f \in v[c.level + 1] : f \in c.in1 <=> Meets(f, lo, hi)
  BY VersionAssumption DEF Chosen
<1>2. FileSet(v[c.level]) /\ FileSet(v[c.level + 1])
  BY <1>1, LevelIsFileSet
<1>3. FileSet(c.in0)
  BY <1>1, <1>2, FileSubset
<1>4. lo \in Nat /\ hi \in Nat /\ \A f \in c.in0 : lo <= f.smallest.key /\ f.largest.key <= hi
  BY <1>1, <1>3, EndsOfRange
<1> HIDE DEF lo, hi
<1>5. \A f \in v[c.level] \cup v[c.level + 1] :
          f.smallest.key \in Nat /\ f.largest.key \in Nat /\ f.smallest.key <= f.largest.key
  BY <1>2, FileKeys DEF FileSet
<1>6. \A f \in c.in1 : f.largest.key >= lo /\ f.smallest.key <= hi
  BY <1>1 DEF Meets
<1>7. g.largest.key < lo \/ hi < g.smallest.key
  BY <1>1, <1>4, <1>5 DEF Meets
<1>8. CASE g.largest.key < lo
  <2>1. \A f \in c.in0 : Before(g.largest, f.smallest)
    BY <1>1, <1>4, <1>5, <1>8 DEF Before
  <2>2. \A f \in c.in1 : Before(g.largest, f.smallest)
    <3> TAKE f \in c.in1
    <3>1. f \in v[c.level + 1] /\ Apart(f, g)
      BY <1>1 DEF MustNotOverlap
    <3>2. ~Before(f.largest, g.smallest)
      BY <1>4, <1>5, <1>6, <1>8, <3>1 DEF Before
    <3> QED
      BY <3>1, <3>2 DEF Apart
  <2> QED
    BY <2>1, <2>2 DEF Beside
<1>9. CASE hi < g.smallest.key
  <2>1. \A f \in c.in0 : Before(f.largest, g.smallest)
    BY <1>1, <1>4, <1>5, <1>9 DEF Before
  <2>2. \A f \in c.in1 : Before(f.largest, g.smallest)
    <3> TAKE f \in c.in1
    <3>1. f \in v[c.level + 1] /\ Apart(f, g)
      BY <1>1 DEF MustNotOverlap
    <3>2. ~Before(g.largest, f.smallest)
      BY <1>4, <1>5, <1>6, <1>9, <3>1 DEF Before
    <3> QED
      BY <3>1, <3>2 DEF Apart
  <2> QED
    BY <2>1, <2>2 DEF Beside
<1> QED
  BY <1>7, <1>8, <1>9

\* A file that meets none of some files without a gap lies on one side of them.
LEMMA FlushedBeside ==
    ASSUME NEW fs, FileSet(fs), Solid(fs), NEW g, IsFile(g),
           \A f \in fs : f.largest.key < g.smallest.key \/ g.largest.key < f.smallest.key
    PROVE  Beside(g, fs)
<1>1. \A f \in fs : f.smallest.key \in Nat /\ f.largest.key \in Nat /\ f.smallest.key <= f.largest.key
  BY FileKeys DEF FileSet
<1>2. g.smallest.key \in Nat /\ g.largest.key \in Nat /\ g.smallest.key <= g.largest.key
  BY FileKeys
<1>3. CASE \A f \in fs : g.largest.key < f.smallest.key
  BY <1>1, <1>2, <1>3 DEF Beside, Before
<1>4. CASE \A f \in fs : f.largest.key < g.smallest.key
  BY <1>1, <1>2, <1>4 DEF Beside, Before
<1>5. ASSUME NEW a \in fs, NEW b \in fs, a.largest.key < g.smallest.key, g.largest.key < b.smallest.key
      PROVE  FALSE
  <2>1. a.smallest.key <= g.smallest.key /\ g.smallest.key <= b.largest.key
    BY <1>1, <1>2, <1>5
  <2>2. PICK h \in fs : Covers(h, g.smallest.key)
    BY <1>2, <2>1 DEF Solid, Filled
  <2> QED
    BY <1>1, <1>2, <2>2 DEF Covers
<1> QED
  BY <1>3, <1>4, <1>5

\* What is on one side of the inputs is apart from every output.
LEMMA BesideOutput ==
    ASSUME NEW fs, FileSet(fs), NEW g, IsFile(g), Beside(g, fs),
           NEW o, IsFile(o), o.entries \subseteq Contents(fs)
    PROVE  Apart(g, o)
<1>1. PICK f \in fs : o.smallest \in f.entries
  BY DEF IsFile, Contents
<1>2. PICK h \in fs : o.largest \in h.entries
  BY DEF IsFile, Contents
<1>3. /\ IsFile(f) /\ IsFile(h)
  BY DEF FileSet
<1>4. /\ o.smallest = f.smallest \/ Before(f.smallest, o.smallest)
      /\ o.largest = h.largest \/ Before(o.largest, h.largest)
  BY <1>1, <1>2, <1>3 DEF IsFile
<1>5. /\ f.smallest.key \in Nat /\ f.smallest.seq \in Nat /\ h.largest.key \in Nat /\ h.largest.seq \in Nat
      /\ o.smallest.key \in Nat /\ o.smallest.seq \in Nat /\ o.largest.key \in Nat /\ o.largest.seq \in Nat
      /\ g.smallest.key \in Nat /\ g.smallest.seq \in Nat /\ g.largest.key \in Nat /\ g.largest.seq \in Nat
  BY <1>3, FileKeys
<1>6. CASE Before(g.largest, f.smallest)
  BY <1>4, <1>5, <1>6 DEF Before, Apart
<1>7. CASE Before(h.largest, g.smallest)
  BY <1>4, <1>5, <1>7 DEF Before, Apart
<1> QED
  BY <1>6, <1>7 DEF Beside

\* Runs one ahead of the other make files apart.
LEMMA AheadIsApart ==
    ASSUME NEW f, IsFile(f), NEW g, IsFile(g), Ahead(f.entries, g.entries)
    PROVE  Apart(f, g)
BY DEF IsFile, Ahead, Apart

-----------------------------------------------------------------------------
\* Version::PickLevelForMemTableOutput: below level 0 the file meets no other one in its
\* level or above.
LEMMA FlushLevel ==
    ASSUME NEW v, FileSet(FilesOf(v)), NEW lo \in Nat, NEW hi \in Nat
    PROVE  LET l == PickLevelForMemTableOutput(v, lo, hi)
           IN  /\ l \in Nat /\ l \in Levels
               /\ l # 0 => \A m \in 0 .. l : \A f \in v[m] : f.largest.key < lo \/ hi < f.smallest.key
<1> DEFINE Passes(m) ==
            /\ ~OverlapInLevel(v, m + 1, lo, hi)
            /\ m + 2 < NumLevels =>
                  TotalFileSize(GetOverlappingInputs(v, m + 2, lo, hi)) <= MaxGrandparent
           T == {l \in 0 .. MaxMemCompactLevel : \A m \in 0 .. l - 1 : Passes(m)}
           l == PickLevelForMemTableOutput(v, lo, hi)
<1>1. l = IF OverlapInLevel(v, 0, lo, hi) THEN 0 ELSE Max(T)
  BY DEF PickLevelForMemTableOutput
<1>2. MaxMemCompactLevel \in Nat /\ NumLevels \in Nat /\ NumLevels >= 2 /\ MaxMemCompactLevel <= NumLevels - 1
  BY VersionAssumption
<1>3. 0 \in T
  BY <1>2
<1>4. T \in SUBSET (0 .. MaxMemCompactLevel)
  OBVIOUS
<1> HIDE DEF l
<1>5. Max(T) \in T
  <2> HIDE DEF T
  <2> QED
    BY <1>2, <1>3, <1>4, FiniteInterval, LeastAndGreatest
<1>6. CASE OverlapInLevel(v, 0, lo, hi)
  BY <1>1, <1>2, <1>6 DEF Levels, l
<1>7. CASE ~OverlapInLevel(v, 0, lo, hi)
  <2>1. l = Max(T) /\ l \in T
    BY <1>1, <1>5, <1>7
  <2> HIDE DEF Passes
  <2>2. l \in 0 .. MaxMemCompactLevel /\ \A m \in 0 .. l - 1 : Passes(m)
    BY <2>1
  <2> HIDE DEF T
  <2>3. l \in Nat /\ l \in Levels
    BY <1>2, <2>2 DEF Levels
  <2>4. ASSUME NEW m \in 0 .. l, NEW f \in v[m]
        PROVE  f.largest.key < lo \/ hi < f.smallest.key
    <3>1. ~OverlapInLevel(v, m, lo, hi)
      <4>1. CASE m = 0
        BY <1>7, <4>1
      <4>2. CASE m # 0
        <5>1. m - 1 \in 0 .. l - 1 /\ (m - 1) + 1 = m
          BY <2>3, <4>2
        <5>2. Passes(m - 1)
          BY <2>2, <5>1
        <5> QED
          BY <5>1, <5>2 DEF Passes
      <4> QED
        BY <4>1, <4>2
    <3>2. m \in Nat /\ m < NumLevels
      BY <1>2, <2>2, <2>3
    <3>3. FileSet(v[m])
      BY <3>2, LevelIsFileSet
    <3> QED
      BY <3>1, <3>2, <3>3, NoOverlapInLevel
  <2> QED
    BY <2>3, <2>4 DEF l
<1> QED
  BY <1>6, <1>7

\* Version::UpdateStats: the file that is charged for a seek is not in the last level.
LEMMA ChargedFile ==
    ASSUME NEW v, FileSet(FilesOf(v)), NEW k, NEW s, NEW files \in SUBSET FilesToSearch(v, k, s)
    PROVE  /\ \A x \in FirstOfSeveral(files) : /\ x[1] \in Nat /\ x[1] + 1 < NumLevels
                                               /\ x[2] \in v[x[1]]
           /\ \A x, y \in FirstOfSeveral(files) : x = y
<1>1. ASSUME NEW x \in files
      PROVE  /\ x[1] \in Nat /\ x[1] < NumLevels /\ x[2] \in SearchedFiles(v, x[1], k, s)
             /\ x = <<x[1], x[2]>> /\ x[2] \in v[x[1]] /\ x[2].number \in Nat
  <2>1. PICK l \in Levels : \E f \in SearchedFiles(v, l, k, s) : x = <<l, f>>
    BY DEF FilesToSearch
  <2>2. PICK f \in SearchedFiles(v, l, k, s) : x = <<l, f>>
    BY <2>1
  <2>3. l \in Nat /\ l < NumLevels
    BY VersionAssumption DEF Levels
  <2>4. f \in v[l]
    BY DEF SearchedFiles, FindFile
  <2>5. FileSet(v[l])
    BY <2>3, LevelIsFileSet
  <2>6. f.number \in Nat
    BY <2>4, <2>5 DEF FileSet, IsFile
  <2> QED
    BY <2>2, <2>3, <2>4, <2>6
<1>2. ASSUME NEW l \in Nat, l < NumLevels, l # 0,
             NEW f \in SearchedFiles(v, l, k, s), NEW g \in SearchedFiles(v, l, k, s)
      PROVE  f = g
  <2>1. FileSet(v[l])
    BY <1>2, LevelIsFileSet
  <2>2. f \in FindFile(v[l], Entry(k, s, "val")) /\ g \in FindFile(v[l], Entry(k, s, "val"))
    BY <1>2 DEF SearchedFiles
  <2>3. f \in v[l] /\ g \in v[l] /\ (g = f \/ BySmallestKey(f, g)) /\ (f = g \/ BySmallestKey(g, f))
    BY <2>2 DEF FindFile
  <2> QED
    BY <2>1, <2>3, FilesAreOrdered
<1>3. \A x \in FirstOfSeveral(files) : x \in files /\ \A y \in files : y = x \/ SearchedBefore(x, y)
  BY DEF FirstOfSeveral, FirstSearched
<1>4. ASSUME NEW x \in FirstOfSeveral(files) PROVE x[1] + 1 < NumLevels
  <2>1. PICK y \in files : y # x
    BY <1>3 DEF FirstOfSeveral
  <2>2. x[1] < y[1] \/ x[1] = y[1]
    BY <1>3, <2>1 DEF SearchedBefore
  <2>3. CASE x[1] < y[1]
    BY <1>1, <1>3, <2>1, <2>3, VersionAssumption
  <2>4. CASE x[1] = y[1] /\ x[1] # 0
    <3>1. x[2] = y[2]
      BY <1>1, <1>2, <1>3, <2>1, <2>4
    <3> QED
      BY <1>1, <1>3, <2>1, <2>4, <3>1
  <2>5. CASE x[1] = 0
    BY <2>5, VersionAssumption
  <2> QED
    BY <2>2, <2>3, <2>4, <2>5
<1>5. ASSUME NEW x \in FirstOfSeveral(files), NEW y \in FirstOfSeveral(files), x # y PROVE FALSE
  <2>1. x \in files /\ y \in files /\ SearchedBefore(x, y) /\ SearchedBefore(y, x)
    BY <1>3, <1>5
  <2> QED
    BY <1>1, <2>1 DEF SearchedBefore
<1> QED
  BY <1>1, <1>3, <1>4, <1>5

\* What is written, and the entry of an operation.
Operations == [key : Keys, type : Types]
EntryRecords == [key : Keys, seq : Nat, type : Types]
IsEntry(w, e) == e.seq \in 1 .. Len(w) /\ e = Entry(w[e.seq].key, e.seq, w[e.seq].type)

\* An entry of the history has its key and its number.
LEMMA EntryIsTyped ==
    ASSUME NEW w \in Seq(Operations), NEW e, IsEntry(w, e)
    PROVE  e \in EntryRecords /\ e.key \in Keys /\ e.key \in Nat /\ e.seq \in Nat
<1>1. w[e.seq] \in Operations
  BY DEF IsEntry
<1>2. e = [key |-> w[e.seq].key, seq |-> e.seq, type |-> w[e.seq].type] /\ e.seq \in Nat
  BY DEF IsEntry, Entry
<1>3. w[e.seq].key \in Keys /\ w[e.seq].type \in Types
  BY <1>1 DEF Operations
<1>4. e.key = w[e.seq].key
  BY <1>2
<1>5. e \in EntryRecords
  BY <1>2, <1>3 DEF EntryRecords
<1> QED
  BY <1>2, <1>3, <1>4, <1>5, VersionAssumption

\* Entries of the history have different numbers.
LEMMA EntriesOfRun ==
    ASSUME NEW w \in Seq(Operations), NEW es, IsFiniteSet(es), \A e \in es : IsEntry(w, e)
    PROVE  Run(es)
<1>1. \A e \in es : e.key \in Nat /\ e.seq \in Nat
  BY EntryIsTyped
<1>2. \A a, b \in es : a.seq = b.seq => a = b
  BY DEF IsEntry
<1> QED
  BY <1>1, <1>2 DEF Run

\* A later write leaves the entries of the history what they were.
LEMMA EntriesStay ==
    ASSUME NEW w \in Seq(Operations), NEW x \in Operations, NEW e, IsEntry(w, e)
    PROVE  IsEntry(Append(w, x), e)
BY DEF IsEntry

\* A write adds its entry to the history.
LEMMA NewEntry ==
    ASSUME NEW w \in Seq(Operations), NEW k \in Keys, NEW t \in Types
    PROVE  /\ IsEntry(Append(w, [key |-> k, type |-> t]), Entry(k, Len(w) + 1, t))
           /\ Append(w, [key |-> k, type |-> t]) \in Seq(Operations)
<1> DEFINE x == [key |-> k, type |-> t]
           y == Append(w, x)
<1>1. x \in Operations /\ x.key = k /\ x.type = t
  BY DEF Operations
<1> HIDE DEF x
<1>2. /\ y \in Seq(Operations) /\ Len(y) = Len(w) + 1 /\ y[Len(w) + 1] = x /\ Len(w) \in Nat
  BY <1>1
<1> HIDE DEF y
<1>3. Entry(k, Len(w) + 1, t).seq = Len(w) + 1
  BY DEF Entry
<1>4. IsEntry(y, Entry(k, Len(w) + 1, t))
  BY <1>1, <1>2, <1>3 DEF IsEntry
<1> QED
  BY <1>2, <1>4 DEF x, y

\* New files with higher numbers make a set of files with the old ones.
LEMMA MoreFiles ==
    ASSUME NEW w \in Seq(Operations), NEW fs, FileSet(fs), \A e \in Contents(fs) : IsEntry(w, e),
           NEW gs, IsFiniteSet(gs), \A g \in gs : IsFile(g) /\ \A e \in g.entries : IsEntry(w, e),
           \A g, h \in gs : g.number = h.number => g = h,
           \A f \in fs, g \in gs : f.number < g.number
    PROVE  FileSet(fs \cup gs) /\ \A e \in Contents(fs \cup gs) : IsEntry(w, e)
<1>1. IsFiniteSet(fs \cup gs)
  BY FS_Union DEF FileSet
<1>2. \A e \in Contents(fs \cup gs) : IsEntry(w, e)
  BY DEF Contents
<1>3. \A f \in fs \cup gs : IsFile(f)
  BY DEF FileSet
<1>4. \A f, g \in fs \cup gs : f.number = g.number => f = g
  <2>1. \A f \in fs \cup gs : f.number \in Nat
    BY <1>3 DEF IsFile
  <2> QED
    BY <2>1 DEF FileSet
<1>5. \A a, b \in Contents(fs \cup gs) : a.seq = b.seq => a = b
  BY <1>2 DEF IsEntry
<1> QED
  BY <1>1, <1>2, <1>3, <1>4, <1>5 DEF FileSet

\* VersionSet::Builder.
LEMMA AppliedLevels ==
    ASSUME NEW v, NEW ds, NEW level, NEW as
    PROVE  /\ \A l \in Levels : /\ Apply(v, ds, level, as)[l] \subseteq v[l] \cup (IF l = level THEN as ELSE {})
                                /\ Apply(v, ds, level, as)[l] = (v[l] \ ds) \cup (IF l = level THEN as ELSE {})
           /\ FilesOf(Apply(v, ds, level, as)) \subseteq FilesOf(v) \cup as
<1>1. \A l \in Levels : Apply(v, ds, level, as)[l] = (v[l] \ ds) \cup (IF l = level THEN as ELSE {})
  BY DEF Apply
<1>2. \A l \in Levels : Apply(v, ds, level, as)[l] \subseteq v[l] \cup as
  BY <1>1
<1>3. FilesOf(Apply(v, ds, level, as)) \subseteq FilesOf(v) \cup as
  BY <1>2 DEF FilesOf
<1> QED
  BY <1>1, <1>3

-----------------------------------------------------------------------------
\* The inductive invariant.  First the memtables.
MemInv ==
    /\ written \in Seq(Operations)
    /\ IsFiniteSet(mem) /\ \A e \in mem : IsEntry(written, e)
    /\ imm = <<>> \/ \E m : imm = <<m>> /\ IsFiniteSet(m) /\ \A e \in m : IsEntry(written, e)

\* The files of the version and of a running compaction.
Outs == IF compaction = <<>> THEN {} ELSE compaction.outs
FilesInv ==
    /\ FileSet(FilesOf(version) \cup Outs)
    /\ \A e \in Contents(FilesOf(version) \cup Outs) : IsEntry(written, e)
    /\ nextFile \in Nat /\ \A f \in FilesOf(version) \cup Outs : f.number < nextFile

\* What compactions start from.
PointersInv ==
    /\ pointer \in [Levels -> SUBSET EntryRecords]
    /\ \A l \in Levels : \A p, q \in pointer[l] : p = q
    /\ \A x \in toCompact : x[1] \in Nat /\ x[1] + 1 < NumLevels /\ x[2] \in version[x[1]]
    /\ \A x, y \in toCompact : x = y

ManualStates ==
    [lo : Nat, hi : Nat, begin : Nat, level : Nat, top : Nat,
     pc : {"rotate", "wait", "idle", "armed", "running"}]
ManualOK == manual \in ManualStates /\ manual.level < manual.top /\ manual.top < NumLevels

\* A running compaction: where its inputs are, and what its outputs will lie next to.
Running(c) ==
    LET next == c.level + 1
    IN  /\ c.level \in Nat /\ next < NumLevels /\ c.end \in Nat /\ c.manual \in BOOLEAN
        /\ c.manual => ManualOK
        /\ ~c.manual => Solid(c.inputs)
        /\ c.inputs \subseteq version[c.level] \cup version[next]
        /\ \A o \in c.outs : IsFile(o) /\ o.entries \subseteq Contents(c.inputs)
        /\ MustNotOverlap(c.outs)
        /\ crossed \/ \A o \in c.outs, g \in version[next] \ c.inputs : Apart(g, o)

RestInv ==
    /\ snapshots \subseteq 0 .. LastSequence
    /\ split \in BOOLEAN /\ crossed \in BOOLEAN
    /\ manual = <<>> \/ ManualOK

TreeInv ==
    /\ MemInv /\ FilesInv /\ PointersInv /\ RestInv
    /\ compaction = <<>> \/ Running(compaction)
    /\ crossed \/ \A l \in 1 .. NumLevels - 1 : MustNotOverlap(version[l])

\* The invariant gives the three properties.
LEMMA TreeInvImplies == TreeInv => TreeTypeOK /\ UncrossedLevelsDisjoint /\ InputsStayCurrent
<1> SUFFICES ASSUME TreeInv PROVE TreeTypeOK /\ UncrossedLevelsDisjoint /\ InputsStayCurrent
  OBVIOUS
<1>1. Files = FilesOf(version)
  BY DEF Files, FilesOf
<1>2. TreeTypeOK
  <2>1. \A e \in mem : e.key \in Keys /\ e.seq \in 1 .. LastSequence
    BY EntryIsTyped DEF TreeInv, MemInv, IsEntry, LastSequence
  <2>2. Len(imm) <= 1
    <3>1. imm = <<>> \/ \E m : imm = <<m>>
      BY DEF TreeInv, MemInv
    <3>2. imm = <<>> => Len(imm) = 0
      OBVIOUS
    <3>3. CASE imm # <<>>
      <4>1. PICK m : imm = <<m>>
        BY <3>1, <3>3
      <4>2. Len(<<m>>) = 1
        OBVIOUS
      <4>3. Len(imm) = 1
        BY <4>1, <4>2, Zenon
      <4> QED
        BY <4>3
    <3> QED
      BY <3>2, <3>3
  <2>3. \A f \in Files : f.entries # {} /\ f.number < nextFile
    BY <1>1 DEF TreeInv, FilesInv, FileSet, IsFile
  <2>4. ASSUME NEW S, \A p, q \in S : p = q PROVE Cardinality(S) <= 1
    <3>1. CASE S = {}
      BY <3>1, FS_EmptySet
    <3>2. ASSUME NEW p \in S PROVE Cardinality(S) = 1
      <4>1. S = {p}
        BY <2>4
      <4> QED
        BY <4>1, FS_Singleton
    <3> QED
      BY <3>1, <3>2
  <2>5. \A l \in Levels : Cardinality(pointer[l]) <= 1
    BY <2>4 DEF TreeInv, PointersInv
  <2>6. Cardinality(toCompact) <= 1
    BY <2>4 DEF TreeInv, PointersInv
  <2> QED
    BY <2>1, <2>2, <2>3, <2>5, <2>6 DEF TreeTypeOK, TreeInv, PointersInv, RestInv
<1>3. UncrossedLevelsDisjoint
  BY DEF UncrossedLevelsDisjoint, LevelsDisjoint, TreeInv, MustNotOverlap, Apart
<1>4. InputsStayCurrent
  BY DEF InputsStayCurrent, TreeInv, Running
<1> QED
  BY <1>2, <1>3, <1>4

\* An empty tree satisfies it.
LEMMA TreeInitInv == TreeInit => TreeInv
<1> SUFFICES ASSUME TreeInit PROVE TreeInv
  OBVIOUS
<1>1. FilesOf(version) = {} /\ Outs = {}
  BY DEF TreeInit, FilesOf, Outs
<1>2. FileSet({}) /\ Contents({}) = {}
  BY FS_EmptySet DEF FileSet, Contents
<1>3. MemInv
  BY FS_EmptySet DEF TreeInit, MemInv
<1>4. FilesInv
  BY <1>1, <1>2 DEF FilesInv, TreeInit
<1>5. PointersInv
  BY DEF TreeInit, PointersInv
<1>6. RestInv
  BY DEF TreeInit, RestInv
<1>7. \A l \in 1 .. NumLevels - 1 : MustNotOverlap(version[l])
  BY VersionAssumption DEF TreeInit, MustNotOverlap, Levels
<1> QED
  BY <1>3, <1>4, <1>5, <1>6, <1>7 DEF TreeInv, TreeInit

\* The CompactRange call under way changes its state.
LEMMA ManualMoves ==
    ASSUME NEW m \in ManualStates, NEW x \in {"rotate", "wait", "idle", "armed", "running"}
    PROVE  /\ [m EXCEPT !.pc = x] \in ManualStates
           /\ [m EXCEPT !.pc = x].level = m.level /\ [m EXCEPT !.pc = x].top = m.top
BY DEF ManualStates

\* Steps that leave the files alone.
LEMMA SameFiles ==
    ASSUME TreeInv, UNCHANGED <<version, compaction, nextFile, crossed>>,
           \A e : IsEntry(written, e) => IsEntry(written', e), ManualOK => ManualOK'
    PROVE  /\ FilesInv'
           /\ (compaction = <<>> \/ Running(compaction))'
           /\ (crossed \/ \A l \in 1 .. NumLevels - 1 : MustNotOverlap(version[l]))'
<1>1. Outs' = Outs
  BY DEF Outs
<1>2. FilesInv'
  BY <1>1 DEF TreeInv, FilesInv
<1>3. (compaction = <<>> \/ Running(compaction))'
  BY DEF TreeInv, Running
<1>4. (crossed \/ \A l \in 1 .. NumLevels - 1 : MustNotOverlap(version[l]))'
  BY DEF TreeInv
<1> QED
  BY <1>2, <1>3, <1>4

\* Steps that leave the files and pointers alone.
LEMMA SamePointers ==
    ASSUME PointersInv, UNCHANGED <<version, pointer, toCompact>>
    PROVE  PointersInv'
BY DEF PointersInv

\* Steps that leave the memtables alone.
LEMMA SameMemory ==
    ASSUME MemInv, UNCHANGED <<mem, imm, written>>
    PROVE  MemInv' /\ LastSequence' = LastSequence
BY DEF MemInv, LastSequence

\* A write goes into the memtable; it may hand the full one over.
LEMMA WriteKeeps ==
    ASSUME TreeInv, NEW k \in Keys, NEW t \in Types, Write(k, t)
    PROVE  TreeInv'
<1> DEFINE e == Entry(k, LastSequence + 1, t)
           x == [key |-> k, type |-> t]
<1>1. written \in Seq(Operations) /\ written' = Append(written, x)
  BY DEF TreeInv, MemInv, Write
<1>2. x \in Operations
  BY DEF Operations
<1>3. IsEntry(written', e) /\ written' \in Seq(Operations)
  BY <1>1, NewEntry DEF LastSequence
<1> HIDE DEF x, e
<1>4. \A o : IsEntry(written, o) => IsEntry(written', o)
  BY <1>1, <1>2, EntriesStay
<1>5. \/ mem' = mem \cup {e} /\ imm' = imm
      \/ mem' = {e} /\ imm' = <<mem>>
  BY DEF Write, e
<1>6. MemInv'
  <2>1. IsFiniteSet(mem) /\ \A o \in mem : IsEntry(written, o)
    BY DEF TreeInv, MemInv
  <2>2. IsFiniteSet({e}) /\ IsFiniteSet(mem \cup {e})
    BY <2>1, FS_Singleton, FS_Union
  <2>3. IsFiniteSet(mem') /\ \A o \in mem' : IsEntry(written', o)
    BY <1>3, <1>4, <1>5, <2>1, <2>2
  <2>4. imm' = <<>> \/ \E m : imm' = <<m>> /\ IsFiniteSet(m) /\ \A o \in m : IsEntry(written', o)
    <3>1. CASE imm' = imm
      BY <1>4, <3>1 DEF TreeInv, MemInv
    <3>2. CASE imm' = <<mem>>
      BY <1>4, <2>1, <3>2
    <3> QED
      BY <1>5, <3>1, <3>2
  <2> QED
    BY <1>3, <2>3, <2>4 DEF MemInv
<1>7. ManualOK => ManualOK'
  <2>1. manual' = manual \/ manual' = [manual EXCEPT !.pc = "wait"]
    BY DEF Write
  <2> QED
    BY <2>1, ManualMoves DEF ManualOK
<1>8. RestInv'
  <2>1. snapshots' \subseteq 0 .. LastSequence'
    <3>1. LastSequence \in Nat /\ LastSequence' = LastSequence + 1
      BY <1>1, <1>2 DEF LastSequence
    <3>2. snapshots' = snapshots /\ snapshots \subseteq 0 .. LastSequence
      BY DEF Write, TreeInv, RestInv
    <3> HIDE DEF LastSequence
    <3> QED
      BY <3>1, <3>2
  <2>2. split' \in BOOLEAN /\ crossed' \in BOOLEAN
    BY DEF Write, TreeInv, RestInv
  <2>3. manual' = <<>> \/ ManualOK'
    <3>1. CASE manual = <<>>
      BY <3>1 DEF Write
    <3>2. CASE ManualOK
      BY <1>7, <3>2
    <3> QED
      BY <3>1, <3>2 DEF TreeInv, RestInv
  <2> QED
    BY <2>1, <2>2, <2>3 DEF RestInv
<1>9. PointersInv'
  BY SamePointers DEF Write, TreeInv
<1>10. UNCHANGED <<version, compaction, nextFile, crossed>>
  BY DEF Write
<1> QED
  BY <1>4, <1>6, <1>7, <1>8, <1>9, <1>10, SameFiles DEF TreeInv

\* Snapshots are numbers of the history.
LEMMA SnapshotKeeps ==
    ASSUME TreeInv, GetSnapshot \/ \E s \in snapshots : ReleaseSnapshot(s)
    PROVE  TreeInv'
<1>1. UNCHANGED <<mem, imm, version, pointer, toCompact, nextFile, compaction, manual,
                  written, split, crossed, calls>>
  BY DEF GetSnapshot, ReleaseSnapshot
<1>2. snapshots' \subseteq snapshots \cup {LastSequence}
  BY DEF GetSnapshot, ReleaseSnapshot
<1>3. MemInv' /\ LastSequence' = LastSequence
  BY <1>1, SameMemory DEF TreeInv
<1>4. RestInv'
  <2>1. LastSequence \in Nat
    BY DEF TreeInv, MemInv, LastSequence
  <2>2. snapshots \subseteq 0 .. LastSequence
    BY DEF TreeInv, RestInv
  <2>3. snapshots' \subseteq 0 .. LastSequence'
    BY <1>2, <1>3, <2>1, <2>2
  <2>4. ManualOK' <=> ManualOK
    BY <1>1 DEF ManualOK
  <2> QED
    BY <1>1, <2>3, <2>4 DEF TreeInv, RestInv
<1>5. PointersInv'
  BY <1>1, SamePointers DEF TreeInv
<1>6. ManualOK => ManualOK'
  BY <1>1 DEF ManualOK
<1> QED
  BY <1>1, <1>3, <1>4, <1>5, <1>6, SameFiles DEF TreeInv

\* A Get or a read sample charges a file.
LEMMA StatsKeep ==
    ASSUME TreeInv, NEW k, NEW s, NEW files \in SUBSET FilesToSearch(version, k, s),
           UpdateStats(FirstOfSeveral(files))
    PROVE  TreeInv'
<1>1. UNCHANGED <<mem, imm, version, pointer, nextFile, snapshots, compaction, manual,
                  written, split, crossed, calls>>
  BY DEF UpdateStats
<1>2. FileSet(FilesOf(version))
  BY FileSubset DEF TreeInv, FilesInv
<1>3. toCompact' = FirstOfSeveral(files)
  BY DEF UpdateStats
<1>4. /\ \A x \in toCompact' : x[1] \in Nat /\ x[1] + 1 < NumLevels /\ x[2] \in version[x[1]]
      /\ \A x, y \in toCompact' : x = y
  BY <1>2, <1>3, ChargedFile
<1>5. PointersInv'
  BY <1>1, <1>4 DEF TreeInv, PointersInv
<1>6. MemInv' /\ LastSequence' = LastSequence
  BY <1>1, SameMemory DEF TreeInv
<1>7. (ManualOK => ManualOK') /\ RestInv'
  BY <1>1, <1>6 DEF TreeInv, RestInv, ManualOK
<1> QED
  BY <1>1, <1>5, <1>6, <1>7, SameFiles DEF TreeInv

\* A Get or a sample that uses up the seeks of a file.
LEMMA ReadKeeps ==
    ASSUME TreeInv,
           \/ \E k \in Keys : \E s \in snapshots \cup {LastSequence} : GetCharges(k, s)
           \/ \E l \in Levels : \E f \in version[l] : \E e \in f.entries : RecordReadSample(e)
    PROVE  TreeInv'
<1>1. ASSUME NEW k, NEW s, GetCharges(k, s) PROVE TreeInv'
  <2>1. FilesRead(version, k, s) \in SUBSET FilesToSearch(version, k, s)
    BY DEF FilesRead
  <2>2. UpdateStats(FirstOfSeveral(FilesRead(version, k, s)))
    BY <1>1 DEF GetCharges, SeekFile
  <2> QED
    BY <2>1, <2>2, StatsKeep
<1>2. ASSUME NEW e, RecordReadSample(e) PROVE TreeInv'
  <2>1. UpdateStats(FirstOfSeveral(FilesToSearch(version, e.key, e.seq)))
    BY <1>2 DEF RecordReadSample, SampleFile
  <2> QED
    BY <2>1, StatsKeep
<1> QED
  BY <1>1, <1>2

\* CompactRange up to the first compaction.
LEMMA CallKeeps ==
    ASSUME TreeInv, NEW r \in Ranges, CallCompactRange(r)
    PROVE  TreeInv'
<1> DEFINE T == {1} \cup {l \in 1 .. NumLevels - 1 : OverlapInLevel(version, l, Min(r), Max(r))}
<1>1. UNCHANGED <<mem, imm, version, pointer, toCompact, nextFile, snapshots, compaction,
                  written, split, crossed>>
  BY DEF CallCompactRange
<1>2. Min(r) \in Nat /\ Max(r) \in Nat
  <2>1. r \in SUBSET Nat /\ r # {} /\ IsFiniteSet(r) /\ r \subseteq Nat
    BY TreeAssumption, VersionAssumption
  <2> QED
    BY <2>1, LeastAndGreatest
<1>3. Max(T) \in Nat /\ 0 < Max(T) /\ Max(T) < NumLevels
  <2>1. NumLevels - 1 \in Nat /\ T \in SUBSET (0 .. NumLevels - 1) /\ T # {} /\ 0 \notin T
    BY VersionAssumption
  <2> HIDE DEF T
  <2>2. Max(T) \in T
    BY <2>1, FiniteInterval, LeastAndGreatest
  <2>3. Max(T) \in 0 .. NumLevels - 1 /\ Max(T) # 0
    BY <2>1, <2>2
  <2> QED
    BY <2>3, VersionAssumption
<1>4. manual' = [lo |-> Min(r), hi |-> Max(r), begin |-> Min(r), level |-> 0, pc |-> "rotate",
                 top |-> Max(T)]
  BY DEF CallCompactRange
<1> HIDE DEF T
<1>5. ManualOK'
  <2>1. manual' \in ManualStates
    BY <1>2, <1>3, <1>4 DEF ManualStates
  <2>2. manual'.level = 0 /\ manual'.top = Max(T)
    BY <1>4
  <2> QED
    BY <1>3, <2>1, <2>2 DEF ManualOK
<1>6. MemInv' /\ LastSequence' = LastSequence
  BY <1>1, SameMemory DEF TreeInv
<1>7. RestInv'
  BY <1>1, <1>5, <1>6 DEF TreeInv, RestInv
<1>8. PointersInv'
  BY <1>1, SamePointers DEF TreeInv
<1> QED
  BY <1>1, <1>5, <1>6, <1>7, <1>8, SameFiles DEF TreeInv

\* The steps in which CompactRange waits for the background thread.
LEMMA ManualWaitsKeep ==
    ASSUME TreeInv, ForceMemTable \/ MemTableForced \/ ArmManual
    PROVE  TreeInv'
<1>1. /\ UNCHANGED <<version, pointer, toCompact, nextFile, snapshots, compaction,
                     written, split, crossed>>
      /\ manual # <<>>
      /\ \E x \in {"wait", "idle", "armed"} : manual' = [manual EXCEPT !.pc = x]
  BY DEF ForceMemTable, MemTableForced, ArmManual
<1>2. (mem' = mem /\ imm' = imm) \/ (mem' = {} /\ imm' = <<mem>>)
  BY DEF ForceMemTable, MemTableForced, ArmManual
<1>3. MemInv'
  BY <1>1, <1>2, FS_EmptySet DEF TreeInv, MemInv
<1>4. ManualOK'
  <2>1. ManualOK
    BY <1>1 DEF TreeInv, RestInv
  <2>2. PICK x \in {"wait", "idle", "armed"} : manual' = [manual EXCEPT !.pc = x]
    BY <1>1
  <2> QED
    BY <2>1, <2>2, ManualMoves DEF ManualOK
<1>5. RestInv'
  BY <1>1, <1>4 DEF TreeInv, RestInv, LastSequence
<1>6. PointersInv'
  BY <1>1, SamePointers DEF TreeInv
<1> QED
  BY <1>1, <1>3, <1>4, <1>5, <1>6, SameFiles DEF TreeInv

\* What the invariant says of the files of the version.
LEMMA VersionFiles ==
    ASSUME TreeInv
    PROVE  /\ FileSet(FilesOf(version))
           /\ \A e \in Contents(FilesOf(version)) : IsEntry(written, e)
           /\ \A l \in Levels : version[l] \subseteq FilesOf(version)
<1>1. FilesOf(version) \subseteq FilesOf(version) \cup Outs
  OBVIOUS
<1>2. Contents(FilesOf(version)) \subseteq Contents(FilesOf(version) \cup Outs)
  BY DEF Contents
<1>3. \A l \in Levels : version[l] \subseteq FilesOf(version)
  BY DEF FilesOf
<1> QED
  BY <1>1, <1>2, <1>3, FileSubset DEF TreeInv, FilesInv

\* Fewer files.
LEMMA FewerFiles ==
    ASSUME TreeInv, nextFile' = nextFile, written' = written,
           (FilesOf(version) \cup Outs)' \subseteq FilesOf(version) \cup Outs
    PROVE  FilesInv'
<1> DEFINE fs == FilesOf(version) \cup Outs
           gs == (FilesOf(version) \cup Outs)'
<1>1. FileSet(fs) /\ (\A e \in Contents(fs) : IsEntry(written, e)) /\ nextFile \in Nat
      /\ \A f \in fs : f.number < nextFile
  BY DEF TreeInv, FilesInv
<1>2. gs \subseteq fs
  OBVIOUS
<1> HIDE DEF fs, gs
<1>3. FileSet(gs) /\ Contents(gs) \subseteq Contents(fs)
  BY <1>1, <1>2, FileSubset DEF Contents
<1>4. (\A e \in Contents(gs) : IsEntry(written', e)) /\ nextFile' \in Nat
      /\ \A f \in gs : f.number < nextFile'
  BY <1>1, <1>2, <1>3
<1> QED
  BY <1>3, <1>4 DEF FilesInv, gs

\* The table of a flushed memtable.
LEMMA FlushedFile ==
    ASSUME TreeInv, NEW m, m # {}, IsFiniteSet(m), \A e \in m : IsEntry(written, e)
    PROVE  LET f == FileMetaData(nextFile, m)
               level == PickLevelForMemTableOutput(version, f.smallest.key, f.largest.key)
           IN  /\ IsFile(f) /\ f.entries = m /\ f.number = nextFile
               /\ level \in Nat /\ level \in Levels
               /\ level # 0 => \A n \in 0 .. level : \A g \in version[n] :
                      g.largest.key < f.smallest.key \/ f.largest.key < g.smallest.key
<1> DEFINE f == FileMetaData(nextFile, m)
<1>1. Run(m) /\ nextFile \in Nat
  BY EntriesOfRun DEF TreeInv, MemInv, FilesInv
<1>2. IsFile(f) /\ f.number = nextFile /\ f.entries = m
  BY <1>1, MetaDataOfFile
<1> HIDE DEF f
<1>3. f.smallest.key \in Nat /\ f.largest.key \in Nat
  BY <1>2, FileKeys
<1> DEFINE level == PickLevelForMemTableOutput(version, f.smallest.key, f.largest.key)
<1>4. /\ level \in Nat /\ level \in Levels
      /\ level # 0 => \A n \in 0 .. level : \A g \in version[n] :
             g.largest.key < f.smallest.key \/ f.largest.key < g.smallest.key
  BY <1>3, VersionFiles, FlushLevel
<1> QED
  BY <1>2, <1>4 DEF f

\* Flushing the memtable.  During a compaction that leaves no gap between its inputs the
\* new file lies beside them and so beside its output.
LEMMA FlushKeeps ==
    ASSUME TreeInv, NEW f, NEW level \in Levels, IsFile(f), level \in Nat,
           f.number = nextFile, \A e \in f.entries : IsEntry(written, e),
           level # 0 => \A n \in 0 .. level : \A g \in version[n] :
               g.largest.key < f.smallest.key \/ f.largest.key < g.smallest.key,
           version' = Apply(version, {}, level, {f}), nextFile' = nextFile + 1,
           crossed' = (crossed \/ Crosses(f, level)),
           UNCHANGED <<compaction, manual, written>>
    PROVE  /\ FilesInv'
           /\ (compaction = <<>> \/ Running(compaction))'
           /\ (crossed \/ \A l \in 1 .. NumLevels - 1 : MustNotOverlap(version[l]))'
<1>1. /\ \A l \in Levels : version'[l] = version[l] \cup (IF l = level THEN {f} ELSE {})
      /\ FilesOf(version') \subseteq FilesOf(version) \cup {f}
  BY AppliedLevels
<1>2. FilesInv'
  <2> DEFINE fs == FilesOf(version) \cup Outs
             gs == FilesOf(version') \cup Outs
  <2>1. FileSet(fs) /\ (\A e \in Contents(fs) : IsEntry(written, e)) /\ nextFile \in Nat
        /\ \A g \in fs : g.number < nextFile
    BY DEF TreeInv, FilesInv
  <2>2. gs \subseteq fs \cup {f} /\ Outs' = Outs
    BY <1>1 DEF Outs
  <2> HIDE DEF fs, gs
  <2>3. FileSet(fs \cup {f}) /\ \A e \in Contents(fs \cup {f}) : IsEntry(written, e)
    <3>1. written \in Seq(Operations) /\ IsFiniteSet({f})
      BY FS_Singleton DEF TreeInv, MemInv
    <3> QED
      BY <2>1, <3>1, MoreFiles
  <2>4. FileSet(gs) /\ Contents(gs) \subseteq Contents(fs \cup {f})
    BY <2>2, <2>3, FileSubset DEF Contents
  <2>5. \A g \in fs : g.number \in Nat
    BY <2>1 DEF FileSet, IsFile
  <2>6. nextFile' \in Nat /\ \A g \in gs : g.number < nextFile'
    BY <2>1, <2>2, <2>5
  <2> QED
    BY <2>2, <2>3, <2>4, <2>6 DEF FilesInv, gs
<1>3. ASSUME NEW n \in 0 .. level, level # 0, NEW g \in version[n]
      PROVE  Apart(f, g) /\ (g.largest.key < f.smallest.key \/ f.largest.key < g.smallest.key)
  <2>1. g.largest.key < f.smallest.key \/ f.largest.key < g.smallest.key
    BY <1>3
  <2> QED
    BY <2>1 DEF Apart, Before
<1>4. (crossed \/ \A l \in 1 .. NumLevels - 1 : MustNotOverlap(version[l]))'
  <2> SUFFICES ASSUME ~crossed, NEW l \in 1 .. NumLevels - 1
               PROVE  MustNotOverlap(version'[l])
    OBVIOUS
  <2>1. MustNotOverlap(version[l]) /\ l \in Levels /\ l # 0
    BY VersionAssumption DEF TreeInv, Levels
  <2>2. CASE l # level
    BY <1>1, <2>1, <2>2
  <2>3. CASE l = level
    <3>1. version'[l] = version[l] \cup {f}
      BY <1>1, <2>1, <2>3
    <3>2. \A g \in version[l] : Apart(f, g)
      <4>1. l \in 0 .. level /\ level # 0
        BY <2>1, <2>3
      <4> QED
        BY <1>3, <4>1
    <3> QED
      BY <2>1, <3>1, <3>2 DEF MustNotOverlap, Apart
  <2> QED
    BY <2>2, <2>3
<1>5. (compaction = <<>> \/ Running(compaction))'
  <2> SUFFICES ASSUME compaction # <<>> PROVE Running(compaction)'
    OBVIOUS
  <2> DEFINE c == compaction
             next == c.level + 1
  <2>1. Running(compaction)
    BY DEF TreeInv
  <2>2. next \in Nat /\ next # 0 /\ next \in Levels /\ c.level \in Levels /\ c.level \in Nat
    BY <2>1, VersionAssumption DEF Running, Levels
  <2>3. c.inputs \subseteq version'[c.level] \cup version'[next]
    BY <1>1, <2>1, <2>2 DEF Running
  <2>4. crossed' \/ \A o \in c.outs, g \in version'[next] \ c.inputs : Apart(g, o)
    <3> SUFFICES ASSUME ~crossed', NEW o \in c.outs, NEW g \in version'[next] \ c.inputs
                 PROVE  Apart(g, o)
      OBVIOUS
    <3>1. ~crossed /\ ~Crosses(f, level)
      OBVIOUS
    <3>2. CASE g \in version[next]
      BY <2>1, <3>1, <3>2 DEF Running
    <3>3. CASE g \notin version[next]
      <4>0. version'[next] = version[next] \cup (IF next = level THEN {f} ELSE {})
        BY <1>1, <2>2
      <4>1. g = f /\ level = next
        <5> HIDE DEF c, next
        <5> QED
          BY <3>3, <4>0
      <4>2. CASE c.manual
        BY <3>1, <4>1, <4>2 DEF Crosses, Apart
      <4>3. CASE ~c.manual
        <5>1. FileSet(c.inputs) /\ Solid(c.inputs)
          <6>1. c.inputs \subseteq FilesOf(version)
            BY <2>1, <2>2, VersionFiles DEF Running
          <6> QED
            BY <2>1, <4>3, <6>1, VersionFiles, FileSubset DEF Running
        <5>2. \A h \in c.inputs : h.largest.key < f.smallest.key \/ f.largest.key < h.smallest.key
          <6>1. c.level \in 0 .. level /\ next \in 0 .. level /\ level # 0
            BY <2>2, <4>1
          <6>2. \A h \in c.inputs : h \in version[c.level] \/ h \in version[next]
            BY <2>1 DEF Running
          <6> QED
            BY <1>3, <6>1, <6>2
        <5>3. Beside(f, c.inputs)
          BY <5>1, <5>2, FlushedBeside
        <5>4. IsFile(o) /\ o.entries \subseteq Contents(c.inputs)
          BY <2>1 DEF Running
        <5> QED
          BY <4>1, <5>1, <5>3, <5>4, BesideOutput
      <4> QED
        BY <4>2, <4>3
    <3> QED
      BY <3>2, <3>3
  <2>5. ManualOK' <=> ManualOK
    BY DEF ManualOK
  <2> QED
    BY <2>1, <2>3, <2>4, <2>5 DEF Running
<1> QED
  BY <1>2, <1>4, <1>5

\* A flush puts its file beside what the running compaction will write.
LEMMA CompactMemTableKeeps == TreeInv /\ CompactMemTable => TreeInv'
<1> SUFFICES ASSUME TreeInv, CompactMemTable PROVE TreeInv'
  OBVIOUS
<1>1. UNCHANGED <<mem, pointer, snapshots, compaction, manual, written, split, calls>>
      /\ imm' = <<>> /\ toCompact' = {}
  BY DEF CompactMemTable
<1>2. PICK m : imm = <<m>> /\ IsFiniteSet(m) /\ \A e \in m : IsEntry(written, e)
  BY DEF CompactMemTable, TreeInv, MemInv
<1>3. imm[1] = m
  BY <1>2
<1>4. /\ FilesInv'
      /\ (compaction = <<>> \/ Running(compaction))'
      /\ (crossed \/ \A l \in 1 .. NumLevels - 1 : MustNotOverlap(version[l]))'
      /\ crossed' \in BOOLEAN
  <2>1. CASE m = {}
    <3>1. UNCHANGED <<version, nextFile, crossed>>
      BY <1>3, <2>1 DEF CompactMemTable
    <3>2. ManualOK => ManualOK'
      BY <1>1 DEF ManualOK
    <3>3. crossed' \in BOOLEAN
      BY <3>1 DEF TreeInv, RestInv
    <3> QED
      BY <1>1, <3>1, <3>2, <3>3, SameFiles
  <2>2. CASE m # {}
    <3> DEFINE f == FileMetaData(nextFile, m)
               level == PickLevelForMemTableOutput(version, f.smallest.key, f.largest.key)
    <3>1. /\ version' = Apply(version, {}, level, {f})
          /\ nextFile' = nextFile + 1
          /\ crossed' = (crossed \/ Crosses(f, level))
      BY <1>3, <2>2 DEF CompactMemTable
    <3>2. /\ IsFile(f) /\ f.entries = m /\ f.number = nextFile
          /\ level \in Nat /\ level \in Levels
          /\ level # 0 => \A n \in 0 .. level : \A g \in version[n] :
                 g.largest.key < f.smallest.key \/ f.largest.key < g.smallest.key
      BY <1>2, <2>2, FlushedFile
    <3>3. crossed' \in BOOLEAN
      BY <3>1
    <3> HIDE DEF f, level
    <3> QED
      BY <1>1, <1>2, <3>1, <3>2, <3>3, FlushKeeps
  <2> QED
    BY <2>1, <2>2
<1>5. MemInv'
  BY <1>1 DEF TreeInv, MemInv
<1>6. PointersInv'
  BY <1>1 DEF TreeInv, PointersInv
<1>7. RestInv'
  BY <1>1, <1>4 DEF TreeInv, RestInv, LastSequence, ManualOK
<1> QED
  BY <1>4, <1>5, <1>6, <1>7 DEF TreeInv

\* What a compaction takes, of a version that satisfies the invariant.
LEMMA ChosenFiles ==
    ASSUME TreeInv, NEW c, Chosen(c, version)
    PROVE  /\ c.level \in Levels /\ c.level + 1 \in Levels /\ c.level + 1 # 0
           /\ c.in0 \cup c.in1 \subseteq version[c.level] \cup version[c.level + 1]
           /\ c.in0 \cup c.in1 \subseteq FilesOf(version)
           /\ FileSet(c.in0 \cup c.in1) /\ FileSet(c.in0)
           /\ c.pointer \in EntryRecords
<1>1. c.level \in Levels /\ c.level + 1 \in Levels /\ c.level + 1 # 0
  BY VersionAssumption DEF Chosen, Levels
<1>2. c.in0 \cup c.in1 \subseteq version[c.level] \cup version[c.level + 1]
  BY DEF Chosen
<1>3. c.in0 \cup c.in1 \subseteq FilesOf(version) /\ c.in0 \subseteq FilesOf(version)
  BY <1>1, <1>2, VersionFiles
<1>4. FileSet(c.in0 \cup c.in1) /\ FileSet(c.in0)
  BY <1>3, VersionFiles, FileSubset
<1>5. PICK f \in c.in0 : c.pointer = f.largest
  BY DEF Chosen
<1>6. IsEntry(written, f.largest)
  <2>1. f \in FilesOf(version) /\ IsFile(f)
    BY <1>3, <1>4 DEF FileSet
  <2>2. f.largest \in Contents(FilesOf(version))
    BY <2>1 DEF IsFile, Contents
  <2> QED
    BY <2>2, VersionFiles
<1>7. c.pointer \in EntryRecords
  BY <1>5, <1>6, EntryIsTyped DEF TreeInv, MemInv
<1> QED
  BY <1>1, <1>2, <1>3, <1>4, <1>7

\* A compaction moves the pointer of its level.
LEMMA PointerMoves ==
    ASSUME TreeInv, NEW c, Chosen(c, version), pointer' = [pointer EXCEPT ![c.level] = {c.pointer}]
    PROVE  /\ pointer' \in [Levels -> SUBSET EntryRecords]
           /\ \A l \in Levels : \A p, q \in pointer'[l] : p = q
<1>1. c.level \in Levels /\ {c.pointer} \in SUBSET EntryRecords
  BY ChosenFiles
<1>2. pointer \in [Levels -> SUBSET EntryRecords] /\ \A l \in Levels : \A p, q \in pointer[l] : p = q
  BY DEF TreeInv, PointersInv
<1> QED
  BY <1>1, <1>2

\* Automatic compactions leave no gap.
LEMMA PickedLeavesNoGap ==
    ASSUME TreeInv, NeedsCompaction
    PROVE  Chosen(Picked, version) /\ Solid(Picked.in0 \cup Picked.in1)
<1>1. FileSet(FilesOf(version))
  BY VersionFiles
<1> DEFINE x == ToCompact
<1>2. /\ x.level \in Nat /\ x.level + 1 < NumLevels
      /\ \E f \in version[x.level] : x.file = {f}
  <2>1. CASE Finalize(version).full
    <3>1. x = PickBySize(version, pointer)
      BY <2>1 DEF ToCompact
    <3> QED
      BY <1>1, <2>1, <3>1, PickedBySize
  <2>2. CASE ~Finalize(version).full
    <3> DEFINE seek == CHOOSE y \in toCompact : TRUE
    <3>1. seek \in toCompact
      BY <2>2 DEF NeedsCompaction
    <3>2. x = [level |-> seek[1], file |-> {seek[2]}]
      BY <2>2 DEF ToCompact
    <3> HIDE DEF seek, x
    <3>3. x.level = seek[1] /\ x.file = {seek[2]}
      BY <3>2
    <3> QED
      BY <3>1, <3>3 DEF TreeInv, PointersInv
  <2> QED
    BY <2>1, <2>2
<1> HIDE DEF x
<1>3. PICK f \in version[x.level] : x.file = {f}
  BY <1>2
<1>4. Chosen(PickCompaction(version, x), version)
      /\ Solid(PickCompaction(version, x).in0 \cup PickCompaction(version, x).in1)
  BY <1>1, <1>2, <1>3, PickedCompaction
<1> QED
  BY <1>4 DEF Picked, x

\* A file that is moved a level down overlaps none there.
LEMMA TrivialMoveKeeps == TreeInv /\ TrivialMove => TreeInv'
<1> SUFFICES ASSUME TreeInv, TrivialMove PROVE TreeInv'
  OBVIOUS
<1>1. /\ UNCHANGED <<mem, imm, nextFile, snapshots, compaction, manual, written, split, crossed, calls>>
      /\ toCompact' = {} /\ compaction = <<>> /\ NeedsCompaction
  BY DEF TrivialMove, Idle
<1>2. PICK c : /\ c = Picked /\ IsTrivialMove(c)
               /\ version' = Apply(version, c.in0, c.level + 1, c.in0)
               /\ pointer' = [pointer EXCEPT ![c.level] = {c.pointer}]
  BY DEF TrivialMove
<1>3. Chosen(c, version)
  BY <1>1, <1>2, PickedLeavesNoGap
<1>4. /\ c.level \in Levels /\ c.level + 1 \in Levels /\ c.level + 1 # 0
      /\ c.in0 \subseteq FilesOf(version) /\ FileSet(c.in0)
  BY <1>3, ChosenFiles
<1>5. PICK f : c.in0 = {f}
  BY <1>2, <1>4, FS_Singleton DEF IsTrivialMove, FileSet
<1>6. /\ \A l \in Levels : version'[l] = (version[l] \ {f}) \cup (IF l = c.level + 1 THEN {f} ELSE {})
      /\ FilesOf(version') \subseteq FilesOf(version)
  BY <1>2, <1>4, <1>5, AppliedLevels
<1>7. \A g \in version[c.level + 1] : Apart(f, g)
  <2> DEFINE lo == RangeOf(c.in0).smallest.key
             hi == RangeOf(c.in0).largest.key
  <2> TAKE g \in version[c.level + 1]
  <2>1. c.in1 = {}
    BY <1>2 DEF IsTrivialMove
  <2>2. ~Meets(g, lo, hi)
    BY <1>3, <2>1 DEF Chosen
  <2>3. f.smallest.key = lo /\ f.largest.key = hi
    BY <1>4, <1>5, EndsOfRange
  <2>4. FileSet(version[c.level + 1]) /\ IsFile(g) /\ IsFile(f)
    BY <1>4, <1>5, VersionFiles, FileSubset DEF FileSet
  <2>5. /\ g.smallest.key \in Nat /\ g.largest.key \in Nat
        /\ f.smallest.key \in Nat /\ f.largest.key \in Nat
    BY <2>4, FileKeys
  <2> HIDE DEF lo, hi
  <2> QED
    BY <2>2, <2>3, <2>5 DEF Meets, Apart, Before
<1>8. ASSUME ~crossed, NEW l \in 1 .. NumLevels - 1 PROVE MustNotOverlap(version'[l])
  <2>1. l \in Levels /\ MustNotOverlap(version[l])
    BY <1>8, VersionAssumption DEF TreeInv, Levels
  <2>2. CASE l # c.level + 1
    BY <1>6, <2>1, <2>2 DEF MustNotOverlap
  <2>3. CASE l = c.level + 1
    <3>1. version'[l] = (version[l] \ {f}) \cup {f}
      BY <1>6, <2>1, <2>3
    <3>2. \A g \in version[l] : Apart(f, g)
      BY <1>7, <2>3
    <3> QED
      BY <2>1, <3>1, <3>2 DEF MustNotOverlap, Apart
  <2> QED
    BY <2>2, <2>3
<1>9. FilesInv'
  <2>1. Outs' = {} /\ Outs = {}
    BY <1>1 DEF Outs
  <2> QED
    BY <1>1, <1>6, <2>1, FewerFiles
<1>10. PointersInv'
  BY <1>1, <1>2, <1>3, PointerMoves DEF PointersInv
<1>11. MemInv' /\ LastSequence' = LastSequence
  BY <1>1, SameMemory DEF TreeInv
<1>12. RestInv'
  BY <1>1, <1>11 DEF TreeInv, RestInv, ManualOK
<1> QED
  BY <1>1, <1>8, <1>9, <1>10, <1>11, <1>12 DEF TreeInv

\* What a compaction makes of its inputs: runs in order, and the files they are written to.
OutputRuns(outs, fs) ==
    /\ outs \in Seq(SUBSET Contents(fs))
    /\ \A i \in DOMAIN outs : outs[i] # {}
    /\ \A i, j \in DOMAIN outs : i < j => Ahead(outs[i], outs[j])
WrittenFiles(n, outs) == {FileMetaData(n + i - 1, outs[i]) : i \in DOMAIN outs}

\* The files of sorted runs are numbered in a row and do not overlap.
LEMMA OutputFiles ==
    ASSUME NEW fs, FileSet(fs), NEW outs, OutputRuns(outs, fs), NEW n \in Nat
    PROVE  /\ IsFiniteSet(WrittenFiles(n, outs))
           /\ \A g \in WrittenFiles(n, outs) :
                  /\ IsFile(g) /\ g.entries \subseteq Contents(fs)
                  /\ g.number >= n /\ g.number < n + Len(outs)
           /\ \A g, h \in WrittenFiles(n, outs) : g.number = h.number => g = h
           /\ MustNotOverlap(WrittenFiles(n, outs))
<1>0. /\ outs \in Seq(SUBSET Contents(fs))
      /\ \A i \in DOMAIN outs : outs[i] # {}
      /\ \A i, j \in DOMAIN outs : i < j => Ahead(outs[i], outs[j])
  BY DEF OutputRuns
<1> DEFINE D == DOMAIN outs
           file(i) == FileMetaData(n + i - 1, outs[i])
           gs == {file(i) : i \in D}
<1>1. D = 1 .. Len(outs) /\ Len(outs) \in Nat /\ \A i \in D : i \in Nat /\ outs[i] \in SUBSET Contents(fs)
  BY <1>0
<1>2. IsFiniteSet(gs)
  <2> DEFINE F == [i \in D |-> file(i)]
  <2>1. F \in Surjection(D, gs)
    <3> HIDE DEF file, D
    <3> QED
      BY DEF Surjection
  <2>2. IsFiniteSet(D)
    BY <1>1, FS_Interval
  <2> HIDE DEF F, gs, D
  <2> QED
    BY <2>1, <2>2, FS_Surjection
<1>3. ASSUME NEW i \in D
      PROVE  IsFile(file(i)) /\ file(i).number = n + i - 1 /\ file(i).entries = outs[i]
  <2>1. Run(outs[i]) /\ outs[i] # {}
    BY <1>0, <1>1, SizesAreNumbers, RunSubset
  <2>2. n + i - 1 \in Nat
    BY <1>1
  <2>3. PICK k \in Nat : k = n + i - 1
    BY <2>2
  <2> QED
    BY <2>1, <2>3, MetaDataOfFile
<1> HIDE DEF file
<1>4. ASSUME NEW g \in gs
      PROVE  /\ IsFile(g) /\ g.entries \subseteq Contents(fs)
             /\ g.number >= n /\ g.number < n + Len(outs)
  <2>1. PICK i \in D : g = file(i)
    OBVIOUS
  <2>2. g.number = n + i - 1 /\ i \in 1 .. Len(outs)
    BY <1>1, <1>3, <2>1
  <2>3. g.number >= n /\ g.number < n + Len(outs)
    BY <1>1, <2>2
  <2> QED
    BY <1>1, <1>3, <2>1, <2>3
<1>5. ASSUME NEW g \in gs, NEW h \in gs
      PROVE  (g.number = h.number => g = h) /\ (g = h \/ Apart(g, h))
  <2>1. PICK i \in D : g = file(i)
    OBVIOUS
  <2>2. PICK j \in D : h = file(j)
    OBVIOUS
  <2>3. /\ i \in Nat /\ j \in Nat /\ g.number = n + i - 1 /\ h.number = n + j - 1
        /\ IsFile(g) /\ IsFile(h) /\ g.entries = outs[i] /\ h.entries = outs[j]
    BY <1>1, <1>3, <2>1, <2>2
  <2>4. g.number = h.number => i = j
    BY <2>3
  <2>5. i < j => Apart(g, h)
    BY <1>0, <2>3, AheadIsApart
  <2>6. j < i => Apart(g, h)
    BY <1>0, <2>3, AheadIsApart DEF Apart
  <2> QED
    BY <2>1, <2>2, <2>3, <2>4, <2>5, <2>6
<1>6. MustNotOverlap(gs)
  BY <1>5 DEF MustNotOverlap
<1> HIDE DEF gs
<1>7. gs = WrittenFiles(n, outs)
  BY DEF gs, file, WrittenFiles
<1> QED
  BY <1>2, <1>4, <1>5, <1>6, <1>7

AtLevel(m, n, b) == [m EXCEPT !.level = n, !.begin = b, !.pc = "idle"]

\* A manual compaction that is done with a level goes to the next one.
LEMMA NextLevelMoves ==
    ASSUME NEW m \in ManualStates, NEW n \in Nat, NEW b \in Nat
    PROVE  /\ AtLevel(m, n, b) \in ManualStates
           /\ AtLevel(m, n, b).level = n /\ AtLevel(m, n, b).top = m.top
BY DEF ManualStates, AtLevel

\* The start of a compaction: its output, and what it will lie next to.
LEMMA StartKeeps ==
    ASSUME TreeInv, Idle, NEW forManual \in BOOLEAN, NEW c, Chosen(c, version),
           ~forManual => Solid(c.in0 \cup c.in1), forManual => ManualOK',
           StartCompaction(c, forManual)
    PROVE  /\ MemInv' /\ FilesInv' /\ PointersInv'
           /\ snapshots' \subseteq 0 .. LastSequence' /\ split' \in BOOLEAN /\ crossed' \in BOOLEAN
           /\ (compaction = <<>> \/ Running(compaction))'
           /\ (crossed \/ \A l \in 1 .. NumLevels - 1 : MustNotOverlap(version[l]))'
<1> DEFINE ins == c.in0 \cup c.in1
           snap == IF snapshots = {} THEN LastSequence ELSE Min(snapshots)
           last == CHOOSE f \in c.in0 : \A g \in c.in0 : g = f \/ BySmallestKey(g, f)
<1>1. PICK outs : /\ outs = CompactionOutputs(version, c, snap)
                  /\ compaction' = [inputs |-> ins, level |-> c.level,
                          outs |-> {FileMetaData(nextFile + i - 1, outs[i]) : i \in DOMAIN outs},
                          manual |-> forManual, end |-> last.largest.key]
                  /\ nextFile' = nextFile + Len(outs)
                  /\ pointer' = [pointer EXCEPT ![c.level] = {c.pointer}]
                  /\ split' \in BOOLEAN
                  /\ UNCHANGED <<mem, imm, version, toCompact, snapshots, written, crossed, calls>>
  <2> HIDE DEF last
  <2> QED
    BY DEF StartCompaction, last
<1> HIDE DEF snap
<1>2. /\ c.level \in Levels /\ c.level + 1 \in Levels /\ c.level + 1 # 0
      /\ ins \subseteq version[c.level] \cup version[c.level + 1]
      /\ ins \subseteq FilesOf(version) /\ FileSet(ins) /\ FileSet(c.in0)
  BY ChosenFiles
<1>3. last.largest.key \in Nat
  <2>1. \E f \in c.in0 : \A g \in c.in0 : g = f \/ BySmallestKey(g, f)
    BY <1>2, FirstFileExists DEF Chosen
  <2>2. last \in c.in0
    BY <2>1
  <2> HIDE DEF last
  <2> QED
    BY <1>2, <2>2, FileKeys DEF FileSet
<1> HIDE DEF last
<1> DEFINE gs == {FileMetaData(nextFile + i - 1, outs[i]) : i \in DOMAIN outs}
<1>4. nextFile \in Nat /\ \A f \in FilesOf(version) : f.number < nextFile
  BY DEF TreeInv, FilesInv
<1>5. /\ outs \in Seq(SUBSET Contents(ins))
      /\ \A i \in DOMAIN outs : outs[i] # {}
      /\ \A i, j \in DOMAIN outs : i < j => Ahead(outs[i], outs[j])
  <2>1. FileSet(c.grandparents)
    BY DEF Chosen
  <2> QED
    BY <1>1, <1>2, <2>1, OutputsAreSorted
<1>6. /\ IsFiniteSet(gs)
      /\ \A g \in gs : /\ IsFile(g) /\ g.entries \subseteq Contents(ins)
                       /\ g.number >= nextFile /\ g.number < nextFile + Len(outs)
      /\ \A g, h \in gs : g.number = h.number => g = h
      /\ MustNotOverlap(gs)
  <2> HIDE DEF ins
  <2>1. OutputRuns(outs, ins)
    BY <1>5 DEF OutputRuns
  <2>2. gs = WrittenFiles(nextFile, outs)
    BY DEF WrittenFiles
  <2> HIDE DEF gs
  <2> QED
    BY <1>2, <1>4, <2>1, <2>2, OutputFiles
<1> HIDE DEF gs
<1>7. compaction' = [inputs |-> ins, level |-> c.level, outs |-> gs, manual |-> forManual,
                     end |-> last.largest.key]
  BY <1>1 DEF gs
<1> HIDE DEF ins
<1>8. /\ compaction'.inputs = ins /\ compaction'.level = c.level /\ compaction'.outs = gs
      /\ compaction'.manual = forManual /\ compaction'.end = last.largest.key
  BY <1>7
<1>9. FilesInv'
  <2>1. Len(outs) \in Nat
    BY <1>5
  <2>2. FileSet(FilesOf(version) \cup gs) /\ \A e \in Contents(FilesOf(version) \cup gs) : IsEntry(written, e)
    <3>1. written \in Seq(Operations)
      BY DEF TreeInv, MemInv
    <3>2. Contents(ins) \subseteq Contents(FilesOf(version))
      BY <1>2 DEF Contents
    <3>3. \A g \in gs : IsFile(g) /\ \A e \in g.entries : IsEntry(written, e)
      BY <1>6, <3>2, VersionFiles
    <3>4. \A f \in FilesOf(version), g \in gs : f.number < g.number
      <4>1. \A f \in FilesOf(version) : f.number \in Nat
        BY VersionFiles DEF FileSet, IsFile
      <4>2. \A g \in gs : g.number \in Nat
        BY <1>6 DEF IsFile
      <4> QED
        BY <1>4, <1>6, <4>1, <4>2
    <3> QED
      BY <1>6, <3>1, <3>3, <3>4, VersionFiles, MoreFiles
  <2>3. Outs' \subseteq gs
    BY <1>8 DEF Outs
  <2>4. (FilesOf(version) \cup Outs)' \subseteq FilesOf(version) \cup gs
    BY <1>1, <2>3
  <2> DEFINE new == (FilesOf(version) \cup Outs)'
             all == FilesOf(version) \cup gs
  <2>5. nextFile' \in Nat /\ \A f \in all : f.number < nextFile'
    <3>1. \A f \in FilesOf(version) : f.number \in Nat
      BY VersionFiles DEF FileSet, IsFile
    <3> QED
      BY <1>1, <1>4, <1>6, <2>1, <3>1
  <2> HIDE DEF new, all
  <2>6. FileSet(new) /\ Contents(new) \subseteq Contents(all)
    BY <2>2, <2>4, FileSubset DEF Contents, new, all
  <2>7. (\A e \in Contents(new) : IsEntry(written', e)) /\ \A f \in new : f.number < nextFile'
    BY <1>1, <2>2, <2>4, <2>5, <2>6 DEF new, all
  <2> QED
    BY <2>5, <2>6, <2>7 DEF FilesInv, new
<1>10. Running(compaction)'
  <2> DEFINE next == c.level + 1
  <2>1. c.level \in Nat /\ next < NumLevels
    BY DEF Chosen
  <2>2. crossed \/ \A o \in gs, g \in version[next] \ ins : Apart(g, o)
    <3> SUFFICES ASSUME ~crossed, NEW o \in gs, NEW g \in version[next], g \notin ins
                 PROVE  Apart(g, o)
      OBVIOUS
    <3>1. MustNotOverlap(version[next])
      BY <1>2, <2>1, VersionAssumption DEF TreeInv
    <3>2. g \notin c.in1
      BY DEF ins
    <3>3. Beside(g, ins)
      BY <3>1, <3>2, VersionFiles, UnchosenBeside DEF ins
    <3>4. IsFile(g)
      BY <1>2, VersionFiles DEF FileSet
    <3> QED
      BY <1>2, <1>6, <3>3, <3>4, BesideOutput
  <2>3. ~forManual => Solid(ins)
    BY DEF ins
  <2>4. \A o \in gs : IsFile(o) /\ o.entries \subseteq Contents(ins)
    BY <1>6
  <2>5. /\ version' = version /\ crossed' = crossed
    BY <1>1
  <2> QED
    BY <1>2, <1>3, <1>6, <1>8, <2>1, <2>2, <2>3, <2>4, <2>5 DEF Running
<1>11. MemInv' /\ LastSequence' = LastSequence
  BY <1>1, SameMemory DEF TreeInv
<1>12. PointersInv'
  BY <1>1, PointerMoves DEF TreeInv, PointersInv
<1>13. snapshots' \subseteq 0 .. LastSequence' /\ split' \in BOOLEAN /\ crossed' \in BOOLEAN
  BY <1>1, <1>11 DEF TreeInv, RestInv
<1>14. (crossed \/ \A l \in 1 .. NumLevels - 1 : MustNotOverlap(version[l]))'
  BY <1>1 DEF TreeInv
<1> QED
  BY <1>9, <1>10, <1>11, <1>12, <1>13, <1>14

\* A compaction by size or seeks starts.
LEMMA AutomaticKeeps == TreeInv /\ AutomaticCompaction => TreeInv'
<1> SUFFICES ASSUME TreeInv, AutomaticCompaction PROVE TreeInv'
  OBVIOUS
<1>1. Idle /\ NeedsCompaction /\ manual' = manual
  BY DEF AutomaticCompaction
<1>2. PICK c : c = Picked /\ StartCompaction(c, FALSE)
  BY DEF AutomaticCompaction
<1>3. Chosen(c, version) /\ Solid(c.in0 \cup c.in1)
  BY <1>1, <1>2, PickedLeavesNoGap
<1>4. /\ MemInv' /\ FilesInv' /\ PointersInv'
      /\ snapshots' \subseteq 0 .. LastSequence' /\ split' \in BOOLEAN /\ crossed' \in BOOLEAN
      /\ (compaction = <<>> \/ Running(compaction))'
      /\ (crossed \/ \A l \in 1 .. NumLevels - 1 : MustNotOverlap(version[l]))'
  BY <1>1, <1>2, <1>3, StartKeeps
<1>5. manual' = <<>> \/ ManualOK'
  BY <1>1 DEF TreeInv, RestInv, ManualOK
<1> QED
  BY <1>4, <1>5 DEF TreeInv, RestInv

\* A part of a manual compaction starts, or its level is done.
LEMMA ManualKeeps == TreeInv /\ ManualCompaction => TreeInv'
<1> SUFFICES ASSUME TreeInv, ManualCompaction PROVE TreeInv'
  OBVIOUS
<1> DEFINE cs == CompactRange(version, manual.level, manual.begin, manual.hi)
<1>1. Idle /\ ManualOK
  BY DEF ManualCompaction, Armed, TreeInv, RestInv
<1>2. /\ manual.lo \in Nat /\ manual.hi \in Nat /\ manual.begin \in Nat /\ manual.level \in Nat
      /\ manual.top \in Nat /\ manual.level < manual.top /\ manual.top < NumLevels
      /\ manual \in ManualStates
  BY <1>1 DEF ManualOK, ManualStates
<1> HIDE DEF cs
<1>3. CASE /\ manual' = IF manual.level + 1 = manual.top THEN <<>>
                        ELSE [manual EXCEPT !.level = @ + 1, !.begin = manual.lo, !.pc = "idle"]
           /\ UNCHANGED <<mem, imm, version, pointer, toCompact, nextFile, snapshots,
                          compaction, written, split, crossed, calls>>
  <2>1. manual' = <<>> \/ ManualOK'
    <3>1. CASE manual.level + 1 = manual.top
      BY <1>3, <3>1
    <3>2. CASE manual.level + 1 # manual.top
      <4> DEFINE m == [manual EXCEPT !.level = @ + 1, !.begin = manual.lo, !.pc = "idle"]
      <4>1. m \in ManualStates /\ m.level = manual.level + 1 /\ m.top = manual.top
        <5>1. PICK n \in Nat : n = manual.level + 1
          BY <1>2
        <5>2. m = AtLevel(manual, n, manual.lo)
          BY <5>1 DEF AtLevel
        <5> HIDE DEF m
        <5>3. manual \in ManualStates /\ manual.lo \in Nat
          BY <1>2
        <5>4. m \in ManualStates /\ m.level = n /\ m.top = manual.top
          BY <5>2, <5>3, NextLevelMoves
        <5> QED
          BY <5>1, <5>4
      <4>2. manual' = m
        BY <1>3, <3>2
      <4> HIDE DEF m
      <4>3. m.level < m.top /\ m.top < NumLevels
        BY <1>2, <3>2, <4>1
      <4> QED
        BY <4>1, <4>2, <4>3 DEF ManualOK
    <3> QED
      BY <3>1, <3>2
  <2>2. MemInv' /\ LastSequence' = LastSequence
    BY <1>3, SameMemory DEF TreeInv
  <2>3. PointersInv'
    BY <1>3, SamePointers DEF TreeInv
  <2>4. RestInv'
    BY <1>3, <2>1, <2>2 DEF TreeInv, RestInv
  <2>5. FilesInv'
    BY <1>3 DEF TreeInv, FilesInv, Outs
  <2>6. compaction' = <<>>
    BY <1>1, <1>3 DEF Idle
  <2>7. (crossed \/ \A l \in 1 .. NumLevels - 1 : MustNotOverlap(version[l]))'
    BY <1>3 DEF TreeInv
  <2> QED
    BY <2>2, <2>3, <2>4, <2>5, <2>6, <2>7 DEF TreeInv
<1>4. ASSUME NEW c \in cs, StartCompaction(c, TRUE), manual' = [manual EXCEPT !.pc = "running"]
      PROVE  TreeInv'
  <2>1. ManualOK'
    BY <1>2, <1>4, ManualMoves DEF ManualOK
  <2>2. Chosen(c, version)
    <3>1. manual.level + 1 < NumLevels
      BY <1>2, VersionAssumption
    <3> QED
      BY <1>2, <3>1, VersionFiles, CompactedRange DEF cs
  <2>3. /\ MemInv' /\ FilesInv' /\ PointersInv'
        /\ snapshots' \subseteq 0 .. LastSequence' /\ split' \in BOOLEAN /\ crossed' \in BOOLEAN
        /\ (compaction = <<>> \/ Running(compaction))'
        /\ (crossed \/ \A l \in 1 .. NumLevels - 1 : MustNotOverlap(version[l]))'
    BY <1>1, <1>4, <2>1, <2>2, StartKeeps
  <2> QED
    BY <2>1, <2>3 DEF TreeInv, RestInv
<1> QED
  BY <1>3, <1>4 DEF ManualCompaction, cs

\* The installation of a compaction's output.
LEMMA InstallKeeps == TreeInv /\ InstallCompaction => TreeInv'
<1> SUFFICES ASSUME TreeInv, InstallCompaction PROVE TreeInv'
  OBVIOUS
<1> DEFINE c == compaction
           next == c.level + 1
<1>1. /\ UNCHANGED <<mem, imm, pointer, nextFile, snapshots, written, split, crossed, calls>>
      /\ toCompact' = {} /\ compaction' = <<>> /\ compaction # <<>>
      /\ version' = Apply(version, c.inputs, next, c.outs)
  BY DEF InstallCompaction
<1>2. Running(compaction) /\ Outs = c.outs
  BY <1>1 DEF TreeInv, Outs
<1>3. /\ \A l \in Levels : version'[l] = (version[l] \ c.inputs) \cup (IF l = next THEN c.outs ELSE {})
      /\ FilesOf(version') \subseteq FilesOf(version) \cup c.outs
  BY <1>1, AppliedLevels
<1>4. FilesInv'
  <2>1. Outs' = {}
    BY <1>1 DEF Outs
  <2> QED
    BY <1>1, <1>2, <1>3, <2>1, FewerFiles
<1>5. ASSUME ~crossed, NEW l \in 1 .. NumLevels - 1 PROVE MustNotOverlap(version'[l])
  <2>1. l \in Levels /\ MustNotOverlap(version[l])
    BY <1>5, VersionAssumption DEF TreeInv, Levels
  <2>2. CASE l # next
    BY <1>3, <2>1, <2>2 DEF MustNotOverlap
  <2>3. CASE l = next
    <3>1. version'[l] = (version[l] \ c.inputs) \cup c.outs
      BY <1>3, <2>1, <2>3
    <3>2. /\ MustNotOverlap(c.outs)
          /\ \A o \in c.outs, g \in version[l] \ c.inputs : Apart(g, o)
      BY <1>2, <1>5, <2>3 DEF Running
    <3> HIDE DEF c
    <3> QED
      BY <2>1, <3>1, <3>2 DEF MustNotOverlap, Apart
  <2> QED
    BY <2>2, <2>3
<1>6. manual' = <<>> \/ ManualOK'
  <2>1. manual' = IF c.manual THEN [manual EXCEPT !.begin = c.end, !.pc = "idle"] ELSE manual
    BY DEF InstallCompaction
  <2>2. CASE c.manual
    <3> DEFINE m == [manual EXCEPT !.begin = c.end, !.pc = "idle"]
    <3>1. ManualOK /\ c.end \in Nat /\ manual' = m
      BY <1>2, <2>1, <2>2 DEF Running
    <3>2. manual \in ManualStates
      BY <3>1 DEF ManualOK
    <3> HIDE DEF c
    <3>3. m \in ManualStates /\ m.level = manual.level /\ m.top = manual.top
      BY <3>1, <3>2 DEF ManualStates
    <3> HIDE DEF m
    <3> QED
      BY <3>1, <3>3 DEF ManualOK
  <2>3. CASE ~c.manual
    BY <2>1, <2>3 DEF TreeInv, RestInv, ManualOK
  <2> QED
    BY <2>2, <2>3
<1>7. MemInv' /\ LastSequence' = LastSequence
  BY <1>1, SameMemory DEF TreeInv
<1>8. RestInv'
  BY <1>1, <1>6, <1>7 DEF TreeInv, RestInv
<1>9. PointersInv'
  BY <1>1 DEF TreeInv, PointersInv
<1> QED
  BY <1>1, <1>4, <1>5, <1>7, <1>8, <1>9 DEF TreeInv

-----------------------------------------------------------------------------
\* Every step keeps the invariant.
LEMMA TreeNextInv == TreeInv /\ [TreeNext]_treeVars => TreeInv'
<1> SUFFICES ASSUME TreeInv, [TreeNext]_treeVars PROVE TreeInv'
  OBVIOUS
<1>1. ASSUME NEW k \in Keys, NEW t \in Types, Write(k, t) PROVE TreeInv'
  BY <1>1, WriteKeeps
<1>2. CASE GetSnapshot \/ \E s \in snapshots : ReleaseSnapshot(s)
  BY <1>2, SnapshotKeeps
<1>3. CASE \/ \E k \in Keys : \E s \in snapshots \cup {LastSequence} : GetCharges(k, s)
           \/ \E l \in Levels : \E f \in version[l] : \E e \in f.entries : RecordReadSample(e)
  BY <1>3, ReadKeeps
<1>4. CASE CompactMemTable
  BY <1>4, CompactMemTableKeeps
<1>5. CASE TrivialMove
  BY <1>5, TrivialMoveKeeps
<1>6. CASE AutomaticCompaction
  BY <1>6, AutomaticKeeps
<1>7. CASE InstallCompaction
  BY <1>7, InstallKeeps
<1>8. ASSUME NEW r \in Ranges, CallCompactRange(r) PROVE TreeInv'
  BY <1>8, CallKeeps
<1>9. CASE ForceMemTable \/ MemTableForced \/ ArmManual
  BY <1>9, ManualWaitsKeep
<1>10. CASE ManualCompaction
  BY <1>10, ManualKeeps
<1>11. CASE UNCHANGED treeVars
  <2>1. UNCHANGED <<version, compaction, nextFile, crossed, pointer, toCompact, mem, imm, written,
                    snapshots, split, manual>>
    BY <1>11 DEF treeVars
  <2>2. MemInv' /\ LastSequence' = LastSequence
    BY <2>1, SameMemory DEF TreeInv
  <2>3. PointersInv'
    BY <2>1, SamePointers DEF TreeInv
  <2>4. ManualOK' <=> ManualOK
    BY <2>1 DEF ManualOK
  <2>5. RestInv'
    BY <2>1, <2>2, <2>4 DEF TreeInv, RestInv
  <2> QED
    BY <2>1, <2>2, <2>3, <2>4, <2>5, SameFiles DEF TreeInv
<1> QED
  BY <1>1, <1>2, <1>3, <1>4, <1>5, <1>6, <1>7, <1>8, <1>9, <1>10, <1>11 DEF TreeNext

\* In every reachable state the invariant holds, and with it what the run checks.
LEMMA TreeCorrect == TreeSpec => [](TreeTypeOK /\ UncrossedLevelsDisjoint /\ InputsStayCurrent)
<1>1. TreeSpec => []TreeInv
  BY TreeInitInv, TreeNextInv, PTL DEF TreeSpec
<1> QED
  BY <1>1, TreeInvImplies, PTL

\* A file that is charged for seeks still exists and has a level below it to go to, and
\* every file's entries and number have been handed out (PickCompaction relies on it).
THEOREM TreeTypes == TreeSpec => []TreeTypeOK
BY TreeCorrect, PTL

\* Builder::MaybeAddFile's "Must not overlap": whatever is written, read, flushed and
\* compacted, the files of a level above 0 are apart until a flush puts its file between
\* the inputs of a manual compaction.
THEOREM LevelsStayDisjoint == TreeSpec => []UncrossedLevelsDisjoint
BY TreeCorrect, PTL

\* The inputs of a running compaction are still the files of their levels when
\* InstallCompactionResults deletes them, although flushes install versions meanwhile.
THEOREM CompactionInputsStay == TreeSpec => []InputsStayCurrent
BY TreeCorrect, PTL
=============================================================================
